----------------------------- MODULE StoreLease ------------------------------
(***************************************************************************)
(* The lease directory behind every durable store of the stub              *)
(* (src/remoteslurm/stub.py, _task_lock and _campaign_lock, the same       *)
(* protocol twice): mkdir takes it, owner.json names the holder, a lease   *)
(* whose owner is dead or whose directory is older than TASK_LOCK_STALE is *)
(* renamed away, and the holder gives it back by removing owner.json and   *)
(* the directory.  Every file operation but mkdir goes by path, whatever   *)
(* directory the path names by then; each is a step of its own here.       *)
(***************************************************************************)
EXTENDS FiniteSets, Naturals

CONSTANTS Procs,       \* stub processes
          HostOf,      \* the login node of each
          Dirs,        \* identities of directories (inodes)
          NoDir,       \* the path names nothing
          NoOwner,     \* a directory without owner.json
          MaxDeaths,   \* bound: processes that may be killed
          SlowHolders  \* a live holder may keep a lease past TASK_LOCK_STALE

ASSUME StoreLeaseAssumption ==
  /\ NoDir \notin Dirs
  /\ NoOwner \notin Procs
  /\ MaxDeaths \in Nat
  /\ SlowHolders \in BOOLEAN

VARIABLES lockdir,  \* the directory the path <task>.lock names
          owner,    \* the owner.json in each directory
          old,      \* directories whose mtime is more than 180 s ago
          mine,     \* the directory each process made
          pc,
          dead      \* processes that were killed

vars == <<lockdir, owner, old, mine, pc, dead>>

Alive == Procs \ dead
Holding == {"owning", "critical", "releasing"}

Init ==
  /\ lockdir = NoDir
  /\ owner = [d \in Dirs |-> NoOwner]
  /\ old = {}
  /\ mine = [p \in Procs |-> NoDir]
  /\ pc = [p \in Procs |-> "idle"]
  /\ dead = {}

Goto(p, phase) == pc' = [pc EXCEPT ![p] = phase]

\* A directory nobody can tell from a new one.
Unused(d) == d # lockdir /\ \A q \in Alive : mine[q] # d

Ask(p) ==
  /\ pc[p] = "idle"
  /\ Goto(p, "trying")
  /\ UNCHANGED <<lockdir, owner, old, mine, dead>>

MakeDir(p) ==
  /\ pc[p] = "trying"
  /\ lockdir = NoDir
  /\ \E d \in Dirs :
       /\ Unused(d)
       /\ lockdir' = d
       /\ owner' = [owner EXCEPT ![d] = NoOwner]
       /\ mine' = [mine EXCEPT ![p] = d]
       /\ old' = old \ {d}
  /\ Goto(p, "owning")
  /\ UNCHANGED dead

\* A bug: the loop sleeps in a phase nothing leaves.
SleepForever(p) ==
  /\ pc[p] = "trying"
  /\ lockdir # NoDir
  /\ Goto(p, "sleeping")
  /\ UNCHANGED <<lockdir, owner, old, mine, dead>>

MakeDirFails(p) ==
  /\ pc[p] = "trying"
  /\ lockdir # NoDir
  /\ Goto(p, "checking")
  /\ UNCHANGED <<lockdir, owner, old, mine, dead>>

\* owner.json goes into the directory the path names now; a new entry makes
\* that directory young again.  Without one, the request ends in an error.
WriteOwner(p) ==
  /\ pc[p] = "owning"
  /\ IF lockdir = NoDir
       THEN /\ Goto(p, "idle")
            /\ mine' = [mine EXCEPT ![p] = NoDir]
            /\ UNCHANGED <<owner, old>>
       ELSE /\ Goto(p, "critical")
            /\ owner' = [owner EXCEPT ![lockdir] = p]
            /\ old' = old \ {lockdir}
            /\ UNCHANGED mine
  /\ UNCHANGED <<lockdir, dead>>

\* Bugs: the pid is looked up on the wrong host; a lease not named yet is
\* taken for abandoned; age is not looked at.
StaleOnOtherHost(p) ==
  /\ lockdir # NoDir
  /\ \/ /\ owner[lockdir] # NoOwner
        /\ owner[lockdir] \in dead \/ HostOf[owner[lockdir]] # HostOf[p]
     \/ lockdir \in old

StaleWithoutOwner(p) ==
  /\ lockdir # NoDir
  /\ owner[lockdir] \in dead \union {NoOwner} \/ lockdir \in old

StaleByOwnerOnly(p) ==
  /\ lockdir # NoDir
  /\ owner[lockdir] \in dead
  /\ HostOf[owner[lockdir]] = HostOf[p]

\* _task_lock_owner_dead: kill(pid, 0) on this host only, otherwise by age.
LooksStale(p) ==
  /\ lockdir # NoDir
  /\ \/ /\ owner[lockdir] \in dead
        /\ HostOf[owner[lockdir]] = HostOf[p]
     \/ lockdir \in old

Judge(p) ==
  /\ pc[p] = "checking"
  /\ Goto(p, IF LooksStale(p) THEN "breaking" ELSE "trying")
  /\ UNCHANGED <<lockdir, owner, old, mine, dead>>

\* _task_break_stale_lock: whatever the path names is renamed away and deleted.
Break(p) ==
  /\ pc[p] = "breaking"
  /\ lockdir' = NoDir
  /\ Goto(p, "trying")
  /\ UNCHANGED <<owner, old, mine, dead>>

\* Ten seconds passed: task_busy, store_conflict.
GiveUp(p) ==
  /\ pc[p] = "checking"
  /\ ~LooksStale(p)
  /\ Goto(p, "idle")
  /\ UNCHANGED <<lockdir, owner, old, mine, dead>>

RemoveOwner(p) ==
  /\ pc[p] = "critical"
  /\ IF lockdir = NoDir
       THEN UNCHANGED <<owner, old>>
       ELSE /\ owner' = [owner EXCEPT ![lockdir] = NoOwner]
            /\ old' = IF owner[lockdir] = NoOwner THEN old ELSE old \ {lockdir}
  /\ Goto(p, "releasing")
  /\ UNCHANGED <<lockdir, mine, dead>>

\* rmdir refuses a directory that is not empty; every error is swallowed.
RemoveDir(p) ==
  /\ pc[p] = "releasing"
  /\ lockdir' = IF lockdir # NoDir /\ owner[lockdir] = NoOwner THEN NoDir ELSE lockdir
  /\ mine' = [mine EXCEPT ![p] = NoDir]
  /\ Goto(p, "idle")
  /\ UNCHANGED <<owner, old, dead>>

Step(p) ==
  \/ MakeDir(p)
  \/ MakeDirFails(p)
  \/ WriteOwner(p)
  \/ Judge(p)
  \/ Break(p)
  \/ RemoveOwner(p)
  \/ RemoveDir(p)

Killed(p) ==
  /\ Cardinality(dead) < MaxDeaths
  /\ pc[p] # "idle"
  /\ dead' = dead \union {p}
  /\ UNCHANGED <<lockdir, owner, old, mine, pc>>

\* TASK_LOCK_STALE passes without a change in the directory.
Ages ==
  /\ lockdir # NoDir
  /\ lockdir \notin old
  /\ SlowHolders \/ \A p \in Alive : pc[p] \in Holding => mine[p] # lockdir
  /\ old' = old \union {lockdir}
  /\ UNCHANGED <<lockdir, owner, mine, pc, dead>>

Next ==
  \/ \E p \in Alive : Ask(p) \/ Step(p) \/ GiveUp(p) \/ Killed(p)
  \/ Ages

Spec == Init /\ [][Next]_vars

\* The operating system runs every live process and time passes; requests keep
\* arriving.
FairSpec ==
  /\ Spec
  /\ \A p \in Procs : WF_vars(p \in Alive /\ (Ask(p) \/ Step(p)))
  /\ WF_vars(Ages)

------------------------------------------------------------------------------
(* Properties *)

TypeOK ==
  /\ lockdir \in Dirs \union {NoDir}
  /\ owner \in [Dirs -> Procs \union {NoOwner}]
  /\ old \subseteq Dirs
  /\ mine \in [Procs -> Dirs \union {NoDir}]
  /\ pc \in [Procs -> {"idle", "trying", "checking", "breaking"} \union Holding]
  /\ dead \subseteq Procs

\* The lease protects the read-modify-write of task.json and of the ledger:
\* two live processes are never inside it together.
MutualExclusion ==
  \A p, q \in Alive : pc[p] = "critical" /\ pc[q] = "critical" => p = q

\* A holder keeps its directory: nobody breaks or removes the lease of a live
\* process that is inside.
HolderKeepsLease ==
  \A p \in Alive : pc[p] = "critical" => lockdir = mine[p] /\ owner[lockdir] = p

\* A killed holder does not wedge the store: its directory leaves the path.
DeadLeaseBroken ==
  \A p \in Procs :
    (p \in dead /\ mine[p] # NoDir /\ lockdir = mine[p])
      ~> (Alive = {} \/ lockdir # mine[p])
==============================================================================
