-------------------------- MODULE StoreLeaseProofs ---------------------------
(***************************************************************************)
(* The lease of StoreLease excludes, for any number of processes and login *)
(* nodes, as long as no holder is killed and none outlives TASK_LOCK_STALE.*)
(* Both conditions are needed: run lease_race shows what one death allows. *)
(***************************************************************************)
EXTENDS StoreLease, FiniteSetTheorems, TLAPS

USE StoreLeaseAssumption

\* Nobody died, so every directory at the path has its one live holder, is
\* young, and is never judged stale.
Undisturbed ==
  /\ TypeOK
  /\ dead = {}
  /\ old \intersect {lockdir} = {}
  /\ \A p \in Procs :
       /\ pc[p] # "breaking"
       /\ pc[p] \in Holding =>
            /\ lockdir \in Dirs
            /\ mine[p] = lockdir
            /\ owner[lockdir] = IF pc[p] = "critical" THEN p ELSE NoOwner
  /\ \A p, q \in Procs : pc[p] \in Holding /\ pc[q] \in Holding => p = q
  /\ lockdir # NoDir => \E p \in Procs : pc[p] \in Holding

\* An idle store is undisturbed.
LEMMA InitUndisturbed == Init => Undisturbed
BY DEF Init, Undisturbed, TypeOK, Holding

\* Nothing looks stale in it.
LEMMA NothingStale ==
  ASSUME Undisturbed, NEW p \in Procs
  PROVE  ~LooksStale(p)
BY DEF Undisturbed, LooksStale

\* Every step of a patient, immortal process keeps it so.
LEMMA StepUndisturbed ==
  ASSUME MaxDeaths = 0, SlowHolders = FALSE, Undisturbed, [Next]_vars
  PROVE  Undisturbed'
<1> USE DEF Undisturbed, TypeOK, Holding, Goto
<1>1. ASSUME NEW p \in Alive, Ask(p) \/ MakeDirFails(p) \/ Judge(p) \/ GiveUp(p)
      PROVE  Undisturbed'
  BY <1>1, NothingStale DEF Ask, MakeDirFails, Judge, GiveUp, Alive
<1>2. ASSUME NEW p \in Alive, MakeDir(p) PROVE Undisturbed'
  BY <1>2 DEF MakeDir, Alive
<1>3. ASSUME NEW p \in Alive, WriteOwner(p) PROVE Undisturbed'
  BY <1>3 DEF WriteOwner, Alive
<1>4. ASSUME NEW p \in Alive, Break(p) PROVE Undisturbed'
  BY <1>4 DEF Break, Alive
<1>5. ASSUME NEW p \in Alive, RemoveOwner(p) PROVE Undisturbed'
  BY <1>5 DEF RemoveOwner, Alive
<1>6. ASSUME NEW p \in Alive, RemoveDir(p) PROVE Undisturbed'
  BY <1>6 DEF RemoveDir, Alive
<1>7. ASSUME NEW p \in Alive, Killed(p) PROVE Undisturbed'
  BY <1>7, FS_EmptySet DEF Killed
<1>8. CASE Ages
  BY <1>8 DEF Ages, Alive
<1>9. CASE UNCHANGED vars
  BY <1>9 DEF vars
<1>10. QED
  BY <1>1, <1>2, <1>3, <1>4, <1>5, <1>6, <1>7, <1>8, <1>9 DEF Next, Step

\* The premise under which every durable submission of the stub is made: two
\* processes are never inside one lease together, on one login node or many.
THEOREM LeaseExcludes ==
  ASSUME MaxDeaths = 0, SlowHolders = FALSE
  PROVE  Spec => []MutualExclusion
<1>1. Undisturbed => MutualExclusion
  BY DEF Undisturbed, MutualExclusion, Holding, Alive
<1>2. Undisturbed /\ [Next]_vars => Undisturbed'
  BY StepUndisturbed
<1>3. QED
  BY <1>1, <1>2, InitUndisturbed, PTL DEF Spec

\* Nobody breaks or removes the directory of a holder that is inside.
THEOREM HolderUndisturbed ==
  ASSUME MaxDeaths = 0, SlowHolders = FALSE
  PROVE  Spec => []HolderKeepsLease
<1>1. Undisturbed => HolderKeepsLease
  BY DEF Undisturbed, HolderKeepsLease, Holding, Alive
<1>2. Undisturbed /\ [Next]_vars => Undisturbed'
  BY StepUndisturbed
<1>3. QED
  BY <1>1, <1>2, InitUndisturbed, PTL DEF Spec

\* Every variable of the lease keeps its type, whoever dies and however old a
\* directory grows.
THEOREM Typed == Spec => []TypeOK
<1> USE DEF TypeOK, Holding, Goto
<1>1. Init => TypeOK
  BY DEF Init
<1>2. TypeOK /\ [Next]_vars => TypeOK'
  <2> SUFFICES ASSUME TypeOK, [Next]_vars PROVE TypeOK'
    OBVIOUS
  <2>1. ASSUME NEW p \in Alive, Ask(p) \/ Step(p) \/ GiveUp(p) \/ Killed(p)
        PROVE  TypeOK'
    BY <2>1 DEF Alive, Ask, Step, MakeDir, MakeDirFails, WriteOwner, Judge, Break, GiveUp,
                RemoveOwner, RemoveDir, Killed
  <2>2. CASE Ages
    BY <2>2 DEF Ages
  <2>3. CASE UNCHANGED vars
    BY <2>3 DEF vars
  <2>4. QED
    BY <2>1, <2>2, <2>3 DEF Next
<1>3. QED
  BY <1>1, <1>2, PTL DEF Spec
==============================================================================
