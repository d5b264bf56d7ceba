----------------------------- MODULE JobTracking -----------------------------
(***************************************************************************)
(* Jobs as a client of src/remoteslurm/jobs.py knows them: submission,     *)
(* adoption, status, listing, cancellation, and the per-host registry that *)
(* all the processes of a user share.                                      *)
(*                                                                         *)
(* The registry is one JSON file.  Every change takes its flock, reads the *)
(* whole file, and replaces it (Lock, Replace); reads take no lock.  A     *)
(* status is pieced together from the queue (which each process caches),   *)
(* accounting, scontrol and the registry, at different times.              *)
(***************************************************************************)
EXTENDS Naturals, FiniteSets

CONSTANTS Clients,  \* processes: command lines, the MCP server, the daemon
          Singles,  \* job ids that are a single job, or one task of an array
          Arrays,   \* job ids of arrays, reported as one
          Nobody,   \* holds no lock
          MaxRequests  \* bound: operations asked for

VARIABLES subject,    \* the job this behaviour is about (a bound: one job)
          requests,   \* how many operations were asked for
          tasks,      \* the scheduler's truth: state of each task of each job
          accounted,  \* tasks with an accounting record
          overJobs,   \* history: jobs that were over at some time
          registry,   \* the registry file
          regLock,    \* the holder of the registry's flock
          client,     \* the client processes
          kept,       \* history: jobs recorded, and not pruned since
          toldOver    \* history: jobs a client was told are over, or that were pruned

jobVars == <<subject, requests, tasks, accounted, overJobs, registry, regLock, client, kept, toldOver>>
slurmSide == <<subject, tasks, accounted, overJobs>>

Jobs     == Singles \union Arrays
Tasks(j) == IF j \in Arrays THEN {1, 2} ELSE {1}
AllTasks == {k \in Jobs \X {1, 2} : k[2] \in Tasks(k[1])}

TERMINAL_STATES == {"COMPLETED", "FAILED", "CANCELLED", "NODE_FAIL"}
Live == {"PENDING", "RUNNING"}
is_terminal(s) == s \in TERMINAL_STATES

NoRecord == [state |-> "none", seen |-> "never"]
Record(state) == [state |-> state, seen |-> "now"]
NoChange == [kind |-> "rewrite"]
NoFile == [j \in Jobs |-> NoRecord]
Idle == [pc |-> "idle", op |-> "none", job |-> 0, refresh |-> FALSE, rec |-> NoRecord, rows |-> {},
         cached |-> FALSE, change |-> NoChange, then |-> "idle", copy |-> NoFile]

\* Nothing is submitted yet, or one job was and is recorded.
JobInit ==
  /\ subject \in Jobs
  /\ \E known \in SUBSET {subject} :
    /\ requests = 0
    /\ tasks = [k \in AllTasks |-> IF k[1] \in known THEN "PENDING" ELSE "none"]
    /\ accounted = {}
    /\ overJobs = {}
    /\ registry = [j \in Jobs |-> IF j \in known THEN Record("PENDING") ELSE NoRecord]
    /\ regLock = Nobody
    /\ client = [c \in Clients |-> Idle]
    /\ kept = known
    /\ toldOver = {}

------------------------------------------------------------------------------
(* The registry *)

\* c will change the registry, and goes on at pc "then".
Changing(c, p, change, then) ==
  client' = [client EXCEPT ![c] = [p EXCEPT !.pc = "lock", !.change = change, !.then = then]]

\* At rest, only what is cached of the queue stays, while anyone may ask again.
AtRest(p) == IF requests = MaxRequests THEN Idle ELSE [Idle EXCEPT !.rows = p.rows, !.cached = p.cached]
Done(c) == client' = [client EXCEPT ![c] = AtRest(client[c])]

Prunable(r) == r.seen = "ancient" /\ is_terminal(r.state)

\* put replaces a record, update changes one that is there, prune drops those
\* long over; preflight and the probe of a status write back what they read.
Applied(change, file) ==
  CASE change.kind = "put"     -> [file EXCEPT ![change.job] = Record(change.state)]
    [] change.kind = "update"  -> [file EXCEPT ![change.job] = IF @ = NoRecord THEN @ ELSE Record(change.state)]
    [] change.kind = "prune"   -> [j \in Jobs |-> IF Prunable(file[j]) THEN NoRecord ELSE file[j]]
    [] change.kind = "rewrite" -> file

MayLock(c) == client[c].pc = "lock" /\ regLock = Nobody

Lock(c) ==
  /\ MayLock(c)
  /\ regLock' = c
  /\ client' = [client EXCEPT ![c].pc = "locked", ![c].copy = registry]
  /\ UNCHANGED <<requests, slurmSide, registry, kept, toldOver>>

\* Dropping a record counts as saying that its job is over.
Replace(c) ==
  LET p == client[c] IN
  /\ p.pc = "locked"
  /\ registry' = Applied(p.change, p.copy)
  /\ regLock' = Nobody
  /\ kept' = IF p.change.kind = "put" THEN kept \union {p.change.job}
             ELSE IF p.change.kind = "prune" THEN kept \ {j \in Jobs : Prunable(p.copy[j])} ELSE kept
  /\ toldOver' = IF p.change.kind = "prune" THEN toldOver \union {j \in Jobs : Prunable(p.copy[j])} ELSE toldOver
  /\ IF p.then = "idle" THEN Done(c)
     ELSE client' = [client EXCEPT ![c].pc = p.then, ![c].copy = NoFile, ![c].change = NoChange]
  /\ UNCHANGED <<requests, slurmSide>>

\* An OSError: a submission or adoption is refused at once; a status, a listing,
\* and a submission that Slurm accepted go on without the registry.
RegistryFails(c) ==
  LET p == client[c] IN
  /\ p.pc \in {"lock", "locked"}
  /\ regLock' = IF p.pc = "locked" THEN Nobody ELSE regLock
  /\ IF p.then = "look" /\ p.op # "adopt"
       THEN client' = [client EXCEPT ![c].pc = "look", ![c].copy = NoFile, ![c].change = NoChange]
       ELSE Done(c)
  /\ UNCHANGED <<requests, slurmSide, registry, kept, toldOver>>

\* The kernel drops the flock of a process that dies.
Crash(c) ==
  /\ client[c].pc # "idle"
  /\ regLock' = IF regLock = c THEN Nobody ELSE regLock
  /\ client' = [client EXCEPT ![c] = Idle]
  /\ UNCHANGED <<requests, slurmSide, registry, kept, toldOver>>

------------------------------------------------------------------------------
(* Submission, adoption, cancellation *)

\* Bound: about an array one operation is asked for.  The processes are alike:
\* it is always the same one that asks first.
Asked(c) ==
  /\ client[c].pc = "idle"
  /\ requests = 0 => c = CHOOSE first \in Clients : TRUE
  /\ requests < IF subject \in Arrays THEN 1 ELSE MaxRequests
  /\ requests' = requests + 1

\* A submission proves first that the registry is writable.
submit(c) ==
  /\ Asked(c)
  /\ Changing(c, [client[c] EXCEPT !.op = "submit"], NoChange, "sbatch")
  /\ UNCHANGED <<slurmSide, registry, regLock, kept, toldOver>>

\* pack, and likewise sweep: the file of commands or parameters is written, a
\* wrapper submitted as an array, and the record annotated afterwards.
pack(c) ==
  /\ Asked(c)
  /\ subject \in Arrays
  /\ Changing(c, [client[c] EXCEPT !.op = "pack"], NoChange, "sbatch")
  /\ UNCHANGED <<slurmSide, registry, regLock, kept, toldOver>>

\* A record that is gone by then is not made again.
Annotate(c) ==
  /\ client[c].pc = "annotate"
  /\ IF registry[subject] = NoRecord THEN Done(c) ELSE Changing(c, AtRest(client[c]), NoChange, "idle")
  /\ UNCHANGED <<slurmSide, requests, registry, regLock, kept, toldOver>>

\* sbatch is refused, or its job recorded; without an answer nothing is.
CallSbatch(c, j) ==
  /\ client[c].pc = "sbatch"
  /\ \/ /\ \A k \in AllTasks : tasks[k] = "none"
        /\ tasks' = [k \in AllTasks |-> IF k[1] = j THEN "PENDING" ELSE tasks[k]]
        /\ \/ Changing(c, [client[c] EXCEPT !.cached = FALSE],
                       [kind |-> "put", job |-> j, state |-> "PENDING"],
                       IF client[c].op = "pack" THEN "annotate" ELSE "idle")
           \/ Done(c)
     \/ Done(c) /\ UNCHANGED tasks
  /\ UNCHANGED <<subject, requests, accounted, overJobs, registry, regLock, kept, toldOver>>

\* scancel; the queue is read anew afterwards.
cancel(c, j) ==
  /\ Asked(c)
  /\ client' = [client EXCEPT ![c].cached = FALSE, ![c].rows = {}]
  /\ tasks' = [k \in AllTasks |-> IF k[1] = j /\ tasks[k] \in Live THEN "CANCELLED" ELSE tasks[k]]
  /\ overJobs' = IF \E t \in Tasks(j) : tasks[<<j, t>>] \in Live THEN overJobs \union {j} ELSE overJobs
  /\ UNCHANGED <<subject, accounted, registry, regLock, kept, toldOver>>

------------------------------------------------------------------------------
(* Status *)

Query(c, op, change, refresh) ==
  /\ Asked(c)
  /\ Changing(c, [client[c] EXCEPT !.op = op, !.job = subject, !.refresh = refresh], change, "look")
  /\ UNCHANGED <<slurmSide, registry, regLock, kept, toldOver>>

job_status(c) == Query(c, "status", NoChange, FALSE)

\* Every poll of a wait is a status with a fresh queue.
wait(c) == Query(c, "wait", NoChange, TRUE)

\* A listing prunes first, and is content with the cached queue.
jobs(c) == Query(c, "jobs", [kind |-> "prune"], FALSE)

\* A job submitted elsewhere is recorded, if the scheduler knows it.
adopt(c) == Query(c, "adopt", NoChange, TRUE)

QueueRows == {<<k, tasks[k]>> : k \in {l \in AllTasks : tasks[l] \in Live}}

\* The record and the queue; rows younger than ten seconds are used again.
Look(c) ==
  LET p == client[c] IN
  /\ p.pc = "look"
  /\ \E rows \in {QueueRows} \union (IF p.cached /\ ~p.refresh THEN {p.rows} ELSE {}) :
       client' = [client EXCEPT ![c] = [p EXCEPT !.pc = "resolve", !.rec = registry[p.job],
                                                 !.rows = rows, !.cached = TRUE]]
  /\ UNCHANGED <<requests, slurmSide, registry, regLock, kept, toldOver>>

\* The states of the tasks that the queue, or else accounting, tells of.
Seen(j, rows) ==
  LET queued == {r \in rows : r[1][1] = j}
  IN  {r[2] : r \in queued} \union
      {tasks[k] : k \in {l \in accounted : l[1] = j /\ \A r \in queued : r[1] # l}}

aggregate_array(states) ==
  LET failed == states \intersect {"FAILED", "NODE_FAIL"} # {} IN
  CASE failed /\ "RUNNING" \notin states -> "FAILED"
    [] "RUNNING" \in states              -> "RUNNING"
    [] "PENDING" \in states              -> "PENDING"
    [] "CANCELLED" \in states /\ "COMPLETED" \notin states -> "CANCELLED"
    [] OTHER                             -> "COMPLETED"

Verdict(state, source, over) == [state |-> state, source |-> source, over |-> over]

\* A bug: a job that no source knows has completed.
AbsentIsDone(rec) == Verdict("COMPLETED", "unknown", TRUE)

\* A recorded end is retained for ever, another state for a grace period.
Retained(rec) ==
  IF is_terminal(rec.state) THEN Verdict(rec.state, "registry", TRUE)
  ELSE IF rec.seen = "now" THEN Verdict(rec.state, "registry", FALSE)
  ELSE Verdict("UNKNOWN", "unknown", FALSE)

\* scontrol, which only a single job is asked for, forgets what is over.
reconcile_job(c, control) ==
  LET p == client[c]
      live == IF p.refresh THEN QueueRows ELSE p.rows
      states == Seen(p.job, IF p.job \in Singles THEN live ELSE p.rows)
  IN  IF p.job \in Arrays
        THEN IF states # {} THEN Verdict(aggregate_array(states), "array", states \subseteq TERMINAL_STATES)
             ELSE LET v == Retained(p.rec) IN [v EXCEPT !.over = v.over \/ v.state = "UNKNOWN"]
        ELSE IF states # {} THEN LET s == CHOOSE s \in states : TRUE IN Verdict(s, "slurm", is_terminal(s))
             ELSE IF control /\ tasks[<<p.job, 1>>] # "none"
                    THEN Verdict(tasks[<<p.job, 1>>], "scontrol", is_terminal(tasks[<<p.job, 1>>]))
             ELSE Retained(p.rec)

\* The answer, and what it changes in the registry.  An adoption needs a source
\* and makes the record; the others update the one there was.
Resolve(c, control) ==
  LET v == reconcile_job(c, control)
      p == client[c]
  IN  /\ p.pc = "resolve"
      /\ toldOver' = IF v.over THEN toldOver \union {p.job} ELSE toldOver
      /\ IF p.op = "adopt" /\ v.source # "unknown"
           THEN Changing(c, AtRest(p), [kind |-> "put", job |-> p.job, state |-> v.state], "idle")
         ELSE IF p.op # "adopt" /\ p.rec # NoRecord /\ v.source # "registry"
           THEN Changing(c, AtRest(p), [kind |-> "update", job |-> p.job, state |-> v.state], "idle")
         ELSE Done(c)
      /\ UNCHANGED <<requests, slurmSide, registry, regLock, kept>>

\* squeue, sacct or the connection fails, and with it the status.
QueryFails(c) ==
  /\ client[c].pc \in {"look", "resolve"}
  /\ Done(c)
  /\ UNCHANGED <<requests, slurmSide, registry, regLock, kept, toldOver>>

------------------------------------------------------------------------------
(* The scheduler, and time *)

\* The cluster moves while somebody may still look.
Watched == requests < (IF subject \in Arrays THEN 1 ELSE MaxRequests) \/ \E c \in Clients : client[c].pc # "idle"

\* A job submitted by other means is there to be adopted.
JobMoves(j, t, s) ==
  /\ Watched
  /\ \/ s = "PENDING" /\ \A k \in AllTasks : tasks[k] = "none"
     \/ tasks[<<j, t>>] = "PENDING" /\ s = "RUNNING"
     \/ tasks[<<j, t>>] = "RUNNING" /\ s = IF t = 1 THEN "NODE_FAIL" ELSE "FAILED"
     \/ tasks[<<j, t>>] = "RUNNING" /\ s = "COMPLETED"
     \/ tasks[<<j, t>>] = "NODE_FAIL" /\ j \in Singles /\ s = "PENDING"
  /\ tasks' = [k \in AllTasks |-> IF k = <<j, t>> \/ (k[1] = j /\ tasks[k] = "none") THEN s ELSE tasks[k]]
  /\ overJobs' = IF \A u \in Tasks(j) : is_terminal(tasks'[<<j, u>>]) THEN overJobs \union {j} ELSE overJobs
  /\ UNCHANGED <<subject, requests, accounted, registry, regLock, client, kept, toldOver>>

\* Accounting learns of a task late, and forgets it in the end.
AccountingChanges(k) ==
  /\ Watched
  /\ tasks[k] # "none"
  /\ \/ k \notin accounted /\ accounted' = accounted \union {k}
     \/ is_terminal(tasks[k]) /\ k[1] \in Singles /\ accounted' = accounted \ {k}
  /\ UNCHANGED <<subject, requests, tasks, overJobs, registry, regLock, client, kept, toldOver>>

Older(r) == [r EXCEPT !.seen = CASE @ = "now" -> "old" [] @ = "old" -> "ancient" [] OTHER -> @]

\* The grace period, and then the pruning interval, go by.
TimePasses ==
  /\ Watched
  /\ \E j \in Jobs : registry[j].seen \in {"now", "old"}
  /\ \A c \in Clients : client[c].pc = "idle"
  /\ registry' = [j \in Jobs |-> Older(registry[j])]
  /\ client' = [c \in Clients |-> Idle]
  /\ UNCHANGED <<requests, slurmSide, regLock, kept, toldOver>>

JobNext ==
  \/ \E c \in Clients : \/ submit(c) \/ pack(c) \/ Annotate(c) \/ job_status(c) \/ wait(c) \/ jobs(c) \/ adopt(c)
                        \/ Look(c) \/ QueryFails(c)
                        \/ Lock(c) \/ Replace(c) \/ RegistryFails(c) \/ Crash(c)
                        \/ \E control \in BOOLEAN : Resolve(c, control)
                        \/ CallSbatch(c, subject) \/ cancel(c, subject)
  \/ \E t \in Tasks(subject) : \/ AccountingChanges(<<subject, t>>)
                                \/ \E s \in Live \union TERMINAL_STATES : JobMoves(subject, t, s)
  \/ TimePasses

------------------------------------------------------------------------------
(* Properties *)

\* A job that was recorded stays so until it is pruned, however the processes
\* that share the file interleave and die.
NoLostRecord == \A j \in kept : registry[j] # NoRecord

\* Of a single job nobody is told that it is over, and its record is not pruned,
\* before it was: not by a source that does not know it, a cached queue, the
\* accounting that lags, or the record of another client.
TerminalIsReal == toldOver \intersect Singles \subseteq overJobs
==============================================================================
