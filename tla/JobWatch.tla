------------------------------ MODULE JobWatch ------------------------------
(***************************************************************************)
(* Persistent job watches (src/remoteslurm/job_monitor.py).  A watch is a  *)
(* row of a SQLite table that any client starts or stops.  The monitor     *)
(* thread of the one daemon that owns job-monitor.lock takes the rows that *)
(* are due, samples the scheduler, saves what it concludes, and raises a   *)
(* desktop notification once.  A daemon may die between any two steps.     *)
(***************************************************************************)
EXTENDS Naturals, FiniteSets

CONSTANTS Watches, Daemons, Tasks,
          Nobody  \* owns no lock

VARIABLES jobOf,      \* the job each task belongs to: one array, or single jobs
          fate,       \* the scheduler's truth about each task
          sacct,      \* what accounting says of it, which lags
          condition,  \* what each watch waits for
          row,        \* the watches table
          monitor,    \* the daemons' monitors
          monitorLock,
          told,       \* history: how often each watch notified
          answered,   \* history: watches whose stop was answered
          sighted     \* history: array tasks each watch has seen

watchVars == <<jobOf, fate, sacct, condition, row, monitor, monitorLock, told, answered, sighted>>
history   == <<told, answered, sighted>>
cluster   == <<jobOf, fate, sacct>>

Jobs == {jobOf[t] : t \in Tasks}
TasksOf(j) == {t \in Tasks : jobOf[t] = j}
IsArray(j) == Cardinality(TasksOf(j)) > 1

CONDITIONS == {"all_terminal", "any_failed", "all_terminal_or_any_failed"}

\* What one poll knows of a job; "seen" are the array tasks known of.
Unobserved == [terminal |-> FALSE, failed |-> FALSE, unknown |-> TRUE, seen |-> {}]
NoRow == [status |-> "none", reason |-> "none", delivery |-> "pending", observations |-> [t \in Tasks |-> Unobserved]]
NoSample == [t \in Tasks |-> "unread"]
Asleep(pc) == [pc |-> pc, due |-> [w \in Watches |-> NoRow], sample |-> NoSample, todo |-> {}]

WatchInit ==
  /\ jobOf \in {[t \in Tasks |-> t], [t \in Tasks |-> CHOOSE u \in Tasks : TRUE]}
  /\ fate = [t \in Tasks |-> "live"]
  /\ sacct = [t \in Tasks |-> "none"]
  /\ condition \in [Watches -> CONDITIONS]
  /\ row = [w \in Watches |-> NoRow]
  /\ monitor = [d \in Daemons |-> Asleep("off")]
  /\ monitorLock = Nobody
  /\ told = [w \in Watches |-> 0]
  /\ answered = {}
  /\ sighted = [w \in Watches |-> {}]

------------------------------------------------------------------------------
(* Clients *)

\* The id is a digest of the request: one that is there already is left alone.
start(w) ==
  /\ row[w].status = "none"
  /\ row' = [row EXCEPT ![w].status = "active"]
  /\ UNCHANGED <<cluster, condition, monitor, monitorLock, history>>

stop(w) ==
  /\ row[w].status = "active"
  /\ row' = [row EXCEPT ![w].status = "stopped"]
  /\ answered' = answered \union {w}
  /\ UNCHANGED <<cluster, condition, monitor, monitorLock, told, sighted>>

------------------------------------------------------------------------------
(* The monitor *)

Goes(d, m) == monitor' = [monitor EXCEPT ![d] = m]

\* A daemon that finds the lock taken serves without a monitor all its life.
\* Daemons are alike: where none runs it is always the same one that starts.
StartMonitor(d) ==
  /\ monitor[d].pc = "off"
  /\ (\A e \in Daemons : monitor[e].pc = "off") => d = CHOOSE first \in Daemons : TRUE
  /\ IF monitorLock = Nobody
       THEN Goes(d, Asleep("idle")) /\ monitorLock' = d
       ELSE Goes(d, Asleep("passive")) /\ UNCHANGED monitorLock
  /\ UNCHANGED <<cluster, condition, row, history>>

\* Told to stop between two rounds, the thread ends and the lock is given up.
\* A thread that is still busy after 55 seconds keeps it until the process ends.
close(d) ==
  /\ monitor[d].pc \in {"idle", "passive"}
  /\ Goes(d, Asleep("off"))
  /\ monitorLock' = IF monitorLock = d THEN Nobody ELSE monitorLock
  /\ UNCHANGED <<cluster, condition, row, history>>

\* The process ends, at any step of its thread.
Dies(d) ==
  /\ monitor[d].pc \notin {"off", "idle", "passive"}
  /\ Goes(d, Asleep("off"))
  /\ monitorLock' = Nobody
  /\ UNCHANGED <<cluster, condition, row, history>>

\* The round works on the rows as they are now.
due(d) ==
  /\ monitor[d].pc = "idle"
  /\ \E w \in Watches : row[w].status = "active"
  /\ Goes(d, [Asleep("queue") EXCEPT !.due = row, !.todo = {w \in Watches : row[w].status = "active"}])
  /\ UNCHANGED <<cluster, condition, row, monitorLock, history>>

\* Two queries, one after the other: of a task the queue's row counts before
\* accounting's record.
Squeue(d) ==
  /\ monitor[d].pc = "queue"
  /\ Goes(d, [monitor[d] EXCEPT !.pc = "accounting",
                                !.sample = [t \in Tasks |-> IF fate[t] = "live" THEN "live" ELSE "none"]])
  /\ UNCHANGED <<cluster, condition, row, monitorLock, history>>

collect(d) ==
  /\ monitor[d].pc = "accounting"
  /\ Goes(d, [monitor[d] EXCEPT !.pc = "merge",
                                !.sample = [t \in Tasks |-> IF @[t] = "live" THEN "live" ELSE sacct[t]]])
  /\ UNCHANGED <<cluster, condition, row, monitorLock, history>>

\* A query fails, is truncated, or the host now means another cluster: the
\* watches keep their observations, and are saved with the error.
CollectFails(d) ==
  /\ monitor[d].pc \in {"queue", "accounting"}
  /\ Goes(d, [monitor[d] EXCEPT !.pc = "merge", !.sample = NoSample])
  /\ UNCHANGED <<cluster, condition, row, monitorLock, history>>

Observed(j, sample) ==
  LET known == {t \in TasksOf(j) : sample[t] # "none"} IN
  [terminal |-> known # {} /\ \A t \in known : sample[t] \in {"ok", "bad"},
   failed   |-> \E t \in known : sample[t] = "bad",
   unknown  |-> known = {},
   seen     |-> IF IsArray(j) THEN known ELSE {}]

\* A bug: a task that is missing from a sample is taken for finished.
Forgetful(before, now) ==
  IF now.unknown /\ before.terminal THEN before ELSE now

\* An end once observed is retained when no source knows the job any more, and
\* an array of which a task has gone missing is not over.
Merged(before, now) ==
  IF now.unknown /\ before.terminal THEN before
  ELSE IF before.seen \subseteq now.seen THEN now
  ELSE [now EXCEPT !.unknown = TRUE, !.terminal = FALSE, !.seen = before.seen \union now.seen]

Concluded(w, old, sample) ==
  LET obs == [j \in Tasks |-> IF j \in Jobs THEN Merged(old.observations[j], Observed(j, sample)) ELSE Unobserved]
      complete == \A j \in Jobs : obs[j].terminal
      triggered == (\E j \in Jobs : obs[j].failed) /\ condition[w] # "all_terminal"
  IN  IF complete \/ triggered
        THEN [status |-> "finished", reason |-> IF triggered THEN "any_failed" ELSE "all_terminal",
              delivery |-> "unknown", observations |-> obs]
        ELSE [old EXCEPT !.observations = obs]

Resting(d, rest) ==
  IF rest = {} THEN Asleep("idle") ELSE [monitor[d] EXCEPT !.pc = "merge", !.todo = rest]

MaySave(w) == row[w].status = "active"

\* save: a stop that came in between wins.  The delivery is unknown from here
\* on, whatever becomes of the process.
save(d, w) ==
  LET new == IF monitor[d].sample = NoSample THEN monitor[d].due[w]
             ELSE Concluded(w, monitor[d].due[w], monitor[d].sample)
  IN  /\ monitor[d].pc = "merge"
      /\ w \in monitor[d].todo
      /\ row' = IF MaySave(w) THEN [row EXCEPT ![w] = new] ELSE row
      /\ IF MaySave(w) /\ new.status = "finished"
           THEN Goes(d, [monitor[d] EXCEPT !.pc = "notify", !.todo = {w} \union @, !.due[w] = new])
           ELSE Goes(d, Resting(d, monitor[d].todo \ {w}))
      /\ sighted' = [sighted EXCEPT ![w] = @ \union UNION {row'[w].observations[j].seen : j \in Jobs}]
      /\ UNCHANGED <<cluster, condition, monitorLock, told, answered>>

notify(d, w, ok) ==
  /\ monitor[d].pc = "notify"
  /\ w \in monitor[d].todo
  /\ monitor[d].due[w].status = "finished"
  /\ told' = IF ok THEN [told EXCEPT ![w] = @ + 1] ELSE told
  /\ Goes(d, [monitor[d] EXCEPT !.pc = IF ok THEN "sent" ELSE "failed"])
  /\ UNCHANGED <<cluster, condition, row, monitorLock, answered, sighted>>

delivered(d, w) ==
  /\ monitor[d].pc \in {"sent", "failed"}
  /\ w \in monitor[d].todo
  /\ monitor[d].due[w].status = "finished"
  /\ row' = [row EXCEPT ![w].delivery = monitor[d].pc]
  /\ Goes(d, Resting(d, monitor[d].todo \ {w}))
  /\ UNCHANGED <<cluster, condition, monitorLock, history>>

------------------------------------------------------------------------------
(* The scheduler *)

TaskEnds(t, how) ==
  /\ fate[t] = "live"
  /\ fate' = [fate EXCEPT ![t] = how]
  /\ UNCHANGED <<jobOf, sacct, condition, row, monitor, monitorLock, history>>

\* Accounting follows after a while, and later forgets.
AccountingFollows(t) ==
  /\ sacct[t] # fate[t]
  /\ sacct' = [sacct EXCEPT ![t] = fate[t]]
  /\ UNCHANGED <<jobOf, fate, condition, row, monitor, monitorLock, history>>

AccountingForgets(t) ==
  /\ sacct[t] \in {"ok", "bad"}
  /\ sacct' = [sacct EXCEPT ![t] = "none"]
  /\ UNCHANGED <<jobOf, fate, condition, row, monitor, monitorLock, history>>

WatchNext ==
  \/ \E w \in Watches : start(w) \/ stop(w)
  \/ \E d \in Daemons :
       \/ StartMonitor(d) \/ close(d) \/ Dies(d) \/ due(d) \/ Squeue(d) \/ collect(d) \/ CollectFails(d)
       \/ \E w \in Watches : save(d, w) \/ delivered(d, w) \/ (\E ok \in BOOLEAN : notify(d, w, ok))
  \/ \E t \in Tasks : \/ AccountingFollows(t) \/ AccountingForgets(t)
                      \/ \E how \in {"ok", "bad"} : TaskEnds(t, how)

------------------------------------------------------------------------------
(* Properties *)

\* A watch notifies at most once, never after a stop that was answered, and
\* its row never claims a delivery there was not: whatever daemons die between
\* saving, notifying and recording the delivery.
ToldOnce ==
  \A w \in Watches :
    /\ told[w] <= 1
    /\ w \in answered => row[w].status = "stopped" /\ told[w] = 0
    /\ row[w].delivery = "sent" => told[w] = 1
    /\ row[w].delivery = "pending" => told[w] = 0

\* What a finished watch reports is so.  Either a task did fail; or no single
\* job, and no array task the watch ever saw, still lives or failed unnoticed,
\* although accounting lags behind the queue and forgets.
FinishIsTrue ==
  \A w \in Watches : row[w].status = "finished" =>
    IF row[w].reason = "any_failed" THEN \E t \in Tasks : fate[t] = "bad"
    ELSE \A t \in Tasks : ~IsArray(jobOf[t]) \/ t \in sighted[w] =>
           /\ fate[t] # "live"
           /\ fate[t] = "bad" => row[w].observations[jobOf[t]].failed
==============================================================================
