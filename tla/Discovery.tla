------------------------------ MODULE Discovery ------------------------------
(***************************************************************************)
(* Discovery of whatever a user has on a host (activity/discovery.py): a   *)
(* read of squeue, now and then one of sacct over a window that overlaps   *)
(* the previous one, a merge into the document the dashboard shows, and    *)
(* the events it tells.  One job, single or an array.  Time is counted in  *)
(* ticks of ten minutes, the overlap of the windows and the gap after      *)
(* which the observer catches up quietly.                                  *)
(***************************************************************************)
EXTENDS Naturals

CONSTANTS Tasks,    \* of the array; a single job is its task 1
          MaxClock  \* bound: ticks

VARIABLES clock,
          tasks,    \* the tasks the job has, none before it is submitted
          fate,     \* "RUNNING" (or pending), "OVER"
          ended,    \* when
          sacct,    \* what accounting has of a task, and since when, of an end
          doc,      \* the discovery document
          observer,
          news,     \* ends told
          quiet     \* an end was passed over: in a baseline, or with a death

discoveryVars == <<clock, tasks, fate, ended, sacct, doc, observer, news, quiet>>

OVERLAP == 1
GAP_REBASELINE == 1
NEVER == MaxClock + 1

Idle == [pc |-> "idle", now |-> 0, queue |-> {}, asked |-> FALSE, acct |-> [t \in Tasks |-> "none"],
         event |-> "none"]
NoDoc == [task |-> [t \in Tasks |-> "none"], last |-> "none", observed |-> 0, accounting |-> 0, baseline |-> FALSE]

DiscoveryInit ==
  /\ clock = 1
  /\ tasks = {}
  /\ fate = [t \in Tasks |-> "RUNNING"]
  /\ ended = [t \in Tasks |-> NEVER]
  /\ sacct = [t \in Tasks |-> [state |-> "none", at |-> 0]]
  /\ doc = NoDoc
  /\ observer = Idle
  /\ news = 0
  /\ quiet = FALSE

World == <<clock, tasks, fate, ended, sacct>>
Watched == <<doc, observer, news, quiet>>

\* An observation's calls time out within a tick.
TimePasses ==
  /\ clock < MaxClock
  /\ observer = Idle
  /\ clock' = clock + 1
  /\ UNCHANGED <<tasks, fate, ended, sacct, Watched>>

Submitted ==
  /\ tasks = {}
  /\ tasks' \in {{1}, Tasks}
  /\ UNCHANGED <<clock, fate, ended, sacct, Watched>>

TaskEnds(t) ==
  /\ t \in tasks /\ fate[t] = "RUNNING"
  /\ fate' = [fate EXCEPT ![t] = "OVER"]
  /\ ended' = [ended EXCEPT ![t] = clock]
  /\ UNCHANGED <<clock, tasks, sacct, Watched>>

\* slurmdbd follows, at its own pace.
AccountingFollows(t) ==
  /\ t \in tasks /\ sacct[t].state # fate[t]
  /\ sacct' = [sacct EXCEPT ![t] = [state |-> fate[t], at |-> IF fate[t] = "RUNNING" THEN 0 ELSE clock]]
  /\ UNCHANGED <<clock, tasks, fate, ended, Watched>>

------------------------------------------------------------------------------
(* DiscoveryObserver.observe *)

Goes(p) == observer' = p /\ UNCHANGED <<World, doc, news, quiet>>

\* The host is due, and enrolled: by a workspace, or by an open dashboard's lease.
squeue ==
  /\ observer.pc = "idle"
  /\ Goes([Idle EXCEPT !.pc = "queue", !.now = clock, !.queue = {t \in tasks : fate[t] = "RUNNING"}])

\* A read that fails changes only the error shown; the document keeps its jobs
\* and their age.
ReadFails == observer.pc = "queue" /\ Goes(Idle)

\* Not its minute, refused, or over its budget.
NoAccounting == observer.pc = "queue" /\ Goes([observer EXCEPT !.pc = "merge"])

\* A bug: each window starts where the last one ended.
InNextWindow(t) == doc.accounting = 0 \/ ended[t] >= doc.accounting

InWindow(t) == doc.accounting = 0 \/ ended[t] + OVERLAP >= doc.accounting

ReadAccounting ==
  /\ observer.pc = "queue"
  /\ Goes([observer EXCEPT !.pc = "merge", !.asked = TRUE,
             !.acct = [t \in Tasks |-> IF InWindow(t) THEN sacct[t].state ELSE "none"]])

\* The queue is right about what it lists; else accounting; else what was known.
\* What runs and is not in the queue has left it.
Merged(p, t) ==
  LET known == IF p.acct[t] # "none" THEN p.acct[t] ELSE doc.task[t]
  IN  IF t \in p.queue THEN "RUNNING"
      ELSE IF known = "RUNNING" THEN "UNKNOWN" ELSE known

\* slurm.aggregate_array over the tasks seen, with those that left unaccounted.
Rollup(task) ==
  LET seen == {task[t] : t \in Tasks} \ {"none"}
  IN  IF seen = {} THEN "none"
      ELSE IF "RUNNING" \in seen THEN "RUNNING"
      ELSE IF "UNKNOWN" \in seen THEN "UNKNOWN" ELSE "OVER"

\* A single job is task 1.
IsArray == \E t \in tasks : t # 1

\* New work, or another state than the one last known; a job that left the queue
\* is news when accounting says how it ended.  (Of an array, each failed task is
\* news too: left out.)
Event(p, task) ==
  LET old == IF Rollup(doc.task) = "UNKNOWN" THEN doc.last ELSE Rollup(doc.task)
      new == Rollup(task)
  IN  IF new \in {"none", "UNKNOWN", old} THEN "none" ELSE new

\* What was in the first scan, and what ran before it, is no news.
Backfill(p) == ~doc.baseline \/ p.now > doc.observed + GAP_REBASELINE
Sudden(p) == Rollup(doc.task) = "none" /\ p.queue = {}

merge ==
  LET p == observer
      task == [t \in Tasks |-> Merged(p, t)]
      left == Rollup(task) = "UNKNOWN" /\ ~IsArray
      last == IF ~left THEN "none" ELSE IF doc.last # "none" THEN doc.last ELSE "RUNNING"
      next == [task |-> task, last |-> last, observed |-> p.now,
               accounting |-> IF p.asked THEN p.now ELSE doc.accounting,
               baseline |-> TRUE]
  IN  /\ p.pc = "merge"
      /\ doc' = next
      /\ \E dropped \in {Backfill(p)} \union (IF Sudden(p) THEN {TRUE} ELSE {}) :
           /\ observer' = IF dropped \/ Event(p, task) = "none" THEN Idle
                          ELSE [Idle EXCEPT !.pc = "tell", !.now = clock, !.event = Event(p, task)]
           /\ quiet' = (quiet \/ (dropped /\ Event(p, task) = "OVER"))
      /\ UNCHANGED <<World, news>>

\* The events follow the document, one by one.
record ==
  /\ observer.pc = "tell"
  /\ news' = IF observer.event = "OVER" /\ news < 2 THEN news + 1 ELSE news
  /\ observer' = Idle
  /\ UNCHANGED <<World, doc, quiet>>

\* Between the document and its event the event is lost.
Dies ==
  /\ observer # Idle
  /\ observer' = Idle
  /\ quiet' = (quiet \/ observer.event = "OVER")
  /\ UNCHANGED <<World, doc, news>>

DiscoveryNext ==
  \/ TimePasses
  \/ Submitted
  \/ \E t \in Tasks : TaskEnds(t) \/ AccountingFollows(t)
  \/ squeue
  \/ ReadFails
  \/ NoAccounting
  \/ ReadAccounting
  \/ merge
  \/ record
  \/ Dies

------------------------------------------------------------------------------
(* What the dashboard may be trusted with *)

\* "Never still running": what is shown as running was in the queue when it says
\* it was seen.
RunningIsRecent == \A t \in Tasks : doc.task[t] = "RUNNING" => ended[t] >= doc.observed

\* An end that is shown is the task's end.
EndIsReal == \A t \in Tasks : doc.task[t] = "OVER" => fate[t] = "OVER"

\* An end that reached accounting within the overlap is found by the next read
\* of accounting, however long the reads before it failed.
EndIsFound ==
  \A t \in Tasks :
    sacct[t].state = "OVER" /\ sacct[t].at <= ended[t] + OVERLAP /\ doc.accounting > sacct[t].at =>
      doc.task[t] = fate[t]

\* The end of a single job is told once; it is passed over only in a baseline,
\* or with a death between the document and its event.
EndIsToldOnce ==
  ~IsArray =>
    /\ news <= 1
    /\ Rollup(doc.task) = "OVER" => news = 1 \/ quiet \/ observer.pc = "tell"
==============================================================================
