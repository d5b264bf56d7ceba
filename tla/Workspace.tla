------------------------------ MODULE Workspace ------------------------------
(***************************************************************************)
(* A workspace a user watches (workspace/service.py, workspace/observer.py *)
(* and the pages that show it, web/).  Clients attach, stop and ask; the   *)
(* daemon's observer alone reads the cluster, and writes what it found     *)
(* into documents that everybody reads.  One job, and its log, which       *)
(* changes when the job ends.  Time is counted in ticks of 90 seconds: a   *)
(* view is stale after one, and every remote call has timed out after one. *)
(***************************************************************************)
EXTENDS Naturals

CONSTANTS MaxClock,    \* bound: ticks
          MaxRequests  \* bound: inspections

VARIABLES clock,
          ended,      \* when the job ended
          space,      \* is the workspace enabled, and monitoring as a whole?
          view,       \* the view document
          sample,     \* Cluster._monitor_sample, in the daemon's memory
          observer,
          requests,   \* the inspection documents, all for the job's log
          asked

spaceVars == <<clock, ended, space, view, sample, observer, requests, asked>>

NEVER == MaxClock + 1
AGE == 1 \* ticks: snapshot's and the page's 90 s; a sample of 30 s may straddle one

NoSample == [exec |-> "none", at |-> 0]
Asleep == [pc |-> "idle", now |-> 0, found |-> "none", id |-> 0]
NoRequest == [state |-> "none", born |-> 0, joined |-> 0, at |-> 0, content |-> "none"]

SpaceInit ==
  /\ clock = 1
  /\ ended = NEVER
  /\ space = FALSE
  /\ view = [state |-> "UNOBSERVED", exec |-> "none", at |-> 0]
  /\ sample = NoSample
  /\ observer = Asleep
  /\ requests = [i \in 1..MaxRequests |-> NoRequest]
  /\ asked = 0

Outside == UNCHANGED <<clock, ended>>
Documents == <<space, view, requests>>

\* No call outlasts a tick: the observer's time-outs are 10 and 25 seconds.  A
\* sample too old to serve is as good as none.
TimePasses ==
  /\ clock < MaxClock
  /\ observer.pc # "idle" => observer.now = clock
  /\ clock' = clock + 1
  /\ sample' = IF sample.at + AGE > clock THEN sample ELSE NoSample
  /\ UNCHANGED <<ended, Documents, observer, asked>>

JobEnds ==
  /\ ended = NEVER
  /\ ended' = clock
  /\ UNCHANGED <<clock, Documents, sample, observer, asked>>

\* What squeue, then sacct, say: accounting follows late.
Scheduler == IF ended = NEVER THEN {"RUNNING"} ELSE {"COMPLETED", "UNKNOWN"}
Log == IF ended = NEVER THEN "old" ELSE "new"

------------------------------------------------------------------------------
(* Clients *)

Wanted(enabled) ==
  /\ space # enabled
  /\ space' = enabled
  /\ Outside
  /\ UNCHANGED <<view, requests, sample, observer, asked>>

\* select reads the workspace, asks the cluster where its root is, and writes a
\* new document without a transaction: what others wrote meanwhile is undone.
select == \E outdated \in BOOLEAN : Wanted(outdated)

\* A view is attached or given up; or monitor.control turns all monitoring off,
\* or on again.
subscribe == \E enabled \in BOOLEAN : Wanted(enabled)

\* A pending inspection of the same file is joined, and one answered within five
\* seconds: reading and those seconds together are less than a tick.
Joinable(r) ==
  /\ r.state = "QUEUED" \/ (r.state = "DONE" /\ r.at + AGE >= clock)

inspect_request ==
  LET joined == {i \in 1..asked : Joinable(requests[i])} IN
  /\ space
  /\ \/ /\ joined # {}
        /\ \E i \in joined : requests' = [requests EXCEPT ![i].joined = clock]
        /\ UNCHANGED asked
     \/ /\ joined = {}
        /\ asked < MaxRequests
        /\ asked' = asked + 1
        /\ requests' = [requests EXCEPT ![asked'] =
             [state |-> "QUEUED", born |-> clock, joined |-> clock, at |-> 0, content |-> "none"]]
  /\ Outside
  /\ UNCHANGED <<space, view, sample, observer>>

------------------------------------------------------------------------------
(* WorkspaceObserver.tick, on the monitor's thread *)

Observes(p) ==
  /\ observer' = p
  /\ Outside
  /\ UNCHANGED <<asked>>

\* Its turn has come (next_poll), as it may at any time.
observe ==
  /\ observer.pc = "idle"
  /\ space
  /\ Observes([Asleep EXCEPT !.pc = "collect", !.now = clock])
  /\ UNCHANGED <<space, view, requests, sample>>

\* An ended job is not asked for again, but after a refresh (force_refresh, left
\* to chance here).  A sample the watches or another view took serves again.
shared_collect ==
  /\ observer.pc = "collect"
  /\ \/ /\ view.exec = "COMPLETED"
        /\ Observes([observer EXCEPT !.pc = "save", !.found = "UNKNOWN"])
        /\ UNCHANGED sample
     \/ /\ sample # NoSample
        /\ Observes([observer EXCEPT !.pc = "save", !.found = sample.exec])
        /\ UNCHANGED sample
     \/ /\ sample.at < clock
        /\ \E s \in Scheduler :
             /\ Observes([observer EXCEPT !.pc = "save", !.found = s])
             /\ sample' = [exec |-> s, at |-> clock]
  /\ UNCHANGED <<space, view, requests>>

\* The connection, or the anchor of a root that was moved.
ObserveFails ==
  /\ observer.pc = "collect"
  /\ Observes([observer EXCEPT !.pc = "save", !.found = "failed"])
  /\ UNCHANGED <<space, view, requests, sample>>

\* A bug: a failed observation is dated as if it had seen something.
Restamped(found, now) ==
  [state |-> "HEALTHY", at |-> now,
   exec |-> IF found \in {"failed", "UNKNOWN"} THEN view.exec ELSE found]

\* An end that is known stays known, with its own age.
Observed(found, now) ==
  IF found = "failed" THEN [view EXCEPT !.state = "SUSPENDED"]
  ELSE [state |-> "HEALTHY", at |-> now,
        exec |-> IF found = "UNKNOWN" /\ view.exec = "COMPLETED" THEN "COMPLETED" ELSE found]

\* The view, then the workspace's next turn; whether it is enabled is left as a
\* concurrent stop has made it.
SaveView ==
  /\ observer.pc = "save"
  /\ view' = Observed(observer.found, observer.now)
  /\ Observes(Asleep)
  /\ UNCHANGED <<space, requests, sample>>

Queued == {i \in 1..asked : requests[i].state = "QUEUED"}
Oldest == CHOOSE i \in Queued : \A k \in Queued : i <= k

Answered(i, state, at, content) ==
  requests' = [requests EXCEPT ![i].state = state, ![i].born = 0, ![i].at = at, ![i].content = content]

\* Too old is thirty seconds: at a later tick, that may have passed or not.
inspect ==
  /\ observer.pc = "idle"
  /\ Queued # {}
  /\ \/ /\ space
        /\ requests[Oldest].born + AGE >= clock
        /\ Observes([Asleep EXCEPT !.pc = "read", !.now = clock, !.id = Oldest])
        /\ UNCHANGED requests
     \/ /\ ~space \/ requests[Oldest].born < clock
        /\ Answered(Oldest, "ERROR", 0, "none")
        /\ Observes(observer)
  /\ UNCHANGED <<space, view, sample>>

\* workspace_read, or browse for a listing.
ReadLog ==
  /\ observer.pc = "read"
  /\ Observes([observer EXCEPT !.pc = "answer", !.found = Log])
  /\ UNCHANGED <<space, view, requests, sample>>

ReadFails ==
  /\ observer.pc = "read"
  /\ Answered(observer.id, "ERROR", 0, "none")
  /\ Observes(Asleep)
  /\ UNCHANGED <<space, view, sample>>

\* The capture, dated at the start of the inspection, and the receipt.
Answer ==
  /\ observer.pc = "answer"
  /\ Answered(observer.id, "DONE", observer.now, observer.found)
  /\ Observes(Asleep)
  /\ UNCHANGED <<space, view, sample>>

\* The daemon ends, and another takes over: documents stay.
Dies ==
  /\ observer # Asleep \/ sample # NoSample
  /\ sample' = NoSample
  /\ Observes(Asleep)
  /\ UNCHANGED <<space, view, requests>>

SpaceNext ==
  \/ TimePasses
  \/ JobEnds
  \/ select
  \/ subscribe
  \/ inspect_request
  \/ observe
  \/ shared_collect
  \/ ObserveFails
  \/ SaveView
  \/ inspect
  \/ ReadLog
  \/ ReadFails
  \/ Answer
  \/ Dies

------------------------------------------------------------------------------
(* What a reader concludes *)

\* snapshot: what is shown as fresh.  It asks for a recent heartbeat too, which
\* would only make less of it fresh.
Fresh ==
  /\ space
  /\ view.state = "HEALTHY"
  /\ view.at + AGE >= clock

\* A job shown as running in a fresh view had not ended earlier than the age of
\* a view and that of a sample together.
FreshIsRecent == Fresh /\ view.exec = "RUNNING" => ended + AGE + AGE >= clock

\* A view never says of a job that it completed before it did.
EndIsReal == view.exec = "COMPLETED" => ended # NEVER

\* Whoever asked for the log is not answered with what it was much earlier.
AnsweredFromAfter ==
  \A i \in 1..asked :
    LET r == requests[i] IN
    r.state = "DONE" /\ r.content = "old" => ended + AGE >= r.joined /\ ended >= r.at
==============================================================================
