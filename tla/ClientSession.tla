--------------------------- MODULE ClientSession ---------------------------
(***************************************************************************)
(* The client's end of a stub connection (session.py, class Session and    *)
(* InFlight): the threads that call through one Session, its reader        *)
(* threads, and the restart of a stub whose connection was lost, composed  *)
(* with the stubs of StubServer.                                           *)
(*                                                                         *)
(* Call r is made by a thread of its own.  Streaming calls drain a queue,  *)
(* the others wait for a future; both are "waiting" here.  The lock is     *)
(* held across a whole start, so a start is two steps with the lock taken. *)
(***************************************************************************)
EXTENDS StubServer

CONSTANTS Nobody,       \* the lock is free
          MaxLost       \* bound: connections that end

ASSUME ClientSessionAssumption == Nobody \notin Calls

VARIABLES proc,         \* _proc: the stub of the session, 0 for None
          ready,        \* the _ready event
          remotePid,    \* the stub whose READY line was read last, 0 for None
          lock,         \* the thread inside _start_locked, or Nobody
          futures,      \* _pending: the requests whose future is registered
          streams,      \* _streams: the requests whose queue is registered
          answer,       \* what the future or the queue holds
          reader,       \* reader thread of each stub: "none", "reading", "eof", "done"
          pc,           \* where the thread of each call is
          gaveUp,       \* the calls whose InFlight was cancelled
          quitter       \* the cancelling thread of each: "none", "sending", "done"

sessionVars == <<proc, ready, remotePid, lock, futures, streams, answer, reader>>
callerVars  == <<pc, gaveUp, quitter>>
vars == <<stubVars, sessionVars, callerVars>>

Streaming(r) == op[r] = "follow"
KILLABLE_OPS == {"run", "srun"}    \* with an InFlight; a stream has none

SessionInit ==
  /\ proc = 0 /\ ready = FALSE /\ remotePid = 0 /\ lock = Nobody
  /\ futures = {} /\ streams = {}
  /\ answer = [r \in Calls |-> "none"]
  /\ reader = [g \in Stubs |-> "none"]
  /\ pc = [r \in Calls |-> IF op[r] = "none" THEN "done" ELSE "idle"]
  /\ gaveUp = {}
  /\ quitter = [r \in Calls |-> "none"]

Init == StubInit /\ SessionInit

-----------------------------------------------------------------------------
(* Parts of Session that run with the lock held *)

Polls(g) == g # 0 /\ link[g] = "up"        \* _proc.poll() is None
Alive == Polls(proc) /\ ready /\ remotePid # 0

\* A bug: the queues of open streams are not woken.
FailFutures ==
  /\ answer' = [r \in Calls |-> IF r \in futures /\ ~Streaming(r) /\ answer[r] = "none"
                                THEN "died" ELSE answer[r]]
  /\ futures' = {} /\ UNCHANGED streams

\* _fail_pending_locked: every registered future and queue gets the error.
FailPending ==
  /\ answer' = [r \in Calls |-> IF r \in futures \cup streams /\ answer[r] = "none"
                                THEN "died" ELSE answer[r]]
  /\ futures' = {} /\ streams' = {}

\* _kill_locked: forget the stub, close its pipes, fail what waits for it.
KillLocked ==
  /\ proc' = 0
  /\ link' = IF proc # 0 THEN [link EXCEPT ![proc] = "down"] ELSE link
  /\ FailPending
  /\ ready' = FALSE

NextStub == CHOOSE g \in Stubs : link[g] = "none" /\ \A h \in Stubs : h < g => link[h] # "none"
CanSpawn == \E g \in Stubs : link[g] = "none"

\* _start_locked up to the wait for READY.  What a lost stub left pending is
\* failed first (submit calls _kill_locked).
Spawning(t) ==
  /\ lock' = t
  /\ proc' = NextStub
  /\ link' = [link EXCEPT ![NextStub] = "up"]
  /\ stub' = [stub EXCEPT ![NextStub] = "serving"]
  /\ outbox' = [outbox EXCEPT ![NextStub] = <<Frame(t, "ready")>>]
  /\ reader' = [reader EXCEPT ![NextStub] = "reading"]
  /\ ready' = FALSE /\ remotePid' = 0
  /\ IF proc # 0 THEN FailPending ELSE UNCHANGED <<answer, futures, streams>>
  /\ UNCHANGED <<requests, inbox, work, registry, slurm, output>>

\* The end of submit: register the future, write the request.
Submitted(r) ==
  /\ futures' = futures \cup {r}
  /\ inbox' = [inbox EXCEPT ![proc] = Append(@, Request(r))]
  /\ sentTo' = [sentTo EXCEPT ![r] = proc]

MayLose == Cardinality({g \in Stubs : link[g] = "down"}) < MaxLost

-----------------------------------------------------------------------------
(* A call *)

Goto(r, there) == pc' = [pc EXCEPT ![r] = there]

\* tracker.add refuses a call its owner has given up; call_stream registers its
\* queue before it submits.
Enter(r) ==
  /\ pc[r] = "idle"
  /\ IF r \in gaveUp
     THEN Goto(r, "done") /\ UNCHANGED streams
     ELSE /\ Goto(r, "submit")
          /\ streams' = IF Streaming(r) THEN streams \cup {r} ELSE streams
  /\ UNCHANGED <<stubVars, proc, ready, remotePid, lock, futures, answer, reader,
                 gaveUp, quitter>>

\* submit on a live session.
SubmitAlive(r) ==
  /\ pc[r] = "submit" /\ lock = Nobody /\ Alive
  /\ Submitted(r)
  /\ Goto(r, "sent")
  /\ UNCHANGED <<op, outbox, link, stub, work, registry, slurm, output, proc, ready,
                 remotePid, lock, streams, answer, reader, gaveUp, quitter>>

\* submit on a session that is not alive starts another stub first, as
\* far as Stubs goes.
SubmitStarts(r) ==
  /\ pc[r] = "submit" /\ lock = Nobody /\ ~Alive /\ CanSpawn
  /\ Spawning(r)
  /\ Goto(r, "starting")
  /\ UNCHANGED <<gaveUp, quitter>>

\* _ready is set: by the stub's READY line, or by a reader that met EOF, which
\* may be the reader of an earlier stub.
Started(r) ==
  /\ pc[r] = "starting" /\ ready
  /\ lock' = Nobody
  /\ IF Polls(proc) /\ remotePid # 0
     THEN /\ Submitted(r) /\ Goto(r, "sent")
          /\ UNCHANGED <<proc, link, answer, streams, ready>>
     ELSE /\ KillLocked /\ Goto(r, "done")
          /\ UNCHANGED <<inbox, sentTo>>
  /\ UNCHANGED <<op, outbox, stub, work, registry, slurm, output, remotePid, reader,
                 gaveUp, quitter>>

\* No READY within READY_TIMEOUT.
StartTimesOut(r) ==
  /\ MayLose
  /\ pc[r] = "starting" /\ ~ready
  /\ lock' = Nobody
  /\ KillLocked
  /\ Goto(r, "done")
  /\ UNCHANGED <<requests, inbox, outbox, stub, work, registry, slurm, output,
                 remotePid, reader, gaveUp, quitter>>

\* Asked again after the request was written: a cancel sent by the quitter
\* before that reached nothing.  Streams are not tracked.
Recheck(r) ==
  /\ pc[r] = "sent"
  /\ Goto(r, IF r \in gaveUp THEN "cancel" ELSE "waiting")
  /\ UNCHANGED <<stubVars, sessionVars, gaveUp, quitter>>

\* The future or the queue delivers; a stream leaves its registrations and, if
\* the connection died, sends a cancel all the same.
Receive(r) ==
  /\ pc[r] = "waiting" /\ answer[r] # "none"
  /\ Goto(r, IF Streaming(r) /\ answer[r] = "died" THEN "cancel" ELSE "done")
  /\ streams' = streams \ {r}
  /\ futures' = futures \ {r}
  /\ UNCHANGED <<stubVars, proc, ready, remotePid, lock, answer, reader, gaveUp, quitter>>

\* The call's own timeout, or a consumer that stops iterating: deregister
\* first, then cancel.
GiveUpWaiting(r) ==
  /\ op[r] # "ping"
  /\ pc[r] = "waiting" /\ answer[r] = "none" /\ lock = Nobody
  /\ futures' = futures \ {r}
  /\ streams' = streams \ {r}
  /\ Goto(r, "cancel")
  /\ UNCHANGED <<stubVars, proc, ready, remotePid, lock, answer, reader, gaveUp, quitter>>

\* cancel(): nothing when the session is not alive, else a cancel frame.  The
\* answer to it is not waited for longer than 5 s and changes nothing.
CancelSent(r) ==
  IF Alive
  THEN lock = Nobody /\ inbox' = [inbox EXCEPT ![proc] = Append(@, Cancel(r))]
  ELSE UNCHANGED inbox

SendCancel(r) ==
  /\ pc[r] = "cancel"
  /\ CancelSent(r)
  /\ Goto(r, IF r \in futures THEN "waiting" ELSE "done")
  /\ UNCHANGED <<requests, outbox, link, stub, work, registry, slurm, output,
                 sessionVars, gaveUp, quitter>>

\* InFlight.cancel, called from another thread: the flag is set first, then a
\* cancel is sent for every tracked request.
CallerGivesUp(r) ==
  /\ r \notin gaveUp /\ op[r] \in KILLABLE_OPS /\ pc[r] # "done"
  /\ gaveUp' = gaveUp \cup {r}
  /\ quitter' = [quitter EXCEPT ![r] = IF pc[r] = "idle" THEN "done" ELSE "sending"]
  /\ UNCHANGED <<stubVars, sessionVars, pc>>

QuitterCancels(r) ==
  /\ quitter[r] = "sending"
  /\ CancelSent(r)
  /\ quitter' = [quitter EXCEPT ![r] = "done"]
  /\ UNCHANGED <<requests, outbox, link, stub, work, registry, slurm, output,
                 sessionVars, pc, gaveUp>>

\* _probe: a ping unanswered for PROBE_TIMEOUT kills the session's stub, also
\* one that another thread started in the meantime.
ProbeTimesOut(r) ==
  /\ op[r] = "ping" /\ pc[r] = "waiting" /\ answer[r] = "none" /\ lock = Nobody
  /\ Polls(proc) => MayLose
  /\ KillLocked
  /\ Goto(r, "done")
  /\ UNCHANGED <<requests, inbox, outbox, stub, work, registry, slurm, output,
                 remotePid, lock, reader, gaveUp, quitter>>

\* close(), or a timeout that finds the ssh master gone, kills the session
\* whatever stub it has by then.
KillSession ==
  /\ lock = Nobody /\ Polls(proc) /\ MayLose
  /\ KillLocked
  /\ UNCHANGED <<requests, inbox, outbox, stub, work, registry, slurm, output,
                 remotePid, lock, reader, callerVars>>

-----------------------------------------------------------------------------
(* The reader thread of stub g *)

\* READY, a chunk, or a terminal frame.  A frame for a request nobody waits
\* for is dropped.
ReadLine(g) ==
  /\ reader[g] = "reading" /\ outbox[g] # <<>>
  /\ LET f == Head(outbox[g])
         final == f.kind \in {"ok", "error", "cancelled"}
     IN  /\ f.kind = "chunk" \/ f.kind = "ready" \/ lock = Nobody
         /\ IF f.kind = "ready"
            THEN ready' = TRUE /\ remotePid' = g
            ELSE UNCHANGED <<ready, remotePid>>
         /\ answer' = IF final /\ f.id \in futures \cup streams
                      THEN [answer EXCEPT ![f.id] = f.kind] ELSE answer
         /\ futures' = IF final THEN futures \ {f.id} ELSE futures
  /\ outbox' = [outbox EXCEPT ![g] = Tail(@)]
  /\ UNCHANGED <<requests, inbox, link, stub, work, registry, slurm, output, proc,
                 lock, streams, reader, callerVars>>

\* EOF: unblock a start first, which may hold the lock ...
ReadEnd(g) ==
  /\ reader[g] = "reading" /\ link[g] = "down"
  /\ ready' = TRUE
  /\ outbox' = [outbox EXCEPT ![g] = <<>>]
  /\ reader' = [reader EXCEPT ![g] = "eof"]
  /\ UNCHANGED <<requests, inbox, link, stub, work, registry, slurm, output, proc,
                 remotePid, lock, futures, streams, answer, callerVars>>

\* ... then fail what waits, if the session still has this stub.
ReaderEnds(g) ==
  /\ reader[g] = "eof" /\ lock = Nobody
  /\ IF proc = g THEN FailPending ELSE UNCHANGED <<answer, futures, streams>>
  /\ reader' = [reader EXCEPT ![g] = "done"]
  /\ UNCHANGED <<stubVars, proc, ready, remotePid, lock, callerVars>>

\* The ssh client or the network fails under a stub.
LoseLink(g) ==
  /\ link[g] = "up" /\ MayLose
  /\ link' = [link EXCEPT ![g] = "down"]
  /\ UNCHANGED <<requests, inbox, outbox, stub, work, registry, slurm, output,
                 sessionVars, callerVars>>

-----------------------------------------------------------------------------
CallStep(r) ==
  \/ Enter(r) \/ SubmitAlive(r) \/ SubmitStarts(r)
  \/ Started(r) \/ Recheck(r) \/ Receive(r) \/ SendCancel(r)

ReaderStep(g) == ReadLine(g) \/ ReadEnd(g) \/ ReaderEnds(g)

Next ==
  \/ StubStep /\ UNCHANGED <<sessionVars, callerVars>>
  \/ \E r \in Calls :
       \/ CallStep(r) \/ QuitterCancels(r)
       \/ StartTimesOut(r) \/ ProbeTimesOut(r) \/ GiveUpWaiting(r) \/ CallerGivesUp(r)
  \/ \E g \in Stubs : ReaderStep(g) \/ LoseLink(g)
  \/ KillSession

\* Threads that can run do: the handlers, the readers and the callers.  Nothing
\* makes a child end or run into its timeout, a job start, a caller give up, a
\* link fail, or a followed file fall quiet.
Fairness ==
  /\ \A g \in Stubs : /\ WF_vars(ServeStep(g) /\ UNCHANGED <<sessionVars, callerVars>>)
                      /\ WF_vars(ReaderStep(g))
  /\ \A r \in Calls :
       /\ WF_vars(HandlerStep(r) /\ UNCHANGED <<sessionVars, callerVars>>)
       /\ WF_vars(CancelLook(r) /\ UNCHANGED <<sessionVars, callerVars>>)
       /\ WF_vars(CancelKill(r) /\ UNCHANGED <<sessionVars, callerVars>>)
       /\ WF_vars(event[r] = "set" /\ FollowEnds(r) /\ UNCHANGED <<sessionVars, callerVars>>)
       /\ WF_vars(CallStep(r)) /\ WF_vars(QuitterCancels(r)) 

Spec == Init /\ [][Next]_vars /\ Fairness

-----------------------------------------------------------------------------
\* A caller that waits with nothing to read is registered with the stub the
\* session has, or that stub's end is still to be reported by its reader: no
\* restart, kill or late reader leaves a call waiting for a stub that is gone
\* (session.py: _fail_pending_locked, _read_loop, _start_locked).
NoStrandedCall ==
  \A r \in Calls :
    pc[r] = "waiting" /\ answer[r] = "none" =>
      /\ r \in futures /\ sentTo[r] = proc
      /\ Streaming(r) => r \in streams
      /\ link[proc] = "down" => reader[proc] \in {"reading", "eof"}

\* A cleanup receipt that says confirmed is true for good: the invocation holds
\* no allocation and no request for one is under way.  When a stub has exited,
\* any allocation one of its sruns still holds was reported as unconfirmed
\* (stub.py: op_srun, _cleanup_compute, the end of serve).
NoHiddenAllocation ==
  \A r \in Calls :
    alloc[r] \in {"asked", "active"} =>
      /\ receipt[r] # "confirmed"
      /\ sentTo[r] # 0 /\ stub[sentTo[r]] = "exited" => receipt[r] = "unconfirmed"

Abandoned(r) == r \in gaveUp \/ pc[r] = "cancel"
Stopped(r) ==
  \/ sentTo[r] = 0 \/ link[sentTo[r]] = "down"
  \/ phase[r] = "done"
  \/ phase[r] = "queued" /\ r \in precancelled

\* What its caller has abandoned is stopped by the stub, wherever the cancel
\* met the request: before it was sent, in stdin, queued behind a busy pool,
\* between spawn and registration, or running.  It is not left to its own
\* timeout (session.py: InFlight, call; stub.py: _cancel, _register).
AbandonedIsStopped == \A r \in Calls : [](Abandoned(r) => <>[]Stopped(r))
=============================================================================
