----------------------------- MODULE StubServer -----------------------------
(***************************************************************************)
(* The stub: the process started on the login node that reads one request  *)
(* per line from stdin, runs each on a pool thread and writes one frame    *)
(* per line to stdout (stub.py, class Server, and the cancellable ops run, *)
(* srun and follow).  A later connection has a stub of its own; the stubs  *)
(* share nothing, and a request is sent to at most one, so the registries  *)
(* of all stubs are kept in one set each.                                  *)
(*                                                                         *)
(* One action per step between two points where another thread can run:    *)
(* every critical section of reg_lock, the spawn of a child, the child's   *)
(* end, and the terminal frame.  Output bytes are abstracted to chunk      *)
(* frames; clocks to nondeterminism.                                       *)
(***************************************************************************)
EXTENDS Naturals, Sequences, FiniteSets

CONSTANTS Calls,        \* request ids, one per call of a client
          Stubs,        \* 1 .. number of stub processes ever started
          MaxChunks,    \* bound: chunks one request emits
          Mixes         \* the operations the calls may ask for, [Calls -> Ops]

VARIABLES op,           \* op[r]: what the request asks for
          sentTo,       \* the stub whose stdin got the request, 0 if none
          inbox,        \* stdin of each stub
          outbox,       \* stdout of each stub
          link,         \* "none", "up" or "down": both pipes of a stub
          stub,         \* "none", "serving", "draining" or "exited"
          phase,        \* the request's handler thread
          child,        \* the process the request spawned
          event,        \* threading.Event of a follow or srun: "none", "clear", "set"
          running, pending, precancelled, cancelled, compute,   \* the registries
          cancels,      \* cancel handlers about to look at the registries
          killing,      \* cancel handlers in the grace period
          alloc,        \* the Slurm allocation an srun asked for
          known,        \* sruns whose job id was captured or looked up
          receipt,      \* what the srun's answer says about cleanup
          emitted       \* chunks, data or keepalive, the request emitted

requests == <<op, sentTo>>
pipes    == <<inbox, outbox, link>>
registry == <<running, pending, precancelled, cancelled, compute>>
work     == <<phase, child, event, cancels, killing>>
slurm    == <<alloc, known, receipt>>
output   == <<emitted>>
stubVars == <<requests, pipes, stub, work, registry, slurm, output>>

Ops == {"run", "srun", "follow", "ping", "none"}    \* none: no call is made

ASSUME StubServerAssumption ==
  /\ Stubs \subseteq Nat \ {0}
  /\ Mixes \subseteq [Calls -> Ops]

Cancellable(r) == op[r] # "ping"
Eventful(r) == op[r] \in {"follow", "srun"}

Frame(r, kind) == [id |-> r, kind |-> kind]
Request(r) == Frame(r, "request")
Cancel(r) == Frame(r, "cancel")

StubInit ==
  /\ op \in Mixes
  /\ sentTo = [r \in Calls |-> 0]
  /\ inbox = [g \in Stubs |-> <<>>]
  /\ outbox = [g \in Stubs |-> <<>>]
  /\ link = [g \in Stubs |-> "none"]
  /\ stub = [g \in Stubs |-> "none"]
  /\ phase = [r \in Calls |-> "none"]
  /\ child = [r \in Calls |-> "none"]
  /\ event = [r \in Calls |-> "none"]
  /\ running = {} /\ pending = {} /\ precancelled = {} /\ cancelled = {}
  /\ compute = {} /\ cancels = {} /\ killing = {}
  /\ alloc = [r \in Calls |-> "none"]
  /\ known = {}
  /\ receipt = [r \in Calls |-> "none"]
  /\ emitted = [r \in Calls |-> 0]

\* send(): a broken pipe is swallowed; the frame is lost and the op goes on.
Sent(r, kind) ==
  LET g == sentTo[r]
  IN  IF link[g] = "up" THEN [outbox EXCEPT ![g] = Append(@, Frame(r, kind))]
                        ELSE outbox

-----------------------------------------------------------------------------
(* serve(): the reader of stdin *)

\* A cancellable request is pending from the moment it is read, so that a
\* cancel behind it finds it; ping and cancel go to the fast pool.  How long a
\* busy pool keeps a request queued is left open.
ReadFrame(g) ==
  /\ stub[g] = "serving" /\ inbox[g] # <<>>
  /\ LET f == Head(inbox[g])
         asked == f.kind = "request" /\ Cancellable(f.id)
         ping  == f.kind = "request" /\ ~Cancellable(f.id)
     IN  /\ cancels' = IF f.kind = "cancel" THEN cancels \cup {f.id} ELSE cancels
         /\ pending' = IF asked THEN pending \cup {f.id} ELSE pending
         /\ compute' = IF asked /\ op[f.id] = "srun" THEN compute \cup {f.id} ELSE compute
         /\ phase' = IF asked THEN [phase EXCEPT ![f.id] = "queued"]
                     ELSE IF ping THEN [phase EXCEPT ![f.id] = "done"] ELSE phase
         /\ outbox' = IF ping THEN Sent(f.id, "ok") ELSE outbox
  /\ inbox' = [inbox EXCEPT ![g] = Tail(@)]
  /\ UNCHANGED <<requests, link, stub, child, event, killing, running,
                 precancelled, cancelled, slurm, output>>

\* EOF: the allocations of this connection are cancelled, then the pools are
\* waited for.  A killed connection may lose requests it had buffered.
ReadEof(g) ==
  /\ stub[g] = "serving" /\ link[g] = "down"
  /\ stub' = [stub EXCEPT ![g] = "draining"]
  /\ inbox' = [inbox EXCEPT ![g] = <<>>]
  /\ cancels' = cancels \cup {r \in compute : sentTo[r] = g}
  /\ UNCHANGED <<requests, outbox, link, phase, child, event, killing, registry,
                 slurm, output>>

StubExits(g) ==
  /\ stub[g] = "draining"
  /\ \A r \in Calls : sentTo[r] = g =>
       phase[r] \in {"none", "done"} /\ r \notin cancels \cup killing
  /\ stub' = [stub EXCEPT ![g] = "exited"]
  /\ UNCHANGED <<requests, pipes, work, registry, slurm, output>>

-----------------------------------------------------------------------------
(* handle(): one request on a pool thread *)

\* _register_event: a cancel that overtook the request sets its event at once.
Begin(r) ==
  /\ phase[r] = "queued"
  /\ IF Eventful(r)
     THEN LET early == r \in precancelled
          IN  /\ event' = [event EXCEPT ![r] = IF early THEN "set" ELSE "clear"]
              /\ precancelled' = precancelled \ {r}
              /\ cancelled' = IF early THEN cancelled \cup {r} ELSE cancelled
     ELSE UNCHANGED <<event, precancelled, cancelled>>
  /\ phase' = [phase EXCEPT ![r] =
       CASE op[r] = "run" -> "checked" [] op[r] = "srun" -> "begun"
         [] op[r] = "follow" -> "following"]
  /\ UNCHANGED <<requests, pipes, stub, child, running, pending, compute, cancels,
                 killing, slurm, output>>

\* op_srun looks at its event once before it asks Slurm for anything.
SrunNotStarted(r) ==
  /\ phase[r] = "begun" /\ op[r] = "srun" /\ event[r] = "set"
  /\ phase' = [phase EXCEPT ![r] = "returned"]
  /\ receipt' = [receipt EXCEPT ![r] = "confirmed"]
  /\ UNCHANGED <<requests, pipes, stub, child, event, cancels, killing, registry,
                 alloc, known, output>>

CheckedEvent(r) ==
  /\ phase[r] = "begun" /\ event[r] = "clear"
  /\ phase' = [phase EXCEPT ![r] = "checked"]
  /\ UNCHANGED <<requests, pipes, stub, child, event, cancels, killing, registry,
                 slurm, output>>

\* Popen: the child runs before it is registered.  It may also fail.
Spawn(r) ==
  /\ phase[r] = "checked"
  /\ \/ /\ phase' = [phase EXCEPT ![r] = "spawned"]
        /\ child' = [child EXCEPT ![r] = "alive"]
        /\ alloc' = IF op[r] = "srun" THEN [alloc EXCEPT ![r] = "asked"] ELSE alloc
     \/ /\ phase' = [phase EXCEPT ![r] = "failed"]
        /\ UNCHANGED <<child, alloc>>
  /\ UNCHANGED <<requests, pipes, stub, event, cancels, killing, registry,
                 known, receipt, output>>

\* A bug: a cancel that met a queued request is forgotten.
RegisterAsIs(r) ==
  /\ phase[r] = "spawned"
  /\ running' = running \cup {r}
  /\ phase' = [phase EXCEPT ![r] = "running"]
  /\ UNCHANGED <<requests, pipes, stub, child, event, cancels, killing, pending, compute,
                 precancelled, cancelled, slurm, output>>

\* _register: what was cancelled while it was queued, or between its event and
\* its child, is killed on the spot.
Register(r) ==
  /\ phase[r] = "spawned"
  /\ LET early == r \in precancelled \/ event[r] = "set"
     IN  /\ precancelled' = precancelled \ {r}
         /\ cancelled' = IF early THEN cancelled \cup {r} ELSE cancelled
         /\ child' = IF early THEN [child EXCEPT ![r] = "dead"] ELSE child
  /\ running' = running \cup {r}
  /\ phase' = [phase EXCEPT ![r] = "running"]
  /\ UNCHANGED <<requests, pipes, stub, event, cancels, killing, pending, compute,
                 slurm, output>>

\* op_follow writes what the file gained, or a keepalive; whether the frame
\* reached anybody it does not learn.
Emit(r) ==
  /\ phase[r] = "following" /\ event[r] = "clear" /\ emitted[r] < MaxChunks
  /\ emitted' = [emitted EXCEPT ![r] = @ + 1]
  /\ outbox' = Sent(r, "chunk")
  /\ UNCHANGED <<requests, inbox, link, stub, work, registry, slurm>>

\* op_srun picks the job id out of what srun prints.
Capture(r) ==
  /\ phase[r] = "running" /\ alloc[r] = "active" /\ r \notin known
  /\ known' = known \cup {r}
  /\ UNCHANGED <<requests, pipes, stub, work, registry, alloc, receipt, output>>

\* The poll loop ends when its event is set or the file stayed idle.
FollowEnds(r) ==
  /\ phase[r] = "following"
  /\ phase' = [phase EXCEPT ![r] = "returned"]
  /\ UNCHANGED <<requests, pipes, stub, child, event, cancels, killing, registry,
                 slurm, output>>

Reaped(r) == IF op[r] = "srun" THEN "cleanup" ELSE "returned"

\* The child ended; an srun that failed or was cancelled cleans up first.
ChildReaped(r) ==
  /\ phase[r] = "running" /\ child[r] \in {"ended", "dead"}
  /\ phase' = [phase EXCEPT ![r] =
       IF child[r] = "dead" \/ event[r] = "set" THEN Reaped(r) ELSE "returned"]
  /\ UNCHANGED <<requests, pipes, stub, child, event, cancels, killing, registry,
                 slurm, output>>

\* The op's own timeout kills the group.  For a run that is an error.
ChildTimesOut(r) ==
  /\ phase[r] = "running" /\ child[r] \in {"alive", "termed"}
  /\ child' = [child EXCEPT ![r] = "dead"]
  /\ phase' = [phase EXCEPT ![r] = IF op[r] = "srun" THEN Reaped(r) ELSE "failed"]
  /\ UNCHANGED <<requests, pipes, stub, event, cancels, killing, registry,
                 slurm, output>>

\* A bug: an empty answer to the lookup by name proves that nothing is held.
LookupProvesAbsence(r) ==
  /\ phase[r] = "cleanup"
  /\ LET found == r \in known \/ alloc[r] = "active"
     IN  /\ known' = IF found THEN known \cup {r} ELSE known
         /\ phase' = [phase EXCEPT ![r] = IF found THEN "scancel" ELSE "returned"]
         /\ receipt' = IF found THEN receipt ELSE [receipt EXCEPT ![r] = "confirmed"]
  /\ UNCHANGED <<requests, pipes, stub, child, event, cancels, killing, registry,
                 alloc, output>>

\* _cleanup_compute, lookup by the unique name: it needs an id to go on.
CleanupLookup(r) ==
  /\ phase[r] = "cleanup"
  /\ \E answered \in BOOLEAN :
       LET found == r \in known \/ (answered /\ alloc[r] = "active")
           stop  == ~answered \/ ~found
       IN  /\ known' = IF found THEN known \cup {r} ELSE known
           /\ phase' = [phase EXCEPT ![r] = IF stop THEN "returned" ELSE "scancel"]
           /\ receipt' = IF stop THEN [receipt EXCEPT ![r] = "unconfirmed"] ELSE receipt
  /\ UNCHANGED <<requests, pipes, stub, child, event, cancels, killing, registry,
                 alloc, output>>

\* _cleanup_compute, scancel and the queue lookups that confirm it: only an
\* answered lookup that no longer shows the job confirms.
CleanupConfirm(r) ==
  /\ phase[r] = "scancel"
  /\ \/ /\ alloc' = [alloc EXCEPT ![r] = "gone"]
        /\ receipt' = [receipt EXCEPT ![r] = "confirmed"]
     \/ /\ alloc' \in {alloc, [alloc EXCEPT ![r] = "gone"]}
        /\ receipt' = [receipt EXCEPT ![r] = "unconfirmed"]
  /\ phase' = [phase EXCEPT ![r] = "returned"]
  /\ UNCHANGED <<requests, pipes, stub, child, event, cancels, killing, registry,
                 known, output>>

\* The inner finally of handle().
Unregister(r) ==
  /\ phase[r] \in {"returned", "failed"}
  /\ running' = running \ {r}
  /\ event' = [event EXCEPT ![r] = "none"]
  /\ phase' = [phase EXCEPT ![r] = IF @ = "returned" THEN "ok" ELSE "error"]
  /\ UNCHANGED <<requests, pipes, stub, child, cancels, killing, pending, compute,
                 precancelled, cancelled, slurm, output>>

\* _take_cancelled and the terminal frame.
Answer(r) ==
  /\ phase[r] \in {"ok", "error"}
  /\ outbox' = Sent(r, IF phase[r] = "error" THEN "error"
                       ELSE IF r \in cancelled THEN "cancelled" ELSE "ok")
  /\ cancelled' = cancelled \ {r}
  /\ phase' = [phase EXCEPT ![r] = "answered"]
  /\ UNCHANGED <<requests, inbox, link, stub, child, event, cancels, killing, running,
                 pending, compute, precancelled, slurm, output>>

\* The outer finally of handle().
Retire(r) ==
  /\ phase[r] = "answered"
  /\ pending' = pending \ {r}
  /\ precancelled' = precancelled \ {r}
  /\ compute' = compute \ {r}
  /\ phase' = [phase EXCEPT ![r] = "done"]
  /\ UNCHANGED <<requests, pipes, stub, child, event, cancels, killing, running,
                 cancelled, slurm, output>>

-----------------------------------------------------------------------------
(* _cancel() *)

\* One look at the registries under reg_lock decides: signal the live child,
\* set the event, remember the cancel, or answer that nothing runs.
CancelLook(r) ==
  /\ r \in cancels
  /\ cancels' = cancels \ {r}
  /\ LET alive == r \in running /\ child[r] \in {"alive", "termed"}
         quiet == r \notin running /\ event[r] # "none"
         early == r \notin running /\ event[r] = "none" /\ r \in pending
     IN  /\ cancelled' = IF alive \/ quiet THEN cancelled \cup {r} ELSE cancelled
         /\ event' = IF (alive \/ quiet) /\ event[r] # "none"
                     THEN [event EXCEPT ![r] = "set"] ELSE event
         /\ precancelled' = IF early THEN precancelled \cup {r} ELSE precancelled
         /\ killing' = IF alive THEN killing \cup {r} ELSE killing
         /\ child' = IF alive THEN [child EXCEPT ![r] = "termed"] ELSE child
  /\ UNCHANGED <<requests, pipes, stub, phase, running, pending, compute,
                 slurm, output>>

\* After the grace period the group gets SIGKILL.
CancelKill(r) ==
  /\ r \in killing
  /\ killing' = killing \ {r}
  /\ child' = IF child[r] = "termed" THEN [child EXCEPT ![r] = "dead"] ELSE child
  /\ UNCHANGED <<requests, pipes, stub, phase, event, cancels, registry, slurm, output>>

-----------------------------------------------------------------------------
(* Processes and Slurm *)

\* A child ends by itself.  An srun ends well only after its job did.
ChildEnds(r) ==
  /\ child[r] \in {"alive", "termed"}
  /\ \/ /\ child[r] = "alive" /\ (op[r] = "srun" => alloc[r] = "gone")
        /\ child' = [child EXCEPT ![r] = "ended"]
     \/ child' = [child EXCEPT ![r] = "dead"]
  /\ UNCHANGED <<requests, pipes, stub, phase, event, cancels, killing, registry,
                 slurm, output>>

\* The request of an srun reaches Slurm, even if srun was killed meanwhile, or
\* never does; a granted allocation ends on its own at its time limit.
SlurmStep(r) ==
  /\ \/ alloc[r] = "asked" /\ alloc' = [alloc EXCEPT ![r] = "active"]
     \/ /\ alloc[r] = "asked" /\ child[r] = "dead"
        /\ alloc' = [alloc EXCEPT ![r] = "lost"]
     \/ alloc[r] = "active" /\ alloc' = [alloc EXCEPT ![r] = "gone"]
  /\ UNCHANGED <<requests, pipes, stub, work, registry, known, receipt, output>>

HandlerStep(r) ==
  \/ Begin(r) \/ SrunNotStarted(r) \/ CheckedEvent(r) \/ Spawn(r) \/ Register(r)
  \/ ChildReaped(r) \/ CleanupLookup(r) \/ CleanupConfirm(r)
  \/ Unregister(r) \/ Answer(r) \/ Retire(r)

ServeStep(g) == ReadFrame(g) \/ ReadEof(g) \/ StubExits(g)

StubStep ==
  \/ \E g \in Stubs : ServeStep(g)
  \/ \E r \in Calls :
       \/ HandlerStep(r)
       \/ CancelLook(r) \/ CancelKill(r)
       \/ Emit(r) \/ Capture(r) \/ FollowEnds(r) \/ ChildTimesOut(r)
       \/ ChildEnds(r) \/ SlurmStep(r)
=============================================================================
