--------------------------- MODULE ConnectionProofs ---------------------------
(***************************************************************************)
(* No call of a Session is left waiting for a stub that is gone, and no    *)
(* srun hides an allocation, for any calls, stubs and lost connections.    *)
(***************************************************************************)
EXTENDS ClientSession, SequenceTheorems, WellFoundedInduction, TLAPS

USE StubServerAssumption, ClientSessionAssumption

------------------------------------------------------------------------------
(* Stubs are started in order *)

\* A set of numbers that is not empty has a least element.
LEMMA LeastElement ==
  ASSUME NEW T, T \subseteq Nat, T # {}
  PROVE  \E m \in T : \A k \in T : ~(k < m)
<1> DEFINE Less == OpToRel(<, Nat)
<1>1. IsWellFoundedOn(Less, Nat)
  BY NatLessThanWellFounded, Zenon
<1>2. \A k, m \in Nat : k < m => <<k, m>> \in Less
  BY Zenon DEF OpToRel
<1> HIDE DEF Less
<1>3. PICK m \in T : \A k \in T : ~(<<k, m>> \in Less)
  BY <1>1, WFMin
<1>4. QED
  BY <1>2, <1>3

\* The stub started next is one that was not started before.
LEMMA NextStubIsNew ==
  ASSUME CanSpawn
  PROVE  NextStub \in Stubs /\ link[NextStub] = "none"
<1> DEFINE unused == {g \in Stubs : link[g] = "none"}
<1>1. unused \subseteq Nat /\ unused # {}
  BY DEF CanSpawn
<1>2. PICK g \in unused : \A h \in unused : ~(h < g)
  <2> HIDE DEF unused
  <2>1. QED
    BY <1>1, LeastElement
<1>3. \E first \in Stubs : link[first] = "none" /\ \A h \in Stubs : h < first => link[h] # "none"
  BY <1>2
<1>4. QED
  BY <1>3 DEF NextStub

\* What the stubs do moves neither a connection nor a request between them.
LEMMA StubsKeepLinks == StubStep => UNCHANGED <<op, sentTo, link>>
<1> USE DEF requests, pipes
<1>1. ASSUME NEW g \in Stubs, ServeStep(g) PROVE UNCHANGED <<op, sentTo, link>>
  BY <1>1 DEF ServeStep, ReadFrame, ReadEof, StubExits
<1>2. ASSUME NEW r \in Calls, HandlerStep(r) PROVE UNCHANGED <<op, sentTo, link>>
  BY <1>2 DEF HandlerStep, Begin, SrunNotStarted, CheckedEvent, Spawn, Register,
              ChildReaped, CleanupLookup, CleanupConfirm, Unregister, Answer, Retire
<1>3. ASSUME NEW r \in Calls,
             \/ CancelLook(r) \/ CancelKill(r)
             \/ Emit(r) \/ Capture(r) \/ FollowEnds(r) \/ ChildTimesOut(r)
             \/ ChildEnds(r) \/ SlurmStep(r)
      PROVE  UNCHANGED <<op, sentTo, link>>
  BY <1>3 DEF CancelLook, CancelKill, Emit, Capture, FollowEnds, ChildTimesOut, ChildEnds, SlurmStep
<1>4. QED
  BY <1>1, <1>2, <1>3 DEF StubStep

------------------------------------------------------------------------------
(* Nobody waits for a stub that is gone *)

SessionTyped ==
  /\ proc \in Stubs \union {0}
  /\ link \in [Stubs -> {"none", "up", "down"}]
  /\ reader \in [Stubs -> {"none", "reading", "eof", "done"}]
  /\ DOMAIN answer = Calls
  /\ DOMAIN pc = Calls
  /\ sentTo \in [Calls -> Stubs \union {0}]

\* Past submit, and still to be answered.
Awaits(r) ==
  /\ answer[r] = "none"
  /\ \/ pc[r] \in {"sent", "waiting"}
     \/ pc[r] = "cancel" /\ r \in futures

\* The stub the session has is the one every such call was sent to, and while
\* its reader lives the end of that stub will be told to all of them.
WaitInv ==
  /\ SessionTyped
  /\ \A g \in Stubs : link[g] = "up" => reader[g] = "reading"
  /\ \A r \in Calls :
       /\ Awaits(r) =>
            /\ proc # 0 /\ sentTo[r] = proc /\ r \in futures
            /\ Streaming(r) => r \in streams
            /\ link[proc] = "down" => reader[proc] \in {"reading", "eof"}
       /\ pc[r] \in {"submit", "starting"} /\ Streaming(r) /\ answer[r] = "none" => r \in streams

\* Nobody waits at first.
LEMMA WaitInit == Init => WaitInv
BY DEF Init, StubInit, SessionInit, WaitInv, SessionTyped, Awaits

\* Where everything registered is failed, nobody awaits anything.
LEMMA FailedAwaitNothing ==
  ASSUME WaitInv, FailPending, op' = op, DOMAIN pc' = Calls,
         \A r \in Calls : \/ pc'[r] \in {pc[r], "done"}
                          \/ pc[r] = "submit" /\ pc'[r] = "starting"
  PROVE  /\ DOMAIN answer' = Calls
         /\ \A r \in Calls : ~Awaits(r)'
         /\ \A r \in Calls : ~(pc'[r] \in {"submit", "starting"} /\ Streaming(r)' /\ answer'[r] = "none")
BY DEF WaitInv, SessionTyped, FailPending, Awaits, Streaming

\* A killed session has nobody waiting, and its stub is cut off.
LEMMA KilledKeeps ==
  ASSUME WaitInv, KillLocked, UNCHANGED <<op, sentTo, reader>>, DOMAIN pc' = Calls,
         \A r \in Calls : pc'[r] \in {pc[r], "done"}
  PROVE  WaitInv'
<1>1. /\ DOMAIN answer' = Calls
      /\ \A r \in Calls : ~Awaits(r)'
      /\ \A r \in Calls : ~(pc'[r] \in {"submit", "starting"} /\ Streaming(r)' /\ answer'[r] = "none")
  BY FailedAwaitNothing DEF KillLocked
<1>2. link' \in [Stubs -> {"none", "up", "down"}] /\ \A g \in Stubs : link'[g] = "up" => link[g] = "up"
  BY DEF KillLocked, WaitInv, SessionTyped
<1>3. QED
  BY <1>1, <1>2 DEF WaitInv, SessionTyped, KillLocked

\* A request sent to the stub of a live session will be answered or failed.
LEMMA SubmittedKeeps ==
  ASSUME WaitInv, NEW r \in Calls, Submitted(r), Polls(proc), pc[r] \in {"submit", "starting"},
         pc' = [pc EXCEPT ![r] = "sent"], UNCHANGED <<op, proc, link, reader, answer, streams>>
  PROVE  WaitInv'
<1>1. link[proc] = "up" /\ proc # 0 /\ proc \in Stubs /\ reader[proc] = "reading"
  BY DEF Polls, WaitInv, SessionTyped
<1>2. sentTo' = [sentTo EXCEPT ![r] = proc] /\ futures' = futures \cup {r}
  BY DEF Submitted
<1>3. SessionTyped'
  BY <1>1, <1>2 DEF WaitInv, SessionTyped
<1>4. QED
  BY <1>1, <1>2, <1>3 DEF WaitInv, SessionTyped, Awaits, Streaming

\* No thread of the session, no reader and no lost connection strands a call.
LEMMA WaitStep == WaitInv /\ [Next]_vars => WaitInv'
<1> SUFFICES ASSUME WaitInv, [Next]_vars PROVE WaitInv'
  OBVIOUS
<1> USE DEF requests, pipes, stubVars, sessionVars, callerVars
<1>1. CASE UNCHANGED vars
  BY <1>1 DEF vars, WaitInv, SessionTyped, Awaits, Streaming
<1>2. CASE StubStep /\ UNCHANGED <<sessionVars, callerVars>>
  BY <1>2, StubsKeepLinks DEF WaitInv, SessionTyped, Awaits, Streaming
<1>3. ASSUME NEW r \in Calls, CallStep(r) PROVE WaitInv'
  <2>1. CASE Enter(r)
    BY <2>1 DEF Enter, Goto, WaitInv, SessionTyped, Awaits, Streaming
  <2>2. CASE SubmitAlive(r)
    <3>1. QED
      BY <2>2, SubmittedKeeps DEF SubmitAlive, Alive, Goto, WaitInv, SessionTyped
  <2>3. CASE SubmitStarts(r)
    <3> DEFINE g == NextStub
    <3>1. g \in Stubs /\ link[g] = "none"
      BY <2>3, NextStubIsNew DEF SubmitStarts
    <3>2. /\ proc' = g /\ link' = [link EXCEPT ![g] = "up"]
          /\ reader' = [reader EXCEPT ![g] = "reading"]
          /\ pc[r] = "submit" /\ pc' = [pc EXCEPT ![r] = "starting"]
          /\ UNCHANGED <<op, sentTo>>
          /\ IF proc # 0 THEN FailPending ELSE UNCHANGED <<answer, futures, streams>>
      BY <2>3 DEF SubmitStarts, Spawning, Goto
    <3> HIDE DEF g
    <3>3. /\ DOMAIN answer' = Calls
          /\ \A q \in Calls : ~Awaits(q)'
          /\ \A q \in Calls : pc'[q] \in {"submit", "starting"} /\ Streaming(q)' /\ answer'[q] = "none"
                              => q \in streams'
      <4>1. CASE proc # 0
        BY <4>1, <3>2, FailedAwaitNothing DEF WaitInv, SessionTyped
      <4>2. CASE proc = 0
        BY <4>2, <3>2 DEF WaitInv, SessionTyped, Awaits, Streaming
      <4>3. QED
        BY <4>1, <4>2
    <3>4. QED
      BY <3>1, <3>2, <3>3 DEF WaitInv, SessionTyped
  <2>4. CASE Started(r)
    <3>1. CASE Polls(proc) /\ remotePid # 0
      BY <2>4, <3>1, SubmittedKeeps DEF Started, Goto, WaitInv, SessionTyped
    <3>2. CASE ~(Polls(proc) /\ remotePid # 0)
      BY <2>4, <3>2, KilledKeeps DEF Started, Goto, WaitInv, SessionTyped
    <3>3. QED
      BY <3>1, <3>2
  <2>5. CASE Recheck(r)
    BY <2>5 DEF Recheck, Goto, WaitInv, SessionTyped, Awaits, Streaming
  <2>6. CASE Receive(r)
    BY <2>6 DEF Receive, Goto, WaitInv, SessionTyped, Awaits, Streaming
  <2>7. CASE SendCancel(r)
    BY <2>7 DEF SendCancel, Goto, WaitInv, SessionTyped, Awaits, Streaming
  <2>8. QED
    BY <1>3, <2>1, <2>2, <2>3, <2>4, <2>5, <2>6, <2>7 DEF CallStep
<1>4. ASSUME NEW r \in Calls,
             QuitterCancels(r) \/ StartTimesOut(r) \/ ProbeTimesOut(r) \/ GiveUpWaiting(r) \/ CallerGivesUp(r)
      PROVE  WaitInv'
  <2>1. CASE QuitterCancels(r)
    BY <2>1 DEF QuitterCancels, WaitInv, SessionTyped, Awaits, Streaming
  <2>2. CASE StartTimesOut(r)
    BY <2>2, KilledKeeps DEF StartTimesOut, Goto, WaitInv, SessionTyped
  <2>3. CASE ProbeTimesOut(r)
    BY <2>3, KilledKeeps DEF ProbeTimesOut, Goto, WaitInv, SessionTyped
  <2>4. CASE GiveUpWaiting(r)
    BY <2>4 DEF GiveUpWaiting, Goto, WaitInv, SessionTyped, Awaits, Streaming
  <2>5. CASE CallerGivesUp(r)
    BY <2>5 DEF CallerGivesUp, WaitInv, SessionTyped, Awaits, Streaming
  <2>6. QED
    BY <1>4, <2>1, <2>2, <2>3, <2>4, <2>5
<1>5. ASSUME NEW g \in Stubs, ReaderStep(g) \/ LoseLink(g) PROVE WaitInv'
  <2>1. CASE ReadLine(g)
    <3> DEFINE f == Head(outbox[g])
               final == f.kind \in {"ok", "error", "cancelled"}
    <3>1. /\ answer' = IF final /\ f.id \in futures \cup streams
                       THEN [answer EXCEPT ![f.id] = f.kind] ELSE answer
          /\ futures' = IF final THEN futures \ {f.id} ELSE futures
          /\ UNCHANGED <<op, sentTo, link, proc, streams, reader, pc>>
      BY <2>1 DEF ReadLine
    <3>2. final => f.kind # "none"
      OBVIOUS
    <3> HIDE DEF f, final
    <3>3. \A q \in Calls : answer'[q] = "none" => answer[q] = "none" /\ (q \in futures => q \in futures')
      BY <3>1, <3>2 DEF WaitInv, SessionTyped
    <3>4. \A q \in Calls : Awaits(q)' => Awaits(q)
      BY <3>1, <3>3 DEF Awaits
    <3>5. DOMAIN answer' = Calls
      BY <3>1 DEF WaitInv, SessionTyped
    <3>6. QED
      BY <3>1, <3>3, <3>4, <3>5 DEF WaitInv, SessionTyped, Streaming, Awaits
  <2>2. CASE ReadEnd(g)
    BY <2>2 DEF ReadEnd, WaitInv, SessionTyped, Awaits, Streaming
  <2>3. CASE ReaderEnds(g)
    <3>1. CASE proc = g
      <4>1. /\ DOMAIN answer' = Calls
            /\ \A q \in Calls : ~Awaits(q)'
            /\ \A q \in Calls : ~(pc'[q] \in {"submit", "starting"} /\ Streaming(q)' /\ answer'[q] = "none")
        BY <2>3, <3>1, FailedAwaitNothing DEF ReaderEnds, WaitInv, SessionTyped
      <4>2. QED
        BY <2>3, <4>1 DEF ReaderEnds, WaitInv, SessionTyped
    <3>2. CASE proc # g
      BY <2>3, <3>2 DEF ReaderEnds, WaitInv, SessionTyped, Awaits, Streaming
    <3>3. QED
      BY <3>1, <3>2
  <2>4. CASE LoseLink(g)
    BY <2>4 DEF LoseLink, WaitInv, SessionTyped, Awaits, Streaming
  <2>5. QED
    BY <1>5, <2>1, <2>2, <2>3, <2>4 DEF ReaderStep
<1>6. CASE KillSession
  BY <1>6, KilledKeeps DEF KillSession, WaitInv, SessionTyped
<1>7. QED
  BY <1>1, <1>2, <1>3, <1>4, <1>5, <1>6 DEF Next

\* No call waits for an answer that nobody will bring (NoStrandedCall).
THEOREM NobodyIsStranded == Spec => []NoStrandedCall
<1>1. WaitInv => NoStrandedCall
  BY DEF WaitInv, NoStrandedCall, Awaits
<1>2. QED
  BY WaitInit, WaitStep, <1>1, PTL DEF Spec

------------------------------------------------------------------------------
(* An allocation that is held is never reported as cleaned up *)

Phases == {"none", "queued", "begun", "checked", "spawned", "running", "following", "cleanup",
           "scancel", "returned", "failed", "ok", "error", "answered", "done"}
Frames == [id : Calls, kind : {"request", "cancel"}]

HiddenTyped ==
  /\ op \in [Calls -> Ops]
  /\ sentTo \in [Calls -> Stubs \union {0}]
  /\ proc \in Stubs \union {0}
  /\ inbox \in [Stubs -> Seq(Frames)]
  /\ link \in [Stubs -> {"none", "up", "down"}]
  /\ stub \in [Stubs -> {"none", "serving", "draining", "exited"}]
  /\ phase \in [Calls -> Phases]
  /\ DOMAIN child = Calls /\ DOMAIN pc = Calls
  /\ alloc \in [Calls -> {"none", "asked", "active", "lost", "gone"}]
  /\ receipt \in [Calls -> {"none", "confirmed", "unconfirmed"}]

\* A request in the stdin of a stub is there once, sent to that stub and unread.
RequestsAreNew ==
  \A g \in Stubs : \A i \in 1..Len(inbox[g]) :
    inbox[g][i].kind = "request" =>
      /\ sentTo[inbox[g][i].id] = g
      /\ phase[inbox[g][i].id] = "none"
      /\ \A j \in 1..Len(inbox[g]) : inbox[g][j] = inbox[g][i] => j = i

\* A stub that drains has lost its connection, and works no more once it exited.
StubsAreOver ==
  /\ \A g \in Stubs : stub[g] \in {"draining", "exited"} => link[g] = "down"
  /\ \A r \in Calls, g \in Stubs :
       stub[g] = "exited" /\ sentTo[r] = g => phase[r] \in {"none", "done"}

\* A handler works on a call that was sent, and on what it asks for.
CallsArePlaced ==
  \A r \in Calls :
    /\ pc[r] \in {"idle", "submit", "starting"} => sentTo[r] = 0
    /\ sentTo[r] = 0 => phase[r] = "none"
    /\ op[r] = "none" => pc[r] = "done" /\ sentTo[r] = 0
    /\ phase[r] = "queued" => op[r] \in {"run", "srun", "follow"}
    /\ phase[r] = "following" => op[r] = "follow"
    /\ phase[r] \in {"cleanup", "scancel"} => op[r] = "srun"

Held(r) == alloc[r] \in {"asked", "active"}

\* Where each phase of an srun leaves its allocation and its receipt.
AllocationsAreTold ==
  \A r \in Calls :
    /\ op[r] # "srun" => alloc[r] = "none"
    /\ phase[r] \in {"none", "queued", "begun", "checked"} => alloc[r] = "none"
    /\ phase[r] \in {"none", "queued", "begun", "checked", "spawned", "running", "cleanup", "scancel"}
         => receipt[r] = "none"
    /\ phase[r] \in {"returned", "failed", "ok", "error", "answered", "done"} /\ Held(r)
         => receipt[r] = "unconfirmed"
    /\ child[r] = "ended" /\ op[r] = "srun" => alloc[r] = "gone"

HiddenInv == HiddenTyped /\ RequestsAreNew /\ StubsAreOver /\ CallsArePlaced /\ AllocationsAreTold

\* Nothing is sent, read or held at first.
LEMMA HiddenInit == Init => HiddenInv
<1> SUFFICES ASSUME Init PROVE HiddenInv
  OBVIOUS
<1> USE DEF Init, StubInit, SessionInit
<1>1. op \in [Calls -> Ops]
  OBVIOUS
<1>2. HiddenTyped
  BY <1>1 DEF HiddenTyped, Phases
<1>3. RequestsAreNew
  BY DEF RequestsAreNew
<1>4. StubsAreOver /\ CallsArePlaced /\ AllocationsAreTold
  BY DEF StubsAreOver, CallsArePlaced, AllocationsAreTold, Held
<1>5. QED
  BY <1>2, <1>3, <1>4 DEF HiddenInv

\* What stdin of a stub holds are frames.
LEMMA FrameTyped ==
  ASSUME HiddenInv, NEW g \in Stubs, NEW i \in 1..Len(inbox[g])
  PROVE  inbox[g][i] \in Frames
<1>1. inbox[g] \in Seq(Frames)
  BY DEF HiddenInv, HiddenTyped
<1>2. QED
  BY <1>1

\* What the invariant promises of receipts and of stubs that exited.
LEMMA HiddenImplies == HiddenInv => NoHiddenAllocation
<1> SUFFICES ASSUME HiddenInv, NEW r \in Calls, alloc[r] \in {"asked", "active"}
             PROVE  /\ receipt[r] # "confirmed"
                    /\ sentTo[r] # 0 /\ stub[sentTo[r]] = "exited" => receipt[r] = "unconfirmed"
  BY DEF NoHiddenAllocation
<1>1. op[r] = "srun" /\ phase[r] \in Phases /\ sentTo[r] \in Stubs \union {0}
  BY DEF HiddenInv, HiddenTyped, AllocationsAreTold
<1>2. phase[r] \notin {"none", "queued", "begun", "checked", "following"}
  BY <1>1 DEF HiddenInv, CallsArePlaced, AllocationsAreTold
<1>3. receipt[r] # "confirmed"
  BY <1>1, <1>2 DEF HiddenInv, AllocationsAreTold, Held, Phases
<1>4. ASSUME sentTo[r] # 0, stub[sentTo[r]] = "exited" PROVE receipt[r] = "unconfirmed"
  <2>1. phase[r] = "done"
    BY <1>1, <1>2, <1>4 DEF HiddenInv, StubsAreOver
  <2>2. QED
    BY <2>1 DEF HiddenInv, AllocationsAreTold, Held
<1>5. QED
  BY <1>3, <1>4

\* A step of a handler: it moves requests it has begun, and leaves the pipes.
Handles ==
  /\ UNCHANGED <<op, sentTo, inbox, link, stub, proc, pc>>
  /\ phase' \in [Calls -> Phases]
  /\ \A r \in Calls : /\ phase[r] \in {"none", "done"} => phase'[r] = phase[r]
                      /\ phase[r] # "none" => phase'[r] # "none"
                      /\ phase'[r] = "queued" => phase[r] = "queued"
                      /\ phase'[r] = "following" => op[r] = "follow"
                      /\ phase'[r] \in {"cleanup", "scancel"} => op[r] = "srun"
  /\ DOMAIN child' = Calls
  /\ alloc' \in [Calls -> {"none", "asked", "active", "lost", "gone"}]
  /\ receipt' \in [Calls -> {"none", "confirmed", "unconfirmed"}]

\* Such a step has only its receipt and its allocation to account for.
LEMMA HandlesKeeps ==
  ASSUME HiddenInv, Handles, AllocationsAreTold'
  PROVE  HiddenInv'
<1>1. HiddenTyped'
  BY DEF HiddenInv, HiddenTyped, Handles
<1>2. RequestsAreNew'
  <2>1. \A g \in Stubs : \A i \in 1..Len(inbox[g]) : inbox[g][i].id \in Calls
    BY FrameTyped DEF Frames
  <2>2. QED
    BY <2>1 DEF HiddenInv, RequestsAreNew, Handles
<1>3. StubsAreOver'
  BY DEF HiddenInv, StubsAreOver, Handles
<1>4. CallsArePlaced'
  BY DEF HiddenInv, CallsArePlaced, Handles
<1>5. QED
  BY <1>1, <1>2, <1>3, <1>4 DEF HiddenInv

\* Each step of a handler, of a cancel, of a child or of Slurm is one.
LEMMA HandlerKeeps ==
  ASSUME HiddenInv, UNCHANGED <<proc, pc>>, NEW r \in Calls,
         \/ HandlerStep(r)
         \/ CancelLook(r) \/ CancelKill(r)
         \/ Emit(r) \/ Capture(r) \/ FollowEnds(r) \/ ChildTimesOut(r)
         \/ ChildEnds(r) \/ SlurmStep(r)
  PROVE  HiddenInv'
<1> USE DEF requests, pipes, work, slurm, HiddenInv, HiddenTyped, CallsArePlaced, AllocationsAreTold, Held
<1>0. SUFFICES Handles /\ AllocationsAreTold'
  BY HandlesKeeps
<1>1. CASE Begin(r)
  <2>1. op[r] \in {"run", "srun", "follow"}
    BY <1>1 DEF Begin
  <2>2. phase' = [phase EXCEPT ![r] = CASE op[r] = "run" -> "checked" [] op[r] = "srun" -> "begun"
                                        [] op[r] = "follow" -> "following"]
    BY <1>1 DEF Begin
  <2>3. phase[r] = "queued" /\ UNCHANGED <<op, sentTo, inbox, link, stub, child, alloc, receipt>>
    BY <1>1 DEF Begin
  <2>4. QED
    BY <2>1, <2>2, <2>3 DEF Handles, Phases
<1>2. CASE SrunNotStarted(r)
  BY <1>2 DEF SrunNotStarted, Handles, Phases
<1>3. CASE CheckedEvent(r)
  BY <1>3 DEF CheckedEvent, Handles, Phases
<1>4. CASE Spawn(r)
  BY <1>4 DEF Spawn, Handles, Phases
<1>5. CASE Register(r)
  BY <1>5 DEF Register, Handles, Phases
<1>6. CASE ChildReaped(r)
  BY <1>6 DEF ChildReaped, Reaped, Handles, Phases
<1>7. CASE CleanupLookup(r)
  BY <1>7 DEF CleanupLookup, Handles, Phases
<1>8. CASE CleanupConfirm(r)
  <2>1. /\ phase[r] = "scancel" /\ phase' = [phase EXCEPT ![r] = "returned"]
        /\ UNCHANGED <<op, sentTo, inbox, link, stub, child>>
    BY <1>8 DEF CleanupConfirm
  <2>2. CASE alloc' = alloc /\ receipt' = [receipt EXCEPT ![r] = "unconfirmed"]
    BY <2>1, <2>2 DEF Handles, Phases
  <2>3. CASE alloc' = [alloc EXCEPT ![r] = "gone"] /\ receipt' = [receipt EXCEPT ![r] = "unconfirmed"]
    <3>1. Handles
      BY <2>1, <2>3 DEF Handles, Phases
    <3>2. /\ ~Held(r)' /\ alloc'[r] = "gone" /\ phase'[r] = "returned"
          /\ \A q \in Calls \ {r} : /\ alloc'[q] = alloc[q] /\ receipt'[q] = receipt[q]
                                   /\ phase'[q] = phase[q]
      BY <2>1, <2>3
    <3>3. AllocationsAreTold'
      BY <2>1, <3>2
    <3>4. QED
      BY <3>1, <3>3
  <2>4. CASE alloc' = [alloc EXCEPT ![r] = "gone"] /\ receipt' = [receipt EXCEPT ![r] = "confirmed"]
    <3>1. Handles
      BY <2>1, <2>4 DEF Handles, Phases
    <3>2. /\ ~Held(r)' /\ alloc'[r] = "gone" /\ phase'[r] = "returned"
          /\ \A q \in Calls \ {r} : /\ alloc'[q] = alloc[q] /\ receipt'[q] = receipt[q]
                                   /\ phase'[q] = phase[q]
      BY <2>1, <2>4
    <3>3. AllocationsAreTold'
      BY <2>1, <3>2
    <3>4. QED
      BY <3>1, <3>3
  <2>5. QED
    BY <1>8, <2>2, <2>3, <2>4 DEF CleanupConfirm
<1>9. CASE Unregister(r)
  BY <1>9 DEF Unregister, Handles, Phases
<1>10. CASE Answer(r)
  BY <1>10 DEF Answer, Handles, Phases
<1>11. CASE Retire(r)
  BY <1>11 DEF Retire, Handles, Phases
<1>12. CASE CancelLook(r)
  BY <1>12 DEF CancelLook, Handles
<1>13. CASE CancelKill(r)
  BY <1>13 DEF CancelKill, Handles
<1>14. CASE Emit(r) \/ Capture(r)
  BY <1>14 DEF Emit, Capture, Handles
<1>15. CASE FollowEnds(r)
  BY <1>15 DEF FollowEnds, Handles, Phases
<1>16. CASE ChildTimesOut(r)
  BY <1>16 DEF ChildTimesOut, Reaped, Handles, Phases
<1>17. CASE ChildEnds(r)
  BY <1>17 DEF ChildEnds, Handles
<1>18. CASE SlurmStep(r)
  BY <1>18 DEF SlurmStep, Handles
<1>19. QED
  BY <1>1, <1>2, <1>3, <1>4, <1>5, <1>6, <1>7, <1>8, <1>9, <1>10, <1>11, <1>12, <1>13,
     <1>14, <1>15, <1>16, <1>17, <1>18 DEF HandlerStep

\* The reader of stdin hands each request to one handler, and its EOF or the
\* end of its handlers to nobody.
LEMMA ServeKeeps ==
  ASSUME HiddenInv, UNCHANGED <<proc, pc>>, NEW g \in Stubs, ServeStep(g)
  PROVE  HiddenInv'
<1> USE DEF requests, pipes, work, slurm
<1>1. CASE ReadFrame(g)
  <2> DEFINE f == Head(inbox[g])
             asked == f.kind = "request" /\ Cancellable(f.id)
             ping  == f.kind = "request" /\ ~Cancellable(f.id)
  <2>1. /\ stub[g] = "serving" /\ inbox[g] # <<>>
        /\ phase' = IF asked THEN [phase EXCEPT ![f.id] = "queued"]
                    ELSE IF ping THEN [phase EXCEPT ![f.id] = "done"] ELSE phase
        /\ inbox' = [inbox EXCEPT ![g] = Tail(@)]
        /\ UNCHANGED <<op, sentTo, link, stub, child, alloc, receipt>>
    BY <1>1 DEF ReadFrame
  <2>2. inbox[g] \in Seq(Frames) /\ Len(inbox[g]) \in Nat /\ 1 \in 1..Len(inbox[g])
    <3>1. inbox[g] \in Seq(Frames)
      BY DEF HiddenInv, HiddenTyped
    <3>2. QED
      BY <2>1, <3>1
  <2>3. f = inbox[g][1] /\ f \in Frames
    BY <2>1, <2>2
  <2>4. f.kind = "request" => /\ sentTo[f.id] = g /\ phase[f.id] = "none"
                              /\ \A j \in 1..Len(inbox[g]) : inbox[g][j] = f => j = 1
    BY <2>2, <2>3 DEF HiddenInv, RequestsAreNew
  <2>5. f.id \in Calls /\ f.kind \in {"request", "cancel"}
    BY <2>3 DEF Frames
  <2>6. /\ Tail(inbox[g]) \in Seq(Frames)
        /\ Len(Tail(inbox[g])) = Len(inbox[g]) - 1
        /\ \A i \in 1..Len(Tail(inbox[g])) :
             i + 1 \in 1..Len(inbox[g]) /\ Tail(inbox[g])[i] = inbox[g][i + 1]
    BY <2>1, <2>2
  <2>7. f.kind = "request" => f = [id |-> f.id, kind |-> "request"]
    BY <2>3 DEF Frames
  <2> HIDE DEF f
  <2>8. /\ phase' \in [Calls -> Phases]
        /\ \A r \in Calls : r # f.id \/ f.kind = "cancel" => phase'[r] = phase[r]
        /\ f.kind = "request" => phase'[f.id] = IF op[f.id] = "ping" THEN "done" ELSE "queued"
    BY <2>1, <2>5 DEF HiddenInv, HiddenTyped, Phases, Cancellable
  <2> HIDE DEF asked, ping
  <2>9. HiddenTyped'
    BY <2>1, <2>6, <2>8 DEF HiddenInv, HiddenTyped
  <2>10. RequestsAreNew'
    <3> SUFFICES ASSUME NEW h \in Stubs, NEW i \in 1..Len(inbox'[h]), inbox'[h][i].kind = "request"
                 PROVE  /\ sentTo'[inbox'[h][i].id] = h
                        /\ phase'[inbox'[h][i].id] = "none"
                        /\ \A j \in 1..Len(inbox'[h]) : inbox'[h][j] = inbox'[h][i] => j = i
      BY DEF RequestsAreNew
    <3>1. CASE h = g
      <4>1. inbox'[h] = Tail(inbox[g])
        BY <2>1, <3>1 DEF HiddenInv, HiddenTyped
      <4>2. i + 1 \in 1..Len(inbox[g]) /\ inbox'[h][i] = inbox[g][i + 1]
        BY <4>1, <2>6
      <4>3. inbox[g][i + 1] \in Frames
        BY <4>2, FrameTyped
      <4>4. inbox[g][i + 1] # f
        BY <4>2, <2>4
      <4>5. inbox[g][i + 1] = [id |-> inbox[g][i + 1].id, kind |-> "request"]
        BY <4>2, <4>3 DEF Frames
      <4>6. f.kind = "request" => inbox[g][i + 1].id # f.id
        BY <4>4, <4>5, <2>7
      <4>7. /\ sentTo[inbox[g][i + 1].id] = g /\ phase[inbox[g][i + 1].id] = "none"
            /\ \A j \in 1..Len(inbox[g]) : inbox[g][j] = inbox[g][i + 1] => j = i + 1
        BY <4>2 DEF HiddenInv, RequestsAreNew
      <4>8. inbox[g][i + 1].id \in Calls
        BY <4>3 DEF Frames
      <4>9. phase'[inbox[g][i + 1].id] = "none"
        BY <4>6, <4>7, <4>8, <2>8, <2>5
      <4>10. ASSUME NEW j \in 1..Len(inbox'[h]), inbox'[h][j] = inbox'[h][i] PROVE j = i
        <5>1. j + 1 \in 1..Len(inbox[g]) /\ inbox[g][j + 1] = inbox[g][i + 1]
          BY <4>1, <4>2, <4>10, <2>6
        <5>2. j + 1 = i + 1
          BY <5>1, <4>7
        <5>3. QED
          BY <5>2, <4>1, <2>6, <2>2
      <4>11. QED
        BY <4>2, <4>7, <4>9, <4>10, <2>1, <3>1
    <3>2. CASE h # g
      <4>1. inbox'[h] = inbox[h]
        BY <2>1, <3>2 DEF HiddenInv, HiddenTyped
      <4>2. /\ sentTo[inbox[h][i].id] = h /\ phase[inbox[h][i].id] = "none"
            /\ \A j \in 1..Len(inbox[h]) : inbox[h][j] = inbox[h][i] => j = i
        <5>1. i \in 1..Len(inbox[h]) /\ inbox[h][i].kind = "request"
          BY <4>1
        <5>2. QED
          BY <5>1 DEF HiddenInv, RequestsAreNew
      <4>3. inbox[h][i].id \in Calls
        BY <4>1, FrameTyped DEF Frames
      <4>4. phase'[inbox[h][i].id] = "none"
        BY <4>2, <4>3, <3>2, <2>4, <2>5, <2>8
      <4>5. QED
        BY <4>1, <4>2, <4>4, <2>1
    <3>3. QED
      BY <3>1, <3>2
  <2>11. StubsAreOver'
    BY <2>1, <2>4, <2>5, <2>8 DEF HiddenInv, StubsAreOver
  <2>12. f.kind = "request" => sentTo[f.id] # 0 /\ op[f.id] \in Ops \ {"none"}
    BY <2>4, <2>5 DEF HiddenInv, HiddenTyped, CallsArePlaced
  <2>13. CallsArePlaced'
    BY <2>1, <2>5, <2>8, <2>12 DEF HiddenInv, CallsArePlaced, Ops
  <2>14. AllocationsAreTold'
    BY <2>1, <2>4, <2>5, <2>8 DEF HiddenInv, AllocationsAreTold, Held
  <2>15. QED
    BY <2>9, <2>10, <2>11, <2>13, <2>14 DEF HiddenInv
<1>2. CASE ReadEof(g)
  <2>1. /\ stub[g] = "serving" /\ link[g] = "down"
        /\ stub' = [stub EXCEPT ![g] = "draining"] /\ inbox' = [inbox EXCEPT ![g] = <<>>]
        /\ UNCHANGED <<op, sentTo, link, phase, child, alloc, receipt>>
    BY <1>2 DEF ReadEof
  <2>2. HiddenTyped'
    BY <2>1 DEF HiddenInv, HiddenTyped
  <2>3. RequestsAreNew'
    BY <2>1 DEF HiddenInv, HiddenTyped, RequestsAreNew
  <2>4. StubsAreOver' /\ CallsArePlaced' /\ AllocationsAreTold'
    BY <2>1 DEF HiddenInv, HiddenTyped, StubsAreOver, CallsArePlaced, AllocationsAreTold, Held
  <2>5. QED
    BY <2>2, <2>3, <2>4 DEF HiddenInv
<1>3. CASE StubExits(g)
  <2>1. /\ stub[g] = "draining" /\ stub' = [stub EXCEPT ![g] = "exited"]
        /\ \A r \in Calls : sentTo[r] = g => phase[r] \in {"none", "done"}
        /\ UNCHANGED <<op, sentTo, inbox, link, phase, child, alloc, receipt>>
    BY <1>3 DEF StubExits
  <2>2. HiddenTyped' /\ RequestsAreNew' /\ StubsAreOver'
    BY <2>1 DEF HiddenInv, HiddenTyped, RequestsAreNew, StubsAreOver
  <2>3. CallsArePlaced' /\ AllocationsAreTold'
    BY <2>1 DEF HiddenInv, CallsArePlaced, AllocationsAreTold, Held
  <2>4. QED
    BY <2>2, <2>3 DEF HiddenInv
<1>4. QED
  BY <1>1, <1>2, <1>3 DEF ServeStep

\* A step of the session that sends nothing and starts no stub.
Quiet ==
  /\ UNCHANGED <<op, sentTo, inbox, stub, phase, child, alloc, receipt>>
  /\ proc' \in Stubs \union {0}
  /\ link' \in [Stubs -> {"none", "up", "down"}]
  /\ \A g \in Stubs : link[g] = "down" => link'[g] = "down"
  /\ DOMAIN pc' = Calls
  /\ \A r \in Calls : /\ pc'[r] \in {"idle", "submit", "starting"} => pc[r] \in {"idle", "submit", "starting"}
                      /\ pc[r] = "done" => pc'[r] = "done"

\* It changes nothing the invariant speaks of.
LEMMA QuietKeeps ==
  ASSUME HiddenInv, Quiet
  PROVE  HiddenInv'
<1>1. HiddenTyped' /\ RequestsAreNew'
  BY DEF HiddenInv, HiddenTyped, RequestsAreNew, Quiet
<1>2. StubsAreOver'
  BY DEF HiddenInv, StubsAreOver, Quiet
<1>3. CallsArePlaced' /\ AllocationsAreTold'
  BY DEF HiddenInv, CallsArePlaced, AllocationsAreTold, Held, Quiet
<1>4. QED
  BY <1>1, <1>2, <1>3 DEF HiddenInv

\* A cancel written to a stub joins its stdin and reads as no request.
LEMMA CancelKeeps ==
  ASSUME HiddenInv, NEW r \in Calls, CancelSent(r),
         UNCHANGED <<op, sentTo, link, stub, phase, child, alloc, receipt, proc>>,
         DOMAIN pc' = Calls,
         \A q \in Calls : /\ pc'[q] \in {"idle", "submit", "starting"} => pc[q] = pc'[q]
                          /\ pc[q] = "done" => pc'[q] = "done"
  PROVE  HiddenInv'
<1>1. CASE ~Alive
  BY <1>1, QuietKeeps DEF CancelSent, Quiet, HiddenInv, HiddenTyped
<1>2. CASE Alive
  <2> DEFINE f == [id |-> r, kind |-> "cancel"]
  <2>1. proc \in Stubs /\ inbox' = [inbox EXCEPT ![proc] = Append(@, f)]
    BY <1>2 DEF CancelSent, Alive, Polls, HiddenInv, HiddenTyped, Cancel, Frame
  <2>2. f \in Frames /\ f.kind # "request"
    BY DEF Frames
  <2>3. inbox[proc] \in Seq(Frames)
    BY <2>1 DEF HiddenInv, HiddenTyped
  <2> HIDE DEF f
  <2>4. /\ Append(inbox[proc], f) \in Seq(Frames)
        /\ Len(inbox[proc]) \in Nat /\ Len(Append(inbox[proc], f)) = Len(inbox[proc]) + 1
        /\ \A i \in 1..Len(inbox[proc]) : Append(inbox[proc], f)[i] = inbox[proc][i]
        /\ Append(inbox[proc], f)[Len(inbox[proc]) + 1] = f
    BY <2>2, <2>3
  <2>5. inbox' \in [Stubs -> Seq(Frames)]
    BY <2>1, <2>4 DEF HiddenInv, HiddenTyped
  <2>6. \A g \in Stubs : g # proc => inbox'[g] = inbox[g]
    BY <2>1 DEF HiddenInv, HiddenTyped
  <2>7. inbox'[proc] = Append(inbox[proc], f)
    BY <2>1 DEF HiddenInv, HiddenTyped
  <2>8. RequestsAreNew'
    <3> SUFFICES ASSUME NEW h \in Stubs, NEW i \in 1..Len(inbox'[h]), inbox'[h][i].kind = "request"
                 PROVE  /\ sentTo'[inbox'[h][i].id] = h
                        /\ phase'[inbox'[h][i].id] = "none"
                        /\ \A j \in 1..Len(inbox'[h]) : inbox'[h][j] = inbox'[h][i] => j = i
      BY DEF RequestsAreNew
    <3>1. i \in 1..Len(inbox[h]) /\ inbox'[h][i] = inbox[h][i]
      BY <2>2, <2>4, <2>6, <2>7, SMTT(30)
    <3>2. /\ sentTo[inbox[h][i].id] = h /\ phase[inbox[h][i].id] = "none"
          /\ \A j \in 1..Len(inbox[h]) : inbox[h][j] = inbox[h][i] => j = i
      BY <3>1 DEF HiddenInv, RequestsAreNew
    <3>3. ASSUME NEW j \in 1..Len(inbox'[h]), inbox'[h][j] = inbox'[h][i]
          PROVE  j \in 1..Len(inbox[h]) /\ inbox[h][j] = inbox[h][i]
      <4>1. CASE h = proc
        <5>1. j \in 1..(Len(inbox[proc]) + 1)
          BY <2>4, <2>7, <4>1
        <5>2. j # Len(inbox[proc]) + 1
          BY <2>2, <2>4, <2>7, <3>3, <4>1
        <5>3. j \in 1..Len(inbox[proc])
          BY <2>4, <5>1, <5>2
        <5>4. inbox'[h][j] = inbox[h][j]
          BY <2>4, <2>7, <4>1, <5>3
        <5>5. QED
          BY <3>1, <3>3, <4>1, <5>3, <5>4
      <4>2. CASE h # proc
        BY <2>6, <3>3, <4>2
      <4>3. QED
        BY <4>1, <4>2
    <3>4. QED
      BY <3>1, <3>2, <3>3
  <2>9. HiddenTyped'
    BY <2>5 DEF HiddenInv, HiddenTyped
  <2>10. StubsAreOver' /\ CallsArePlaced' /\ AllocationsAreTold'
    BY DEF HiddenInv, StubsAreOver, CallsArePlaced, AllocationsAreTold, Held
  <2>11. QED
    BY <2>8, <2>9, <2>10 DEF HiddenInv
<1>3. QED
  BY <1>1, <1>2

\* A request written to a live stub is its call's first and only one.
LEMMA RequestKeeps ==
  ASSUME HiddenInv, NEW r \in Calls, Submitted(r), Polls(proc), pc[r] \in {"submit", "starting"},
         pc' = [pc EXCEPT ![r] = "sent"],
         UNCHANGED <<op, link, stub, phase, child, alloc, receipt, proc>>
  PROVE  HiddenInv'
<1> DEFINE f == [id |-> r, kind |-> "request"]
<1>1. /\ proc \in Stubs /\ proc # 0 /\ link[proc] = "up"
      /\ inbox' = [inbox EXCEPT ![proc] = Append(@, f)] /\ sentTo' = [sentTo EXCEPT ![r] = proc]
  BY DEF Submitted, Polls, HiddenInv, HiddenTyped, Request, Frame
<1>2. f \in Frames /\ f.id = r
  BY DEF Frames
<1>3. sentTo[r] = 0 /\ phase[r] = "none" /\ op[r] # "none"
  BY DEF HiddenInv, CallsArePlaced
<1>4. inbox[proc] \in Seq(Frames)
  BY <1>1 DEF HiddenInv, HiddenTyped
<1> HIDE DEF f
<1>5. /\ Append(inbox[proc], f) \in Seq(Frames)
      /\ Len(inbox[proc]) \in Nat /\ Len(Append(inbox[proc], f)) = Len(inbox[proc]) + 1
      /\ \A i \in 1..Len(inbox[proc]) : Append(inbox[proc], f)[i] = inbox[proc][i]
      /\ Append(inbox[proc], f)[Len(inbox[proc]) + 1] = f
  BY <1>2, <1>4
<1>6. inbox' \in [Stubs -> Seq(Frames)]
  BY <1>1, <1>5 DEF HiddenInv, HiddenTyped
<1>7. /\ \A g \in Stubs : g # proc => inbox'[g] = inbox[g]
      /\ inbox'[proc] = Append(inbox[proc], f)
  BY <1>1 DEF HiddenInv, HiddenTyped
<1>8. /\ sentTo'[r] = proc /\ \A q \in Calls \ {r} : sentTo'[q] = sentTo[q]
      /\ sentTo' \in [Calls -> Stubs \union {0}]
  BY <1>1 DEF HiddenInv, HiddenTyped
<1>9. \A g \in Stubs : \A i \in 1..Len(inbox[g]) :
        inbox[g][i].kind = "request" =>
          /\ inbox[g][i].id \in Calls \ {r} /\ sentTo[inbox[g][i].id] = g /\ phase[inbox[g][i].id] = "none"
          /\ inbox[g][i] # f
          /\ \A j \in 1..Len(inbox[g]) : inbox[g][j] = inbox[g][i] => j = i
  <2> SUFFICES ASSUME NEW g \in Stubs, NEW i \in 1..Len(inbox[g]), inbox[g][i].kind = "request"
               PROVE  /\ inbox[g][i].id \in Calls \ {r} /\ sentTo[inbox[g][i].id] = g
                      /\ phase[inbox[g][i].id] = "none" /\ inbox[g][i] # f
                      /\ \A j \in 1..Len(inbox[g]) : inbox[g][j] = inbox[g][i] => j = i
    OBVIOUS
  <2>1. inbox[g][i].id \in Calls
    BY FrameTyped DEF Frames
  <2>2. /\ sentTo[inbox[g][i].id] = g /\ phase[inbox[g][i].id] = "none"
        /\ \A j \in 1..Len(inbox[g]) : inbox[g][j] = inbox[g][i] => j = i
    BY DEF HiddenInv, RequestsAreNew
  <2>3. g # 0
    OBVIOUS
  <2>4. QED
    BY <2>1, <2>2, <2>3, <1>2, <1>3
<1>10. RequestsAreNew'
  <2> SUFFICES ASSUME NEW h \in Stubs, NEW i \in 1..Len(inbox'[h]), inbox'[h][i].kind = "request"
               PROVE  /\ sentTo'[inbox'[h][i].id] = h
                      /\ phase'[inbox'[h][i].id] = "none"
                      /\ \A j \in 1..Len(inbox'[h]) : inbox'[h][j] = inbox'[h][i] => j = i
    BY DEF RequestsAreNew
  <2>1. CASE h = proc /\ i = Len(inbox[proc]) + 1
    <3>1. inbox'[h][i] = f
      BY <1>5, <1>7, <2>1
    <3>2. ASSUME NEW j \in 1..Len(inbox'[h]), inbox'[h][j] = f PROVE j = i
      <4>1. CASE j \in 1..Len(inbox[proc])
        <5>1. inbox[proc][j] = f
          BY <4>1, <1>5, <1>7, <2>1, <3>2
        <5>2. inbox[proc][j].kind = "request"
          BY <5>1 DEF f
        <5>3. QED
          BY <4>1, <5>1, <5>2, <1>1, <1>9
      <4>2. QED
        BY <4>1, <1>5, <1>7, <2>1
    <3>3. QED
      BY <1>2, <1>3, <1>8, <2>1, <3>1, <3>2
  <2>2. CASE ~(h = proc /\ i = Len(inbox[proc]) + 1)
    <3>1. i \in 1..Len(inbox[h]) /\ inbox'[h][i] = inbox[h][i]
      <4>1. CASE h = proc
        BY <1>5, <1>7, <2>2, <4>1, SMTT(30)
      <4>2. CASE h # proc
        BY <1>7, <4>2
      <4>3. QED
        BY <4>1, <4>2
    <3>2. /\ inbox[h][i].id \in Calls \ {r} /\ sentTo[inbox[h][i].id] = h /\ phase[inbox[h][i].id] = "none"
          /\ inbox[h][i] # f
          /\ \A j \in 1..Len(inbox[h]) : inbox[h][j] = inbox[h][i] => j = i
      BY <1>9, <3>1
    <3>3. ASSUME NEW j \in 1..Len(inbox'[h]), inbox'[h][j] = inbox'[h][i]
          PROVE  j \in 1..Len(inbox[h]) /\ inbox[h][j] = inbox[h][i]
      <4>1. CASE h = proc
        <5>1. j \in 1..(Len(inbox[proc]) + 1)
          BY <1>5, <1>7, <4>1
        <5>2. j # Len(inbox[proc]) + 1
          BY <1>5, <1>7, <3>1, <3>2, <3>3, <4>1
        <5>3. j \in 1..Len(inbox[proc])
          BY <1>5, <5>1, <5>2
        <5>4. inbox'[h][j] = inbox[h][j]
          BY <1>5, <1>7, <4>1, <5>3
        <5>5. QED
          BY <3>1, <3>3, <4>1, <5>3, <5>4
      <4>2. CASE h # proc
        BY <1>7, <3>1, <3>3, <4>2
      <4>3. QED
        BY <4>1, <4>2
    <3>4. QED
      BY <1>8, <3>1, <3>2, <3>3
  <2>3. QED
    BY <2>1, <2>2
<1>11. HiddenTyped'
  BY <1>6, <1>8 DEF HiddenInv, HiddenTyped
<1>12. StubsAreOver'
  BY <1>1, <1>3, <1>8 DEF HiddenInv, StubsAreOver
<1>13. CallsArePlaced'
  BY <1>1, <1>3, <1>8 DEF HiddenInv, HiddenTyped, CallsArePlaced
<1>14. AllocationsAreTold'
  BY DEF HiddenInv, AllocationsAreTold, Held
<1>15. QED
  BY <1>10, <1>11, <1>12, <1>13, <1>14 DEF HiddenInv

\* A stub is started on a connection nobody used.
LEMMA SpawnKeeps ==
  ASSUME HiddenInv, NEW r \in Calls, SubmitStarts(r)
  PROVE  HiddenInv'
<1> DEFINE g == NextStub
<1>1. g \in Stubs /\ link[g] = "none"
  BY NextStubIsNew DEF SubmitStarts
<1>2. /\ proc' = g /\ link' = [link EXCEPT ![g] = "up"]
      /\ stub' = [stub EXCEPT ![g] = "serving"]
      /\ pc[r] = "submit" /\ pc' = [pc EXCEPT ![r] = "starting"]
      /\ UNCHANGED <<op, sentTo, inbox, phase, child, alloc, receipt>>
  BY DEF SubmitStarts, Spawning, Goto, requests, work, slurm
<1> HIDE DEF g
<1>3. HiddenTyped' /\ RequestsAreNew'
  BY <1>1, <1>2 DEF HiddenInv, HiddenTyped, RequestsAreNew
<1>4. StubsAreOver'
  BY <1>1, <1>2 DEF HiddenInv, HiddenTyped, StubsAreOver
<1>5. CallsArePlaced' /\ AllocationsAreTold'
  BY <1>2 DEF HiddenInv, HiddenTyped, CallsArePlaced, AllocationsAreTold, Held
<1>6. QED
  BY <1>3, <1>4, <1>5 DEF HiddenInv

\* Every step keeps the invariant.
LEMMA HiddenStep == HiddenInv /\ [Next]_vars => HiddenInv'
<1> SUFFICES ASSUME HiddenInv, [Next]_vars PROVE HiddenInv'
  OBVIOUS
<1> USE DEF requests, pipes, work, slurm, stubVars, sessionVars, callerVars
<1>1. CASE UNCHANGED vars
  BY <1>1, QuietKeeps DEF vars, Quiet, HiddenInv, HiddenTyped
<1>2. CASE StubStep /\ UNCHANGED <<sessionVars, callerVars>>
  BY <1>2, ServeKeeps, HandlerKeeps DEF StubStep
<1>3. ASSUME KillLocked, UNCHANGED <<op, sentTo, inbox, stub, phase, child, alloc, receipt>>,
             DOMAIN pc' = Calls, \A q \in Calls : pc'[q] \in {pc[q], "done"}
      PROVE  HiddenInv'
  <2>1. Quiet
    BY <1>3 DEF KillLocked, Quiet, HiddenInv, HiddenTyped
  <2>2. QED
    BY <2>1, QuietKeeps
<1>4. ASSUME NEW r \in Calls, CallStep(r) PROVE HiddenInv'
  <2>1. CASE Enter(r) \/ Recheck(r) \/ Receive(r)
    <3>1. Quiet
      BY <2>1 DEF Enter, Recheck, Receive, Goto, Quiet, HiddenInv, HiddenTyped
    <3>2. QED
      BY <3>1, QuietKeeps
  <2>2. CASE SubmitAlive(r)
    BY <2>2, RequestKeeps DEF SubmitAlive, Alive, Goto
  <2>3. CASE SubmitStarts(r)
    BY <2>3, SpawnKeeps
  <2>4. CASE Started(r)
    <3>1. CASE Polls(proc) /\ remotePid # 0
      BY <2>4, <3>1, RequestKeeps DEF Started, Goto
    <3>2. CASE ~(Polls(proc) /\ remotePid # 0)
      BY <2>4, <3>2, <1>3 DEF Started, Goto, HiddenInv, HiddenTyped
    <3>3. QED
      BY <3>1, <3>2
  <2>5. CASE SendCancel(r)
    <3>1. /\ UNCHANGED <<op, sentTo, link, stub, phase, child, alloc, receipt, proc>>
          /\ DOMAIN pc' = Calls
          /\ \A q \in Calls : /\ pc'[q] \in {"idle", "submit", "starting"} => pc[q] = pc'[q]
                              /\ pc[q] = "done" => pc'[q] = "done"
      BY <2>5 DEF SendCancel, Goto, HiddenInv, HiddenTyped
    <3>2. CancelSent(r)
      BY <2>5 DEF SendCancel
    <3>3. QED
      BY <3>1, <3>2, CancelKeeps
  <2>6. QED
    BY <1>4, <2>1, <2>2, <2>3, <2>4, <2>5 DEF CallStep
<1>5. ASSUME NEW r \in Calls,
             QuitterCancels(r) \/ StartTimesOut(r) \/ ProbeTimesOut(r) \/ GiveUpWaiting(r) \/ CallerGivesUp(r)
      PROVE  HiddenInv'
  <2>1. CASE QuitterCancels(r)
    BY <2>1, CancelKeeps DEF QuitterCancels, HiddenInv, HiddenTyped
  <2>2. CASE StartTimesOut(r)
    BY <2>2, <1>3 DEF StartTimesOut, Goto, HiddenInv, HiddenTyped
  <2>3. CASE ProbeTimesOut(r)
    BY <2>3, <1>3 DEF ProbeTimesOut, Goto, HiddenInv, HiddenTyped
  <2>4. CASE GiveUpWaiting(r) \/ CallerGivesUp(r)
    <3>1. Quiet
      BY <2>4 DEF GiveUpWaiting, CallerGivesUp, Goto, Quiet, HiddenInv, HiddenTyped
    <3>2. QED
      BY <3>1, QuietKeeps
  <2>5. QED
    BY <1>5, <2>1, <2>2, <2>3, <2>4
<1>6. ASSUME NEW g \in Stubs, ReaderStep(g) \/ LoseLink(g) PROVE HiddenInv'
  <2>1. Quiet
    BY <1>6 DEF ReaderStep, ReadLine, ReadEnd, ReaderEnds, LoseLink, Quiet, HiddenInv, HiddenTyped
  <2>2. QED
    BY <2>1, QuietKeeps
<1>7. CASE KillSession
  BY <1>7, <1>3 DEF KillSession, HiddenInv, HiddenTyped
<1>8. QED
  BY <1>1, <1>2, <1>4, <1>5, <1>6, <1>7 DEF Next

\* A receipt that says confirmed is true, and a stub that exited has reported
\* every allocation it may have left behind (NoHiddenAllocation).
THEOREM NothingIsHidden == Spec => []NoHiddenAllocation
BY HiddenInit, HiddenStep, HiddenImplies, PTL DEF Spec
==============================================================================
