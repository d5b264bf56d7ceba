------------------------- MODULE CampaignLedgerProofs -------------------------
(***************************************************************************)
(* Proofs about CampaignLedger, for any number of units, groups, attempts, *)
(* jobs and authorizations: the inductive invariant IndInv, the safety     *)
(* properties it implies, and the refinement of SingleFlight for each unit.*)
(***************************************************************************)
EXTENDS CampaignLedger, FiniteSetTheorems, TLAPS

USE SlurmAssumption, CampaignLedgerAssumption

------------------------------------------------------------------------------
(* The inductive invariant *)

Recorded == {a \in Attempts : GroupOf(a) # NoGroup}

\* What the ledger names is in the ledger, and nothing is recorded elsewhere of
\* an attempt that is not.
LedgerIsClosed ==
  /\ \A a \in Attempts : attempts[a].state = "ABSENT" => a \notin Recorded
  /\ \A a \in Recorded : current[GroupOf(a)] # NoAttempt
  /\ \A g \in Groups : current[g] # NoAttempt => GroupOf(current[g]) = g
  /\ \A k \in Auths \X Units : consumed[k] # NoAttempt => consumed[k] \in Recorded
  /\ misled \subseteq Recorded
  /\ \A w \in waived : w[1] \in Recorded

\* A marker leads to one job at most, and to none while its request is open.
OneJobPerMarker ==
  /\ \A a \in sent, j \in JobIds : jobs[j].marker # a
  /\ \A j, k \in JobIds :
       jobs[j].marker = jobs[k].marker /\ jobs[j].marker # NoMarker => j = k

Unknown(a) == a \notin sent /\ JobsOf(a) = {}

\* The controller has not heard of an attempt before its sbatch is called, and
\* a job in the ledger is the attempt's own.
JobsAreTheirs ==
  /\ \A a \in Attempts : attempts[a].state \in {"ABSENT", "INTENDED"} => Unknown(a)
  /\ \A a \in Attempts : attempts[a].job # NoJob => jobs[attempts[a].job].marker = a

\* Around its sbatch call a request speaks of an attempt whose submission is
\* saved, and that was not submitted before.
SubmissionIsFresh ==
  work.phase \in {"submitting", "sent"} =>
    /\ attempts[current[work.group]].state = "SUBMITTING"
    /\ attempts[current[work.group]].job = NoJob
    /\ work.phase = "submitting" => Unknown(current[work.group])

\* An attempt that may still be submitted has every unit of its group.
UnresolvedKeepsUnits ==
  \A a \in Attempts : attempts[a].state \in Unresolved =>
    \A u \in UnitsUnder(a) : units[u] = a

RejectedIsGone ==
  \A a \in Attempts : attempts[a].state = "REJECTED" => ~Outstanding(a) \/ a \in misled

\* What an operator let be replaced stays replaceable: however late a retry
\* authorization is used, the attempt it names is past its submission and, unless
\* the operator took the risk, has left the unit for good.
GrantsAreSettled ==
  \A h \in grants :
    /\ h.expected = NoAttempt => ~h.risk
    /\ h.expected # NoAttempt =>
         /\ attempts[h.expected].state \notin Unresolved \union {"ABSENT"}
         /\ \/ h.risk
            \/ <<h.expected, h.unit>> \in over
            \/ h.expected \in misled
            \/ ~Outstanding(h.expected)

IndInv ==
  /\ TypeOK
  /\ LedgerIsClosed
  /\ OneJobPerMarker
  /\ JobsAreTheirs
  /\ SubmissionIsFresh
  /\ UnresolvedKeepsUnits
  /\ RejectedIsGone
  /\ GrantsAreSettled
  /\ ReservationIsCurrent
  /\ NoUnitDuplicate

\* The part of TypeOK that speaks of the request at work.
WorkOK ==
  /\ work \in [phase : {"idle", "drive", "submitting", "sent"},
               todo : SUBSET Groups, group : Groups \union {NoGroup}]
  /\ work.phase \in {"submitting", "sent"} <=> work.group # NoGroup
  /\ \A g \in work.todo \union ({work.group} \ {NoGroup}) : current[g] # NoAttempt

\* An empty ledger satisfies it.
LEMMA InitInv == Init => IndInv
<1> SUFFICES ASSUME Init PROVE IndInv
  OBVIOUS
<1> USE DEF Init, SlurmInit, NoRecord, NoJobRecord, Attempts, NoAttempt
<1>1. TypeOK
  BY DEF TypeOK, Idle, GroupOf, JobStates, Queued, AttemptStates
<1>2. LedgerIsClosed /\ OneJobPerMarker /\ ReservationIsCurrent
  BY DEF LedgerIsClosed, OneJobPerMarker, Recorded, GroupOf, ReservationIsCurrent
<1>3. JobsAreTheirs /\ SubmissionIsFresh
  BY DEF JobsAreTheirs, SubmissionIsFresh, Unknown, JobsOf, Idle
<1>4. UnresolvedKeepsUnits /\ RejectedIsGone /\ GrantsAreSettled
  BY DEF UnresolvedKeepsUnits, RejectedIsGone, GrantsAreSettled, Unresolved
<1>5. NoUnitDuplicate
  BY DEF NoUnitDuplicate, FlyingFor, UnitsUnder, GroupOf
<1>6. QED
  BY <1>1, <1>2, <1>3, <1>4, <1>5 DEF IndInv

\* A request that drives groups which have a current attempt is well formed.
LEMMA DriveKeeps ==
  ASSUME NEW todo \in SUBSET Groups, \A g \in todo : current'[g] # NoAttempt, Drive(todo)
  PROVE  WorkOK' /\ SubmissionIsFresh'
<1>1. CASE todo = {}
  BY <1>1 DEF Drive, Idle, WorkOK, SubmissionIsFresh
<1>2. CASE todo # {}
  BY <1>2 DEF Drive, Idle, WorkOK, SubmissionIsFresh
<1>3. QED
  BY <1>1, <1>2

\* A step of the request that writes nothing.
LEMMA ReadingKeeps ==
  ASSUME IndInv, WorkOK', SubmissionIsFresh', UNCHANGED <<ledger, over, grants, ghosts, slurmVars>>
  PROVE  IndInv'
<1> USE DEF IndInv, ledger, ghosts, slurmVars
<1>1. TypeOK'
  BY DEF TypeOK, WorkOK, GroupOf
<1>2. LedgerIsClosed' /\ OneJobPerMarker' /\ ReservationIsCurrent'
  BY DEF LedgerIsClosed, OneJobPerMarker, ReservationIsCurrent, Recorded, GroupOf, UnitsUnder
<1>3. JobsAreTheirs' /\ UnresolvedKeepsUnits' /\ RejectedIsGone' /\ GrantsAreSettled'
  BY DEF JobsAreTheirs, UnresolvedKeepsUnits, RejectedIsGone, GrantsAreSettled, Unknown,
         UnitsUnder, GroupOf, Outstanding, JobsOf
<1>4. NoUnitDuplicate'
  BY DEF NoUnitDuplicate, FlyingFor, ExcusedFor, UnitsUnder, GroupOf, Outstanding, JobsOf
<1>5. QED
  BY <1>1, <1>2, <1>3, <1>4

\* A step that gives the current attempt of a group another state, or a job.
LEMMA ResolveKeeps ==
  ASSUME IndInv, NEW g \in Groups, current[g] # NoAttempt,
         NEW s \in AttemptStates \ {"INTENDED"},
         NEW job \in JobsOf(current[g]) \union {NoJob},
         Resolve(current[g], s, job),
         s = "SUBMITTING" => attempts[current[g]].state = "INTENDED",
         s = "REJECTED" => ~Outstanding(current[g]) \/ current[g] \in misled',
         misled' = misled \/ misled' = misled \union {current[g]},
         UNCHANGED <<current, units, consumed, over, grants, waived, slurmVars>>,
         WorkOK', SubmissionIsFresh'
  PROVE  IndInv'
<1> DEFINE a == current[g]
<1> USE DEF IndInv, slurmVars, Attempts
<1>1. /\ a \in Attempts /\ attempts[a].group = g /\ g # NoGroup
      /\ job \in JobIds \union {NoJob}
      /\ attempts[a] \in [group : Groups \union {NoGroup},
                         state : AttemptStates \union {"ABSENT"},
                         job : JobIds \union {NoJob}]
      /\ attempts = [b \in Attempts |-> attempts[b]]
      /\ Resolve(a, s, job)
  BY DEF LedgerIsClosed, TypeOK, JobsOf, GroupOf
<1> HIDE DEF a
<1>2. /\ attempts'[a] = [group |-> g, state |-> s, job |-> job]
      /\ \A b \in Attempts \ {a} : attempts'[b] = attempts[b]
      /\ attempts' = [b \in Attempts |-> attempts'[b]]
  BY <1>1 DEF Resolve
<1>3. \A b \in Attempts : GroupOf(b)' = GroupOf(b) /\ UnitsUnder(b)' = UnitsUnder(b)
  BY <1>1, <1>2 DEF GroupOf, UnitsUnder
<1>4. \A b \in Attempts : Outstanding(b)' = Outstanding(b) /\ JobsOf(b)' = JobsOf(b)
  BY DEF Outstanding, JobsOf
<1>5. TypeOK'
  <2>1. attempts' \in [Attempts -> [group : Groups \union {NoGroup},
                                   state : AttemptStates \union {"ABSENT"},
                                   job : JobIds \union {NoJob}]]
    BY <1>1, <1>2 DEF TypeOK
  <2>2. \A b \in Attempts : attempts'[b].group = NoGroup <=> attempts'[b] = NoRecord
    BY <1>1, <1>2 DEF TypeOK, GroupOf, NoRecord
  <2>3. misled' \subseteq Attempts
    BY <1>1 DEF TypeOK, a
  <2>4. QED
    BY <2>1, <2>2, <2>3 DEF TypeOK, WorkOK, GroupOf
<1>6. Recorded' = Recorded /\ a \in Recorded
  BY <1>1, <1>3 DEF Recorded, GroupOf
<1>7. LedgerIsClosed'
  <2>1. misled' \subseteq Recorded
    BY <1>6 DEF LedgerIsClosed, a
  <2>2. \A b \in Recorded : current[GroupOf(b)'] # NoAttempt
    BY <1>3 DEF LedgerIsClosed, Recorded
  <2>3. \A h \in Groups : current[h] # NoAttempt => GroupOf(current[h])' = h
    BY <1>3 DEF LedgerIsClosed, TypeOK
  <2>4. \A b \in Attempts : attempts'[b].state = "ABSENT" => b \notin Recorded
    BY <1>2 DEF LedgerIsClosed, AttemptStates
  <2>5. QED
    BY <1>6, <2>1, <2>2, <2>3, <2>4 DEF LedgerIsClosed
<1>8. OneJobPerMarker' /\ ReservationIsCurrent'
  BY <1>3 DEF OneJobPerMarker, ReservationIsCurrent, TypeOK
<1>9. JobsAreTheirs'
  BY <1>1, <1>2, <1>4 DEF JobsAreTheirs, Unknown, AttemptStates, JobsOf, a
<1>10. UnresolvedKeepsUnits'
  BY <1>1, <1>2, <1>3 DEF UnresolvedKeepsUnits, Unresolved, a
<1>11. RejectedIsGone'
  BY <1>1, <1>2, <1>4 DEF RejectedIsGone, a
<1>12. GrantsAreSettled'
  <2> SUFFICES ASSUME NEW h \in grants, h.expected # NoAttempt
               PROVE  /\ attempts'[h.expected].state \notin Unresolved \union {"ABSENT"}
                      /\ \/ h.risk
                         \/ <<h.expected, h.unit>> \in over
                         \/ h.expected \in misled'
                         \/ ~Outstanding(h.expected)'
    BY DEF GrantsAreSettled
  <2>1. h.expected \in Attempts
    BY DEF TypeOK, Grant
  <2>2. /\ attempts[h.expected].state \notin Unresolved \union {"ABSENT"}
        /\ \/ h.risk \/ <<h.expected, h.unit>> \in over
           \/ h.expected \in misled \/ ~Outstanding(h.expected)
    BY DEF GrantsAreSettled
  <2>3. h.expected = a => s # "SUBMITTING"
    BY <2>2 DEF Unresolved, a
  <2>4. attempts'[h.expected].state \notin Unresolved \union {"ABSENT"}
    BY <1>2, <2>1, <2>2, <2>3 DEF Unresolved, AttemptStates
  <2>5. QED
    BY <1>4, <2>1, <2>2, <2>4
<1>13. NoUnitDuplicate'
  BY <1>3, <1>4 DEF NoUnitDuplicate, FlyingFor, ExcusedFor
<1>14. QED
  BY <1>5, <1>7, <1>10, <1>11, <1>12, <1>13, <1>8, <1>9

------------------------------------------------------------------------------
(* One lemma per kind of action: it preserves the inductive invariant *)

\* A replay, or a recovery of what blocks the request, drives groups that have a
\* current attempt.
LEMMA RecoveringKeeps ==
  ASSUME IndInv, NEW g \in Groups, NEW claims \in SUBSET grants,
         Replay(g, claims) \/ Recover(g, claims)
  PROVE  IndInv'
<1> USE DEF IndInv, Attempts
<1>1. ASSUME NEW b \in Recorded
      PROVE  GroupOf(b) \in Groups /\ current[GroupOf(b)] # NoAttempt
  BY DEF Recorded, GroupOf, TypeOK, LedgerIsClosed
<1>2. ASSUME NEW todo, Drive(todo), todo \subseteq {GroupOf(b) : b \in Recorded},
             UNCHANGED <<ledger, over, grants, ghosts, slurmVars>>
      PROVE  IndInv'
  <2>1. todo \in SUBSET Groups /\ \A h \in todo : current'[h] # NoAttempt
    BY <1>1, <1>2 DEF ledger
  <2>2. QED
    BY <1>2, <2>1, DriveKeeps, ReadingKeeps
<1>3. CASE Replay(g, claims)
  <2>1. PaidFor(claims) \subseteq Recorded
    <3>1. ASSUME NEW h \in claims, consumed[<<h.auth, h.unit>>] # NoAttempt
          PROVE  consumed[<<h.auth, h.unit>>] \in Recorded
      <4>1. <<h.auth, h.unit>> \in Auths \X Units
        BY DEF TypeOK, Grant
      <4>2. QED
        BY <3>1, <4>1 DEF LedgerIsClosed
    <3>2. QED
      BY <3>1 DEF PaidFor
  <2>2. QED
    BY <1>2, <1>3, <2>1 DEF Replay
<1>4. CASE Recover(g, claims)
  <2>1. ASSUME NEW u \in UnitsOf[g], units[u] # NoAttempt PROVE units[u] \in Recorded
    BY <2>1 DEF ReservationIsCurrent, UnitsUnder, Recorded, TypeOK
  <2>2. Blocking(g, claims) \subseteq {GroupOf(b) : b \in Recorded}
    BY <2>1 DEF Blocking
  <2>3. QED
    BY <1>2, <1>4, <2>2 DEF Recover
<1>5. QED
  BY <1>3, <1>4

\* What a driven group's current attempt is.
LEMMA DrivenFacts ==
  ASSUME IndInv, NEW g \in Groups, Driven(g)
  PROVE  /\ current[g] \in Attempts
         /\ current[g] # NoAttempt
         /\ work.todo \ {g} \in SUBSET Groups
         /\ \A h \in work.todo \ {g} : current[h] # NoAttempt
BY DEF IndInv, TypeOK, Driven, Attempts, NoAttempt

\* A request brings a group's attempt one step on.
LEMMA DrivingKeeps ==
  ASSUME IndInv, NEW g \in Groups,
         RecoverJob(g) \/ GiveUpOnMarker(g) \/ NothingToDo(g) \/ StartSubmission(g)
  PROVE  IndInv'
<1>1. /\ current[g] \in Attempts /\ current[g] # NoAttempt
      /\ work.todo \ {g} \in SUBSET Groups
      /\ \A h \in work.todo \ {g} : current[h] # NoAttempt
  BY DrivenFacts DEF RecoverJob, GiveUpOnMarker, NothingToDo, StartSubmission
<1>2. CASE NothingToDo(g)
  BY <1>1, <1>2, DriveKeeps, ReadingKeeps DEF NothingToDo, ledger
<1>3. CASE RecoverJob(g)
  <2>1. WorkOK' /\ SubmissionIsFresh'
    BY <1>1, <1>3, DriveKeeps DEF RecoverJob
  <2>2. PICK j \in JobsOf(current[g]) : Resolve(current[g], "ACCEPTED", j)
    BY <1>3 DEF RecoverJob
  <2>3. QED
    BY <1>1, <1>3, <2>1, <2>2, ResolveKeeps DEF RecoverJob, ghosts, AttemptStates
<1>4. CASE GiveUpOnMarker(g)
  <2>1. WorkOK' /\ SubmissionIsFresh'
    BY <1>1, <1>4, DriveKeeps DEF GiveUpOnMarker
  <2>2. QED
    BY <1>1, <1>4, <2>1, ResolveKeeps DEF GiveUpOnMarker, ghosts, AttemptStates
<1>5. CASE StartSubmission(g)
  <2>1. WorkOK'
    BY <1>1, <1>5 DEF StartSubmission, WorkOK
  <2>2. SubmissionIsFresh'
    <3>1. Unknown(current[g])
      BY <1>1, <1>5 DEF StartSubmission, IndInv, JobsAreTheirs
    <3>2. /\ attempts'[current[g]].state = "SUBMITTING"
          /\ attempts'[current[g]].job = NoJob
      BY <1>1, <1>5 DEF StartSubmission, Resolve, IndInv, TypeOK
    <3>3. QED
      BY <1>5, <3>1, <3>2 DEF StartSubmission, SubmissionIsFresh, Unknown, JobsOf, slurmVars
  <2>3. QED
    BY <1>1, <1>5, <2>1, <2>2, ResolveKeeps DEF StartSubmission, ghosts, AttemptStates
<1>6. QED
  BY <1>2, <1>3, <1>4, <1>5

\* The attempt a request submits.
LEMMA SubmittedFacts ==
  ASSUME IndInv, work.phase \in {"submitting", "sent"}
  PROVE  /\ work.group \in Groups
         /\ current[work.group] \in Attempts
         /\ current[work.group] # NoAttempt
         /\ GroupOf(current[work.group]) = work.group
         /\ attempts[current[work.group]].state = "SUBMITTING"
         /\ work.todo \in SUBSET Groups
         /\ \A h \in work.todo : current[h] # NoAttempt
BY DEF IndInv, TypeOK, LedgerIsClosed, SubmissionIsFresh, Attempts, NoAttempt

\* The outcome of sbatch is stored.
LEMMA ConcludingKeeps ==
  ASSUME IndInv, SbatchAccepted \/ SbatchUnparseable \/ SbatchRejected
  PROVE  IndInv'
<1> DEFINE g == work.group
<1>1. /\ g \in Groups /\ current[g] \in Attempts /\ current[g] # NoAttempt
      /\ work.todo \in SUBSET Groups
      /\ \A h \in work.todo : current[h] # NoAttempt
  BY SubmittedFacts DEF SbatchAccepted, SbatchUnparseable, SbatchRejected
<1>2. ASSUME NEW s \in {"ACCEPTED", "UNKNOWN", "REJECTED"},
             NEW job \in JobsOf(current[g]) \union {NoJob}, Conclude(s, job),
             s = "REJECTED" => ~Outstanding(current[g]) \/ current[g] \in misled',
             misled' = misled \/ misled' = misled \union {current[g]}
      PROVE  IndInv'
  <2>1. WorkOK' /\ SubmissionIsFresh'
    BY <1>1, <1>2, DriveKeeps DEF Conclude
  <2>2. s \in AttemptStates \ {"INTENDED"} /\ s # "SUBMITTING"
    BY DEF AttemptStates
  <2> HIDE DEF g
  <2>3. QED
    BY <1>1, <1>2, <2>1, <2>2, ResolveKeeps DEF Conclude, g
<1>3. CASE SbatchAccepted
  BY <1>2, <1>3 DEF SbatchAccepted
<1>4. CASE SbatchUnparseable
  BY <1>2, <1>4 DEF SbatchUnparseable
<1>5. CASE SbatchRejected
  BY <1>2, <1>5 DEF SbatchRejected
<1>6. QED
  BY <1>3, <1>4, <1>5

\* A client stores what it saw of an attempt that has a job.
LEMMA UpdatingKeeps ==
  ASSUME IndInv, NEW g \in Groups, NEW s \in Reported, UpdateAttempt(g, s)
  PROVE  IndInv'
<1> DEFINE a == current[g]
<1>1. a \in Attempts /\ a # NoAttempt /\ attempts[a].job \in JobsOf(a)
  BY DEF UpdateAttempt, IndInv, TypeOK, JobsAreTheirs, JobsOf, Attempts
<1>2. Resolve(a, s, attempts[a].job)
  BY <1>1 DEF UpdateAttempt, Resolve, IndInv, TypeOK
<1>3. s \in AttemptStates \ {"INTENDED"} /\ s \notin {"SUBMITTING", "REJECTED"}
  BY DEF AttemptStates
<1>4. WorkOK' /\ SubmissionIsFresh'
  BY DEF UpdateAttempt, IndInv, TypeOK, WorkOK, SubmissionIsFresh, Idle
<1> HIDE DEF a
<1>5. QED
  BY <1>1, <1>2, <1>3, <1>4, ResolveKeeps DEF UpdateAttempt, ghosts, a

\* What Intend does: intent, reservations and spent authorizations are written
\* for a new attempt of g, and every claimed unit changes hands.
Intended(g, claims, a) ==
  /\ g # NoGroup
  /\ attempts'[a] = [group |-> g, state |-> "INTENDED", job |-> NoJob]
  /\ \A b \in Attempts \ {a} : attempts'[b] = attempts[b]
  /\ UnitsUnder(a)' = UnitsOf[g] /\ UnitsUnder(a) = {}
  /\ \A b \in Attempts \ {a} : UnitsUnder(b)' = UnitsUnder(b)
  /\ a \notin Recorded /\ Recorded' = Recorded \union {a}
  /\ Unknown(a) /\ Unknown(a)'
  /\ \A b \in Attempts : Outstanding(b)' = Outstanding(b) /\ JobsOf(b)' = JobsOf(b)
  /\ \A u \in Units : units'[u] = IF u \in UnitsOf[g] THEN a ELSE units[u]
  /\ \A h \in Groups : current'[h] = IF h = g THEN a ELSE current[h]
  /\ \A u \in UnitsOf[g] : units[u] # NoAttempt =>
       \E h \in claims : h.unit = u /\ h.expected = units[u]
  /\ \A h \in claims : /\ h.unit \in UnitsOf[g] /\ units[h.unit] = h.expected
                       /\ consumed[<<h.auth, h.unit>>] = NoAttempt

\* What an intent writes: op_campaign_attempt_intend in full.
LEMMA IntendFacts ==
  ASSUME IndInv, NEW g \in Groups, NEW claims \in SUBSET grants, NEW a \in Attempts,
         Intend(g, claims, a)
  PROVE  Intended(g, claims, a)
<1> USE DEF IndInv, Attempts
<1>1. g # NoGroup /\ attempts[a].state = "ABSENT" /\ a \notin Recorded
  BY DEF Intend, LedgerIsClosed
<1>2. /\ attempts'[a] = [group |-> g, state |-> "INTENDED", job |-> NoJob]
      /\ \A b \in Attempts \ {a} : attempts'[b] = attempts[b]
  BY DEF Intend, TypeOK
<1>3. /\ UnitsUnder(a)' = UnitsOf[g] /\ UnitsUnder(a) = {}
      /\ \A b \in Attempts \ {a} : UnitsUnder(b)' = UnitsUnder(b)
  BY <1>1, <1>2 DEF UnitsUnder, GroupOf, Recorded
<1>4. Recorded' = Recorded \union {a}
  BY <1>1, <1>2 DEF Recorded, GroupOf
<1>5. /\ Unknown(a) /\ Unknown(a)'
      /\ \A b \in Attempts : Outstanding(b)' = Outstanding(b) /\ JobsOf(b)' = JobsOf(b)
  BY <1>1 DEF Intend, JobsAreTheirs, Unknown, Outstanding, JobsOf, slurmVars
<1>6. /\ \A u \in Units : units'[u] = IF u \in UnitsOf[g] THEN a ELSE units[u]
      /\ \A h \in Groups : current'[h] = IF h = g THEN a ELSE current[h]
  BY DEF Intend, Reserve, TypeOK
<1>7. ASSUME NEW u \in UnitsOf[g], units[u] # NoAttempt
      PROVE  \E h \in claims : h.unit = u /\ h.expected = units[u]
  <2>1. u \in Claimed(claims)
    BY <1>7 DEF Intend, Blocking
  <2>2. QED
    BY <2>1 DEF Intend, Claimed, ClaimsMatch
<1>8. ASSUME NEW h \in claims
      PROVE  /\ h.unit \in UnitsOf[g] /\ units[h.unit] = h.expected
             /\ consumed[<<h.auth, h.unit>>] = NoAttempt
  BY DEF Intend, WellFormed, Claimed, ClaimsMatch, PaidFor
<1>9. QED
  BY <1>1, <1>2, <1>3, <1>4, <1>5, <1>6, <1>7, <1>8 DEF Intended

\* An intent keeps the ledger in order: its reservations, its claims and its
\* place among the attempts.
LEMMA IntendKeeps ==
  ASSUME IndInv, NEW g \in Groups, NEW claims \in SUBSET grants, NEW a \in Attempts,
         Intend(g, claims, a)
  PROVE  IndInv'
<1>0. Intended(g, claims, a)
  BY IntendFacts
<1>1. /\ g # NoGroup
      /\ attempts'[a] = [group |-> g, state |-> "INTENDED", job |-> NoJob]
      /\ \A b \in Attempts \ {a} : attempts'[b] = attempts[b]
      /\ UnitsUnder(a)' = UnitsOf[g] /\ UnitsUnder(a) = {}
      /\ \A b \in Attempts \ {a} : UnitsUnder(b)' = UnitsUnder(b)
      /\ a \notin Recorded /\ Recorded' = Recorded \union {a}
      /\ Unknown(a) /\ Unknown(a)'
      /\ \A b \in Attempts : Outstanding(b)' = Outstanding(b) /\ JobsOf(b)' = JobsOf(b)
  BY <1>0 DEF Intended
<1>2. /\ \A u \in Units : units'[u] = IF u \in UnitsOf[g] THEN a ELSE units[u]
      /\ \A h \in Groups : current'[h] = IF h = g THEN a ELSE current[h]
      /\ \A u \in UnitsOf[g] : units[u] # NoAttempt =>
           \E h \in claims : h.unit = u /\ h.expected = units[u]
      /\ \A h \in claims : h.unit \in UnitsOf[g] /\ units[h.unit] = h.expected
  BY <1>0 DEF Intended
<1> USE DEF IndInv, Attempts, NoAttempt
<1>3. ASSUME NEW h \in grants
      PROVE  /\ h.unit \in Units /\ h.expected \in Attempts \union {NoAttempt}
             /\ h.expected # a
             /\ h.risk => h.expected \in Recorded
  <2>1. h.unit \in Units /\ h.expected \in Attempts \union {NoAttempt}
    BY DEF TypeOK, Grant
  <2>2. attempts[a].state = "ABSENT"
    BY DEF Intend
  <2>3. h.expected # NoAttempt => attempts[h.expected].state # "ABSENT"
    BY DEF GrantsAreSettled
  <2>4. h.expected # NoAttempt => h.expected \in Recorded
    BY <2>1, <2>3 DEF TypeOK, Recorded, GroupOf, NoRecord
  <2>5. QED
    BY <2>1, <2>2, <2>3, <2>4 DEF GrantsAreSettled
<1>4. WorkOK' /\ SubmissionIsFresh'
  BY <1>2, DriveKeeps DEF Intend
<1>5. \A w \in waived' : w \in Recorded \X Units
  <2>1. \A w \in waived : w \in Recorded \X Units
    BY DEF LedgerIsClosed, TypeOK
  <2>2. \A h \in claims : h.risk => <<units[h.unit], h.unit>> \in Recorded \X Units
    BY <1>2, <1>3
  <2>3. QED
    BY <2>1, <2>2 DEF Intend
<1>6. TypeOK'
  <2>1. /\ attempts' \in [Attempts -> [group : Groups \union {NoGroup},
                                      state : AttemptStates \union {"ABSENT"},
                                      job : JobIds \union {NoJob}]]
        /\ current' \in [Groups -> Attempts \union {NoAttempt}]
        /\ units' \in [Units -> Attempts \union {NoAttempt}]
        /\ consumed' \in [Auths \X Units -> Attempts \union {NoAttempt}]
    BY DEF TypeOK, Intend, Reserve, AttemptStates
  <2>2. \A b \in Attempts : attempts'[b].group = NoGroup <=> attempts'[b] = NoRecord
    BY <1>1 DEF TypeOK, GroupOf, NoRecord
  <2>3. waived' \subseteq Attempts \X Units
    BY <1>5 DEF Recorded
  <2>4. QED
    BY <1>4, <2>1, <2>2, <2>3 DEF TypeOK, WorkOK, GroupOf, Intend, slurmVars
<1>7. LedgerIsClosed'
  <2>1. \A b \in Attempts : attempts'[b].state = "ABSENT" => b \notin Recorded'
    BY <1>1 DEF LedgerIsClosed
  <2>2. \A b \in Recorded' : (current[GroupOf(b)])' # NoAttempt
    BY <1>1, <1>2 DEF LedgerIsClosed, GroupOf, Recorded, TypeOK
  <2>3. \A h \in Groups : (current[h] # NoAttempt => GroupOf(current[h]) = h)'
    <3>1. \A h \in Groups : current[h] # a
      BY <1>1 DEF LedgerIsClosed, Recorded, TypeOK
    <3>2. QED
      BY <1>1, <1>2, <3>1 DEF LedgerIsClosed, GroupOf, TypeOK
  <2>4. \A k \in Auths \X Units : consumed'[k] # NoAttempt => consumed'[k] \in Recorded'
    BY <1>1 DEF LedgerIsClosed, Intend
  <2>5. QED
    BY <1>1, <1>5, <2>1, <2>2, <2>3, <2>4 DEF LedgerIsClosed, Intend
<1>8. ReservationIsCurrent'
  <2>1. ASSUME NEW u \in Units, (units[u] # NoAttempt)'
        PROVE  (u \in UnitsUnder(units[u]) /\ current[GroupOf(units[u])] = units[u])'
    <3>1. CASE u \in UnitsOf[g]
      BY <3>1, <1>1, <1>2 DEF GroupOf, UnitsUnder
    <3>2. CASE u \notin UnitsOf[g]
      <4>1. units'[u] = units[u] /\ units[u] \in Attempts
        BY <1>2, <2>1, <3>2 DEF TypeOK
      <4>2. u \in UnitsUnder(units[u]) /\ current[GroupOf(units[u])] = units[u]
        BY <2>1, <4>1 DEF ReservationIsCurrent
      <4>3. units[u] # a /\ GroupOf(units[u]) # g /\ GroupOf(units[u]) \in Groups
        BY <1>1, <3>2, <4>1, <4>2 DEF UnitsUnder, TypeOK, GroupOf
      <4>4. QED
        BY <1>1, <1>2, <4>1, <4>2, <4>3 DEF GroupOf, UnitsUnder
    <3>3. QED
      BY <3>1, <3>2
  <2>2. QED
    BY <2>1 DEF ReservationIsCurrent
<1>9. OneJobPerMarker'
  BY DEF OneJobPerMarker, Intend, slurmVars
<1>10. JobsAreTheirs'
  BY <1>1 DEF JobsAreTheirs, Unknown, Intend, slurmVars
<1>11. UnresolvedKeepsUnits'
  <2>1. ASSUME NEW b \in Attempts, b # a, attempts[b].state \in Unresolved,
               NEW u \in UnitsUnder(b)
        PROVE  u \in Units /\ u \notin UnitsOf[g] /\ units[u] = b
    <3>1. u \in Units /\ units[u] = b
      BY <2>1 DEF UnresolvedKeepsUnits, UnitsUnder, TypeOK, GroupOf
    <3>2. u \notin UnitsOf[g]
      <4>1. units[u] = b /\ b # NoAttempt
        BY <3>1
      <4>2. \A h \in claims : h.expected # b
        BY <2>1, <4>1 DEF GrantsAreSettled
      <4>3. QED
        BY <1>2, <4>1, <4>2
    <3>3. QED
      BY <3>1, <3>2
  <2>2. UnitsOf[g] \subseteq Units
    OBVIOUS
  <2>3. QED
    BY <1>1, <1>2, <2>1, <2>2 DEF UnresolvedKeepsUnits
<1>12. RejectedIsGone'
  BY <1>1 DEF RejectedIsGone, Intend
<1>13. GrantsAreSettled'
  BY <1>1, <1>3 DEF GrantsAreSettled, Intend
<1>14. NoUnitDuplicate'
  <2>1. SUFFICES ASSUME NEW u \in Units, NEW b \in Attempts, u \in UnitsUnder(b)',
                        Outstanding(b)', <<b, u>> \notin over', b # units'[u]
                 PROVE  <<b, u>> \in waived' \/ b \in misled'
    BY DEF NoUnitDuplicate, FlyingFor, ExcusedFor
  <2>2. ~Outstanding(a)
    BY <1>1 DEF Unknown, Outstanding
  <2>3. b # a /\ u \in UnitsUnder(b) /\ Outstanding(b) /\ <<b, u>> \notin over
    BY <1>1, <2>1, <2>2 DEF Intend
  <2>4. CASE b # units[u]
    BY <2>3, <2>4 DEF NoUnitDuplicate, FlyingFor, ExcusedFor, Intend
  <2>5. CASE b = units[u]
    <3>1. PICK h \in claims : h.unit = u /\ h.expected = b
      BY <1>2, <2>1, <2>3, <2>5
    <3>2. h.risk \/ b \in misled
      BY <2>3, <3>1 DEF GrantsAreSettled
    <3>3. h.risk => <<b, u>> \in waived'
      BY <2>5, <3>1 DEF Intend
    <3>4. QED
      BY <3>2, <3>3 DEF Intend
  <2>6. QED
    BY <2>4, <2>5
<1>15. QED
  BY <1>4, <1>6, <1>7, <1>8, <1>9, <1>10, <1>11, <1>12, <1>13, <1>14

\* An attempt the retry rules let go without the operator's risk is off the
\* cluster, or sbatch said so.
LEMMA MayRetryFacts ==
  ASSUME IndInv, NEW u \in Units, NEW a \in Attempts \union {NoAttempt}, NEW risk \in BOOLEAN,
         MayRetry(u, a, risk)
  PROVE  /\ a = NoAttempt => ~risk
         /\ a # NoAttempt =>
              /\ attempts[a].state \notin Unresolved \union {"ABSENT"}
              /\ risk \/ <<a, u>> \in over \/ a \in misled \/ ~Outstanding(a)
<1> USE DEF IndInv, Attempts, NoAttempt
<1>1. CASE a = NoAttempt
  BY <1>1 DEF MayRetry
<1>2. CASE a # NoAttempt
  <2>1. a \in Attempts /\ u \in UnitsUnder(a) /\ attempts[a].state \notin Unresolved
    BY <1>2 DEF MayRetry
  <2>2. attempts[a].state # "ABSENT"
    BY <2>1 DEF LedgerIsClosed, UnitsUnder, Recorded
  <2>3. CASE attempts[a].state = "REJECTED"
    BY <2>1, <2>2, <2>3 DEF RejectedIsGone
  <2>4. ASSUME attempts[a].job # NoJob, jobs[attempts[a].job].state \in Ended
        PROVE  ~Outstanding(a)
    <3>1. attempts[a].job \in JobIds /\ jobs[attempts[a].job].marker = a
      BY <2>1, <2>4 DEF JobsAreTheirs, TypeOK
    <3>2. a \notin sent /\ \A j \in JobsOf(a) : j = attempts[a].job
      BY <2>1, <3>1 DEF OneJobPerMarker, JobsOf
    <3>3. QED
      BY <2>4, <3>2 DEF Outstanding, Ended, Queued
  <2>5. QED
    BY <1>2, <2>1, <2>2, <2>3, <2>4 DEF MayRetry
<1>3. QED
  BY <1>1, <1>2

\* An operator authorizes retries.
LEMMA AuthorizingKeeps ==
  ASSUME IndInv, NEW x \in Auths, NEW us \in SUBSET Units, Authorize(x, us)
  PROVE  IndInv'
<1> USE DEF IndInv, ledger, ghosts, slurmVars
<1>1. PICK seen \in [us -> Attempts \union {NoAttempt}], risk \in [us -> BOOLEAN] :
        /\ \A u \in us : MayRetry(u, seen[u], risk[u])
        /\ grants' = grants \union
             {[auth |-> x, unit |-> u, expected |-> seen[u], risk |-> risk[u]] : u \in us}
  BY DEF Authorize
<1>2. grants' \subseteq Grant
  BY <1>1 DEF TypeOK, Grant
<1>3. TypeOK'
  BY <1>2 DEF TypeOK, Authorize, GroupOf
<1>4. LedgerIsClosed' /\ OneJobPerMarker' /\ ReservationIsCurrent'
  BY DEF LedgerIsClosed, OneJobPerMarker, ReservationIsCurrent, Recorded, GroupOf, UnitsUnder,
         Authorize
<1>5. JobsAreTheirs' /\ SubmissionIsFresh' /\ UnresolvedKeepsUnits' /\ RejectedIsGone'
  BY DEF JobsAreTheirs, SubmissionIsFresh, UnresolvedKeepsUnits, RejectedIsGone, Unknown,
         UnitsUnder, GroupOf, Outstanding, JobsOf, Authorize
<1>6. NoUnitDuplicate'
  BY DEF NoUnitDuplicate, FlyingFor, ExcusedFor, UnitsUnder, GroupOf, Outstanding, JobsOf, Authorize
<1>7. GrantsAreSettled'
  <2>1. ASSUME NEW u \in us
        PROVE  /\ seen[u] = NoAttempt => ~risk[u]
               /\ seen[u] # NoAttempt =>
                    /\ attempts[seen[u]].state \notin Unresolved \union {"ABSENT"}
                    /\ risk[u] \/ <<seen[u], u>> \in over \/ seen[u] \in misled
                       \/ ~Outstanding(seen[u])
    BY <1>1, MayRetryFacts
  <2>2. GrantsAreSettled
    OBVIOUS
  <2>3. UNCHANGED <<attempts, over, misled, jobs, sent>>
    BY DEF Authorize
  <2>4. \A a \in Attempts : Outstanding(a)' <=> Outstanding(a)
    BY <2>3 DEF Outstanding, JobsOf
  <2>5. ASSUME NEW h \in grants'
        PROVE  /\ h.expected = NoAttempt => ~h.risk
               /\ h.expected # NoAttempt =>
                    /\ attempts[h.expected].state \notin Unresolved \union {"ABSENT"}
                    /\ h.risk \/ <<h.expected, h.unit>> \in over \/ h.expected \in misled
                       \/ ~Outstanding(h.expected)
    <3>1. CASE h \in grants
      BY <2>2, <3>1 DEF GrantsAreSettled
    <3>2. CASE h \notin grants
      <4>1. PICK u \in us : h = [auth |-> x, unit |-> u, expected |-> seen[u], risk |-> risk[u]]
        BY <1>1, <3>2
      <4>2. h.expected = seen[u] /\ h.unit = u /\ h.risk = risk[u]
        BY <4>1
      <4>3. QED
        BY <2>1, <4>2
    <3>3. QED
      BY <3>1, <3>2
  <2>6. QED
    BY <1>2, <2>3, <2>4, <2>5 DEF GrantsAreSettled, Grant
<1>8. QED
  BY <1>3, <1>4, <1>5, <1>6, <1>7

\* A unit ends before its job.
LEMMA UnitEndsKeeps ==
  ASSUME IndInv, NEW a \in Attempts, NEW u \in Units, UnitEnds(a, u)
  PROVE  IndInv'
<1> USE DEF IndInv, ledger, ghosts, slurmVars, UnitEnds
<1>1. TypeOK'
  BY DEF TypeOK, GroupOf
<1>2. LedgerIsClosed' /\ OneJobPerMarker' /\ ReservationIsCurrent'
  BY DEF LedgerIsClosed, OneJobPerMarker, ReservationIsCurrent, Recorded, GroupOf, UnitsUnder
<1>3. JobsAreTheirs' /\ SubmissionIsFresh' /\ UnresolvedKeepsUnits' /\ RejectedIsGone'
  BY DEF JobsAreTheirs, SubmissionIsFresh, UnresolvedKeepsUnits, RejectedIsGone, Unknown,
         UnitsUnder, GroupOf, Outstanding, JobsOf
<1>4. NoUnitDuplicate' /\ GrantsAreSettled'
  BY DEF NoUnitDuplicate, FlyingFor, ExcusedFor, GrantsAreSettled, UnitsUnder, GroupOf,
         Outstanding, JobsOf
<1>5. QED
  BY <1>1, <1>2, <1>3, <1>4

\* What a step of the controller may do to the jobs and requests of the markers:
\* nothing new becomes outstanding, and no job changes its marker.
Settling ==
  /\ jobs' \in [JobIds -> [marker : Markers \union {NoMarker}, state : JobStates]]
  /\ sent' \subseteq sent
  /\ OneJobPerMarker'
  /\ \A j \in JobIds : jobs[j].marker # NoMarker => jobs'[j].marker = jobs[j].marker
  /\ \A a \in Attempts : /\ Unknown(a) => Unknown(a)'
                         /\ Outstanding(a)' => Outstanding(a)

\* Every step of the controller settles.
LEMMA ClusterSettles ==
  ASSUME IndInv, ClusterStep
  PROVE  Settling
<1> USE DEF IndInv, Attempts, TypeOK
<1>1. ASSUME NEW m \in Markers, NEW j \in JobIds, Accept(m, j) PROVE Settling
  <2>1. /\ jobs[j].marker = NoMarker /\ jobs'[j] = [marker |-> m, state |-> "PENDING"]
        /\ \A k \in JobIds : k # j => jobs'[k] = jobs[k]
        /\ m \in sent /\ sent' = sent \ {m}
        /\ \A k \in JobIds : jobs[k].marker # m
    BY <1>1 DEF Accept, OneJobPerMarker
  <2>2. jobs' \in [JobIds -> [marker : Markers \union {NoMarker}, state : JobStates]]
    BY <1>1 DEF Accept, JobStates, Queued
  <2>3. OneJobPerMarker'
    <3>1. \A b \in sent', k \in JobIds : jobs'[k].marker # b
      BY <2>1 DEF OneJobPerMarker
    <3>2. \A k, l \in JobIds :
            jobs'[k].marker = jobs'[l].marker /\ jobs'[k].marker # NoMarker => k = l
      BY <2>1 DEF OneJobPerMarker
    <3>3. QED
      BY <3>1, <3>2 DEF OneJobPerMarker
  <2>4. \A a \in Attempts : (Unknown(a) => Unknown(a)') /\ (Outstanding(a)' => Outstanding(a))
    <3>1. \A a \in Attempts : a # m => JobsOf(a)' = JobsOf(a)
      BY <2>1 DEF JobsOf
    <3>2. \A a \in Attempts : a # m => \A k \in JobsOf(a) : jobs'[k] = jobs[k]
      BY <2>1 DEF JobsOf
    <3>3. Outstanding(m) /\ ~Unknown(m)
      BY <2>1 DEF Outstanding, Unknown
    <3>4. QED
      BY <2>1, <3>1, <3>2, <3>3 DEF Unknown, Outstanding
  <2>5. QED
    BY <2>1, <2>2, <2>3, <2>4 DEF Settling
<1>2. ASSUME NEW m \in Markers, Refuse(m) PROVE Settling
  BY <1>2 DEF Settling, Refuse, OneJobPerMarker, Unknown, Outstanding, JobsOf
<1>3. ASSUME NEW j \in JobIds, NEW s \in JobStates, jobs[j].marker # NoMarker,
             jobs[j].state \in Queued,
             jobs' = [jobs EXCEPT ![j].state = s], sent' = sent
      PROVE  Settling
  <2>1. /\ jobs'[j].marker = jobs[j].marker
        /\ \A k \in JobIds : k # j => jobs'[k] = jobs[k]
        /\ jobs' \in [JobIds -> [marker : Markers \union {NoMarker}, state : JobStates]]
    BY <1>3, SMTT(30)
  <2>2. \A k \in JobIds : jobs'[k].marker = jobs[k].marker
    BY <2>1
  <2>3. OneJobPerMarker'
    BY <1>3, <2>2 DEF OneJobPerMarker
  <2>4. \A a \in Attempts : JobsOf(a)' = JobsOf(a)
    BY <2>2 DEF JobsOf
  <2>5. \A a \in Attempts : (Unknown(a) => Unknown(a)') /\ (Outstanding(a)' => Outstanding(a))
    BY <1>3, <2>1, <2>4 DEF Unknown, Outstanding, JobsOf
  <2>6. QED
    BY <1>3, <2>1, <2>2, <2>3, <2>5 DEF Settling
<1>4. ASSUME NEW j \in JobIds, StartJob(j) PROVE Settling
  BY <1>3, <1>4 DEF StartJob, JobStates, Queued
<1>5. ASSUME NEW j \in JobIds, NEW s \in Ended, EndJob(j, s) PROVE Settling
  BY <1>3, <1>5 DEF EndJob, JobStates
<1>6. QED
  BY <1>1, <1>2, <1>4, <1>5 DEF ClusterStep

\* So the controller disturbs nothing.
LEMMA ClusterKeeps ==
  ASSUME IndInv, ClusterStep
  PROVE  IndInv'
<1> USE DEF IndInv, ledger, ghosts, ClusterStep, Attempts
<1>1. Settling
  BY ClusterSettles
<1>2. /\ jobs' \in [JobIds -> [marker : Markers \union {NoMarker}, state : JobStates]]
      /\ sent' \subseteq sent
      /\ OneJobPerMarker'
      /\ \A j \in JobIds : jobs[j].marker # NoMarker => jobs'[j].marker = jobs[j].marker
      /\ \A a \in Attempts : (Unknown(a) => Unknown(a)') /\ (Outstanding(a)' => Outstanding(a))
  BY <1>1 DEF Settling
<1>3. UNCHANGED <<attempts, current, units, consumed, work, over, grants, waived, misled>>
  OBVIOUS
<1> HIDE DEF ClusterStep
<1>4. TypeOK'
  BY <1>2, <1>3 DEF TypeOK, GroupOf
<1>5. LedgerIsClosed' /\ ReservationIsCurrent'
  BY <1>3 DEF LedgerIsClosed, ReservationIsCurrent, Recorded, GroupOf, UnitsUnder
<1>6. JobsAreTheirs'
  BY <1>2, <1>3 DEF JobsAreTheirs, TypeOK
<1>7. SubmissionIsFresh'
  BY <1>2, <1>3, SubmittedFacts DEF SubmissionIsFresh
<1>8. UnresolvedKeepsUnits' /\ RejectedIsGone' /\ GrantsAreSettled'
  BY <1>2, <1>3 DEF UnresolvedKeepsUnits, RejectedIsGone, GrantsAreSettled, UnitsUnder, GroupOf,
                    TypeOK, Grant
<1>9. NoUnitDuplicate'
  BY <1>2, <1>3 DEF NoUnitDuplicate, FlyingFor, ExcusedFor, UnitsUnder, GroupOf
<1>10. QED
  BY <1>2, <1>4, <1>5, <1>6, <1>7, <1>8, <1>9

\* The request hands its attempt to sbatch: every unit of the attempt is its own.
LEMMA SendingKeeps ==
  ASSUME IndInv, CallSbatch
  PROVE  IndInv'
<1> DEFINE a == current[work.group]
<1> USE DEF IndInv, ledger, ghosts, SendBatch, Attempts
<1>1. /\ work.group \in Groups /\ a \in Attempts /\ a # NoAttempt
      /\ attempts[a].state = "SUBMITTING" /\ Unknown(a)
  BY SubmittedFacts DEF CallSbatch, SubmissionIsFresh
<1>2. /\ UNCHANGED <<attempts, current, units, consumed, over, grants, waived, misled, jobs>>
      /\ sent' = sent \union {a}
      /\ work' = [work EXCEPT !.phase = "sent"] /\ work.phase = "submitting"
  BY DEF CallSbatch
<1> HIDE DEF a
<1>3. \A b \in Attempts : /\ Outstanding(b)' <=> Outstanding(b) \/ b = a
                          /\ b # a /\ Unknown(b) => Unknown(b)'
  BY <1>1, <1>2 DEF Outstanding, Unknown, JobsOf
<1>4. TypeOK'
  BY <1>1, <1>2 DEF TypeOK, GroupOf
<1>5. LedgerIsClosed' /\ ReservationIsCurrent'
  BY <1>2 DEF LedgerIsClosed, ReservationIsCurrent, Recorded, GroupOf, UnitsUnder
<1>6. OneJobPerMarker'
  BY <1>1, <1>2 DEF OneJobPerMarker, Unknown, JobsOf
<1>7. JobsAreTheirs'
  <2>1. ASSUME NEW b \in Attempts, attempts[b].state \in {"ABSENT", "INTENDED"}
        PROVE  Unknown(b)'
    <3>1. b # a /\ Unknown(b)
      BY <1>1, <2>1 DEF JobsAreTheirs
    <3>2. QED
      BY <1>3, <3>1
  <2>2. QED
    BY <1>2, <2>1 DEF JobsAreTheirs
<1>8. SubmissionIsFresh'
  BY <1>2 DEF SubmissionIsFresh, TypeOK
<1>9. UnresolvedKeepsUnits'
  BY <1>2 DEF UnresolvedKeepsUnits, UnitsUnder, GroupOf
<1>10. RejectedIsGone'
  <2>1. ASSUME NEW b \in Attempts, attempts[b].state = "REJECTED"
        PROVE  ~Outstanding(b)' \/ b \in misled
    BY <1>1, <1>3, <2>1 DEF RejectedIsGone
  <2>2. QED
    BY <1>2, <2>1 DEF RejectedIsGone
<1>11. GrantsAreSettled'
  <2>1. ASSUME NEW h \in grants, h.expected # NoAttempt, Outstanding(h.expected)'
        PROVE  Outstanding(h.expected)
    <3>1. h.expected \in Attempts
      BY <2>1 DEF TypeOK, Grant
    <3>2. h.expected # a
      BY <1>1, <2>1 DEF GrantsAreSettled, Unresolved
    <3>3. QED
      BY <1>3, <2>1, <3>1, <3>2
  <2>2. QED
    BY <1>2, <2>1 DEF GrantsAreSettled
<1>12. NoUnitDuplicate'
  <2>1. \A u \in UnitsUnder(a) : units[u] = a
    BY <1>1 DEF UnresolvedKeepsUnits, Unresolved
  <2>2. ASSUME NEW u \in Units, NEW b \in Attempts, u \in UnitsUnder(b), Outstanding(b)',
               <<b, u>> \notin over, b # units[u]
        PROVE  <<b, u>> \in waived \/ b \in misled
    <3>1. b # a
      BY <2>1, <2>2
    <3>2. Outstanding(b)
      BY <1>3, <2>2, <3>1
    <3>3. QED
      BY <2>2, <3>2 DEF NoUnitDuplicate, FlyingFor, ExcusedFor
  <2>3. QED
    BY <1>2, <2>2 DEF NoUnitDuplicate, FlyingFor, ExcusedFor, UnitsUnder, GroupOf
<1>13. QED
  BY <1>4, <1>5, <1>6, <1>7, <1>8, <1>9, <1>10, <1>12, <1>11

\* A request that is interrupted leaves the ledger as it is.
LEMMA InterruptionKeeps ==
  ASSUME IndInv, Interrupted \/ UNCHANGED vars
  PROVE  IndInv'
<1>1. CASE Interrupted
  BY <1>1, ReadingKeeps DEF Interrupted, Idle, WorkOK, SubmissionIsFresh
<1>2. CASE UNCHANGED vars
  <2>1. WorkOK' /\ SubmissionIsFresh'
    BY <1>2 DEF vars, ledger, slurmVars, WorkOK, SubmissionIsFresh, IndInv, TypeOK, Unknown, JobsOf
  <2>2. QED
    BY <1>2, <2>1, ReadingKeeps DEF vars
<1>3. QED
  BY <1>1, <1>2

\* Every step preserves the invariant.
LEMMA NextInv == IndInv /\ [Next]_vars => IndInv'
<1> SUFFICES ASSUME IndInv, [Next]_vars PROVE IndInv'
  OBVIOUS
<1>1. ASSUME NEW g \in Groups, NEW claims \in SUBSET grants, Request(g, claims)
      PROVE  IndInv'
  BY <1>1, RecoveringKeeps, IntendKeeps DEF Request
<1>2. CASE DriveStep
  BY <1>2, DrivingKeeps, SendingKeeps, ConcludingKeeps DEF DriveStep
<1>3. CASE Interrupted \/ UNCHANGED vars
  BY <1>3, InterruptionKeeps
<1>4. ASSUME NEW g \in Groups, NEW s \in Reported, UpdateAttempt(g, s)
      PROVE  IndInv'
  BY <1>4, UpdatingKeeps
<1>5. ASSUME NEW x \in Auths, NEW us \in SUBSET Units, Authorize(x, us)
      PROVE  IndInv'
  BY <1>5, AuthorizingKeeps
<1>6. ASSUME NEW a \in Attempts, NEW u \in Units, UnitEnds(a, u)
      PROVE  IndInv'
  BY <1>6, UnitEndsKeeps
<1>7. CASE ClusterStep
  BY <1>7, ClusterKeeps
<1>8. QED
  BY <1>1, <1>2, <1>3, <1>4, <1>5, <1>6, <1>7 DEF Next

\* It holds throughout.
THEOREM Inductive == Spec => []IndInv
BY InitInv, NextInv, PTL DEF Spec

\* The ledger holds only records op_campaign_attempt_ensure can write, and the
\* request at work submits only a group it reserved.
THEOREM Typed == Spec => []TypeOK
<1>1. IndInv => TypeOK
  BY DEF IndInv
<1>2. QED
  BY <1>1, Inductive, PTL

\* However groups overlap, requests are cut short and retries are replayed, a
\* unit runs in one attempt only, unless an operator or sbatch excused the older.
THEOREM UnitsRunOnce == Spec => []NoUnitDuplicate
<1>1. IndInv => NoUnitDuplicate
  BY DEF IndInv
<1>2. QED
  BY <1>1, Inductive, PTL

\* What blocks a request is the current attempt of its group: recovery finds it.
THEOREM RecoveryFindsBlocker == Spec => []ReservationIsCurrent
<1>1. IndInv => ReservationIsCurrent
  BY DEF IndInv
<1>2. QED
  BY <1>1, Inductive, PTL

\* No attempt reaches sbatch a second time, whatever drives or interrupts it.
THEOREM SubmittedOnce == Spec => []OneSubmissionEach
<1>1. ASSUME IndInv, NEW a \in Attempts
      PROVE  Cardinality(JobsOf(a)) + Cardinality(sent \intersect {a}) <= 1
  <2> USE DEF IndInv, OneJobPerMarker, Attempts
  <2>1. CASE a \in sent
    <3>1. JobsOf(a) = {} /\ sent \intersect {a} = {a}
      BY <1>1, <2>1 DEF JobsOf
    <3>2. QED
      BY <3>1, FS_EmptySet, FS_Singleton
  <2>2. CASE a \notin sent
    <3>1. sent \intersect {a} = {}
      BY <2>2
    <3>2. CASE JobsOf(a) = {}
      BY <3>1, <3>2, FS_EmptySet
    <3>3. CASE JobsOf(a) # {}
      <4>1. PICK j \in JobsOf(a) : TRUE
        BY <3>3
      <4>2. JobsOf(a) = {j}
        BY <1>1, <4>1 DEF JobsOf
      <4>3. Cardinality(JobsOf(a)) = 1 /\ Cardinality(sent \intersect {a}) = 0
        BY <3>1, <4>2, FS_EmptySet, FS_Singleton
      <4>4. QED
        BY <4>3
    <3>4. QED
      BY <3>2, <3>3
  <2>3. QED
    BY <2>1, <2>2
<1>2. IndInv => OneSubmissionEach
  BY <1>1 DEF OneSubmissionEach
<1>3. QED
  BY <1>2, Inductive, PTL

\* Only Intend touches the reservations.
LEMMA ReservingIsIntending ==
  ASSUME [Next]_vars, units' # units
  PROVE  \E g \in Groups : \E claims \in SUBSET grants : \E a \in Attempts : Intend(g, claims, a)
BY DEF Next, Request, Replay, Recover, DriveStep, RecoverJob, GiveUpOnMarker, NothingToDo,
       StartSubmission, CallSbatch, SbatchAccepted, SbatchUnparseable, SbatchRejected, Conclude,
       Interrupted, UpdateAttempt, Authorize, UnitEnds, ClusterStep, vars, ledger

\* A reservation is taken over only by a retry authorization that names it, and
\* that is spent by it.
THEOREM RetriesAreSpentOnce == Spec => RetriesArePaid
<1> DEFINE Paid ==
      \A u \in Units : (units[u] # NoAttempt /\ units'[u] # units[u]) =>
        \E h \in grants : /\ h.unit = u
                          /\ h.expected = units[u]
                          /\ consumed[<<h.auth, h.unit>>] = NoAttempt
                          /\ consumed'[<<h.auth, h.unit>>] = units'[u]
<1>1. ASSUME IndInv, NEW g \in Groups, NEW claims \in SUBSET grants, NEW a \in Attempts,
             Intend(g, claims, a)
      PROVE  Paid
  <2>1. Intended(g, claims, a)
    BY <1>1, IntendFacts
  <2>2. ASSUME NEW u \in Units, units[u] # NoAttempt, units'[u] # units[u]
        PROVE  \E h \in claims : /\ h.unit = u /\ h.expected = units[u]
                                /\ consumed[<<h.auth, h.unit>>] = NoAttempt
                                /\ consumed'[<<h.auth, h.unit>>] = units'[u]
    <3>1. u \in UnitsOf[g] /\ units'[u] = a
      BY <2>1, <2>2 DEF Intended
    <3>2. PICK h \in claims : h.unit = u /\ h.expected = units[u]
      BY <2>1, <2>2, <3>1 DEF Intended
    <3>3. consumed[<<h.auth, h.unit>>] = NoAttempt
      BY <2>1 DEF Intended
    <3>4. <<h.auth, h.unit>> \in Auths \X Units
      BY <1>1 DEF IndInv, TypeOK, Grant
    <3>5. consumed'[<<h.auth, h.unit>>] = a
      BY <1>1, <3>4 DEF Intend
    <3>6. QED
      BY <3>1, <3>2, <3>3, <3>5
  <2>3. QED
    BY <2>2
<1>2. IndInv /\ [Next]_vars => [Paid]_vars
  BY <1>1, ReservingIsIntending DEF vars, ledger
<1>3. IndInv /\ [Next]_vars =>
        [\A u \in Units : (units[u] # NoAttempt /\ units'[u] # units[u]) =>
           \E h \in grants : /\ h.unit = u
                             /\ h.expected = units[u]
                             /\ consumed[<<h.auth, u>>] = NoAttempt
                             /\ consumed'[<<h.auth, u>>] = units'[u]]_vars
  BY <1>2, ZenonT(60)
<1>4. QED
  BY <1>3, Inductive, PTL DEF Spec, RetriesArePaid

------------------------------------------------------------------------------
(* For each unit the ledger implements SingleFlight *)

Used(u)    == {a \in Attempts : u \in UnitsUnder(a)}
Excused(u) == {a \in ExcusedFor(u) : u \in UnitsUnder(a)}

\* The steps of SingleFlight for one unit, written with the ledger's variables.
Stutters(u) == UNCHANGED <<units[u], Used(u), FlyingFor(u), Excused(u)>>
Opens(u, a) ==
  /\ a \notin Used(u) /\ Used(u)' = Used(u) \union {a}
  /\ units'[u] = a
  /\ Excused(u)' \in {Excused(u), Excused(u) \union ({units[u]} \ {NoAttempt})}
  /\ FlyingFor(u) \subseteq Excused(u)'
  /\ FlyingFor(u)' = FlyingFor(u)
Launches(u) ==
  /\ units[u] # NoAttempt
  /\ FlyingFor(u)' = FlyingFor(u) \union {units[u]}
  /\ UNCHANGED <<units[u], Used(u), Excused(u)>>
Settles(u, a) ==
  /\ a \in FlyingFor(u)
  /\ FlyingFor(u)' = FlyingFor(u) \ {a}
  /\ UNCHANGED <<units[u], Used(u), Excused(u)>>
Excuses(u) ==
  /\ Excused(u)' = Excused(u) \union ({units[u]} \ {NoAttempt})
  /\ UNCHANGED <<units[u], Used(u), FlyingFor(u)>>

\* What a unit goes through is a step of what was promised of it, or nothing.
LEMMA PromisedStep ==
  ASSUME NEW u \in Units,
         \/ Stutters(u)
         \/ \E a \in Attempts : Opens(u, a) \/ Settles(u, a)
         \/ Launches(u)
         \/ Excuses(u)
  PROVE  [Promise(u)!Next]_(Promise(u)!absVars)
BY DEF Promise!Next, Promise!Open, Promise!Launch, Promise!Settle, Promise!Excuse,
       Promise!absVars, Stutters, Opens, Launches, Settles, Excuses, Used, Excused

\* Whatever a step does to states, jobs and requests, the promise speaks only of
\* reservations, groups, and what is outstanding or excused.
LEMMA StateOnlyStutters ==
  ASSUME NEW u \in Units,
         \A a \in Attempts : attempts'[a].group = attempts[a].group,
         UNCHANGED <<units, over, ghosts, slurmVars>>
  PROVE  Stutters(u)
<1> USE DEF ghosts, slurmVars
<1>1. \A a \in Attempts : UnitsUnder(a)' = UnitsUnder(a) /\ (Outstanding(a)' <=> Outstanding(a))
  BY DEF UnitsUnder, GroupOf, Outstanding, JobsOf
<1>2. Used(u)' = Used(u) /\ FlyingFor(u)' = FlyingFor(u) /\ Excused(u)' = Excused(u)
  BY <1>1 DEF Used, FlyingFor, Excused, ExcusedFor
<1>3. QED
  BY <1>2 DEF Stutters

\* Resolve, and an update, leave every attempt in its group.
LEMMA GroupsStay ==
  ASSUME IndInv, NEW a, NEW s, NEW job,
         \/ Resolve(a, s, job)
         \/ attempts' = [attempts EXCEPT ![a].state = s]
  PROVE  \A b \in Attempts : attempts'[b].group = attempts[b].group
<1>1. /\ attempts = [b \in Attempts |-> attempts[b]]
      /\ \A b \in Attempts : attempts[b] \in [group : Groups \union {NoGroup},
                                           state : AttemptStates \union {"ABSENT"},
                                           job : JobIds \union {NoJob}]
  BY DEF IndInv, TypeOK
<1>2. CASE Resolve(a, s, job)
  BY <1>1, <1>2 DEF Resolve
<1>3. CASE attempts' = [attempts EXCEPT ![a].state = s]
  BY <1>1, <1>3
<1>4. QED
  BY <1>2, <1>3

\* A new attempt of a group opens for the units of the group, and for no other.
LEMMA IntendOpens ==
  ASSUME IndInv, NEW g \in Groups, NEW claims \in SUBSET grants, NEW a \in Attempts,
         Intend(g, claims, a), IndInv', NEW u \in Units
  PROVE  Stutters(u) \/ Opens(u, a)
<1>0. Intended(g, claims, a)
  BY IntendFacts
<1>1. /\ UnitsUnder(a)' = UnitsOf[g] /\ UnitsUnder(a) = {}
      /\ \A b \in Attempts \ {a} : UnitsUnder(b)' = UnitsUnder(b)
      /\ a \notin Recorded /\ Unknown(a)
      /\ \A b \in Attempts : Outstanding(b)' = Outstanding(b)
      /\ units'[u] = IF u \in UnitsOf[g] THEN a ELSE units[u]
      /\ \A h \in claims : h.unit \in UnitsOf[g] /\ units[h.unit] = h.expected
  BY <1>0 DEF Intended
<1>2. ~Outstanding(a) /\ a \notin misled /\ <<a, u>> \notin waived
  BY <1>1 DEF Unknown, Outstanding, IndInv, LedgerIsClosed
<1>3. FlyingFor(u)' = FlyingFor(u)
  BY <1>1, <1>2 DEF FlyingFor, Intend
<1> DEFINE new == {i \in claims : i.risk}
<1>4. /\ waived' = waived \union {<<units[h.unit], h.unit>> : h \in new}
      /\ misled' = misled
  BY DEF Intend
<1>5. CASE u \notin UnitsOf[g]
  <2>1. Used(u)' = Used(u) /\ units'[u] = units[u]
    BY <1>1, <1>5 DEF Used
  <2>2. \A b : <<b, u>> \in waived' <=> <<b, u>> \in waived
    BY <1>1, <1>4, <1>5
  <2>3. Excused(u)' = Excused(u)
    BY <1>1, <1>4, <1>5, <2>2 DEF Excused, ExcusedFor
  <2>4. QED
    BY <1>3, <2>1, <2>3 DEF Stutters
<1>6. CASE u \in UnitsOf[g]
  <2>1. a \notin Used(u) /\ Used(u)' = Used(u) \union {a} /\ units'[u] = a
    BY <1>1, <1>6 DEF Used
  <2>2. \A b \in Attempts : <<b, u>> \in waived' => <<b, u>> \in waived \/ b = units[u]
    BY <1>4
  <2>3. <<a, u>> \notin waived'
    <3>1. \A h \in claims : h.risk => h.expected # NoAttempt /\ attempts[h.expected].state # "ABSENT"
      BY DEF IndInv, GrantsAreSettled
    <3>2. attempts[a].state = "ABSENT"
      BY DEF Intend
    <3>3. QED
      BY <1>1, <1>2, <1>4, <3>1, <3>2
  <2>4. units[u] # NoAttempt => units[u] \in Attempts /\ u \in UnitsUnder(units[u])
    BY DEF IndInv, TypeOK, ReservationIsCurrent
  <2>5. waived \subseteq waived'
    BY <1>4
  <2>6. units[u] # NoAttempt => units[u] # a
    BY <1>1, <2>4
  <2>7. ASSUME units[u] \in Attempts, <<units[u], u>> \in waived'
        PROVE  Excused(u)' = Excused(u) \union ({units[u]} \ {NoAttempt})
    <3>1. units[u] # NoAttempt
      BY <2>7 DEF Attempts, NoAttempt
    <3>2. Excused(u)' = Excused(u) \union {units[u]}
      BY <1>1, <1>2, <1>4, <2>2, <2>3, <2>4, <2>5, <2>6, <2>7, <3>1 DEF Excused, ExcusedFor
    <3>3. QED
      BY <3>1, <3>2
  <2>8. ASSUME ~(units[u] \in Attempts /\ <<units[u], u>> \in waived')
        PROVE  Excused(u)' = Excused(u)
    BY <1>1, <1>2, <1>4, <2>2, <2>3, <2>5, <2>8 DEF Excused, ExcusedFor
  <2>9. Excused(u)' \in {Excused(u), Excused(u) \union ({units[u]} \ {NoAttempt})}
    BY <2>7, <2>8
  <2>10. FlyingFor(u) \subseteq Excused(u)'
    BY <1>1, <1>2, <1>3, <2>1 DEF IndInv, NoUnitDuplicate, FlyingFor, ExcusedFor, Excused
  <2>11. QED
    BY <1>3, <2>1, <2>9, <2>10 DEF Opens
<1>7. QED
  BY <1>5, <1>6

\* The submission that flies is the one the unit is reserved for.
LEMMA SubmissionIsReserved ==
  ASSUME IndInv, work.phase \in {"submitting", "sent"}, NEW u \in UnitsUnder(current[work.group])
  PROVE  units[u] = current[work.group]
BY SubmittedFacts DEF IndInv, UnresolvedKeepsUnits, Unresolved

\* sbatch launches the group's attempt for each of its units.
LEMMA SendingLaunches ==
  ASSUME IndInv, CallSbatch, NEW u \in Units
  PROVE  Stutters(u) \/ Launches(u)
<1> DEFINE a == current[work.group]
<1>1. a \in Attempts /\ a # NoAttempt /\ (u \in UnitsUnder(a) => units[u] = a)
  BY SubmittedFacts, SubmissionIsReserved DEF CallSbatch
<1>2. UNCHANGED <<attempts, units, over, waived, misled, jobs>> /\ sent' = sent \union {a}
  BY DEF CallSbatch, SendBatch, ledger, ghosts
<1> HIDE DEF a
<1>3. \A b \in Attempts : /\ UnitsUnder(b)' = UnitsUnder(b)
                          /\ Outstanding(b)' <=> Outstanding(b) \/ b = a
  BY <1>2 DEF UnitsUnder, GroupOf, Outstanding, JobsOf
<1>4. UNCHANGED <<units[u], Used(u), Excused(u)>>
  BY <1>2, <1>3 DEF Used, Excused, ExcusedFor
<1>5. CASE u \in UnitsUnder(a) /\ <<a, u>> \notin over
  <2>1. FlyingFor(u)' = FlyingFor(u) \union {a}
    BY <1>1, <1>2, <1>3, <1>5 DEF FlyingFor
  <2>2. QED
    BY <1>1, <1>4, <1>5, <2>1 DEF Launches
<1>6. CASE ~(u \in UnitsUnder(a) /\ <<a, u>> \notin over)
  <2>1. FlyingFor(u)' = FlyingFor(u)
    BY <1>2, <1>3, <1>6 DEF FlyingFor
  <2>2. QED
    BY <1>4, <2>1 DEF Stutters
<1>7. QED
  BY <1>5, <1>6

\* A refusal that was none excuses the open submission.
LEMMA RejectionExcuses ==
  ASSUME IndInv, SbatchRejected, NEW u \in Units
  PROVE  Stutters(u) \/ Excuses(u)
<1> DEFINE a == current[work.group]
<1>1. a \in Attempts /\ a # NoAttempt /\ (u \in UnitsUnder(a) => units[u] = a)
  BY SubmittedFacts, SubmissionIsReserved DEF SbatchRejected
<1>2. /\ UNCHANGED <<units, over, waived, slurmVars>>
      /\ misled' = misled \/ misled' = misled \union {a}
  BY DEF SbatchRejected, Conclude
<1>3. \A b \in Attempts : attempts'[b].group = attempts[b].group
  BY GroupsStay DEF SbatchRejected, Conclude
<1> HIDE DEF a
<1>4. \A b \in Attempts : UnitsUnder(b)' = UnitsUnder(b) /\ (Outstanding(b)' <=> Outstanding(b))
  BY <1>2, <1>3 DEF UnitsUnder, GroupOf, Outstanding, JobsOf, slurmVars
<1>5. UNCHANGED <<units[u], Used(u), FlyingFor(u)>>
  BY <1>2, <1>4 DEF Used, FlyingFor
<1>6. CASE misled' = misled \/ u \notin UnitsUnder(a)
  <2>1. Excused(u)' = Excused(u)
    BY <1>2, <1>4, <1>6 DEF Excused, ExcusedFor
  <2>2. QED
    BY <1>5, <2>1 DEF Stutters
<1>7. CASE misled' = misled \union {a} /\ u \in UnitsUnder(a)
  <2>1. Excused(u)' = Excused(u) \union {a}
    BY <1>1, <1>2, <1>4, <1>7 DEF Excused, ExcusedFor
  <2>2. QED
    BY <1>1, <1>5, <1>7, <2>1 DEF Excuses
<1>8. QED
  BY <1>2, <1>6, <1>7

\* What ends, for one unit or for a whole job, settles.
LEMMA EndingSettles ==
  ASSUME IndInv, NEW u \in Units, NEW m \in Attempts,
         UNCHANGED <<ledger, ghosts>>,
         \/ over' = over /\ \A b \in Attempts : Outstanding(b)' <=> Outstanding(b) /\ b # m
         \/ over' = over \union {<<m, u>>} /\ UNCHANGED slurmVars
  PROVE  Stutters(u) \/ Settles(u, m)
<1>1. UNCHANGED <<units[u], Used(u), Excused(u)>>
  BY DEF ledger, ghosts, Used, Excused, ExcusedFor, UnitsUnder, GroupOf
<1>2. \A b \in Attempts : UnitsUnder(b)' = UnitsUnder(b)
  BY DEF ledger, UnitsUnder, GroupOf
<1>3. FlyingFor(u)' = FlyingFor(u) \ {m}
  <2>1. CASE over' = over /\ \A b \in Attempts : Outstanding(b)' <=> Outstanding(b) /\ b # m
    BY <1>2, <2>1 DEF FlyingFor
  <2>2. CASE over' = over \union {<<m, u>>} /\ UNCHANGED slurmVars
    BY <1>2, <2>2 DEF FlyingFor, Outstanding, JobsOf, slurmVars
  <2>3. QED
    BY <2>1, <2>2
<1>4. QED
  BY <1>1, <1>3 DEF Stutters, Settles

\* A step of the controller settles a submission or is not seen.
LEMMA ClusterRefines ==
  ASSUME IndInv, ClusterStep, NEW u \in Units
  PROVE  Stutters(u) \/ \E a \in Attempts : Settles(u, a)
<1> USE DEF IndInv, Attempts
<1>1. UNCHANGED <<ledger, over, ghosts>>
  BY DEF ClusterStep
<1>2. ASSUME \A a \in Attempts : Outstanding(a)' <=> Outstanding(a) PROVE Stutters(u)
  <2>1. FlyingFor(u)' = FlyingFor(u)
    BY <1>1, <1>2 DEF FlyingFor, UnitsUnder, GroupOf, ledger
  <2>2. QED
    BY <1>1, <2>1 DEF Stutters, Used, Excused, ExcusedFor, UnitsUnder, GroupOf, ledger, ghosts
<1>3. ASSUME NEW m \in Markers, NEW j \in JobIds, Accept(m, j) PROVE Stutters(u)
  <2>1. /\ jobs[j].marker = NoMarker /\ jobs'[j] = [marker |-> m, state |-> "PENDING"]
        /\ \A k \in JobIds : k # j => jobs'[k] = jobs[k]
        /\ m \in sent /\ sent' = sent \ {m}
    BY <1>3 DEF Accept, TypeOK
  <2>2. \A a \in Attempts : Outstanding(a)' <=> Outstanding(a)
    BY <2>1 DEF Outstanding, JobsOf, Queued
  <2>3. QED
    BY <1>2, <2>2
<1>4. ASSUME NEW m \in Markers, Refuse(m) PROVE Stutters(u) \/ Settles(u, m)
  <2>1. \A a \in Attempts : Outstanding(a)' <=> Outstanding(a) /\ a # m
    BY <1>4 DEF Refuse, Outstanding, JobsOf, OneJobPerMarker
  <2>2. QED
    BY <1>1, <2>1, EndingSettles
<1>5. ASSUME NEW j \in JobIds, StartJob(j) PROVE Stutters(u)
  <2>1. /\ jobs[j].state \in Queued /\ jobs'[j].state \in Queued /\ jobs'[j].marker = jobs[j].marker
        /\ \A k \in JobIds : k # j => jobs'[k] = jobs[k]
        /\ sent' = sent
    BY <1>5 DEF StartJob, TypeOK, Queued
  <2>2. \A a \in Attempts : Outstanding(a)' <=> Outstanding(a)
    BY <2>1 DEF Outstanding, JobsOf
  <2>3. QED
    BY <1>2, <2>2
<1>6. ASSUME NEW j \in JobIds, NEW s \in Ended, EndJob(j, s)
      PROVE  Stutters(u) \/ Settles(u, jobs[j].marker)
  <2>1. /\ jobs[j].marker \in Attempts /\ jobs[j].state \in Queued
        /\ jobs'[j].state \notin Queued /\ jobs'[j].marker = jobs[j].marker
        /\ \A k \in JobIds : k # j => jobs'[k] = jobs[k] /\ jobs[k].marker # jobs[j].marker
        /\ sent' = sent /\ jobs[j].marker \notin sent
    BY <1>6 DEF EndJob, TypeOK, Queued, Ended, OneJobPerMarker
  <2>2. \A a \in Attempts : Outstanding(a)' <=> Outstanding(a) /\ a # jobs[j].marker
    BY <2>1 DEF Outstanding, JobsOf
  <2>3. QED
    BY <1>1, <2>1, <2>2, EndingSettles
<1>7. \A m \in Markers, j \in JobIds : EndJob(j, "FAILED") \/ EndJob(j, "COMPLETED") => jobs[j].marker \in Attempts
  BY DEF EndJob, TypeOK
<1>8. QED
  BY <1>3, <1>4, <1>5, <1>6, <1>7 DEF ClusterStep, EndJob, TypeOK

\* Each step is, for each unit, a step of SingleFlight or none.
LEMMA StepRefines ==
  ASSUME IndInv, IndInv', [Next]_vars, NEW u \in Units
  PROVE  [Promise(u)!Next]_(Promise(u)!absVars)
<1> USE DEF ledger
<1>1. CASE UNCHANGED vars
  BY <1>1, StateOnlyStutters, PromisedStep DEF vars
<1>2. ASSUME NEW g \in Groups, NEW claims \in SUBSET grants, Request(g, claims)
      PROVE  Stutters(u) \/ \E a \in Attempts : Opens(u, a)
  BY <1>2, StateOnlyStutters, IntendOpens DEF Request, Replay, Recover
<1>3. ASSUME NEW g \in Groups,
             RecoverJob(g) \/ GiveUpOnMarker(g) \/ NothingToDo(g) \/ StartSubmission(g)
      PROVE  Stutters(u)
  <2>1. \A b \in Attempts : attempts'[b].group = attempts[b].group
    BY <1>3, GroupsStay DEF RecoverJob, GiveUpOnMarker, NothingToDo, StartSubmission
  <2>2. QED
    BY <1>3, <2>1, StateOnlyStutters DEF RecoverJob, GiveUpOnMarker, NothingToDo, StartSubmission
<1>4. CASE SbatchAccepted \/ SbatchUnparseable
  <2>1. \A b \in Attempts : attempts'[b].group = attempts[b].group
    BY <1>4, GroupsStay DEF SbatchAccepted, SbatchUnparseable, Conclude
  <2>2. Stutters(u)
    BY <1>4, <2>1, StateOnlyStutters DEF SbatchAccepted, SbatchUnparseable, Conclude, ghosts
  <2>3. QED
    BY <2>2, PromisedStep
<1>5. CASE DriveStep
  BY <1>3, <1>4, <1>5, SendingLaunches, RejectionExcuses, PromisedStep DEF DriveStep
<1>6. CASE Interrupted
  BY <1>6, StateOnlyStutters, PromisedStep DEF Interrupted
<1>7. ASSUME NEW g \in Groups, NEW s \in Reported, UpdateAttempt(g, s)
      PROVE  Stutters(u)
  <2>1. \A b \in Attempts : attempts'[b].group = attempts[b].group
    BY <1>7, GroupsStay DEF UpdateAttempt
  <2>2. QED
    BY <1>7, <2>1, StateOnlyStutters DEF UpdateAttempt
<1>8. ASSUME NEW x \in Auths, NEW us \in SUBSET Units, Authorize(x, us)
      PROVE  Stutters(u)
  BY <1>8, StateOnlyStutters DEF Authorize
<1>9. ASSUME NEW a \in Attempts, NEW v \in Units, UnitEnds(a, v)
      PROVE  Stutters(u) \/ Settles(u, a)
  <2>1. CASE u = v
    BY <1>9, <2>1, EndingSettles DEF UnitEnds
  <2>2. CASE u # v
    <3>1. FlyingFor(u)' = FlyingFor(u)
      BY <1>9, <2>2 DEF UnitEnds, FlyingFor, UnitsUnder, GroupOf, Outstanding, JobsOf, slurmVars
    <3>2. QED
      BY <1>9, <3>1 DEF UnitEnds, Stutters, Used, Excused, ExcusedFor, UnitsUnder, GroupOf, ghosts
  <2>3. QED
    BY <2>1, <2>2
<1>10. CASE ClusterStep
  BY <1>10, ClusterRefines, PromisedStep
<1>11. QED
  BY <1>1, <1>2, <1>5, <1>6, <1>7, <1>8, <1>9, <1>10, PromisedStep DEF Next

\* To each unit the ledger keeps the promise of SingleFlight: its attempts are
\* opened one at a time, the earlier ones settled or excused, whatever groups
\* they were planned in.
THEOREM UnitsKeepPromise == Spec => UnitPromise
<1>1. Init => \A u \in Units : Promise(u)!Init
  BY DEF Init, SlurmInit, Promise!Init, NoRecord, FlyingFor, ExcusedFor, UnitsUnder, GroupOf
<1>2. IndInv /\ IndInv' /\ [Next]_vars => \A u \in Units : [Promise(u)!Next]_(Promise(u)!absVars)
  BY StepRefines
<1>3. IndInv /\ IndInv' /\ [Next]_vars =>
        [\A u \in Units : [Promise(u)!Next]_(Promise(u)!absVars)]_vars
  BY <1>2
<1>4. QED
  BY <1>1, <1>3, Inductive, PTL DEF Spec, UnitPromise

==============================================================================
