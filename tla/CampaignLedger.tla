---------------------------- MODULE CampaignLedger ----------------------------
(***************************************************************************)
(* The execution ledger of a campaign run (src/remoteslurm/stub.py,        *)
(* op_campaign_attempt_ensure and op_campaign_attempt_update).  Units are  *)
(* submitted in groups; the ledger reserves every unit of a group for one  *)
(* attempt, and gives it to another only for a retry authorization that    *)
(* names the attempt it replaces.  The lease admits one request at a time; *)
(* its ledger writes are atomic, and it may stop between any two of them.  *)
(* The controller decides on snapshots of any age: it may send any group,  *)
(* with any of the authorizations an operator ever gave.                   *)
(***************************************************************************)
EXTENDS SlurmController, Naturals

CONSTANTS Units,
          Groups,    \* group ids: hashes of the group contracts
          UnitsOf,   \* the mapping of each contract
          Auths,     \* retry authorization ids
          Reported,  \* the states a client reports of an attempt with a job
          NoGroup, NoJob

\* An attempt's marker is made from its group and its attempt_id, one for one.
Attempts  == Markers
NoAttempt == NoMarker

ASSUME CampaignLedgerAssumption ==
  /\ UnitsOf \in [Groups -> (SUBSET Units) \ {{}}]
  /\ NoGroup \notin Groups
  /\ NoJob \notin JobIds
  /\ Reported \subseteq {"PENDING", "RUNNING", "COMPLETED", "FAILED", "INVALID", "CANCELLED",
                     "UNKNOWN"}

VARIABLES attempts,  \* ledger: the attempts, with their group, state and job
          current,   \* ledger: the current attempt of each group
          units,     \* ledger: the attempt each unit is reserved for
          consumed,  \* ledger: the replacement each authorization paid for, by unit
          work,      \* the request that holds the lease: its phase, the groups
                     \*   it still has to drive, and the one it is submitting
          over,      \* array tasks and packed units that ended before their job
          grants,    \* retry authorizations operators gave
          waived,    \* history: <<attempt, unit>> replaced with duplicate risk accepted
          misled     \* history: attempts sbatch wrongly reported as not taken

ledger == <<attempts, current, units, consumed>>
ghosts == <<waived, misled>>
vars   == <<ledger, work, over, grants, ghosts, slurmVars>>

AttemptStates == {"INTENDED", "SUBMITTING", "ACCEPTED", "PENDING", "RUNNING",
                  "COMPLETED", "FAILED", "INVALID", "REJECTED", "CANCELLED", "UNKNOWN"}
Unresolved == {"INTENDED", "SUBMITTING"}

NoRecord == [group |-> NoGroup, state |-> "ABSENT", job |-> NoJob]
Idle     == [phase |-> "idle", todo |-> {}, group |-> NoGroup]

Init ==
  /\ SlurmInit
  /\ attempts = [a \in Attempts |-> NoRecord]
  /\ current = [g \in Groups |-> NoAttempt]
  /\ units = [u \in Units |-> NoAttempt]
  /\ consumed = [k \in Auths \X Units |-> NoAttempt]
  /\ work = Idle
  /\ over = {}
  /\ grants = {}
  /\ waived = {}
  /\ misled = {}

------------------------------------------------------------------------------
(* What a request asks and how the ledger answers *)

GroupOf(a) == attempts[a].group
UnitsUnder(a) == IF GroupOf(a) = NoGroup THEN {} ELSE UnitsOf[GroupOf(a)]

Claimed(claims) == {h.unit : h \in claims}

\* retry_claims uniquely match units of the group.
WellFormed(g, claims) ==
  /\ Claimed(claims) \subseteq UnitsOf[g]
  /\ \A h, i \in claims : h.unit = i.unit => h = i

\* The replacements the claimed authorizations have led to.
PaidFor(claims) == {consumed[<<h.auth, h.unit>>] : h \in claims} \ {NoAttempt}

\* A bug: a claim is good for whatever attempt the unit has by now.
AnyClaimMatches(claims) == TRUE

\* Otherwise the request ends in store_conflict.
ClaimsMatch(claims) == \A h \in claims : units[h.unit] = h.expected

\* A bug: a reservation blocks only while its submission is in doubt.
BlockingInDoubt(g, claims) ==
  {GroupOf(units[u]) : u \in {v \in UnitsOf[g] \ Claimed(claims) :
                                /\ units[v] # NoAttempt
                                /\ attempts[units[v]].state \in Unresolved}}

\* The groups that hold a unit the request has no claim for.
Blocking(g, claims) ==
  {GroupOf(units[u]) : u \in {v \in UnitsOf[g] \ Claimed(claims) : units[v] # NoAttempt}}

\* A bug: a unit keeps the reservation it has.
ReserveFree(g, a) ==
  [u \in Units |-> IF u \in UnitsOf[g] /\ units[u] = NoAttempt THEN a ELSE units[u]]

Reserve(g, a) == [u \in Units |-> IF u \in UnitsOf[g] THEN a ELSE units[u]]

\* A bug: the request keeps the group it has submitted.
DriveUnreset(todo) ==
  work' = [work EXCEPT !.phase = IF todo = {} THEN "idle" ELSE "drive", !.todo = todo]

\* The request goes on to drive these groups, in some order, or is answered.
Drive(todo) ==
  work' = IF todo = {} THEN Idle ELSE [phase |-> "drive", todo |-> todo, group |-> NoGroup]

------------------------------------------------------------------------------
(* op_campaign_attempt_ensure *)

\* A consumed authorization leads to its replacements.
Replay(g, claims) ==
  /\ work = Idle
  /\ WellFormed(g, claims)
  /\ PaidFor(claims) # {}
  /\ Drive({GroupOf(b) : b \in PaidFor(claims)})
  /\ UNCHANGED <<ledger, over, grants, ghosts, slurmVars>>

\* An unclaimed reservation is recovered with its whole group.
Recover(g, claims) ==
  /\ work = Idle
  /\ WellFormed(g, claims)
  /\ PaidFor(claims) = {}
  /\ ClaimsMatch(claims)
  /\ Blocking(g, claims) # {}
  /\ Drive(Blocking(g, claims))
  /\ UNCHANGED <<ledger, over, grants, ghosts, slurmVars>>

\* Intent, reservations and consumed authorizations are one ledger write.
Intend(g, claims, a) ==
  /\ work = Idle
  /\ WellFormed(g, claims)
  /\ PaidFor(claims) = {}
  /\ ClaimsMatch(claims)
  /\ Blocking(g, claims) = {}
  /\ attempts[a].state = "ABSENT"
  /\ attempts' = [attempts EXCEPT ![a] = [group |-> g, state |-> "INTENDED", job |-> NoJob]]
  /\ current' = [current EXCEPT ![g] = a]
  /\ units' = Reserve(g, a)
  /\ consumed' = [k \in Auths \X Units |->
                    IF \E h \in claims : k = <<h.auth, h.unit>> THEN a ELSE consumed[k]]
  /\ waived' = waived \union {<<units[h.unit], h.unit>> : h \in {i \in claims : i.risk}}
  /\ Drive({g})
  /\ UNCHANGED <<over, grants, misled, slurmVars>>

Resolve(a, s, job) ==
  attempts' = [attempts EXCEPT ![a].state = s, ![a].job = job]

InDoubt(a) == attempts[a].state = "SUBMITTING" /\ attempts[a].job = NoJob

Driven(g) ==
  /\ work.phase = "drive"
  /\ g \in work.todo

\* A unique scheduler job carries the marker.
RecoverJob(g) ==
  /\ Driven(g)
  /\ InDoubt(current[g])
  /\ \E j \in JobsOf(current[g]) : Resolve(current[g], "ACCEPTED", j)
  /\ Drive(work.todo \ {g})
  /\ UNCHANGED <<current, units, consumed, over, grants, ghosts, slurmVars>>

\* None, or several, were seen.
GiveUpOnMarker(g) ==
  /\ Driven(g)
  /\ InDoubt(current[g])
  /\ Resolve(current[g], "UNKNOWN", NoJob)
  /\ Drive(work.todo \ {g})
  /\ UNCHANGED <<current, units, consumed, over, grants, ghosts, slurmVars>>

NothingToDo(g) ==
  /\ Driven(g)
  /\ ~InDoubt(current[g])
  /\ attempts[current[g]].state # "INTENDED"
  /\ Drive(work.todo \ {g})
  /\ UNCHANGED <<ledger, over, grants, ghosts, slurmVars>>

\* A bug: sbatch is called from INTENDED, and the ledger written afterwards.
SubmitUnsaved(g) ==
  /\ Driven(g)
  /\ attempts[current[g]].state = "INTENDED"
  /\ work' = [phase |-> "submitting", todo |-> work.todo \ {g}, group |-> g]
  /\ UNCHANGED <<ledger, over, grants, ghosts, slurmVars>>

StartSubmission(g) ==
  /\ Driven(g)
  /\ attempts[current[g]].state = "INTENDED"
  /\ Resolve(current[g], "SUBMITTING", NoJob)
  /\ work' = [phase |-> "submitting", todo |-> work.todo \ {g}, group |-> g]
  /\ UNCHANGED <<current, units, consumed, over, grants, ghosts, slurmVars>>

CallSbatch ==
  /\ work.phase = "submitting"
  /\ SendBatch(current[work.group])
  /\ work' = [work EXCEPT !.phase = "sent"]
  /\ UNCHANGED <<ledger, over, grants, ghosts>>

\* The outcome of sbatch is written, and the next group driven.
Conclude(s, job) ==
  /\ Resolve(current[work.group], s, job)
  /\ Drive(work.todo)
  /\ UNCHANGED <<current, units, consumed, over, grants, waived, slurmVars>>

SbatchAccepted ==
  /\ work.phase = "sent"
  /\ \E j \in JobsOf(current[work.group]) : Conclude("ACCEPTED", j)
  /\ UNCHANGED misled

SbatchUnparseable ==
  /\ work.phase = "sent"
  /\ JobsOf(current[work.group]) # {}
  /\ Conclude("UNKNOWN", NoJob)
  /\ UNCHANGED misled

\* A nonzero exit code is taken for a refusal, which it may not have been.
SbatchRejected ==
  /\ work.phase = "sent"
  /\ Conclude("REJECTED", NoJob)
  /\ misled' = IF Outstanding(current[work.group])
                 THEN misled \union {current[work.group]} ELSE misled

\* The worker is killed, sbatch times out or is missing, a write fails.
Interrupted ==
  /\ work # Idle
  /\ work' = Idle
  /\ UNCHANGED <<ledger, over, grants, ghosts, slurmVars>>

------------------------------------------------------------------------------
(* op_campaign_attempt_update: the state of the group's current attempt is  *)
(* overwritten with what a client saw, earlier                              *)

UpdateAttempt(g, s) ==
  /\ work = Idle
  /\ current[g] # NoAttempt
  /\ attempts[current[g]].job # NoJob
  /\ attempts' = [attempts EXCEPT ![current[g]].state = s]
  /\ UNCHANGED <<current, units, consumed, work, over, grants, ghosts, slurmVars>>

------------------------------------------------------------------------------
(* Operators and the cluster *)

\* A bug: an attempt with a job may be replaced whatever has become of it.
MayRetryUnseen(u, a, risk) ==
  \/ a = NoAttempt /\ ~risk
  \/ /\ a # NoAttempt
     /\ u \in UnitsUnder(a)
     /\ attempts[a].state \notin Unresolved

\* CampaignManager.retry lets unit u's attempt a be replaced: without risk when
\* the scheduler showed its part of the job ended or the ledger says REJECTED,
\* with the risk of a duplicate accepted while that is not known.
MayRetry(u, a, risk) ==
  \/ a = NoAttempt /\ ~risk
  \/ /\ a # NoAttempt
     /\ u \in UnitsUnder(a)
     /\ attempts[a].state \notin Unresolved
     /\ \/ risk
        \/ attempts[a].state = "REJECTED"
        \/ /\ attempts[a].job # NoJob
           /\ \/ <<a, u>> \in over
              \/ jobs[attempts[a].job].state \in Ended

\* One authorization covers every unit the operator selected; each names the
\* attempt the operator's snapshot showed for it.
Authorize(x, us) ==
  /\ us # {}
  /\ \A h \in grants : h.auth # x
  /\ \E seen \in [us -> Attempts \union {NoAttempt}], risk \in [us -> BOOLEAN] :
       /\ \A u \in us : MayRetry(u, seen[u], risk[u])
       /\ grants' = grants \union
            {[auth |-> x, unit |-> u, expected |-> seen[u], risk |-> risk[u]] : u \in us}
  /\ UNCHANGED <<ledger, work, over, ghosts, slurmVars>>

\* An array task, or a packed unit, ends before the allocation does.
UnitEnds(a, u) ==
  /\ <<a, u>> \notin over
  /\ u \in UnitsUnder(a)
  /\ \E j \in JobsOf(a) : jobs[j].state = "RUNNING"
  /\ over' = over \union {<<a, u>>}
  /\ UNCHANGED <<ledger, work, grants, ghosts, slurmVars>>

ClusterStep ==
  /\ \/ \E m \in Markers, j \in JobIds : Accept(m, j)
     \/ \E m \in Markers : Refuse(m)
     \/ \E j \in JobIds : StartJob(j)
     \/ \E j \in JobIds, s \in Ended : EndJob(j, s)
  /\ UNCHANGED <<ledger, work, over, grants, ghosts>>

Request(g, claims) ==
  \/ Replay(g, claims)
  \/ Recover(g, claims)
  \/ \E a \in Attempts : Intend(g, claims, a)

DriveStep ==
  \/ \E g \in Groups : RecoverJob(g) \/ GiveUpOnMarker(g) \/ NothingToDo(g) \/ StartSubmission(g)
  \/ CallSbatch
  \/ SbatchAccepted
  \/ SbatchUnparseable
  \/ SbatchRejected

Next ==
  \/ \E g \in Groups : \E claims \in SUBSET grants : Request(g, claims)
  \/ DriveStep
  \/ Interrupted
  \/ \E g \in Groups, s \in Reported : UpdateAttempt(g, s)
  \/ \E x \in Auths, us \in SUBSET Units : Authorize(x, us)
  \/ \E a \in Attempts, u \in Units : UnitEnds(a, u)
  \/ ClusterStep

Spec == Init /\ [][Next]_vars

------------------------------------------------------------------------------
(* Properties *)

Grant == [auth : Auths, unit : Units, expected : Attempts \union {NoAttempt}, risk : BOOLEAN]

\* The ledger holds records op_campaign_attempt_ensure can write, and the
\* request that holds the lease submits only a group it reserved.
TypeOK ==
  /\ attempts \in [Attempts -> [group : Groups \union {NoGroup},
                                state : AttemptStates \union {"ABSENT"},
                                job : JobIds \union {NoJob}]]
  /\ \A a \in Attempts : GroupOf(a) = NoGroup <=> attempts[a] = NoRecord
  /\ current \in [Groups -> Attempts \union {NoAttempt}]
  /\ units \in [Units -> Attempts \union {NoAttempt}]
  /\ consumed \in [Auths \X Units -> Attempts \union {NoAttempt}]
  /\ work \in [phase : {"idle", "drive", "submitting", "sent"},
               todo : SUBSET Groups, group : Groups \union {NoGroup}]
  /\ work.phase \in {"submitting", "sent"} <=> work.group # NoGroup
  /\ \A g \in work.todo \union ({work.group} \ {NoGroup}) : current[g] # NoAttempt
  /\ over \subseteq Attempts \X Units
  /\ grants \subseteq Grant
  /\ waived \subseteq Attempts \X Units
  /\ misled \subseteq Attempts
  /\ jobs \in [JobIds -> [marker : Markers \union {NoMarker}, state : JobStates]]
  /\ sent \subseteq Markers

\* Attempts that run unit u on the cluster, or still may.
FlyingFor(u) == {a \in Attempts : /\ u \in UnitsUnder(a)
                                  /\ Outstanding(a)
                                  /\ <<a, u>> \notin over}

ExcusedFor(u) == {a \in Attempts : <<a, u>> \in waived \/ a \in misled}

\* A unit never runs in two attempts at once, through whichever groups the
\* attempts were planned, unless the operator accepted that risk for the older
\* one or sbatch itself said it had not taken it: what the reservations and
\* the retry claims of op_campaign_attempt_ensure are for.
NoUnitDuplicate ==
  \A u \in Units : FlyingFor(u) \ ExcusedFor(u) \subseteq {units[u]}

\* An attempt reaches sbatch at most once, whatever request drives it and
\* wherever it was interrupted: op_campaign_attempt_ensure saves SUBMITTING
\* before it calls sbatch.
OneSubmissionEach ==
  \A a \in Attempts : Cardinality(JobsOf(a)) + Cardinality(sent \intersect {a}) <= 1

\* The attempt a unit is reserved for covers the unit and is its group's current
\* one: so a recovery, which drives a group's current attempt, drives the one
\* that blocks the request.
ReservationIsCurrent ==
  \A u \in Units : units[u] # NoAttempt =>
    /\ u \in UnitsUnder(units[u])
    /\ current[GroupOf(units[u])] = units[u]

\* A reservation changes hands only by an operator's authorization that names
\* the attempt replaced, and that authorization has paid for no other
\* replacement of the unit: a retry is spent once, however often it is sent.
RetriesArePaid ==
  [][\A u \in Units : (units[u] # NoAttempt /\ units'[u] # units[u]) =>
       \E h \in grants : /\ h.unit = u
                         /\ h.expected = units[u]
                         /\ consumed[<<h.auth, u>>] = NoAttempt
                         /\ consumed'[<<h.auth, u>>] = units'[u]]_vars

\* To each unit the ledger gives the promise every durable submitter gives.
Promise(u) == INSTANCE SingleFlight
  WITH Submissions <- Attempts,
       None <- NoAttempt,
       open <- units[u],
       used <- {a \in Attempts : u \in UnitsUnder(a)},
       flying <- FlyingFor(u),
       excused <- {a \in ExcusedFor(u) : u \in UnitsUnder(a)}

UnitPromise ==
  /\ \A u \in Units : Promise(u)!Init
  /\ [][\A u \in Units : [Promise(u)!Next]_(Promise(u)!absVars)]_vars
==============================================================================
