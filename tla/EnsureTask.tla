----------------------------- MODULE EnsureTask ------------------------------
(***************************************************************************)
(* Cluster.ensure (src/remoteslurm/tasks.py, ensure_task) over the task    *)
(* store: any number of clients repeat one manifest concurrently.  Each    *)
(* call asks the stub to ensure the task, observes the scheduler outside   *)
(* the lease, reports what it saw, and after a completed job checks the    *)
(* outputs and reports VERIFIED or INVALID.  Nothing a client observed is  *)
(* checked again when its update arrives, so calls interleave freely.      *)
(***************************************************************************)
EXTENDS TaskStore

CONSTANTS Contents,  \* what the declared outputs may contain
          NoContent, \* an output is missing
          MaxEdits   \* bound: times somebody else rewrites the outputs

\* The evidence kept of verified outputs: whose they are and what they were.
Receipts == [attempt : Attempts, job : JobIds, content : Contents]

ASSUME EnsureTaskAssumption ==
  /\ NoContent \notin Contents
  /\ NoReceipt \notin Receipts
  /\ MaxEdits \in Nat

VARIABLES disk,      \* the declared outputs
          edits      \* times they were rewritten by others than the job

vars == <<taskVars, slurmVars, disk, edits>>

Init ==
  /\ TaskInit
  /\ SlurmInit
  /\ disk = NoContent
  /\ edits = 0

------------------------------------------------------------------------------
(* The client *)

Begin(c, retry, unknown) ==
  /\ pc[c] = "idle"
  /\ Goto(c, "want")
  /\ req' = [req EXCEPT ![c] = [retry |-> retry, unknown |-> unknown]]
  /\ UNCHANGED <<record, lease, mem, upd, ghosts, slurmVars, disk, edits>>

\* The attempt of the record the stub answered with.
Answered(c) == mem[c].attempts[mem[c].current]

Request(c, state, sched, receipt) ==
  /\ upd' = [upd EXCEPT ![c] = [state |-> state, sched |-> sched, receipt |-> receipt]]
  /\ Goto(c, "update")
  /\ UNCHANGED <<record, lease, mem, req, ghosts, slurmVars, disk, edits>>

\* No job to look at, or a stored failure: the answer is reported as it is.
ReportStored(c) ==
  /\ pc[c] = "reply"
  /\ Answered(c).job = NoJob \/ Answered(c).sched = "FAILED"
  /\ Finish(c)
  /\ UNCHANGED <<record, lease, ghosts, slurmVars, disk, edits>>

\* Terminal evidence already on record is used without a new query.
UseStoredCompletion(c) ==
  /\ pc[c] = "reply"
  /\ Answered(c).job # NoJob
  /\ Answered(c).sched = "COMPLETED"
  /\ Request(c, "COMPLETED", "COMPLETED", NoReceipt)

\* job_status: squeue, or sacct, which may lag behind a job's end.
ObserveJob(c) ==
  /\ pc[c] = "reply"
  /\ Answered(c).job # NoJob
  /\ Answered(c).sched = "none"
  /\ LET now == jobs[Answered(c).job].state
     IN  \E seen \in {now} \union (IF now \in Ended THEN {"RUNNING"} ELSE {}) :
           Request(c, seen, IF seen \in Ended THEN seen ELSE "none", NoReceipt)

\* No source shows the job, or only this client's registry remembers it.
LoseSight(c) ==
  /\ pc[c] = "reply"
  /\ Answered(c).job # NoJob
  /\ Answered(c).sched = "none"
  /\ \E remembered \in {"none"} \union (Ended \intersect {jobs[Answered(c).job].state}) :
       Request(c, "UNKNOWN", remembered, NoReceipt)

\* The outputs are there and the validator exits 0.
ValidateOutputs(c) ==
  /\ pc[c] = "outputs"
  /\ disk # NoContent
  /\ Goto(c, "fingerprint")
  /\ UNCHANGED <<record, lease, mem, req, upd, ghosts, slurmVars, disk, edits>>

\* An output is missing or unreadable, or the validator exits nonzero.
CondemnOutputs(c) ==
  /\ pc[c] \in {"outputs", "fingerprint"}
  /\ Request(c, "INVALID", "COMPLETED", NoReceipt)

\* Compare the outputs with the receipt the stub answered with, if any.
FingerprintOutputs(c) ==
  /\ pc[c] = "fingerprint"
  /\ disk # NoContent
  /\ LET fresh    == [attempt |-> mem[c].current, job |-> Answered(c).job, content |-> disk]
         evidence == IF mem[c].receipt = NoReceipt THEN fresh ELSE mem[c].receipt
     IN  IF evidence.content = disk
           THEN Request(c, "VERIFIED", "COMPLETED", evidence)
           ELSE Request(c, "INVALID", "COMPLETED", NoReceipt)

\* The client dies, loses its connection, gets task_busy or a query error.
Abandon(c) ==
  /\ pc[c] \in {"want", "reply", "update", "outputs", "fingerprint"}
  /\ Finish(c)
  /\ UNCHANGED <<record, lease, ghosts, slurmVars, disk, edits>>

ClientStep(c) ==
  \/ ReportStored(c)
  \/ UseStoredCompletion(c)
  \/ ObserveJob(c)
  \/ LoseSight(c)
  \/ ValidateOutputs(c)
  \/ CondemnOutputs(c)
  \/ FingerprintOutputs(c)

------------------------------------------------------------------------------
(* The world around it *)

\* A job that completes has written its outputs, or has not.
Finished(j, s) ==
  /\ EndJob(j, s)
  /\ disk' \in IF s = "COMPLETED" THEN Contents \union {NoContent} ELSE {disk}
  /\ UNCHANGED <<taskVars, edits>>

EditOutputs ==
  /\ edits < MaxEdits
  /\ edits' = edits + 1
  /\ disk' \in (Contents \union {NoContent}) \ {disk}
  /\ UNCHANGED <<taskVars, slurmVars>>

ControllerStep ==
  \/ \E m \in Markers, j \in JobIds : Accept(m, j) /\ UNCHANGED <<taskVars, disk, edits>>
  \/ \E m \in Markers : Refuse(m) /\ UNCHANGED <<taskVars, disk, edits>>
  \/ \E j \in JobIds : StartJob(j) /\ UNCHANGED <<taskVars, disk, edits>>
  \/ \E j \in JobIds, s \in Ended : Finished(j, s)

StubStep(c) == WorkerStep(c) /\ UNCHANGED <<disk, edits>>

Next ==
  \/ \E c \in Clients :
       \/ \E retry, unknown \in BOOLEAN : Begin(c, retry, unknown)
       \/ StubStep(c)
       \/ ClientStep(c)
       \/ Abandon(c)
       \/ (EnsureRaises(c) \/ WorkerDies(c) \/ UpdateDies(c)) /\ UNCHANGED <<disk, edits>>
  \/ ControllerStep
  \/ EditOutputs

Spec == Init /\ [][Next]_vars

------------------------------------------------------------------------------
(* Properties *)

Phases == {"idle", "want", "ensure", "submitting", "sent", "reply", "update",
           "outputs", "fingerprint"}
AttemptRecords == [state : TaskStates \union {"ABSENT"},
                   job   : JobIds \union {NoJob},
                   sched : Ended \union {"none"}]
Records == [state    : TaskStates \union {"ABSENT"},
            current  : Attempts \union {NoAttempt},
            attempts : [Attempts -> AttemptRecords],
            receipt  : Receipts \union {NoReceipt},
            history  : SUBSET Receipts]
Updates == [state   : TaskStates \union {"none"},
            sched   : Ended \union {"none"},
            receipt : Receipts \union {NoReceipt}]

\* Every variable has the shape the code gives it.
TypeOK ==
  /\ record \in Records
  /\ lease \in Clients \union {Free, Dead}
  /\ pc \in [Clients -> Phases]
  /\ mem \in [Clients -> Records]
  /\ req \in [Clients -> [retry : BOOLEAN, unknown : BOOLEAN]]
  /\ upd \in [Clients -> Updates]
  /\ issued \in SUBSET Attempts
  /\ waived \in SUBSET Attempts
  /\ misled \in SUBSET Attempts
  /\ crashes \in 0..MaxCrashes
  /\ jobs \in [JobIds -> [marker : Markers \union {NoMarker}, state : JobStates]]
  /\ sent \in SUBSET Markers
  /\ disk \in Contents \union {NoContent}
  /\ edits \in 0..MaxEdits

\* "Submit exactly one marked batch job": whatever dies or interleaves, a
\* submission that is or may yet be on the cluster belongs to the current
\* attempt, unless an operator gave up on it with retry_unknown or sbatch
\* itself reported it as refused.
NoSilentDuplicate ==
  \A a \in Attempts : Outstanding(a) => a = record.current \/ a \in waived \union misled

\* Intent is durable before the scheduler is called: no job and no request in
\* flight carries a marker the task record does not list.
EveryJobRecorded ==
  \A a \in Attempts :
    a \in sent \/ JobsOf(a) # {} => record.attempts[a].state # "ABSENT"

\* A job id on record is the only job that ever carried the attempt's marker,
\* recovered or not.
JobIdentified ==
  \A a \in Attempts :
    record.attempts[a].job # NoJob => JobsOf(a) = {record.attempts[a].job}

\* The states --retry may replace are settled: nothing of the attempt is, or
\* may still come to be, on the cluster, however late the report that set them.
RetryableIsSettled ==
  record.state \in Retryable =>
    ~Outstanding(record.current) \/ record.current \in misled

\* VERIFIED is never reported without the evidence: a receipt of this very
\* attempt, whose own job Slurm completed.
VerifiedIsEvidenced ==
  record.state = "VERIFIED" =>
    /\ record.receipt # NoReceipt
    /\ record.receipt.attempt = record.current
    /\ record.receipt.job = record.attempts[record.current].job
    /\ jobs[record.receipt.job] = [marker |-> record.current, state |-> "COMPLETED"]

\* A receipt of verified outputs is replaced by no step: it stays the record's
\* receipt or is archived in its history.
ReceiptsKept ==
  [][record.receipt # NoReceipt =>
       \/ record'.receipt = record.receipt
       \/ record.receipt \in record'.history]_vars

\* The task store keeps the promise of SingleFlight.
Promise == INSTANCE SingleFlight WITH
  Submissions <- Attempts,
  None        <- NoAttempt,
  open        <- record.current,
  used        <- issued,
  flying      <- {a \in Attempts : Outstanding(a)},
  excused     <- waived \union misled

\* Every step of every worker, client and of the controller is a step of that
\* promise, or changes nothing it speaks of.
SingleFlightKept == Promise!Spec

------------------------------------------------------------------------------
(* Fairness: a worker that runs keeps running (sbatch at the latest times out),*)
(* and every caller repeats ensure, without retry flags, until a call gets the *)
(* lease and its next write does not fail.  Nothing is asked of the            *)
(* controller, and clients may always give up.                                 *)

Fairness ==
  \A c \in Clients :
    /\ WF_vars(Begin(c, FALSE, FALSE))
    /\ WF_vars(pc[c] \in {"submitting", "sent", "update"} /\ StubStep(c))
    /\ SF_vars(pc[c] = "want" /\ StubStep(c))
    /\ SF_vars(pc[c] = "ensure" /\ StubStep(c))
    /\ WF_vars(ClientStep(c))

FairSpec == Spec /\ Fairness

\* An interrupted submission is never left unexplained: the record leaves
\* SUBMITTING, with the job it led to or as UNKNOWN or REJECTED.
IntentResolved ==
  (record.state = "SUBMITTING") ~> (record.state # "SUBMITTING")
==============================================================================
