------------------------------ MODULE TaskStore ------------------------------
(***************************************************************************)
(* The durable task record of the login-node stub (src/remoteslurm/stub.py,*)
(* op_task_ensure and op_task_update): one task's task.json, its lease     *)
(* directory, and the stub workers that serve ensure and update requests.  *)
(* Every durable write is a step of its own, so that a worker can die      *)
(* between any two of them.  The lease is the one the code relies on;      *)
(* module StoreLease models the directory protocol behind it, and when     *)
(* that protocol gives less.                                               *)
(***************************************************************************)
EXTENDS SlurmController, Naturals

CONSTANTS Clients,         \* the concurrent ensure calls, one stub worker each
          NoJob,           \* an attempt without a recorded job id
          NoReceipt,       \* a record without a verification receipt
          Free, Dead,      \* the lease: nobody's, or a worker's that died
          MaxCrashes       \* bound: workers that may die

ASSUME TaskStoreAssumption ==
  /\ Free \notin Clients
  /\ Dead \notin Clients
  /\ Free # Dead
  /\ NoJob \notin JobIds
  /\ MaxCrashes \in Nat

VARIABLES record,   \* the content of task.json
          lease,    \* who holds <task>.lock
          pc,       \* what each call is doing (its worker, then its client)
          mem,      \* the record in each call's memory
          req,      \* the flags each call was made with
          upd,      \* the update each client is about to send
          issued,   \* history: attempt ids ever used (uuid4: never reused)
          waived,   \* history: attempts replaced under retry_unknown
          misled,   \* history: attempts sbatch wrongly reported as not taken
          crashes   \* workers that have died

ghosts   == <<issued, waived, misled, crashes>>
taskVars == <<record, lease, pc, mem, req, upd, ghosts>>

\* An attempt's marker is made from its attempt_id, one for one.
Attempts  == Markers
NoAttempt == NoMarker

Retryable  == {"FAILED", "INVALID", "REJECTED"}
InProgress == {"SUBMITTING", "ACCEPTED", "PENDING", "RUNNING", "COMPLETED"}
TaskStates == Retryable \union InProgress \union {"PREPARED", "VERIFIED", "UNKNOWN"}

\* The order of `progress` in op_task_update.
Rank == [s \in InProgress |->
           CASE s = "SUBMITTING" -> 0
             [] s = "ACCEPTED"   -> 1
             [] s = "PENDING"    -> 2
             [] s = "RUNNING"    -> 3
             [] s = "COMPLETED"  -> 4]

\* sched is the stored scheduler evidence, "none" while it is not terminal.
NoAttemptRecord == [state |-> "ABSENT", job |-> NoJob, sched |-> "none"]
NoRecord == [state    |-> "ABSENT",
             current  |-> NoAttempt,
             attempts |-> [a \in Attempts |-> NoAttemptRecord],
             receipt  |-> NoReceipt,
             history  |-> {}]
NoFlags  == [retry |-> FALSE, unknown |-> FALSE]
NoUpdate == [state |-> "none", sched |-> "none", receipt |-> NoReceipt]

TaskInit ==
  /\ record = NoRecord
  /\ lease = Free
  /\ pc = [c \in Clients |-> "idle"]
  /\ mem = [c \in Clients |-> NoRecord]
  /\ req = [c \in Clients |-> NoFlags]
  /\ upd = [c \in Clients |-> NoUpdate]
  /\ issued = {}
  /\ waived = {}
  /\ misled = {}
  /\ crashes = 0

------------------------------------------------------------------------------
(* Helpers *)

\* The call returns or raises: nothing of it stays in memory.
Finish(c) ==
  /\ pc' = [pc EXCEPT ![c] = "idle"]
  /\ mem' = [mem EXCEPT ![c] = NoRecord]
  /\ req' = [req EXCEPT ![c] = NoFlags]
  /\ upd' = [upd EXCEPT ![c] = NoUpdate]

Goto(c, phase) == pc' = [pc EXCEPT ![c] = phase]

\* _task_write: the whole record in memory replaces the file atomically.
Save(c, r) ==
  /\ mem' = [mem EXCEPT ![c] = r]
  /\ record' = r

\* The worker answers with the record in its memory; its lease and the
\* request end.
Reply(c) ==
  /\ Goto(c, "reply")
  /\ req' = [req EXCEPT ![c] = NoFlags]
  /\ lease' = Free

\* The record with the state of its current attempt, and its own, set to s.
Resolved(r, s, job) ==
  [r EXCEPT !.state = s,
            !.attempts[r.current] = [@ EXCEPT !.state = s, !.job = job]]

\* Free, or held by a dead process and broken (_task_break_stale_lock).
Available == lease \in {Free, Dead}

\* A bug: an interrupted submission is answered as it stands.
NoReconciliation(r) == FALSE

NeedsReconcile(r) ==
  /\ r.current # NoAttempt
  /\ r.attempts[r.current].state = "SUBMITTING"
  /\ r.attempts[r.current].job = NoJob

\* A bug: an unresolved submission may be replaced by a plain retry.
RetryCoversUnknown(r, flags) ==
  /\ r.current # NoAttempt
  /\ \/ r.state \in Retryable \union {"UNKNOWN"} /\ ~flags.retry
     \/ r.state \notin Retryable \union {"UNKNOWN"}

\* The early returns of op_task_ensure: the attempt on record is the answer.
Answers(r, flags) ==
  /\ r.current # NoAttempt
  /\ \/ r.state = "UNKNOWN" /\ ~flags.unknown
     \/ r.state \in Retryable /\ ~flags.retry
     \/ r.state \notin Retryable \union {"UNKNOWN"}

UpdateIgnored(previous, s) ==
  \/ /\ s \in InProgress
     /\ previous \notin InProgress \/ Rank[s] < Rank[previous]
  \/ /\ s = "UNKNOWN"
     /\ previous \in {"COMPLETED", "VERIFIED", "INVALID", "FAILED"}

------------------------------------------------------------------------------
(* op_task_ensure *)

AcquireForEnsure(c) ==
  /\ pc[c] = "want"
  /\ Available
  /\ lease' = c
  /\ mem' = [mem EXCEPT ![c] = record]
  /\ Goto(c, "ensure")
  /\ UNCHANGED <<record, req, upd, ghosts, slurmVars>>

Prepare(c) ==
  /\ pc[c] = "ensure"
  /\ mem[c].state = "ABSENT"
  /\ Save(c, [mem[c] EXCEPT !.state = "PREPARED"])
  /\ UNCHANGED <<lease, pc, req, upd, ghosts, slurmVars>>

\* A bug: the newest job is taken, whatever its name.
RecoverAnyJob(c) ==
  /\ pc[c] = "ensure"
  /\ NeedsReconcile(mem[c])
  /\ \E j \in {k \in JobIds : jobs[k].marker # NoMarker} :
       Save(c, Resolved(mem[c], "ACCEPTED", j))
  /\ UNCHANGED <<lease, pc, req, upd, ghosts, slurmVars>>

\* A unique scheduler job carries the marker of the unresolved submission.
RecoverJob(c) ==
  /\ pc[c] = "ensure"
  /\ NeedsReconcile(mem[c])
  /\ \E j \in JobsOf(mem[c].current) : Save(c, Resolved(mem[c], "ACCEPTED", j))
  /\ UNCHANGED <<lease, pc, req, upd, ghosts, slurmVars>>

\* A bug: a submission the queries do not show is taken for refused.
RejectOnNoMatch(c) ==
  /\ pc[c] = "ensure"
  /\ NeedsReconcile(mem[c])
  /\ Save(c, Resolved(mem[c], "REJECTED", NoJob))
  /\ UNCHANGED <<lease, pc, req, upd, ghosts, slurmVars>>

\* A bug: the state is misspelt.
MisnameOnNoMatch(c) ==
  /\ pc[c] = "ensure"
  /\ NeedsReconcile(mem[c])
  /\ Save(c, Resolved(mem[c], "AMBIGUOUS", NoJob))
  /\ UNCHANGED <<lease, pc, req, upd, ghosts, slurmVars>>

\* None, or several, were seen: the submission stays unaccounted for.
GiveUpOnMarker(c) ==
  /\ pc[c] = "ensure"
  /\ NeedsReconcile(mem[c])
  /\ Save(c, Resolved(mem[c], "UNKNOWN", NoJob))
  /\ UNCHANGED <<lease, pc, req, upd, ghosts, slurmVars>>

ReturnRecord(c) ==
  /\ pc[c] = "ensure"
  /\ mem[c].state # "ABSENT"
  /\ ~NeedsReconcile(mem[c])
  /\ Answers(mem[c], req[c])
  /\ Reply(c)
  /\ UNCHANGED <<record, mem, upd, ghosts, slurmVars>>

\* A bug: a new attempt inherits the receipt of the one before.
BegunWithReceipt(r, a) ==
  [r EXCEPT !.state = "SUBMITTING",
            !.current = a,
            !.attempts[a] = [NoAttemptRecord EXCEPT !.state = "SUBMITTING"]]

\* A new attempt: without a job or a receipt, the old receipt archived.
Begun(r, a) ==
  [r EXCEPT !.state = "SUBMITTING",
            !.current = a,
            !.attempts[a] = [NoAttemptRecord EXCEPT !.state = "SUBMITTING"],
            !.receipt = NoReceipt,
            !.history = IF r.receipt = NoReceipt THEN @ ELSE @ \union {r.receipt}]

MayBegin(c, a) ==
  /\ pc[c] = "ensure"
  /\ mem[c].state # "ABSENT"
  /\ ~NeedsReconcile(mem[c])
  /\ ~Answers(mem[c], req[c])
  /\ a \notin issued

\* A bug: the intent stays in memory until sbatch has answered.
SubmitBeforeSaving(c, a) ==
  /\ MayBegin(c, a)
  /\ mem' = [mem EXCEPT ![c] = Begun(@, a)]
  /\ issued' = issued \union {a}
  /\ Goto(c, "submitting")
  /\ UNCHANGED <<record, lease, req, upd, waived, misled, crashes, slurmVars>>

\* Persist the intent to submit, before sbatch is called.
BeginAttempt(c, a) ==
  /\ MayBegin(c, a)
  /\ Save(c, Begun(mem[c], a))
  /\ issued' = issued \union {a}
  /\ waived' = IF mem[c].state = "UNKNOWN" /\ req[c].unknown
                 THEN waived \union {mem[c].current} ELSE waived
  /\ req' = [req EXCEPT ![c] = NoFlags]
  /\ Goto(c, "submitting")
  /\ UNCHANGED <<lease, upd, misled, crashes, slurmVars>>

\* A read, a write or a query fails (quota, damaged record): nothing new is
\* stored, the error is the answer, the lease is released.
EnsureRaises(c) ==
  /\ pc[c] = "ensure"
  /\ Finish(c)
  /\ lease' = Free
  /\ UNCHANGED <<record, ghosts, slurmVars>>

CallSbatch(c) ==
  /\ pc[c] = "submitting"
  /\ SendBatch(mem[c].current)
  /\ Goto(c, "sent")
  /\ UNCHANGED <<record, lease, mem, req, upd, ghosts>>

\* sbatch is not on PATH, or runs past its 120 s: the error leaves the
\* SUBMITTING record behind and the lease is released.
SbatchRaises(c) ==
  /\ pc[c] \in {"submitting", "sent"}
  /\ Finish(c)
  /\ lease' = Free
  /\ UNCHANGED <<record, ghosts, slurmVars>>

\* The outcome of sbatch is stored and answered.
Conclude(c, s, job) ==
  /\ Save(c, Resolved(mem[c], s, job))
  /\ Reply(c)

SbatchAccepted(c) ==
  /\ pc[c] = "sent"
  /\ \E j \in JobsOf(mem[c].current) : Conclude(c, "ACCEPTED", j)
  /\ UNCHANGED <<upd, ghosts, slurmVars>>

\* Exit code 0 and no job id in the output.
SbatchUnparseable(c) ==
  /\ pc[c] = "sent"
  /\ JobsOf(mem[c].current) # {}
  /\ Conclude(c, "UNKNOWN", NoJob)
  /\ UNCHANGED <<upd, ghosts, slurmVars>>

\* A nonzero exit code is taken for a refusal.
SbatchRejected(c) ==
  /\ pc[c] = "sent"
  /\ mem[c].current \notin sent
  /\ JobsOf(mem[c].current) = {}
  /\ Conclude(c, "REJECTED", NoJob)
  /\ UNCHANGED <<upd, ghosts, slurmVars>>

\* It is also what a lost answer of the controller looks like, and then the
\* submission was taken or is about to be.
SbatchMisreports(c) ==
  /\ pc[c] = "sent"
  /\ \/ mem[c].current \in sent
     \/ JobsOf(mem[c].current) # {}
  /\ Conclude(c, "REJECTED", NoJob)
  /\ misled' = misled \union {mem[c].current}
  /\ UNCHANGED <<upd, issued, waived, crashes, slurmVars>>

\* The worker is killed: its memory is gone and its lease directory stays.
WorkerDies(c) ==
  /\ pc[c] \in {"ensure", "submitting", "sent"}
  /\ crashes < MaxCrashes
  /\ crashes' = crashes + 1
  /\ Finish(c)
  /\ lease' = IF lease = c THEN Dead ELSE lease
  /\ UNCHANGED <<record, issued, waived, misled, slurmVars>>

------------------------------------------------------------------------------
(* op_task_update: one read, one write, under the lease *)

Updated(r, u) ==
  [r EXCEPT !.state = u.state,
            !.attempts[r.current] = [@ EXCEPT !.state = u.state, !.sched = u.sched],
            !.receipt = IF u.receipt = NoReceipt THEN @ ELSE u.receipt]

\* What the record becomes when the client of attempt a asks for u.
AfterUpdate(r, u) ==
  IF UpdateIgnored(r.attempts[r.current].state, u.state) THEN r ELSE Updated(r, u)

\* A bug: an update reaches whatever attempt is current by now.
UpdateWithoutFence(c) ==
  /\ pc[c] = "update"
  /\ Available
  /\ record' = AfterUpdate(record, upd[c])
  /\ lease' = Free
  /\ Finish(c)
  /\ UNCHANGED <<ghosts, slurmVars>>

UpdateTask(c) ==
  /\ pc[c] = "update"
  /\ Available
  /\ record.current = mem[c].current
  /\ record' = AfterUpdate(record, upd[c])
  /\ lease' = Free
  /\ IF upd[c].state = "COMPLETED"
       THEN Goto(c, "outputs") /\ UNCHANGED <<mem, req, upd>>
       ELSE Finish(c)
  /\ UNCHANGED <<ghosts, slurmVars>>

\* "attempt is not the task's current attempt": the call ends in an error.
UpdateRefused(c) ==
  /\ pc[c] = "update"
  /\ Available
  /\ record.current # mem[c].current
  /\ lease' = Free
  /\ Finish(c)
  /\ UNCHANGED <<record, ghosts, slurmVars>>

\* The worker is killed after it took the lease and before it wrote.
UpdateDies(c) ==
  /\ pc[c] = "update"
  /\ Available
  /\ crashes < MaxCrashes
  /\ crashes' = crashes + 1
  /\ lease' = Dead
  /\ Finish(c)
  /\ UNCHANGED <<record, issued, waived, misled, slurmVars>>

WorkerStep(c) ==
  \/ AcquireForEnsure(c)
  \/ Prepare(c)
  \/ RecoverJob(c)
  \/ GiveUpOnMarker(c)
  \/ ReturnRecord(c)
  \/ \E a \in Attempts : BeginAttempt(c, a)
  \/ CallSbatch(c)
  \/ SbatchAccepted(c)
  \/ SbatchUnparseable(c)
  \/ SbatchRejected(c)
  \/ SbatchMisreports(c)
  \/ SbatchRaises(c)
  \/ UpdateTask(c)
  \/ UpdateRefused(c)
==============================================================================
