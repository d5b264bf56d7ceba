--------------------------- MODULE EnsureTaskProofs ---------------------------
(***************************************************************************)
(* Proofs about EnsureTask, for any number of clients, attempts and jobs:  *)
(* the inductive invariant IndInv, the safety properties it implies, and   *)
(* the refinement of SingleFlight.                                         *)
(***************************************************************************)
EXTENDS EnsureTask, TLAPS

USE SlurmAssumption, TaskStoreAssumption, EnsureTaskAssumption

------------------------------------------------------------------------------
(* The inductive invariant *)

Held       == {"ensure", "submitting", "sent"}
WithAnswer == {"submitting", "sent", "reply", "update", "outputs", "fingerprint"}
WithJob    == {"update", "outputs", "fingerprint"}

\* A call that got past the record's early returns speaks of an attempt, and
\* one that looked at a job of that job.
CallsHaveAttempts ==
  \A c \in Clients :
    /\ pc[c] \in WithAnswer => mem[c].current \in Attempts
    /\ pc[c] \in WithJob => Answered(c).job \in JobIds
    /\ pc[c] = "update" => upd[c].state \in TaskStates

WellFormed == TypeOK /\ CallsHaveAttempts

\* Whoever is inside the lease owns it, and has the file in memory.
LeaseIsHeld ==
  \A c \in Clients : pc[c] \in Held => lease = c /\ mem[c] = record

\* While a worker is about to call sbatch, or waits for it, nothing is known
\* of the attempt, and before the call the controller knows nothing of it.
SubmissionIsFresh ==
  \A c \in Clients :
    pc[c] \in {"submitting", "sent"} =>
      /\ record.state = "SUBMITTING"
      /\ record.attempts[record.current].job = NoJob
      /\ record.attempts[record.current].sched = "none"
      /\ pc[c] = "submitting" =>
           record.current \notin sent /\ JobsOf(record.current) = {}

\* A marker leads to one job at most, and to none while its request is open.
OneJobPerMarker ==
  /\ \A a \in sent, j \in JobIds : jobs[j].marker # a
  /\ \A j, k \in JobIds :
       jobs[j].marker = jobs[k].marker /\ jobs[j].marker # NoMarker => j = k

\* The controller only knows markers of attempts that were begun, and every
\* attempt begun is on record.
MarkersAreIssued ==
  /\ sent \subseteq issued
  /\ \A j \in JobIds : jobs[j].marker # NoMarker => jobs[j].marker \in issued
  /\ \A a \in issued : record.attempts[a].state # "ABSENT"
  /\ record.current \in issued \union {NoAttempt}
  /\ record.current = NoAttempt => record.state \in {"ABSENT", "PREPARED"}

\* What a copy of the record says of jobs and receipts is so.
Evidenced(r) ==
  /\ \A a \in Attempts :
       LET x == r.attempts[a]
       IN  /\ x.job # NoJob => jobs[x.job].marker = a
           /\ x.sched # "none" => x.job # NoJob /\ jobs[x.job].state = x.sched
  /\ r.receipt # NoReceipt =>
       /\ r.current \in Attempts
       /\ r.receipt.attempt = r.current
       /\ r.receipt.job = r.attempts[r.current].job
       /\ r.receipt.job # NoJob
       /\ jobs[r.receipt.job].state = "COMPLETED"
  /\ r.state = "VERIFIED" => r.receipt # NoReceipt

\* The record and every copy of it are evidenced, and no job id that a copy
\* has is missing from the record.
CopiesAreEvidenced ==
  /\ Evidenced(record)
  /\ \A c \in Clients :
       /\ Evidenced(mem[c])
       /\ \A a \in Attempts :
            mem[c].attempts[a].job # NoJob =>
              record.attempts[a].job = mem[c].attempts[a].job

\* So is what a client is about to report, however late it arrives.
ReportIsTrue(c) ==
  LET job == jobs[Answered(c).job]
  IN  /\ pc[c] \in {"outputs", "fingerprint"} => job.state = "COMPLETED"
      /\ pc[c] = "update" =>
           /\ upd[c].sched # "none" => job.state = upd[c].sched
           /\ upd[c].state = "COMPLETED" => job.state = "COMPLETED"
           /\ upd[c].state \in Retryable => job.state \in Ended
           /\ upd[c].state = "VERIFIED" => upd[c].receipt # NoReceipt
           /\ upd[c].receipt # NoReceipt =>
                /\ upd[c].receipt.attempt = mem[c].current
                /\ upd[c].receipt.job = Answered(c).job
                /\ job.state = "COMPLETED"

ReportsAreTrue == \A c \in Clients : ReportIsTrue(c)

IndInv ==
  /\ WellFormed
  /\ LeaseIsHeld
  /\ SubmissionIsFresh
  /\ OneJobPerMarker
  /\ MarkersAreIssued
  /\ CopiesAreEvidenced
  /\ ReportsAreTrue
  /\ RetryableIsSettled
  /\ NoSilentDuplicate

------------------------------------------------------------------------------
(* The record operators of TaskStore *)

\* A task without a record, and a client without a report.
LEMMA EmptyRecord ==
  /\ NoRecord \in Records
  /\ NoRecord.state = "ABSENT"
  /\ NoRecord.receipt = NoReceipt
  /\ \A a \in Attempts : NoRecord.attempts[a] = NoAttemptRecord
  /\ NoUpdate \in Updates
BY DEF NoRecord, Records, NoAttemptRecord, AttemptRecords, NoAttempt, Attempts,
       NoUpdate, Updates, Ended

\* What Resolved does to a record: the current attempt has state s and job.
LEMMA ResolvedFacts ==
  ASSUME NEW r \in Records, r.current \in Attempts,
         NEW s \in TaskStates, NEW job \in JobIds \union {NoJob}
  PROVE  LET q == Resolved(r, s, job)
         IN  /\ q \in Records
             /\ q.state = s
             /\ q.current = r.current
             /\ q.receipt = r.receipt
             /\ q.attempts[r.current].job = job
             /\ q.attempts[r.current].state = s
             /\ q.attempts[r.current].sched = r.attempts[r.current].sched
             /\ \A a \in Attempts \ {r.current} : q.attempts[a] = r.attempts[a]
<1>1. r.attempts[r.current] \in AttemptRecords
  BY DEF Records
<1> DEFINE x == [r.attempts[r.current] EXCEPT !.state = s, !.job = job]
<1>2. /\ x \in AttemptRecords
      /\ x.state = s
      /\ x.job = job
      /\ x.sched = r.attempts[r.current].sched
  BY <1>1 DEF AttemptRecords
<1> DEFINE q == Resolved(r, s, job)
<1>3. q = [r EXCEPT !.state = s, !.attempts[r.current] = x]
  BY DEF Resolved
<1> HIDE DEF x, q
<1>4. q \in Records
  BY <1>2, <1>3 DEF Records
<1>5. q.state = s /\ q.current = r.current /\ q.receipt = r.receipt
  BY <1>3 DEF Records
<1>6. /\ q.attempts[r.current] = x
      /\ \A a \in Attempts \ {r.current} : q.attempts[a] = r.attempts[a]
  BY <1>3 DEF Records
<1>7. QED
  BY <1>2, <1>4, <1>5, <1>6 DEF q

\* What Begun does to a record: a new current attempt, without job or receipt.
LEMMA BegunFacts ==
  ASSUME NEW r \in Records, NEW a \in Attempts
  PROVE  LET q == Begun(r, a)
         IN  /\ q \in Records
             /\ q.state = "SUBMITTING"
             /\ q.current = a
             /\ q.receipt = NoReceipt
             /\ q.attempts[a].job = NoJob
             /\ q.attempts[a].state = "SUBMITTING"
             /\ q.attempts[a].sched = "none"
             /\ \A b \in Attempts \ {a} : q.attempts[b] = r.attempts[b]
<1> DEFINE x == [NoAttemptRecord EXCEPT !.state = "SUBMITTING"]
           h == IF r.receipt = NoReceipt THEN r.history ELSE r.history \union {r.receipt}
<1>1. /\ x \in AttemptRecords
      /\ x.state = "SUBMITTING"
      /\ x.job = NoJob
      /\ x.sched = "none"
  BY DEF AttemptRecords, NoAttemptRecord, TaskStates, InProgress
<1>2. h \in SUBSET Receipts
  BY DEF Records
<1> DEFINE q == Begun(r, a)
<1>3. q = [r EXCEPT !.state = "SUBMITTING", !.current = a,
                    !.attempts[a] = x, !.receipt = NoReceipt, !.history = h]
  BY DEF Begun
<1> HIDE DEF x, h, q
<1>4. "SUBMITTING" \in TaskStates
  BY DEF TaskStates, InProgress
<1>5. q \in Records
  BY <1>1, <1>2, <1>3, <1>4 DEF Records
<1>6. q.state = "SUBMITTING" /\ q.current = a /\ q.receipt = NoReceipt
  BY <1>3 DEF Records
<1>7. q.attempts[a] = x /\ \A b \in Attempts \ {a} : q.attempts[b] = r.attempts[b]
  BY <1>3 DEF Records
<1>8. QED
  BY <1>1, <1>5, <1>6, <1>7 DEF q

\* What Updated does to a record: the report of its current attempt.
LEMMA UpdatedFacts ==
  ASSUME NEW r \in Records, r.current \in Attempts,
         NEW u \in Updates, u.state \in TaskStates
  PROVE  LET q == Updated(r, u)
         IN  /\ q \in Records
             /\ q.state = u.state
             /\ q.current = r.current
             /\ q.receipt = IF u.receipt = NoReceipt THEN r.receipt ELSE u.receipt
             /\ q.attempts[r.current].job = r.attempts[r.current].job
             /\ q.attempts[r.current].state = u.state
             /\ q.attempts[r.current].sched = u.sched
             /\ \A a \in Attempts \ {r.current} : q.attempts[a] = r.attempts[a]
<1>1. r.attempts[r.current] \in AttemptRecords
  BY DEF Records
<1> DEFINE x == [r.attempts[r.current] EXCEPT !.state = u.state, !.sched = u.sched]
           e == IF u.receipt = NoReceipt THEN r.receipt ELSE u.receipt
<1>2. /\ x \in AttemptRecords
      /\ x.state = u.state
      /\ x.sched = u.sched
      /\ x.job = r.attempts[r.current].job
  BY <1>1 DEF AttemptRecords, Updates
<1>3. e \in Receipts \union {NoReceipt}
  BY DEF Records, Updates
<1> DEFINE q == Updated(r, u)
<1>4. q = [r EXCEPT !.state = u.state, !.attempts[r.current] = x, !.receipt = e]
  BY DEF Updated
<1> HIDE DEF x, e, q
<1>5. q \in Records
  BY <1>2, <1>3, <1>4 DEF Records
<1>6. q.state = u.state /\ q.current = r.current /\ q.receipt = e
  BY <1>4 DEF Records
<1>7. /\ q.attempts[r.current] = x
      /\ \A a \in Attempts \ {r.current} : q.attempts[a] = r.attempts[a]
  BY <1>4 DEF Records
<1>8. QED
  BY <1>2, <1>5, <1>6, <1>7 DEF q, e

------------------------------------------------------------------------------
(* Steps of one call *)

OnlyCall(c) ==
  \A d \in Clients \ {c} :
    pc'[d] = pc[d] /\ mem'[d] = mem[d] /\ upd'[d] = upd[d]

\* A copy is the old one, the new record or none, and no job id is forgotten:
\* then all copies remain evidenced.
LEMMA CopiesStep ==
  ASSUME WellFormed, CopiesAreEvidenced, Evidenced(record)', UNCHANGED jobs,
         \A d \in Clients : mem'[d] \in {mem[d], record', NoRecord},
         \A a \in Attempts :
           record.attempts[a].job # NoJob =>
             record'.attempts[a].job = record.attempts[a].job
  PROVE  CopiesAreEvidenced'
<1>1. ASSUME NEW d \in Clients PROVE Evidenced(mem[d])'
  <2>1. CASE mem'[d] = mem[d]
    BY <2>1 DEF CopiesAreEvidenced, Evidenced
  <2>2. CASE mem'[d] = record'
    BY <2>2 DEF Evidenced
  <2>3. CASE mem'[d] = NoRecord
    BY <2>3, EmptyRecord DEF Evidenced, NoAttemptRecord
  <2>4. QED
    BY <2>1, <2>2, <2>3
<1>2. ASSUME NEW d \in Clients, NEW a \in Attempts, (mem[d].attempts[a].job # NoJob)'
      PROVE  (record.attempts[a].job = mem[d].attempts[a].job)'
  BY <1>2, EmptyRecord DEF CopiesAreEvidenced, NoAttemptRecord
<1>3. QED
  BY <1>1, <1>2 DEF CopiesAreEvidenced

\* Another call's claims are not touched by a step of c that leaves jobs alone.
LEMMA OwnReport ==
  ASSUME ReportsAreTrue, NEW c \in Clients, OnlyCall(c), UNCHANGED jobs, ReportIsTrue(c)'
  PROVE  ReportsAreTrue'
<1>1. ASSUME NEW d \in Clients \ {c} PROVE ReportIsTrue(d)'
  <2>1. ReportIsTrue(d) /\ pc'[d] = pc[d] /\ mem'[d] = mem[d] /\ upd'[d] = upd[d]
    BY DEF ReportsAreTrue, OnlyCall
  <2>2. QED
    BY <2>1 DEF ReportIsTrue, Answered
<1>2. QED
  BY <1>1 DEF ReportsAreTrue

\* Nor does a call claim anything once it holds no report.
LEMMA ReportsStep ==
  ASSUME ReportsAreTrue, NEW c \in Clients, OnlyCall(c), UNCHANGED jobs,
         pc'[c] \notin WithJob
  PROVE  ReportsAreTrue'
<1>1. ReportIsTrue(c)'
  BY DEF ReportIsTrue, WithJob
<1>2. QED
  BY <1>1, OwnReport

\* A step of c that leaves the record and the controller alone and ends outside
\* the lease, whether it ever was inside or not.
LEMMA LocalStep ==
  ASSUME IndInv, NEW c \in Clients, WellFormed', OnlyCall(c), ReportsAreTrue',
         UNCHANGED <<record, slurmVars, issued, waived, misled>>,
         mem'[c] \in {mem[c], NoRecord},
         pc'[c] \notin Held,
         lease' = lease \/ lease \in {c, Free, Dead}
  PROVE  IndInv'
<1> USE DEF IndInv, slurmVars
<1>1. LeaseIsHeld'
  BY DEF LeaseIsHeld, OnlyCall
<1>2. SubmissionIsFresh'
  BY DEF SubmissionIsFresh, OnlyCall, JobsOf, Held
<1>3. OneJobPerMarker' /\ MarkersAreIssued'
  BY DEF OneJobPerMarker, MarkersAreIssued
<1>4. Evidenced(record)'
  BY DEF CopiesAreEvidenced, Evidenced
<1>5. CopiesAreEvidenced'
  BY <1>4, CopiesStep DEF OnlyCall
<1>6. RetryableIsSettled' /\ NoSilentDuplicate'
  BY DEF RetryableIsSettled, NoSilentDuplicate, Outstanding, JobsOf
<1>7. QED
  BY <1>1, <1>2, <1>3, <1>5, <1>6

\* A worker stores what became of the current attempt.
LEMMA ResolveStep ==
  ASSUME IndInv, NEW c \in Clients, WellFormed', OnlyCall(c),
         pc[c] \in Held,
         record.current \in Attempts,
         record.attempts[record.current].job = NoJob,
         NEW s \in {"ACCEPTED", "UNKNOWN", "REJECTED"},
         NEW job \in JobsOf(record.current) \union {NoJob},
         record' = Resolved(record, s, job),
         mem'[c] = record',
         s = "REJECTED" => ~Outstanding(record.current) \/ record.current \in misled',
         misled \subseteq misled',
         UNCHANGED <<slurmVars, issued, waived>>,
         \/ pc'[c] = "ensure" /\ lease' = lease
         \/ pc'[c] = "reply"
  PROVE  IndInv'
<1> USE DEF IndInv, WellFormed, TypeOK, slurmVars
<1>1. s \in TaskStates /\ job \in JobIds \union {NoJob}
  BY DEF TaskStates, InProgress, Retryable, JobsOf
<1>2. /\ record'.state = s
      /\ record'.current = record.current
      /\ record'.receipt = record.receipt
      /\ record'.attempts[record.current].job = job
      /\ record'.attempts[record.current].state = s
      /\ record'.attempts[record.current].sched = record.attempts[record.current].sched
      /\ \A a \in Attempts \ {record.current} : record'.attempts[a] = record.attempts[a]
  BY <1>1, ResolvedFacts
<1>3. lease = c /\ mem[c] = record /\ \A d \in Clients \ {c} : pc'[d] \notin Held
  BY DEF LeaseIsHeld, OnlyCall
<1>4. /\ record.attempts[record.current].sched = "none"
      /\ record.receipt = NoReceipt
  BY DEF CopiesAreEvidenced, Evidenced
<1>5. LeaseIsHeld'
  BY <1>3 DEF LeaseIsHeld, Held
<1>6. SubmissionIsFresh'
  BY <1>3 DEF SubmissionIsFresh, Held
<1>7. OneJobPerMarker'
  BY DEF OneJobPerMarker
<1>8. MarkersAreIssued'
  BY <1>1, <1>2 DEF MarkersAreIssued, TaskStates, Retryable, InProgress, NoAttempt, Attempts
<1>9. Evidenced(record)'
  <2>1. ASSUME NEW a \in Attempts, a # record.current
        PROVE  /\ record'.attempts[a].job # NoJob => jobs[record'.attempts[a].job].marker = a
               /\ record'.attempts[a].sched # "none" =>
                    /\ record'.attempts[a].job # NoJob
                    /\ jobs[record'.attempts[a].job].state = record'.attempts[a].sched
    <3>1. record'.attempts[a] = record.attempts[a]
      BY <2>1, <1>2
    <3>2. Evidenced(record)
      BY DEF CopiesAreEvidenced
    <3>3. QED
      BY <3>1, <3>2 DEF Evidenced
  <2>2. job # NoJob => jobs[job].marker = record.current
    BY DEF JobsOf
  <2>3. ASSUME NEW a \in Attempts
        PROVE  /\ record'.attempts[a].job # NoJob => jobs'[record'.attempts[a].job].marker = a
               /\ record'.attempts[a].sched # "none" =>
                    /\ record'.attempts[a].job # NoJob
                    /\ jobs'[record'.attempts[a].job].state = record'.attempts[a].sched
    BY <1>2, <1>4, <2>1, <2>2
  <2>4. record'.receipt = NoReceipt /\ record'.state # "VERIFIED"
    BY <1>2, <1>4
  <2>5. QED
    BY <2>3, <2>4 DEF Evidenced
<1>10. CopiesAreEvidenced'
  BY <1>2, <1>9, CopiesStep DEF OnlyCall
<1>11. ReportsAreTrue'
  BY ReportsStep DEF WithJob
<1>12. RetryableIsSettled'
  BY <1>2 DEF RetryableIsSettled, Retryable, Outstanding, JobsOf
<1>13. NoSilentDuplicate'
  BY <1>2 DEF NoSilentDuplicate, Outstanding, JobsOf
<1>14. QED
  BY <1>5, <1>6, <1>7, <1>8, <1>10, <1>11, <1>12, <1>13

------------------------------------------------------------------------------
(* One lemma per action: it preserves the inductive invariant *)

World == UNCHANGED <<disk, edits>>

\* Begin: a caller sends its request.
LEMMA BeginKeeps ==
  ASSUME IndInv, NEW c \in Clients, NEW retry \in BOOLEAN, NEW unknown \in BOOLEAN,
         Begin(c, retry, unknown)
  PROVE  IndInv'
<1> USE DEF IndInv, Begin, Goto, ghosts, slurmVars
<1>1. WellFormed'
  BY DEF WellFormed, TypeOK, Phases, CallsHaveAttempts, WithAnswer, WithJob, Answered
<1>2. OnlyCall(c) /\ pc'[c] = "want"
  BY DEF OnlyCall, WellFormed, TypeOK
<1>3. ReportsAreTrue'
  BY <1>2, ReportsStep DEF WithJob
<1>4. QED
  BY <1>1, <1>2, <1>3, LocalStep DEF Held

\* A call that ends.
LEMMA FinishKeeps ==
  ASSUME IndInv, NEW c \in Clients, Finish(c),
         lease' # lease => lease' \in {Free, Dead} /\ lease \in {c, Free, Dead},
         crashes' \in 0..MaxCrashes,
         UNCHANGED <<record, issued, waived, misled, jobs, sent, disk, edits>>
  PROVE  IndInv'
<1> USE DEF IndInv, Finish, slurmVars
<1>1. WellFormed'
  BY EmptyRecord DEF WellFormed, TypeOK, Phases, CallsHaveAttempts, WithAnswer, WithJob,
                     Answered, NoFlags
<1>2. OnlyCall(c) /\ pc'[c] = "idle" /\ mem'[c] = NoRecord
  BY DEF OnlyCall, WellFormed, TypeOK
<1>3. ReportsAreTrue'
  BY <1>2, ReportsStep DEF WithJob
<1>4. QED
  BY <1>1, <1>2, <1>3, LocalStep DEF Held

\* The actions that do no more than end a call.
LEMMA EndingsKeep ==
  ASSUME IndInv, NEW c \in Clients,
         \/ ReportStored(c)
         \/ Abandon(c)
         \/ (SbatchRaises(c) \/ UpdateRefused(c)) /\ World
         \/ (EnsureRaises(c) \/ WorkerDies(c) \/ UpdateDies(c)) /\ World
  PROVE  IndInv'
<1> USE DEF World, ghosts, slurmVars, IndInv
<1>1. CASE ReportStored(c) \/ Abandon(c)
  <2>1. /\ Finish(c)
        /\ lease' = lease
        /\ crashes' = crashes
        /\ UNCHANGED <<record, issued, waived, misled, jobs, sent, disk, edits>>
    BY <1>1 DEF ReportStored, Abandon
  <2>2. crashes' \in 0..MaxCrashes
    BY <2>1 DEF IndInv, WellFormed, TypeOK
  <2>3. QED
    BY <2>1, <2>2, FinishKeeps
<1>2. CASE (SbatchRaises(c) \/ EnsureRaises(c)) /\ World
  <2>1. lease = c
    BY <1>2 DEF SbatchRaises, EnsureRaises, LeaseIsHeld, Held
  <2>2. QED
    BY <1>2, <2>1, FinishKeeps DEF SbatchRaises, EnsureRaises, WellFormed, TypeOK
<1>3. CASE WorkerDies(c) /\ World
  <2>1. lease = c
    BY <1>3 DEF WorkerDies, LeaseIsHeld, Held
  <2>2. crashes' \in 0..MaxCrashes
    BY <1>3 DEF WorkerDies, WellFormed, TypeOK
  <2>3. QED
    BY <1>3, <2>1, <2>2, FinishKeeps DEF WorkerDies
<1>4. CASE UpdateRefused(c) /\ World
  BY <1>4, FinishKeeps DEF UpdateRefused, Available, WellFormed, TypeOK
<1>5. CASE UpdateDies(c) /\ World
  <2>1. crashes' \in 0..MaxCrashes
    BY <1>5 DEF UpdateDies, WellFormed, TypeOK
  <2>2. QED
    BY <1>5, <2>1, FinishKeeps DEF UpdateDies, Available
<1>6. QED
  BY <1>1, <1>2, <1>3, <1>4, <1>5

\* A client that sends a report: it is true if the job it speaks of bears it out.
LEMMA RequestKeeps ==
  ASSUME IndInv, NEW c \in Clients,
         NEW state \in TaskStates, NEW sched \in Ended \union {"none"},
         NEW receipt \in Receipts \union {NoReceipt},
         Request(c, state, sched, receipt),
         mem[c].current \in Attempts,
         Answered(c).job \in JobIds,
         sched # "none" => jobs[Answered(c).job].state = sched,
         state = "COMPLETED" => jobs[Answered(c).job].state = "COMPLETED",
         state \in Retryable => jobs[Answered(c).job].state \in Ended,
         state = "VERIFIED" => receipt # NoReceipt,
         receipt # NoReceipt =>
           /\ receipt.attempt = mem[c].current
           /\ receipt.job = Answered(c).job
           /\ jobs[Answered(c).job].state = "COMPLETED",
         pc[c] \notin Held
  PROVE  IndInv'
<1> USE DEF IndInv, Request, Goto, ghosts, slurmVars
<1> DEFINE u == [state |-> state, sched |-> sched, receipt |-> receipt]
<1>1. u \in Updates /\ u.state = state /\ u.sched = sched /\ u.receipt = receipt
  BY DEF Updates
<1>2. upd' = [upd EXCEPT ![c] = u]
  OBVIOUS
<1> HIDE DEF u
<1>3. WellFormed'
  BY <1>1, <1>2 DEF WellFormed, TypeOK, Phases, CallsHaveAttempts, WithAnswer, WithJob, Answered
<1>4. OnlyCall(c) /\ pc'[c] = "update" /\ upd'[c] = u /\ mem' = mem
  BY <1>2 DEF OnlyCall, WellFormed, TypeOK
<1>5. ReportsAreTrue'
  <2>1. Answered(c)' = Answered(c)
    BY <1>4 DEF Answered
  <2>2. ASSUME NEW d \in Clients \ {c}
        PROVE  Answered(d)' = Answered(d) /\ pc'[d] = pc[d] /\ upd'[d] = upd[d] /\ mem'[d] = mem[d]
    BY <1>4 DEF Answered, OnlyCall
  <2>3. QED
    BY <1>1, <1>4, <2>1, <2>2 DEF ReportsAreTrue, ReportIsTrue
<1>6. QED
  BY <1>3, <1>4, <1>5, LocalStep DEF Held

\* The client's own steps: what it reports follows from what it saw.
LEMMA ClientKeeps ==
  ASSUME IndInv, NEW c \in Clients, ClientStep(c)
  PROVE  IndInv'
<1> USE DEF IndInv, WellFormed, TypeOK
<1>1. CASE ReportStored(c)
  BY <1>1, EndingsKeep
<1>2. /\ pc[c] = "reply" => mem[c].current \in Attempts
      /\ pc[c] \in WithJob => mem[c].current \in Attempts /\ Answered(c).job \in JobIds
      /\ pc[c] \in {"outputs", "fingerprint"} => jobs[Answered(c).job].state = "COMPLETED"
  BY DEF CallsHaveAttempts, WithAnswer, WithJob, ReportsAreTrue, ReportIsTrue
<1>3. mem[c].current \in Attempts =>
        /\ Answered(c) \in AttemptRecords
        /\ Answered(c).sched # "none" => jobs[Answered(c).job].state = Answered(c).sched
  BY DEF Answered, Records, CopiesAreEvidenced, Evidenced
<1>4. CASE UseStoredCompletion(c)
  <2>1. Answered(c).job \in JobIds /\ jobs[Answered(c).job].state = "COMPLETED"
    BY <1>2, <1>3, <1>4 DEF UseStoredCompletion, AttemptRecords
  <2>2. QED
    BY <1>2, <1>4, <2>1, RequestKeeps
    DEF UseStoredCompletion, Held, TaskStates, InProgress, Retryable, Ended
<1>5. CASE ObserveJob(c)
  <2>1. Answered(c).job \in JobIds
    BY <1>2, <1>3, <1>5 DEF ObserveJob, AttemptRecords
  <2> DEFINE now == jobs[Answered(c).job].state
  <2>2. PICK seen \in {now} \union (IF now \in Ended THEN {"RUNNING"} ELSE {}) :
          Request(c, seen, IF seen \in Ended THEN seen ELSE "none", NoReceipt)
    BY <1>5 DEF ObserveJob
  <2>3. now \in JobStates
    BY <2>1
  <2>4. seen \in TaskStates /\ (seen \in Ended => seen = now)
    BY <2>3 DEF JobStates, Queued, Ended, TaskStates, InProgress, Retryable
  <2> DEFINE sched == IF seen \in Ended THEN seen ELSE "none"
  <2>5. /\ sched \in Ended \union {"none"}
        /\ sched # "none" => now = sched
        /\ seen = "COMPLETED" => now = "COMPLETED"
        /\ seen \in Retryable => now \in Ended
        /\ seen # "VERIFIED"
    BY <2>2, <2>3, <2>4 DEF Ended, Retryable, JobStates, Queued
  <2>6. Request(c, seen, sched, NoReceipt) /\ pc[c] = "reply"
    BY <1>5, <2>2 DEF ObserveJob
  <2> HIDE DEF sched, now
  <2>7. QED
    BY <1>2, <2>1, <2>4, <2>5, <2>6, RequestKeeps DEF Held, now
<1>6. CASE LoseSight(c)
  <2>1. Answered(c).job \in JobIds
    BY <1>2, <1>3, <1>6 DEF LoseSight, AttemptRecords
  <2>2. PICK remembered \in {"none"} \union (Ended \intersect {jobs[Answered(c).job].state}) :
          Request(c, "UNKNOWN", remembered, NoReceipt)
    BY <1>6 DEF LoseSight
  <2>3. QED
    BY <1>2, <1>6, <2>1, <2>2, RequestKeeps DEF LoseSight, Held, TaskStates, Retryable
<1>7. CASE ValidateOutputs(c)
  <2>1. WellFormed'
    BY <1>2, <1>7 DEF ValidateOutputs, Goto, ghosts, slurmVars, Phases, CallsHaveAttempts,
                      WithAnswer, WithJob, Answered
  <2>2. OnlyCall(c) /\ pc'[c] = "fingerprint" /\ UNCHANGED <<mem, upd, jobs>>
    BY <1>7 DEF ValidateOutputs, Goto, OnlyCall, slurmVars
  <2>3. ReportsAreTrue'
    <3>1. ReportIsTrue(c) /\ pc[c] = "outputs"
      BY <1>2, <1>7 DEF ValidateOutputs, ReportsAreTrue
    <3>2. ReportIsTrue(c)'
      BY <2>2, <3>1 DEF ReportIsTrue, Answered
    <3>3. QED
      BY <1>2, <2>2, <3>2, OwnReport
  <2>4. QED
    BY <1>7, <2>1, <2>2, <2>3, LocalStep DEF ValidateOutputs, Held, ghosts
<1>8. CASE CondemnOutputs(c)
  BY <1>2, <1>8, RequestKeeps
  DEF CondemnOutputs, WithJob, Held, TaskStates, Retryable, Ended
<1>9. CASE FingerprintOutputs(c)
  <2> DEFINE fresh    == [attempt |-> mem[c].current, job |-> Answered(c).job, content |-> disk]
             evidence == IF mem[c].receipt = NoReceipt THEN fresh ELSE mem[c].receipt
  <2>1. /\ mem[c].current \in Attempts /\ Answered(c).job \in JobIds
        /\ jobs[Answered(c).job].state = "COMPLETED" /\ disk \in Contents
        /\ mem[c] \in Records
    BY <1>2, <1>9 DEF FingerprintOutputs, WithJob
  <2>2. evidence \in Receipts /\ evidence.attempt = mem[c].current /\ evidence.job = Answered(c).job
    BY <2>1 DEF Receipts, Records, CopiesAreEvidenced, Evidenced, Answered
  <2>3. \/ Request(c, "VERIFIED", "COMPLETED", evidence)
        \/ Request(c, "INVALID", "COMPLETED", NoReceipt)
    BY <1>9 DEF FingerprintOutputs
  <2> HIDE DEF evidence
  <2>4. CASE Request(c, "INVALID", "COMPLETED", NoReceipt)
    BY <1>9, <2>1, <2>4, RequestKeeps
    DEF FingerprintOutputs, Held, TaskStates, Retryable, Ended
  <2>5. CASE Request(c, "VERIFIED", "COMPLETED", evidence) /\ evidence # NoReceipt
    BY <1>9, <2>1, <2>2, <2>5, RequestKeeps
    DEF FingerprintOutputs, Held, TaskStates, Retryable, Ended
  <2>6. evidence # NoReceipt
    BY <2>2
  <2>7. QED
    BY <2>3, <2>4, <2>5, <2>6
<1>10. QED
  BY <1>1, <1>4, <1>5, <1>6, <1>7, <1>8, <1>9 DEF ClientStep

\* AcquireForEnsure: a worker takes the lease and reads the record.
LEMMA AcquireKeeps ==
  ASSUME IndInv, NEW c \in Clients, AcquireForEnsure(c), World
  PROVE  IndInv'
<1> USE DEF IndInv, AcquireForEnsure, Goto, ghosts, slurmVars, World
<1>1. WellFormed'
  BY DEF WellFormed, TypeOK, Phases, CallsHaveAttempts, WithAnswer, WithJob, Answered
<1>2. /\ OnlyCall(c) /\ pc'[c] = "ensure" /\ mem'[c] = record' /\ lease' = c
      /\ UNCHANGED <<record, jobs, sent>>
  BY DEF OnlyCall, WellFormed, TypeOK
<1>3. \A d \in Clients \ {c} : pc'[d] \notin Held
  BY <1>2 DEF LeaseIsHeld, OnlyCall, Available
<1>4. LeaseIsHeld' /\ SubmissionIsFresh'
  BY <1>2, <1>3 DEF LeaseIsHeld, SubmissionIsFresh, Held
<1>5. OneJobPerMarker' /\ MarkersAreIssued'
  BY DEF OneJobPerMarker, MarkersAreIssued
<1>6. Evidenced(record)'
  BY <1>2 DEF CopiesAreEvidenced, Evidenced
<1>7. CopiesAreEvidenced'
  BY <1>2, <1>6, CopiesStep DEF OnlyCall
<1>8. ReportsAreTrue'
  BY <1>2, ReportsStep DEF WithJob
<1>9. RetryableIsSettled' /\ NoSilentDuplicate'
  BY <1>2 DEF RetryableIsSettled, NoSilentDuplicate, Outstanding, JobsOf
<1>10. QED
  BY <1>1, <1>4, <1>5, <1>7, <1>8, <1>9

\* Prepare: the first write of a task.
LEMMA PrepareKeeps ==
  ASSUME IndInv, NEW c \in Clients, Prepare(c), World
  PROVE  IndInv'
<1> USE DEF IndInv, Prepare, Save, Goto, ghosts, slurmVars, World
<1> DEFINE r == [record EXCEPT !.state = "PREPARED"]
<1>1. /\ mem[c] = record /\ lease = c /\ record \in Records
      /\ record' = r /\ mem' = [mem EXCEPT ![c] = r]
  BY DEF LeaseIsHeld, Held, WellFormed, TypeOK
<1>2. /\ r \in Records /\ r.state = "PREPARED" /\ r.current = record.current
      /\ r.attempts = record.attempts /\ r.receipt = record.receipt
  BY <1>1 DEF Records, TaskStates
<1> HIDE DEF r
<1>3. WellFormed'
  BY <1>1, <1>2, SMTT(30) DEF WellFormed, TypeOK, CallsHaveAttempts, WithAnswer, WithJob, Answered
<1>4. OnlyCall(c) /\ pc' = pc /\ mem'[c] = record'
  BY <1>1 DEF OnlyCall, WellFormed, TypeOK
<1>5. \A d \in Clients \ {c} : pc[d] \notin Held
  BY <1>1 DEF LeaseIsHeld
<1>6. LeaseIsHeld' /\ SubmissionIsFresh'
  BY <1>1, <1>4, <1>5 DEF LeaseIsHeld, SubmissionIsFresh, Held
<1>7. OneJobPerMarker' /\ MarkersAreIssued'
  BY <1>1, <1>2 DEF OneJobPerMarker, MarkersAreIssued
<1>8. Evidenced(record)'
  BY <1>1, <1>2 DEF CopiesAreEvidenced, Evidenced
<1>9. CopiesAreEvidenced'
  BY <1>1, <1>2, <1>4, <1>8, CopiesStep DEF OnlyCall
<1>10. ReportsAreTrue'
  BY <1>4, ReportsStep DEF WithJob
<1>11. RetryableIsSettled' /\ NoSilentDuplicate'
  BY <1>1, <1>2 DEF RetryableIsSettled, NoSilentDuplicate, Outstanding, JobsOf, Retryable
<1>12. QED
  BY <1>3, <1>6, <1>7, <1>9, <1>10, <1>11

\* RecoverJob and GiveUpOnMarker: reconciliation of an interrupted submission.
LEMMA ReconcileKeeps ==
  ASSUME IndInv, NEW c \in Clients, RecoverJob(c) \/ GiveUpOnMarker(c), World
  PROVE  IndInv'
<1> USE DEF IndInv, ghosts, slurmVars, World
<1>1. /\ pc[c] = "ensure" /\ mem[c] = record /\ record \in Records
      /\ record.current \in Attempts
      /\ record.attempts[record.current].job = NoJob
      /\ UNCHANGED <<lease, pc, req, upd, issued, waived, misled, crashes, jobs, sent, disk, edits>>
  BY DEF RecoverJob, GiveUpOnMarker, NeedsReconcile, LeaseIsHeld, Held, WellFormed, TypeOK,
         Records, NoAttempt, Attempts
<1>2. PICK s \in {"ACCEPTED", "UNKNOWN"}, job \in JobsOf(record.current) \union {NoJob} :
        Save(c, Resolved(record, s, job))
  BY <1>1 DEF RecoverJob, GiveUpOnMarker
<1>3. Resolved(record, s, job) \in Records /\ s \in TaskStates
  BY <1>1, <1>2, ResolvedFacts DEF TaskStates, InProgress, JobsOf
<1>4. WellFormed'
  BY <1>1, <1>2, <1>3 DEF WellFormed, TypeOK, Save, CallsHaveAttempts, WithAnswer, WithJob, Answered
<1>5. OnlyCall(c) /\ record' = Resolved(record, s, job) /\ mem'[c] = record'
  BY <1>1, <1>2 DEF OnlyCall, WellFormed, TypeOK, Save
<1>6. QED
  BY <1>1, <1>2, <1>4, <1>5, ResolveStep DEF Held

\* The four outcomes of sbatch that are stored.
LEMMA ConcludeKeeps ==
  ASSUME IndInv, NEW c \in Clients, World,
         \/ SbatchAccepted(c)
         \/ SbatchUnparseable(c)
         \/ SbatchRejected(c)
         \/ SbatchMisreports(c)
  PROVE  IndInv'
<1> USE DEF IndInv, ghosts, slurmVars, World
<1>1. /\ pc[c] = "sent" /\ mem[c] = record /\ record \in Records
      /\ record.current \in Attempts
      /\ record.attempts[record.current].job = NoJob
      /\ UNCHANGED <<upd, issued, waived, crashes, jobs, sent, disk, edits>>
      /\ misled' \in SUBSET Attempts /\ misled \subseteq misled'
  BY DEF SbatchAccepted, SbatchUnparseable, SbatchRejected, SbatchMisreports, LeaseIsHeld,
         Held, WellFormed, TypeOK, CallsHaveAttempts, WithAnswer, SubmissionIsFresh
<1>2. PICK s \in {"ACCEPTED", "UNKNOWN", "REJECTED"}, job \in JobsOf(record.current) \union {NoJob} :
        /\ Conclude(c, s, job)
        /\ s = "REJECTED" => ~Outstanding(record.current) \/ record.current \in misled'
  BY <1>1 DEF SbatchAccepted, SbatchUnparseable, SbatchRejected, SbatchMisreports, Outstanding
<1>3. Resolved(record, s, job) \in Records /\ Resolved(record, s, job).current = record.current
  BY <1>1, <1>2, ResolvedFacts DEF TaskStates, InProgress, Retryable, JobsOf
<1>4. /\ record' = Resolved(record, s, job)
      /\ mem' = [mem EXCEPT ![c] = Resolved(record, s, job)]
      /\ pc' = [pc EXCEPT ![c] = "reply"]
      /\ req' = [req EXCEPT ![c] = NoFlags]
      /\ lease' = Free
  BY <1>1, <1>2 DEF Conclude, Save, Reply, Goto
<1>5. WellFormed'
  BY <1>1, <1>3, <1>4 DEF WellFormed, TypeOK, Phases, NoFlags, CallsHaveAttempts, WithAnswer,
                          WithJob, Answered
<1>6. OnlyCall(c) /\ mem'[c] = record' /\ pc'[c] = "reply"
  BY <1>1, <1>4 DEF OnlyCall, WellFormed, TypeOK
<1>7. QED
  BY <1>1, <1>2, <1>4, <1>5, <1>6, ResolveStep DEF Held

\* ReturnRecord: the attempt on record is the answer.
LEMMA ReturnKeeps ==
  ASSUME IndInv, NEW c \in Clients, ReturnRecord(c), World
  PROVE  IndInv'
<1> USE DEF IndInv, ReturnRecord, Reply, Goto, ghosts, slurmVars, World
<1>1. lease = c /\ mem[c] = record
  BY DEF LeaseIsHeld, Held
<1>2. WellFormed'
  BY DEF WellFormed, TypeOK, Phases, NoFlags, CallsHaveAttempts, WithAnswer, WithJob, Answered,
         Answers, Records, NoAttempt, Attempts
<1>3. OnlyCall(c) /\ pc'[c] = "reply" /\ mem' = mem
  BY DEF OnlyCall, WellFormed, TypeOK
<1>4. ReportsAreTrue'
  BY <1>3, ReportsStep DEF WithJob
<1>5. QED
  BY <1>1, <1>2, <1>3, <1>4, LocalStep DEF Held

\* BeginAttempt: the old attempt is settled or excused, the new one recorded.
LEMMA BeginAttemptKeeps ==
  ASSUME IndInv, NEW c \in Clients, NEW a \in Attempts, BeginAttempt(c, a), World
  PROVE  IndInv'
<1> USE DEF IndInv, BeginAttempt, MayBegin, Save, Goto, ghosts, slurmVars, World
<1> DEFINE r == Begun(record, a)
<1>1. /\ mem[c] = record /\ lease = c /\ record \in Records
      /\ record' = r /\ mem' = [mem EXCEPT ![c] = r]
  BY DEF LeaseIsHeld, Held, WellFormed, TypeOK
<1>2. /\ r \in Records /\ r.state = "SUBMITTING" /\ r.current = a /\ r.receipt = NoReceipt
      /\ r.attempts[a].job = NoJob /\ r.attempts[a].state = "SUBMITTING"
      /\ r.attempts[a].sched = "none"
      /\ \A b \in Attempts \ {a} : r.attempts[b] = record.attempts[b]
  BY <1>1, BegunFacts
<1> HIDE DEF r
<1>3. a \notin issued /\ a \notin sent /\ JobsOf(a) = {}
  BY DEF MarkersAreIssued, JobsOf, Attempts
<1>4. waived' \in SUBSET Attempts /\ waived \subseteq waived'
  BY <1>1 DEF WellFormed, TypeOK, Records, MarkersAreIssued
<1>5. WellFormed'
  BY <1>1, <1>2, <1>4 DEF WellFormed, TypeOK, Phases, NoFlags, CallsHaveAttempts, WithAnswer,
                          WithJob, Answered
<1>6. OnlyCall(c) /\ pc'[c] = "submitting" /\ mem'[c] = record'
  BY <1>1 DEF OnlyCall, WellFormed, TypeOK
<1>7. \A d \in Clients \ {c} : pc'[d] \notin Held
  BY <1>1, <1>6 DEF LeaseIsHeld, OnlyCall
<1>8. LeaseIsHeld'
  BY <1>1, <1>6, <1>7 DEF LeaseIsHeld
<1>9. SubmissionIsFresh'
  BY <1>1, <1>2, <1>3, <1>7 DEF SubmissionIsFresh, Held, JobsOf
<1>10. OneJobPerMarker'
  BY DEF OneJobPerMarker
<1>11. MarkersAreIssued'
  BY <1>1, <1>2 DEF MarkersAreIssued, WellFormed, TypeOK, NoAttempt, Attempts
<1>12. CopiesAreEvidenced'
  <2>1. record.attempts[a].job = NoJob
    BY <1>1, <1>3 DEF CopiesAreEvidenced, Evidenced, JobsOf, Records, AttemptRecords
  <2>2. Evidenced(record)'
    BY <1>1, <1>2 DEF CopiesAreEvidenced, Evidenced
  <2>3. QED
    BY <1>1, <1>2, <1>6, <2>1, <2>2, CopiesStep DEF OnlyCall
<1>13. ReportsAreTrue'
  BY <1>6, ReportsStep DEF WithJob
<1>14. RetryableIsSettled'
  BY <1>1, <1>2 DEF RetryableIsSettled, Retryable
<1>15. NoSilentDuplicate'
  <2>1. record.current \in Attempts => ~Outstanding(record.current)
                                       \/ record.current \in waived' \union misled
    BY <1>1 DEF RetryableIsSettled, Answers, NoAttempt, Attempts
  <2>2. QED
    BY <1>1, <1>2, <1>4, <2>1 DEF NoSilentDuplicate, Outstanding, JobsOf
<1>16. QED
  BY <1>5, <1>8, <1>9, <1>10, <1>11, <1>12, <1>13, <1>14, <1>15

\* CallSbatch: the recorded attempt, and no other, reaches the controller.
LEMMA CallSbatchKeeps ==
  ASSUME IndInv, NEW c \in Clients, CallSbatch(c), World
  PROVE  IndInv'
<1> USE DEF IndInv, CallSbatch, SendBatch, Goto, ghosts, World
<1>1. /\ mem[c] = record /\ lease = c /\ record.state = "SUBMITTING"
      /\ record.current \in Attempts
      /\ record.current \in issued
      /\ \A j \in JobIds : jobs[j].marker # record.current
      /\ sent' = sent \union {record.current}
  BY DEF LeaseIsHeld, Held, SubmissionIsFresh, CallsHaveAttempts, WithAnswer, WellFormed,
         MarkersAreIssued, JobsOf, NoAttempt, Attempts
<1>2. WellFormed'
  BY <1>1 DEF WellFormed, TypeOK, Phases, CallsHaveAttempts, WithAnswer, WithJob, Answered, Attempts
<1>3. OnlyCall(c) /\ pc'[c] = "sent" /\ mem' = mem
  BY DEF OnlyCall, WellFormed, TypeOK
<1>4. \A d \in Clients \ {c} : pc'[d] \notin Held
  BY <1>1, <1>3 DEF LeaseIsHeld, OnlyCall
<1>5. LeaseIsHeld' /\ SubmissionIsFresh'
  BY <1>1, <1>3, <1>4 DEF LeaseIsHeld, SubmissionIsFresh, Held
<1>6. OneJobPerMarker' /\ MarkersAreIssued'
  BY <1>1 DEF OneJobPerMarker, MarkersAreIssued
<1>7. Evidenced(record)'
  BY DEF CopiesAreEvidenced, Evidenced
<1>8. CopiesAreEvidenced'
  BY <1>3, <1>7, CopiesStep
<1>9. ReportsAreTrue'
  BY <1>3, ReportsStep DEF WithJob
<1>10. RetryableIsSettled' /\ NoSilentDuplicate'
  BY <1>1 DEF RetryableIsSettled, NoSilentDuplicate, Outstanding, JobsOf, Retryable
<1>11. QED
  BY <1>2, <1>5, <1>6, <1>8, <1>9, <1>10

\* UpdateTask: the report of a client reaches the record of its attempt.
LEMMA UpdateKeeps ==
  ASSUME IndInv, NEW c \in Clients, UpdateTask(c), World
  PROVE  IndInv'
<1> USE DEF IndInv, UpdateTask, ghosts, slurmVars, World
<1> DEFINE job == Answered(c).job
           u   == upd[c]
           r   == Updated(record, u)
<1>1. /\ record \in Records /\ u \in Updates /\ u.state \in TaskStates
      /\ record.current \in Attempts /\ record.current = mem[c].current
      /\ job \in JobIds /\ record.attempts[record.current].job = job
  BY DEF WellFormed, TypeOK, CallsHaveAttempts, WithAnswer, WithJob, CopiesAreEvidenced, Answered
<1>2. /\ r \in Records /\ r.state = u.state /\ r.current = record.current
      /\ r.receipt = IF u.receipt = NoReceipt THEN record.receipt ELSE u.receipt
      /\ r.attempts[r.current].job = job
      /\ r.attempts[r.current].state = u.state
      /\ r.attempts[r.current].sched = u.sched
      /\ \A a \in Attempts \ {r.current} : r.attempts[a] = record.attempts[a]
  BY <1>1, UpdatedFacts
<1>3. /\ u.sched # "none" => jobs[job].state = u.sched
      /\ u.state = "COMPLETED" => jobs[job].state = "COMPLETED"
      /\ u.state \in Retryable => jobs[job].state \in Ended
      /\ u.state = "VERIFIED" => u.receipt # NoReceipt
      /\ u.receipt # NoReceipt => /\ u.receipt.attempt = record.current
                                 /\ u.receipt.job = job
                                 /\ jobs[job].state = "COMPLETED"
  BY <1>1 DEF ReportsAreTrue, ReportIsTrue
<1>4. jobs[job].marker = record.current
  BY <1>1 DEF CopiesAreEvidenced, Evidenced
<1>5. record' = record \/ record' = r
  BY DEF AfterUpdate
<1> HIDE DEF r
<1>6. /\ UNCHANGED <<jobs, sent, issued, waived, misled, crashes, disk, edits>>
      /\ lease' = Free
      /\ OnlyCall(c) /\ upd'[c] \in {upd[c], NoUpdate} /\ mem'[c] \in {mem[c], NoRecord}
      /\ \/ pc'[c] = "outputs" /\ u.state = "COMPLETED" /\ UNCHANGED <<mem, req, upd>>
         \/ Finish(c)
  BY DEF Goto, Finish, OnlyCall, WellFormed, TypeOK
<1>7. WellFormed'
  <2>1. record' \in Records
    BY <1>1, <1>2, <1>5
  <2>2. CASE Finish(c)
    BY <1>6, <2>1, <2>2, EmptyRecord
    DEF WellFormed, TypeOK, Finish, Phases, NoFlags, CallsHaveAttempts, WithAnswer, WithJob, Answered
  <2>3. CASE Goto(c, "outputs") /\ UNCHANGED <<mem, req, upd>>
    BY <1>6, <2>1, <2>3
    DEF WellFormed, TypeOK, Goto, Phases, CallsHaveAttempts, WithAnswer, WithJob, Answered
  <2>4. QED
    BY <2>2, <2>3
<1>8. \A d \in Clients : pc'[d] \notin Held
  BY <1>6 DEF LeaseIsHeld, Available, OnlyCall, Finish, Held, WellFormed, TypeOK
<1>9. LeaseIsHeld' /\ SubmissionIsFresh'
  BY <1>8 DEF LeaseIsHeld, SubmissionIsFresh, Held
<1>10. OneJobPerMarker'
  BY <1>6 DEF OneJobPerMarker
<1>11. MarkersAreIssued'
  BY <1>1, <1>2, <1>5, <1>6 DEF MarkersAreIssued, TaskStates, Retryable, InProgress, WellFormed, TypeOK,
                                    NoAttempt, Attempts
<1>12. CopiesAreEvidenced'
  <2>1. CASE record' = record
    <3>1. Evidenced(record)'
      BY <1>6, <2>1 DEF CopiesAreEvidenced, Evidenced
    <3>2. QED
      BY <1>6, <2>1, <3>1, CopiesStep DEF OnlyCall
  <2>2. CASE record' = r
    <3>1. ASSUME NEW a \in Attempts
          PROVE  /\ r.attempts[a].job = record.attempts[a].job
                 /\ r.attempts[a].job # NoJob => jobs[r.attempts[a].job].marker = a
                 /\ r.attempts[a].sched # "none" =>
                      /\ r.attempts[a].job # NoJob
                      /\ jobs[r.attempts[a].job].state = r.attempts[a].sched
      <4>1. CASE a = record.current
        BY <1>1, <1>2, <1>3, <1>4, <4>1
      <4>2. CASE a # record.current
        <5>1. r.attempts[a] = record.attempts[a]
          BY <1>2, <4>2
        <5>2. Evidenced(record)
          BY DEF CopiesAreEvidenced
        <5>3. QED
          BY <5>1, <5>2 DEF Evidenced
      <4>3. QED
        BY <4>1, <4>2
    <3>2. /\ r.receipt # NoReceipt =>
               /\ r.receipt.attempt = r.current
               /\ r.receipt.job = job
               /\ jobs[job].state = "COMPLETED"
          /\ r.state = "VERIFIED" => r.receipt # NoReceipt
      BY <1>1, <1>2, <1>3 DEF CopiesAreEvidenced, Evidenced
    <3>3. Evidenced(record)'
      BY <1>1, <1>2, <1>6, <2>2, <3>1, <3>2 DEF Evidenced
    <3>4. QED
      BY <1>6, <2>2, <3>1, <3>3, CopiesStep DEF OnlyCall
  <2>3. QED
    BY <1>5, <2>1, <2>2
<1>13. ReportsAreTrue'
  <2>1. CASE Finish(c)
    BY <1>6, <2>1, ReportsStep DEF Finish, WithJob, WellFormed, TypeOK
  <2>2. CASE pc'[c] = "outputs" /\ u.state = "COMPLETED" /\ UNCHANGED <<mem, req, upd>>
    <3>1. pc'[c] = "outputs" /\ (jobs[Answered(c).job].state = "COMPLETED")'
      BY <1>3, <1>6, <2>2 DEF Answered
    <3>2. ReportIsTrue(c)'
      BY <3>1 DEF ReportIsTrue
    <3>3. QED
      BY <1>6, <3>2, OwnReport
  <2>3. QED
    BY <1>6, <2>1, <2>2
<1>14. ~Outstanding(record.current) \/ jobs[job].state \notin Ended
  BY <1>1, <1>4 DEF Outstanding, JobsOf, OneJobPerMarker, Ended, Queued, Attempts
<1>15. RetryableIsSettled' /\ NoSilentDuplicate'
  BY <1>2, <1>3, <1>5, <1>6, <1>14 DEF RetryableIsSettled, NoSilentDuplicate, Outstanding, JobsOf
<1>16. QED
  BY <1>7, <1>9, <1>10, <1>11, <1>12, <1>13, <1>15

\* The controller accepts, refuses, starts and ends; the outputs are edited.
\* What the calls know of ended jobs stays true.
LEMMA WorldKeeps ==
  ASSUME IndInv, UNCHANGED taskVars, WellFormed',
         jobs \in [JobIds -> [marker : Markers \union {NoMarker}, state : JobStates]],
         sent' \subseteq sent,
         OneJobPerMarker',
         \A j \in JobIds :
           jobs'[j] # jobs[j] =>
             /\ jobs[j].marker # NoMarker => jobs'[j].marker = jobs[j].marker
             /\ jobs[j].marker # NoMarker => jobs[j].state \in Queued
             /\ jobs[j].marker = NoMarker => jobs'[j].marker \in sent \ sent'
  PROVE  IndInv'
<1> USE DEF IndInv, taskVars, ghosts
<1>1. /\ LeaseIsHeld'
      /\ \A j \in JobIds : jobs[j].marker # NoMarker => jobs'[j].marker = jobs[j].marker
      /\ \A j \in JobIds : jobs[j].marker # NoMarker /\ jobs[j].state \in Ended => jobs'[j] = jobs[j]
  BY DEF LeaseIsHeld, Queued, Ended
<1>2. \A a \in Attempts : Outstanding(a)' => Outstanding(a)
  BY DEF Outstanding, JobsOf
<1>3. SubmissionIsFresh'
  <2>1. \A a \in Attempts : a \notin sent /\ JobsOf(a) = {} => a \notin sent' /\ JobsOf(a)' = {}
    BY DEF JobsOf
  <2>2. QED
    BY <2>1 DEF SubmissionIsFresh, CallsHaveAttempts, WellFormed, WithAnswer, LeaseIsHeld, Held
<1>4. MarkersAreIssued'
  BY <1>1 DEF MarkersAreIssued
<1>5. \A j \in JobIds, a \in Attempts :
        jobs[j].marker = a =>
          /\ jobs'[j].marker = a
          /\ \A s \in Ended : jobs[j].state = s => jobs'[j].state = s
  BY <1>1 DEF Attempts
<1>6. CopiesAreEvidenced'
  <2>1. ASSUME NEW r \in Records, Evidenced(r)
        PROVE  /\ \A a \in Attempts :
                    LET x == r.attempts[a]
                    IN  /\ x.job # NoJob => jobs'[x.job].marker = a
                        /\ x.sched # "none" => x.job # NoJob /\ jobs'[x.job].state = x.sched
               /\ r.receipt # NoReceipt =>
                    /\ r.current \in Attempts
                    /\ r.receipt.attempt = r.current
                    /\ r.receipt.job = r.attempts[r.current].job
                    /\ r.receipt.job # NoJob
                    /\ jobs'[r.receipt.job].state = "COMPLETED"
               /\ r.state = "VERIFIED" => r.receipt # NoReceipt
    <3>1. \A a \in Attempts : r.attempts[a] \in AttemptRecords
      BY DEF Records
    <3>2. ASSUME NEW a \in Attempts
          PROVE  LET x == r.attempts[a]
                 IN  /\ x.job # NoJob => jobs'[x.job].marker = a
                     /\ x.sched # "none" => x.job # NoJob /\ jobs'[x.job].state = x.sched
      <4> DEFINE x == r.attempts[a]
      <4>1. x.job \in JobIds \union {NoJob} /\ x.sched \in Ended \union {"none"}
        BY <3>1 DEF AttemptRecords
      <4>2. /\ x.job # NoJob => jobs[x.job].marker = a
            /\ x.sched # "none" => x.job # NoJob /\ jobs[x.job].state = x.sched
        BY <2>1 DEF Evidenced
      <4> HIDE DEF x
      <4>3. /\ x.job # NoJob => jobs'[x.job].marker = a
            /\ x.sched # "none" => x.job # NoJob /\ jobs'[x.job].state = x.sched
        BY <1>5, <4>1, <4>2
      <4>4. QED
        BY <4>3 DEF x
    <3>3. r.receipt # NoReceipt =>
            /\ r.attempts[r.current].job \in JobIds
            /\ jobs[r.attempts[r.current].job].marker = r.current
      BY <2>1, <3>1 DEF Evidenced, AttemptRecords
    <3>4. QED
      BY <1>5, <2>1, <3>2, <3>3 DEF Evidenced, Ended
  <2>2. Evidenced(record)'
    BY <2>1 DEF CopiesAreEvidenced, Evidenced, WellFormed, TypeOK
  <2>3. ASSUME NEW d \in Clients PROVE Evidenced(mem[d])'
    BY <2>1 DEF CopiesAreEvidenced, Evidenced, WellFormed, TypeOK
  <2>4. QED
    BY <2>2, <2>3 DEF CopiesAreEvidenced
<1>7. ReportsAreTrue'
  <2>1. ASSUME NEW c \in Clients, pc[c] \in WithJob
        PROVE  /\ Answered(c) = Answered(c)'
               /\ \A s \in Ended : jobs[Answered(c).job].state = s => jobs'[Answered(c).job].state = s
    <3>1. Answered(c).job \in JobIds /\ Answered(c).job # NoJob /\ mem[c].current \in Attempts
      BY <2>1 DEF WellFormed, CallsHaveAttempts, WithJob, WithAnswer
    <3>2. jobs[Answered(c).job].marker = mem[c].current
      BY <3>1 DEF CopiesAreEvidenced, Evidenced, Answered
    <3>3. QED
      BY <1>5, <3>1, <3>2 DEF Answered
  <2>2. QED
    BY <2>1 DEF ReportsAreTrue, ReportIsTrue, WithJob, Ended, WellFormed, TypeOK, Updates
<1>8. RetryableIsSettled' /\ NoSilentDuplicate'
  <2>1. record.state \in Retryable => record.current \in Attempts
    BY DEF MarkersAreIssued, WellFormed, TypeOK, Retryable
  <2>2. QED
    BY <1>2, <2>1 DEF RetryableIsSettled, NoSilentDuplicate
<1>9. QED
  BY <1>1, <1>3, <1>4, <1>6, <1>7, <1>8

\* The controller's steps and edits of the outputs.
LEMMA ControllerKeeps ==
  ASSUME IndInv, ControllerStep \/ EditOutputs
  PROVE  IndInv'
<1> USE DEF IndInv
<1>1. CASE EditOutputs
  <2>1. WellFormed'
    BY <1>1 DEF EditOutputs, WellFormed, TypeOK, taskVars, ghosts, slurmVars, CallsHaveAttempts,
                Answered
  <2>2. OneJobPerMarker' /\ jobs' = jobs /\ sent' = sent /\ UNCHANGED taskVars
    BY <1>1 DEF EditOutputs, OneJobPerMarker, slurmVars
  <2>3. QED
    BY <2>1, <2>2, WorldKeeps DEF WellFormed, TypeOK
<1>2. ASSUME NEW m \in Markers, NEW j \in JobIds, Accept(m, j), UNCHANGED <<taskVars, disk, edits>>
      PROVE  IndInv'
  <2>1. WellFormed'
    BY <1>2 DEF Accept, WellFormed, TypeOK, taskVars, ghosts, CallsHaveAttempts, Answered,
                JobStates, Queued
  <2>2. OneJobPerMarker'
    BY <1>2 DEF Accept, OneJobPerMarker, WellFormed, TypeOK
  <2>3. \A k \in JobIds : k # j => jobs'[k] = jobs[k]
    BY <1>2 DEF Accept
  <2>4. jobs'[j].marker = m /\ m \in sent \ sent' /\ jobs[j].marker = NoMarker
    BY <1>2 DEF Accept, WellFormed, TypeOK
  <2>5. sent' \subseteq sent /\ UNCHANGED taskVars
    BY <1>2 DEF Accept
  <2>6. QED
    BY <2>1, <2>2, <2>3, <2>4, <2>5, WorldKeeps DEF WellFormed, TypeOK
<1>3. ASSUME NEW m \in Markers, Refuse(m), UNCHANGED <<taskVars, disk, edits>>
      PROVE  IndInv'
  <2>1. WellFormed'
    BY <1>3 DEF Refuse, WellFormed, TypeOK, taskVars, ghosts, CallsHaveAttempts, Answered
  <2>2. OneJobPerMarker' /\ jobs' = jobs /\ sent' \subseteq sent /\ UNCHANGED taskVars
    BY <1>3 DEF Refuse, OneJobPerMarker
  <2>3. QED
    BY <2>1, <2>2, WorldKeeps DEF WellFormed, TypeOK
<1>4. ASSUME NEW j \in JobIds, NEW s \in Ended \union {"RUNNING"},
             jobs[j].marker # NoMarker, jobs[j].state \in Queued,
             jobs' = [jobs EXCEPT ![j].state = s],
             disk' \in Contents \union {NoContent},
             UNCHANGED <<taskVars, sent, edits>>
      PROVE  IndInv'
  <2>1. WellFormed'
    BY <1>4 DEF WellFormed, TypeOK, taskVars, ghosts, CallsHaveAttempts, Answered, JobStates,
                Queued, Ended
  <2>2. /\ \A k \in JobIds : k # j => jobs'[k] = jobs[k]
        /\ jobs'[j].marker = jobs[j].marker
    BY <1>4 DEF WellFormed, TypeOK
  <2>3. OneJobPerMarker'
    BY <1>4, <2>2 DEF OneJobPerMarker
  <2>4. QED
    BY <1>4, <2>1, <2>2, <2>3, WorldKeeps DEF WellFormed, TypeOK
<1>5. ASSUME NEW j \in JobIds, StartJob(j), UNCHANGED <<taskVars, disk, edits>>
      PROVE  IndInv'
  BY <1>4, <1>5 DEF StartJob, Queued, WellFormed, TypeOK
<1>6. ASSUME NEW j \in JobIds, NEW s \in Ended, Finished(j, s)
      PROVE  IndInv'
  <2>1. disk' \in Contents \union {NoContent}
    BY <1>6 DEF Finished, WellFormed, TypeOK
  <2>2. QED
    BY <1>4, <1>6, <2>1 DEF Finished, EndJob
<1>7. QED
  BY <1>1, <1>2, <1>3, <1>5, <1>6 DEF ControllerStep

------------------------------------------------------------------------------
(* The theorems *)

\* A store without a record satisfies the invariant.
THEOREM InitInv == Init => IndInv
<1> SUFFICES ASSUME Init PROVE IndInv
  OBVIOUS
<1> USE DEF Init, TaskInit, SlurmInit, IndInv
<1>1. WellFormed
  BY EmptyRecord DEF WellFormed, TypeOK, CallsHaveAttempts, WithAnswer, WithJob, Phases, NoFlags,
                     NoJobRecord, JobStates, Queued
<1>2. LeaseIsHeld /\ SubmissionIsFresh /\ ReportsAreTrue
  BY DEF LeaseIsHeld, SubmissionIsFresh, ReportsAreTrue, ReportIsTrue, Held
<1>3. OneJobPerMarker /\ MarkersAreIssued
  BY DEF OneJobPerMarker, MarkersAreIssued, NoJobRecord, NoRecord
<1>4. Evidenced(NoRecord)
  BY EmptyRecord DEF Evidenced, NoAttemptRecord
<1>5. CopiesAreEvidenced
  BY <1>4, EmptyRecord DEF CopiesAreEvidenced, Evidenced, NoAttemptRecord
<1>6. RetryableIsSettled /\ NoSilentDuplicate
  BY EmptyRecord DEF RetryableIsSettled, NoSilentDuplicate, Retryable, Outstanding, JobsOf,
                     NoJobRecord, Attempts
<1>7. QED
  BY <1>1, <1>2, <1>3, <1>5, <1>6

\* Every step preserves it.
THEOREM NextInv == IndInv /\ [Next]_vars => IndInv'
<1> SUFFICES ASSUME IndInv, [Next]_vars PROVE IndInv'
  OBVIOUS
<1>1. ASSUME NEW c \in Clients, StubStep(c) PROVE IndInv'
  BY <1>1, AcquireKeeps, PrepareKeeps, ReconcileKeeps, ReturnKeeps, BeginAttemptKeeps,
     CallSbatchKeeps, ConcludeKeeps, EndingsKeep, UpdateKeeps
  DEF StubStep, WorkerStep, World
<1>2. ASSUME NEW c \in Clients,
             \/ Abandon(c)
             \/ (EnsureRaises(c) \/ WorkerDies(c) \/ UpdateDies(c)) /\ UNCHANGED <<disk, edits>>
      PROVE  IndInv'
  BY <1>2, EndingsKeep DEF World
<1>3. CASE UNCHANGED vars
  <2> USE <1>3 DEF vars, taskVars, slurmVars, ghosts, IndInv
  <2>1. WellFormed'
    BY DEF WellFormed, TypeOK, CallsHaveAttempts, Answered
  <2>2. LeaseIsHeld' /\ SubmissionIsFresh' /\ OneJobPerMarker' /\ MarkersAreIssued'
    BY DEF LeaseIsHeld, SubmissionIsFresh, JobsOf, OneJobPerMarker, MarkersAreIssued
  <2>3. Evidenced(record)'
    BY DEF CopiesAreEvidenced, Evidenced
  <2>4. CopiesAreEvidenced'
    BY <2>3, CopiesStep
  <2>5. ReportsAreTrue'
    BY DEF ReportsAreTrue, ReportIsTrue, Answered
  <2>6. RetryableIsSettled' /\ NoSilentDuplicate'
    BY DEF RetryableIsSettled, NoSilentDuplicate, Outstanding, JobsOf
  <2>7. QED
    BY <2>1, <2>2, <2>4, <2>5, <2>6
<1>4. QED
  BY <1>1, <1>2, <1>3, BeginKeeps, ClientKeeps, ControllerKeeps DEF Next

\* It holds throughout.
THEOREM Inductive == Spec => []IndInv
BY InitInv, NextInv, PTL DEF Spec

\* Every variable keeps the shape the code gives it.
THEOREM Typed == Spec => []TypeOK
<1>1. IndInv => TypeOK
  BY DEF IndInv, WellFormed
<1>2. QED
  BY <1>1, Inductive, PTL

\* However many clients call, die and interleave, a submission that is or may
\* yet be on the cluster is the current attempt's, waived or denied by sbatch.
THEOREM NoDuplicates == Spec => []NoSilentDuplicate
<1>1. IndInv => NoSilentDuplicate
  BY DEF IndInv
<1>2. QED
  BY <1>1, Inductive, PTL

\* What --retry may replace is off the cluster for good.
THEOREM RetriesAreSafe == Spec => []RetryableIsSettled
<1>1. IndInv => RetryableIsSettled
  BY DEF IndInv
<1>2. QED
  BY <1>1, Inductive, PTL

\* No marker reaches the controller before the record lists its attempt.
THEOREM JobsAreRecorded == Spec => []EveryJobRecorded
<1>1. IndInv => EveryJobRecorded
  BY DEF IndInv, MarkersAreIssued, EveryJobRecorded, JobsOf, Attempts
<1>2. QED
  BY <1>1, Inductive, PTL

\* A recorded job id is the one job of its attempt's marker.
THEOREM JobsAreIdentified == Spec => []JobIdentified
<1>1. ASSUME IndInv, NEW a \in Attempts, record.attempts[a].job # NoJob
      PROVE  JobsOf(a) = {record.attempts[a].job}
  <2>1. record.attempts[a].job \in JobIds
    BY <1>1 DEF IndInv, WellFormed, TypeOK, Records, AttemptRecords
  <2>2. jobs[record.attempts[a].job].marker = a
    BY <1>1 DEF IndInv, CopiesAreEvidenced, Evidenced
  <2>3. QED
    BY <1>1, <2>1, <2>2 DEF IndInv, OneJobPerMarker, JobsOf, Attempts
<1>2. IndInv => JobIdentified
  BY <1>1 DEF JobIdentified
<1>3. QED
  BY <1>2, Inductive, PTL

\* A task is VERIFIED only with a receipt of its attempt's own completed job.
THEOREM VerifiedHasEvidence == Spec => []VerifiedIsEvidenced
<1>1. ASSUME IndInv, record.state = "VERIFIED"
      PROVE  /\ record.receipt # NoReceipt
             /\ record.receipt.attempt = record.current
             /\ record.receipt.job = record.attempts[record.current].job
             /\ jobs[record.receipt.job] = [marker |-> record.current, state |-> "COMPLETED"]
  <2>1. /\ record.receipt # NoReceipt /\ record.current \in Attempts
        /\ record.receipt.attempt = record.current
        /\ record.receipt.job = record.attempts[record.current].job
        /\ record.receipt.job # NoJob
        /\ jobs[record.receipt.job].state = "COMPLETED"
        /\ jobs[record.receipt.job].marker = record.current
    BY <1>1 DEF IndInv, CopiesAreEvidenced, Evidenced
  <2>2. record.receipt.job \in JobIds
    BY <1>1, <2>1 DEF IndInv, WellFormed, TypeOK, Records, AttemptRecords
  <2>3. jobs[record.receipt.job] \in [marker : Markers \union {NoMarker}, state : JobStates]
    BY <2>2, <1>1 DEF IndInv, WellFormed, TypeOK
  <2>4. QED
    BY <2>1, <2>3
<1>2. IndInv => VerifiedIsEvidenced
  BY <1>1 DEF VerifiedIsEvidenced
<1>3. QED
  BY <1>2, Inductive, PTL

------------------------------------------------------------------------------
(* The task store implements SingleFlight *)

Flying  == {a \in Attempts : Outstanding(a)}
Excused == waived \union misled

\* The steps of SingleFlight, written with the store's own variables.
LEMMA StutterOrStep ==
  ASSUME \/ record'.current = record.current /\ UNCHANGED <<issued, Flying, Excused>>
         \/ \E a \in Attempts :
              /\ a \notin issued /\ issued' = issued \union {a}
              /\ record'.current = a
              /\ Excused' \in {Excused, Excused \union ({record.current} \ {NoAttempt})}
              /\ Flying \subseteq Excused'
              /\ Flying' = Flying
         \/ /\ record.current # NoAttempt
            /\ Flying' = Flying \union {record.current}
            /\ record'.current = record.current
            /\ UNCHANGED <<issued, Excused>>
         \/ \E a \in Flying :
              /\ Flying' = Flying \ {a}
              /\ record'.current = record.current
              /\ UNCHANGED <<issued, Excused>>
         \/ /\ Excused' = Excused \union ({record.current} \ {NoAttempt})
            /\ record'.current = record.current
            /\ UNCHANGED <<issued, Flying>>
  PROVE  [Promise!Next]_(Promise!absVars)
BY DEF Promise!Next, Promise!Open, Promise!Launch, Promise!Settle, Promise!Excuse,
       Promise!absVars, Flying, Excused

\* The controller at most settles a submission.
LEMMA ControllerRefines ==
  ASSUME IndInv, ControllerStep \/ EditOutputs
  PROVE  /\ record'.current = record.current /\ UNCHANGED <<issued, Excused>>
         /\ Flying' = Flying \/ \E a \in Flying : Flying' = Flying \ {a}
<1> USE DEF IndInv, taskVars, ghosts, slurmVars, Excused
<1>1. CASE EditOutputs
  BY <1>1 DEF EditOutputs, Flying, Outstanding, JobsOf
<1>2. ASSUME NEW m \in Markers, NEW j \in JobIds, Accept(m, j), UNCHANGED taskVars
      PROVE  Flying' = Flying
  <2>1. /\ jobs[j].marker = NoMarker /\ jobs'[j].marker = m /\ jobs'[j].state = "PENDING"
        /\ m \in sent /\ sent' = sent \ {m}
        /\ \A k \in JobIds : k # j => jobs'[k] = jobs[k]
    BY <1>2 DEF Accept, WellFormed, TypeOK
  <2>2. ASSUME NEW a \in Attempts PROVE Outstanding(a)' <=> Outstanding(a)
    BY <2>1 DEF Outstanding, JobsOf, Attempts, Queued
  <2>3. QED
    BY <2>2 DEF Flying
<1>3. ASSUME NEW m \in Markers, Refuse(m), UNCHANGED taskVars
      PROVE  Flying' = Flying \ {m} /\ m \in Flying
  <2>1. ASSUME NEW a \in Attempts PROVE Outstanding(a)' <=> Outstanding(a) /\ a # m
    BY <1>3 DEF Refuse, Outstanding, JobsOf, OneJobPerMarker
  <2>2. QED
    BY <1>3, <2>1 DEF Flying, Refuse, Outstanding, Attempts
<1>4. ASSUME NEW j \in JobIds, StartJob(j), UNCHANGED taskVars
      PROVE  Flying' = Flying
  <2>1. /\ jobs[j].state \in Queued /\ jobs'[j].state \in Queued /\ jobs'[j].marker = jobs[j].marker
        /\ \A k \in JobIds : k # j => jobs'[k] = jobs[k]
        /\ sent' = sent
    BY <1>4 DEF StartJob, WellFormed, TypeOK, Queued
  <2>2. ASSUME NEW a \in Attempts PROVE Outstanding(a)' <=> Outstanding(a)
    BY <2>1 DEF Outstanding, JobsOf
  <2>3. QED
    BY <2>2 DEF Flying
<1>5. ASSUME NEW j \in JobIds, NEW s \in Ended, EndJob(j, s), UNCHANGED taskVars
      PROVE  Flying' = Flying \ {jobs[j].marker} /\ jobs[j].marker \in Flying
  <2>1. /\ jobs[j].marker \in Attempts /\ jobs[j].state \in Queued
        /\ jobs'[j].state \notin Queued /\ jobs'[j].marker = jobs[j].marker
        /\ \A k \in JobIds : k # j => jobs'[k] = jobs[k] /\ jobs[k].marker # jobs[j].marker
        /\ sent' = sent /\ jobs[j].marker \notin sent
    BY <1>5 DEF EndJob, WellFormed, TypeOK, Queued, Ended, OneJobPerMarker, Attempts
  <2>2. ASSUME NEW a \in Attempts PROVE Outstanding(a)' <=> Outstanding(a) /\ a # jobs[j].marker
    BY <2>1 DEF Outstanding, JobsOf
  <2>3. Outstanding(jobs[j].marker)
    BY <2>1 DEF Outstanding, JobsOf
  <2>4. QED
    BY <2>1, <2>2, <2>3 DEF Flying
<1>6. CASE ControllerStep
  <2>1. UNCHANGED taskVars
    BY <1>6 DEF ControllerStep, Finished
  <2>2. Flying' = Flying \/ \E a \in Flying : Flying' = Flying \ {a}
    BY <1>2, <1>3, <1>4, <1>5, <1>6 DEF ControllerStep, Finished
  <2>3. QED
    BY <2>1, <2>2
<1>7. QED
  BY <1>1, <1>6

\* Each action is the step of SingleFlight its comment in TaskStore suggests:
\* BeginAttempt opens, CallSbatch launches, SbatchMisreports excuses, the others
\* of the store change nothing the promise speaks of.
LEMMA StepRefines ==
  ASSUME IndInv, [Next]_vars
  PROVE  [Promise!Next]_(Promise!absVars)
<1> USE DEF IndInv, taskVars, ghosts, slurmVars, Excused
<1> DEFINE Same == record'.current = record.current /\ UNCHANGED <<issued, Flying, Excused>>
<1>1. UNCHANGED <<jobs, sent>> => Flying' = Flying
  BY DEF Flying, Outstanding, JobsOf
<1>2. CASE UNCHANGED vars
  BY <1>1, <1>2, StutterOrStep DEF vars
<1>3. CASE ControllerStep \/ EditOutputs
  BY <1>3, ControllerRefines, StutterOrStep
<1>4. ASSUME NEW c \in Clients,
             \/ \E retry, unknown \in BOOLEAN : Begin(c, retry, unknown)
             \/ ClientStep(c)
             \/ Abandon(c)
             \/ EnsureRaises(c) \/ WorkerDies(c) \/ UpdateDies(c)
             \/ SbatchRaises(c) \/ UpdateRefused(c)
             \/ AcquireForEnsure(c) \/ ReturnRecord(c)
      PROVE  Same
  BY <1>1, <1>4
  DEF Begin, ClientStep, ReportStored, UseStoredCompletion, ObserveJob, LoseSight, ValidateOutputs,
      CondemnOutputs, FingerprintOutputs, Request, Abandon, EnsureRaises, WorkerDies, UpdateDies,
      SbatchRaises, UpdateRefused, AcquireForEnsure, ReturnRecord
<1>5. ASSUME NEW c \in Clients, Prepare(c) PROVE Same
  BY <1>1, <1>5 DEF Prepare, Save, LeaseIsHeld, Held, WellFormed, TypeOK, Records
<1>6. ASSUME NEW c \in Clients, RecoverJob(c) \/ GiveUpOnMarker(c) PROVE Same
  <2>1. mem[c] = record /\ record.current \in Attempts /\ record \in Records
    BY <1>6 DEF RecoverJob, GiveUpOnMarker, NeedsReconcile, LeaseIsHeld, Held, WellFormed, TypeOK,
                Records, NoAttempt, Attempts
  <2>2. \E s \in TaskStates, job \in JobIds \union {NoJob} : record' = Resolved(record, s, job)
    BY <1>6, <2>1 DEF RecoverJob, GiveUpOnMarker, Save, TaskStates, InProgress, JobsOf
  <2>3. QED
    BY <1>1, <1>6, <2>1, <2>2, ResolvedFacts DEF RecoverJob, GiveUpOnMarker
<1>7. ASSUME NEW c \in Clients, UpdateTask(c) PROVE Same
  <2>1. record.current \in Attempts /\ record \in Records /\ upd[c] \in Updates /\ upd[c].state \in TaskStates
    BY <1>7 DEF UpdateTask, WellFormed, TypeOK, CallsHaveAttempts, WithAnswer, WithJob
  <2>2. record'.current = record.current
    BY <1>7, <2>1, UpdatedFacts DEF UpdateTask, AfterUpdate
  <2>3. QED
    BY <1>1, <1>7, <2>2 DEF UpdateTask
<1>8. ASSUME NEW c \in Clients,
             SbatchAccepted(c) \/ SbatchUnparseable(c) \/ SbatchRejected(c) \/ SbatchMisreports(c)
      PROVE  /\ record'.current = record.current /\ record.current # NoAttempt
             /\ UNCHANGED <<issued, Flying, waived>>
             /\ misled' \in {misled, misled \union {record.current}}
  <2>1. mem[c] = record /\ record.current \in Attempts /\ record \in Records
    BY <1>8 DEF SbatchAccepted, SbatchUnparseable, SbatchRejected, SbatchMisreports, LeaseIsHeld,
                Held, WellFormed, TypeOK, CallsHaveAttempts, WithAnswer
  <2>2. \E s \in TaskStates, job \in JobIds \union {NoJob} : record' = Resolved(record, s, job)
    BY <1>8, <2>1 DEF SbatchAccepted, SbatchUnparseable, SbatchRejected, SbatchMisreports,
                      Conclude, Save, TaskStates, InProgress, Retryable, JobsOf
  <2>3. record'.current = record.current
    BY <2>1, <2>2, ResolvedFacts
  <2>4. QED
    BY <1>1, <1>8, <2>1, <2>3
    DEF SbatchAccepted, SbatchUnparseable, SbatchRejected, SbatchMisreports, NoAttempt, Attempts
<1>9. ASSUME NEW c \in Clients, NEW a \in Attempts, BeginAttempt(c, a)
      PROVE  /\ a \notin issued /\ issued' = issued \union {a}
             /\ record'.current = a
             /\ Excused' \in {Excused, Excused \union ({record.current} \ {NoAttempt})}
             /\ Flying \subseteq Excused'
             /\ Flying' = Flying
  <2>1. mem[c] = record /\ record \in Records /\ record' = Begun(record, a)
    BY <1>9 DEF BeginAttempt, MayBegin, Save, LeaseIsHeld, Held, WellFormed, TypeOK
  <2>2. record'.current = a
    BY <2>1, BegunFacts
  <2>3. waived' = IF record.state = "UNKNOWN" /\ req[c].unknown
                    THEN waived \union {record.current} ELSE waived
    BY <1>9, <2>1 DEF BeginAttempt
  <2>4. /\ record.state = "UNKNOWN" => record.current # NoAttempt
        /\ record.current \in Attempts => ~Outstanding(record.current)
                                          \/ record.current \in waived' \union misled
    BY <1>9, <2>1, <2>3 DEF BeginAttempt, MayBegin, Answers, RetryableIsSettled, MarkersAreIssued,
                            NoAttempt, Attempts
  <2>5. QED
    BY <1>1, <1>9, <2>2, <2>3, <2>4 DEF BeginAttempt, MayBegin, NoSilentDuplicate, Flying
<1>10. ASSUME NEW c \in Clients, CallSbatch(c)
       PROVE  /\ record.current # NoAttempt
              /\ Flying' = Flying \union {record.current}
              /\ record'.current = record.current
              /\ UNCHANGED <<issued, Excused>>
  <2>1. mem[c] = record /\ record.current \in Attempts
    BY <1>10 DEF CallSbatch, LeaseIsHeld, Held, WellFormed, CallsHaveAttempts, WithAnswer
  <2>2. \A a \in Attempts : Outstanding(a)' <=> Outstanding(a) \/ a = record.current
    BY <1>10, <2>1 DEF CallSbatch, SendBatch, Outstanding, JobsOf
  <2>3. QED
    BY <1>10, <2>1, <2>2 DEF CallSbatch, Flying, NoAttempt, Attempts
<1>11. ASSUME NEW c \in Clients, StubStep(c)
       PROVE  [Promise!Next]_(Promise!absVars)
  BY <1>4, <1>5, <1>6, <1>7, <1>8, <1>9, <1>10, <1>11, StutterOrStep DEF StubStep, WorkerStep
<1>12. QED
  BY <1>2, <1>3, <1>4, <1>11, StutterOrStep DEF Next

\* Every behaviour of the store and its clients is one of the abstract promise:
\* one submission at a time, the earlier ones settled or excused.
THEOREM KeepsPromise == Spec => SingleFlightKept
<1>1. Init => Promise!Init
  BY EmptyRecord DEF Init, TaskInit, SlurmInit, Promise!Init, NoRecord, Outstanding, JobsOf,
                     NoJobRecord, Attempts
<1>2. QED
  BY <1>1, Inductive, StepRefines, PTL DEF Spec, SingleFlightKept, Promise!Spec
==============================================================================
