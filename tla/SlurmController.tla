--------------------------- MODULE SlurmController ---------------------------
(***************************************************************************)
(* The Slurm controller as the durable submitters in                       *)
(* src/remoteslurm/stub.py use it: `sbatch --job-name=<marker>` hands it   *)
(* one marked submission, which it accepts (a job appears) or refuses,     *)
(* possibly long after the sbatch process has been given up on.  The       *)
(* controller is outside this repository: only what the code can observe   *)
(* of it is modelled.                                                      *)
(***************************************************************************)
EXTENDS FiniteSets

CONSTANTS Markers,   \* the attempts' unique Slurm job names ("rse-...", "rsc-...")
          JobIds,    \* the controller's job numbers
          NoMarker   \* the marker of a job number not given out yet

ASSUME SlurmAssumption == NoMarker \notin Markers

VARIABLES jobs,      \* every job number: the marker it was given for and its state
          sent       \* markers of the sbatch requests the controller has not decided on

slurmVars == <<jobs, sent>>

Queued    == {"PENDING", "RUNNING"}
Ended     == {"COMPLETED", "FAILED"}  \* FAILED: any terminal state but COMPLETED
JobStates == Queued \union Ended

NoJobRecord == [marker |-> NoMarker, state |-> "PENDING"]

SlurmInit ==
  /\ jobs = [j \in JobIds |-> NoJobRecord]
  /\ sent = {}

\* A query may miss any of them: squeue forgets ended jobs, sacct lags or is
\* absent, and the code treats both failures as "no match".
JobsOf(m) == {j \in JobIds : jobs[j].marker = m}

\* A submission that occupies the cluster now or still may.
Outstanding(m) ==
  \/ m \in sent
  \/ \E j \in JobsOf(m) : jobs[j].state \in Queued

SendBatch(m) ==
  /\ sent' = sent \union {m}
  /\ UNCHANGED jobs

Accept(m, j) ==
  /\ m \in sent
  /\ jobs[j].marker = NoMarker
  /\ jobs' = [jobs EXCEPT ![j] = [marker |-> m, state |-> "PENDING"]]
  /\ sent' = sent \ {m}

Refuse(m) ==
  /\ m \in sent
  /\ sent' = sent \ {m}
  /\ UNCHANGED jobs

StartJob(j) ==
  /\ jobs[j].marker # NoMarker
  /\ jobs[j].state = "PENDING"
  /\ jobs' = [jobs EXCEPT ![j].state = "RUNNING"]
  /\ UNCHANGED sent

EndJob(j, s) ==
  /\ jobs[j].marker # NoMarker
  /\ jobs[j].state \in Queued
  /\ s = "COMPLETED" => jobs[j].state = "RUNNING"
  /\ jobs' = [jobs EXCEPT ![j].state = s]
  /\ UNCHANGED sent
==============================================================================
