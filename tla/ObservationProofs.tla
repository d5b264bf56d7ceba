-------------------------- MODULE ObservationProofs --------------------------
(***************************************************************************)
(* What the services of module Services say of the jobs, runs and files of *)
(* a host is true, for any number of clients, jobs and files.  Each is     *)
(* proved of its service alone: the others share nothing with it.          *)
(***************************************************************************)
EXTENDS Services, Sequences, WellFoundedInduction, SequenceTheorems, FiniteSetTheorems, TLAPS

------------------------------------------------------------------------------
(* Jobs and their registry *)

TaskStates == J!Live \union J!TERMINAL_STATES \union {"none"}
JobStates  == TaskStates \union {"UNKNOWN"}
JobRecords == [state : JobStates, seen : {"never", "now", "old", "ancient"}]
JobFiles   == [J!Jobs -> JobRecords]
JobChanges == {J!NoChange, [kind |-> "prune"]} \union [kind : {"put", "update"}, job : J!Jobs, state : JobStates]
JobClients == [pc : {"idle", "lock", "locked", "sbatch", "annotate", "look", "resolve"},
               op : {"none", "submit", "pack", "status", "wait", "jobs", "adopt"},
               job : J!Jobs \union {0}, refresh : BOOLEAN, rec : JobRecords,
               rows : SUBSET (J!AllTasks \X J!Live), cached : BOOLEAN, change : JobChanges,
               then : {"idle", "sbatch", "annotate", "look"}, copy : JobFiles]

JobTyped ==
  /\ jobSubject \in J!Jobs
  /\ jobTasks \in [J!AllTasks -> TaskStates]
  /\ jobAccounted \subseteq J!AllTasks
  /\ jobRegistry \in JobFiles
  /\ jobClient \in [Clients -> JobClients]
  /\ jobKept \subseteq J!Jobs

\* A state that says a single job j is over is true: it was, at some time.
Real(j, state, over) == j \in Singles /\ state \in J!TERMINAL_STATES => j \in over

\* What a client is about to write, or has read, is true; and while it holds the
\* lock, what it read of the registry is what is still there.
Honest(p, reg, over) ==
  /\ p.pc = "locked" => p.copy = reg
  /\ p.pc \in {"lock", "locked"} /\ p.change.kind \in {"put", "update"} =>
       Real(p.change.job, p.change.state, over)
  /\ p.pc = "resolve" => Real(p.job, p.rec.state, over)
  /\ p.pc \in {"look", "resolve"} \/ (p.pc \in {"lock", "locked"} /\ p.then = "look") => p.job \in J!Jobs

JobInv ==
  /\ JobTyped
  /\ \A c \in Clients : /\ Honest(jobClient[c], jobRegistry, jobOver)
                        /\ jobClient[c].pc = "locked" => jobLock = c
  /\ \A j \in J!Jobs : Real(j, jobRegistry[j].state, jobOver)
  /\ \A j \in Singles : Real(j, jobTasks[<<j, 1>>], jobOver)
  /\ JobsAreTracked

------------------------------------------------------------------------------

LEMMA JobStatesFacts ==
  /\ \A j \in Singles : J!Tasks(j) = {1}
  /\ \A j \in J!Jobs : <<j, 1>> \in J!AllTasks
  /\ \A k \in J!AllTasks : k[1] \in Singles => k = <<k[1], 1>>
  /\ J!NoRecord \in JobRecords /\ J!NoFile \in JobFiles
  /\ \A s \in JobStates : J!Record(s) \in JobRecords /\ J!Record(s) # J!NoRecord
  /\ J!Idle \in JobClients
<1> USE JobsAssumption
<1>1. \A j \in Singles : J!Tasks(j) = {1}
  BY DEF J!Tasks
<1>2. \A j \in J!Jobs : 1 \in J!Tasks(j)
  BY DEF J!Tasks
<1>3. \A k \in J!AllTasks : k[1] \in Singles => k = <<k[1], 1>>
  BY <1>1 DEF J!AllTasks
<1>4. \A s \in JobStates : J!Record(s) \in JobRecords /\ J!Record(s) # J!NoRecord
  BY DEF J!Record, J!NoRecord, JobRecords
<1>5. J!NoRecord \in JobRecords
  BY DEF J!NoRecord, JobRecords, JobStates, TaskStates
<1>6. J!NoFile \in JobFiles
  BY <1>5 DEF J!NoFile, JobFiles
<1>7. J!NoChange \in JobChanges
  BY DEF JobChanges
<1>8. J!Idle \in JobClients
  BY <1>5, <1>6, <1>7 DEF J!Idle, JobClients
<1>9. QED
  BY <1>1, <1>2, <1>3, <1>4, <1>5, <1>6, <1>8 DEF J!AllTasks

\* While the registry stays as it is.
LEMMA JobKeeps ==
  ASSUME JobInv,
         jobSubject' = jobSubject, jobRegistry' = jobRegistry, jobKept' = jobKept,
         jobOver \subseteq jobOver',
         jobTasks' \in [J!AllTasks -> TaskStates],
         \A j \in Singles : Real(j, jobTasks'[<<j, 1>>], jobOver'),
         jobAccounted' \subseteq J!AllTasks,
         jobTold' \intersect Singles \subseteq jobOver',
         jobClient' \in [Clients -> JobClients],
         \A k \in Clients : /\ jobClient'[k] = jobClient[k] \/ Honest(jobClient'[k], jobRegistry, jobOver')
                            /\ jobClient'[k].pc = "locked" => jobLock' = k
  PROVE  JobInv'
<1>1. JobTyped'
  BY DEF JobInv, JobTyped
<1>2. \A k \in Clients : Honest(jobClient'[k], jobRegistry', jobOver')
  BY DEF JobInv, Honest, Real
<1>3. \A j \in J!Jobs : Real(j, jobRegistry'[j].state, jobOver')
  BY DEF JobInv, Real
<1>4. JobsAreTracked'
  BY DEF JobInv, JobsAreTracked, J!NoLostRecord, J!TerminalIsReal
<1>5. QED
  BY <1>1, <1>2, <1>3, <1>4 DEF JobInv

\* A step of client c that leaves the jobs alone, and takes or gives back the
\* lock at most.
LEMMA JobClientKeeps ==
  ASSUME JobInv, NEW c \in Clients, NEW q \in JobClients,
         jobClient' = [jobClient EXCEPT ![c] = q],
         Honest(q, jobRegistry, jobOver), q.pc = "locked" => jobLock' = c,
         jobLock' = jobLock \/ jobLock \in {c, Nobody},
         jobSubject' = jobSubject, jobRegistry' = jobRegistry, jobKept' = jobKept,
         jobOver' = jobOver, jobTasks' = jobTasks, jobAccounted' = jobAccounted,
         jobTold' \intersect Singles \subseteq jobOver
  PROVE  JobInv'
<1>1. /\ jobTasks' \in [J!AllTasks -> TaskStates] /\ jobAccounted' \subseteq J!AllTasks
      /\ \A j \in Singles : Real(j, jobTasks'[<<j, 1>>], jobOver')
      /\ jobClient \in [Clients -> JobClients]
  BY DEF JobInv, JobTyped
<1>2. jobClient' \in [Clients -> JobClients]
  BY <1>1
<1>3. ASSUME NEW k \in Clients
      PROVE  /\ jobClient'[k] = jobClient[k] \/ Honest(jobClient'[k], jobRegistry, jobOver')
             /\ jobClient'[k].pc = "locked" => jobLock' = k
  <2>1. CASE k = c
    BY <2>1, <1>1
  <2>2. CASE k # c
    BY <2>2, <1>1, JobsAssumption DEF JobInv
  <2>3. QED
    BY <2>1, <2>2
<1>4. QED
  BY <1>1, <1>2, <1>3, JobKeeps

\* A client at rest is about to say nothing.
LEMMA JobRests ==
  ASSUME NEW p \in JobClients, NEW reg, NEW over
  PROVE  J!AtRest(p) \in JobClients /\ J!AtRest(p).pc = "idle" /\ Honest(J!AtRest(p), reg, over)
<1>1. J!Idle \in JobClients /\ J!Idle.pc = "idle"
  BY JobStatesFacts DEF J!Idle
<1>2. CASE jobRequests = MaxRequests
  BY <1>1, <1>2 DEF J!AtRest, Honest
<1>3. CASE jobRequests # MaxRequests
  <2>1. J!AtRest(p) = [J!Idle EXCEPT !.rows = p.rows, !.cached = p.cached]
    BY <1>3 DEF J!AtRest
  <2>2. J!AtRest(p) \in JobClients /\ J!AtRest(p).pc = "idle"
    BY <1>1, <2>1 DEF JobClients
  <2>3. QED
    BY <2>2 DEF Honest
<1>4. QED
  BY <1>2, <1>3

\* A client that will change the registry is honest if the change is.
LEMMA JobChanging ==
  ASSUME NEW p \in JobClients, NEW change \in JobChanges,
         NEW then \in {"idle", "sbatch", "annotate", "look"}, NEW reg, NEW over,
         then = "look" => p.job \in J!Jobs,
         change.kind \in {"put", "update"} => Real(change.job, change.state, over)
  PROVE  LET q == [p EXCEPT !.pc = "lock", !.change = change, !.then = then]
         IN  q \in JobClients /\ q.pc = "lock" /\ Honest(q, reg, over)
<1> DEFINE q == [p EXCEPT !.pc = "lock", !.change = change, !.then = then]
<1>1. q \in JobClients /\ q.pc = "lock" /\ q.change = change /\ q.then = then /\ q.job = p.job
  BY DEF JobClients
<1> HIDE DEF q
<1>2. Honest(q, reg, over)
  BY <1>1 DEF Honest
<1>3. QED
  BY <1>1, <1>2 DEF q

\* The lock is taken.
LEMMA JobLock ==
  ASSUME JobInv, NEW c \in Clients, J!Lock(c)
  PROVE  JobInv'
<1> DEFINE q == [jobClient[c] EXCEPT !.pc = "locked", !.copy = jobRegistry]
<1>1. jobClient[c] \in JobClients /\ jobRegistry \in JobFiles /\ jobClient \in [Clients -> JobClients]
  BY DEF JobInv, JobTyped
<1>2. /\ q \in JobClients /\ q.pc = "locked" /\ q.copy = jobRegistry /\ q.change = jobClient[c].change
      /\ q.then = jobClient[c].then /\ q.job = jobClient[c].job
  BY <1>1 DEF JobClients
<1>3. jobClient[c].pc = "lock" /\ jobLock = Nobody /\ jobLock' = c
  BY DEF J!Lock, J!MayLock
<1>4. jobClient' = [jobClient EXCEPT ![c] = q]
  BY <1>1 DEF J!Lock
<1> HIDE DEF q
<1>5. Honest(q, jobRegistry, jobOver)
  BY <1>2, <1>3 DEF JobInv, Honest
<1>6. jobTold' \intersect Singles \subseteq jobOver
  BY DEF J!Lock, JobInv, JobsAreTracked, J!TerminalIsReal
<1>7. QED
  BY <1>2, <1>3, <1>4, <1>5, <1>6, JobClientKeeps DEF J!Lock, J!slurmSide

\* The registry fails, and the client goes on or gives up.
LEMMA JobRegistryFails ==
  ASSUME JobInv, NEW c \in Clients, J!RegistryFails(c)
  PROVE  JobInv'
<1> DEFINE q == [jobClient[c] EXCEPT !.pc = "look", !.copy = J!NoFile, !.change = J!NoChange]
<1>1. jobClient[c] \in JobClients /\ jobClient \in [Clients -> JobClients]
  BY DEF JobInv, JobTyped
<1>2. q \in JobClients /\ q.pc = "look" /\ q.job = jobClient[c].job
  BY <1>1, JobStatesFacts DEF JobClients, JobChanges
<1>3. jobTold' \intersect Singles \subseteq jobOver
  BY DEF J!RegistryFails, JobInv, JobsAreTracked, J!TerminalIsReal
<1>4. jobLock' = jobLock \/ jobLock \in {c, Nobody}
  BY DEF J!RegistryFails, JobInv
<1>5. CASE jobClient[c].then = "look" /\ jobClient[c].op # "adopt"
  <2>1. jobClient' = [jobClient EXCEPT ![c] = q]
    BY <1>5, <1>1 DEF J!RegistryFails
  <2>2. jobClient[c].job \in J!Jobs
    BY <1>5 DEF J!RegistryFails, JobInv, Honest
  <2> HIDE DEF q
  <2>3. Honest(q, jobRegistry, jobOver)
    BY <1>2, <2>2 DEF Honest
  <2>4. QED
    BY <1>2, <1>3, <1>4, <2>1, <2>3, JobClientKeeps DEF J!RegistryFails, J!slurmSide
<1>6. CASE ~(jobClient[c].then = "look" /\ jobClient[c].op # "adopt")
  <2>1. jobClient' = [jobClient EXCEPT ![c] = J!AtRest(jobClient[c])]
    BY <1>6 DEF J!RegistryFails, J!Done
  <2>2. QED
    BY <1>1, <1>3, <1>4, <2>1, JobRests, JobClientKeeps DEF J!RegistryFails, J!slurmSide
<1>7. QED
  BY <1>5, <1>6

\* A client dies.
LEMMA JobCrash ==
  ASSUME JobInv, NEW c \in Clients, J!Crash(c)
  PROVE  JobInv'
<1>1. J!Idle \in JobClients /\ J!Idle.pc = "idle" /\ Honest(J!Idle, jobRegistry, jobOver)
  BY JobStatesFacts DEF J!Idle, Honest
<1>2. jobTold' \intersect Singles \subseteq jobOver
  BY DEF J!Crash, JobInv, JobsAreTracked, J!TerminalIsReal
<1>3. jobLock' = jobLock \/ jobLock \in {c, Nobody}
  BY DEF J!Crash
<1>4. QED
  BY <1>1, <1>2, <1>3, JobClientKeeps DEF J!Crash, J!slurmSide

\* An operation is asked for: of one that looks at a job, the job is known.
LEMMA JobAsked ==
  ASSUME JobInv, NEW c \in Clients,
         \/ J!submit(c) \/ J!pack(c) \/ J!job_status(c) \/ J!wait(c) \/ J!jobs(c) \/ J!adopt(c)
  PROVE  JobInv'
<1>1. /\ jobClient[c] \in JobClients /\ jobSubject \in J!Jobs
      /\ jobTold \intersect Singles \subseteq jobOver
  BY DEF JobInv, JobTyped, JobsAreTracked, J!TerminalIsReal
<1>2. ASSUME NEW op \in {"submit", "pack"},
             J!Changing(c, [jobClient[c] EXCEPT !.op = op], J!NoChange, "sbatch"),
             UNCHANGED <<J!slurmSide, jobRegistry, jobLock, jobKept, jobTold>>
      PROVE  JobInv'
  <2> DEFINE p == [jobClient[c] EXCEPT !.op = op]
             q == [p EXCEPT !.pc = "lock", !.change = J!NoChange, !.then = "sbatch"]
  <2>1. p \in JobClients
    BY <1>1 DEF JobClients
  <2>2. J!NoChange \in JobChanges /\ J!NoChange.kind = "rewrite"
    BY DEF JobChanges, J!NoChange
  <2>3. jobClient' = [jobClient EXCEPT ![c] = q]
    BY <1>2 DEF J!Changing
  <2> HIDE DEF p
  <2>4. q \in JobClients /\ q.pc = "lock" /\ Honest(q, jobRegistry, jobOver)
    BY <2>1, <2>2, JobChanging
  <2> HIDE DEF q
  <2>5. QED
    BY <1>1, <1>2, <2>3, <2>4, JobClientKeeps DEF J!slurmSide
<1>3. ASSUME NEW op \in {"status", "wait", "jobs", "adopt"}, NEW refresh \in BOOLEAN,
             NEW change \in {J!NoChange, [kind |-> "prune"]}, J!Query(c, op, change, refresh)
      PROVE  JobInv'
  <2> DEFINE p == [jobClient[c] EXCEPT !.op = op, !.job = jobSubject, !.refresh = refresh]
             q == [p EXCEPT !.pc = "lock", !.change = change, !.then = "look"]
  <2>1. p \in JobClients /\ p.job = jobSubject
    BY <1>1 DEF JobClients
  <2>2. change \in JobChanges /\ change.kind \in {"rewrite", "prune"}
    BY DEF JobChanges, J!NoChange
  <2>3. jobClient' = [jobClient EXCEPT ![c] = q]
    BY <1>3 DEF J!Query, J!Changing
  <2> HIDE DEF p
  <2>4. q \in JobClients /\ q.pc = "lock" /\ Honest(q, jobRegistry, jobOver)
    BY <1>1, <2>1, <2>2, JobChanging
  <2> HIDE DEF q
  <2>5. QED
    BY <1>1, <1>3, <2>3, <2>4, JobClientKeeps DEF J!Query, J!slurmSide
<1>4. QED
  BY <1>2, <1>3 DEF J!submit, J!pack, J!job_status, J!wait, J!jobs, J!adopt

\* A pack annotates its record; or a query fails.
LEMMA JobAnnotate ==
  ASSUME JobInv, NEW c \in Clients, J!Annotate(c) \/ J!QueryFails(c)
  PROVE  JobInv'
<1>1. jobClient[c] \in JobClients /\ jobTold \intersect Singles \subseteq jobOver
  BY DEF JobInv, JobTyped, JobsAreTracked, J!TerminalIsReal
<1>2. UNCHANGED <<J!slurmSide, jobRegistry, jobLock, jobKept, jobTold>>
  BY DEF J!Annotate, J!QueryFails
<1>3. CASE J!Done(c)
  BY <1>1, <1>2, <1>3, JobRests, JobClientKeeps DEF J!slurmSide, J!Done
<1>4. CASE J!Changing(c, J!AtRest(jobClient[c]), J!NoChange, "idle")
  <2> DEFINE p == J!AtRest(jobClient[c])
             q == [p EXCEPT !.pc = "lock", !.change = J!NoChange, !.then = "idle"]
  <2>1. p \in JobClients
    BY <1>1, JobRests
  <2>2. J!NoChange \in JobChanges /\ J!NoChange.kind = "rewrite"
    BY DEF JobChanges, J!NoChange
  <2>3. jobClient' = [jobClient EXCEPT ![c] = q]
    BY <1>4 DEF J!Changing
  <2> HIDE DEF p
  <2>4. q \in JobClients /\ q.pc = "lock" /\ Honest(q, jobRegistry, jobOver)
    BY <2>1, <2>2, JobChanging
  <2> HIDE DEF q
  <2>5. QED
    BY <1>1, <1>2, <2>3, <2>4, JobClientKeeps DEF J!slurmSide
<1>5. QED
  BY <1>3, <1>4 DEF J!Annotate, J!QueryFails

\* sbatch: a job that is submitted is pending, and will be recorded as that.
LEMMA JobCallSbatch ==
  ASSUME JobInv, NEW c \in Clients, J!CallSbatch(c, jobSubject)
  PROVE  JobInv'
<1>1. /\ jobClient[c] \in JobClients /\ jobClient \in [Clients -> JobClients]
      /\ jobTold \intersect Singles \subseteq jobOver
      /\ jobSubject \in J!Jobs /\ jobTasks \in [J!AllTasks -> TaskStates] /\ jobAccounted \subseteq J!AllTasks
      /\ \A j \in Singles : Real(j, jobTasks[<<j, 1>>], jobOver)
  BY DEF JobInv, JobTyped, JobsAreTracked, J!TerminalIsReal
<1>2. /\ jobSubject' = jobSubject /\ jobAccounted' = jobAccounted /\ jobOver' = jobOver
      /\ jobRegistry' = jobRegistry /\ jobLock' = jobLock /\ jobKept' = jobKept /\ jobTold' = jobTold
  BY DEF J!CallSbatch
<1>3. jobTasks' \in [J!AllTasks -> TaskStates] /\ \A j \in Singles : Real(j, jobTasks'[<<j, 1>>], jobOver')
  <2>1. CASE jobTasks' = jobTasks
    BY <2>1, <1>1, <1>2
  <2>2. CASE jobTasks' = [k \in J!AllTasks |-> IF k[1] = jobSubject THEN "PENDING" ELSE jobTasks[k]]
    <3>1. "PENDING" \in TaskStates /\ "PENDING" \notin J!TERMINAL_STATES
      BY DEF TaskStates, J!Live, J!TERMINAL_STATES
    <3>2. jobTasks' \in [J!AllTasks -> TaskStates]
      BY <2>2, <3>1, <1>1
    <3>3. ASSUME NEW j \in Singles PROVE Real(j, jobTasks'[<<j, 1>>], jobOver')
      <4>1. <<j, 1>> \in J!AllTasks
        BY JobStatesFacts DEF J!Jobs
      <4>2. jobTasks'[<<j, 1>>] \in {"PENDING", jobTasks[<<j, 1>>]}
        BY <4>1, <2>2
      <4>3. QED
        BY <4>2, <3>1, <1>1, <1>2 DEF Real
    <3>4. QED
      BY <3>2, <3>3
  <2>3. QED
    BY <2>1, <2>2 DEF J!CallSbatch
<1>4. PICK q \in JobClients : jobClient' = [jobClient EXCEPT ![c] = q] /\ q.pc # "locked" /\ Honest(q, jobRegistry, jobOver)
  <2>1. CASE J!Done(c)
    BY <2>1, <1>1, JobRests DEF J!Done
  <2>2. ASSUME NEW then \in {"annotate", "idle"},
               J!Changing(c, [jobClient[c] EXCEPT !.cached = FALSE],
                          [kind |-> "put", job |-> jobSubject, state |-> "PENDING"], then)
        PROVE  \E q \in JobClients : /\ jobClient' = [jobClient EXCEPT ![c] = q]
                                     /\ q.pc # "locked" /\ Honest(q, jobRegistry, jobOver)
    <3> DEFINE p == [jobClient[c] EXCEPT !.cached = FALSE]
               change == [kind |-> "put", job |-> jobSubject, state |-> "PENDING"]
               q == [p EXCEPT !.pc = "lock", !.change = change, !.then = then]
    <3>1. p \in JobClients
      BY <1>1 DEF JobClients
    <3>2. change \in JobChanges
      BY <1>1 DEF JobChanges, JobStates, TaskStates, J!Live
    <3>3. Real(change.job, change.state, jobOver)
      BY DEF Real, J!TERMINAL_STATES
    <3>4. jobClient' = [jobClient EXCEPT ![c] = q]
      BY <2>2 DEF J!Changing
    <3> HIDE DEF p, change
    <3>5. then \in {"idle", "sbatch", "annotate", "look"} /\ then # "look"
      OBVIOUS
    <3>6. q \in JobClients /\ q.pc = "lock" /\ Honest(q, jobRegistry, jobOver)
      <4>1. /\ q \in JobClients /\ q.pc = "lock" /\ q.change = change /\ q.then = then /\ q.job = p.job
        BY <3>1, <3>2, <3>5 DEF JobClients
      <4> HIDE DEF q
      <4>2. Honest(q, jobRegistry, jobOver)
        BY <4>1, <3>3, <3>5 DEF Honest
      <4>3. QED
        BY <4>1, <4>2
    <3> HIDE DEF q
    <3>7. QED
      BY <3>4, <3>6
  <2>3. QED
    BY <2>1, <2>2 DEF J!CallSbatch
<1>5. jobClient' \in [Clients -> JobClients]
  BY <1>1, <1>4
<1>6. ASSUME NEW k \in Clients
      PROVE  /\ jobClient'[k] = jobClient[k] \/ Honest(jobClient'[k], jobRegistry, jobOver')
             /\ jobClient'[k].pc = "locked" => jobLock' = k
  <2>1. CASE k = c
    BY <2>1, <1>1, <1>2, <1>4
  <2>2. CASE k # c
    BY <2>2, <1>1, <1>2, <1>4 DEF JobInv
  <2>3. QED
    BY <2>1, <2>2
<1>7. QED
  BY <1>1, <1>2, <1>3, <1>5, <1>6, JobKeeps

\* scancel: what it cancels is over.
LEMMA JobCancel ==
  ASSUME JobInv, NEW c \in Clients, J!cancel(c, jobSubject)
  PROVE  JobInv'
<1>1. /\ jobClient[c] \in JobClients /\ jobClient \in [Clients -> JobClients]
      /\ jobTold \intersect Singles \subseteq jobOver
      /\ jobSubject \in J!Jobs /\ jobTasks \in [J!AllTasks -> TaskStates] /\ jobAccounted \subseteq J!AllTasks
      /\ \A j \in Singles : Real(j, jobTasks[<<j, 1>>], jobOver)
  BY DEF JobInv, JobTyped, JobsAreTracked, J!TerminalIsReal
<1>2. /\ jobSubject' = jobSubject /\ jobAccounted' = jobAccounted
      /\ jobRegistry' = jobRegistry /\ jobLock' = jobLock /\ jobKept' = jobKept /\ jobTold' = jobTold
      /\ jobTasks' = [k \in J!AllTasks |->
                        IF k[1] = jobSubject /\ jobTasks[k] \in J!Live THEN "CANCELLED" ELSE jobTasks[k]]
      /\ jobOver' = IF \E t \in J!Tasks(jobSubject) : jobTasks[<<jobSubject, t>>] \in J!Live
                      THEN jobOver \union {jobSubject} ELSE jobOver
      /\ jobClient[c].pc = "idle"
  BY DEF J!cancel, J!Asked
<1>3. jobOver \subseteq jobOver'
  BY <1>2
<1>4. jobTasks' \in [J!AllTasks -> TaskStates]
  BY <1>1, <1>2 DEF TaskStates, J!TERMINAL_STATES
<1>5. ASSUME NEW j \in Singles PROVE Real(j, jobTasks'[<<j, 1>>], jobOver')
  <2>1. <<j, 1>> \in J!AllTasks /\ J!Tasks(j) = {1}
    BY JobStatesFacts DEF J!Jobs
  <2>2. CASE j = jobSubject /\ jobTasks[<<j, 1>>] \in J!Live
    BY <2>1, <2>2, <1>2 DEF Real
  <2>3. CASE ~(j = jobSubject /\ jobTasks[<<j, 1>>] \in J!Live)
    <3>1. jobTasks'[<<j, 1>>] = jobTasks[<<j, 1>>]
      BY <2>1, <2>3, <1>2
    <3>2. QED
      BY <3>1, <1>1, <1>3 DEF Real
  <2>4. QED
    BY <2>2, <2>3
<1>6. jobClient' = [jobClient EXCEPT ![c] = [jobClient[c] EXCEPT !.cached = FALSE, !.rows = {}]]
  BY <1>1 DEF J!cancel
<1>7. /\ [jobClient[c] EXCEPT !.cached = FALSE, !.rows = {}] \in JobClients
      /\ [jobClient[c] EXCEPT !.cached = FALSE, !.rows = {}].pc = "idle"
  BY <1>1, <1>2 DEF JobClients
<1>8. ASSUME NEW k \in Clients
      PROVE  /\ jobClient'[k] = jobClient[k] \/ Honest(jobClient'[k], jobRegistry, jobOver')
             /\ jobClient'[k].pc = "locked" => jobLock' = k
  <2>1. CASE k = c
    BY <2>1, <1>1, <1>2, <1>6, <1>7 DEF Honest
  <2>2. CASE k # c
    BY <2>2, <1>1, <1>2, <1>6 DEF JobInv
  <2>3. QED
    BY <2>1, <2>2
<1>9. jobClient' \in [Clients -> JobClients]
  BY <1>1, <1>6, <1>7
<1>10. QED
  BY <1>1, <1>2, <1>3, <1>4, <1>5, <1>8, <1>9, JobKeeps

\* The scheduler moves a job: a single job that ends is over.
LEMMA JobMoves ==
  ASSUME JobInv, NEW t \in J!Tasks(jobSubject), NEW s \in J!Live \union J!TERMINAL_STATES,
         J!JobMoves(jobSubject, t, s)
  PROVE  JobInv'
<1>1. /\ jobClient \in [Clients -> JobClients]
      /\ jobTold \intersect Singles \subseteq jobOver
      /\ jobSubject \in J!Jobs /\ jobTasks \in [J!AllTasks -> TaskStates] /\ jobAccounted \subseteq J!AllTasks
      /\ \A j \in Singles : Real(j, jobTasks[<<j, 1>>], jobOver)
  BY DEF JobInv, JobTyped, JobsAreTracked, J!TerminalIsReal
<1>2. /\ jobSubject' = jobSubject /\ jobAccounted' = jobAccounted /\ jobClient' = jobClient
      /\ jobRegistry' = jobRegistry /\ jobLock' = jobLock /\ jobKept' = jobKept /\ jobTold' = jobTold
      /\ jobTasks' = [k \in J!AllTasks |->
                        IF k = <<jobSubject, t>> \/ (k[1] = jobSubject /\ jobTasks[k] = "none")
                          THEN s ELSE jobTasks[k]]
      /\ jobOver' = IF \A u \in J!Tasks(jobSubject) : J!is_terminal(jobTasks'[<<jobSubject, u>>])
                      THEN jobOver \union {jobSubject} ELSE jobOver
  BY DEF J!JobMoves
<1>3. jobOver \subseteq jobOver'
  BY <1>2
<1>4. jobTasks' \in [J!AllTasks -> TaskStates]
  BY <1>1, <1>2 DEF TaskStates
<1>5. ASSUME NEW j \in Singles PROVE Real(j, jobTasks'[<<j, 1>>], jobOver')
  <2>1. <<j, 1>> \in J!AllTasks /\ J!Tasks(j) = {1}
    BY JobStatesFacts DEF J!Jobs
  <2>2. CASE j = jobSubject
    BY <2>1, <2>2, <1>2 DEF Real, J!is_terminal
  <2>3. CASE j # jobSubject
    <3>1. jobTasks'[<<j, 1>>] = jobTasks[<<j, 1>>]
      BY <2>1, <2>3, <1>2
    <3>2. QED
      BY <3>1, <1>1, <1>3 DEF Real
  <2>4. QED
    BY <2>2, <2>3
<1>6. QED
  BY <1>1, <1>2, <1>3, <1>4, <1>5, JobKeeps DEF JobInv

\* Accounting learns and forgets.
LEMMA JobAccounting ==
  ASSUME JobInv, NEW t \in J!Tasks(jobSubject), J!AccountingChanges(<<jobSubject, t>>)
  PROVE  JobInv'
<1>1. /\ jobClient \in [Clients -> JobClients] /\ jobAccounted \subseteq J!AllTasks /\ jobSubject \in J!Jobs
      /\ jobTold \intersect Singles \subseteq jobOver /\ jobTasks \in [J!AllTasks -> TaskStates]
      /\ \A j \in Singles : Real(j, jobTasks[<<j, 1>>], jobOver)
  BY DEF JobInv, JobTyped, JobsAreTracked, J!TerminalIsReal
<1>2. <<jobSubject, t>> \in J!AllTasks
  BY <1>1 DEF J!AllTasks, J!Tasks
<1>3. jobAccounted' \subseteq J!AllTasks
  BY <1>1, <1>2 DEF J!AccountingChanges
<1>4. /\ jobSubject' = jobSubject /\ jobTasks' = jobTasks /\ jobOver' = jobOver /\ jobRegistry' = jobRegistry
      /\ jobLock' = jobLock /\ jobClient' = jobClient /\ jobKept' = jobKept /\ jobTold' = jobTold
  BY DEF J!AccountingChanges
<1>5. QED
  BY <1>1, <1>3, <1>4, JobKeeps DEF JobInv

\* The rows of the queue are of jobs that live.
LEMMA JobQueueRows == J!QueueRows \subseteq J!AllTasks \X J!Live
  BY DEF J!QueueRows

\* The queue, read or cached, and the record are looked at.
LEMMA JobLook ==
  ASSUME JobInv, NEW c \in Clients, J!Look(c)
  PROVE  JobInv'
<1>1. /\ jobClient[c] \in JobClients /\ jobRegistry \in JobFiles
      /\ jobTold \intersect Singles \subseteq jobOver
      /\ jobClient[c].job \in J!Jobs
      /\ \A j \in J!Jobs : Real(j, jobRegistry[j].state, jobOver)
  BY DEF JobInv, JobTyped, JobsAreTracked, J!TerminalIsReal, Honest, J!Look
<1>2. PICK rows \in {J!QueueRows} \union {jobClient[c].rows} :
        jobClient' = [jobClient EXCEPT ![c] = [jobClient[c] EXCEPT
          !.pc = "resolve", !.rec = jobRegistry[jobClient[c].job], !.rows = rows, !.cached = TRUE]]
  BY DEF J!Look
<1> DEFINE q == [jobClient[c] EXCEPT
                   !.pc = "resolve", !.rec = jobRegistry[jobClient[c].job], !.rows = rows, !.cached = TRUE]
<1>3. rows \in SUBSET (J!AllTasks \X J!Live)
  BY <1>1, JobQueueRows DEF JobClients
<1>4. jobRegistry[jobClient[c].job] \in JobRecords
  BY <1>1 DEF JobFiles
<1>5. /\ q \in JobClients /\ q.pc = "resolve" /\ q.job = jobClient[c].job
      /\ q.rec = jobRegistry[jobClient[c].job]
  BY <1>1, <1>3, <1>4 DEF JobClients
<1>6. jobClient' = [jobClient EXCEPT ![c] = q]
  BY <1>2
<1> HIDE DEF q
<1>7. Honest(q, jobRegistry, jobOver)
  BY <1>1, <1>5 DEF Honest
<1>8. QED
  BY <1>1, <1>5, <1>6, <1>7, JobClientKeeps DEF J!Look, J!slurmSide

\* What the queue or accounting tells of a single job is so, or was.
LEMMA JobSeen ==
  ASSUME JobInv, NEW j \in J!Jobs, NEW rows \in SUBSET (J!AllTasks \X J!Live)
  PROVE  /\ J!Seen(j, rows) \subseteq TaskStates
         /\ \A s \in J!Seen(j, rows) : Real(j, s, jobOver)
<1> SUFFICES ASSUME NEW s \in J!Seen(j, rows)
             PROVE  s \in TaskStates /\ Real(j, s, jobOver)
  OBVIOUS
<1>1. \/ \E r \in rows : s = r[2]
      \/ \E k \in jobAccounted : k[1] = j /\ s = jobTasks[k]
  BY DEF J!Seen
<1>2. CASE \E r \in rows : s = r[2]
  <2>1. s \in J!Live
    BY <1>2
  <2>2. QED
    BY <2>1 DEF TaskStates, J!Live, J!TERMINAL_STATES, Real
<1>3. ASSUME NEW k \in jobAccounted, k[1] = j, s = jobTasks[k]
      PROVE  s \in TaskStates /\ Real(j, s, jobOver)
  <2>1. k \in J!AllTasks /\ s \in TaskStates
    BY <1>3 DEF JobInv, JobTyped
  <2>2. ASSUME j \in Singles PROVE Real(j, s, jobOver)
    <3>1. k = <<j, 1>>
      BY <1>3, <2>1, <2>2, JobStatesFacts
    <3>2. QED
      BY <1>3, <2>2, <3>1 DEF JobInv
  <2>3. QED
    BY <2>1, <2>2 DEF Real
<1>4. QED
  BY <1>1, <1>2, <1>3

\* So is the verdict, whichever source it is from.
LEMMA JobVerdict ==
  ASSUME JobInv, NEW c \in Clients, NEW control \in BOOLEAN, jobClient[c].pc = "resolve"
  PROVE  /\ J!reconcile_job(c, control).state \in JobStates
         /\ Real(jobClient[c].job, J!reconcile_job(c, control).state, jobOver)
         /\ J!reconcile_job(c, control).over /\ jobClient[c].job \in Singles => jobClient[c].job \in jobOver
<1> DEFINE p == jobClient[c]
           v == J!reconcile_job(c, control)
           live == IF p.refresh THEN J!QueueRows ELSE p.rows
           states == J!Seen(p.job, IF p.job \in Singles THEN live ELSE p.rows)
           retained == J!Retained(p.rec)
           task == jobTasks[<<p.job, 1>>]
<1>1. /\ p \in JobClients /\ p.job \in J!Jobs /\ Real(p.job, p.rec.state, jobOver)
      /\ p.rows \in SUBSET (J!AllTasks \X J!Live) /\ p.rec \in JobRecords
  BY DEF JobInv, JobTyped, Honest, JobClients
<1>2. /\ task \in TaskStates /\ Real(p.job, task, jobOver)
  <2>1. <<p.job, 1>> \in J!AllTasks
    BY <1>1, JobStatesFacts
  <2>2. QED
    BY <2>1 DEF JobInv, JobTyped, Real
<1>3. states \subseteq TaskStates /\ \A s \in states : Real(p.job, s, jobOver)
  BY <1>1, JobQueueRows, JobSeen
<1>4. /\ retained.state \in JobStates /\ Real(p.job, retained.state, jobOver)
      /\ retained.over => Real(p.job, "COMPLETED", jobOver)
  <2>1. p.rec.state \in JobStates
    BY <1>1 DEF JobRecords
  <2>2. CASE J!is_terminal(p.rec.state)
    BY <1>1, <2>1, <2>2 DEF J!Retained, J!Verdict, J!is_terminal, Real
  <2>3. CASE ~J!is_terminal(p.rec.state) /\ p.rec.seen = "now"
    BY <1>1, <2>1, <2>3 DEF J!Retained, J!Verdict, J!is_terminal, Real
  <2>4. CASE ~J!is_terminal(p.rec.state) /\ p.rec.seen # "now"
    BY <2>4 DEF J!Retained, J!Verdict, Real, J!TERMINAL_STATES, JobStates
  <2>5. QED
    BY <2>2, <2>3, <2>4
<1>5. v = IF p.job \in Arrays
            THEN IF states # {} THEN J!Verdict(J!aggregate_array(states), "array", states \subseteq J!TERMINAL_STATES)
                 ELSE [retained EXCEPT !.over = retained.over \/ retained.state = "UNKNOWN"]
            ELSE IF states # {} THEN LET s == CHOOSE s \in states : TRUE IN J!Verdict(s, "slurm", J!is_terminal(s))
                 ELSE IF control /\ task # "none" THEN J!Verdict(task, "scontrol", J!is_terminal(task))
                 ELSE retained
  BY DEF J!reconcile_job
<1> HIDE DEF v, states, retained, task
<1>6. CASE p.job \in Arrays
  <2>1. p.job \notin Singles
    BY <1>6, JobsAssumption
  <2>2. v.state \in JobStates
    <3>1. J!aggregate_array(states) \in JobStates
      BY DEF J!aggregate_array, JobStates, TaskStates, J!Live, J!TERMINAL_STATES
    <3>2. CASE states # {}
      BY <1>5, <1>6, <3>1, <3>2 DEF J!Verdict
    <3>3. CASE states = {}
      <4>1. v.state = retained.state
        BY <1>5, <1>6, <3>3 DEF retained, J!Retained, J!Verdict
      <4>2. QED
        BY <4>1, <1>4
    <3>4. QED
      BY <3>2, <3>3
  <2>3. QED
    BY <2>1, <2>2 DEF v, Real
<1>7. CASE p.job \notin Arrays
  <2>1. CASE states # {}
    <3>1. PICK s \in states : v = J!Verdict(s, "slurm", J!is_terminal(s))
      BY <1>5, <1>7, <2>1
    <3>2. v.state = s /\ v.over = (s \in J!TERMINAL_STATES)
      BY <3>1 DEF J!Verdict, J!is_terminal
    <3>3. QED
      BY <3>2, <1>3 DEF v, Real, JobStates
  <2>2. CASE states = {} /\ control /\ task # "none"
    <3>1. v.state = task /\ v.over = (task \in J!TERMINAL_STATES)
      BY <1>5, <1>7, <2>2 DEF J!Verdict, J!is_terminal
    <3>2. QED
      BY <3>1, <1>2 DEF v, Real, JobStates
  <2>3. CASE states = {} /\ ~(control /\ task # "none")
    <3>1. v = retained
      BY <1>5, <1>7, <2>3
    <3>2. QED
      BY <3>1, <1>4 DEF v, Real, J!TERMINAL_STATES
  <2>4. QED
    BY <2>1, <2>2, <2>3
<1>8. QED
  BY <1>6, <1>7

\* The verdict is told, and written back.
LEMMA JobResolve ==
  ASSUME JobInv, NEW c \in Clients, NEW control \in BOOLEAN, J!Resolve(c, control)
  PROVE  JobInv'
<1> DEFINE p == jobClient[c]
           v == J!reconcile_job(c, control)
<1>1. /\ p \in JobClients /\ p.pc = "resolve" /\ p.job \in J!Jobs
      /\ jobTold \intersect Singles \subseteq jobOver
  BY DEF J!Resolve, JobInv, JobTyped, Honest, JobsAreTracked, J!TerminalIsReal
<1>2. /\ v.state \in JobStates /\ Real(p.job, v.state, jobOver)
      /\ v.over /\ p.job \in Singles => p.job \in jobOver
  BY <1>1, JobVerdict
<1>3. jobTold' = IF v.over THEN jobTold \union {p.job} ELSE jobTold
  BY DEF J!Resolve
<1>4. \/ J!Done(c)
      \/ \E kind \in {"put", "update"} :
           J!Changing(c, J!AtRest(p), [kind |-> kind, job |-> p.job, state |-> v.state], "idle")
  BY DEF J!Resolve
<1> HIDE DEF v
<1>5. jobTold' \intersect Singles \subseteq jobOver
  BY <1>1, <1>2, <1>3
<1>6. PICK q \in JobClients : jobClient' = [jobClient EXCEPT ![c] = q] /\ q.pc # "locked" /\ Honest(q, jobRegistry, jobOver)
  <2>1. CASE J!Done(c)
    BY <2>1, <1>1, JobRests DEF J!Done
  <2>2. ASSUME NEW kind \in {"put", "update"},
               J!Changing(c, J!AtRest(p), [kind |-> kind, job |-> p.job, state |-> v.state], "idle")
        PROVE  \E q \in JobClients : /\ jobClient' = [jobClient EXCEPT ![c] = q]
                                     /\ q.pc # "locked" /\ Honest(q, jobRegistry, jobOver)
    <3> DEFINE r == J!AtRest(p)
               change == [kind |-> kind, job |-> p.job, state |-> v.state]
               q == [r EXCEPT !.pc = "lock", !.change = change, !.then = "idle"]
    <3>1. r \in JobClients
      BY <1>1, JobRests
    <3>2. change \in JobChanges
      BY <1>1, <1>2 DEF JobChanges
    <3>3. Real(change.job, change.state, jobOver)
      BY <1>2
    <3>4. jobClient' = [jobClient EXCEPT ![c] = q]
      BY <2>2 DEF J!Changing
    <3> HIDE DEF r, change
    <3>5. q \in JobClients /\ q.pc = "lock" /\ Honest(q, jobRegistry, jobOver)
      BY <3>1, <3>2, <3>3, JobChanging
    <3> HIDE DEF q
    <3>6. QED
      BY <3>4, <3>5
  <2>3. QED
    BY <2>1, <2>2, <1>4
<1>7. QED
  BY <1>5, <1>6, JobClientKeeps DEF J!Resolve, J!slurmSide

\* What a change makes of each record of the file.
LEMMA JobApplied ==
  ASSUME NEW change \in JobChanges, NEW reg \in JobFiles
  PROVE  /\ J!Applied(change, reg) \in JobFiles
         /\ \A j \in J!Jobs :
              \/ change.kind = "put" /\ j = change.job /\ J!Applied(change, reg)[j] = J!Record(change.state)
              \/ /\ change.kind = "update" /\ j = change.job /\ reg[j] # J!NoRecord
                 /\ J!Applied(change, reg)[j] = J!Record(change.state)
              \/ change.kind = "prune" /\ J!Prunable(reg[j]) /\ J!Applied(change, reg)[j] = J!NoRecord
              \/ /\ ~(change.kind = "put" /\ j = change.job) /\ ~(change.kind = "prune" /\ J!Prunable(reg[j]))
                 /\ J!Applied(change, reg)[j] = reg[j]
<1>1. \/ change = [kind |-> "rewrite"]
      \/ change = [kind |-> "prune"]
      \/ change \in [kind : {"put", "update"}, job : J!Jobs, state : JobStates]
  BY DEF JobChanges, J!NoChange
<1>2. reg \in [J!Jobs -> JobRecords]
  BY DEF JobFiles
<1>3. CASE change = [kind |-> "rewrite"]
  BY <1>2, <1>3 DEF J!Applied, JobFiles
<1>4. CASE change = [kind |-> "prune"]
  <2>1. J!Applied(change, reg) = [j \in J!Jobs |-> IF J!Prunable(reg[j]) THEN J!NoRecord ELSE reg[j]]
    BY <1>4 DEF J!Applied
  <2>2. QED
    BY <1>2, <1>4, <2>1, JobStatesFacts DEF JobFiles
<1>5. CASE change \in [kind : {"put", "update"}, job : J!Jobs, state : JobStates]
  <2> DEFINE new == J!Record(change.state)
  <2>1. new \in JobRecords /\ change.job \in J!Jobs
    BY <1>5, JobStatesFacts
  <2>2. CASE change.kind = "put"
    <3>1. J!Applied(change, reg) = [reg EXCEPT ![change.job] = new]
      BY <2>2 DEF J!Applied
    <3> HIDE DEF new
    <3>2. J!Applied(change, reg) \in JobFiles
      BY <1>2, <2>1, <3>1 DEF JobFiles
    <3>3. QED
      BY <1>2, <2>1, <2>2, <3>1, <3>2 DEF new
  <2>3. CASE change.kind = "update"
    <3>1. J!Applied(change, reg) =
            [reg EXCEPT ![change.job] = IF reg[change.job] = J!NoRecord THEN reg[change.job] ELSE new]
      BY <2>3 DEF J!Applied
    <3> HIDE DEF new
    <3>2. J!Applied(change, reg) \in JobFiles
      BY <1>2, <2>1, <3>1 DEF JobFiles
    <3>3. QED
      BY <1>2, <2>1, <2>3, <3>1, <3>2 DEF new
  <2>4. QED
    BY <1>5, <2>2, <2>3
<1>6. QED
  BY <1>1, <1>3, <1>4, <1>5

\* The registry is replaced, by its holder's copy with one change.
LEMMA JobReplace ==
  ASSUME JobInv, NEW c \in Clients, J!Replace(c)
  PROVE  JobInv'
<1> DEFINE p == jobClient[c]
           new == J!Applied(p.change, jobRegistry)
           gone == {j \in J!Jobs : J!Prunable(jobRegistry[j])}
<1>1. /\ p \in JobClients /\ p.pc = "locked" /\ p.copy = jobRegistry /\ jobLock = c
      /\ jobRegistry \in JobFiles /\ p.change \in JobChanges
      /\ p.change.kind \in {"put", "update"} => Real(p.change.job, p.change.state, jobOver)
  BY DEF J!Replace, JobInv, JobTyped, Honest, JobClients
<1>2. /\ jobSubject' = jobSubject /\ jobTasks' = jobTasks /\ jobAccounted' = jobAccounted /\ jobOver' = jobOver
      /\ jobRegistry' = new
      /\ jobKept' = IF p.change.kind = "put" THEN jobKept \union {p.change.job}
                    ELSE IF p.change.kind = "prune" THEN jobKept \ gone ELSE jobKept
      /\ jobTold' = IF p.change.kind = "prune" THEN jobTold \union gone ELSE jobTold
  BY <1>1 DEF J!Replace, J!slurmSide
<1>3. PICK q \in JobClients : /\ jobClient' = [jobClient EXCEPT ![c] = q] /\ q.pc \in {"idle", "sbatch", "annotate", "look"}
                              /\ q.pc = "look" => q.job \in J!Jobs
  <2>1. CASE p.then = "idle"
    <3>1. jobClient' = [jobClient EXCEPT ![c] = J!AtRest(p)]
      BY <2>1 DEF J!Replace, J!Done
    <3>2. QED
      BY <1>1, <3>1, JobRests
  <2>2. CASE p.then # "idle"
    <3> DEFINE r == [p EXCEPT !.pc = p.then, !.copy = J!NoFile, !.change = J!NoChange]
    <3>1. r \in JobClients /\ r.pc = p.then /\ r.job = p.job
      BY <1>1, JobStatesFacts DEF JobClients, JobChanges
    <3>2. p.then \in {"idle", "sbatch", "annotate", "look"}
      BY <1>1 DEF JobClients
    <3>3. jobClient' = [jobClient EXCEPT ![c] = r]
      BY <2>2 DEF J!Replace, JobInv, JobTyped
    <3>4. p.then = "look" => p.job \in J!Jobs
      BY <1>1 DEF JobInv, Honest
    <3> HIDE DEF r
    <3>5. QED
      BY <3>1, <3>2, <3>3, <3>4
  <2>3. QED
    BY <2>1, <2>2
<1>4. /\ new \in JobFiles
      /\ \A j \in J!Jobs :
           \/ p.change.kind = "put" /\ j = p.change.job /\ new[j] = J!Record(p.change.state)
           \/ p.change.kind = "update" /\ j = p.change.job /\ jobRegistry[j] # J!NoRecord /\ new[j] = J!Record(p.change.state)
           \/ p.change.kind = "prune" /\ J!Prunable(jobRegistry[j]) /\ new[j] = J!NoRecord
           \/ /\ ~(p.change.kind = "put" /\ j = p.change.job)
              /\ ~(p.change.kind = "prune" /\ J!Prunable(jobRegistry[j]))
              /\ new[j] = jobRegistry[j]
  BY <1>1, JobApplied
<1>5. p.change.kind \in {"put", "update"} =>
        p.change.job \in J!Jobs /\ p.change.state \in JobStates
  BY <1>1 DEF JobChanges, J!NoChange
<1> HIDE DEF p, new
<1>6. JobTyped'
  <2>1. jobKept \subseteq J!Jobs /\ jobClient \in [Clients -> JobClients]
    BY DEF JobInv, JobTyped
  <2>2. jobKept' \subseteq J!Jobs
    BY <1>2, <1>5, <2>1
  <2>3. jobClient' \in [Clients -> JobClients]
    BY <1>3, <2>1
  <2>4. QED
    BY <1>2, <1>4, <2>2, <2>3 DEF JobInv, JobTyped
<1>7. ASSUME NEW k \in Clients
      PROVE  Honest(jobClient'[k], jobRegistry', jobOver') /\ (jobClient'[k].pc = "locked" => jobLock' = k)
  <2>1. CASE k = c
    <3>1. jobClient'[k] = q
      BY <2>1, <1>3 DEF JobInv, JobTyped
    <3>2. QED
      BY <3>1, <1>3 DEF Honest
  <2>2. CASE k # c
    <3>1. jobClient'[k] = jobClient[k] /\ jobClient[k].pc # "locked"
      BY <2>2, <1>1, <1>3 DEF JobInv, JobTyped
    <3>2. QED
      BY <3>1, <1>2 DEF JobInv, Honest
  <2>3. QED
    BY <2>1, <2>2
<1>8. ASSUME NEW j \in J!Jobs PROVE Real(j, jobRegistry'[j].state, jobOver')
  <2>1. Real(j, jobRegistry[j].state, jobOver)
    BY DEF JobInv
  <2>2. \A s : J!Record(s).state = s
    BY DEF J!Record
  <2>3. J!NoRecord.state \notin J!TERMINAL_STATES
    BY DEF J!NoRecord, J!TERMINAL_STATES
  <2>4. QED
    BY <1>1, <1>2, <1>4, <2>1, <2>2, <2>3 DEF Real, p
<1>9. J!NoLostRecord'
  <2> SUFFICES ASSUME NEW j \in jobKept' PROVE jobRegistry'[j] # J!NoRecord
    BY DEF J!NoLostRecord
  <2>1. j \in J!Jobs
    BY <1>6 DEF JobTyped
  <2>2. CASE p.change.kind \in {"put", "update"} /\ jobRegistry'[j] = J!Record(p.change.state)
    BY <2>2, <1>5, JobStatesFacts
  <2>3. CASE p.change.kind = "prune" /\ J!Prunable(jobRegistry[j]) /\ new[j] = J!NoRecord
    <3>1. j \in gone /\ jobKept' = jobKept \ gone
      BY <2>1, <2>3, <1>2
    <3>2. QED
      BY <3>1
  <2>4. CASE /\ ~(p.change.kind = "put" /\ j = p.change.job)
             /\ ~(p.change.kind = "prune" /\ J!Prunable(jobRegistry[j]))
             /\ new[j] = jobRegistry[j]
    <3>1. j \in jobKept
      BY <2>4, <1>2
    <3>2. QED
      BY <3>1, <2>4, <1>2 DEF JobInv, JobsAreTracked, J!NoLostRecord
  <2>5. QED
    BY <2>1, <2>2, <2>3, <2>4, <1>2, <1>4
<1>10. J!TerminalIsReal'
  <2>1. \A j \in gone : j \in Singles => j \in jobOver
    BY DEF JobInv, Real, J!Prunable, J!is_terminal
  <2>2. jobTold \intersect Singles \subseteq jobOver
    BY DEF JobInv, JobsAreTracked, J!TerminalIsReal
  <2> HIDE DEF gone
  <2>3. QED
    BY <1>2, <2>1, <2>2 DEF J!TerminalIsReal
<1>11. \A j \in Singles : Real(j, jobTasks'[<<j, 1>>], jobOver')
  BY <1>2 DEF JobInv
<1>12. QED
  BY <1>6, <1>7, <1>8, <1>9, <1>10, <1>11 DEF JobInv, JobsAreTracked

\* Records grow old, while nobody works.
LEMMA JobTimePasses ==
  ASSUME JobInv, J!TimePasses
  PROVE  JobInv'
<1>1. /\ jobRegistry' = [j \in J!Jobs |-> J!Older(jobRegistry[j])]
      /\ jobClient' = [c \in Clients |-> J!Idle]
      /\ jobSubject' = jobSubject /\ jobTasks' = jobTasks /\ jobAccounted' = jobAccounted /\ jobOver' = jobOver
      /\ jobLock' = jobLock /\ jobKept' = jobKept /\ jobTold' = jobTold
  BY DEF J!TimePasses, J!slurmSide
<1>2. jobRegistry \in [J!Jobs -> JobRecords]
  BY DEF JobInv, JobTyped, JobFiles
<1>3. ASSUME NEW r \in JobRecords
      PROVE  /\ J!Older(r) \in JobRecords /\ J!Older(r).state = r.state
             /\ r # J!NoRecord => J!Older(r) # J!NoRecord
  <2> DEFINE seen == CASE r.seen = "now" -> "old" [] r.seen = "old" -> "ancient" [] OTHER -> r.seen
  <2>1. seen \in {"never", "now", "old", "ancient"} /\ (seen = "never" => r.seen = "never")
    BY DEF JobRecords
  <2>2. J!Older(r) = [r EXCEPT !.seen = seen]
    BY DEF J!Older
  <2> HIDE DEF seen
  <2>3. /\ J!Older(r) \in JobRecords /\ J!Older(r).state = r.state /\ J!Older(r).seen = seen
    BY <2>1, <2>2 DEF JobRecords
  <2>4. ASSUME J!Older(r) = J!NoRecord PROVE r = J!NoRecord
    <3>1. r.seen = "never" /\ r.state = "none"
      BY <2>1, <2>3, <2>4 DEF J!NoRecord
    <3>2. QED
      BY <3>1 DEF J!NoRecord, JobRecords
  <2>5. QED
    BY <2>3, <2>4
<1>4. JobTyped'
  BY <1>1, <1>2, <1>3, JobStatesFacts DEF JobInv, JobTyped, JobFiles
<1>5. \A c \in Clients : /\ Honest(jobClient'[c], jobRegistry', jobOver')
                         /\ jobClient'[c].pc # "locked"
  BY <1>1 DEF Honest, J!Idle
<1>6. \A j \in J!Jobs : Real(j, jobRegistry'[j].state, jobOver')
  BY <1>1, <1>2, <1>3 DEF JobInv
<1>7. J!NoLostRecord'
  BY <1>1, <1>2, <1>3 DEF JobInv, JobTyped, JobsAreTracked, J!NoLostRecord
<1>8. QED
  BY <1>1, <1>4, <1>5, <1>6, <1>7 DEF JobInv, JobsAreTracked, J!TerminalIsReal

\* Every step keeps it.
LEMMA JobStep == JobInv /\ [J!JobNext]_jobs => JobInv'
<1> SUFFICES ASSUME JobInv, [J!JobNext]_jobs PROVE JobInv'
  OBVIOUS
<1>1. CASE UNCHANGED jobs
  BY <1>1 DEF jobs, JobInv, JobTyped, Honest, Real, JobsAreTracked, J!NoLostRecord, J!TerminalIsReal
<1>2. CASE J!JobNext
  BY <1>2, JobAsked, JobAnnotate, JobLook, JobLock, JobReplace, JobRegistryFails, JobCrash, JobResolve,
     JobCallSbatch, JobCancel, JobAccounting, JobMoves, JobTimePasses DEF J!JobNext
<1>3. QED
  BY <1>1, <1>2

\* No record is lost that was not pruned, whichever processes write the registry
\* and die, and of a single job nobody is told that it is over before it was.
THEOREM JobsAreKnown ==
  J!JobInit /\ [][J!JobNext]_jobs => []JobsAreTracked
<1>1. J!JobInit => JobInv
  <2> SUFFICES ASSUME J!JobInit PROVE JobInv
    OBVIOUS
  <2>1. PICK recorded \in SUBSET {jobSubject} :
          /\ jobTasks = [k \in J!AllTasks |-> IF k[1] \in recorded THEN "PENDING" ELSE "none"]
          /\ jobRegistry = [j \in J!Jobs |-> IF j \in recorded THEN J!Record("PENDING") ELSE J!NoRecord]
          /\ jobKept = recorded
    BY DEF J!JobInit
  <2>2. /\ jobSubject \in J!Jobs /\ jobAccounted = {} /\ jobTold = {}
        /\ jobClient = [c \in Clients |-> J!Idle]
    BY DEF J!JobInit
  <2>3. "PENDING" \in JobStates /\ {"PENDING", "none"} \subseteq TaskStates \ J!TERMINAL_STATES
    BY DEF JobStates, TaskStates, J!Live, J!TERMINAL_STATES
  <2>4. J!Record("PENDING").state = "PENDING" /\ J!NoRecord.state = "none"
    BY DEF J!Record, J!NoRecord
  <2>5. JobTyped
    BY <2>1, <2>2, <2>3, JobStatesFacts DEF JobTyped, JobFiles
  <2>6. \A c \in Clients : Honest(jobClient[c], jobRegistry, jobOver) /\ jobClient[c].pc # "locked"
    BY <2>2 DEF Honest, J!Idle
  <2>7. \A j \in J!Jobs : Real(j, jobRegistry[j].state, jobOver)
    BY <2>1, <2>3, <2>4 DEF Real
  <2>8. \A j \in Singles : Real(j, jobTasks[<<j, 1>>], jobOver)
    BY <2>1, <2>3, JobStatesFacts DEF Real, J!Jobs
  <2>9. JobsAreTracked
    BY <2>1, <2>2, <2>3, JobStatesFacts DEF JobsAreTracked, J!NoLostRecord, J!TerminalIsReal
  <2>10. QED
    BY <2>5, <2>6, <2>7, <2>8, <2>9 DEF JobInv
<1>2. JobInv => JobsAreTracked
  BY DEF JobInv
<1>3. QED
  BY <1>1, <1>2, JobStep, PTL

------------------------------------------------------------------------------
(* The workspace a user watches *)

Findings == {"none", "RUNNING", "COMPLETED", "UNKNOWN", "failed", "old", "new"}

SpaceTyped ==
  /\ spaceClock \in 1..MaxSpaceClock
  /\ spaceEnded \in 1..S!NEVER
  /\ space \in BOOLEAN
  /\ view \in [state : {"UNOBSERVED", "HEALTHY", "SUSPENDED"}, exec : Findings, at : Nat]
  /\ sample \in [exec : Findings, at : Nat]
  /\ spaceObserver \in [pc : {"idle", "collect", "save", "read", "answer"}, now : Nat, found : Findings,
                        id : 0..MaxInspections]
  /\ requests \in [1..MaxInspections ->
                     [state : {"none", "QUEUED", "DONE", "ERROR"}, born : Nat, joined : Nat, at : Nat,
                      content : Findings]]
  /\ spaceAsked \in 0..MaxInspections

\* The observer works for a tick at most, and a sample serves no longer.
Punctual(clock, s, p, v) ==
  /\ s.at <= clock /\ (s = S!NoSample \/ clock <= s.at + 1)
  /\ v.at <= clock
  /\ p.pc # "idle" => p.now <= clock /\ clock <= p.now + 1

\* What is found, sampled or shown was so when it says, or a tick before.
Dated(ended, s, p, v) ==
  /\ s.exec = "RUNNING" => ended >= s.at
  /\ p.pc = "save" /\ p.found = "RUNNING" => ended + 1 >= p.now
  /\ p.pc = "answer" /\ p.found = "old" => ended >= p.now
  /\ v.exec = "RUNNING" => ended + 1 >= v.at
  /\ "COMPLETED" \in {s.exec, p.found, v.exec} => ended # S!NEVER

\* Nobody joined later than now, nor an answer when it may not serve.
Answers(clock, ended, rs) ==
  \A i \in 1..MaxInspections :
    /\ rs[i].joined <= clock /\ rs[i].at <= clock
    /\ rs[i].state = "DONE" /\ rs[i].content = "old" => ended + 1 >= rs[i].joined /\ ended >= rs[i].at

SpaceInv ==
  /\ SpaceTyped
  /\ Punctual(spaceClock, sample, spaceObserver, view)
  /\ Dated(spaceEnded, sample, spaceObserver, view)
  /\ Answers(spaceClock, spaceEnded, requests)


\* A set of numbers that is not empty has a least one.
LEMMA Least ==
  ASSUME NEW T, T \subseteq Nat, T # {}
  PROVE  \E m \in T : \A k \in T : m <= k
<1> DEFINE Less == OpToRel(<, Nat)
<1>1. IsWellFoundedOn(Less, Nat)
  BY NatLessThanWellFounded, Zenon
<1>2. \A k, m \in Nat : k < m => <<k, m>> \in Less
  BY Zenon DEF OpToRel
<1> HIDE DEF Less
<1>3. PICK m \in T : \A k \in T : ~(<<k, m>> \in Less)
  BY <1>1, WFMin
<1>4. \A k \in T : ~(k < m)
  BY <1>2, <1>3
<1>5. QED
  BY <1>4

\* Time passes: what was found or sampled is a tick older.
LEMMA SpaceTimePasses ==
  ASSUME SpaceInv, S!TimePasses
  PROVE  SpaceInv'
<1>1. /\ spaceClock \in 1..MaxSpaceClock /\ spaceClock < MaxSpaceClock /\ spaceClock' = spaceClock + 1
      /\ spaceEnded' = spaceEnded /\ space' = space /\ view' = view /\ requests' = requests
      /\ spaceObserver' = spaceObserver /\ spaceAsked' = spaceAsked
      /\ sample \in [exec : Findings, at : Nat]
      /\ spaceObserver.pc # "idle" => spaceObserver.now = spaceClock
  BY DEF S!TimePasses, SpaceInv, SpaceTyped, S!Documents
<1>2. \/ sample' = sample /\ sample.at + 1 > spaceClock
      \/ sample' = S!NoSample
  BY DEF S!TimePasses, S!AGE
<1>3. S!NoSample \in [exec : Findings, at : Nat] /\ S!NoSample.exec = "none" /\ S!NoSample.at = 0
  BY DEF S!NoSample, Findings
<1>4. SpaceTyped'
  <2>1. spaceClock' \in 1..MaxSpaceClock
    BY <1>1, SpaceAssumption
  <2>2. sample' \in [exec : Findings, at : Nat]
    BY <1>1, <1>2, <1>3
  <2>3. QED
    BY <1>1, <2>1, <2>2 DEF SpaceInv, SpaceTyped
<1>5. Punctual(spaceClock, sample, spaceObserver, view)'
  <2>1. /\ sample.at \in Nat /\ sample.at <= spaceClock
        /\ view.at \in Nat /\ view.at <= spaceClock
    BY DEF SpaceInv, SpaceTyped, Punctual
  <2>2. sample'.at <= spaceClock + 1 /\ (sample' = S!NoSample \/ spaceClock + 1 <= sample'.at + 1)
    BY <1>1, <1>2, <1>3, <2>1
  <2>3. QED
    BY <1>1, <2>1, <2>2 DEF Punctual
<1>6. Dated(spaceEnded, sample, spaceObserver, view)'
  <2>1. sample'.exec = "RUNNING" => spaceEnded >= sample'.at
    BY <1>2, <1>3 DEF SpaceInv, Dated
  <2>2. "COMPLETED" = sample'.exec => "COMPLETED" = sample.exec
    BY <1>2, <1>3
  <2>3. QED
    BY <1>1, <2>1, <2>2 DEF SpaceInv, Dated
<1>7. Answers(spaceClock, spaceEnded, requests)'
  BY <1>1 DEF SpaceInv, SpaceTyped, Answers
<1>8. QED
  BY <1>4, <1>5, <1>6, <1>7 DEF SpaceInv

\* The job ends: not before anything that was dated.
LEMMA SpaceJobEnds ==
  ASSUME SpaceInv, S!JobEnds
  PROVE  SpaceInv'
<1>1. /\ spaceClock \in 1..MaxSpaceClock /\ spaceClock' = spaceClock
      /\ spaceEnded = S!NEVER /\ spaceEnded' = spaceClock /\ S!NEVER = MaxSpaceClock + 1
      /\ space' = space /\ view' = view /\ requests' = requests
      /\ sample' = sample /\ spaceObserver' = spaceObserver /\ spaceAsked' = spaceAsked
  BY DEF S!JobEnds, SpaceInv, SpaceTyped, S!Documents, S!NEVER
<1>2. /\ sample.at \in Nat /\ spaceObserver.now \in Nat /\ view.at \in Nat
      /\ \A i \in 1..MaxInspections : requests[i].at \in Nat /\ requests[i].joined \in Nat
  BY DEF SpaceInv, SpaceTyped
<1>3. SpaceTyped'
  BY <1>1, SpaceAssumption DEF SpaceInv, SpaceTyped
<1>4. Punctual(spaceClock, sample, spaceObserver, view)'
  BY <1>1 DEF SpaceInv, Punctual
<1>5. Dated(spaceEnded, sample, spaceObserver, view)'
  <2>1. /\ sample.at <= spaceClock /\ view.at <= spaceClock
        /\ spaceObserver.pc # "idle" => spaceObserver.now <= spaceClock
    BY DEF SpaceInv, Punctual
  <2>2. spaceClock # S!NEVER
    BY <1>1, SpaceAssumption
  <2>3. spaceClock >= sample.at /\ spaceClock + 1 >= view.at
    BY <1>1, <1>2, <2>1
  <2>4. spaceObserver.pc # "idle" => spaceClock >= spaceObserver.now /\ spaceClock + 1 >= spaceObserver.now
    BY <1>1, <1>2, <2>1
  <2>5. QED
    BY <1>1, <2>2, <2>3, <2>4 DEF SpaceInv, Dated
<1>6. Answers(spaceClock, spaceEnded, requests)'
  <2>1. \A i \in 1..MaxInspections : requests[i].joined <= spaceClock /\ requests[i].at <= spaceClock
    BY DEF SpaceInv, Answers
  <2>2. \A i \in 1..MaxInspections : spaceClock + 1 >= requests[i].joined /\ spaceClock >= requests[i].at
    BY <1>1, <1>2, <2>1
  <2>3. QED
    BY <1>1, <2>1, <2>2 DEF Answers
<1>7. QED
  BY <1>3, <1>4, <1>5, <1>6 DEF SpaceInv

ObserverStates == [pc : {"idle", "collect", "save", "read", "answer"}, now : Nat, found : Findings,
                   id : 0..MaxInspections]

\* A step of clients or of the observer, in which no time passes.
LEMMA SpaceKeeps ==
  ASSUME SpaceInv, spaceClock' = spaceClock, spaceEnded' = spaceEnded,
         space' \in BOOLEAN, spaceAsked' \in 0..MaxInspections,
         requests' = requests \/ requests' \in [1..MaxInspections ->
                     [state : {"none", "QUEUED", "DONE", "ERROR"}, born : Nat, joined : Nat, at : Nat,
                      content : Findings]],
         requests' = requests \/ Answers(spaceClock, spaceEnded, requests'),
         sample' \in [exec : Findings, at : Nat], spaceObserver' \in ObserverStates,
         view' \in [state : {"UNOBSERVED", "HEALTHY", "SUSPENDED"}, exec : Findings, at : Nat],
         Punctual(spaceClock, sample', spaceObserver', view'),
         Dated(spaceEnded, sample', spaceObserver', view')
  PROVE  SpaceInv'
  BY DEF SpaceInv, SpaceTyped, ObserverStates

\* What SpaceInv says of each document and of the observer, apart.
LEMMA SpaceFacts ==
  ASSUME SpaceInv
  PROVE  /\ spaceClock \in Nat /\ spaceEnded \in Nat /\ S!NEVER \in Nat /\ spaceClock < S!NEVER
         /\ space \in BOOLEAN /\ spaceAsked \in 0..MaxInspections
         /\ sample \in [exec : Findings, at : Nat] /\ spaceObserver \in ObserverStates
         /\ view \in [state : {"UNOBSERVED", "HEALTHY", "SUSPENDED"}, exec : Findings, at : Nat]
         /\ Punctual(spaceClock, sample, spaceObserver, view)
         /\ Dated(spaceEnded, sample, spaceObserver, view)
         /\ S!Asleep \in ObserverStates /\ S!Asleep.pc = "idle" /\ S!Asleep.found = "none" /\ S!Asleep.now = 0
         /\ S!NoSample \in [exec : Findings, at : Nat] /\ S!NoSample.exec = "none" /\ S!NoSample.at = 0
  BY SpaceAssumption DEF SpaceInv, SpaceTyped, ObserverStates, S!NEVER, S!Asleep, S!NoSample, Findings

\* A workspace is selected, stopped or resumed.
LEMMA SpaceWanted ==
  ASSUME SpaceInv, S!select \/ S!subscribe
  PROVE  SpaceInv'
<1>1. PICK enabled \in BOOLEAN : S!Wanted(enabled)
  BY DEF S!select, S!subscribe
<1>2. /\ spaceClock' = spaceClock /\ spaceEnded' = spaceEnded /\ space' = enabled
      /\ view' = view /\ requests' = requests /\ sample' = sample /\ spaceObserver' = spaceObserver
      /\ spaceAsked' = spaceAsked
  BY <1>1 DEF S!Wanted, S!Outside
<1>3. QED
  BY <1>2, SpaceFacts, SpaceKeeps

\* The observer goes on, or ends, and changes no document.
LEMMA SpaceObserves ==
  ASSUME SpaceInv, S!observe \/ S!ObserveFails \/ S!ReadLog \/ S!Dies
  PROVE  SpaceInv'
<1>1. /\ spaceClock' = spaceClock /\ spaceEnded' = spaceEnded /\ space' = space
      /\ view' = view /\ requests' = requests /\ spaceAsked' = spaceAsked
  BY DEF S!observe, S!ObserveFails, S!ReadLog, S!Dies, S!Observes, S!Outside
<1>2. sample' \in {sample, S!NoSample}
  BY DEF S!observe, S!ObserveFails, S!ReadLog, S!Dies
<1>3. /\ spaceObserver' \in ObserverStates
      /\ spaceObserver'.pc # "idle" => spaceObserver'.now <= spaceClock /\ spaceClock <= spaceObserver'.now + 1
      /\ spaceObserver'.pc = "save" => spaceObserver'.found # "RUNNING"
      /\ spaceObserver'.pc = "answer" /\ spaceObserver'.found = "old" => spaceEnded >= spaceObserver'.now
      /\ spaceObserver'.found = "COMPLETED" => spaceObserver.found = "COMPLETED"
  <2>1. CASE S!observe
    <3>1. spaceObserver' = [S!Asleep EXCEPT !.pc = "collect", !.now = spaceClock]
      BY <2>1 DEF S!observe, S!Observes
    <3>2. /\ spaceObserver' \in ObserverStates /\ spaceObserver'.pc = "collect"
          /\ spaceObserver'.now = spaceClock /\ spaceObserver'.found = "none"
      BY <3>1, SpaceFacts DEF ObserverStates
    <3>3. QED
      BY <3>2, SpaceFacts
  <2>2. CASE S!ObserveFails
    <3>1. /\ spaceObserver' = [spaceObserver EXCEPT !.pc = "save", !.found = "failed"]
          /\ spaceObserver.pc = "collect"
      BY <2>2 DEF S!ObserveFails, S!Observes
    <3>2. /\ spaceObserver' \in ObserverStates /\ spaceObserver'.pc = "save"
          /\ spaceObserver'.now = spaceObserver.now /\ spaceObserver'.found = "failed"
      BY <3>1, SpaceFacts DEF ObserverStates, Findings
    <3>3. QED
      BY <3>1, <3>2, SpaceFacts DEF Punctual
  <2>3. CASE S!ReadLog
    <3>1. /\ spaceObserver' = [spaceObserver EXCEPT !.pc = "answer", !.found = S!Log]
          /\ spaceObserver.pc = "read"
      BY <2>3 DEF S!ReadLog, S!Observes
    <3>2. S!Log \in {"old", "new"} /\ (S!Log = "old" => spaceEnded = S!NEVER)
      BY DEF S!Log
    <3>3. /\ spaceObserver' \in ObserverStates /\ spaceObserver'.pc = "answer"
          /\ spaceObserver'.now = spaceObserver.now /\ spaceObserver'.found = S!Log
      BY <3>1, <3>2, SpaceFacts DEF ObserverStates, Findings
    <3>4. spaceObserver.now \in Nat /\ spaceObserver.now <= spaceClock
      BY <3>1, SpaceFacts DEF Punctual, ObserverStates
    <3>5. S!Log = "old" => spaceEnded >= spaceObserver.now
      BY <3>2, <3>4, SpaceFacts
    <3>6. QED
      BY <3>1, <3>2, <3>3, <3>5, SpaceFacts DEF Punctual
  <2>4. CASE S!Dies
    <3>1. spaceObserver' = S!Asleep
      BY <2>4 DEF S!Dies, S!Observes
    <3>2. QED
      BY <3>1, SpaceFacts
  <2>5. QED
    BY <2>1, <2>2, <2>3, <2>4
<1>4. Punctual(spaceClock, sample', spaceObserver', view')
  BY <1>1, <1>2, <1>3, SpaceFacts DEF Punctual
<1>5. Dated(spaceEnded, sample', spaceObserver', view')
  <2>1. sample'.exec = "RUNNING" => spaceEnded >= sample'.at
    BY <1>2, SpaceFacts DEF Dated
  <2>2. sample'.exec = "COMPLETED" => sample.exec = "COMPLETED"
    BY <1>2, SpaceFacts
  <2>3. QED
    BY <1>1, <1>3, <2>1, <2>2, SpaceFacts DEF Dated
<1>6. QED
  BY <1>1, <1>2, <1>3, <1>4, <1>5, SpaceFacts, SpaceKeeps

\* A sample is taken, or serves again.
LEMMA SpaceCollects ==
  ASSUME SpaceInv, S!shared_collect
  PROVE  SpaceInv'
<1>1. /\ spaceClock' = spaceClock /\ spaceEnded' = spaceEnded /\ space' = space
      /\ view' = view /\ requests' = requests /\ spaceAsked' = spaceAsked
      /\ spaceObserver.pc = "collect"
  BY DEF S!shared_collect, S!Observes, S!Outside
<1>2. /\ spaceObserver.now \in Nat /\ spaceObserver.now <= spaceClock /\ spaceClock <= spaceObserver.now + 1
      /\ sample.at \in Nat /\ sample.at <= spaceClock /\ sample.exec \in Findings
  BY <1>1, SpaceFacts DEF Punctual, ObserverStates
<1>3. PICK found \in Findings :
        /\ spaceObserver' = [spaceObserver EXCEPT !.pc = "save", !.found = found]
        /\ sample' = sample \/ sample' = [exec |-> found, at |-> spaceClock]
        /\ found = "RUNNING" => spaceEnded + 1 >= spaceObserver.now
        /\ found = "RUNNING" /\ sample' # sample => spaceEnded >= spaceClock
        /\ found = "COMPLETED" => spaceEnded # S!NEVER
  <2> DEFINE Goal(found) ==
        /\ spaceObserver' = [spaceObserver EXCEPT !.pc = "save", !.found = found]
        /\ sample' = sample \/ sample' = [exec |-> found, at |-> spaceClock]
        /\ found = "RUNNING" => spaceEnded + 1 >= spaceObserver.now
        /\ found = "RUNNING" /\ sample' # sample => spaceEnded >= spaceClock
        /\ found = "COMPLETED" => spaceEnded # S!NEVER
  <2>1. CASE S!Observes([spaceObserver EXCEPT !.pc = "save", !.found = "UNKNOWN"]) /\ UNCHANGED sample
    <3>1. Goal("UNKNOWN")
      BY <2>1 DEF S!Observes
    <3>2. QED
      BY <3>1 DEF Findings
  <2>2. CASE sample # S!NoSample /\ S!Observes([spaceObserver EXCEPT !.pc = "save", !.found = sample.exec]) /\ UNCHANGED sample
    <3>1. sample.exec = "RUNNING" => spaceEnded >= sample.at
      BY SpaceFacts DEF Dated
    <3>2. spaceClock <= sample.at + 1
      BY <2>2, SpaceFacts DEF Punctual
    <3>3. sample.exec = "RUNNING" => spaceEnded + 1 >= spaceObserver.now
      BY <1>2, <3>1, <3>2, SpaceFacts
    <3>4. sample.exec = "COMPLETED" => spaceEnded # S!NEVER
      BY SpaceFacts DEF Dated
    <3>5. Goal(sample.exec)
      BY <2>2, <3>3, <3>4 DEF S!Observes
    <3>6. QED
      BY <3>5, <1>2
  <2>3. ASSUME NEW s \in S!Scheduler,
               S!Observes([spaceObserver EXCEPT !.pc = "save", !.found = s]),
               sample' = [exec |-> s, at |-> spaceClock]
        PROVE  \E found \in Findings : Goal(found)
    <3>1. s \in Findings /\ (s = "RUNNING" => spaceEnded = S!NEVER) /\ (s = "COMPLETED" => spaceEnded # S!NEVER)
      BY DEF S!Scheduler, Findings
    <3>2. s = "RUNNING" => spaceEnded >= spaceClock /\ spaceEnded + 1 >= spaceObserver.now
      BY <1>2, <3>1, SpaceFacts
    <3>3. Goal(s)
      BY <2>3, <3>1, <3>2 DEF S!Observes
    <3>4. QED
      BY <3>1, <3>3
  <2>4. QED
    BY <2>1, <2>2, <2>3 DEF S!shared_collect
<1>4. /\ spaceObserver' \in ObserverStates /\ spaceObserver'.pc = "save"
      /\ spaceObserver'.now = spaceObserver.now /\ spaceObserver'.found = found
  BY <1>3, SpaceFacts DEF ObserverStates
<1>5. sample' \in [exec : Findings, at : Nat]
  BY <1>2, <1>3, SpaceFacts
<1>6. Punctual(spaceClock, sample', spaceObserver', view')
  <2>1. sample'.at <= spaceClock /\ (sample' = S!NoSample \/ spaceClock <= sample'.at + 1)
    BY <1>2, <1>3, SpaceFacts DEF Punctual
  <2>2. QED
    BY <1>1, <1>2, <1>4, <2>1, SpaceFacts DEF Punctual
<1>7. Dated(spaceEnded, sample', spaceObserver', view')
  <2>1. /\ sample'.exec = "RUNNING" => spaceEnded >= sample'.at
        /\ sample'.exec = "COMPLETED" => spaceEnded # S!NEVER
    BY <1>3, SpaceFacts DEF Dated
  <2>2. QED
    BY <1>1, <1>3, <1>4, <2>1, SpaceFacts DEF Dated
<1>8. QED
  BY <1>1, <1>4, <1>5, <1>6, <1>7, SpaceFacts, SpaceKeeps

\* The view is saved, with the age of the observation.
LEMMA SpaceSaves ==
  ASSUME SpaceInv, S!SaveView
  PROVE  SpaceInv'
<1> DEFINE p == spaceObserver
           v == S!Observed(p.found, p.now)
<1>1. /\ spaceClock' = spaceClock /\ spaceEnded' = spaceEnded /\ space' = space
      /\ view' = v /\ requests' = requests /\ spaceAsked' = spaceAsked /\ sample' = sample
      /\ p.pc = "save" /\ spaceObserver' = S!Asleep
  BY DEF S!SaveView, S!Observes, S!Outside
<1>2. p.now \in Nat /\ p.now <= spaceClock /\ p.found \in Findings
  BY <1>1, SpaceFacts DEF Punctual, ObserverStates
<1>3. /\ v \in [state : {"UNOBSERVED", "HEALTHY", "SUSPENDED"}, exec : Findings, at : Nat]
      /\ v.at <= spaceClock
      /\ v.exec = "RUNNING" => spaceEnded + 1 >= v.at
      /\ v.exec = "COMPLETED" => spaceEnded # S!NEVER
  <2>1. CASE p.found = "failed"
    <3>1. v = [view EXCEPT !.state = "SUSPENDED"]
      BY <2>1 DEF S!Observed
    <3>2. /\ v \in [state : {"UNOBSERVED", "HEALTHY", "SUSPENDED"}, exec : Findings, at : Nat]
          /\ v.at = view.at /\ v.exec = view.exec
      BY <3>1, SpaceFacts
    <3>3. QED
      BY <3>2, SpaceFacts DEF Punctual, Dated
  <2>2. CASE p.found # "failed"
    <3> DEFINE e == IF p.found = "UNKNOWN" /\ view.exec = "COMPLETED" THEN "COMPLETED" ELSE p.found
    <3>1. v = [state |-> "HEALTHY", at |-> p.now, exec |-> e]
      BY <2>2 DEF S!Observed
    <3>2. /\ e \in Findings /\ (e = "RUNNING" => p.found = "RUNNING")
          /\ e = "COMPLETED" => p.found = "COMPLETED" \/ view.exec = "COMPLETED"
      BY <1>2 DEF Findings
    <3> HIDE DEF e
    <3>3. QED
      BY <1>1, <1>2, <3>1, <3>2, SpaceFacts DEF Dated
  <2>3. QED
    BY <2>1, <2>2
<1> HIDE DEF v
<1>4. Punctual(spaceClock, sample', spaceObserver', view')
  BY <1>1, <1>3, SpaceFacts DEF Punctual
<1>5. Dated(spaceEnded, sample', spaceObserver', view')
  BY <1>1, <1>3, SpaceFacts DEF Dated
<1>6. QED
  BY <1>1, <1>3, <1>4, <1>5, SpaceFacts, SpaceKeeps

RequestDocs == [1..MaxInspections -> [state : {"none", "QUEUED", "DONE", "ERROR"}, born : Nat, joined : Nat, at : Nat,
                                      content : Findings]]

\* A request is made, or joins one that is pending or was answered lately.
LEMMA SpaceRequests ==
  ASSUME SpaceInv, S!inspect_request
  PROVE  SpaceInv'
<1>1. /\ spaceClock' = spaceClock /\ spaceEnded' = spaceEnded /\ space' = space /\ view' = view
      /\ sample' = sample /\ spaceObserver' = spaceObserver
  BY DEF S!inspect_request, S!Outside
<1>2. requests \in RequestDocs /\ Answers(spaceClock, spaceEnded, requests)
  BY DEF SpaceInv, SpaceTyped, RequestDocs
<1>3. \/ /\ spaceAsked' = spaceAsked
         /\ \E i \in 1..spaceAsked : S!Joinable(requests[i]) /\ requests' = [requests EXCEPT ![i].joined = spaceClock]
      \/ /\ spaceAsked' = spaceAsked + 1 /\ spaceAsked < MaxInspections
         /\ requests' = [requests EXCEPT ![spaceAsked'] =
              [state |-> "QUEUED", born |-> spaceClock, joined |-> spaceClock, at |-> 0, content |-> "none"]]
  BY DEF S!inspect_request
<1>4. ASSUME spaceAsked' = spaceAsked, NEW i \in 1..spaceAsked, S!Joinable(requests[i]),
             requests' = [requests EXCEPT ![i].joined = spaceClock]
      PROVE  requests' \in RequestDocs /\ Answers(spaceClock, spaceEnded, requests')
  <2> DEFINE r == [requests[i] EXCEPT !.joined = spaceClock]
  <2>1. i \in 1..MaxInspections
    BY SpaceFacts, SpaceAssumption
  <2>2. requests' = [requests EXCEPT ![i] = r]
    BY <1>4
  <2>3. /\ r \in [state : {"none", "QUEUED", "DONE", "ERROR"}, born : Nat, joined : Nat, at : Nat, content : Findings]
        /\ r.joined = spaceClock /\ r.state = requests[i].state /\ r.at = requests[i].at
        /\ r.content = requests[i].content
    BY <1>2, <2>1, SpaceFacts DEF RequestDocs
  <2>4. r.state = "DONE" /\ r.content = "old" => spaceEnded + 1 >= spaceClock /\ spaceEnded >= r.at
    <3>1. SUFFICES ASSUME r.state = "DONE", r.content = "old"
                   PROVE  spaceEnded + 1 >= spaceClock /\ spaceEnded >= r.at
      OBVIOUS
    <3>2. r.at + 1 >= spaceClock
      BY <1>4, <2>3, <3>1 DEF S!Joinable, S!AGE
    <3>3. spaceEnded >= r.at
      BY <1>2, <2>1, <2>3, <3>1 DEF Answers
    <3>4. QED
      BY <2>3, <3>2, <3>3, SpaceFacts
  <2>5. r.joined <= spaceClock /\ r.at <= spaceClock
    BY <1>2, <2>1, <2>3, SpaceFacts DEF Answers
  <2> HIDE DEF r
  <2>6. requests' \in RequestDocs
    BY <1>2, <2>2, <2>3 DEF RequestDocs
  <2>7. ASSUME NEW k \in 1..MaxInspections
        PROVE  /\ requests'[k].joined <= spaceClock /\ requests'[k].at <= spaceClock
               /\ requests'[k].state = "DONE" /\ requests'[k].content = "old" =>
                    spaceEnded + 1 >= requests'[k].joined /\ spaceEnded >= requests'[k].at
    <3>1. CASE k = i
      BY <3>1, <1>2, <2>1, <2>2, <2>3, <2>4, <2>5 DEF RequestDocs
    <3>2. CASE k # i
      <4>1. requests'[k] = requests[k]
        BY <3>2, <1>2, <2>2 DEF RequestDocs
      <4>2. QED
        BY <4>1, <1>2 DEF Answers
    <3>3. QED
      BY <3>1, <3>2
  <2>8. QED
    BY <2>6, <2>7 DEF Answers
<1>5. ASSUME spaceAsked' = spaceAsked + 1, spaceAsked < MaxInspections,
             requests' = [requests EXCEPT ![spaceAsked'] =
               [state |-> "QUEUED", born |-> spaceClock, joined |-> spaceClock, at |-> 0, content |-> "none"]]
      PROVE  requests' \in RequestDocs /\ Answers(spaceClock, spaceEnded, requests')
  <2> DEFINE r == [state |-> "QUEUED", born |-> spaceClock, joined |-> spaceClock, at |-> 0, content |-> "none"]
  <2>1. /\ r \in [state : {"none", "QUEUED", "DONE", "ERROR"}, born : Nat, joined : Nat, at : Nat, content : Findings]
        /\ r.joined <= spaceClock /\ r.at <= spaceClock /\ r.state # "DONE"
    BY SpaceFacts DEF Findings
  <2>2. requests' = [requests EXCEPT ![spaceAsked'] = r]
    BY <1>5
  <2> HIDE DEF r
  <2>3. requests' \in RequestDocs
    BY <1>2, <2>1, <2>2 DEF RequestDocs
  <2>4. \A k \in 1..MaxInspections : requests'[k] \in {r, requests[k]}
    BY <1>2, <2>2 DEF RequestDocs
  <2>5. QED
    BY <1>2, <2>1, <2>3, <2>4 DEF Answers
<1>6. requests' \in RequestDocs /\ Answers(spaceClock, spaceEnded, requests')
  BY <1>3, <1>4, <1>5
<1>7. spaceAsked' \in 0..MaxInspections
  BY <1>3, SpaceFacts, SpaceAssumption
<1>8. QED
  BY <1>1, <1>6, <1>7, SpaceFacts, SpaceKeeps DEF RequestDocs

\* Of a request that gets its answer, the answer is in time.
LEMMA SpaceAnswered ==
  ASSUME SpaceInv, NEW i \in 0..MaxInspections, NEW state \in {"DONE", "ERROR"}, NEW at \in Nat, NEW content \in Findings,
         S!Answered(i, state, at, content), at <= spaceClock,
         state = "DONE" /\ content = "old" => spaceEnded + 1 >= spaceClock /\ spaceEnded >= at
  PROVE  requests' \in RequestDocs /\ Answers(spaceClock, spaceEnded, requests')
<1>1. requests \in RequestDocs /\ Answers(spaceClock, spaceEnded, requests)
  BY DEF SpaceInv, SpaceTyped, RequestDocs
<1> DEFINE r == [requests[i] EXCEPT !.state = state, !.born = 0, !.at = at, !.content = content]
<1>2. ASSUME i \in 1..MaxInspections
      PROVE  requests' \in RequestDocs /\ Answers(spaceClock, spaceEnded, requests')
  <2>1. requests' = [requests EXCEPT ![i] = r]
    BY <1>1, <1>2 DEF S!Answered, RequestDocs
  <2>2. /\ r \in [state : {"none", "QUEUED", "DONE", "ERROR"}, born : Nat, joined : Nat, at : Nat, content : Findings]
        /\ r.joined = requests[i].joined /\ r.state = state /\ r.at = at /\ r.content = content
    BY <1>1, <1>2 DEF RequestDocs
  <2>3. r.joined \in Nat /\ r.joined <= spaceClock
    BY <1>1, <1>2, <2>2 DEF Answers
  <2>4. state = "DONE" /\ content = "old" => spaceEnded + 1 >= r.joined
    BY <2>3, SpaceFacts
  <2> HIDE DEF r
  <2>5. requests' \in RequestDocs
    BY <1>1, <2>1, <2>2 DEF RequestDocs
  <2>6. \A k \in 1..MaxInspections : requests'[k] \in {r, requests[k]}
    BY <1>1, <2>1 DEF RequestDocs
  <2>7. QED
    BY <1>1, <2>2, <2>3, <2>4, <2>5, <2>6 DEF Answers
<1>3. ASSUME i = 0 PROVE requests' = requests
  <2>1. i \notin DOMAIN requests
    BY <1>1, <1>3 DEF RequestDocs
  <2>2. QED
    BY <1>1, <2>1 DEF S!Answered, RequestDocs
<1>4. QED
  BY <1>1, <1>2, <1>3

\* The oldest request that waits is one of them.
LEMMA SpaceOldest ==
  ASSUME SpaceInv, S!Queued # {}
  PROVE  S!Oldest \in 1..MaxInspections
<1>1. S!Queued \subseteq 1..MaxInspections
  BY SpaceFacts, SpaceAssumption DEF S!Queued
<1>2. \E i \in S!Queued : \A k \in S!Queued : i <= k
  <2>1. S!Queued \subseteq Nat
    BY <1>1
  <2> HIDE DEF S!Queued
  <2>2. QED
    BY <2>1, Least
<1>3. QED
  BY <1>1, <1>2 DEF S!Oldest

\* An inspection begins, is refused, fails, or is answered.
LEMMA SpaceInspects ==
  ASSUME SpaceInv, S!inspect \/ S!ReadFails \/ S!Answer
  PROVE  SpaceInv'
<1>1. /\ spaceClock' = spaceClock /\ spaceEnded' = spaceEnded /\ space' = space /\ view' = view
      /\ sample' = sample /\ spaceAsked' = spaceAsked
  BY DEF S!inspect, S!ReadFails, S!Answer, S!Observes, S!Outside
<1>2. requests' = requests \/ (requests' \in RequestDocs /\ Answers(spaceClock, spaceEnded, requests'))
  <2>1. CASE S!inspect
    <3>1. requests' = requests \/ S!Answered(S!Oldest, "ERROR", 0, "none")
      BY <2>1 DEF S!inspect
    <3>2. S!Oldest \in 0..MaxInspections
      BY <2>1, SpaceOldest, SpaceAssumption DEF S!inspect
    <3>3. 0 <= spaceClock /\ "none" \in Findings
      BY SpaceFacts DEF Findings
    <3>4. QED
      BY <3>1, <3>2, <3>3, SpaceAnswered
  <2>2. CASE S!ReadFails
    <3>1. S!Answered(spaceObserver.id, "ERROR", 0, "none")
      BY <2>2 DEF S!ReadFails
    <3>2. spaceObserver.id \in 0..MaxInspections /\ 0 <= spaceClock /\ "none" \in Findings
      BY SpaceFacts DEF Findings, ObserverStates
    <3>3. QED
      BY <3>1, <3>2, SpaceAnswered
  <2>3. CASE S!Answer
    <3>1. S!Answered(spaceObserver.id, "DONE", spaceObserver.now, spaceObserver.found) /\ spaceObserver.pc = "answer"
      BY <2>3 DEF S!Answer
    <3>2. /\ spaceObserver.id \in 0..MaxInspections /\ spaceObserver.now \in Nat /\ spaceObserver.found \in Findings
          /\ spaceObserver.now <= spaceClock /\ spaceClock <= spaceObserver.now + 1
          /\ spaceObserver.found = "old" => spaceEnded >= spaceObserver.now
      BY <3>1, SpaceFacts DEF Punctual, Dated, ObserverStates
    <3>3. spaceObserver.found = "old" => spaceEnded + 1 >= spaceClock
      BY <3>2, SpaceFacts
    <3>4. QED
      BY <3>1, <3>2, <3>3, SpaceAnswered
  <2>4. QED
    BY <2>1, <2>2, <2>3
<1>3. /\ spaceObserver' \in ObserverStates
      /\ spaceObserver'.pc # "idle" => spaceObserver'.now <= spaceClock /\ spaceClock <= spaceObserver'.now + 1
      /\ spaceObserver'.found # "none" => spaceObserver' = spaceObserver
      /\ spaceObserver'.pc # "save"
  <2>1. CASE spaceObserver' = S!Asleep
    BY <2>1, SpaceFacts
  <2>2. CASE S!inspect /\ spaceObserver' = [S!Asleep EXCEPT !.pc = "read", !.now = spaceClock, !.id = S!Oldest]
    <3>1. S!Oldest \in 0..MaxInspections
      BY <2>2, SpaceOldest, SpaceAssumption DEF S!inspect
    <3>2. /\ spaceObserver' \in ObserverStates /\ spaceObserver'.pc = "read"
          /\ spaceObserver'.now = spaceClock /\ spaceObserver'.found = "none"
      BY <2>2, <3>1, SpaceFacts DEF ObserverStates
    <3>3. QED
      BY <3>2, SpaceFacts
  <2>3. CASE S!inspect /\ spaceObserver' = spaceObserver
    BY <2>3, SpaceFacts DEF S!inspect
  <2>4. QED
    BY <2>1, <2>2, <2>3 DEF S!inspect, S!ReadFails, S!Answer, S!Observes
<1>4. Punctual(spaceClock, sample', spaceObserver', view')
  BY <1>1, <1>3, SpaceFacts DEF Punctual
<1>5. Dated(spaceEnded, sample', spaceObserver', view')
  BY <1>1, <1>3, SpaceFacts DEF Dated
<1>6. QED
  BY <1>1, <1>2, <1>3, <1>4, <1>5, SpaceFacts, SpaceKeeps DEF RequestDocs

\* Every step keeps it.
LEMMA SpaceStep == SpaceInv /\ [S!SpaceNext]_spaces => SpaceInv'
<1> SUFFICES ASSUME SpaceInv, [S!SpaceNext]_spaces PROVE SpaceInv'
  OBVIOUS
<1>1. CASE UNCHANGED spaces
  BY <1>1 DEF spaces, SpaceInv, SpaceTyped, Punctual, Dated, Answers
<1>2. CASE S!SpaceNext
  BY <1>2, SpaceTimePasses, SpaceJobEnds, SpaceWanted, SpaceRequests, SpaceObserves, SpaceCollects, SpaceSaves,
     SpaceInspects DEF S!SpaceNext
<1>3. QED
  BY <1>1, <1>2

\* A fresh view shows as running only what ran two ticks ago at most, an end
\* that is shown has come, and nobody is answered with what a log was before he
\* asked and a tick, whatever the observer's failures and deaths.
THEOREM WorkspaceTellsTheTruth ==
  S!SpaceInit /\ [][S!SpaceNext]_spaces => []WorkspaceIsHonest
<1>1. S!SpaceInit => SpaceInv
  <2> SUFFICES ASSUME S!SpaceInit PROVE SpaceInv
    OBVIOUS
  <2>1. /\ spaceClock \in 1..MaxSpaceClock /\ spaceEnded \in 1..S!NEVER
        /\ spaceAsked \in 0..MaxInspections
    <3>1. 1 \in 1..MaxSpaceClock /\ S!NEVER \in 1..S!NEVER /\ 0 \in 0..MaxInspections
      BY SpaceAssumption DEF S!NEVER
    <3>2. QED
      BY <3>1 DEF S!SpaceInit
  <2> USE DEF S!SpaceInit, Findings, S!NoSample, S!Asleep, S!NoRequest
  <2>2. SpaceTyped
    <3>1. S!NoRequest \in [state : {"none", "QUEUED", "DONE", "ERROR"}, born : Nat, joined : Nat, at : Nat,
                           content : Findings]
      OBVIOUS
    <3>2. /\ view \in [state : {"UNOBSERVED", "HEALTHY", "SUSPENDED"}, exec : Findings, at : Nat]
          /\ sample \in [exec : Findings, at : Nat]
          /\ space \in BOOLEAN
      OBVIOUS
    <3>3. spaceObserver \in [pc : {"idle", "collect", "save", "read", "answer"}, now : Nat, found : Findings,
                             id : 0..MaxInspections]
      BY SpaceAssumption
    <3>4. QED
      BY <2>1, <3>1, <3>2, <3>3 DEF SpaceTyped
  <2>3. Punctual(spaceClock, sample, spaceObserver, view)
    BY DEF Punctual
  <2>4. Dated(spaceEnded, sample, spaceObserver, view)
    BY SpaceAssumption DEF Dated, S!NEVER
  <2>5. Answers(spaceClock, spaceEnded, requests)
    BY DEF Answers
  <2>6. QED
    BY <2>2, <2>3, <2>4, <2>5 DEF SpaceInv
<1>2. SpaceInv => WorkspaceIsHonest
  <2> SUFFICES ASSUME SpaceInv PROVE WorkspaceIsHonest
    OBVIOUS
  <2>1. S!FreshIsRecent
    <3> SUFFICES ASSUME S!Fresh, view.exec = "RUNNING" PROVE spaceEnded + S!AGE + S!AGE >= spaceClock
      BY DEF S!FreshIsRecent
    <3>1. view.at + 1 >= spaceClock /\ spaceEnded + 1 >= view.at
      BY SpaceFacts DEF S!Fresh, S!AGE, Dated
    <3>2. QED
      BY <3>1, SpaceFacts DEF S!AGE
  <2>2. S!EndIsReal
    BY SpaceFacts DEF S!EndIsReal, Dated
  <2>3. S!AnsweredFromAfter
    <3> SUFFICES ASSUME NEW i \in 1..spaceAsked, requests[i].state = "DONE", requests[i].content = "old"
                 PROVE  spaceEnded + S!AGE >= requests[i].joined /\ spaceEnded >= requests[i].at
      BY DEF S!AnsweredFromAfter
    <3>1. i \in 1..MaxInspections
      BY SpaceFacts, SpaceAssumption
    <3>2. QED
      BY <3>1 DEF SpaceInv, Answers, S!AGE
  <2>4. QED
    BY <2>1, <2>2, <2>3 DEF WorkspaceIsHonest
<1>3. QED
  BY <1>1, <1>2, SpaceStep, PTL

------------------------------------------------------------------------------
(* Detached runs *)

RunRequests == [pc : {"idle", "check", "view 1", "view 2", "signal", "grace", "record", "write"},
                op : {"none", "proc_status", "proc_kill", "waitfor"}, alive : BOOLEAN, pos : Nat, line : Nat,
                told : {"nothing", "running", "exited", "gone", "matched", "no match"}, upto : Nat]

RunTyped ==
  /\ record \in {"none", "written", "never"}
  /\ wrapper \in {"none", "running", "recording", "dead"}
  /\ others \in BOOLEAN /\ cut \in BOOLEAN
  /\ rc \in {"none", "own", "signal"}
  /\ reaper \in {"off", "waiting", "writing"}
  /\ log \in Seq(R!Pieces)
  /\ logStart \in 0..Len(log)
  /\ runClient \in [RunClients -> RunRequests]

\* The line is in lines, after place after, and ends at place to at most.
HasLine(lines, after, to) == \E i \in 1..to : i > after /\ i < to /\ lines[i] = "m1" /\ lines[i + 1] = "m2"

\* A wait has read whole lines, and not found it.
Searched(p, lines, start) ==
  /\ start <= p.line /\ p.line <= p.pos /\ p.pos <= Len(lines)
  /\ p.line = start \/ lines[p.line] = "nl"
  /\ ~HasLine(lines, start, p.line)

\* What a request knows of the run, and has told.
Informed(p, w, killed, lines, start) ==
  /\ p # R!Idle => w # "none"
  /\ p.pc = "check" => p.op = "waitfor"
  /\ p.pc = "view 2" /\ ~p.alive => w = "dead"
  /\ p.pc = "write" \/ p.told = "gone" => killed
  /\ p.pc # "idle" /\ p.op = "waitfor" => Searched(p, lines, start)
  /\ p.told = "matched" => p.upto <= Len(lines) /\ HasLine(lines, start, p.upto)
  /\ p.told = "no match" => p.upto <= Len(lines) /\ ~HasLine(lines, start, p.upto)

RunInv ==
  /\ RunTyped
  /\ record = "written" => wrapper # "none"
  /\ wrapper = "dead" /\ rc = "none" => cut
  /\ reaper = "writing" \/ rc = "signal" => cut
  /\ \A c \in RunClients : Informed(runClient[c], wrapper, cut, log, logStart)


\* What a request knows stays true while the run goes on and its log grows.
LEMMA RunInformed ==
  ASSUME NEW p \in RunRequests, NEW w, NEW w2, NEW killed, NEW killed2, NEW start \in Nat,
         NEW lines \in Seq(R!Pieces), NEW lines2 \in Seq(R!Pieces),
         w # "none" => w2 # "none", w = "dead" => w2 = "dead", killed => killed2,
         Len(lines) <= Len(lines2), \A i \in 1..Len(lines) : lines2[i] = lines[i],
         Informed(p, w, killed, lines, start)
  PROVE  Informed(p, w2, killed2, lines2, start)
<1>1. Len(lines) \in Nat /\ Len(lines2) \in Nat /\ p.pos \in Nat /\ p.line \in Nat /\ p.upto \in Nat
  <2>1. Len(lines) \in Nat /\ Len(lines2) \in Nat
    OBVIOUS
  <2>2. p.pos \in Nat /\ p.line \in Nat /\ p.upto \in Nat
    BY DEF RunRequests
  <2>3. QED
    BY <2>1, <2>2
<1>2. ASSUME NEW to \in Nat, to <= Len(lines)
      PROVE  HasLine(lines2, start, to) <=> HasLine(lines, start, to)
  <2>1. \A i \in 1..to : i < to => lines2[i] = lines[i] /\ lines2[i + 1] = lines[i + 1]
    BY <1>1, <1>2
  <2>2. QED
    BY <2>1 DEF HasLine
<1>3. Searched(p, lines, start) => Searched(p, lines2, start)
  <2> SUFFICES ASSUME Searched(p, lines, start) PROVE Searched(p, lines2, start)
    OBVIOUS
  <2>1. start <= p.line /\ p.line <= p.pos /\ p.pos <= Len(lines) /\ p.line <= Len(lines)
    BY <1>1 DEF Searched
  <2>2. p.line = start \/ lines2[p.line] = lines[p.line]
    BY <1>1, <2>1
  <2>3. QED
    BY <1>1, <1>2, <2>1, <2>2 DEF Searched
<1>4. /\ p.upto <= Len(lines) /\ HasLine(lines, start, p.upto) =>
           p.upto <= Len(lines2) /\ HasLine(lines2, start, p.upto)
      /\ p.upto <= Len(lines) /\ ~HasLine(lines, start, p.upto) =>
           p.upto <= Len(lines2) /\ ~HasLine(lines2, start, p.upto)
  BY <1>1, <1>2
<1>5. QED
  BY <1>3, <1>4 DEF Informed

\* The wrapper, its command and children, the reaper and the stub that started
\* them: a status is made up only for a wrapper that was killed.
LEMMA RunGoesOn ==
  ASSUME RunInv,
         \/ R!SaveRecord \/ R!WrapperRecords \/ R!ChildEnds \/ R!_reap_detached \/ R!StubEnds
         \/ \E b \in BOOLEAN : R!CommandEnds(b) \/ R!KilledFromOutside(b)
         \/ \E piece \in R!Pieces : R!Writes(piece)
  PROVE  RunInv'
<1> USE DEF R!SaveRecord, R!WrapperRecords, R!ChildEnds, R!_reap_detached, R!StubEnds, R!CommandEnds,
            R!KilledFromOutside, R!KillGroup, R!Writes, R!process
<1>1. /\ record' \in {"none", "written", "never"} /\ wrapper' \in {"none", "running", "recording", "dead"}
      /\ others' \in BOOLEAN /\ cut' \in BOOLEAN
      /\ rc' \in {"none", "own", "signal"} /\ reaper' \in {"off", "waiting", "writing"}
  BY DEF RunInv, RunTyped
<1>2. logStart' = logStart /\ runClient' = runClient
  OBVIOUS
<1>3. log' = log \/ \E piece \in R!Pieces : log' = Append(log, piece)
  OBVIOUS
<1>4. /\ wrapper # "none" => wrapper' # "none"
      /\ wrapper = "dead" => wrapper' = "dead"
      /\ cut => cut'
  BY DEF RunInv, RunTyped
<1>5. /\ record' = "written" => wrapper' # "none"
      /\ wrapper' = "dead" /\ rc' = "none" => cut'
      /\ reaper' = "writing" \/ rc' = "signal" => cut'
  BY DEF RunInv, RunTyped
<1>6. /\ log \in Seq(R!Pieces) /\ log' \in Seq(R!Pieces) /\ Len(log) <= Len(log')
      /\ \A i \in 1..Len(log) : log'[i] = log[i]
      /\ logStart \in 0..Len(log) /\ runClient \in [RunClients -> RunRequests]
  <2>1. log \in Seq(R!Pieces) /\ logStart \in 0..Len(log) /\ runClient \in [RunClients -> RunRequests]
    BY DEF RunInv, RunTyped
  <2>2. CASE log' = log
    <3>1. Len(log) \in Nat
      BY <2>1
    <3>2. QED
      BY <2>1, <2>2, <3>1
  <2>3. CASE \E piece \in R!Pieces : log' = Append(log, piece)
    <3>1. PICK piece \in R!Pieces : log' = Append(log, piece)
      BY <2>3
    <3>2. /\ Append(log, piece) \in Seq(R!Pieces) /\ Len(Append(log, piece)) = Len(log) + 1
          /\ \A i \in 1..Len(log) : Append(log, piece)[i] = log[i]
          /\ Len(log) \in Nat
      BY <2>1, AppendProperties, LenProperties
    <3>3. QED
      BY <2>1, <3>1, <3>2
  <2>4. QED
    BY <1>3, <2>2, <2>3
<1>7. \A c \in RunClients : Informed(runClient'[c], wrapper', cut', log', logStart')
  BY <1>2, <1>4, <1>6, RunInformed DEF RunInv
<1>8. QED
  BY <1>1, <1>2, <1>5, <1>6, <1>7 DEF RunInv, RunTyped

\* A run is started: nobody has asked about it.
LEMMA RunStarts ==
  ASSUME RunInv, R!op_detach
  PROVE  RunInv'
<1>1. /\ wrapper = "none" /\ wrapper' = "running" /\ reaper' = "waiting" /\ logStart' = Len(log)
      /\ record' = record /\ others' = others /\ rc' = rc /\ log' = log /\ runClient' = runClient /\ cut' = cut
  BY DEF R!op_detach
<1>2. RunTyped'
  BY <1>1 DEF RunInv, RunTyped
<1>3. ASSUME NEW c \in RunClients PROVE Informed(runClient'[c], wrapper', cut', log', logStart')
  <2>1. runClient'[c] = R!Idle
    BY <1>1 DEF RunInv, Informed
  <2>2. QED
    BY <2>1 DEF Informed, R!Idle
<1>4. QED
  BY <1>1, <1>2, <1>3 DEF RunInv

\* A request takes a step, which may end the run or make up its status.
LEMMA RunClientGoes ==
  ASSUME RunInv, NEW c \in RunClients, NEW q \in RunRequests,
         runClient' = [runClient EXCEPT ![c] = q],
         log' = log, logStart' = logStart, record' = record, reaper' = reaper,
         wrapper' \in {wrapper, "recording", "dead"}, wrapper' = "recording" => wrapper \in {"running", "recording"},
         others' \in BOOLEAN, cut' \in BOOLEAN, cut => cut', rc' \in {rc, "signal"},
         wrapper' = "dead" /\ rc' = "none" => cut', rc' = "signal" => cut',
         wrapper = "none" => wrapper' = "none", wrapper = "dead" => wrapper' = "dead",
         Informed(q, wrapper', cut', log, logStart)
  PROVE  RunInv'
<1>1. /\ RunTyped /\ log \in Seq(R!Pieces) /\ logStart \in Nat /\ Len(log) \in Nat
      /\ runClient \in [RunClients -> RunRequests]
      /\ reaper = "writing" => cut
      /\ record = "written" => wrapper # "none"
  BY DEF RunInv, RunTyped
<1>2. runClient' \in [RunClients -> RunRequests]
  BY <1>1
<1>3. RunTyped'
  BY <1>1, <1>2 DEF RunTyped
<1>4. wrapper # "none" => wrapper' # "none"
  BY <1>1 DEF RunTyped
<1>5. ASSUME NEW k \in RunClients PROVE Informed(runClient'[k], wrapper', cut', log', logStart')
  <2>1. CASE k = c
    BY <2>1, <1>1
  <2>2. CASE k # c
    <3>1. runClient'[k] = runClient[k] /\ runClient[k] \in RunRequests
      BY <2>2, <1>1
    <3>2. Informed(runClient[k], wrapper, cut, log, logStart)
      BY DEF RunInv
    <3>3. Informed(runClient[k], wrapper', cut', log, logStart)
      BY <1>1, <1>4, <3>1, <3>2, RunInformed
    <3>4. QED
      BY <3>1, <3>3
  <2>3. QED
    BY <2>1, <2>2
<1>6. QED
  BY <1>1, <1>3, <1>4, <1>5 DEF RunInv

\* What RunInv says of one request.
LEMMA RunFacts ==
  ASSUME RunInv, NEW c \in RunClients
  PROVE  /\ RunTyped /\ log \in Seq(R!Pieces) /\ logStart \in Nat /\ Len(log) \in Nat
         /\ logStart <= Len(log) /\ Len(log) <= Len(log)
         /\ runClient \in [RunClients -> RunRequests] /\ runClient[c] \in RunRequests
         /\ Informed(runClient[c], wrapper, cut, log, logStart)
         /\ R!Idle \in RunRequests /\ R!Idle.pc = "idle"
         /\ runClient[c].pc # "idle" => wrapper # "none"
         /\ R!ViewSteps[1] = "alive"
<1>1. RunTyped /\ Informed(runClient[c], wrapper, cut, log, logStart)
  BY DEF RunInv
<1>2. /\ log \in Seq(R!Pieces) /\ Len(log) \in Nat /\ logStart \in Nat /\ logStart <= Len(log)
      /\ runClient \in [RunClients -> RunRequests]
  BY <1>1 DEF RunTyped
<1>3. R!Idle \in RunRequests /\ R!Idle.pc = "idle"
  BY DEF R!Idle, RunRequests
<1>4. runClient[c].pc # "idle" => wrapper # "none"
  BY <1>1, <1>3 DEF Informed
<1>5. R!ViewSteps[1] = "alive"
  BY DEF R!ViewSteps
<1>6. QED
  BY <1>1, <1>2, <1>3, <1>4, <1>5

\* A request that leaves the run as it is.
LEMMA RunClientLooks ==
  ASSUME RunInv, NEW c \in RunClients, NEW q \in RunRequests,
         R!Goes(c, q), UNCHANGED <<record, R!process, log, logStart>>,
         Informed(q, wrapper, cut, log, logStart)
  PROVE  RunInv'
<1>1. /\ runClient' = [runClient EXCEPT ![c] = q] /\ log' = log /\ logStart' = logStart /\ record' = record
      /\ wrapper' = wrapper /\ others' = others /\ rc' = rc /\ reaper' = reaper /\ cut' = cut
  BY DEF R!Goes, R!process
<1>2. /\ others \in BOOLEAN /\ cut \in BOOLEAN
      /\ wrapper = "dead" /\ rc = "none" => cut
      /\ rc = "signal" => cut
  BY DEF RunInv, RunTyped
<1>3. QED
  BY <1>1, <1>2, RunClientGoes

\* The run's record is found.
LEMMA RunAsk ==
  ASSUME RunInv, NEW c \in RunClients, NEW op \in {"proc_status", "proc_kill", "waitfor"}, R!Ask(c, op)
  PROVE  RunInv'
<1> DEFINE pc == IF op = "waitfor" THEN "check" ELSE IF op = "proc_kill" THEN "signal" ELSE "view 1"
           q == [R!Idle EXCEPT !.op = op, !.pc = pc, !.pos = logStart, !.line = logStart]
<1>1. /\ q \in RunRequests /\ q.pc = pc /\ q.op = op /\ q.pos = logStart /\ q.line = logStart /\ q.told = "nothing"
  BY RunFacts DEF RunRequests, R!Idle
<1>2. pc \notin {"view 2", "write"} /\ (pc = "check" => op = "waitfor")
  OBVIOUS
<1>3. wrapper # "none"
  BY DEF R!Ask, RunInv
<1>4. R!Goes(c, q)
  BY DEF R!Ask
<1> HIDE DEF q, pc
<1>5. Searched(q, log, logStart)
  BY <1>1, RunFacts DEF Searched, HasLine
<1>6. Informed(q, wrapper, cut, log, logStart)
  BY <1>1, <1>2, <1>3, <1>5 DEF Informed
<1>7. QED
  BY <1>1, <1>4, <1>6, RunClientLooks DEF R!Ask

\* The group is looked at first: when it is not alive the wrapper is dead.
LEMMA RunLook ==
  ASSUME RunInv, NEW c \in RunClients, R!Look(c)
  PROVE  RunInv'
<1> DEFINE p == runClient[c]
           q == [p EXCEPT !.pc = "view 2", !.alive = R!_group_alive]
<1>1. R!_group_alive \in BOOLEAN
  BY DEF R!_group_alive, RunInv, RunTyped
<1>2. /\ q \in RunRequests /\ q.pc = "view 2" /\ q.op = p.op /\ q.pos = p.pos /\ q.line = p.line
      /\ q.told = p.told /\ q.upto = p.upto /\ q.alive = R!_group_alive
  BY <1>1, RunFacts DEF RunRequests
<1>3. p.pc = "view 1" /\ R!Goes(c, q)
  BY RunFacts DEF R!Look
<1>4. wrapper # "none"
  BY <1>3, RunFacts
<1>5. ~R!_group_alive => wrapper = "dead"
  BY <1>4 DEF R!_group_alive, RunInv, RunTyped
<1> HIDE DEF q
<1>6. Searched(p, log, logStart) => Searched(q, log, logStart)
  BY <1>2 DEF Searched
<1>7. Informed(q, wrapper, cut, log, logStart)
  BY <1>2, <1>3, <1>4, <1>5, <1>6, RunFacts DEF Informed
<1>8. QED
  BY <1>2, <1>3, <1>7, RunClientLooks DEF R!Look

\* A request tells what it found, and of a line what is so.
LEMMA RunTells ==
  ASSUME RunInv, NEW c \in RunClients,
         NEW verdict \in {"running", "exited", "gone", "matched", "no match"}, R!Tells(c, verdict),
         UNCHANGED <<record, R!process, log, logStart>>, runClient[c].pc # "idle",
         verdict = "gone" => cut,
         verdict = "matched" => HasLine(log, logStart, Len(log)),
         verdict = "no match" => ~HasLine(log, logStart, Len(log))
  PROVE  RunInv'
<1> DEFINE q == [R!Idle EXCEPT !.told = verdict, !.upto = Len(log)]
<1>1. q \in RunRequests /\ q.pc = "idle" /\ q.told = verdict /\ q.upto = Len(log)
  BY RunFacts DEF RunRequests, R!Idle
<1>2. R!Goes(c, q)
  BY DEF R!Tells
<1>3. wrapper # "none"
  BY RunFacts
<1> HIDE DEF q
<1>4. Informed(q, wrapper, cut, log, logStart)
  <2>1. q.upto <= Len(log)
    BY <1>1, RunFacts, Zenon
  <2>2. /\ q.told = "matched" => HasLine(log, logStart, q.upto)
        /\ q.told = "no match" => ~HasLine(log, logStart, q.upto)
    BY <1>1
  <2>3. QED
    BY <1>1, <1>3, <2>1, <2>2 DEF Informed
<1>5. QED
  BY <1>1, <1>2, <1>4, RunClientLooks

\* A run that is neither alive nor has a status was killed.
LEMMA RunView ==
  ASSUME RunInv, NEW c \in RunClients, runClient[c].pc = "view 2"
  PROVE  R!_proc_view(c) \in {"running", "exited", "gone"} /\ (R!_proc_view(c) = "gone" => cut)
<1>1. R!_proc_view(c) = IF rc # "none" THEN "exited" ELSE IF runClient[c].alive THEN "running" ELSE "gone"
  BY RunFacts DEF R!_proc_view
<1>2. ~runClient[c].alive => wrapper = "dead"
  BY RunFacts DEF Informed
<1>3. QED
  BY <1>1, <1>2 DEF RunInv

LEMMA RunStatus ==
  ASSUME RunInv, NEW c \in RunClients, R!op_proc_status(c)
  PROVE  RunInv'
<1>1. runClient[c].pc = "view 2" /\ R!Tells(c, R!_proc_view(c)) /\ UNCHANGED <<record, R!process, log, logStart>>
  BY DEF R!op_proc_status
<1>2. QED
  BY <1>1, RunView, RunTells

\* Killing: what is told afterwards is as for any run, and a status is written
\* only for a wrapper that was killed before it wrote one.
LEMMA RunKill ==
  ASSUME RunInv, NEW c \in RunClients, R!op_proc_kill(c) \/ R!Escalate(c) \/ R!RecordKill(c)
  PROVE  RunInv'
<1> DEFINE p == runClient[c]
<1>1. /\ p.pc \in {"signal", "grace", "record", "write"} /\ log' = log /\ logStart' = logStart
      /\ record' = record /\ reaper' = reaper
  BY DEF R!op_proc_kill, R!Escalate, R!RecordKill
<1>2. wrapper # "none" /\ p \in RunRequests /\ runClient \in [RunClients -> RunRequests]
  BY <1>1, RunFacts
<1>3. PICK pc \in {"grace", "view 1", "record", "write"}, op \in {p.op, "proc_status"} :
        /\ runClient' = [runClient EXCEPT ![c] = [p EXCEPT !.pc = pc, !.op = op]]
        /\ pc = "write" => rc = "none" /\ ~R!_group_alive /\ R!RecordKill(c)
  <2> DEFINE Goal(pc, op) ==
        /\ runClient' = [runClient EXCEPT ![c] = [p EXCEPT !.pc = pc, !.op = op]]
        /\ pc = "write" => rc = "none" /\ ~R!_group_alive /\ R!RecordKill(c)
  <2>1. ASSUME NEW pc \in {"grace", "view 1", "record", "write"}
        PROVE  [p EXCEPT !.pc = pc] = [p EXCEPT !.pc = pc, !.op = p.op]
    BY <1>2 DEF RunRequests
  <2>2. CASE R!op_proc_kill(c) /\ R!_group_alive
    <3>1. Goal("grace", p.op)
      BY <2>2, <1>2 DEF R!op_proc_kill, R!Goes
    <3>2. QED
      BY <3>1
  <2>3. CASE R!op_proc_kill(c) /\ ~R!_group_alive
    <3>1. Goal("view 1", "proc_status")
      BY <2>3, <1>2 DEF R!op_proc_kill, R!Goes
    <3>2. QED
      BY <3>1
  <2>4. CASE R!Escalate(c)
    <3>1. Goal("record", p.op)
      BY <2>4, <2>1 DEF R!Escalate, R!Goes
    <3>2. QED
      BY <3>1
  <2>5. CASE R!RecordKill(c) /\ runClient' = [runClient EXCEPT ![c] = [p EXCEPT !.pc = "write"]]
             /\ rc = "none" /\ ~R!_group_alive
    <3>1. Goal("write", p.op)
      BY <2>5, <2>1
    <3>2. QED
      BY <3>1
  <2>6. CASE R!RecordKill(c)
             /\ runClient' = [runClient EXCEPT ![c] = [p EXCEPT !.pc = "view 1", !.op = "proc_status"]]
    <3>1. Goal("view 1", "proc_status")
      BY <2>6
    <3>2. QED
      BY <3>1
  <2>7. QED
    BY <2>2, <2>3, <2>4, <2>5, <2>6 DEF R!RecordKill, R!Goes
<1> DEFINE q == [p EXCEPT !.pc = pc, !.op = op]
<1>4. /\ q \in RunRequests /\ q.pc = pc /\ q.op = op
      /\ q.pos = p.pos /\ q.line = p.line /\ q.told = p.told /\ q.upto = p.upto
  BY <1>2 DEF RunRequests
<1>5. runClient' = [runClient EXCEPT ![c] = q]
  BY <1>3
<1> HIDE DEF q
<1>6. /\ wrapper' \in {wrapper, "recording", "dead"} /\ (wrapper' = "recording" => wrapper \in {"running", "recording"})
      /\ wrapper = "dead" => wrapper' = "dead"
      /\ others' \in BOOLEAN /\ cut' \in BOOLEAN /\ (cut => cut')
      /\ wrapper' = "dead" /\ rc' = "none" => cut'
      /\ rc' \in {rc, "signal"} /\ (rc' = "signal" => cut')
  <2>1. /\ wrapper \in {"none", "running", "recording", "dead"} /\ others \in BOOLEAN /\ cut \in BOOLEAN
        /\ wrapper = "dead" /\ rc = "none" => cut
        /\ rc = "signal" => cut
        /\ p.pc = "write" => cut
    BY RunFacts DEF RunInv, RunTyped, Informed
  <2>2. CASE R!op_proc_kill(c)
    BY <2>1, <2>2 DEF R!op_proc_kill
  <2>3. CASE R!Escalate(c)
    BY <2>1, <2>3 DEF R!Escalate, R!KillGroup, R!_group_alive
  <2>4. CASE R!RecordKill(c)
    BY <2>1, <2>4 DEF R!RecordKill
  <2>5. QED
    BY <2>2, <2>3, <2>4
<1>7. q.pc = "write" => cut'
  <2> SUFFICES ASSUME q.pc = "write" PROVE cut'
    OBVIOUS
  <2>1. rc = "none" /\ ~R!_group_alive
    BY <1>3, <1>4
  <2>2. wrapper = "dead"
    BY <1>2, <2>1 DEF R!_group_alive, RunInv, RunTyped
  <2>3. QED
    BY <1>6, <2>1, <2>2 DEF RunInv
<1>8. Informed(q, wrapper', cut', log, logStart)
  <2>1. Informed(p, wrapper, cut, log, logStart)
    BY RunFacts
  <2>2. Searched(p, log, logStart) => Searched(q, log, logStart)
    BY <1>4 DEF Searched
  <2>3. wrapper' # "none"
    BY <1>2, <1>6
  <2>4. q.pc # "idle" /\ q.pc # "view 2" /\ q.pc # "check"
    BY <1>4
  <2>5. q.op = "waitfor" => p.op = "waitfor"
    BY <1>4
  <2> HIDE DEF p
  <2>6. p.pc # "idle"
    BY <1>1
  <2>7. QED
    BY <1>4, <1>6, <1>7, <2>1, <2>2, <2>3, <2>4, <2>5, <2>6 DEF Informed
<1>9. QED
  BY <1>1, <1>2, <1>4, <1>5, <1>6, <1>8, RunClientGoes

\* A bounded set of numbers has a greatest one.
LEMMA Greatest ==
  ASSUME NEW T, T \subseteq Nat, T # {}, NEW b \in Nat, \A n \in T : n <= b
  PROVE  \E m \in T : \A n \in T : n <= m
<1> DEFINE Bounds == {m \in Nat : \A n \in T : n <= m}
<1>1. Bounds \subseteq Nat /\ Bounds # {}
  OBVIOUS
<1>2. PICK m \in Bounds : \A k \in Bounds : m <= k
  <2> HIDE DEF Bounds
  <2>1. QED
    BY <1>1, Least
<1>3. m \in T
  <2>1. SUFFICES ASSUME m \notin T PROVE FALSE
    OBVIOUS
  <2>2. PICK n \in T : TRUE
    OBVIOUS
  <2>3. \A k \in T : k < m
    BY <2>1
  <2>4. m - 1 \in Bounds
    BY <2>2, <2>3
  <2>5. QED
    BY <2>4, <1>2
<1>4. QED
  BY <1>3

\* What one check of the log reads, and what its answer means.
LEMMA RunScan ==
  ASSUME RunInv, NEW c \in RunClients, NEW final \in BOOLEAN,
         runClient[c].pc # "idle", runClient[c].op = "waitfor"
  PROVE  LET s == R!scan(c, final)
         IN  /\ s.pos \in Nat /\ s.line \in Nat
             /\ logStart <= s.line /\ s.line <= s.pos /\ s.pos <= Len(log)
             /\ s.line = logStart \/ log[s.line] = "nl"
             /\ s.hit => HasLine(log, logStart, Len(log))
             /\ ~s.hit => ~HasLine(log, logStart, s.line)
             /\ ~s.hit /\ final => ~HasLine(log, logStart, Len(log))
<1> DEFINE p == runClient[c]
           to == R!ReadTo(c, final)
           whole == R!LineStart(p.line, to)
           ends == {i \in p.line + 1..to : log[i] = "nl"}
<1>1. /\ p.pos \in Nat /\ p.line \in Nat /\ Len(log) \in Nat /\ logStart \in Nat
      /\ logStart <= p.line /\ p.line <= p.pos /\ p.pos <= Len(log)
      /\ p.line = logStart \/ log[p.line] = "nl"
      /\ ~HasLine(log, logStart, p.line)
  BY RunFacts DEF Informed, Searched, RunRequests
<1>2. /\ to \in Nat /\ p.line <= to /\ to <= Len(log)
      /\ final => to = Len(log)
  BY <1>1, RunAssumption DEF R!ReadTo
<1> HIDE DEF to
<1>3. /\ whole \in Nat /\ p.line <= whole /\ whole <= to
      /\ whole = p.line \/ log[whole] = "nl"
  <2>1. CASE ends = {}
    BY <2>1, <1>1, <1>2 DEF R!LineStart
  <2>2. CASE ends # {}
    <3>1. ends \subseteq Nat /\ \A n \in ends : n <= to
      BY <1>1, <1>2
    <3>2. \E i \in ends : \A k \in ends : k <= i
      <4> HIDE DEF ends
      <4>1. QED
        BY <2>2, <3>1, <1>2, Greatest
    <3>3. whole = CHOOSE i \in ends : \A k \in ends : k <= i
      BY <2>2 DEF R!LineStart
    <3>4. whole \in ends
      BY <3>2, <3>3
    <3>5. QED
      BY <3>4, <1>1, <1>2
  <2>3. QED
    BY <2>1, <2>2
<1> HIDE DEF whole, ends
<1>4. \A a, b : R!HasMatch(a, b) <=> HasLine(log, a, b)
  BY DEF R!HasMatch, R!MatchAt, HasLine
<1>5. R!scan(c, final) = [hit |-> HasLine(log, p.line, whole)
                                    \/ ((final \/ to = p.pos) /\ HasLine(log, whole, to)),
                          pos |-> to, line |-> whole]
  BY <1>4 DEF R!scan, to, whole
<1> DEFINE hit == HasLine(log, p.line, whole) \/ ((final \/ to = p.pos) /\ HasLine(log, whole, to))
<1>6. hit => HasLine(log, logStart, Len(log))
  BY <1>1, <1>2, <1>3, SMTT(30) DEF HasLine
<1>7. ~HasLine(log, p.line, whole) => ~HasLine(log, logStart, whole)
  <2> SUFFICES ASSUME NEW i \in 1..whole, i > logStart, i < whole, log[i] = "m1", log[i + 1] = "m2"
               PROVE  HasLine(log, p.line, whole)
    BY DEF HasLine
  <2>1. CASE i > p.line
    BY <2>1 DEF HasLine
  <2>2. CASE i = p.line
    BY <2>2, <1>1
  <2>3. CASE i < p.line
    <3>1. i \in 1..p.line
      BY <2>3, <1>1, <1>3
    <3>2. QED
      BY <3>1, <2>3, <1>1 DEF HasLine
  <2>4. QED
    BY <2>1, <2>2, <2>3, <1>1, <1>3
<1>8. ~HasLine(log, p.line, whole) /\ ~HasLine(log, whole, to) => ~HasLine(log, logStart, to)
  <2> SUFFICES ASSUME ~HasLine(log, p.line, whole),
                      NEW i \in 1..to, i > logStart, i < to, log[i] = "m1", log[i + 1] = "m2"
               PROVE  HasLine(log, whole, to)
    BY DEF HasLine
  <2>1. CASE i > whole
    BY <2>1 DEF HasLine
  <2>2. CASE i = whole
    BY <2>2, <1>1, <1>3
  <2>3. CASE i < whole
    <3>1. i \in 1..whole
      BY <2>3, <1>2, <1>3
    <3>2. HasLine(log, logStart, whole)
      BY <3>1, <2>3 DEF HasLine
    <3>3. QED
      BY <3>2, <1>7
  <2>4. QED
    BY <2>1, <2>2, <2>3, <1>2, <1>3
<1>9. ~hit => ~HasLine(log, logStart, whole) /\ (final => ~HasLine(log, logStart, Len(log)))
  BY <1>2, <1>7, <1>8
<1>10. whole = logStart \/ log[whole] = "nl"
  BY <1>1, <1>3
<1>11. logStart <= whole
  BY <1>1, <1>3
<1> HIDE DEF hit
<1>12. R!scan(c, final).pos = to /\ R!scan(c, final).line = whole /\ R!scan(c, final).hit = hit
  BY <1>5 DEF hit
<1>13. QED
  BY <1>2, <1>3, <1>6, <1>9, <1>10, <1>11, <1>12

\* A check of the log, the last one when the run has ended, and the next.
LEMMA RunWaits ==
  ASSUME RunInv, NEW c \in RunClients,
         R!op_waitfor(c) \/ R!FinalScan(c) \/ \E timeout \in BOOLEAN : R!Again(c, timeout)
  PROVE  RunInv'
<1> DEFINE p == runClient[c]
<1>1. /\ p.pc \in {"check", "view 2"} /\ UNCHANGED <<record, R!process, log, logStart>>
      /\ p \in RunRequests /\ p.op = "waitfor" /\ wrapper # "none"
      /\ Searched(p, log, logStart)
  BY RunFacts DEF R!op_waitfor, R!FinalScan, R!Again, Informed
<1>2. ASSUME R!op_waitfor(c) PROVE RunInv'
  <2> DEFINE s == R!scan(c, FALSE)
             q == [p EXCEPT !.pc = "view 1", !.pos = s.pos, !.line = s.line]
  <2>1. /\ s.pos \in Nat /\ s.line \in Nat
        /\ logStart <= s.line /\ s.line <= s.pos /\ s.pos <= Len(log)
        /\ s.line = logStart \/ log[s.line] = "nl"
        /\ s.hit => HasLine(log, logStart, Len(log))
        /\ ~s.hit => ~HasLine(log, logStart, s.line)
    BY <1>1, RunScan
  <2>2. \/ s.hit /\ R!Tells(c, "matched")
        \/ ~s.hit /\ R!Goes(c, q)
    BY <1>2 DEF R!op_waitfor
  <2> HIDE DEF s
  <2>3. CASE s.hit /\ R!Tells(c, "matched")
    BY <1>1, <2>1, <2>3, RunTells
  <2>4. CASE ~s.hit /\ R!Goes(c, q)
    <3>1. /\ q \in RunRequests /\ q.pc = "view 1" /\ q.op = "waitfor" /\ q.pos = s.pos /\ q.line = s.line
          /\ q.told = p.told /\ q.upto = p.upto
      BY <1>1, <2>1 DEF RunRequests
    <3> HIDE DEF q
    <3>2. Searched(q, log, logStart)
      BY <2>1, <2>4, <3>1 DEF Searched
    <3>3. Informed(q, wrapper, cut, log, logStart)
      BY <1>1, <3>1, <3>2, RunFacts DEF Informed
    <3>4. QED
      BY <1>1, <2>4, <3>1, <3>3, RunClientLooks
  <2>5. QED
    BY <2>2, <2>3, <2>4
<1>3. ASSUME R!FinalScan(c) PROVE RunInv'
  <2> DEFINE s == R!scan(c, TRUE)
  <2>1. /\ s.hit => HasLine(log, logStart, Len(log))
        /\ ~s.hit => ~HasLine(log, logStart, Len(log))
    BY <1>1, RunScan
  <2>2. R!Tells(c, IF s.hit THEN "matched" ELSE "no match")
    BY <1>3 DEF R!FinalScan
  <2> HIDE DEF s
  <2>3. CASE s.hit
    BY <1>1, <2>1, <2>2, <2>3, RunTells
  <2>4. CASE ~s.hit
    BY <1>1, <2>1, <2>2, <2>4, RunTells
  <2>5. QED
    BY <2>3, <2>4
<1>4. ASSUME NEW timeout \in BOOLEAN, R!Again(c, timeout) PROVE RunInv'
  <2> DEFINE pos == IF timeout THEN p.line ELSE p.pos
             line == IF timeout THEN p.line ELSE p.line
             q == [p EXCEPT !.pc = "check", !.pos = pos, !.line = line]
  <2>1. pos \in Nat /\ line = p.line /\ p.line \in Nat /\ pos \in {p.pos, p.line}
    BY <1>1 DEF RunRequests
  <2>2. R!Goes(c, q)
    BY <1>4 DEF R!Again, R!ResumeAt
  <2> HIDE DEF pos, line
  <2>3. /\ q \in RunRequests /\ q.pc = "check" /\ q.op = "waitfor" /\ q.pos = pos /\ q.line = p.line
        /\ q.told = p.told /\ q.upto = p.upto
    BY <1>1, <2>1 DEF RunRequests
  <2> HIDE DEF q
  <2>4. Searched(p, log, logStart)
    BY <1>1, RunFacts DEF Informed
  <2>5. Searched(q, log, logStart)
    <3>1. /\ logStart <= q.line /\ q.line <= q.pos
          /\ q.line = logStart \/ log[q.line] = "nl"
          /\ ~HasLine(log, logStart, q.line)
      BY <2>1, <2>3, <2>4 DEF Searched
    <3>2. q.pos <= Len(log)
      <4>1. p.pos \in Nat /\ p.line \in Nat /\ Len(log) \in Nat /\ p.line <= p.pos /\ p.pos <= Len(log)
        BY <1>1, <2>4, RunFacts DEF RunRequests, Searched
      <4>2. QED
        BY <2>1, <2>3, <4>1
    <3>3. QED
      BY <3>1, <3>2 DEF Searched
  <2>6. Informed(q, wrapper, cut, log, logStart)
    BY <1>1, <2>3, <2>5, RunFacts DEF Informed
  <2>7. QED
    BY <1>1, <2>2, <2>3, <2>6, RunClientLooks
<1>5. QED
  BY <1>2, <1>3, <1>4

\* A request ends without an answer, or its answer is forgotten.
LEMMA RunForgets ==
  ASSUME RunInv, NEW c \in RunClients, R!GivesUp(c) \/ R!Forgets(c)
  PROVE  RunInv'
<1>1. R!Goes(c, R!Idle) /\ UNCHANGED <<record, R!process, log, logStart>>
  BY DEF R!GivesUp, R!Forgets
<1>2. R!Idle \in RunRequests /\ Informed(R!Idle, wrapper, cut, log, logStart)
  BY DEF R!Idle, RunRequests, Informed
<1>3. QED
  BY <1>1, <1>2, RunClientLooks

\* Every step keeps it.
LEMMA RunStep == RunInv /\ [R!DetachNext]_runs => RunInv'
<1> SUFFICES ASSUME RunInv, [R!DetachNext]_runs PROVE RunInv'
  OBVIOUS
<1>1. CASE UNCHANGED runs
  BY <1>1 DEF runs, RunInv, RunTyped, Informed, Searched
<1>2. CASE R!DetachNext
  BY <1>2, RunStarts, RunGoesOn, RunAsk, RunLook, RunStatus, RunKill, RunWaits, RunForgets DEF R!DetachNext
<1>3. QED
  BY <1>1, <1>2

\* Only a run whose wrapper was killed before it recorded its end is called
\* gone, or given a status; and a wait says that its line is in the log, or is
\* not, only when that is so of all that was there.
THEOREM RunsAreKnown ==
  R!DetachInit /\ [][R!DetachNext]_runs => []RunsAreToldTruly
<1>1. R!DetachInit => RunInv
  <2> SUFFICES ASSUME R!DetachInit PROVE RunInv
    OBVIOUS
  <2>1. log \in Seq(R!Pieces) /\ logStart \in 0..Len(log)
    <3>1. CASE log = <<>>
      BY <3>1 DEF R!DetachInit
    <3>2. CASE log = <<"m1", "m2">>
      BY <3>2 DEF R!DetachInit, R!Pieces
    <3>3. QED
      BY <3>1, <3>2 DEF R!DetachInit
  <2>2. R!Idle \in RunRequests /\ R!Idle.pc = "idle" /\ R!Idle.told = "nothing"
    BY DEF R!Idle, RunRequests
  <2>3. RunTyped
    BY <2>1, <2>2 DEF R!DetachInit, RunTyped
  <2>4. \A c \in RunClients : runClient[c] = R!Idle
    BY DEF R!DetachInit
  <2>5. \A c \in RunClients : Informed(runClient[c], wrapper, cut, log, logStart)
    BY <2>2, <2>4 DEF Informed
  <2>6. QED
    BY <2>3, <2>5 DEF R!DetachInit, RunInv
<1>2. RunInv => RunsAreToldTruly
  <2> SUFFICES ASSUME RunInv PROVE RunsAreToldTruly
    OBVIOUS
  <2>1. \A a, b : R!HasMatch(a, b) <=> HasLine(log, a, b)
    BY DEF R!HasMatch, R!MatchAt, HasLine
  <2>2. QED
    BY <2>1 DEF RunInv, Informed, RunsAreToldTruly, R!GoneIsKilled, R!NoMissedLine
<1>3. QED
  BY <1>1, <1>2, RunStep, PTL

------------------------------------------------------------------------------
(* Discovery on a host.  Everything the observer reads is so when it reads *)
(* it: what it saw in the queue ended no earlier than its tick, what       *)
(* accounting told it is in accounting for good.  An end that was in       *)
(* accounting in time, and before the last time accounting was read, is    *)
(* shown, since the windows overlap.                                       *)

Seen   == {"none", "RUNNING", "OVER"}
Shown  == Seen \union {"UNKNOWN"}
HostDocs == [task : [HostTasks -> Shown], last : {"none", "RUNNING"}, observed : Nat, accounting : Nat,
             baseline : BOOLEAN]
HostReads == [pc : {"idle", "queue", "merge", "tell"}, now : Nat, queue : SUBSET HostTasks, asked : BOOLEAN,
              acct : [HostTasks -> Seen], event : Seen]
Accounts == [HostTasks -> [state : Seen, at : Nat]]

HostTyped ==
  /\ hostClock \in 1..MaxHostClock
  /\ hostTasks \subseteq HostTasks
  /\ hostFate \in [HostTasks -> {"RUNNING", "OVER"}]
  /\ hostEnded \in [HostTasks -> 1..H!NEVER]
  /\ hostSacct \in Accounts
  /\ doc \in HostDocs
  /\ discoverer \in HostReads
  /\ news \in Nat
  /\ quiet \in BOOLEAN

\* Accounting says of a task that it is over after it is.
AccountsTrue(clock, tasks, fate, ended, sacct) ==
  \A t \in HostTasks :
    /\ fate[t] = "OVER" => t \in tasks /\ ended[t] <= clock
    /\ fate[t] = "RUNNING" => ended[t] = H!NEVER
    /\ sacct[t].state # "none" => t \in tasks
    /\ sacct[t].state = "OVER" => fate[t] = "OVER" /\ ended[t] <= sacct[t].at /\ sacct[t].at <= clock

\* An end that reached accounting in time, and before it was read at time read.
FoundBy(a, end, read) == a.state = "OVER" /\ a.at <= end + H!OVERLAP /\ a.at < read

\* What the observer has read in this tick is so, and an end that it is to find
\* is in it or in the document d.
ReadsTrue(p, clock, tasks, ended, sacct, d) ==
  /\ p.pc \in {"queue", "merge"} =>
       /\ p.now = clock
       /\ \A t \in p.queue : t \in tasks /\ ended[t] >= p.now /\ d.task[t] # "OVER"
  /\ p.pc = "queue" => ~p.asked /\ \A t \in HostTasks : p.acct[t] = "none"
  /\ p.pc = "merge" => \A t \in HostTasks :
       /\ p.acct[t] = "OVER" => sacct[t].state = "OVER"
       /\ p.acct[t] # "none" => t \in tasks
       /\ p.acct[t] = "RUNNING" => d.task[t] # "OVER"
       /\ p.asked /\ FoundBy(sacct[t], ended[t], p.now) => "OVER" \in {p.acct[t], d.task[t]}

\* What the document shows is so.
DocTrue(d, clock, tasks, ended, sacct) ==
  /\ d.observed <= clock /\ d.accounting <= clock
  /\ \A t \in HostTasks :
       /\ d.task[t] # "none" => t \in tasks
       /\ d.task[t] = "OVER" => sacct[t].state = "OVER"
       /\ d.task[t] = "RUNNING" => ended[t] >= d.observed
       /\ FoundBy(sacct[t], ended[t], d.accounting) => d.task[t] = "OVER"

\* The end of a single job is told, or about to be, once the document shows it.
NewsTrue(p, tasks, d, n, passed) ==
  tasks \subseteq {1} =>
    /\ n \in {0, 1}
    /\ n = 1 \/ (p.pc = "tell" /\ p.event = "OVER") => d.task[1] = "OVER"
    /\ ~(n = 1 /\ p.pc = "tell" /\ p.event = "OVER")
    /\ d.task[1] = "OVER" => n = 1 \/ passed \/ (p.pc = "tell" /\ p.event = "OVER")

HostInv ==
  /\ HostTyped
  /\ AccountsTrue(hostClock, hostTasks, hostFate, hostEnded, hostSacct)
  /\ ReadsTrue(discoverer, hostClock, hostTasks, hostEnded, hostSacct, doc)
  /\ DocTrue(doc, hostClock, hostTasks, hostEnded, hostSacct)
  /\ NewsTrue(discoverer, hostTasks, doc, news, quiet)

LEMMA HostTimePasses ==
  ASSUME HostInv, H!TimePasses
  PROVE  HostInv'
<1> USE DEF HostInv, HostTyped, H!TimePasses, H!Watched
<1>1. /\ hostClock \in Nat /\ hostClock' \in 1..MaxHostClock /\ hostClock <= hostClock'
      /\ UNCHANGED <<hostTasks, hostFate, hostEnded, hostSacct, doc, discoverer, news, quiet>>
  BY DiscoveryAssumption
<1>2. HostTyped'
  BY <1>1
<1>3. AccountsTrue(hostClock, hostTasks, hostFate, hostEnded, hostSacct)'
  BY <1>1, DiscoveryAssumption DEF AccountsTrue, Accounts, H!NEVER
<1>4. ReadsTrue(discoverer, hostClock, hostTasks, hostEnded, hostSacct, doc)'
  BY <1>1 DEF ReadsTrue, H!Idle
<1>5. DocTrue(doc, hostClock, hostTasks, hostEnded, hostSacct)'
  BY <1>1, DiscoveryAssumption DEF DocTrue, HostDocs
<1>6. NewsTrue(discoverer, hostTasks, doc, news, quiet)'
  BY <1>1 DEF NewsTrue
<1>7. QED
  BY <1>2, <1>3, <1>4, <1>5, <1>6

LEMMA HostSubmitted ==
  ASSUME HostInv, H!Submitted
  PROVE  HostInv'
<1> USE DEF HostInv, HostTyped, H!Submitted, H!Watched
<1>1. /\ hostTasks = {} /\ hostTasks' \subseteq HostTasks
      /\ UNCHANGED <<hostClock, hostFate, hostEnded, hostSacct, doc, discoverer, news, quiet>>
  BY DiscoveryAssumption
<1>2. HostTyped'
  BY <1>1
<1>3. AccountsTrue(hostClock, hostTasks, hostFate, hostEnded, hostSacct)'
  BY <1>1 DEF AccountsTrue
<1>4. ReadsTrue(discoverer, hostClock, hostTasks, hostEnded, hostSacct, doc)'
  BY <1>1 DEF ReadsTrue
<1>5. DocTrue(doc, hostClock, hostTasks, hostEnded, hostSacct)'
  BY <1>1 DEF DocTrue
<1>6. NewsTrue(discoverer, hostTasks, doc, news, quiet)'
  BY <1>1 DEF NewsTrue
<1>7. QED
  BY <1>2, <1>3, <1>4, <1>5, <1>6

LEMMA HostTaskEnds ==
  ASSUME HostInv, NEW t \in HostTasks, H!TaskEnds(t)
  PROVE  HostInv'
<1> USE DEF HostInv, HostTyped, H!TaskEnds, H!Watched
<1>1. /\ t \in hostTasks /\ hostFate[t] = "RUNNING"
      /\ hostFate' = [hostFate EXCEPT ![t] = "OVER"] /\ hostEnded' = [hostEnded EXCEPT ![t] = hostClock]
      /\ UNCHANGED <<hostClock, hostTasks, hostSacct, doc, discoverer, news, quiet>>
  OBVIOUS
<1>2. hostClock \in Nat /\ hostClock \in 1..H!NEVER
  BY DiscoveryAssumption DEF H!NEVER
<1>3. hostSacct[t].state # "OVER"
  BY <1>1 DEF AccountsTrue
<1>4. HostTyped'
  BY <1>1, <1>2
<1>5. AccountsTrue(hostClock, hostTasks, hostFate, hostEnded, hostSacct)'
  BY <1>1, <1>2, <1>3 DEF AccountsTrue
<1>6. ReadsTrue(discoverer, hostClock, hostTasks, hostEnded, hostSacct, doc)'
  <2> SUFFICES ReadsTrue(discoverer, hostClock, hostTasks, hostEnded', hostSacct, doc)
    BY <1>1 DEF ReadsTrue
  <2>1. \A u \in HostTasks : hostEnded'[u] = IF u = t THEN hostClock ELSE hostEnded[u]
    BY <1>1
  <2>2. \A u \in HostTasks : FoundBy(hostSacct[u], hostEnded'[u], discoverer.now) =>
                               FoundBy(hostSacct[u], hostEnded[u], discoverer.now)
    BY <2>1, <1>3 DEF FoundBy
  <2>3. discoverer.queue \subseteq HostTasks
    BY DEF HostReads
  <2>4. QED
    BY <2>1, <2>2, <2>3, <1>2 DEF ReadsTrue
<1>7. DocTrue(doc, hostClock, hostTasks, hostEnded, hostSacct)'
  BY <1>1, <1>2, <1>3 DEF DocTrue, FoundBy
<1>8. NewsTrue(discoverer, hostTasks, doc, news, quiet)'
  BY <1>1 DEF NewsTrue
<1>9. QED
  BY <1>4, <1>5, <1>6, <1>7, <1>8

LEMMA HostAccountingFollows ==
  ASSUME HostInv, NEW t \in HostTasks, H!AccountingFollows(t)
  PROVE  HostInv'
<1> USE DEF HostInv, HostTyped, H!AccountingFollows, H!Watched
<1> DEFINE row1 == [state |-> hostFate[t], at |-> IF hostFate[t] = "RUNNING" THEN 0 ELSE hostClock]
<1>1. /\ t \in hostTasks /\ hostSacct[t].state # hostFate[t]
      /\ UNCHANGED <<hostClock, hostTasks, hostFate, hostEnded, doc, discoverer, news, quiet>>
  OBVIOUS
<1>2. /\ hostClock \in Nat /\ row1 \in [state : Seen, at : Nat] /\ row1.state = hostFate[t]
      /\ row1.state = "OVER" => row1.at = hostClock
  BY DiscoveryAssumption DEF Seen
<1>3. hostSacct' = [hostSacct EXCEPT ![t] = row1]
  OBVIOUS
<1> HIDE DEF row1
<1>4. \A u \in HostTasks : hostSacct'[u] = IF u = t THEN row1 ELSE hostSacct[u]
  BY <1>3 DEF Accounts
<1>5. hostSacct[t].state # "OVER"
  BY <1>1 DEF AccountsTrue
<1>6. HostTyped'
  <2>1. hostSacct' \in Accounts
    BY <1>2, <1>3 DEF Accounts
  <2>2. QED
    BY <1>1, <2>1
<1>7. AccountsTrue(hostClock, hostTasks, hostFate, hostEnded, hostSacct)'
  BY <1>1, <1>2, <1>4 DEF AccountsTrue
<1>8. ReadsTrue(discoverer, hostClock, hostTasks, hostEnded, hostSacct, doc)'
  <2> SUFFICES ReadsTrue(discoverer, hostClock, hostTasks, hostEnded, hostSacct', doc)
    BY <1>1 DEF ReadsTrue
  <2>1. discoverer.pc = "merge" => \A u \in HostTasks :
          FoundBy(hostSacct'[u], hostEnded[u], discoverer.now) => FoundBy(hostSacct[u], hostEnded[u], discoverer.now)
    BY <1>2, <1>4 DEF FoundBy, ReadsTrue
  <2>2. QED
    BY <2>1, <1>4, <1>5 DEF ReadsTrue
<1>9. DocTrue(doc, hostClock, hostTasks, hostEnded, hostSacct)'
  <2> SUFFICES DocTrue(doc, hostClock, hostTasks, hostEnded, hostSacct')
    BY <1>1 DEF DocTrue
  <2>1. \A u \in HostTasks :
          FoundBy(hostSacct'[u], hostEnded[u], doc.accounting) => FoundBy(hostSacct[u], hostEnded[u], doc.accounting)
    BY <1>2, <1>4 DEF FoundBy, DocTrue, HostDocs
  <2>2. QED
    BY <2>1, <1>4, <1>5 DEF DocTrue
<1>10. NewsTrue(discoverer, hostTasks, doc, news, quiet)'
  BY <1>1 DEF NewsTrue
<1>11. QED
  BY <1>6, <1>7, <1>8, <1>9, <1>10

------------------------------------------------------------------------------

\* A step of the observer alone.
LEMMA HostGoes ==
  ASSUME HostInv, NEW p \in HostReads, H!Goes(p), p.pc # "tell", discoverer.pc # "tell",
         ReadsTrue(p, hostClock, hostTasks, hostEnded, hostSacct, doc)
  PROVE  HostInv'
<1> USE DEF HostInv, HostTyped, H!Goes, H!World
<1>1. /\ discoverer' = p
      /\ UNCHANGED <<hostClock, hostTasks, hostFate, hostEnded, hostSacct, doc, news, quiet>>
  OBVIOUS
<1>2. HostTyped'
  BY <1>1
<1>3. AccountsTrue(hostClock, hostTasks, hostFate, hostEnded, hostSacct)'
  BY <1>1 DEF AccountsTrue
<1>4. ReadsTrue(discoverer, hostClock, hostTasks, hostEnded, hostSacct, doc)'
  BY <1>1 DEF ReadsTrue
<1>5. DocTrue(doc, hostClock, hostTasks, hostEnded, hostSacct)'
  BY <1>1 DEF DocTrue
<1>6. NewsTrue(discoverer, hostTasks, doc, news, quiet)'
  BY <1>1 DEF NewsTrue
<1>7. QED
  BY <1>2, <1>3, <1>4, <1>5, <1>6

LEMMA HostIdle ==
  H!Idle \in HostReads /\ H!Idle.pc = "idle" /\ H!Idle.event = "none"
BY DEF H!Idle, HostReads, Seen

LEMMA HostQueue ==
  ASSUME HostInv, H!squeue
  PROVE  HostInv'
<1> DEFINE p == [H!Idle EXCEPT !.pc = "queue", !.now = hostClock,
                               !.queue = {t \in hostTasks : hostFate[t] = "RUNNING"}]
<1>1. H!Goes(p) /\ discoverer.pc = "idle"
  BY DEF H!squeue
<1>2. hostClock \in Nat /\ hostTasks \subseteq HostTasks
  BY DiscoveryAssumption DEF HostInv, HostTyped
<1>3. /\ p \in HostReads
      /\ p.pc = "queue" /\ p.now = hostClock /\ p.queue = {t \in hostTasks : hostFate[t] = "RUNNING"}
      /\ ~p.asked /\ \A t \in HostTasks : p.acct[t] = "none"
  BY <1>2 DEF H!Idle, HostReads, Seen
<1> HIDE DEF p
<1>4. \A t \in hostTasks : hostFate[t] = "RUNNING" => hostEnded[t] >= hostClock /\ doc.task[t] # "OVER"
  BY <1>2, DiscoveryAssumption DEF HostInv, HostTyped, AccountsTrue, DocTrue, H!NEVER
<1>5. ReadsTrue(p, hostClock, hostTasks, hostEnded, hostSacct, doc)
  BY <1>3, <1>4 DEF ReadsTrue
<1>6. QED
  BY <1>1, <1>3, <1>5, HostGoes

LEMMA HostReadFails ==
  ASSUME HostInv, H!ReadFails
  PROVE  HostInv'
<1>1. ReadsTrue(H!Idle, hostClock, hostTasks, hostEnded, hostSacct, doc)
  BY HostIdle DEF ReadsTrue
<1>2. QED
  BY <1>1, HostIdle, HostGoes DEF H!ReadFails

LEMMA HostNoAccounting ==
  ASSUME HostInv, H!NoAccounting
  PROVE  HostInv'
<1> DEFINE p == [discoverer EXCEPT !.pc = "merge"]
<1>1. H!Goes(p) /\ discoverer.pc = "queue"
  BY DEF H!NoAccounting
<1>2. /\ p \in HostReads /\ p.pc = "merge" /\ p.now = discoverer.now /\ p.queue = discoverer.queue
      /\ p.asked = discoverer.asked /\ p.acct = discoverer.acct
  BY DEF HostInv, HostTyped, HostReads
<1> HIDE DEF p
<1>3. ReadsTrue(p, hostClock, hostTasks, hostEnded, hostSacct, doc)
  BY <1>1, <1>2 DEF HostInv, ReadsTrue
<1>4. QED
  BY <1>1, <1>2, <1>3, HostGoes

\* The window of accounting overlaps the last: what it leaves out, and was in
\* accounting in time, is in the document.
LEMMA HostReadAccounting ==
  ASSUME HostInv, H!ReadAccounting
  PROVE  HostInv'
<1> DEFINE a == [t \in HostTasks |-> IF H!InWindow(t) THEN hostSacct[t].state ELSE "none"]
           p == [discoverer EXCEPT !.pc = "merge", !.asked = TRUE, !.acct = a]
<1>1. H!Goes(p) /\ discoverer.pc = "queue"
  BY DEF H!ReadAccounting
<1>2. a \in [HostTasks -> Seen]
  BY DEF HostInv, HostTyped, Accounts, Seen
<1>3. \A t \in HostTasks : a[t] = IF H!InWindow(t) THEN hostSacct[t].state ELSE "none"
  OBVIOUS
<1> HIDE DEF a
<1>4. /\ p \in HostReads /\ p.pc = "merge" /\ p.now = discoverer.now /\ p.queue = discoverer.queue
      /\ p.asked /\ p.acct = a
  BY <1>2 DEF HostInv, HostTyped, HostReads
<1> HIDE DEF p
<1>5. ASSUME NEW t \in HostTasks
      PROVE  /\ a[t] = "OVER" => hostSacct[t].state = "OVER"
             /\ a[t] # "none" => t \in hostTasks
             /\ a[t] = "RUNNING" => doc.task[t] # "OVER"
             /\ FoundBy(hostSacct[t], hostEnded[t], p.now) => "OVER" \in {a[t], doc.task[t]}
  <2>1. a[t] = "OVER" => hostSacct[t].state = "OVER"
    BY <1>3
  <2>2. a[t] # "none" => t \in hostTasks
    BY <1>3 DEF HostInv, AccountsTrue
  <2>3. a[t] = "RUNNING" => doc.task[t] # "OVER"
    BY <1>3 DEF HostInv, DocTrue
  <2>4. ASSUME FoundBy(hostSacct[t], hostEnded[t], p.now), ~H!InWindow(t) PROVE doc.task[t] = "OVER"
    <3>1. hostSacct[t].at \in Nat /\ hostEnded[t] \in Nat /\ doc.accounting \in Nat
      BY DEF HostInv, HostTyped, Accounts, HostDocs
    <3>2. FoundBy(hostSacct[t], hostEnded[t], doc.accounting)
      BY <2>4, <3>1 DEF FoundBy, H!InWindow, H!OVERLAP
    <3>3. QED
      BY <3>2 DEF HostInv, DocTrue
  <2>5. QED
    BY <2>1, <2>2, <2>3, <2>4, <1>3 DEF FoundBy
<1>6. ReadsTrue(p, hostClock, hostTasks, hostEnded, hostSacct, doc)
  BY <1>1, <1>4, <1>5 DEF HostInv, ReadsTrue
<1>7. QED
  BY <1>1, <1>4, <1>6, HostGoes

\* The roll-up of a job of one task is that task.
LEMMA RollupOfOne ==
  ASSUME NEW task, \A t \in HostTasks : t # 1 => task[t] = "none",
         task[1] \in Shown
  PROVE  H!Rollup(task) = task[1]
<1> DEFINE seen == {task[t] : t \in HostTasks} \ {"none"}
<1>1. H!Rollup(task) = IF seen = {} THEN "none"
                       ELSE IF "RUNNING" \in seen THEN "RUNNING"
                       ELSE IF "UNKNOWN" \in seen THEN "UNKNOWN" ELSE "OVER"
  BY DEF H!Rollup
<1>2. seen = {task[1]} \ {"none"}
  BY DiscoveryAssumption
<1>3. seen = {} <=> task[1] = "none"
  BY <1>2
<1> HIDE DEF seen
<1>4. QED
  BY <1>1, <1>2, <1>3 DEF Shown, Seen

LEMMA HostEvent ==
  ASSUME NEW p, NEW task
  PROVE  H!Event(p, task) \in Seen
BY DEF H!Event, H!Rollup, Seen

\* What the merge makes of what was read and what was known.
LEMMA HostMerged ==
  ASSUME HostInv, discoverer.pc = "merge", NEW t \in HostTasks
  PROVE  /\ H!Merged(discoverer, t) \in Shown
         /\ H!Merged(discoverer, t) # "none" => t \in hostTasks
         /\ H!Merged(discoverer, t) = "OVER" => hostSacct[t].state = "OVER"
         /\ H!Merged(discoverer, t) = "RUNNING" => t \in discoverer.queue
         /\ doc.task[t] = "OVER" => H!Merged(discoverer, t) = "OVER"
         /\ discoverer.asked /\ FoundBy(hostSacct[t], hostEnded[t], discoverer.now) =>
              H!Merged(discoverer, t) = "OVER"
<1> DEFINE a == discoverer.acct[t]
<1>1. a \in Seen /\ doc.task[t] \in Shown /\ discoverer.queue \subseteq HostTasks
  BY DEF HostInv, HostTyped, HostReads, HostDocs
<1>2. H!Merged(discoverer, t) =
        IF t \in discoverer.queue THEN "RUNNING"
        ELSE IF (IF a # "none" THEN a ELSE doc.task[t]) = "RUNNING" THEN "UNKNOWN"
        ELSE IF a # "none" THEN a ELSE doc.task[t]
  BY DEF H!Merged
<1>3. /\ t \in discoverer.queue => t \in hostTasks /\ hostEnded[t] >= discoverer.now /\ doc.task[t] # "OVER"
      /\ a = "OVER" => hostSacct[t].state = "OVER"
      /\ a # "none" => t \in hostTasks
      /\ a = "RUNNING" => doc.task[t] # "OVER"
      /\ discoverer.asked /\ FoundBy(hostSacct[t], hostEnded[t], discoverer.now) => "OVER" \in {a, doc.task[t]}
  BY <1>1 DEF HostInv, ReadsTrue
<1>4. doc.task[t] # "none" => t \in hostTasks
  BY DEF HostInv, DocTrue
<1>5. doc.task[t] = "OVER" => hostSacct[t].state = "OVER"
  BY DEF HostInv, DocTrue
<1>6. FoundBy(hostSacct[t], hostEnded[t], discoverer.now) => hostEnded[t] < discoverer.now
  <2>1. hostSacct[t].state = "OVER" => hostEnded[t] <= hostSacct[t].at
    BY DEF HostInv, AccountsTrue
  <2>2. hostSacct[t].at \in Nat /\ hostEnded[t] \in Nat /\ discoverer.now \in Nat
    BY DEF HostInv, HostTyped, Accounts, HostReads
  <2>3. QED
    BY <2>1, <2>2 DEF FoundBy
<1>7. FoundBy(hostSacct[t], hostEnded[t], discoverer.now) => t \notin discoverer.queue
  <2>1. hostEnded[t] \in Nat /\ discoverer.now \in Nat
    BY DEF HostInv, HostTyped, HostReads
  <2>2. QED
    BY <2>1, <1>3, <1>6
<1> HIDE DEF a
<1>8. QED
  BY <1>1, <1>2, <1>3, <1>4, <1>5, <1>7 DEF Seen, Shown

LEMMA HostMerge ==
  ASSUME HostInv, H!merge
  PROVE  HostInv'
<1> DEFINE p == discoverer
           task == [t \in HostTasks |-> H!Merged(p, t)]
           left == H!Rollup(task) = "UNKNOWN" /\ ~H!IsArray
           lastOf == IF ~left THEN "none" ELSE IF doc.last # "none" THEN doc.last ELSE "RUNNING"
           d == [task |-> task, last |-> lastOf, observed |-> p.now,
                 accounting |-> IF p.asked THEN p.now ELSE doc.accounting, baseline |-> TRUE]
           e == H!Event(p, task)
           tell == [H!Idle EXCEPT !.pc = "tell", !.now = hostClock, !.event = e]
<1>1. /\ p.pc = "merge" /\ doc' = d
      /\ \E dropped \in BOOLEAN :
           /\ discoverer' = IF dropped \/ e = "none" THEN H!Idle ELSE tell
           /\ quiet' = (quiet \/ (dropped /\ e = "OVER"))
      /\ UNCHANGED <<hostClock, hostTasks, hostFate, hostEnded, hostSacct, news>>
  BY DEF H!merge, H!World, H!Backfill
<1>2. /\ hostClock \in Nat /\ p.now = hostClock /\ doc.observed \in Nat /\ doc.accounting \in Nat
      /\ doc.accounting <= hostClock /\ doc.last \in {"none", "RUNNING"} /\ doc.task \in [HostTasks -> Shown]
      /\ p.queue \subseteq HostTasks /\ p.asked \in BOOLEAN
  BY <1>1, DiscoveryAssumption DEF HostInv, HostTyped, HostDocs, HostReads, DocTrue, ReadsTrue
<1>3. \A t \in HostTasks :
        /\ task[t] \in Shown
        /\ task[t] # "none" => t \in hostTasks
        /\ task[t] = "OVER" => hostSacct[t].state = "OVER"
        /\ task[t] = "RUNNING" => t \in p.queue
        /\ doc.task[t] = "OVER" => task[t] = "OVER"
        /\ p.asked /\ FoundBy(hostSacct[t], hostEnded[t], p.now) => task[t] = "OVER"
  BY <1>1, HostMerged
<1>4. task \in [HostTasks -> Shown]
  BY <1>3
<1>5. e \in Seen
  BY HostEvent
<1>6. tell \in HostReads /\ tell.pc = "tell" /\ tell.event = e
  BY <1>2, <1>5, HostIdle DEF HostReads
<1> HIDE DEF tell
<1>7. lastOf \in {"none", "RUNNING"}
  BY <1>2
<1>8. /\ d \in HostDocs /\ d.task = task /\ d.observed = hostClock
      /\ d.accounting = IF p.asked THEN hostClock ELSE doc.accounting
  <2> HIDE DEF task, lastOf
  <2>1. QED
    BY <1>2, <1>4, <1>7 DEF HostDocs
<1>9. HostTyped'
  <2>1. discoverer' \in HostReads /\ quiet' \in BOOLEAN
    BY <1>1, <1>6, HostIdle DEF HostInv, HostTyped
  <2>2. QED
    BY <1>1, <1>8, <2>1 DEF HostInv, HostTyped
<1>10. discoverer'.pc \in {"idle", "tell"}
  BY <1>1, <1>6, HostIdle
<1>11. AccountsTrue(hostClock, hostTasks, hostFate, hostEnded, hostSacct)'
  BY <1>1 DEF HostInv, AccountsTrue
<1>12. ReadsTrue(discoverer, hostClock, hostTasks, hostEnded, hostSacct, doc)'
  BY <1>10 DEF ReadsTrue
<1>13. DocTrue(doc, hostClock, hostTasks, hostEnded, hostSacct)'
  <2> HIDE DEF task, lastOf, d
  <2> SUFFICES DocTrue(d, hostClock, hostTasks, hostEnded, hostSacct)
    BY <1>1 DEF DocTrue
  <2>1. \A t \in HostTasks : task[t] = "RUNNING" => hostEnded[t] >= d.observed
    BY <1>1, <1>2, <1>3, <1>8 DEF HostInv, ReadsTrue
  <2>2. \A t \in HostTasks : FoundBy(hostSacct[t], hostEnded[t], d.accounting) => task[t] = "OVER"
    BY <1>2, <1>3, <1>8 DEF HostInv, DocTrue
  <2>3. d.observed <= hostClock /\ d.accounting <= hostClock
    BY <1>2, <1>8
  <2>4. QED
    BY <2>1, <2>2, <2>3, <1>3, <1>8 DEF DocTrue
<1>14. NewsTrue(discoverer, hostTasks, doc, news, quiet)'
  <2> SUFFICES ASSUME hostTasks \subseteq {1}
               PROVE  /\ news \in {0, 1}
                      /\ news = 1 \/ (discoverer'.pc = "tell" /\ discoverer'.event = "OVER") => task[1] = "OVER"
                      /\ ~(news = 1 /\ discoverer'.pc = "tell" /\ discoverer'.event = "OVER")
                      /\ task[1] = "OVER" =>
                           news = 1 \/ quiet' \/ (discoverer'.pc = "tell" /\ discoverer'.event = "OVER")
    BY <1>1, <1>8 DEF NewsTrue
  <2>1. /\ news \in {0, 1} /\ (news = 1 => doc.task[1] = "OVER")
        /\ doc.task[1] = "OVER" => news = 1 \/ quiet
    BY <1>1 DEF HostInv, NewsTrue
  <2>2. 1 \in HostTasks /\ task[1] \in Shown /\ doc.task[1] \in Shown
        /\ (doc.task[1] = "OVER" => task[1] = "OVER")
    BY <1>2, <1>3, DiscoveryAssumption
  <2>3. H!Rollup(task) = task[1]
    BY <1>3, <2>2, RollupOfOne
  <2>4. H!Rollup(doc.task) = doc.task[1]
    BY <2>2, RollupOfOne DEF HostInv, DocTrue
  <2>5. e = LET old == IF doc.task[1] = "UNKNOWN" THEN doc.last ELSE doc.task[1]
            IN  IF task[1] \in {"none", "UNKNOWN", old} THEN "none" ELSE task[1]
    BY <2>3, <2>4 DEF H!Event
  <2> HIDE DEF task, e, d, lastOf
  <2>6. /\ e = "OVER" => task[1] = "OVER" /\ doc.task[1] # "OVER"
        /\ task[1] = "OVER" /\ doc.task[1] # "OVER" => e = "OVER"
    BY <2>2, <2>5, <1>2 DEF Shown
  <2>7. PICK dropped \in BOOLEAN :
           /\ discoverer' = IF dropped \/ e = "none" THEN H!Idle ELSE tell
           /\ quiet' = (quiet \/ (dropped /\ e = "OVER"))
    BY <1>1
  <2>8. CASE e = "OVER" /\ ~dropped
    BY <2>1, <2>2, <2>6, <2>7, <2>8, <1>6
  <2>9. CASE e = "OVER" /\ dropped
    BY <2>1, <2>2, <2>6, <2>7, <2>9, HostIdle
  <2>10. CASE e # "OVER"
    BY <2>1, <2>2, <2>6, <2>7, <2>10, <1>6, HostIdle
  <2>11. QED
    BY <2>8, <2>9, <2>10
<1>15. QED
  BY <1>9, <1>11, <1>12, <1>13, <1>14 DEF HostInv

LEMMA HostRecord ==
  ASSUME HostInv, H!record
  PROVE  HostInv'
<1> USE DEF HostInv, HostTyped, H!record, H!World
<1>1. /\ discoverer.pc = "tell" /\ discoverer' = H!Idle
      /\ news' = IF discoverer.event = "OVER" /\ news < 2 THEN news + 1 ELSE news
      /\ UNCHANGED <<hostClock, hostTasks, hostFate, hostEnded, hostSacct, doc, quiet>>
  OBVIOUS
<1>2. HostTyped'
  BY <1>1, HostIdle
<1>3. AccountsTrue(hostClock, hostTasks, hostFate, hostEnded, hostSacct)'
  BY <1>1 DEF AccountsTrue
<1>4. ReadsTrue(discoverer, hostClock, hostTasks, hostEnded, hostSacct, doc)'
  BY <1>1, HostIdle DEF ReadsTrue
<1>5. DocTrue(doc, hostClock, hostTasks, hostEnded, hostSacct)'
  BY <1>1 DEF DocTrue
<1>6. NewsTrue(discoverer, hostTasks, doc, news, quiet)'
  BY <1>1, HostIdle DEF NewsTrue
<1>7. QED
  BY <1>2, <1>3, <1>4, <1>5, <1>6

LEMMA HostDies ==
  ASSUME HostInv, H!Dies
  PROVE  HostInv'
<1> USE DEF HostInv, HostTyped, H!Dies, H!World
<1>1. /\ discoverer' = H!Idle /\ quiet' = (quiet \/ discoverer.event = "OVER")
      /\ UNCHANGED <<hostClock, hostTasks, hostFate, hostEnded, hostSacct, doc, news>>
  OBVIOUS
<1>2. HostTyped'
  BY <1>1, HostIdle
<1>3. AccountsTrue(hostClock, hostTasks, hostFate, hostEnded, hostSacct)'
  BY <1>1 DEF AccountsTrue
<1>4. ReadsTrue(discoverer, hostClock, hostTasks, hostEnded, hostSacct, doc)'
  BY <1>1, HostIdle DEF ReadsTrue
<1>5. DocTrue(doc, hostClock, hostTasks, hostEnded, hostSacct)'
  BY <1>1 DEF DocTrue
<1>6. NewsTrue(discoverer, hostTasks, doc, news, quiet)'
  BY <1>1, HostIdle DEF NewsTrue
<1>7. QED
  BY <1>2, <1>3, <1>4, <1>5, <1>6

LEMMA HostStep == HostInv /\ [H!DiscoveryNext]_hosts => HostInv'
<1> SUFFICES ASSUME HostInv, [H!DiscoveryNext]_hosts PROVE HostInv'
  OBVIOUS
<1>1. CASE H!DiscoveryNext
  BY <1>1, HostTimePasses, HostSubmitted, HostTaskEnds, HostAccountingFollows, HostQueue, HostReadFails,
     HostNoAccounting, HostReadAccounting, HostMerge, HostRecord, HostDies DEF H!DiscoveryNext
<1>2. CASE UNCHANGED hosts
  BY <1>2 DEF hosts, HostInv, HostTyped, AccountsTrue, ReadsTrue, DocTrue, NewsTrue
<1>3. QED
  BY <1>1, <1>2

\* What the dashboard shows as running was in the queue when it says it was
\* seen; what it shows as over is over; the end of a task that accounting told
\* within the overlap of two windows is shown after the next read of accounting;
\* and the end of a single job is told at most once, and passed over only in a
\* baseline or with a death (activity/discovery.py).
THEOREM DiscoveryTellsTheTruth ==
  H!DiscoveryInit /\ [][H!DiscoveryNext]_hosts => []DiscoveryIsHonest
<1>1. H!DiscoveryInit => HostInv
  <2> SUFFICES ASSUME H!DiscoveryInit PROVE HostInv
    OBVIOUS
  <2> USE DEF H!DiscoveryInit
  <2>1. hostClock \in 1..MaxHostClock /\ H!NEVER \in 1..H!NEVER /\ 0 \in Nat
    BY DiscoveryAssumption DEF H!NEVER
  <2>2. H!NoDoc \in HostDocs
    BY DEF H!NoDoc, HostDocs, Shown, Seen
  <2>3. HostTyped
    BY <2>1, <2>2, HostIdle DEF HostTyped, Accounts, Seen
  <2>4. AccountsTrue(hostClock, hostTasks, hostFate, hostEnded, hostSacct)
    BY DEF AccountsTrue
  <2>5. ReadsTrue(discoverer, hostClock, hostTasks, hostEnded, hostSacct, doc)
    BY HostIdle DEF ReadsTrue
  <2>6. DocTrue(doc, hostClock, hostTasks, hostEnded, hostSacct)
    BY <2>1 DEF DocTrue, H!NoDoc, FoundBy
  <2>7. NewsTrue(discoverer, hostTasks, doc, news, quiet)
    BY DiscoveryAssumption, HostIdle DEF NewsTrue, H!NoDoc
  <2>8. QED
    BY <2>3, <2>4, <2>5, <2>6, <2>7 DEF HostInv
<1>2. HostInv => DiscoveryIsHonest
  <2> SUFFICES ASSUME HostInv PROVE DiscoveryIsHonest
    OBVIOUS
  <2>1. H!RunningIsRecent
    BY DEF H!RunningIsRecent, HostInv, DocTrue
  <2>2. H!EndIsReal
    BY DEF H!EndIsReal, HostInv, DocTrue, AccountsTrue
  <2>3. H!EndIsFound
    BY DEF H!EndIsFound, HostInv, HostTyped, DocTrue, AccountsTrue, FoundBy
  <2>4. H!EndIsToldOnce
    <3> SUFFICES ASSUME ~H!IsArray
                 PROVE  /\ news <= 1
                        /\ H!Rollup(doc.task) = "OVER" => news = 1 \/ quiet \/ discoverer.pc = "tell"
      BY DEF H!EndIsToldOnce
    <3>1. hostTasks \subseteq {1}
      BY DEF H!IsArray
    <3>2. /\ news \in {0, 1}
          /\ doc.task[1] = "OVER" => news = 1 \/ quiet \/ discoverer.pc = "tell"
      BY <3>1 DEF HostInv, NewsTrue
    <3>3. 1 \in HostTasks /\ doc.task[1] \in Shown /\ \A t \in HostTasks : t # 1 => doc.task[t] = "none"
      BY <3>1, DiscoveryAssumption DEF HostInv, HostTyped, HostDocs, DocTrue
    <3>4. H!Rollup(doc.task) = doc.task[1]
      BY <3>3, RollupOfOne
    <3>5. QED
      BY <3>2, <3>4
  <2>5. QED
    BY <2>1, <2>2, <2>3, <2>4 DEF DiscoveryIsHonest
<1>3. QED
  BY <1>1, <1>2, HostStep, PTL

------------------------------------------------------------------------------
(* Files.  An inode that a name leads to, or a reader holds, is whole at all *)
(* times: it only gets whole additions.  What a writer fills is its alone    *)
(* until the rename, and is whole together with what is left to write.       *)

Pieces == {"old", "rest", "new", "w1", "w2", "s1", "s2", "a"}
FileCalls == [pc : {"idle", "reading", "tmp", "fill", "mode", "append", "removing", "listing", "pushing", "marking"},
              op : {"none", "read", "follow", "edit", "write", "append", "rm", "ls", "sync"},
              name : Files \union {0}, fd : Inodes \union {0}, buf : Seq(Pieces),
              listed : SUBSET Nat, steady : SUBSET Nat, token : Nat, todo : SUBSET Files,
              told : {"nothing", "refused", "error", "read", "written", "removed", "listed"}]
DirNames == Files \union {F!TmpOf(n) : n \in Files}

FileTyped ==
  /\ file \in [Files -> Inodes \union {0}]
  /\ inode \in [Inodes -> Seq(Pieces)]
  /\ debris \subseteq DirNames
  /\ worker \in [Workers -> FileCalls]

Prefix(s, t) == Len(s) <= Len(t) /\ \A i \in 1..Len(s) : s[i] = t[i]

\* What names lead to, f, is whole in data.
Linked(f, data) == \A n \in Files : f[n] # 0 => F!IsWhole(data[f[n]])

\* Nothing but k leads to what it fills.
Private(k, w, f) ==
  /\ w[k].fd # 0
  /\ \A n \in Files : f[n] # w[k].fd
  /\ \A c \in Workers \ {k} : w[c].fd # w[k].fd

\* What worker k holds.
Held(k, w, f, data) ==
  /\ w[k].pc = "reading" => w[k].fd # 0 /\ F!IsWhole(data[w[k].fd]) /\ Prefix(w[k].buf, data[w[k].fd])
  /\ w[k].pc = "append" => w[k].fd # 0 /\ F!IsWhole(data[w[k].fd])
  /\ w[k].pc = "tmp" => F!IsWhole(w[k].buf)
  /\ w[k].pc = "fill" => F!IsWhole(data[w[k].fd] \o w[k].buf) /\ Private(k, w, f)
  /\ w[k].pc \in {"reading", "tmp", "fill", "mode", "append"} => w[k].name \in Files
  /\ w[k].told = "read" => F!IsWhole(w[k].buf)
  /\ w[k].told # "nothing" => w[k].pc = "idle"

\* A name that was there all the time is listed, or still to come.
Paged(p, entries) ==
  /\ p.pc = "listing" =>
       /\ p.steady \subseteq entries
       /\ \A n \in p.steady : n \in p.listed \/ Cardinality({m \in entries : m < n}) >= p.token
  /\ p.told = "listed" => p.steady \subseteq p.listed

FileInv ==
  /\ FileTyped
  /\ Linked(file, inode)
  /\ \A k \in Workers : Held(k, worker, file, inode)
  /\ \A i \in F!Free : inode[i] = <<>>
  /\ \A k \in Workers : Paged(worker[k], F!Entries)

------------------------------------------------------------------------------

LEMMA WholeTwo ==
  ASSUME NEW a, NEW b, <<a, b>> \in {<<"w1", "w2">>, <<"s1", "s2">>, <<"old", "rest">>}
  PROVE  <<a, b>> \in Seq(Pieces) /\ F!IsWhole(<<a, b>>)
BY DEF F!IsWhole, F!NEXT_PIECE, Pieces

LEMMA WholeNone == <<>> \in Seq(Pieces) /\ F!IsWhole(<<>>)
BY DEF F!IsWhole

\* An addition to a whole file leaves it whole.
LEMMA WholeAppend ==
  ASSUME NEW s \in Seq(Pieces), F!IsWhole(s)
  PROVE  Append(s, "a") \in Seq(Pieces) /\ F!IsWhole(Append(s, "a")) /\ Prefix(s, Append(s, "a"))
<1>1. "a" \in Pieces
  BY DEF Pieces
<1>2. /\ Append(s, "a") \in Seq(Pieces) /\ Len(Append(s, "a")) = Len(s) + 1 /\ Len(s) \in Nat
      /\ \A i \in 1..Len(s) : Append(s, "a")[i] = s[i]
      /\ Append(s, "a")[Len(s) + 1] = "a"
  BY <1>1
<1> DEFINE t == Append(s, "a")
<1> HIDE DEF t
<1>3. Prefix(s, t)
  BY <1>2 DEF Prefix, t
<1>4. "a" \notin DOMAIN F!NEXT_PIECE
  BY DEF F!NEXT_PIECE
<1>5. ASSUME NEW i \in 1..Len(t), t[i] \in DOMAIN F!NEXT_PIECE
      PROVE  i < Len(t) /\ t[i + 1] = F!NEXT_PIECE[t[i]]
  <2>1. i \in 1..Len(s) /\ t[i] = s[i]
    BY <1>2, <1>4, <1>5 DEF t
  <2>2. i < Len(s) /\ s[i + 1] = F!NEXT_PIECE[s[i]]
    BY <2>1, <1>5 DEF F!IsWhole
  <2>3. i + 1 \in 1..Len(s)
    BY <2>1, <2>2, <1>2
  <2>4. t[i + 1] = s[i + 1] /\ i < Len(t)
    BY <2>2, <2>3, <1>2 DEF t
  <2>5. QED
    BY <2>1, <2>2, <2>4
<1>6. t[1] \notin {"rest", "w2", "s2"}
  <2>1. CASE Len(s) = 0
    BY <2>1, <1>2 DEF t
  <2>2. CASE Len(s) # 0
    <3>1. 1 \in 1..Len(s) /\ s # <<>>
      BY <2>2, <1>2
    <3>2. QED
      BY <3>1, <1>2 DEF F!IsWhole, t
  <2>3. QED
    BY <2>1, <2>2
<1>7. QED
  BY <1>2, <1>3, <1>5, <1>6 DEF F!IsWhole, t

\* The edit of a whole file is whole.
LEMMA WholeEdit ==
  ASSUME NEW s \in Seq(Pieces), F!IsWhole(s)
  PROVE  LET t == [i \in DOMAIN s |-> IF s[i] = "old" THEN "new" ELSE s[i]]
         IN  t \in Seq(Pieces) /\ F!IsWhole(t)
<1> DEFINE t == [i \in DOMAIN s |-> IF s[i] = "old" THEN "new" ELSE s[i]]
<1>1. /\ Len(s) \in Nat /\ DOMAIN s = 1..Len(s)
      /\ \A i \in 1..Len(s) : s[i] \in Pieces
  OBVIOUS
<1>2. \A i \in 1..Len(s) : t[i] = (IF s[i] = "old" THEN "new" ELSE s[i]) /\ t[i] \in Pieces
  BY <1>1 DEF Pieces
<1>3. t \in [1..Len(s) -> Pieces]
  BY <1>1, <1>2
<1> HIDE DEF t
<1>4. t \in Seq(Pieces) /\ Len(t) = Len(s)
  BY <1>1, <1>3
<1>5. ASSUME NEW i \in 1..Len(t), t[i] \in DOMAIN F!NEXT_PIECE
      PROVE  i < Len(t) /\ t[i + 1] = F!NEXT_PIECE[t[i]]
  <2>1. /\ s[i] \in DOMAIN F!NEXT_PIECE
        /\ F!NEXT_PIECE[t[i]] = F!NEXT_PIECE[s[i]] /\ F!NEXT_PIECE[s[i]] # "old"
    BY <1>2, <1>4, <1>5 DEF F!NEXT_PIECE
  <2>2. i < Len(s) /\ s[i + 1] = F!NEXT_PIECE[s[i]]
    BY <2>1, <1>4 DEF F!IsWhole
  <2>3. i + 1 \in 1..Len(s)
    BY <2>2, <1>1, <1>4
  <2>4. QED
    BY <2>1, <2>2, <2>3, <1>2, <1>4
<1>6. t = <<>> \/ t[1] \notin {"rest", "w2", "s2"}
  <2>1. CASE Len(s) = 0
    BY <2>1, <1>4
  <2>2. CASE Len(s) # 0
    <3>1. 1 \in 1..Len(s) /\ s # <<>>
      BY <2>2, <1>1
    <3>2. QED
      BY <3>1, <1>2 DEF F!IsWhole
  <2>3. QED
    BY <2>1, <2>2
<1>7. QED
  BY <1>4, <1>5, <1>6 DEF F!IsWhole, t

\* Who has read as much as there is has read it all.
LEMMA AllRead ==
  ASSUME NEW s \in Seq(Pieces), NEW t \in Seq(Pieces), Prefix(s, t), Len(s) >= Len(t)
  PROVE  s = t
<1>1. Len(s) = Len(t) /\ \A i \in 1..Len(s) : s[i] = t[i]
  BY DEF Prefix
<1>2. QED
  BY <1>1, SeqEqual

\* What is written and what is left to write stay the same together.
LEMMA FillOne ==
  ASSUME NEW s \in Seq(Pieces), NEW b \in Seq(Pieces), b # <<>>
  PROVE  /\ Append(s, Head(b)) \in Seq(Pieces) /\ Tail(b) \in Seq(Pieces)
         /\ Append(s, Head(b)) \o Tail(b) = s \o b
<1> DEFINE h == Head(b)
           r == Tail(b)
<1>1. h \in Pieces /\ r \in Seq(Pieces)
  BY HeadTailProperties
<1>2. b = <<h>> \o r
  BY HeadTailProperties, ConcatProperties, SeqEqual
<1> HIDE DEF h, r
<1>3. <<h>> \in Seq(Pieces)
  BY <1>1
<1>4. Append(s, h) = s \o <<h>>
  BY <1>1, AppendIsConcat
<1>5. (s \o <<h>>) \o r = s \o (<<h>> \o r)
  BY <1>1, <1>3, ConcatAssociative
<1>6. Append(s, h) \in Seq(Pieces)
  BY <1>1
<1>7. QED
  BY <1>1, <1>2, <1>4, <1>5, <1>6 DEF h, r

------------------------------------------------------------------------------

\* Names only ever come before n: it does not come earlier in the order.
LEMMA OrderGrows ==
  ASSUME NEW U, NEW V, U \subseteq V, V \subseteq Nat, NEW n \in Nat
  PROVE  /\ Cardinality({m \in U : m < n}) \in Nat
         /\ Cardinality({m \in V : m < n}) \in Nat
         /\ Cardinality({m \in U : m < n}) <= Cardinality({m \in V : m < n})
<1> DEFINE few == {m \in U : m < n}
           many == {m \in V : m < n}
<1>1. few \in SUBSET many
  OBVIOUS
<1>2. many \in SUBSET (0..n)
  <2>1. \A m \in V : m \in Nat
    OBVIOUS
  <2>2. ASSUME NEW m \in many PROVE m \in 0..n
    BY <2>1
  <2>3. QED
    BY <2>2
<1> HIDE DEF few, many
<1>3. IsFiniteSet(0..n)
  BY FS_Interval
<1>4. IsFiniteSet(many)
  BY <1>2, <1>3, FS_Subset
<1>5. IsFiniteSet(few) /\ Cardinality(few) <= Cardinality(many)
  BY <1>1, <1>4, FS_Subset
<1>6. QED
  BY <1>4, <1>5, FS_CardinalityType DEF few, many

LEMMA DirNamesAreNat == \A n \in Files : n \in Nat /\ F!TmpOf(n) \in Nat
<1> SUFFICES ASSUME NEW n \in Files PROVE n \in Nat /\ n + 1 \in Nat
  BY DEF F!TmpOf
<1>1. n \in Nat
  BY FileAssumption
<1>2. QED
  BY <1>1

\* What a step does, when what it leaves behind is in order.
LEMMA FileStep ==
  ASSUME FileInv, NEW c \in Workers, NEW p \in FileCalls,
         NEW f \in [Files -> Inodes \union {0}], NEW data \in [Inodes -> Seq(Pieces)], NEW d \in SUBSET DirNames,
         F!Step(c, p, f, data, d),
         Linked(f, data), \A k \in Workers : Held(k, [worker EXCEPT ![c] = p], f, data),
         Paged(p, F!Entries)
  PROVE  FileInv'
<1> DEFINE w == [worker EXCEPT ![c] = p]
           there == F!EntriesOf(f, w, d)
           after(k) == IF w[k].pc # "listing" THEN w[k]
                       ELSE IF F!Entries \subseteq there THEN w[k]
                       ELSE [w[k] EXCEPT !.steady = {}]
<1>1. /\ file' = f /\ debris' = d /\ inode' = F!Tidied(f, w, data)
      /\ worker' = [k \in Workers |-> after(k)]
  BY DEF F!Step
<1>2. worker \in [Workers -> FileCalls]
  BY DEF FileInv, FileTyped
<1>3. w \in [Workers -> FileCalls] /\ \A k \in Workers : w[k] = IF k = c THEN p ELSE worker[k]
  BY <1>2
<1>4. \A k \in Workers : Held(k, w, f, data)
  OBVIOUS
<1>5. \A k \in Workers : Paged(w[k], F!Entries)
  BY <1>3 DEF FileInv
<1> HIDE DEF w, there
<1>6. ASSUME NEW k \in Workers
      PROVE  /\ after(k) \in FileCalls
             /\ after(k).pc = w[k].pc /\ after(k).name = w[k].name /\ after(k).fd = w[k].fd
             /\ after(k).buf = w[k].buf /\ after(k).told = w[k].told
             /\ after(k).listed = w[k].listed /\ after(k).token = w[k].token
             /\ \/ after(k).steady = w[k].steady /\ (w[k].pc = "listing" => F!Entries \subseteq there)
                \/ after(k).steady = {}
  <2>1. w[k] \in FileCalls
    BY <1>3
  <2> DEFINE q == [w[k] EXCEPT !.steady = {}]
  <2>2. /\ q \in FileCalls /\ q.pc = w[k].pc /\ q.name = w[k].name /\ q.fd = w[k].fd /\ q.buf = w[k].buf
        /\ q.told = w[k].told /\ q.listed = w[k].listed /\ q.token = w[k].token /\ q.steady = {}
    BY <2>1 DEF FileCalls
  <2>3. after(k) = IF w[k].pc # "listing" THEN w[k] ELSE IF F!Entries \subseteq there THEN w[k] ELSE q
    OBVIOUS
  <2> HIDE DEF q, after
  <2>4. QED
    BY <2>1, <2>2, <2>3
<1> HIDE DEF after
<1>7. /\ worker' \in [Workers -> FileCalls]
      /\ \A k \in Workers :
           /\ worker'[k].pc = w[k].pc /\ worker'[k].name = w[k].name /\ worker'[k].fd = w[k].fd
           /\ worker'[k].buf = w[k].buf /\ worker'[k].told = w[k].told
           /\ worker'[k].listed = w[k].listed /\ worker'[k].token = w[k].token
           /\ \/ worker'[k].steady = w[k].steady /\ (w[k].pc = "listing" => F!Entries \subseteq there)
              \/ worker'[k].steady = {}
  BY <1>1, <1>6
<1>8. \A i \in Inodes : inode'[i] = IF (\E n \in Files : f[n] = i) \/ (\E k \in Workers : w[k].fd = i)
                                      THEN data[i] ELSE <<>>
  BY <1>1 DEF F!Tidied
<1>9. FileTyped'
  <2>1. \A i \in Inodes : inode'[i] \in Seq(Pieces)
    BY <1>8, WholeNone
  <2>2. inode' \in [Inodes -> Seq(Pieces)]
    BY <2>1, <1>1 DEF F!Tidied
  <2>3. QED
    BY <2>2, <1>1, <1>7 DEF FileTyped
<1>10. Linked(file', inode')
  <2> SUFFICES ASSUME NEW n \in Files, f[n] # 0 PROVE F!IsWhole(inode'[f[n]])
    BY <1>1 DEF Linked
  <2>1. f[n] \in Inodes
    OBVIOUS
  <2>2. inode'[f[n]] = data[f[n]]
    BY <2>1, <1>8
  <2>3. QED
    BY <2>2 DEF Linked
<1>11. ASSUME NEW k \in Workers PROVE Held(k, worker', file', inode')
  <2>1. w[k].fd # 0 => inode'[w[k].fd] = data[w[k].fd]
    BY <1>3, <1>8 DEF FileCalls
  <2>2. Private(k, w, f) => Private(k, worker', file') /\ w[k].fd # 0
    BY <1>1, <1>7 DEF Private
  <2>3. /\ worker'[k].pc = w[k].pc /\ worker'[k].name = w[k].name /\ worker'[k].fd = w[k].fd
        /\ worker'[k].buf = w[k].buf /\ worker'[k].told = w[k].told
    BY <1>7
  <2>4. Held(k, w, f, data)
    BY <1>4
  <2>5. QED
    BY <2>1, <2>2, <2>3, <2>4 DEF Held
<1>12. ASSUME NEW i \in F!Free' PROVE inode'[i] = <<>>
  <2>1. i \in Inodes /\ (\A n \in Files : f[n] # i) /\ \A k \in Workers : worker'[k].fd # i
    BY <1>1 DEF F!Free
  <2>2. \A k \in Workers : w[k].fd # i
    BY <2>1, <1>7
  <2>3. QED
    BY <2>1, <2>2, <1>8
<1>13. F!Entries' = there
  <2>1. F!TmpsOf(worker') = F!TmpsOf(w)
    BY <1>7 DEF F!TmpsOf
  <2>2. QED
    BY <2>1, <1>1 DEF F!Entries, F!EntriesOf, there
<1>14. ASSUME NEW k \in Workers PROVE Paged(worker'[k], there)
  <2>1. there \subseteq Nat
    <3>1. \A x \in Workers : w[x].pc = "fill" => F!TmpOf(w[x].name) \in Nat
      BY <1>4, DirNamesAreNat DEF Held
    <3>2. DirNames \subseteq Nat
      BY DirNamesAreNat DEF DirNames
    <3>3. QED
      BY <3>1, <3>2, DirNamesAreNat DEF there, F!EntriesOf, F!TmpsOf
  <2>2. Paged(w[k], F!Entries)
    BY <1>5
  <2>3. CASE worker'[k].steady = {}
    BY <2>3 DEF Paged
  <2>4. CASE worker'[k].steady = w[k].steady /\ (w[k].pc = "listing" => F!Entries \subseteq there)
    <3>1. /\ worker'[k].pc = w[k].pc /\ worker'[k].listed = w[k].listed /\ worker'[k].token = w[k].token
          /\ worker'[k].told = w[k].told
      BY <1>7
    <3>2. ASSUME w[k].pc = "listing", NEW n \in w[k].steady, n \notin w[k].listed
          PROVE  Cardinality({m \in there : m < n}) >= w[k].token
      <4>1. n \in F!Entries /\ F!Entries \subseteq there /\ Cardinality({m \in F!Entries : m < n}) >= w[k].token
        BY <2>2, <2>4, <3>2 DEF Paged
      <4>2. n \in Nat
        BY <4>1, <2>1
      <4>3. /\ Cardinality({m \in F!Entries : m < n}) \in Nat
            /\ Cardinality({m \in there : m < n}) \in Nat
            /\ Cardinality({m \in F!Entries : m < n}) <= Cardinality({m \in there : m < n})
        BY <4>1, <4>2, <2>1, OrderGrows
      <4>4. w[k].token \in Nat
        BY <1>3 DEF FileCalls
      <4>5. QED
        BY <4>1, <4>3, <4>4
    <3>3. QED
      BY <2>2, <2>4, <3>1, <3>2 DEF Paged
  <2>5. QED
    BY <2>3, <2>4, <1>7
<1>15. QED
  BY <1>9, <1>10, <1>11, <1>12, <1>13, <1>14 DEF FileInv

\* The others keep what they hold: nobody touches what another fills, and what
\* is read or appended to only gets an addition.
LEMMA OthersHeld ==
  ASSUME FileInv, NEW c \in Workers, NEW p \in FileCalls, NEW f, NEW data, NEW k \in Workers \ {c},
         worker[k].pc = "fill" =>
           /\ p.fd # worker[k].fd
           /\ \A n \in Files : f[n] # worker[k].fd
           /\ data[worker[k].fd] = inode[worker[k].fd],
         worker[k].pc \in {"reading", "append"} =>
           data[worker[k].fd] \in {inode[worker[k].fd], Append(inode[worker[k].fd], "a")}
  PROVE  Held(k, [worker EXCEPT ![c] = p], f, data)
<1> DEFINE w == [worker EXCEPT ![c] = p]
<1>1. w[k] = worker[k] /\ \A x \in Workers : w[x] = IF x = c THEN p ELSE worker[x]
  BY DEF FileInv, FileTyped
<1>2. Held(k, worker, file, inode) /\ worker[k] \in FileCalls
  BY DEF FileInv, FileTyped
<1> HIDE DEF w
<1>3. worker[k].pc = "fill" => Private(k, w, f)
  BY <1>1, <1>2 DEF Held, Private
<1>4. ASSUME worker[k].pc \in {"reading", "append"}
      PROVE  /\ worker[k].fd # 0 /\ F!IsWhole(data[worker[k].fd])
             /\ Prefix(inode[worker[k].fd], data[worker[k].fd])
  <2> DEFINE i == worker[k].fd
  <2>1. i # 0 /\ F!IsWhole(inode[i]) /\ i \in Inodes
    BY <1>2, <1>4 DEF Held, FileCalls
  <2>2. inode[i] \in Seq(Pieces)
    BY <2>1 DEF FileInv, FileTyped
  <2>3. /\ F!IsWhole(inode[i]) /\ Prefix(inode[i], inode[i])
        /\ F!IsWhole(Append(inode[i], "a")) /\ Prefix(inode[i], Append(inode[i], "a"))
    BY <2>1, <2>2, WholeAppend DEF Prefix
  <2>4. QED
    BY <1>4, <2>1, <2>3
<1>5. ASSUME worker[k].pc = "reading" PROVE Prefix(worker[k].buf, data[worker[k].fd])
  <2>1. Prefix(worker[k].buf, inode[worker[k].fd])
    BY <1>2, <1>5 DEF Held
  <2>2. Prefix(inode[worker[k].fd], data[worker[k].fd])
    BY <1>4, <1>5
  <2>3. /\ Len(worker[k].buf) \in Nat
        /\ Len(inode[worker[k].fd]) \in Nat
    <3>1. worker[k].fd \in Inodes
      BY <1>2, <1>5 DEF Held, FileCalls
    <3>2. inode[worker[k].fd] \in Seq(Pieces) /\ worker[k].buf \in Seq(Pieces)
      BY <1>2, <3>1 DEF FileInv, FileTyped, FileCalls
    <3>3. QED
      BY <3>2
  <2>4. Len(data[worker[k].fd]) \in Nat
    <3>1. worker[k].fd \in Inodes
      BY <1>2, <1>5 DEF Held, FileCalls
    <3>2. inode[worker[k].fd] \in Seq(Pieces) /\ "a" \in Pieces
      BY <3>1 DEF FileInv, FileTyped, Pieces
    <3>3. Append(inode[worker[k].fd], "a") \in Seq(Pieces)
      BY <3>2, AppendProperties
    <3>4. data[worker[k].fd] \in {inode[worker[k].fd], Append(inode[worker[k].fd], "a")}
      BY <1>5
    <3>5. data[worker[k].fd] \in Seq(Pieces)
      BY <3>2, <3>3, <3>4
    <3>6. QED
      BY <3>5
  <2>5. QED
    BY <2>1, <2>2, <2>3, <2>4 DEF Prefix
<1>6. QED
  BY <1>1, <1>2, <1>3, <1>4, <1>5 DEF Held, w

------------------------------------------------------------------------------

LEMMA FileFacts ==
  ASSUME FileInv, NEW k \in Workers
  PROVE  /\ worker[k] \in FileCalls
         /\ Held(k, worker, file, inode)
         /\ Paged(worker[k], F!Entries)
         /\ worker[k].pc = "fill" =>
              /\ worker[k].fd # 0
              /\ \A n \in Files : file[n] # worker[k].fd
              /\ \A c \in Workers \ {k} : worker[c].fd # worker[k].fd
BY DEF FileInv, FileTyped, Held, Private

\* A step that changes the caller's own record alone.
LEMMA FileGoes ==
  ASSUME FileInv, NEW c \in Workers, NEW p \in FileCalls, NEW d \in SUBSET DirNames,
         F!Step(c, p, file, inode, d),
         p.fd \in {0, worker[c].fd} \/ \E n \in Files : p.fd = file[n],
         Held(c, [worker EXCEPT ![c] = p], file, inode),
         Paged(p, F!Entries)
  PROVE  FileInv'
<1>1. /\ file \in [Files -> Inodes \union {0}] /\ inode \in [Inodes -> Seq(Pieces)] /\ Linked(file, inode)
  BY DEF FileInv, FileTyped
<1>2. ASSUME NEW k \in Workers \ {c} PROVE Held(k, [worker EXCEPT ![c] = p], file, inode)
  <2>1. worker[k].pc = "fill" => p.fd # worker[k].fd /\ \A n \in Files : file[n] # worker[k].fd
    BY FileFacts
  <2>2. QED
    BY <2>1, OthersHeld
<1>3. QED
  BY <1>1, <1>2, FileStep

\* A record that holds nothing.
LEMMA HoldsNothing ==
  ASSUME NEW c \in Workers, NEW p, NEW f, NEW data, FileInv,
         p.pc \in {"idle", "removing", "listing", "pushing", "marking"},
         p.told = "nothing" \/ (p.pc = "idle" /\ p.told # "read")
  PROVE  Held(c, [worker EXCEPT ![c] = p], f, data)
<1>1. [worker EXCEPT ![c] = p][c] = p
  BY DEF FileInv, FileTyped
<1>2. QED
  BY <1>1 DEF Held

LEMMA IdleFacts ==
  F!Idle \in FileCalls /\ F!Idle.pc = "idle" /\ F!Idle.fd = 0 /\ F!Idle.told = "nothing"
BY WholeNone DEF F!Idle, FileCalls

LEMMA FileRests ==
  ASSUME FileInv, NEW c \in Workers, NEW p \in FileCalls, p.pc = "idle", p.fd = 0, p.told \notin {"read", "listed"},
         NEW d \in SUBSET DirNames, F!Step(c, p, file, inode, d)
  PROVE  FileInv'
<1>1. Held(c, [worker EXCEPT ![c] = p], file, inode)
  BY HoldsNothing
<1>2. Paged(p, F!Entries)
  BY DEF Paged
<1>3. QED
  BY <1>1, <1>2, FileGoes

LEMMA FileEnds ==
  ASSUME FileInv, NEW c \in Workers, NEW says \in {"refused", "error", "written", "removed"},
         F!Goes(c, F!Ends(c, says, <<>>))
  PROVE  FileInv'
<1> DEFINE p == F!Ends(c, says, <<>>)
<1>1. p \in FileCalls /\ p.pc = "idle" /\ p.fd = 0 /\ p.told = says
  BY WholeNone DEF F!Ends, F!Idle, FileCalls
<1>2. F!Step(c, p, file, inode, debris) /\ debris \in SUBSET DirNames
  BY DEF F!Goes, FileInv, FileTyped
<1> HIDE DEF p
<1>3. QED
  BY <1>1, <1>2, FileRests

LEMMA FileRefused ==
  ASSUME FileInv, NEW c \in Workers, F!Refused(c)
  PROVE  FileInv'
BY FileEnds DEF F!Refused

LEMMA FileFails ==
  ASSUME FileInv, NEW c \in Workers, F!Fails(c)
  PROVE  FileInv'
BY FileEnds DEF F!Fails

LEMMA FileMarker ==
  ASSUME FileInv, NEW c \in Workers, F!WriteMarker(c)
  PROVE  FileInv'
BY FileEnds DEF F!WriteMarker

LEMMA FileDies ==
  ASSUME FileInv, NEW c \in Workers, F!Dies(c)
  PROVE  FileInv'
<1> DEFINE d == IF worker[c].pc = "fill" THEN debris \union {F!TmpOf(worker[c].name)} ELSE debris
<1>1. F!Step(c, F!Idle, file, inode, d)
  BY DEF F!Dies
<1>2. worker[c].pc = "fill" => worker[c].name \in Files
  BY FileFacts DEF Held
<1>3. d \in SUBSET DirNames
  BY <1>2 DEF DirNames, FileInv, FileTyped
<1> HIDE DEF d
<1>4. QED
  BY <1>1, <1>3, IdleFacts, FileRests

------------------------------------------------------------------------------
(* Reading *)

LEMMA FileOpen ==
  ASSUME FileInv, NEW c \in Workers, NEW op \in {"read", "follow", "edit"}, NEW n \in Files, F!Open(c, op, n)
  PROVE  FileInv'
<1> DEFINE p == [F!Idle EXCEPT !.pc = "reading", !.op = op, !.name = n, !.fd = file[n]]
<1>1. F!Step(c, p, file, inode, debris) /\ file[n] # 0
  BY DEF F!Open, F!Goes
<1>2. /\ debris \in SUBSET DirNames /\ file[n] \in Inodes /\ F!IsWhole(inode[file[n]])
      /\ inode[file[n]] \in Seq(Pieces) /\ worker \in [Workers -> FileCalls]
  BY <1>1 DEF FileInv, FileTyped, Linked
<1>3. /\ p \in FileCalls /\ p.pc = "reading" /\ p.name = n /\ p.fd = file[n] /\ p.buf = <<>> /\ p.told = "nothing"
  BY <1>2, WholeNone DEF F!Idle, FileCalls
<1> HIDE DEF p
<1>4. Prefix(<<>>, inode[file[n]])
  BY <1>2 DEF Prefix
<1>5. Held(c, [worker EXCEPT ![c] = p], file, inode)
  <2>1. [worker EXCEPT ![c] = p][c] = p
    BY <1>2
  <2>2. QED
    BY <2>1, <1>1, <1>2, <1>3, <1>4 DEF Held
<1>6. Paged(p, F!Entries)
  BY <1>3 DEF Paged
<1>7. QED
  BY <1>1, <1>2, <1>3, <1>5, <1>6, FileGoes

\* What a reader holds.
LEMMA Reader ==
  ASSUME FileInv, NEW c \in Workers, worker[c].pc = "reading"
  PROVE  /\ worker[c].fd \in Inodes /\ worker[c].fd # 0 /\ worker[c].name \in Files
         /\ inode[worker[c].fd] \in Seq(Pieces) /\ worker[c].buf \in Seq(Pieces)
         /\ F!IsWhole(inode[worker[c].fd]) /\ Prefix(worker[c].buf, inode[worker[c].fd])
         /\ F!AtEnd(c) => worker[c].buf = inode[worker[c].fd]
<1>1. /\ worker[c].fd \in Inodes /\ worker[c].fd # 0 /\ worker[c].name \in Files
      /\ worker[c].buf \in Seq(Pieces)
      /\ F!IsWhole(inode[worker[c].fd]) /\ Prefix(worker[c].buf, inode[worker[c].fd])
  BY FileFacts DEF Held, FileCalls
<1>2. inode[worker[c].fd] \in Seq(Pieces)
  BY <1>1 DEF FileInv, FileTyped
<1>3. F!AtEnd(c) => worker[c].buf = inode[worker[c].fd]
  BY <1>1, <1>2, AllRead DEF F!AtEnd
<1>4. QED
  BY <1>1, <1>2, <1>3

LEMMA PrefixGrows ==
  ASSUME NEW s \in Seq(Pieces), NEW t \in Seq(Pieces), Prefix(s, t), Len(s) < Len(t)
  PROVE  Append(s, t[Len(s) + 1]) \in Seq(Pieces) /\ Prefix(Append(s, t[Len(s) + 1]), t)
<1>1. Len(s) \in Nat /\ Len(t) \in Nat
  OBVIOUS
<1> DEFINE x == t[Len(s) + 1]
<1>2. x \in Pieces
  BY <1>1
<1> HIDE DEF x
<1>3. /\ Append(s, x) \in Seq(Pieces) /\ Len(Append(s, x)) = Len(s) + 1
      /\ \A i \in 1..Len(s) : Append(s, x)[i] = s[i]
      /\ Append(s, x)[Len(s) + 1] = x
  BY <1>2
<1>4. ASSUME NEW i \in 1..Len(Append(s, x)) PROVE Append(s, x)[i] = t[i]
  <2>1. i \in 1..Len(s) \/ i = Len(s) + 1
    BY <1>1, <1>3
  <2>2. QED
    BY <2>1, <1>3 DEF Prefix, x
<1>5. QED
  BY <1>1, <1>3, <1>4 DEF Prefix, x

LEMMA FileReadOn ==
  ASSUME FileInv, NEW c \in Workers, F!ReadOn(c)
  PROVE  FileInv'
<1> DEFINE b == Append(worker[c].buf, inode[worker[c].fd][Len(worker[c].buf) + 1])
           p == [worker[c] EXCEPT !.buf = b]
<1>1. /\ F!Step(c, p, file, inode, debris) /\ worker[c].pc = "reading"
      /\ Len(worker[c].buf) < Len(inode[worker[c].fd])
  BY DEF F!ReadOn, F!Goes
<1>2. b \in Seq(Pieces) /\ Prefix(b, inode[worker[c].fd])
  BY <1>1, Reader, PrefixGrows
<1> HIDE DEF b
<1>3. /\ worker[c] \in FileCalls /\ worker \in [Workers -> FileCalls] /\ debris \in SUBSET DirNames
  BY DEF FileInv, FileTyped
<1>4. /\ p \in FileCalls /\ p.pc = "reading" /\ p.name = worker[c].name /\ p.fd = worker[c].fd /\ p.buf = b
      /\ p.told = worker[c].told /\ p.listed = worker[c].listed /\ p.steady = worker[c].steady
  BY <1>1, <1>2, <1>3 DEF FileCalls
<1> HIDE DEF p
<1>5. worker[c].told = "nothing" /\ worker[c].name \in Files
  BY <1>1, FileFacts DEF Held
<1>6. Held(c, [worker EXCEPT ![c] = p], file, inode)
  <2>1. [worker EXCEPT ![c] = p][c] = p
    BY <1>3
  <2>2. worker[c].fd # 0 /\ F!IsWhole(inode[worker[c].fd])
    BY <1>1, Reader
  <2>3. QED
    BY <2>1, <2>2, <1>2, <1>4, <1>5 DEF Held
<1>7. Paged(p, F!Entries)
  BY <1>4, <1>5 DEF Paged
<1>8. QED
  BY <1>1, <1>3, <1>4, <1>6, <1>7, FileGoes

LEMMA FileEndRead ==
  ASSUME FileInv, NEW c \in Workers, F!EndRead(c)
  PROVE  FileInv'
<1> DEFINE b == worker[c].buf
           p == F!Ends(c, "read", b)
<1>1. F!Step(c, p, file, inode, debris) /\ F!AtEnd(c)
  BY DEF F!EndRead, F!Goes
<1>2. b \in Seq(Pieces) /\ F!IsWhole(b)
  BY <1>1, Reader DEF F!AtEnd
<1>3. worker \in [Workers -> FileCalls] /\ debris \in SUBSET DirNames
  BY DEF FileInv, FileTyped
<1> HIDE DEF b
<1>4. p \in FileCalls /\ p.pc = "idle" /\ p.fd = 0 /\ p.told = "read" /\ p.buf = b
  BY <1>2 DEF F!Ends, F!Idle, FileCalls
<1> HIDE DEF p
<1>5. Held(c, [worker EXCEPT ![c] = p], file, inode)
  <2>1. [worker EXCEPT ![c] = p][c] = p
    BY <1>3
  <2>2. QED
    BY <2>1, <1>2, <1>4 DEF Held
<1>6. Paged(p, F!Entries)
  BY <1>4 DEF Paged
<1>7. QED
  BY <1>1, <1>3, <1>4, <1>5, <1>6, FileGoes

LEMMA FileEdit ==
  ASSUME FileInv, NEW c \in Workers, F!op_edit(c)
  PROVE  FileInv'
<1> DEFINE b == [i \in DOMAIN worker[c].buf |-> IF worker[c].buf[i] = "old" THEN "new" ELSE worker[c].buf[i]]
           p == [worker[c] EXCEPT !.pc = "tmp", !.fd = 0, !.buf = b]
<1>1. /\ F!AtEnd(c)
      /\ F!Goes(c, p) \/ F!Goes(c, F!Ends(c, "refused", <<>>))
  BY DEF F!op_edit
<1>2. CASE F!Goes(c, F!Ends(c, "refused", <<>>))
  BY <1>2, FileEnds
<1>3. CASE F!Goes(c, p)
  <2>1. worker[c].buf \in Seq(Pieces) /\ F!IsWhole(worker[c].buf) /\ worker[c].name \in Files
    BY <1>1, Reader DEF F!AtEnd
  <2>2. b \in Seq(Pieces) /\ F!IsWhole(b)
    BY <2>1, WholeEdit
  <2> HIDE DEF b
  <2>3. worker[c] \in FileCalls /\ worker \in [Workers -> FileCalls] /\ debris \in SUBSET DirNames
    BY DEF FileInv, FileTyped
  <2>4. /\ p \in FileCalls /\ p.pc = "tmp" /\ p.name = worker[c].name /\ p.fd = 0 /\ p.buf = b
        /\ p.told = worker[c].told
    BY <2>2, <2>3 DEF FileCalls
  <2>5. F!Step(c, p, file, inode, debris)
    BY <1>3 DEF F!Goes
  <2> HIDE DEF p
  <2>6. worker[c].told = "nothing"
    BY <1>1, FileFacts DEF Held, F!AtEnd
  <2>7. Held(c, [worker EXCEPT ![c] = p], file, inode)
    <3>1. [worker EXCEPT ![c] = p][c] = p
      BY <2>3
    <3>2. QED
      BY <3>1, <2>1, <2>2, <2>4, <2>6 DEF Held
  <2>8. Paged(p, F!Entries)
    BY <2>4, <2>6 DEF Paged
  <2>9. QED
    BY <2>3, <2>4, <2>5, <2>7, <2>8, FileGoes
<1>4. QED
  BY <1>1, <1>2, <1>3

------------------------------------------------------------------------------
(* Writing *)

LEMMA FreeFacts ==
  ASSUME F!Free # {}
  PROVE  /\ F!FreeInode \in Inodes /\ F!FreeInode # 0
         /\ \A n \in Files : file[n] # F!FreeInode
         /\ \A k \in Workers : worker[k].fd # F!FreeInode
<1>1. F!FreeInode \in F!Free
  BY DEF F!FreeInode
<1>2. QED
  BY <1>1, FileAssumption DEF F!Free

LEMMA FileWrite ==
  ASSUME FileInv, NEW c \in Workers, NEW n \in Files, F!op_write(c, n)
  PROVE  FileInv'
<1> DEFINE b == <<"w1", "w2">>
           p == [F!Idle EXCEPT !.pc = "tmp", !.op = "write", !.name = n, !.buf = b]
<1>1. F!Step(c, p, file, inode, debris)
  BY DEF F!op_write, F!Goes
<1>2. b \in Seq(Pieces) /\ F!IsWhole(b)
  BY WholeTwo
<1>3. worker \in [Workers -> FileCalls] /\ debris \in SUBSET DirNames
  BY DEF FileInv, FileTyped
<1> HIDE DEF b
<1>4. p \in FileCalls /\ p.pc = "tmp" /\ p.name = n /\ p.fd = 0 /\ p.buf = b /\ p.told = "nothing"
  BY <1>2 DEF F!Idle, FileCalls
<1> HIDE DEF p
<1>5. Held(c, [worker EXCEPT ![c] = p], file, inode)
  <2>1. [worker EXCEPT ![c] = p][c] = p
    BY <1>3
  <2>2. QED
    BY <2>1, <1>2, <1>4 DEF Held
<1>6. Paged(p, F!Entries)
  BY <1>4 DEF Paged
<1>7. QED
  BY <1>1, <1>3, <1>4, <1>5, <1>6, FileGoes

\* What a writer has to write.
LEMMA Writer ==
  ASSUME FileInv, NEW c \in Workers
  PROVE  /\ worker[c] \in FileCalls /\ worker \in [Workers -> FileCalls] /\ debris \in SUBSET DirNames
         /\ worker[c].buf \in Seq(Pieces)
         /\ file \in [Files -> Inodes \union {0}] /\ inode \in [Inodes -> Seq(Pieces)]
         /\ worker[c].pc \in {"tmp", "fill", "mode", "append"} => worker[c].name \in Files
         /\ worker[c].pc # "idle" => worker[c].told = "nothing"
         /\ worker[c].pc = "tmp" => F!IsWhole(worker[c].buf)
         /\ worker[c].pc = "fill" =>
              /\ worker[c].fd \in Inodes
              /\ F!IsWhole(inode[worker[c].fd] \o worker[c].buf)
              /\ Private(c, worker, file)
<1>1. Held(c, worker, file, inode)
  BY FileFacts
<1>2. /\ worker[c] \in FileCalls /\ worker \in [Workers -> FileCalls] /\ debris \in SUBSET DirNames
      /\ file \in [Files -> Inodes \union {0}] /\ inode \in [Inodes -> Seq(Pieces)]
  BY DEF FileInv, FileTyped
<1>3. worker[c].buf \in Seq(Pieces)
  BY <1>2 DEF FileCalls
<1>4. worker[c].pc = "fill" => worker[c].fd \in Inodes
  BY <1>1, <1>2 DEF Held, Private, FileCalls
<1>5. QED
  BY <1>1, <1>2, <1>3, <1>4 DEF Held

\* A file of its own, with nothing in it.
LEMMA FileTmp ==
  ASSUME FileInv, NEW c \in Workers, worker[c].pc = "tmp", F!Free # {},
         F!Step(c, [worker[c] EXCEPT !.pc = "fill", !.fd = F!FreeInode], file,
                [inode EXCEPT ![F!FreeInode] = <<>>], debris)
  PROVE  FileInv'
<1> DEFINE j == F!FreeInode
           p == [worker[c] EXCEPT !.pc = "fill", !.fd = j]
           data == [inode EXCEPT ![j] = <<>>]
           w == [worker EXCEPT ![c] = p]
<1>1. F!Step(c, p, file, data, debris)
  OBVIOUS
<1>2. j \in Inodes /\ j # 0 /\ (\A n \in Files : file[n] # j) /\ \A k \in Workers : worker[k].fd # j
  BY FreeFacts
<1> HIDE DEF j
<1>3. /\ p \in FileCalls /\ p.pc = "fill" /\ p.name = worker[c].name /\ p.fd = j /\ p.buf = worker[c].buf
      /\ p.told = "nothing"
  <2>1. worker[c] \in FileCalls /\ worker[c].told = "nothing"
    BY Writer
  <2>2. QED
    BY <1>2, <2>1 DEF FileCalls
<1> HIDE DEF p
<1>4. data \in [Inodes -> Seq(Pieces)] /\ \A i \in Inodes : data[i] = IF i = j THEN <<>> ELSE inode[i]
  BY <1>2, Writer, WholeNone
<1> HIDE DEF data
<1>5. \A k \in Workers : w[k] = IF k = c THEN p ELSE worker[k]
  BY Writer
<1>6. Linked(file, data)
  <2> SUFFICES ASSUME NEW n \in Files, file[n] # 0 PROVE F!IsWhole(data[file[n]])
    BY DEF Linked
  <2>1. data[file[n]] = inode[file[n]]
    BY <1>2, <1>4, Writer
  <2>2. QED
    BY <2>1 DEF FileInv, Linked
<1>7. Held(c, w, file, data)
  <2>1. w[c] = p
    BY <1>5
  <2>2. Private(c, w, file)
    BY <1>2, <1>3, <1>5, <2>1 DEF Private
  <2>3. data[j] \o worker[c].buf = worker[c].buf
    BY <1>2, <1>4, Writer, ConcatEmptySeq
  <2>4. QED
    BY <2>1, <2>2, <2>3, <1>3, Writer DEF Held
<1>8. ASSUME NEW k \in Workers \ {c} PROVE Held(k, w, file, data)
  <2>1. worker[k].pc \in {"fill", "reading", "append"} => worker[k].fd \in Inodes /\ worker[k].fd # 0
    BY FileFacts DEF FileCalls, Held
  <2>2. worker[k].pc \in {"fill", "reading", "append"} => data[worker[k].fd] = inode[worker[k].fd]
    BY <1>2, <1>4, <2>1
  <2>3. worker[k].pc = "fill" => p.fd # worker[k].fd /\ \A n \in Files : file[n] # worker[k].fd
    BY <1>2, <1>3, FileFacts
  <2>4. QED
    BY <2>2, <2>3, <1>3, OthersHeld
<1>9. Paged(p, F!Entries)
  BY <1>3 DEF Paged
<1>10. QED
  <2>1. \A k \in Workers : Held(k, w, file, data)
    BY <1>7, <1>8
  <2>2. debris \in SUBSET DirNames /\ file \in [Files -> Inodes \union {0}] /\ inode \in [Inodes -> Seq(Pieces)]
    BY Writer
  <2> HIDE DEF w
  <2>3. QED
    BY <2>1, <2>2, <1>1, <1>3, <1>4, <1>6, <1>9, FileStep DEF w

\* One piece more.
LEMMA FileFill ==
  ASSUME FileInv, NEW c \in Workers, worker[c].pc = "fill", worker[c].buf # <<>>,
         F!Step(c, [worker[c] EXCEPT !.buf = Tail(@)], file,
                [inode EXCEPT ![worker[c].fd] = Append(@, Head(worker[c].buf))], debris)
  PROVE  FileInv'
<1> DEFINE j == worker[c].fd
           b == Tail(worker[c].buf)
           s == Append(inode[j], Head(worker[c].buf))
           p == [worker[c] EXCEPT !.buf = b]
           data == [inode EXCEPT ![j] = s]
           w == [worker EXCEPT ![c] = p]
<1>1. j \in Inodes /\ F!IsWhole(inode[j] \o worker[c].buf) /\ Private(c, worker, file)
  BY Writer
<1>2. b \in Seq(Pieces) /\ s \in Seq(Pieces) /\ s \o b = inode[j] \o worker[c].buf
  <2>1. inode[j] \in Seq(Pieces) /\ worker[c].buf \in Seq(Pieces)
    BY <1>1, Writer
  <2>2. QED
    BY <2>1, FillOne
<1>3. F!Step(c, p, file, data, debris)
  BY Writer
<1> HIDE DEF b, s
<1>4. /\ p \in FileCalls /\ p.pc = "fill" /\ p.name = worker[c].name /\ p.fd = j /\ p.buf = b
      /\ p.told = "nothing"
  <2>1. worker[c] \in FileCalls /\ worker[c].told = "nothing"
    BY Writer
  <2>2. QED
    BY <1>2, <2>1 DEF FileCalls
<1> HIDE DEF p
<1>5. data \in [Inodes -> Seq(Pieces)] /\ \A i \in Inodes : data[i] = IF i = j THEN s ELSE inode[i]
  BY <1>1, <1>2, Writer
<1> HIDE DEF data
<1>6. \A k \in Workers : w[k] = IF k = c THEN p ELSE worker[k]
  BY Writer
<1>7. /\ j # 0 /\ (\A n \in Files : file[n] # j) /\ \A k \in Workers \ {c} : worker[k].fd # j
  BY <1>1 DEF Private
<1>8. Linked(file, data)
  <2> SUFFICES ASSUME NEW n \in Files, file[n] # 0 PROVE F!IsWhole(data[file[n]])
    BY DEF Linked
  <2>1. data[file[n]] = inode[file[n]]
    BY <1>5, <1>7, Writer
  <2>2. QED
    BY <2>1 DEF FileInv, Linked
<1>9. Held(c, w, file, data)
  <2>1. w[c] = p
    BY <1>6
  <2>2. Private(c, w, file)
    BY <1>4, <1>6, <1>7, <2>1 DEF Private
  <2>3. F!IsWhole(data[j] \o b)
    BY <1>1, <1>2, <1>5
  <2>4. QED
    BY <2>1, <2>2, <2>3, <1>4, Writer DEF Held
<1>10. ASSUME NEW k \in Workers \ {c} PROVE Held(k, w, file, data)
  <2>1. worker[k].pc \in {"fill", "reading", "append"} => worker[k].fd \in Inodes /\ worker[k].fd # 0
    BY FileFacts DEF FileCalls, Held
  <2>2. worker[k].pc \in {"fill", "reading", "append"} => data[worker[k].fd] = inode[worker[k].fd]
    BY <1>5, <1>7, <2>1
  <2>3. worker[k].pc = "fill" => p.fd # worker[k].fd /\ \A n \in Files : file[n] # worker[k].fd
    BY <1>4, <1>7, FileFacts
  <2>4. QED
    BY <2>2, <2>3, <1>4, OthersHeld
<1>11. Paged(p, F!Entries)
  BY <1>4 DEF Paged
<1>12. QED
  <2>1. \A k \in Workers : Held(k, w, file, data)
    BY <1>9, <1>10
  <2>2. debris \in SUBSET DirNames /\ file \in [Files -> Inodes \union {0}] /\ inode \in [Inodes -> Seq(Pieces)]
    BY Writer
  <2> HIDE DEF w
  <2>3. QED
    BY <2>1, <2>2, <1>3, <1>4, <1>5, <1>8, <1>11, FileStep DEF w

\* The rename: all there is to write is written.
LEMMA FileRename ==
  ASSUME FileInv, NEW c \in Workers, worker[c].pc = "fill", worker[c].buf = <<>>,
         F!Step(c, [worker[c] EXCEPT !.pc = "mode"], [file EXCEPT ![worker[c].name] = worker[c].fd], inode, debris)
  PROVE  FileInv'
<1> DEFINE j == worker[c].fd
           p == [worker[c] EXCEPT !.pc = "mode"]
           f == [file EXCEPT ![worker[c].name] = j]
           w == [worker EXCEPT ![c] = p]
<1>1. F!Step(c, p, f, inode, debris)
  OBVIOUS
<1>2. /\ j \in Inodes /\ F!IsWhole(inode[j] \o worker[c].buf) /\ Private(c, worker, file)
      /\ worker[c].name \in Files /\ inode[j] \in Seq(Pieces)
  BY Writer
<1>3. F!IsWhole(inode[j])
  BY <1>2, ConcatEmptySeq
<1>4. /\ p \in FileCalls /\ p.pc = "mode" /\ p.name = worker[c].name /\ p.fd = j /\ p.told = "nothing"
  <2>1. worker[c] \in FileCalls /\ worker[c].told = "nothing"
    BY Writer
  <2>2. QED
    BY <2>1 DEF FileCalls
<1> HIDE DEF p
<1>5. f \in [Files -> Inodes \union {0}] /\ \A n \in Files : f[n] = IF n = worker[c].name THEN j ELSE file[n]
  BY <1>2, Writer
<1> HIDE DEF f
<1>6. Linked(f, inode)
  BY <1>3, <1>5 DEF FileInv, Linked
<1>7. Held(c, w, f, inode)
  <2>1. w[c] = p
    BY Writer
  <2>2. QED
    BY <2>1, <1>2, <1>4 DEF Held
<1>8. ASSUME NEW k \in Workers \ {c} PROVE Held(k, w, f, inode)
  <2>1. worker[k].fd # j
    BY <1>2 DEF Private
  <2>2. worker[k].pc = "fill" => \A n \in Files : file[n] # worker[k].fd
    BY FileFacts
  <2>3. QED
    BY <2>1, <2>2, <1>4, <1>5, OthersHeld
<1>9. Paged(p, F!Entries)
  BY <1>4 DEF Paged
<1>10. QED
  <2>1. \A k \in Workers : Held(k, w, f, inode)
    BY <1>7, <1>8
  <2>2. debris \in SUBSET DirNames /\ file \in [Files -> Inodes \union {0}] /\ inode \in [Inodes -> Seq(Pieces)]
    BY Writer
  <2> HIDE DEF w
  <2>3. QED
    BY <2>1, <2>2, <1>1, <1>4, <1>5, <1>6, <1>9, FileStep DEF w

LEMMA FileAtomicWrite ==
  ASSUME FileInv, NEW c \in Workers, F!_atomic_write(c)
  PROVE  FileInv'
<1>1. CASE /\ worker[c].pc = "tmp" /\ F!Free # {}
           /\ F!Step(c, [worker[c] EXCEPT !.pc = "fill", !.fd = F!FreeInode], file,
                     [inode EXCEPT ![F!FreeInode] = <<>>], debris)
  BY <1>1, FileTmp
<1>2. CASE /\ worker[c].pc = "fill" /\ worker[c].buf # <<>>
           /\ F!Step(c, [worker[c] EXCEPT !.buf = Tail(@)], file,
                     [inode EXCEPT ![worker[c].fd] = Append(@, Head(worker[c].buf))], debris)
  BY <1>2, FileFill
<1>3. CASE /\ worker[c].pc = "fill" /\ worker[c].buf = <<>>
           /\ F!Step(c, [worker[c] EXCEPT !.pc = "mode"], [file EXCEPT ![worker[c].name] = worker[c].fd],
                     inode, debris)
  BY <1>3, FileRename
<1>4. CASE F!Goes(c, F!Ends(c, "error", <<>>)) \/ F!Goes(c, F!Ends(c, "written", <<>>))
  BY <1>4, FileEnds
<1>5. QED
  BY <1>1, <1>2, <1>3, <1>4 DEF F!_atomic_write, F!Target

LEMMA FileOpenAppend ==
  ASSUME FileInv, NEW c \in Workers, NEW n \in Files, F!OpenAppend(c, n)
  PROVE  FileInv'
<1> DEFINE j == IF file[n] = 0 THEN F!FreeInode ELSE file[n]
           p == [F!Idle EXCEPT !.pc = "append", !.op = "append", !.name = n, !.fd = j]
           f == [file EXCEPT ![n] = j]
           w == [worker EXCEPT ![c] = p]
<1>1. F!Step(c, p, f, inode, debris) /\ (file[n] # 0 \/ F!Free # {})
  BY DEF F!OpenAppend
<1>2. /\ worker \in [Workers -> FileCalls] /\ debris \in SUBSET DirNames
      /\ file \in [Files -> Inodes \union {0}] /\ inode \in [Inodes -> Seq(Pieces)]
  BY DEF FileInv, FileTyped
<1>3. /\ j \in Inodes /\ j # 0 /\ F!IsWhole(inode[j])
      /\ \A k \in Workers : worker[k].pc = "fill" => worker[k].fd # j
  <2>1. CASE file[n] = 0
    <3>1. j \in Inodes /\ j # 0 /\ \A k \in Workers : worker[k].fd # j
      BY <1>1, <2>1, FreeFacts
    <3>2. j \in F!Free
      BY <1>1, <2>1 DEF F!FreeInode
    <3>3. inode[j] = <<>>
      BY <3>2 DEF FileInv
    <3>4. QED
      BY <3>1, <3>3, WholeNone
  <2>2. CASE file[n] # 0
    <3>1. j = file[n] /\ j \in Inodes /\ j # 0
      BY <1>2, <2>2
    <3>2. F!IsWhole(inode[j])
      BY <3>1 DEF FileInv, Linked
    <3>3. \A k \in Workers : worker[k].pc = "fill" => worker[k].fd # j
      BY <3>1, FileFacts
    <3>4. QED
      BY <3>1, <3>2, <3>3
  <2>3. QED
    BY <2>1, <2>2
<1> HIDE DEF j
<1>4. p \in FileCalls /\ p.pc = "append" /\ p.name = n /\ p.fd = j /\ p.told = "nothing"
  BY <1>3, WholeNone DEF F!Idle, FileCalls
<1> HIDE DEF p
<1>5. f \in [Files -> Inodes \union {0}] /\ \A m \in Files : f[m] = IF m = n THEN j ELSE file[m]
  BY <1>2, <1>3
<1> HIDE DEF f
<1>6. Linked(f, inode)
  BY <1>3, <1>5 DEF FileInv, Linked
<1>7. Held(c, w, f, inode)
  <2>1. w[c] = p
    BY <1>2
  <2>2. QED
    BY <2>1, <1>3, <1>4 DEF Held
<1>8. ASSUME NEW k \in Workers \ {c} PROVE Held(k, w, f, inode)
  <2>1. worker[k].pc = "fill" => p.fd # worker[k].fd /\ \A m \in Files : f[m] # worker[k].fd
    BY <1>3, <1>4, <1>5, FileFacts
  <2>2. QED
    BY <2>1, <1>4, OthersHeld
<1>9. Paged(p, F!Entries)
  BY <1>4 DEF Paged
<1>10. QED
  <2>1. \A k \in Workers : Held(k, w, f, inode)
    BY <1>7, <1>8
  <2> HIDE DEF w
  <2>2. QED
    BY <2>1, <1>1, <1>2, <1>4, <1>5, <1>6, <1>9, FileStep DEF w

LEMMA FileDoAppend ==
  ASSUME FileInv, NEW c \in Workers, F!DoAppend(c)
  PROVE  FileInv'
<1> DEFINE j == worker[c].fd
           s == Append(inode[j], "a")
           p == F!Ends(c, "written", <<>>)
           data == [inode EXCEPT ![j] = s]
           w == [worker EXCEPT ![c] = p]
<1>1. /\ worker \in [Workers -> FileCalls] /\ debris \in SUBSET DirNames
      /\ file \in [Files -> Inodes \union {0}] /\ inode \in [Inodes -> Seq(Pieces)]
  BY DEF FileInv, FileTyped
<1>2. F!Step(c, p, file, data, debris) /\ worker[c].pc = "append"
  BY DEF F!DoAppend
<1>3. j # 0 /\ j \in Inodes /\ F!IsWhole(inode[j]) /\ inode[j] \in Seq(Pieces)
  <2>1. j # 0 /\ F!IsWhole(inode[j]) /\ worker[c] \in FileCalls
    BY <1>2, FileFacts DEF Held
  <2>2. j \in Inodes
    BY <2>1 DEF FileCalls
  <2>3. QED
    BY <2>1, <2>2, <1>1
<1>4. s \in Seq(Pieces) /\ F!IsWhole(s)
  BY <1>3, WholeAppend
<1>5. p \in FileCalls /\ p.pc = "idle" /\ p.fd = 0 /\ p.told = "written"
  BY WholeNone DEF F!Ends, F!Idle, FileCalls
<1> HIDE DEF p
<1>6. data \in [Inodes -> Seq(Pieces)] /\ \A i \in Inodes : data[i] = IF i = j THEN Append(inode[j], "a") ELSE inode[i]
  <2> HIDE DEF s
  <2>1. data \in [Inodes -> Seq(Pieces)] /\ \A i \in Inodes : data[i] = IF i = j THEN s ELSE inode[i]
    BY <1>1, <1>3, <1>4
  <2>2. QED
    BY <2>1 DEF s
<1> HIDE DEF data
<1>7. Linked(file, data)
  <2> SUFFICES ASSUME NEW n \in Files, file[n] # 0 PROVE F!IsWhole(data[file[n]])
    BY DEF Linked
  <2>1. file[n] \in Inodes
    BY <1>1
  <2>2. F!IsWhole(inode[file[n]])
    BY DEF FileInv, Linked
  <2> HIDE DEF s
  <2>3. data[file[n]] = IF file[n] = j THEN s ELSE inode[file[n]]
    BY <2>1, <1>6 DEF s
  <2>4. QED
    BY <2>2, <2>3, <1>4
<1>8. Held(c, w, file, data)
  BY <1>5, HoldsNothing
<1>9. ASSUME NEW k \in Workers \ {c} PROVE Held(k, w, file, data)
  <2>1. worker[k].pc \in {"fill", "reading", "append"} => worker[k].fd \in Inodes /\ worker[k].fd # 0
    BY FileFacts DEF FileCalls, Held
  <2>2. worker[k].pc = "fill" =>
          j # worker[k].fd /\ p.fd # worker[k].fd /\ \A n \in Files : file[n] # worker[k].fd
    BY <1>5, FileFacts
  <2>3. worker[k].pc = "fill" => data[worker[k].fd] = inode[worker[k].fd]
    BY <1>6, <2>1, <2>2
  <2>4. worker[k].pc \in {"reading", "append"} =>
          data[worker[k].fd] \in {inode[worker[k].fd], Append(inode[worker[k].fd], "a")}
    BY <1>6, <2>1
  <2>5. QED
    BY <2>2, <2>3, <2>4, <1>5, OthersHeld
<1>10. Paged(p, F!Entries)
  BY <1>5 DEF Paged
<1>11. QED
  <2>1. \A k \in Workers : Held(k, w, file, data)
    BY <1>8, <1>9
  <2> HIDE DEF w
  <2>2. QED
    BY <2>1, <1>1, <1>2, <1>5, <1>6, <1>7, <1>10, FileStep DEF w

------------------------------------------------------------------------------
(* Removing, listing and synchronising *)

LEMMA FileBegins ==
  ASSUME FileInv, NEW c \in Workers, NEW p \in FileCalls,
         p.pc \in {"removing", "pushing"}, p.fd = 0, p.told = "nothing", F!Goes(c, p)
  PROVE  FileInv'
<1>1. F!Step(c, p, file, inode, debris) /\ debris \in SUBSET DirNames
  BY DEF F!Goes, FileInv, FileTyped
<1>2. Held(c, [worker EXCEPT ![c] = p], file, inode)
  BY HoldsNothing
<1>3. Paged(p, F!Entries)
  BY DEF Paged
<1>4. QED
  BY <1>1, <1>2, <1>3, FileGoes

LEMMA FileRm ==
  ASSUME FileInv, NEW c \in Workers, NEW ns \in SUBSET Files, F!op_rm(c, ns)
  PROVE  FileInv'
<1> DEFINE p == [F!Idle EXCEPT !.pc = "removing", !.op = "rm", !.todo = ns]
<1>1. F!Goes(c, p)
  BY DEF F!op_rm
<1>2. p \in FileCalls /\ p.pc = "removing" /\ p.fd = 0 /\ p.told = "nothing"
  BY WholeNone DEF F!Idle, FileCalls
<1> HIDE DEF p
<1>3. QED
  BY <1>1, <1>2, FileBegins

LEMMA FileSync ==
  ASSUME FileInv, NEW c \in Workers, NEW ns \in SUBSET Files, F!sync(c, ns)
  PROVE  FileInv'
<1> DEFINE p == [F!Idle EXCEPT !.pc = "pushing", !.op = "sync", !.todo = ns]
<1>1. F!Goes(c, p)
  BY DEF F!sync
<1>2. p \in FileCalls /\ p.pc = "pushing" /\ p.fd = 0 /\ p.told = "nothing"
  BY WholeNone DEF F!Idle, FileCalls
<1> HIDE DEF p
<1>3. QED
  BY <1>1, <1>2, FileBegins

LEMMA FileRemoveOne ==
  ASSUME FileInv, NEW c \in Workers, F!RemoveOne(c)
  PROVE  FileInv'
<1>1. CASE worker[c].todo = {}
  BY <1>1, FileEnds DEF F!RemoveOne
<1>2. CASE worker[c].todo # {}
  <2> DEFINE n == CHOOSE n \in worker[c].todo : TRUE
             p == [worker[c] EXCEPT !.todo = @ \ {n}]
             f == [file EXCEPT ![n] = 0]
             w == [worker EXCEPT ![c] = p]
  <2>1. F!Step(c, p, f, inode, debris) /\ worker[c].pc = "removing"
    BY <1>2 DEF F!RemoveOne
  <2>2. /\ worker \in [Workers -> FileCalls] /\ debris \in SUBSET DirNames
        /\ file \in [Files -> Inodes \union {0}] /\ inode \in [Inodes -> Seq(Pieces)]
    BY DEF FileInv, FileTyped
  <2>3. worker[c] \in FileCalls /\ worker[c].told = "nothing"
    BY <2>1, Writer
  <2> HIDE DEF n
  <2>4. p \in FileCalls /\ p.pc = "removing" /\ p.fd = worker[c].fd /\ p.told = "nothing"
    BY <2>1, <2>3 DEF FileCalls
  <2> HIDE DEF p
  <2>5. f \in [Files -> Inodes \union {0}] /\ \A m \in Files : f[m] = file[m] \/ f[m] = 0
    BY <2>2
  <2> HIDE DEF f
  <2>6. Linked(f, inode)
    BY <2>5 DEF FileInv, Linked
  <2>7. Held(c, w, f, inode)
    BY <2>4, HoldsNothing
  <2>8. ASSUME NEW k \in Workers \ {c} PROVE Held(k, w, f, inode)
    <3>1. worker[k].pc = "fill" => p.fd # worker[k].fd /\ \A m \in Files : f[m] # worker[k].fd
      BY <2>4, <2>5, FileFacts
    <3>2. QED
      BY <3>1, <2>4, OthersHeld
  <2>9. Paged(p, F!Entries)
    BY <2>4 DEF Paged
  <2>10. QED
    <3>1. \A k \in Workers : Held(k, w, f, inode)
      BY <2>7, <2>8
    <3> HIDE DEF w
    <3>2. QED
      BY <3>1, <2>1, <2>2, <2>4, <2>5, <2>6, <2>9, FileStep DEF w
<1>3. QED
  BY <1>1, <1>2

\* rsync renames a whole file into place.
LEMMA FilePush ==
  ASSUME FileInv, NEW c \in Workers, NEW n \in Files, F!Push(c, n)
  PROVE  FileInv'
<1> DEFINE j == F!FreeInode
           s == <<"s1", "s2">>
           p == [worker[c] EXCEPT !.todo = @ \ {n}, !.pc = IF worker[c].todo = {n} THEN "marking" ELSE @]
           f == [file EXCEPT ![n] = j]
           data == [inode EXCEPT ![j] = s]
           w == [worker EXCEPT ![c] = p]
<1>1. F!Step(c, p, f, data, debris) /\ worker[c].pc = "pushing" /\ F!Free # {}
  BY DEF F!Push
<1>2. /\ worker \in [Workers -> FileCalls] /\ debris \in SUBSET DirNames
      /\ file \in [Files -> Inodes \union {0}] /\ inode \in [Inodes -> Seq(Pieces)]
  BY DEF FileInv, FileTyped
<1>3. worker[c] \in FileCalls /\ worker[c].told = "nothing"
  BY <1>1, Writer
<1>4. j \in Inodes /\ j # 0 /\ (\A m \in Files : file[m] # j) /\ \A k \in Workers : worker[k].fd # j
  BY <1>1, FreeFacts
<1>5. s \in Seq(Pieces) /\ F!IsWhole(s)
  BY WholeTwo
<1> HIDE DEF j, s
<1>6. p \in FileCalls /\ p.pc \in {"pushing", "marking"} /\ p.fd = worker[c].fd /\ p.told = "nothing"
  BY <1>1, <1>3 DEF FileCalls
<1> HIDE DEF p
<1>7. f \in [Files -> Inodes \union {0}] /\ \A m \in Files : f[m] = IF m = n THEN j ELSE file[m]
  BY <1>2, <1>4
<1>8. data \in [Inodes -> Seq(Pieces)] /\ \A i \in Inodes : data[i] = IF i = j THEN s ELSE inode[i]
  BY <1>2, <1>4, <1>5
<1> HIDE DEF f, data
<1>9. Linked(f, data)
  <2> SUFFICES ASSUME NEW m \in Files, f[m] # 0 PROVE F!IsWhole(data[f[m]])
    BY DEF Linked
  <2>1. CASE m = n
    BY <2>1, <1>4, <1>5, <1>7, <1>8
  <2>2. CASE m # n
    <3>1. f[m] = file[m] /\ f[m] \in Inodes /\ f[m] # j
      BY <2>2, <1>2, <1>4, <1>7
    <3>2. data[f[m]] = inode[file[m]]
      BY <3>1, <1>8
    <3>3. QED
      BY <3>1, <3>2 DEF FileInv, Linked
  <2>3. QED
    BY <2>1, <2>2
<1>10. Held(c, w, f, data)
  BY <1>6, HoldsNothing
<1>11. ASSUME NEW k \in Workers \ {c} PROVE Held(k, w, f, data)
  <2>1. worker[k].pc \in {"fill", "reading", "append"} => worker[k].fd \in Inodes /\ worker[k].fd # 0
    BY FileFacts DEF FileCalls, Held
  <2>2. worker[k].pc \in {"fill", "reading", "append"} => data[worker[k].fd] = inode[worker[k].fd]
    BY <1>4, <1>8, <2>1
  <2>3. worker[k].pc = "fill" => p.fd # worker[k].fd /\ \A m \in Files : f[m] # worker[k].fd
    BY <1>4, <1>6, <1>7, FileFacts
  <2>4. QED
    BY <2>2, <2>3, <1>6, OthersHeld
<1>12. Paged(p, F!Entries)
  BY <1>6 DEF Paged
<1>13. QED
  <2>1. \A k \in Workers : Held(k, w, f, data)
    BY <1>10, <1>11
  <2> HIDE DEF w
  <2>2. QED
    BY <2>1, <1>1, <1>2, <1>6, <1>7, <1>8, <1>9, <1>12, FileStep DEF w

LEMMA DirCounts == \A U : F!Cardinality(U) = Cardinality(U)
BY DEF F!Cardinality, Cardinality

LEMMA EntriesAreNat == FileInv => F!Entries \subseteq Nat
<1> SUFFICES ASSUME FileInv PROVE F!Entries \subseteq Nat
  OBVIOUS
<1>1. \A k \in Workers : worker[k].pc = "fill" => F!TmpOf(worker[k].name) \in Nat
  BY FileFacts, DirNamesAreNat DEF Held
<1>2. debris \subseteq Nat
  BY DirNamesAreNat DEF DirNames, FileInv, FileTyped
<1>3. QED
  BY <1>1, <1>2, DirNamesAreNat DEF F!Entries, F!EntriesOf, F!TmpsOf

LEMMA FileLs ==
  ASSUME FileInv, NEW c \in Workers, F!op_ls(c)
  PROVE  FileInv'
<1> DEFINE e == F!Entries
           p == [F!Idle EXCEPT !.pc = "listing", !.op = "ls", !.steady = e]
<1>1. F!Step(c, p, file, inode, debris) /\ debris \in SUBSET DirNames
  BY DEF F!op_ls, F!Goes, FileInv, FileTyped
<1>2. e \subseteq Nat
  BY EntriesAreNat
<1> HIDE DEF e
<1>3. /\ p \in FileCalls /\ p.pc = "listing" /\ p.fd = 0 /\ p.told = "nothing" /\ p.steady = e /\ p.token = 0
  BY <1>2, WholeNone DEF F!Idle, FileCalls
<1> HIDE DEF p
<1>4. Held(c, [worker EXCEPT ![c] = p], file, inode)
  BY <1>3, HoldsNothing
<1>5. Paged(p, e)
  <2>1. ASSUME NEW n \in e PROVE Cardinality({m \in e : m < n}) \in Nat
    <3>1. n \in Nat
      BY <1>2
    <3>2. QED
      BY <1>2, <3>1, OrderGrows
  <2>2. ASSUME NEW n \in e PROVE Cardinality({m \in e : m < n}) >= 0
    BY <2>1
  <2>3. QED
    BY <1>3, <2>2 DEF Paged
<1>6. QED
  BY <1>1, <1>3, <1>4, <1>5, FileGoes DEF e

\* The names after the first of the rest are one place further on.
LEMMA RestIsFurther ==
  ASSUME NEW U, U \subseteq Nat, NEW n \in U, NEW m \in U, m < n, NEW k \in Nat,
         Cardinality({x \in U : x < m}) >= k
  PROVE  Cardinality({x \in U : x < n}) >= k + 1
<1> DEFINE few == {x \in U : x < m}
           many == {x \in U : x < n}
<1>1. n \in Nat /\ m \in Nat /\ \A x \in U : x \in Nat
  OBVIOUS
<1>2. few \union {m} \in SUBSET many /\ m \notin few
  <2>1. ASSUME NEW x \in few PROVE x \in many
    BY <1>1
  <2>2. m \in many /\ m \notin few
    BY <1>1
  <2>3. QED
    BY <2>1, <2>2
<1>3. many \in SUBSET (0..n)
  <2>1. ASSUME NEW x \in many PROVE x \in 0..n
    BY <1>1
  <2>2. QED
    BY <2>1
<1> HIDE DEF few, many
<1>4. IsFiniteSet(many)
  <2>1. IsFiniteSet(0..n)
    BY <1>1, FS_Interval
  <2>2. QED
    BY <1>3, <2>1, FS_Subset
<1>5. IsFiniteSet(few \union {m}) /\ Cardinality(few \union {m}) <= Cardinality(many)
  BY <1>2, <1>4, FS_Subset
<1>6. IsFiniteSet(few)
  <2>1. few \in SUBSET (few \union {m})
    OBVIOUS
  <2>2. QED
    BY <2>1, <1>5, FS_Subset
<1>7. Cardinality(few \union {m}) = Cardinality(few) + 1
  BY <1>2, <1>6, FS_AddElement
<1>8. Cardinality(few) \in Nat /\ Cardinality(many) \in Nat
  BY <1>4, <1>6, FS_CardinalityType
<1>9. Cardinality(few) >= k
  BY DEF few
<1>10. Cardinality(many) >= k + 1
  BY <1>5, <1>7, <1>8, <1>9
<1>11. QED
  BY <1>10 DEF many

LEMMA FileListPage ==
  ASSUME FileInv, NEW c \in Workers, F!ListPage(c)
  PROVE  FileInv'
<1> DEFINE p == worker[c]
           e == F!Entries
           rest == F!NamesFrom(p.token)
           page == {n \in rest : \A m \in rest : n <= m}
           more == p.listed \union page
           last1 == [F!Ends(c, "listed", <<>>) EXCEPT !.listed = more, !.steady = p.steady]
           next1 == [p EXCEPT !.listed = more, !.token = p.token + 1]
<1>1. /\ p.pc = "listing"
      /\ \/ rest \subseteq page /\ F!Step(c, last1, file, inode, debris)
         \/ ~(rest \subseteq page) /\ F!Step(c, next1, file, inode, debris)
  BY DEF F!ListPage, F!Goes
<1>2. /\ p \in FileCalls /\ p.told = "nothing" /\ Paged(p, e) /\ e \subseteq Nat /\ debris \in SUBSET DirNames
  BY <1>1, FileFacts, Writer, EntriesAreNat
<1>3. rest = {n \in e : Cardinality({m \in e : m < n}) >= p.token}
  BY DirCounts DEF F!NamesFrom
<1> HIDE DEF rest, e
<1>4. rest \subseteq Nat /\ page \subseteq rest
  BY <1>2, <1>3
<1>5. p.token \in Nat /\ p.listed \subseteq Nat /\ p.steady \subseteq Nat
  BY <1>2 DEF FileCalls
<1>6. more \subseteq Nat
  BY <1>4, <1>5
<1>7. \A n \in p.steady : n \in p.listed \/ n \in rest
  BY <1>1, <1>2, <1>3 DEF Paged
<1>8. p.steady \subseteq e
  BY <1>1, <1>2 DEF Paged
<1>9. CASE rest \subseteq page /\ F!Step(c, last1, file, inode, debris)
  <2>1. p.steady \subseteq more
    BY <1>7, <1>9
  <2> HIDE DEF more, page
  <2>2. /\ last1 \in FileCalls /\ last1.pc = "idle" /\ last1.fd = 0 /\ last1.told = "listed"
        /\ last1.listed = more /\ last1.steady = p.steady
    BY <1>5, <1>6, WholeNone DEF F!Ends, F!Idle, FileCalls
  <2>3. F!Step(c, last1, file, inode, debris)
    BY <1>9
  <2> HIDE DEF last1
  <2>4. Held(c, [worker EXCEPT ![c] = last1], file, inode)
    BY <2>2, HoldsNothing
  <2>5. Paged(last1, e)
    BY <2>1, <2>2 DEF Paged
  <2>6. QED
    BY <1>2, <2>2, <2>3, <2>4, <2>5, FileGoes DEF e
<1>10. CASE ~(rest \subseteq page) /\ F!Step(c, next1, file, inode, debris)
  <2>1. ASSUME NEW n \in p.steady, n \notin more
        PROVE  Cardinality({m \in e : m < n}) >= p.token + 1
    <3>1. n \in rest /\ n \notin page
      BY <1>7, <2>1
    <3>2. PICK m \in rest : ~(n <= m)
      BY <3>1
    <3>3. m \in e /\ n \in e /\ m < n /\ Cardinality({x \in e : x < m}) >= p.token
      <4>1. m \in Nat /\ n \in Nat
        BY <1>4, <3>1
      <4>2. m < n
        BY <3>2, <4>1
      <4>3. QED
        BY <4>2, <1>3, <3>1
    <3>4. QED
      BY <1>2, <1>5, <3>3, RestIsFurther
  <2> HIDE DEF more, page
  <2>2. /\ next1 \in FileCalls /\ next1.pc = "listing" /\ next1.fd = p.fd /\ next1.told = "nothing"
        /\ next1.listed = more /\ next1.steady = p.steady /\ next1.token = p.token + 1
    <3> DEFINE q == p
               x == p.token + 1
    <3>1. q \in FileCalls /\ q.pc = "listing" /\ q.told = "nothing" /\ x \in Nat
      BY <1>1, <1>2, <1>5
    <3> HIDE DEF q, x
    <3>2. /\ [q EXCEPT !.listed = more, !.token = x] \in FileCalls
          /\ [q EXCEPT !.listed = more, !.token = x].pc = "listing"
          /\ [q EXCEPT !.listed = more, !.token = x].fd = q.fd
          /\ [q EXCEPT !.listed = more, !.token = x].told = "nothing"
          /\ [q EXCEPT !.listed = more, !.token = x].listed = more
          /\ [q EXCEPT !.listed = more, !.token = x].steady = q.steady
          /\ [q EXCEPT !.listed = more, !.token = x].token = x
      BY <3>1, <1>6 DEF FileCalls
    <3>3. QED
      BY <3>2 DEF q, x
  <2>3. F!Step(c, next1, file, inode, debris)
    BY <1>10
  <2> HIDE DEF next1
  <2>4. Held(c, [worker EXCEPT ![c] = next1], file, inode)
    BY <2>2, HoldsNothing
  <2>5. Paged(next1, e)
    BY <2>1, <2>2, <1>8 DEF Paged
  <2>6. QED
    BY <1>2, <2>2, <2>3, <2>4, <2>5, FileGoes DEF e
<1>11. QED
  BY <1>1, <1>9, <1>10

LEMMA FilesStep == FileInv /\ [F!FileNext]_files => FileInv'
<1> SUFFICES ASSUME FileInv, [F!FileNext]_files PROVE FileInv'
  OBVIOUS
<1>1. CASE F!FileNext
  <2>1. PICK c \in Workers :
          \/ F!Refused(c) \/ F!Dies(c) \/ F!Fails(c) \/ F!ReadOn(c) \/ F!EndRead(c) \/ F!op_edit(c)
          \/ F!_atomic_write(c) \/ F!DoAppend(c) \/ F!RemoveOne(c) \/ F!op_ls(c) \/ F!ListPage(c)
          \/ F!WriteMarker(c)
          \/ \E n \in Files : \/ F!op_write(c, n) \/ F!OpenAppend(c, n) \/ F!Push(c, n)
                              \/ \E op \in {"read", "follow", "edit"} : F!Open(c, op, n)
          \/ \E ns \in SUBSET Files : F!op_rm(c, ns) \/ F!sync(c, ns)
    BY <1>1 DEF F!FileNext
  <2>2. QED
    BY <2>1, FileRefused, FileDies, FileFails, FileReadOn, FileEndRead, FileEdit, FileAtomicWrite, FileDoAppend,
       FileRemoveOne, FileLs, FileListPage, FileMarker, FileWrite, FileOpenAppend, FilePush, FileOpen, FileRm,
       FileSync
<1>2. CASE UNCHANGED files
  <2>1. UNCHANGED <<file, inode, debris, worker>>
    BY <1>2 DEF files
  <2>2. FileTyped'
    BY <2>1 DEF FileInv, FileTyped
  <2>3. Linked(file', inode') /\ \A k \in Workers : Held(k, worker', file', inode')
    BY <2>1 DEF FileInv
  <2>4. \A i \in F!Free' : inode'[i] = <<>>
    BY <2>1 DEF FileInv, F!Free
  <2>5. F!Entries' = F!Entries
    BY <2>1 DEF F!Entries, F!EntriesOf, F!TmpsOf
  <2>6. \A k \in Workers : Paged(worker'[k], F!Entries')
    BY <2>1, <2>5 DEF FileInv
  <2>7. QED
    BY <2>2, <2>3, <2>4, <2>6 DEF FileInv
<1>3. QED
  BY <1>1, <1>2

\* Whatever is written, edited, appended to, removed and synchronised at a time,
\* and wherever it is cut short, a name leads to a whole version and a reader
\* gets one (stub.py: _atomic_write, op_write, op_edit, op_read, op_follow); a
\* listing by pages misses no name that was there from its first page to its
\* last, unless a name went away meanwhile (op_ls).
THEOREM VersionsAreWhole ==
  F!FileInit /\ [][F!FileNext]_files => []FilesAreWhole
<1>1. F!FileInit => FileInv
  <2> SUFFICES ASSUME F!FileInit PROVE FileInv
    OBVIOUS
  <2> USE DEF F!FileInit
  <2>1. <<"old", "rest">> \in Seq(Pieces) /\ F!IsWhole(<<"old", "rest">>)
    BY WholeTwo
  <2>2. inode \in [Inodes -> Seq(Pieces)] /\ inode[1] = <<"old", "rest">>
        /\ \A i \in Inodes : i # 1 => inode[i] = <<>>
    BY <2>1, WholeNone, FileAssumption
  <2>3. file \in [Files -> Inodes \union {0}] /\ \A n \in Files : file[n] \in {0, 1}
    BY FileAssumption
  <2>4. FileTyped
    BY <2>2, <2>3, IdleFacts DEF FileTyped
  <2>5. Linked(file, inode)
    BY <2>1, <2>2, <2>3 DEF Linked
  <2>6. \A k \in Workers : worker[k] = F!Idle
    OBVIOUS
  <2>7. \A k \in Workers : Held(k, worker, file, inode) /\ Paged(worker[k], F!Entries)
    BY <2>6, IdleFacts DEF Held, Paged
  <2>8. ASSUME NEW i \in F!Free PROVE inode[i] = <<>>
    <3>1. i \in Inodes /\ \A n \in Files : file[n] # i
      BY DEF F!Free
    <3>2. \E n \in Files : file[n] = 1
      <4>1. Cardinality({n \in Files : file[n] = 1}) = 1
        BY DirCounts
      <4>2. {n \in Files : file[n] = 1} # {}
        <5> DEFINE on == {n \in Files : file[n] = 1}
        <5>1. Cardinality(on) = 1
          BY <4>1
        <5> HIDE DEF on
        <5>2. Cardinality({}) = 0
          BY FS_EmptySet
        <5>3. on # {}
          <6>1. 1 # 0
            OBVIOUS
          <6>2. QED
            BY <5>1, <5>2, <6>1, Zenon
        <5>4. QED
          BY <5>3 DEF on
      <4>3. QED
        BY <4>2
    <3>3. QED
      BY <3>1, <3>2, <2>2
  <2>9. QED
    BY <2>4, <2>5, <2>7, <2>8 DEF FileInv
<1>2. FileInv => FilesAreWhole
  <2> SUFFICES ASSUME FileInv PROVE FilesAreWhole
    OBVIOUS
  <2>1. F!WholeVersions
    BY DEF F!WholeVersions, FileInv, Linked, Held
  <2>2. F!ListedWhole
    BY DEF F!ListedWhole, FileInv, Paged
  <2>3. QED
    BY <2>1, <2>2 DEF FilesAreWhole
<1>3. QED
  BY <1>1, <1>2, FilesStep, PTL

==============================================================================
