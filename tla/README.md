# remoteslurm in TLA+

remoteslurm drives Slurm clusters over one SSH connection.  A client process
(command line, MCP server, terminal or web screen) talks to a *stub* on the
login node, one Python file that serves requests from a small worker pool and
keeps everything that must survive a lost connection in files of its own: task
records, campaign stores, leases.  This directory holds TLA+ models of the
parts where order, failure and concurrency decide whether a job runs once, twice
or never; the TLC runs that check them; and TLAPS proofs of what matters most.

All paths below are relative to `src/remoteslurm/`.

## 1. Inventory

| Component | State it keeps | Operations | What is hard | What makes it correct |
|---|---|---|---|---|
| Durable task store (`stub.py`, `op_task_*`) | `task.json` with its attempts, `<task>.lock` | ensure, update, fingerprint | a worker dies between any two writes; sbatch's answer is lost or late | no submission is repeated unless someone accepts it; records tell the truth about jobs |
| Durable task client (`tasks.py`) | nothing but the reply in its hand | observe, validate, fingerprint, report | everything is observed outside the lease and reported later | a report cannot harm an attempt it does not speak of; `VERIFIED` has evidence |
| Store lease (`stub.py`, `_task_lock`, `_campaign_lock`) | a directory and its `owner.json` | take, judge, break, release | every operation goes by path; holders die on other hosts | mutual exclusion; a dead holder does not wedge the store |
| Campaign transaction store (`stub.py`, `op_campaign_commit`) | `HEAD`, `views/`, `journal/`, `transactions/` | commit, replay, quarantine, read | death between any two renames; replays after other commits | HEAD's history is one frozen append-only log |
| Campaign execution ledger (`stub.py`, `op_campaign_attempt_*`) | `execution/ledger.json`, mirrors | reserve units, consume retries, drive groups, update | retries, groups that overlap, updates in any order | a unit is in one live group; an authorization is used once |
| Campaign controller (`campaigns/`) | a refreshed snapshot of the run | apply, retry, cancel, drive, verify, close | decides on stale snapshots | releases dependants only of verified units |
| Jobs (`jobs.py`, `slurm.py`, `reconcile.py`, `evidence.py`) | one registry file per host, a cached queue | submit, pack, adopt, status, wait, list, cancel, prune | sources that lag, disagree or forget; every process of the user rewrites the file | no recorded job is lost; nobody is told that a live job is over |
| Stub server (`stub.py` Server) | registries of running, queued, cancelled and compute requests; children | serve, run, srun, follow, cancel | a cancel meets its request anywhere; EOF with allocations held | what is abandoned is stopped; no allocation is hidden |
| Session (`session.py`, `transport.py`) | the stub's process, futures, streams, a lock | call, stream, cancel, probe, restart | threads of an old connection; restart against registration | no caller waits for a stub that is gone |
| Detached runs (`stub.py`, `op_detach`, `op_proc_*`, `op_waitfor`) | a record, a status file, a log | detach, status, kill, wait for a line | wrapper, reaper and later stubs share files without a lock | a run is told to be gone only if it was killed; a wait misses no line |
| File operations (`stub.py`, `cluster.py`, `sync.py`) | the user's files | read, write, append, edit, rm, ls, sync | no lock at all; death between steps | a name never leads to half a version |
| Daemon (`daemon.py`) | socket, lock file, sessions | spawn, serve, idle exit, call | socket removed by clients and daemons, lock handed on between | one daemon serves, and its socket leads to it |
| Watches (`job_monitor.py`, `watch.py`) | rows of a SQLite table, `events.jsonl` | start, stop, sample, notify | death around the notification; stop against save; accounting that lags | told once, truly, and never after a stop |
| Activity journal (`activity/store.py`, `producer.py`, `reader.py`) | SQLite events with sequence numbers | append, prune, query by cursor | retention and other workspaces' events between two pages | a follower misses nothing, or is told of a gap |
| Campaign recovery (`activity/recovery.py`, `monitor.py`, `semantic.py`) | a checkpoint per run | import units, ledger and commits page by page | the campaign changes between pages; a pass dies anywhere | complete means complete |
| Discovery (`activity/discovery.py`) | one document per host | read queue and accounting, merge, record | accounting lags; the document is saved before its events | running jobs are shown running no longer than they ran; ends are found, and told once |
| Workspaces (`workspace/`) | workspace, view and inspection documents | attach, stop, inspect, observe | shared samples, joined requests, a stop during an observation | fresh means recent; an answer is of after the question |
| Web, terminal, command line, MCP | nothing of their own | presentation | refresh against user action | show what the documents say |

How they interact: a client opens one *session* (directly, or through the
daemon) to the stub and calls its operations; several clients may have stubs of
their own on different login nodes, which share only the file system.  Hence the
leases.  The stub calls Slurm's commands; Slurm is where submissions become
jobs, outside any transaction with the files.  The *task* and the *campaign*
paths follow one pattern: write the intent, submit under a unique marker, record
the answer, and after a failure look the marker up instead of submitting again.
A client then observes jobs and reports back by an update that names the attempt
it is about.

The *services* live in the client's machine: the daemon keeps sessions for short
client processes, and one daemon, the owner of a lock, runs the observers
(watches, workspaces, campaigns, discovery), which write documents and journal
events that every screen reads.

`PROJECT.json` lists every hazard found, at its line, with the properties that
cover it.

## 2. Modules

| Module | Models |
|---|---|
| `SlurmController` | the controller as the code can observe it: marked requests it accepts or refuses late, jobs that start and end (external) |
| `TaskStore` | `op_task_ensure`, `op_task_update`: the record, the lease as the code relies on it, one step per durable write |
| `EnsureTask` | `ensure_task` of any number of clients over `TaskStore` and `SlurmController`; the safety and liveness properties |
| `SingleFlight` | abstract: one submission open at a time, a new one only when the earlier are settled or excused |
| `StoreLease` | the lease directory protocol file operation by file operation |
| `CampaignCommit` | `op_campaign_commit` rename by rename, with quarantine and replay |
| `CampaignLedger` | `op_campaign_attempt_ensure`, `op_campaign_attempt_update` over `SlurmController`: reservations, retry claims, groups that overlap |
| `CommitLog` | abstract: an append-only log in which each transaction appears at most once |
| `CampaignController` | `campaigns/manager.py` by several processes: snapshot, plan, apply, retry, cancel, verify, close, adopt, with the ledger's answers and what the sources show |
| `StubServer` | the server inside a stub: pipes, pool, the four cancel registries, run, srun and follow, allocation cleanup, EOF |
| `ClientSession` | `session.py` over `StubServer`: locks, futures, readers, restart, cancel from a second thread |
| `JobTracking`, `JobWatch`, `DaemonLife`, `DetachedRun`, `ActivityLog`, `FileOps`, `CampaignRecovery`, `Workspace`, `Discovery` | the services of the inventory, one module each |
| `MCEnsureTask`, `MCStoreLease`, `MCCampaignLedger`, `MCConnection`, `MCCampaignController` | symmetry sets, host assignments, group mappings, mixes of calls and small campaigns for TLC |
| `Services` | an instance of each of the nine services, with their constants and what each promises |
| `MCServices` | runs the services one at a time, for TLC |
| `EnsureTaskProofs`, `StoreLeaseProofs`, `CampaignLedgerProofs`, `CampaignCommitProofs`, `CampaignControllerProofs`, `ConnectionProofs`, `ServicesProofs`, `ObservationProofs` | the theorems |

`EnsureTask` extends `TaskStore`, which extends `SlurmController`, so that a
behaviour interleaves clients, stub workers and the controller; `CampaignLedger`
extends the same controller.  `EnsureTask` instantiates `SingleFlight` once,
`CampaignLedger` once for each unit, and `CampaignCommit` instantiates `CommitLog`, for
the refinements.  `StoreLease` stands alone: `TaskStore` and `CampaignCommit`
take the lease for granted (a dead holder is replaced, a live one is not) and
`StoreLease` says when that is justified.  `CampaignController` in turn takes one
request to the ledger as one step (`CampaignLedger` has its inside) and the
snapshot's commit as a compare-and-swap (`CampaignCommit`).  `ClientSession`
extends `StubServer`, so that a behaviour interleaves caller threads, readers,
pipes, handlers and children.  The nine services share no state with each other
in the code that they are modelled from, but for documents that one writes and
the others only display; so `MCServices` runs one at a time, chosen in the
initial state (`scene`): it explores the sum of their states, not the product.

### Correspondence

*Task store.*  `record` is the content of `task.json`; a worker's `mem` is the
dictionary in its memory, and `Save` is `_task_write`.  An attempt is named by
its marker, since `attempt_id` and marker determine each other.  The
states of attempts and records are the code's; `sched` is the stored scheduler
evidence, of which only "terminal, and COMPLETED or not" is ever looked at.  Each
phase of `pc` is a point in the code where the process may be interrupted:
`want` (waiting for the lease), `ensure` (inside it, before a new attempt),
`submitting` (intent saved), `sent` (sbatch running), `reply` (the client has the
answer), `update`, `outputs`, `fingerprint` (the client's later stages).  Every
early return of `op_task_ensure` is in `Answers`; the two of `op_task_update` in
`UpdateIgnored`.  The three outcomes of sbatch, and the exceptions around it, are
actions of their own.  `op_task_update` holds the lease across one read and one
write, so it is one action with a death variant.

*History variables.*  `issued`, `waived` and `misled` are not in the code: which
attempt ids were used (they are random), which attempts an operator replaced with
`retry_unknown`, and of which attempts sbatch reported a refusal that was none.
They excuse exactly the duplicates the documentation excuses.

*Lease.*  A directory is identified by its inode (`Dirs`), the path names at most
one; `mine` is the directory a process made.  `old` is the set of directories
whose mtime is past `TASK_LOCK_STALE`; writing or removing `owner.json` makes a
directory young again.

*Commit store.*  Revisions are bounded by the keys of `views` and `journal`;
documents and events of a request are one value (`Contents`), and a digest
determines the request.  The eleven durable steps of a commit are the steps of
`work`.  A read of `HEAD`'s history follows parent links as
`_campaign_reachable` does.  Left out: a request without documents always fails
when its view, never staged, is renamed; such a request is not enumerated.

*Execution ledger.*  `attempts`, `current`, `units` and `consumed` are the
`groups` (by attempt), their `current_attempt`, `units` and
`consumed_authorizations` of `ledger.json`.  `work` is the one request inside the
lease, with the groups it has still to drive; groups are driven in the order of
their hashes, so in any order.  Each ledger write is one step, and `Interrupted`
may come between any two: it stands for a death, an sbatch that is missing or
times out, and a failed write alike.  Requests that end in `store_conflict` or
`invalid_arg` change nothing and are no action.  The controller is the weakest
possible client: any group, with any subset of the authorizations ever given.
`Authorize` is what `CampaignManager.retry` lets an operator authorize, given what
any snapshot could truthfully have shown: an ended part of a job, a REJECTED
attempt, or (with the risk accepted) an attempt of unknown fate.  Retry of an
array task or a packed unit needs only that part to have ended (`over`).  No
caller of `op_campaign_attempt_update` exists in the repository; `Reported` is
what a client could report of an attempt that has a job.

*Campaign controller.*  `snap` is the committed snapshot, one record per unit with
the code's axes: execution, scheduler evidence and its source, artifacts,
validation, dependency, authorization.  A process that observes the cluster
fixes its draft at the read (`Observe`, `ObserveApply`) and commits it later; the
commit fails when the snapshot was committed in between (`Superseded`).  `rows`,
`marks` and `out` are the truth the sources report with gaps: each observation
draws which of squeue, sacct, markers and the filesystem were available.  `risked`
remembers which duplicates an operator accepted.  Units of one pack share a job:
cancelling one ends them all.

*Connection.*  `inbox` and `outbox` are the pipes of each stub, `phase` the point a
request has reached in its handler, `running`, `pending`, `precancelled` and
`cancelled` the server's registries, `compute` the sruns of its cleanup table.
`pc` is the calling thread's point in `Session`, and `lock` its `RLock`.  A stub's
number stands for its process: after a restart the old one's reader and handlers
go on.

*Services.*  Actions bear the names of the code's functions
where one step is one function (`submit`, `reconcile_job`, `observe`,
`import_group`, `op_edit`); steps in between are named for what they do.

- `JobTracking`: `registry` is the JSON file, `regLock` its flock, `client[c].rows` the
  process's cached queue.  Accounting is told of an end late and forgets it.
- `JobWatch`: `row` is the SQLite row, saved under the guard of `MaySave`.
  `answered` remembers stops that returned, `sighted` the array tasks a sample saw.
- `DaemonLife`: `socket` is the process the path leads to, `owner` who holds the
  flock; `orphans` remembers daemons whose socket a client removed.
- `DetachedRun`: `rc` is the status file, `others` the members of the process group
  besides the wrapper; the log grows by pieces of lines, so that reads cut lines.
- `ActivityLog`: an event is its sequence number.  `inScope` are those of the
  followers' workspace.
- `FileOps`: a file is the inode its name leads to; contents are pieces of which
  two belong together.
- `CampaignRecovery`: `cp` is the checkpoint, with one field per saved intermediate
  result, so that a pass resumes after the read it had done.
- `Workspace`, `Discovery`: time in ticks as long as the code's windows (90 s, and the
  600 s overlap and rebaseline of discovery); `ended` is when a job really ended.

## 3. Runs

| Run | Question | Instance |
|---|---|---|
| `ensure_task` | can a task be submitted twice, or its record lie? | 2 clients, 2 attempts, 2 jobs, 1 death, symmetry |
| `ensure_liveness` | is an interrupted submission always explained? | 2 clients, 1 attempt, 1 job, 1 death, 1 edit |
| `receipt_race` | is a receipt ever lost? (it is) | 2 clients, 1 attempt, 2 contents, 1 edit |
| `store_lease` | does the lease exclude, and outlive its holder? | 2 processes on 2 hosts, 1 death |
| `lease_race` | and with two contenders? (it does not exclude) | 3 processes on 1 host, 1 death |
| `campaign_commit` | is HEAD's history a log, under replays and deaths? | 2 transactions, 2 contents, 2 revisions, 2 deaths |
| `campaign_ledger` | can a unit run twice, through whatever groups and retries? | 2 units, 3 groups, 3 attempts, 1 authorization, 1 job, any number of interruptions |
| `campaign_controller` | do stale or partial observations duplicate a unit, open a gate, or lose history? | 2 processes, 6 campaigns of 1 or 2 units, 2 attempts, each operation at most as often as the campaign says |
| `retry_orphan` | does a repeated apply recover what an interrupted one submitted? (not after a second retry) | 1 unit, 2 retries |
| `connection` | can a call hang, an allocation be hidden, or something abandoned go on? | 2 calls (run, srun, or follow with a probe), 2 stubs, 1 lost link |
| `services` | does each service keep its promise? | see the instances in `MCServices` |
| `commit_stranded` | is a transaction that is sent again always answered? (no) | the same with 1 content |

**Bounds.**  `MaxCrashes`, `MaxDeaths` bound workers that may be killed;
`MaxEdits` rewrites of outputs by others; `MaxRevision` the revisions of a run;
the sizes of the constant sets bound attempts and jobs.  Two attempts and two
jobs are what a duplicate takes; two clients what a stale update takes; one death
puts a record in every intermediate state, the second one in `campaign_commit`
interrupts the repair itself.  In `campaign_ledger` three attempts let two
groups of one unit each be replaced by one of both, or the reverse, under one
authorization; one job number is enough because a second submission counts as
soon as it is with the controller.  Two contents tell a request from another under the
same id.  `campaign_controller` needs two processes, since every race is between
a read and a commit of another, and two attempts, since a duplicate is two; its
six campaigns together have every operation, each limited by the campaign's
`limit`, because all of them at once are out of TLC's reach.  `connection` has one
restart and hence two stubs: the second is the one an old reader can disturb.
In `services`, two processes race wherever processes race (three daemons, so
that one starts while another exits and a third is spawned), two tasks make an
array, two operations on two files meet on one; `MaxClock` of 3 and 4 ticks lets
every time window of the code open and pass; three ledger groups are three pages,
a `Window` of one commit makes the walk back fall short as soon as another
commit comes; four pieces of log cut two lines everywhere.  What does not depend on the bounds is proved (section 5).

**What the passing runs show.**  In `ensure_task`: `NoSilentDuplicate`
(a submission that may be on the cluster is the current attempt's, or was
excused), `EveryJobRecorded` (intent before submission), `JobIdentified`
(recovery finds the right job), `RetryableIsSettled` (what `--retry` may replace
is over, however late the report that said so), `VerifiedIsEvidenced`, and
`SingleFlightKept`: the whole protocol implements `SingleFlight`.  In
`store_lease`: exclusion with one contender, and `DeadLeaseBroken`.  In
`campaign_commit`: `HeadIsWhole`, `AckedIsCommitted`, `OneCommitPerTransaction`,
`PublishedIsFrozen`, the refinement `StoreIsLog`, and `ReplayAnswered`.  In
`campaign_ledger`: `NoUnitDuplicate` and `UnitPromise` (per unit, the promise of
`SingleFlight`), `OneSubmissionEach`, `ReservationIsCurrent`, `RetriesArePaid`.

In `campaign_controller`: `NoUnsanctionedDuplicate`, although every decision is
made on observations of any age; `GatesAreHonest`, that no dependency is satisfied
by axes the snapshot itself contradicts; `HistoryOnlyGrows`.  In `connection`:
`NoStrandedCall` (whoever waits is registered with a live stub or will be failed
by a reader still to end), `NoHiddenAllocation` and, under fairness,
`AbandonedIsStopped`.  In `services`:

- `JobsAreTracked`: recorded jobs stay recorded until pruned, and no single job is
  reported over before it was.  Of arrays only the first part is claimed: a task
  that left the queue and is not yet in accounting is invisible to
  `job_status` (jobs.py:1282), which may report the array over without it.
- `WatchesAreHonest`: at most one notification, none after an answered stop, no
  delivery claimed that was not; no watch fires on an end that was none.
- `DaemonReachable`: one daemon serves and its socket leads to it, unless a client
  unlinked the socket of a daemon that was too slow to answer (daemon.py:365).
- `RunsAreToldTruly`: "gone" only after a kill; no line is missed by a search that
  is interrupted, resumed, or ends with the run.
- `FollowersMissNothing`: no event of a workspace is skipped between two pages.
- `FilesAreWhole`: no reader, and no name, ever has half a version.  Lost updates
  of two edits at once, and appends to a file that is replaced, are allowed: the
  code does not exclude them.  A listing in pages may skip a name when another
  one goes away, since the token is an index.
- `RecoveryIsWhole`: unless it declares a gap, the journal has every commit up to
  its cursor, every group of the last ledger read through, and units of one commit.
- `WorkspaceIsHonest`: a fresh view is at most one view and one sample old; an
  answer shows the file as of the question or later, up to the five seconds
  for which answers are shared.
- `DiscoveryIsHonest`: a job shown running was so at the observation; ends that
  accounting tells within ten minutes are found; an end is told once.  A death
  between saving the document and appending the events silences them
  (discovery.py:635), which the property excuses.

Recovery has a limit the property does not speak of: a checkpoint that pins a
commit more than 128 behind HEAD is answered `too_large` on every pass
(`TooFarBack`), and only `store_conflict` makes the observer start over
(monitor.py:255).

**What the violated runs show.**  Each checks one sentence of the repository.

- `lease_race`: `_task_break_stale_lock` renames whatever the path names, so a
  contender that judged the dead holder's lease can rename away the lease of a
  contender that was faster.  Both then submit.
- `receipt_race`: a second verification, whose reply carried no receipt yet,
  overwrites the stored receipt with one for other bytes.
- `retry_orphan`: a second retry, authorized before the first one's replacement was
  merged, names the attempt that replacement has replaced; the ledger refuses the
  claim on every apply, and the replacement runs outside the snapshot.
- `commit_stranded`: a death between making `transactions/<id>` and writing
  `request.json` in it makes every replay of that transaction fail; the same
  death anywhere else is recovered from, as `ReplayAnswered` shows.

**Deadlock** is checked where clients may always call again.  `connection`,
`campaign_controller`, `retry_orphan` and `services` do without: their calls,
operations and clocks are finite, and a behaviour rightly ends when all are done.

## 4. Fairness

`EnsureTask!FairSpec`: a worker that runs keeps running (weak fairness: sbatch
has a timeout, an update holds the lease for one write), every caller repeats
`ensure` without retry flags until one of its calls gets the lease and its write
succeeds (strong fairness, since the lease comes and goes and any attempt may
fail).  Nothing is asked of the controller.  This is how `ensure` is documented
to be used: repeat it.

`StoreLease!FairSpec`: the operating system runs live processes, and time passes
(`Ages`).  `CampaignCommit!FairSpec`: a worker that is not killed goes on, and
the callers in `Persistent` repeat their request until it gets its turn.

`ClientSession!Fairness`: threads of the caller and of the stub that can run do
so; nothing is asked of children, Slurm, links or callers' patience.  A handler
is fair as a whole, since each has one next step.

## 5. Proofs

Each theorem holds for every value of the constants that the named assumptions
of its module allow (bounds are naturals, model values for "none" are not
elements of the sets they stand beside): any number of clients, attempts, jobs,
calls, crashes and edits.  Only the tasks of a watch and the groups of a ledger
have to be finite sets.  A property
is almost never inductive as it stands; each section names what it needs
besides, and why.  One lemma per action shows that the invariant is kept.

**Durable tasks** (`EnsureTaskProofs`).  `Inductive`: `Spec => []IndInv`; from it
`Typed`, `NoDuplicates`, `RetriesAreSafe`, `JobsAreRecorded`, `JobsAreIdentified`,
`VerifiedHasEvidence`, and `KeepsPromise`, the refinement of `SingleFlight`.
`NoSilentDuplicate` needs to know that a worker inside the lease has the file's
content in memory (`LeaseIsHeld`), that between saving the intent and calling
sbatch the controller knows nothing of the attempt (`SubmissionIsFresh`), that a
marker is used once (`OneJobPerMarker`, `MarkersAreIssued`), and, for late updates,
that whatever a call carries in memory or is about to report was true and stays
true of its attempt (`CopiesAreEvidenced`, `ReportsAreTrue`): job states that ended
stay ended, so an old report of an end cannot become false.  That argument is the
heart of the proof, and shows where it rests on Slurm not requeuing a job it
reported as ended.  The refinement maps each action to `Open`, `Launch`, `Settle`,
`Excuse` or a stutter.

**Store lease** (`StoreLeaseProofs`).  `Typed`, with deaths and slow holders.  When no
process is killed and no holder outlives `TASK_LOCK_STALE` (`MaxDeaths = 0`,
`SlowHolders = FALSE`), the lease excludes (`LeaseExcludes`) and is never disturbed
(`HolderUndisturbed`).  `lease_race` shows that the first condition cannot be
dropped with three processes.

**Campaign ledger** (`CampaignLedgerProofs`).  `Inductive`, `Typed`, `UnitsRunOnce`
(`NoUnitDuplicate`), `RecoveryFindsBlocker` (`ReservationIsCurrent`),
`SubmittedOnce` (`OneSubmissionEach`), `RetriesAreSpentOnce` (`RetriesArePaid`, an
action property), and `UnitsKeepPromise`: per unit, the ledger implements
`SingleFlight`.  The invariant says that the ledger has no dangling reference
(`LedgerIsClosed`), that a job belongs to one marker and each marker has one job
(`JobsAreTheirs`, `OneJobPerMarker`), that an attempt about to be submitted is
unknown to the controller (`SubmissionIsFresh`), that an attempt whose fate is open
keeps its units reserved (`UnresolvedKeepsUnits`), that a rejected one never
runs (`RejectedIsGone`), and that what an authorization speaks of is settled or
its risk accepted (`GrantsAreSettled`).  The last two are why a retry does not
duplicate.

**Commit store** (`CampaignCommitProofs`).  `Inductive`, `Typed`, `HistoryIsWhole`
(`HeadIsWhole`), `AnswersStand` (`AckedIsCommitted`), `CommitsOnce`
(`OneCommitPerTransaction`), `ReadersAreUndisturbed` (`PublishedIsFrozen`) and
`ImplementsLog` (`StoreIsLog`).  The model's history follows parent links, a recursive
function over the journal.  The proof works with a *line* instead: a function from
`0..revision` to pointers that starts at the origin, ends at HEAD, and whose
entries are each other's parents.  The invariant is that there is one whose
entries have their frozen views and digests (`EntriesAreWhole`), of which results and
answers speak truly (`ResultsAreTrue`, `AnswersAreTrue`), and that the request at work has
done the steps before its own and no later one (`WorkIsOrdered`).  That the recursive
history is that line, read backwards, follows by induction; since a theorem
with an operator parameter is out of reach of the provers, the induction is made
from the least counterexample, which `NaturalsInduction` and `WellFoundedInduction`
provide (`NatLessThanWellFounded`, `WFMin`).

**Campaign controller** (`CampaignControllerProofs`).  `Inductive`,
`DuplicatesAreSanctioned` (`NoUnsanctionedDuplicate`), `GatesHold` (`GatesAreHonest`) and
`HistoryGrows` (`HistoryOnlyGrows`, an action property).  The invariant has four
parts: the ledger is in order (`LedgerInOrder`: attempts are numbered as they were
intended, the last one of a unit is its reservation, only jobs that may exist have
rows); what was replaced is over, or its risk was accepted (`ReplacedIsOver`); what
the snapshot says of an attempt is true of it (`SnapTrue`); and so is what any
process has in its hand, drafts, claims and plans, with the draft following the
snapshot it was read from as long as that is still the committed one
(`ProcTrue`).  As with durable tasks, everything rests on ends being permanent: a claim
that is checked against a snapshot of any age stays true until the ledger
sees it.

**Connection** (`ConnectionProofs`).  `NobodyIsStranded` (`NoStrandedCall`) from `WaitInv`:
a call that was sent and has no answer is registered with the stub the session
has now, and if that stub's link is down its reader is still to fail everything
registered.  `NothingIsHidden` (`NoHiddenAllocation`) from
`HiddenInv`: a request is in one stub's hands once (`RequestsAreNew`), an exited stub
has no handler left (`StubsAreOver`), and the point a handler has reached decides
whether there can be an allocation and what its receipt says (`CallsArePlaced`,
`AllocationsAreTold`).

**Services** (`ServicesProofs`, `ObservationProofs`).  `Services` instantiates nine
modules that share nothing, so each theorem is about one of them alone
(`X!Init /\ [][X!Next]_vars => []Property`).

- `DaemonIsReachable` (`DaemonReachable`) from the ownership of the lock file:
  whoever binds or removes the socket owns it.
- `FollowersSeeAll` (`FollowersMissNothing`) from `TableInv`: every event of the
  workspace above the pruning mark is in the table, under its own number, and no
  cursor runs ahead of the last one.
- `WatchesTellTheTruth` (`WatchesAreHonest`): what a monitor has read of a task, from the
  queue or from accounting, is so for good once it is an end, and only the owner
  of the monitor lock marks a watch as notified.  "All" and "any" count tasks, so
  the tasks are a finite set.
- `CompleteIsComplete` (`RecoveryIsWhole`): what is below the checkpoint of a pass is
  imported, of the one commit and the one digest the checkpoint names.
- `JobsAreKnown` (`JobsAreTracked`) from `JobInv`: the lock's owner has the registry's
  content in its hands, so a replacement loses nothing; an end that a client
  knows of, in its record, its rows or the registry, is an end Slurm made.
- `WorkspaceTellsTheTruth` (`WorkspaceIsHonest`) from `SpaceInv`: samples, views and
  answers carry a time no later than what they were made of, also when a request
  joins one that is queued.
- `RunsAreKnown` (`RunsAreToldTruly`) from `RunInv`: what a client has searched of the
  log holds no line it waits for, and a record without an exit code and
  without a process means that the wrapper was killed.
- `DiscoveryTellsTheTruth` (`DiscoveryIsHonest`) from `HostInv`: an end that reached
  accounting in time and before the last time it was read is in the document, since the
  windows overlap; an end stays in the document, which is why it is told once.
- `VersionsAreWhole` (`FilesAreWhole`) from `FileInv`: what a writer fills is led to by
  nothing else, and is whole together with what is left to write; an inode that a
  name ever led to only gets whole additions, so a reader has a prefix of it; of a
  listing under way, a name that was there all the time is listed or comes at
  or after the token, because names only join.

**Only model-checked.**  Everything under fairness (`IntentResolved`,
`DeadLeaseBroken`, `ReplayAnswered`, `AbandonedIsStopped`): liveness and ENABLED are beyond
the prover.  Exclusion of the lease when holders die: with two processes it holds
in `store_lease`, with three it does not.  Every other property of a passing run
is a theorem.

## 6. Not modelled, and the plan

`PROJECT.json` has a note for each component.  Left out for good: the campaign
language (`campaigns/spec.py`, `contracts.py`: a translation of TOML, without
state), the user interfaces and the web pages (they display documents), the
parsing of Slurm's tables, diagnosis, quota and cleaning reports, configuration,
and telemetry.  Left out so far: `op_campaign_put_immutable`,
`op_campaign_events`, the import of pre-ledger attempts, `drive` (repeated
`apply`), the event log of `watch.py`, and enrichment and pruning in discovery.

What could come next:

1. Proofs: exclusion of `StoreLease` for two processes with deaths.
2. Requeue in `SlurmController`: what a task promises of a job that Slurm runs
   again after `NODE_FAIL` (slurm.py:84).
3. The event log, with concurrent drains.

Abstractions worth naming: file writes are atomic (`_atomic_write` renames a
temporary file; `FileOps` has its steps); a failed write or read is an exception that stores nothing;
parsing, hashing, identifiers and messages are values; clocks appear only where a
timeout decides (`Ages`, and the ticks of `Workspace` and `Discovery`).
