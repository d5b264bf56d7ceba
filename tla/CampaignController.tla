-------------------------- MODULE CampaignController --------------------------
(***************************************************************************)
(* The campaign controller (src/remoteslurm/campaigns/manager.py, with     *)
(* execution.py and store.py): client processes that observe a campaign    *)
(* run, record what they saw in its snapshot, and submit what is ready.    *)
(*                                                                         *)
(* The snapshot is committed by compare-and-swap on its revision: a commit *)
(* succeeds only while nobody else committed since the read (CampaignCommit *)
(* models the store).  So an operation that only reads and commits is one  *)
(* step; one that observes or calls the cluster in between is a read, which *)
(* fixes the draft, and a commit.  The execution ledger reserves units and *)
(* submits them (CampaignLedger models the inside of that step); it is     *)
(* written whether or not the controller lives to merge the outcome.       *)
(***************************************************************************)
EXTENDS Naturals, FiniteSets, FiniteSetsExt

CONSTANTS Managers,     \* controller processes
          Definitions,  \* campaigns: [units, needs, require, mode, outages, limit];
                        \*   limit bounds how often each operation is asked for,
                        \*   outages which sources may be unavailable at once
          MaxAttempts,  \* bound: attempts of a run
          MaxAuths      \* bound: retry authorizations of a run

\* What the campaign language lets a definition say of its dependencies.
ASSUME CampaignControllerAssumption ==
  /\ MaxAttempts \in Nat
  /\ MaxAuths \in Nat
  /\ \A d \in Definitions :
       /\ d.needs \in [d.units -> SUBSET d.units]
       /\ d.require \in {"completed", "outputs_present", "verified"}

VARIABLES campaign,  \* the definition of the run
          snap,      \* the committed snapshot: its lifecycle and its units
          granted,   \* retry authorizations committed so far
          proc,      \* the controller processes
          asked,     \* how often each operation was asked for
          ledger,    \* the execution ledger: units and state of each attempt
          bound,     \* ledger: the attempt each unit is reserved for
          spent,     \* ledger: the replacement an authorization paid for
          rows,      \* the scheduler's truth about each unit of each attempt
          marks,     \* the started and finished records of packed units
          out,       \* the attempt that wrote each unit's output
          risked     \* history: <<attempt, unit>> replaced with risk accepted

vars == <<campaign, snap, granted, proc, asked, ledger, bound, spent, rows, marks, out, risked>>
cluster == <<ledger, bound, spent, rows, marks, out, risked>>

None     == 0  \* no attempt, no authorization
Attempts == 1..MaxAttempts
Outside  == MaxAttempts + 1  \* the job an adopted unit is bound to
Auths    == 1..MaxAuths
AllUnits == UNION {d.units : d \in Definitions}
Units    == campaign.units
Packed   == campaign.mode = "pack"

LIVE_EXECUTION   == {"INTENDED", "PENDING", "RUNNING"}
ACTIVE_EXECUTION == LIVE_EXECUTION \union {"UNKNOWN"}
TerminalStates   == {"COMPLETED", "FAILED", "CANCELLED"}
SCHEDULER_SOURCES == {"squeue", "sacct"}
NoRow   == "no row"
NoClaim == [id |-> None, prev |-> None, risk |-> FALSE]

InitialUnit(u) ==
  [exec |-> "UNBOUND", sched |-> NoRow, source |-> "none", cur |-> None, tries |-> {},
   art |-> "UNCHECKED", sig |-> None, val |-> "NOT_RUN", vsig |-> None,
   dep |-> IF campaign.needs[u] = {} THEN "NOT_APPLICABLE" ELSE "BLOCKED", auth |-> NoClaim]

Absent  == [life |-> "ABSENT", units |-> << >>]
Resting == [pc |-> "idle", draft |-> Absent, sel |-> {}, todo |-> {}, got |-> {}]

Init ==
  /\ campaign \in Definitions
  /\ snap = Absent
  /\ granted = 0
  /\ proc = [m \in Managers |-> Resting]
  /\ asked = [op \in DOMAIN campaign.limit |-> 0]
  /\ ledger = [a \in Attempts |-> [units |-> {}, state |-> "ABSENT"]]
  /\ bound = [u \in AllUnits |-> None]
  /\ spent = [k \in Auths \X AllUnits |-> None]
  /\ rows = [k \in (Attempts \union {Outside}) \X AllUnits |-> NoRow]
  /\ marks = [k \in (Attempts \union {Outside}) \X AllUnits |-> NoRow]
  /\ out = [u \in AllUnits |-> None]
  /\ risked = {}

------------------------------------------------------------------------------
(* What a snapshot says of a unit *)

Pending(r) == r.auth # NoClaim

retry_eligible(r) ==
  /\ r.exec \notin LIVE_EXECUTION
  /\ r.exec \in {"FAILED", "CANCELLED", "UNKNOWN"} \/ r.val \in {"FAILED", "STALE", "ERROR"}

\* A bug: our own scancel is taken for the scheduler's word.
TrustScancel(r) == r.exec = "UNKNOWN"

\* Replacing the attempt could run beside an original that is still live.
duplicate_risk(r) ==
  \/ r.exec = "UNKNOWN"
  \/ r.exec = "CANCELLED" /\ ~(r.sched \in TerminalStates /\ r.source \in SCHEDULER_SOURCES)

Accepted(r, kind) ==
  CASE kind = "completed"       -> r.exec = "COMPLETED"
    [] kind = "outputs_present" -> r.art = "PRESENT"
    [] kind = "verified"        -> r.val = "PASSED"

derive_dependencies(units) ==
  [u \in Units |->
    [units[u] EXCEPT !.dep =
       IF campaign.needs[u] = {} THEN "NOT_APPLICABLE"
       ELSE IF \A v \in campaign.needs[u] : Accepted(units[v], campaign.require)
              THEN "SATISFIED" ELSE "BLOCKED"]]

\* Unbound units and authorized retries, whose dependencies are satisfied.
Ready(s, sel) ==
  {u \in Units \intersect sel :
     /\ s.units[u].exec = "UNBOUND" \/ (Pending(s.units[u]) /\ retry_eligible(s.units[u]))
     /\ s.units[u].dep \in {"SATISFIED", "NOT_APPLICABLE"}}

Claims(s, us) ==
  {[unit |-> u, id |-> s.units[u].auth.id, prev |-> s.units[u].auth.prev,
    risk |-> s.units[u].auth.risk] : u \in {v \in us : Pending(s.units[v])}}

\* Single stages submit unit by unit, array and pack stages a whole chunk.
plan_job_groups(s, sel) ==
  LET chunks == IF campaign.mode = "single" THEN {{u} : u \in Ready(s, sel)}
                ELSE {Ready(s, sel)} \ {{}}
  IN  {[units |-> us, claims |-> Claims(s, us)] : us \in chunks}

------------------------------------------------------------------------------
(* One observation of the cluster: _refresh *)

HasJob(a) == a = Outside \/ (a \in Attempts /\ ledger[a].state = "ACCEPTED")

\* The newest of: a row of the queue, an accounting record, what was known.
Reconcile(a, u, prev, blind, lag, grace) ==
  LET row == rows[<<a, u>>] IN
  IF "squeue" \notin blind /\ row \in {"PENDING", "RUNNING"}
    THEN [state |-> row, source |-> "squeue"]
  ELSE IF "sacct" \notin blind /\ row # NoRow /\ ~lag
    THEN [state |-> row, source |-> "sacct"]
  ELSE IF prev # NoRow /\ (prev \in TerminalStates \/ grace)
    THEN [state |-> prev, source |-> "registry"]
  ELSE [state |-> "UNKNOWN", source |-> "unknown"]

\* The markers of a packed unit decide over its allocation.
UnitState(a, u, state, blind) ==
  LET mark == IF "markers" \in blind THEN "unread" ELSE marks[<<a, u>>] IN
  CASE mark = "ok"      -> "COMPLETED"
    [] mark = "bad"     -> "FAILED"
    [] mark = "started" -> IF state \in TerminalStates THEN "UNKNOWN" ELSE "RUNNING"
    [] mark = NoRow     -> IF state \in TerminalStates THEN "UNKNOWN"
                           ELSE IF state = "RUNNING" THEN "PENDING" ELSE state
    [] mark = "unread"  -> state

\* Only an attempt with a scheduler job is observed.
ObserveExecution(u, r, blind, lag, grace) ==
  IF ~HasJob(r.cur) THEN r
  ELSE LET seen == Reconcile(r.cur, u, r.sched, blind, lag, grace) IN
       [r EXCEPT !.sched = seen.state, !.source = seen.source,
                 !.exec = IF Packed /\ r.cur # Outside
                            THEN UnitState(r.cur, u, seen.state, blind) ELSE seen.state]

\* A bug: a validation is kept when the output has changed.
KeepsPassed(u, r, blind) ==
  IF "filesystem" \in blind THEN [r EXCEPT !.art = "ERROR"]
  ELSE [r EXCEPT !.sig = out[u], !.art = IF out[u] = None THEN "MISSING" ELSE "PRESENT"]

\* A verified output that has changed is CHANGED, and its validation STALE.
ObserveArtifacts(u, r, blind) ==
  LET sig     == IF "filesystem" \in blind THEN r.sig ELSE out[u]
      changed == r.vsig # None /\ sig # r.vsig /\ r.val \in {"PASSED", "STALE"}
  IN  [r EXCEPT !.sig = sig,
                !.art = IF changed THEN "CHANGED"
                        ELSE IF "filesystem" \in blind THEN "ERROR"
                        ELSE IF out[u] = None THEN "MISSING" ELSE "PRESENT",
                !.val = IF changed THEN "STALE" ELSE r.val]

\* A pending authorization whose attempt is live again, or whose output is
\* valid, is void.
void_stale(r) == IF Pending(r) /\ ~retry_eligible(r) THEN [r EXCEPT !.auth = NoClaim] ELSE r

Refreshed(blind, lag, grace) ==
  LET seen == derive_dependencies([u \in Units |->
                ObserveArtifacts(u, ObserveExecution(u, snap.units[u], blind, lag, grace), blind)])
  IN  [life |-> snap.life, units |-> [u \in Units |-> void_stale(seen[u])]]

------------------------------------------------------------------------------
(* Commits *)

\* A bug: a draft survives the commits of others.
Survives(p) == p

\* A draft is worth nothing once the revision it was read at has gone.
Superseded(p) == [p EXCEPT !.draft = Absent]

Conflict(m) == proc[m].draft.life = "ABSENT"

\* m commits s, and goes on as p.
Replace(m, s, p) ==
  /\ snap' = s
  /\ proc' = [n \in Managers |-> IF n = m THEN p ELSE Superseded(proc[n])]

CommitDraft(m, p) == ~Conflict(m) /\ Replace(m, proc[m].draft, p)

Drafted(m, pc, s) == proc' = [proc EXCEPT ![m].pc = pc, ![m].draft = s]

Rest(m) == proc' = [proc EXCEPT ![m] = Resting]

Ask(m, op) ==
  /\ proc[m].pc = "idle"
  /\ asked[op] < campaign.limit[op]
  /\ asked' = [asked EXCEPT ![op] = @ + 1]

\* An operation that only reads and commits; on a conflict it changes nothing.
Amend(m, op, units) ==
  /\ Ask(m, op)
  /\ Replace(m, [snap EXCEPT !.units = units], Resting)

start(m) ==
  /\ Ask(m, "start")
  /\ snap.life = "ABSENT"
  /\ Replace(m, [life |-> "OPEN", units |-> [u \in Units |-> InitialUnit(u)]], Resting)
  /\ UNCHANGED <<campaign, granted, cluster>>

SetLife(m, op, life) ==
  /\ Ask(m, op)
  /\ Replace(m, [snap EXCEPT !.life = life], Resting)
  /\ UNCHANGED <<campaign, granted, cluster>>

\* allow_active hands over a run whose attempts are still active.
close(m) == snap.life = "OPEN" /\ SetLife(m, "close", "CLOSED")

archive(m) ==
  /\ snap.life = "CLOSED"
  /\ \A u \in Units : snap.units[u].exec \notin LIVE_EXECUTION
  /\ SetLife(m, "close", "ARCHIVED")

restore(m) == snap.life = "ARCHIVED" /\ SetLife(m, "close", "CLOSED")

\* An unbound unit is bound to a job that was submitted elsewhere.
adopt(m, u, state) ==
  /\ snap.life = "OPEN"
  /\ snap.units[u].tries = {}
  /\ Amend(m, "adopt", [snap.units EXCEPT ![u].exec = "UNKNOWN", ![u].cur = Outside,
                                          ![u].tries = {Outside}])
  /\ rows' = [rows EXCEPT ![<<Outside, u>>] = state]
  /\ UNCHANGED <<campaign, granted, ledger, bound, spent, marks, out, risked>>

\* One authorization for the eligible units selected, each with the attempt it
\* replaces; the duplicate risk is accepted where there is one.
retry(m, us) ==
  /\ snap.life = "OPEN"
  /\ us # {}
  /\ \A u \in us : retry_eligible(snap.units[u])
  /\ granted < MaxAuths
  /\ granted' = granted + 1
  /\ Amend(m, "retry", [u \in Units |->
       IF u \in us THEN [snap.units[u] EXCEPT !.auth = [id |-> granted + 1,
              prev |-> snap.units[u].cur, risk |-> duplicate_risk(snap.units[u])]]
       ELSE snap.units[u]])
  /\ UNCHANGED <<campaign, cluster>>

------------------------------------------------------------------------------
(* Operations that look at the cluster, or change it, before they commit *)

Observe(m, pc) ==
  /\ snap.life \notin {"ABSENT", "ARCHIVED"}
  /\ \E blind \in campaign.outages, lag, grace \in BOOLEAN : Drafted(m, pc, Refreshed(blind, lag, grace))
  /\ UNCHANGED <<campaign, snap, granted, cluster>>

StartRefresh(m) == Ask(m, "refresh") /\ Observe(m, "refresh")

\* Selected units are validated on the output they have, and a receipt stored.
Verified(u, r, verdict) ==
  [r EXCEPT !.sig = out[u], !.vsig = out[u],
            !.art = IF out[u] = None THEN "MISSING" ELSE "PRESENT",
            !.val = IF out[u] = None THEN "FAILED" ELSE verdict]

verify(m, us, verdict) ==
  /\ Ask(m, "verify")
  /\ snap.life \notin {"ABSENT", "ARCHIVED"}
  /\ us # {}
  /\ Drafted(m, "verify", [snap EXCEPT !.units = derive_dependencies([u \in Units |->
       IF u \in us THEN Verified(u, snap.units[u], verdict) ELSE snap.units[u]])])
  /\ UNCHANGED <<campaign, snap, granted, cluster>>

\* A refresh or a verification is recorded, or lost to a conflict.
CommitObserved(m) ==
  /\ proc[m].pc \in {"refresh", "verify", "cancel"}
  /\ CommitDraft(m, Resting) \/ (Conflict(m) /\ Rest(m) /\ UNCHANGED snap)
  /\ UNCHANGED <<campaign, asked, granted, cluster>>

Cancelled(r) == [r EXCEPT !.exec = "CANCELLED", !.sched = "CANCELLED", !.source = "scancel"]

\* The units that share an allocation are cancelled together.
Sharing(u) ==
  IF Packed /\ snap.units[u].cur # Outside
    THEN {v \in Units : snap.units[v].cur = snap.units[u].cur} ELSE {u}

\* Siblings that finished keep their state.
Affected(u) == {v \in Sharing(u) : snap.units[v].exec \in ACTIVE_EXECUTION}

\* The units whose rows are those of one job.
Together(a, u) == IF Packed /\ a # Outside THEN ledger[a].units ELSE {u}

\* scancel is sent; the job may be gone when it returns, or go on for a while.
cancel(m, u) ==
  /\ Ask(m, "cancel")
  /\ snap.life \in {"OPEN", "CLOSED"}
  /\ snap.units[u].exec \in ACTIVE_EXECUTION
  /\ HasJob(snap.units[u].cur)
  /\ Drafted(m, "cancel", [snap EXCEPT !.units = [v \in Units |->
       IF v \in Affected(u) THEN Cancelled(snap.units[v]) ELSE snap.units[v]]])
  /\ \/ UNCHANGED rows
     \/ rows' = [k \in DOMAIN rows |->
                   IF /\ k[1] = snap.units[u].cur
                      /\ k[2] \in Together(snap.units[u].cur, u)
                      /\ rows[k] \in {"PENDING", "RUNNING"} THEN "CANCELLED" ELSE rows[k]]
  /\ UNCHANGED <<campaign, snap, granted, ledger, bound, spent, marks, out, risked>>

------------------------------------------------------------------------------
(* apply: refresh, plan, submit group by group, merge *)

\* The run is looked at once before the refresh, with the selection.
StartApply(m, us) ==
  /\ Ask(m, "apply")
  /\ us # {}
  /\ snap.life = "OPEN"
  /\ proc' = [proc EXCEPT ![m].pc = "apply", ![m].sel = us]
  /\ UNCHANGED <<campaign, snap, granted, cluster>>

ObserveApply(m) == proc[m].pc = "apply" /\ Observe(m, "plan") /\ UNCHANGED asked

Submitting(m, groups) ==
  IF groups = {} THEN Resting ELSE [Resting EXCEPT !.pc = "ensure", !.todo = groups]

\* The plan is made on what was committed, or, after a conflict, on HEAD.
CommitAndPlan(m) ==
  /\ proc[m].pc = "plan"
  /\ \/ CommitDraft(m, Submitting(m, plan_job_groups(proc[m].draft, proc[m].sel)))
     \/ /\ Conflict(m)
        /\ proc' = [proc EXCEPT ![m] = Submitting(m, plan_job_groups(snap, proc[m].sel))]
        /\ UNCHANGED snap
  /\ UNCHANGED <<campaign, asked, granted, cluster>>

\* An attempt in doubt is searched by its marker, a new one submitted; the
\* worker may be interrupted before the outcome is written.
Outcomes(state) ==
  CASE state = "INTENDED"   -> {"INTENDED", "SUBMITTING", "ACCEPTED", "REJECTED", "UNKNOWN"}
    [] state = "SUBMITTING" -> {"SUBMITTING", "ACCEPTED", "UNKNOWN"}
    [] OTHER                -> {state}

Submitted(a) == \E u \in AllUnits : rows[<<a, u>>] # NoRow

\* Drive attempts as to the states given; a job may exist behind any of them.
DriveTo(book, driven, states) ==
  /\ \A a \in driven : /\ states[a] \in Outcomes(book[a].state)
                       /\ (book[a].state = "SUBMITTING" /\ states[a] = "ACCEPTED") => Submitted(a)
  /\ ledger' = [a \in Attempts |->
                  IF a \in driven THEN [book[a] EXCEPT !.state = states[a]] ELSE book[a]]
  /\ \E jobs \in SUBSET {a \in driven : book[a].state = "INTENDED"} :
       /\ \A a \in driven : book[a].state = "INTENDED" =>
            /\ states[a] = "ACCEPTED" => a \in jobs
            /\ states[a] \in {"INTENDED", "REJECTED"} => a \notin jobs
       /\ rows' = [k \in DOMAIN rows |->
                     IF k[1] \in jobs /\ k[2] \in book[k[1]].units THEN "PENDING" ELSE rows[k]]

\* The group's outcomes come back, or the request fails and apply with it.
Answered(m, g, driven) ==
  IF \E a \in driven : ledger'[a].state \in {"INTENDED", "SUBMITTING"} THEN Rest(m)
  ELSE proc' = [proc EXCEPT ![m].todo = @ \ {g},
                            ![m].got = @ \union driven,
                            ![m].pc = IF proc[m].todo = {g} THEN "merge" ELSE "ensure"]

Paid(g) == {spent[<<c.id, c.unit>>] : c \in g.claims} \ {None}

\* A group's current attempt is its last.
CurrentOf(a) == Max({b \in Attempts : ledger[b].units = ledger[a].units})

\* An adopted attempt has no reservation.
Matches(g) == \A c \in g.claims : bound[c.unit] = IF c.prev = Outside THEN None ELSE c.prev

Blocking(g) == {bound[u] : u \in g.units \ {c.unit : c \in g.claims}} \ {None}

Fresh(a) == ledger[a].state = "ABSENT" /\ \A b \in Attempts : b < a => ledger[b].state # "ABSENT"

\* A spent authorization, or an unclaimed reservation, leads to its attempts.
Follow(m, g, driven) ==
  /\ \E states \in [driven -> {"INTENDED", "SUBMITTING", "ACCEPTED", "REJECTED", "UNKNOWN"}] :
       DriveTo(ledger, driven, states)
  /\ Answered(m, g, driven)
  /\ UNCHANGED <<campaign, asked, snap, granted, bound, spent, marks, out, risked>>

Replay(m, g) ==
  /\ proc[m].pc = "ensure"
  /\ g \in proc[m].todo
  /\ Paid(g) # {}
  /\ Follow(m, g, {CurrentOf(a) : a \in Paid(g)})

Recover(m, g) ==
  /\ proc[m].pc = "ensure"
  /\ g \in proc[m].todo
  /\ Paid(g) = {}
  /\ Matches(g)
  /\ Blocking(g) # {}
  /\ Follow(m, g, {CurrentOf(a) : a \in Blocking(g)})

Intend(m, g, a) ==
  /\ proc[m].pc = "ensure"
  /\ g \in proc[m].todo
  /\ Paid(g) = {}
  /\ Matches(g)
  /\ Blocking(g) = {}
  /\ Fresh(a)
  /\ \E s \in {"INTENDED", "SUBMITTING", "ACCEPTED", "REJECTED", "UNKNOWN"} :
       DriveTo([ledger EXCEPT ![a] = [units |-> g.units, state |-> "INTENDED"]], {a}, [b \in {a} |-> s])
  /\ bound' = [u \in AllUnits |-> IF u \in g.units THEN a ELSE bound[u]]
  /\ spent' = [k \in DOMAIN spent |->
                 IF \E c \in g.claims : k = <<c.id, c.unit>> THEN a ELSE spent[k]]
  /\ risked' = risked \union {<<c.prev, c.unit>> : c \in {d \in g.claims : d.risk}}
  /\ Answered(m, g, {a})
  /\ UNCHANGED <<campaign, asked, snap, granted, marks, out>>

\* store_conflict: the claim names another attempt than the ledger has.
ClaimRefused(m, g) ==
  /\ proc[m].pc = "ensure"
  /\ g \in proc[m].todo
  /\ Paid(g) = {}
  /\ ~Matches(g)
  /\ Rest(m)
  /\ UNCHANGED <<campaign, asked, snap, granted, cluster>>

\* The history has it behind another, or the ledger has bound the unit since.
Historical(r, a, u) ==
  /\ r.cur \notin {None, a}
  /\ a \in r.tries \/ bound[u] # a

_attempt_state(state) ==
  CASE state = "ACCEPTED" -> "PENDING" [] state = "REJECTED" -> "FAILED" [] OTHER -> "UNKNOWN"

MergeNew(r, a) ==
  [r EXCEPT !.tries = @ \union {a}, !.cur = a, !.exec = _attempt_state(ledger[a].state),
            !.sched = NoRow, !.source = "none", !.auth = NoClaim]

MergeAgain(r, a) ==
  [r EXCEPT !.cur = a,
            !.exec = IF @ \in {"COMPLETED", "CANCELLED"} THEN @ ELSE _attempt_state(ledger[a].state)]

MergeUnit(r, a, u) ==
  IF Historical(r, a, u) THEN [r EXCEPT !.tries = @ \union {a}]
  ELSE IF a \in r.tries THEN MergeAgain(r, a) ELSE MergeNew(r, a)

\* Every unit is in the group of one outcome at most.
Merged(got) ==
  [snap EXCEPT !.units = derive_dependencies([u \in Units |->
     LET mine == {a \in got : u \in ledger[a].units}
     IN  IF mine = {} THEN snap.units[u] ELSE MergeUnit(snap.units[u], Max(mine), u)])]

HasNews(got) ==
  \E a \in got : \E u \in ledger[a].units : \/ a \notin snap.units[u].tries
                                            \/ Historical(snap.units[u], a, u)

\* The outcomes are merged into the snapshot of now; without news nothing is
\* committed, and after a conflict the merge starts again.
_merge_submission_outcomes(m) ==
  /\ proc[m].pc = "merge"
  /\ IF HasNews(proc[m].got) THEN Drafted(m, "merging", Merged(proc[m].got)) ELSE Rest(m)
  /\ UNCHANGED <<campaign, asked, snap, granted, cluster>>

CommitMerge(m) ==
  /\ proc[m].pc = "merging"
  /\ \/ CommitDraft(m, Resting)
     \/ Conflict(m) /\ proc' = [proc EXCEPT ![m].pc = "merge"] /\ UNCHANGED snap
  /\ UNCHANGED <<campaign, asked, granted, cluster>>

\* The process is killed, a call of it fails, or eight merges met a conflict.
Abort(m) ==
  /\ proc[m].pc # "idle"
  /\ Rest(m)
  /\ UNCHANGED <<campaign, asked, snap, granted, cluster>>

------------------------------------------------------------------------------
(* The cluster *)

RowsBecome(a, us, s) == rows' = [k \in DOMAIN rows |-> IF k[1] = a /\ k[2] \in us THEN s ELSE rows[k]]

JobStarts(a, u) ==
  /\ rows[<<a, u>>] = "PENDING"
  /\ RowsBecome(a, Together(a, u), "RUNNING")
  /\ UNCHANGED <<campaign, asked, snap, granted, proc, ledger, bound, spent, marks, out, risked>>

\* A successful unit has written its output.
Writes(a, u, ok) == out' = IF ok THEN [out EXCEPT ![u] = a] ELSE out

TaskEnds(a, u, s) ==
  /\ ~Packed \/ a = Outside
  /\ rows[<<a, u>>] = "RUNNING"
  /\ RowsBecome(a, {u}, s)
  /\ Writes(a, u, s = "COMPLETED")
  /\ UNCHANGED <<campaign, asked, snap, granted, proc, ledger, bound, spent, marks, risked>>

\* The wrapper of a packed unit records its start and its end.
UnitMarks(a, u, mark) ==
  /\ Packed
  /\ a # Outside
  /\ rows[<<a, u>>] = "RUNNING"
  /\ IF mark = "started" THEN marks[<<a, u>>] = NoRow ELSE marks[<<a, u>>] = "started"
  /\ marks' = [marks EXCEPT ![<<a, u>>] = mark]
  /\ Writes(a, u, mark = "ok")
  /\ UNCHANGED <<campaign, asked, snap, granted, proc, ledger, bound, spent, rows, risked>>

\* An allocation succeeds when its units did; it may be killed before.
AllocationEnds(a, s) ==
  /\ Packed
  /\ \E u \in ledger[a].units : rows[<<a, u>>] = "RUNNING"
  /\ s = "COMPLETED" => \A u \in ledger[a].units : marks[<<a, u>>] = "ok"
  /\ RowsBecome(a, ledger[a].units, s)
  /\ UNCHANGED <<campaign, asked, snap, granted, proc, ledger, bound, spent, marks, out, risked>>

\* An output is removed or overwritten behind everybody's back.
OutputChanges(u) ==
  /\ out[u] # None
  /\ asked["mutate"] < campaign.limit["mutate"]
  /\ asked' = [asked EXCEPT !["mutate"] = @ + 1]
  /\ out' = [out EXCEPT ![u] = None]
  /\ UNCHANGED <<campaign, snap, granted, proc, ledger, bound, spent, rows, marks, risked>>

ClusterStep ==
  \/ \E u \in Units : OutputChanges(u)
  \/ \E a \in Attempts \union {Outside} :
       \/ \E u \in Units : \/ JobStarts(a, u)
                           \/ \E s \in TerminalStates : TaskEnds(a, u, s)
                           \/ \E mark \in {"started", "ok", "bad"} : UnitMarks(a, u, mark)
       \/ a # Outside /\ \E s \in TerminalStates : AllocationEnds(a, s)

ManagerStep(m) ==
  \/ start(m) \/ close(m) \/ archive(m) \/ restore(m)
  \/ \E u \in Units : cancel(m, u) \/ \E s \in {"PENDING", "COMPLETED", "FAILED"} : adopt(m, u, s)
  \/ \E us \in SUBSET Units : \/ retry(m, us)
                              \/ StartApply(m, us)
                              \/ \E v \in {"PASSED", "FAILED", "ERROR"} : verify(m, us, v)
  \/ StartRefresh(m) \/ CommitObserved(m)
  \/ ObserveApply(m) \/ CommitAndPlan(m)
  \/ \E g \in proc[m].todo : \/ Replay(m, g) \/ Recover(m, g) \/ ClaimRefused(m, g)
                             \/ \E a \in Attempts : Intend(m, g, a)
  \/ _merge_submission_outcomes(m) \/ CommitMerge(m)
  \/ Abort(m)

Next == ClusterStep \/ \E m \in Managers : ManagerStep(m)

Spec == Init /\ [][Next]_vars

------------------------------------------------------------------------------
(* Properties *)

\* A unit's history only grows, and an attempt that another has replaced never
\* becomes the current one again, whatever order the processes merge their
\* outcomes and observations in: _merge_submission_outcomes and the
\* compare-and-swap of _commit_snapshot.
HistoryOnlyGrows ==
  [][snap.life # "ABSENT" => \A u \in Units :
       /\ snap.units[u].tries \subseteq snap'.units[u].tries
       /\ snap'.units[u].cur # snap.units[u].cur => snap'.units[u].cur \notin snap.units[u].tries]_vars

LiveFor(u) == {a \in Attempts : /\ rows[<<a, u>>] \in {"PENDING", "RUNNING"}
                                /\ marks[<<a, u>>] \notin {"ok", "bad"}}

\* Two attempts of a unit run together only when the operator accepted the
\* duplicate risk of the older one: what the evidence that retry and apply
\* act on (queue, accounting, markers, their own scancel) must guarantee,
\* however old it is and whichever sources were down.
NoUnsanctionedDuplicate ==
  \A u \in Units : \A a, b \in LiveFor(u) : a < b => <<a, u>> \in risked

\* A committed dependency is what the snapshot's other axes say, and a
\* validation that PASSED is of the output last observed: so a downstream unit
\* is never released by evidence the snapshot itself contradicts, although
\* cancel, retry and adopt commit without deriving the dependencies again.
GatesAreHonest ==
  snap.life # "ABSENT" =>
    /\ snap.units = derive_dependencies(snap.units)
    /\ \A u \in Units : snap.units[u].val = "PASSED" => snap.units[u].vsig = snap.units[u].sig

\* An attempt the ledger has reserved a unit for is in the snapshot, or an apply
\* planned from that snapshot leads to it, once nobody is under way.
ApplyRecovers ==
  (snap.life = "OPEN" /\ \A m \in Managers : proc[m].pc = "idle") =>
    \A u \in Units : \/ bound[u] = None
                     \/ bound[u] \in snap.units[u].tries
                     \/ snap.units[u].exec = "UNBOUND"
                     \/ Pending(snap.units[u]) /\ spent[<<snap.units[u].auth.id, u>>] # None
==============================================================================
