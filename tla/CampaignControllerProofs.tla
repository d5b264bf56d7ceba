----------------------- MODULE CampaignControllerProofs -----------------------
(***************************************************************************)
(* Whatever order controllers observe, retry, submit and merge in: a       *)
(* unit's history only grows, its gates follow from its other axes, and no *)
(* two attempts of it run together unless the operator accepted the risk.  *)
(***************************************************************************)
EXTENDS CampaignController, WellFoundedInduction, TLAPS

------------------------------------------------------------------------------
(* Types *)

Bindings  == Attempts \union {Outside}
Refs      == Bindings \union {None}
RowStates == {NoRow, "PENDING", "RUNNING"} \union TerminalStates
Lives     == {"OPEN", "CLOSED", "ARCHIVED"}
EntryStates == {"ABSENT", "INTENDED", "SUBMITTING", "ACCEPTED", "REJECTED", "UNKNOWN"}

UnitRecords ==
  [exec   : {"UNBOUND", "PENDING", "RUNNING", "UNKNOWN"} \union TerminalStates,
   sched  : RowStates \union {"UNKNOWN"},
   source : SCHEDULER_SOURCES \union {"none", "registry", "unknown", "scancel"},
   cur    : Refs,
   tries  : SUBSET Bindings,
   art    : {"UNCHECKED", "PRESENT", "MISSING", "ERROR", "CHANGED"},
   sig    : Refs,
   val    : {"NOT_RUN", "PASSED", "FAILED", "ERROR", "STALE"},
   vsig   : Refs,
   dep    : {"NOT_APPLICABLE", "BLOCKED", "SATISFIED"},
   auth   : [id : Auths \union {None}, prev : Refs, risk : BOOLEAN]]

Snapshots ==
  {Absent} \union [life : Lives, units : [Units -> UnitRecords]]

ClaimRecords ==
  [unit : Units, id : Auths, prev : Refs, risk : BOOLEAN]

Groups == [units : SUBSET Units, claims : SUBSET ClaimRecords]

Processes ==
  [pc    : {"idle", "refresh", "verify", "cancel", "apply", "plan", "ensure", "merge", "merging"},
   draft : Snapshots,
   sel   : SUBSET Units,
   todo  : SUBSET Groups,
   got   : SUBSET Attempts]

ClusterTyped ==
  /\ campaign \in Definitions
  /\ ledger \in [Attempts -> [units : SUBSET Units, state : EntryStates]]
  /\ bound \in [AllUnits -> Attempts \union {None}]
  /\ spent \in [Auths \X AllUnits -> Attempts \union {None}]
  /\ rows \in [Bindings \X AllUnits -> RowStates]
  /\ marks \in [Bindings \X AllUnits -> {NoRow, "started", "ok", "bad"}]
  /\ out \in [AllUnits -> Refs]

\* The snapshot, the processes and the cluster are of their types.
Typed ==
  /\ ClusterTyped
  /\ snap \in Snapshots
  /\ granted \in 0..MaxAuths
  /\ proc \in [Managers -> Processes]

------------------------------------------------------------------------------
(* The ledger *)

RowOver(a, u) == rows[<<a, u>>] \in TerminalStates

\* Attempt a of unit u will never run again.
Over(a, u) ==
  \/ RowOver(a, u)
  \/ marks[<<a, u>>] \in {"ok", "bad"}
  \/ a \in Attempts /\ ledger[a].state = "REJECTED"

\* Attempts are numbered in the order they are intended, the last of a unit is
\* the one it is reserved for, and rows are those of jobs that may exist.
LedgerInOrder ==
  \A a \in Attempts :
    /\ ledger[a].state = "ABSENT" => ledger[a].units = {}
    /\ \A b \in Attempts : b < a /\ ledger[a].state # "ABSENT" => ledger[b].state # "ABSENT"
    /\ \A u \in ledger[a].units : bound[u] # None /\ a <= bound[u]
    /\ \A u \in AllUnits :
         ledger[a].state \in {"ABSENT", "INTENDED", "REJECTED"} \/ u \notin ledger[a].units
           => rows[<<a, u>>] = NoRow
    /\ Packed => \A u, v \in ledger[a].units : rows[<<a, u>>] = rows[<<a, v>>]

\* What a unit is no longer reserved for is over, or was replaced at a risk.
ReplacedIsOver ==
  \A a \in Attempts : \A u \in ledger[a].units :
    a # bound[u] => Over(a, u) \/ <<a, u>> \in risked

------------------------------------------------------------------------------
(* What is written of a unit *)

SchedTold(r) ==
  \/ r.sched \in {"COMPLETED", "FAILED"}
  \/ r.sched = "CANCELLED" /\ r.source \in SCHEDULER_SOURCES

ClaimTrue(prev, risk, u) == ~risk /\ prev \in Attempts => Over(prev, u)

\* A record of unit u says that an attempt ended, and that replacing it is no
\* risk, only when it did end; and that a validation passed only of its output.
RecordTrue(r, u) ==
  /\ r.cur = None => r.tries = {} /\ r.exec = "UNBOUND" /\ r.sched = NoRow
  /\ r.cur # None => r.tries # {} /\ r.exec # "UNBOUND"
  /\ SchedTold(r) => RowOver(r.cur, u)
  /\ r.exec \in {"COMPLETED", "FAILED"} => Over(r.cur, u)
  /\ Pending(r) => r.auth.id \in Auths /\ ClaimTrue(r.auth.prev, r.auth.risk, u)
  /\ r.val = "PASSED" => r.vsig = r.sig /\ r.vsig # None

SnapTrue(s) ==
  s.life # "ABSENT" =>
    /\ s.units = derive_dependencies(s.units)
    /\ \A u \in Units : RecordTrue(s.units[u], u)

\* One record may follow another in the history of a unit.
Follows(old, new) ==
  /\ old.tries \subseteq new.tries
  /\ old.cur # new.cur => new.cur \notin old.tries

DraftTrue(d) ==
  d.life # "ABSENT" =>
    /\ d.life = snap.life
    /\ SnapTrue(d)
    /\ \A u \in Units : Follows(snap.units[u], d.units[u])

GroupTrue(g) == \A c \in g.claims : c.unit \in g.units /\ ClaimTrue(c.prev, c.risk, c.unit)

ProcTrue(p) ==
  /\ p.pc # "idle" => snap.life # "ABSENT"
  /\ DraftTrue(p.draft)
  /\ \A g \in p.todo : GroupTrue(g)

IndInv ==
  /\ Typed
  /\ LedgerInOrder
  /\ ReplacedIsOver
  /\ SnapTrue(snap)
  /\ \A m \in Managers : ProcTrue(proc[m])

USE CampaignControllerAssumption
USE DEF None

------------------------------------------------------------------------------
(* Greatest elements, and what a definition says *)

\* A set of numbers that is not empty has a least element.
LEMMA LeastElement ==
  ASSUME NEW T, T \subseteq Nat, T # {}
  PROVE  \E m \in T : \A k \in T : ~(k < m)
<1> DEFINE Less == OpToRel(<, Nat)
<1>1. IsWellFoundedOn(Less, Nat)
  BY NatLessThanWellFounded, Zenon
<1>2. \A k, m \in Nat : k < m => <<k, m>> \in Less
  BY Zenon DEF OpToRel
<1> HIDE DEF Less
<1>3. PICK m \in T : \A k \in T : ~(<<k, m>> \in Less)
  BY <1>1, WFMin
<1>4. QED
  BY <1>2, <1>3

\* Attempts have a last one.
LEMMA MaxIsLast ==
  ASSUME NEW S, S \subseteq Attempts, S # {}
  PROVE  Max(S) \in S
<1> DEFINE T == {MaxAttempts - a : a \in S}
<1>0. \A a \in S : a \in 1..MaxAttempts /\ MaxAttempts - a \in Nat
  BY DEF Attempts
<1>1. T \subseteq Nat /\ T # {}
  BY <1>0
<1>2. PICK m \in T : \A k \in T : ~(k < m)
  <2> HIDE DEF T
  <2>1. QED
    BY <1>1, LeastElement
<1>3. PICK last \in S : m = MaxAttempts - last
  OBVIOUS
<1>4. \A a \in S : last >= a
  <2> SUFFICES ASSUME NEW a \in S PROVE last >= a
    OBVIOUS
  <2>1. MaxAttempts - a \in T
    OBVIOUS
  <2>2. ~(MaxAttempts - a < MaxAttempts - last)
    BY <1>2, <1>3, <2>1
  <2> HIDE DEF T
  <2>3. QED
    BY <1>0, <2>2
<1>5. \E x \in S : \A y \in S : x >= y
  BY <1>4
<1>6. QED
  BY <1>5 DEF Max

\* The units a unit needs are units of the campaign.
LEMMA CampaignFacts ==
  ASSUME Typed
  PROVE  /\ campaign.needs \in [Units -> SUBSET Units]
         /\ campaign.require \in {"completed", "outputs_present", "verified"}
         /\ Units \subseteq AllUnits
BY DEF Typed, ClusterTyped, Units, AllUnits

\* The number of an adopted job is no attempt's.
LEMMA BindingFacts ==
  /\ None \notin Bindings /\ Outside \in Bindings /\ Outside \notin Attempts
  /\ Attempts \subseteq Bindings /\ Attempts \subseteq Nat
  /\ \A a \in Bindings : a = Outside \/ a \in Attempts
BY DEF Bindings, Attempts, Outside

------------------------------------------------------------------------------
(* derive_dependencies *)

\* Whether what unit u needs is there.
DepOf(units, u) ==
  IF campaign.needs[u] = {} THEN "NOT_APPLICABLE"
  ELSE IF \A v \in campaign.needs[u] : Accepted(units[v], campaign.require)
         THEN "SATISFIED" ELSE "BLOCKED"

SameButDep(r, x) ==
  /\ x.exec = r.exec /\ x.sched = r.sched /\ x.source = r.source /\ x.cur = r.cur
  /\ x.tries = r.tries /\ x.art = r.art /\ x.sig = r.sig /\ x.val = r.val
  /\ x.vsig = r.vsig /\ x.auth = r.auth

\* A record changed in its dependency alone.
LEMMA DepChanges ==
  ASSUME NEW r \in UnitRecords, NEW d \in {"NOT_APPLICABLE", "BLOCKED", "SATISFIED"}
  PROVE  /\ [r EXCEPT !.dep = d] \in UnitRecords
         /\ [r EXCEPT !.dep = d].dep = d
         /\ SameButDep(r, [r EXCEPT !.dep = d])
         /\ r.dep = d => [r EXCEPT !.dep = d] = r
BY DEF UnitRecords, SameButDep

\* The dependencies are computed from the other axes.
LEMMA DeriveIs ==
  ASSUME Typed, NEW units \in [Units -> UnitRecords]
  PROVE  /\ derive_dependencies(units) \in [Units -> UnitRecords]
         /\ \A u \in Units : derive_dependencies(units)[u] = [units[u] EXCEPT !.dep = DepOf(units, u)]
<1>1. derive_dependencies(units) = [u \in Units |-> [units[u] EXCEPT !.dep = DepOf(units, u)]]
  BY DEF derive_dependencies, DepOf
<1>2. \A u \in Units : [units[u] EXCEPT !.dep = DepOf(units, u)] \in UnitRecords
  <2> SUFFICES ASSUME NEW u \in Units PROVE [units[u] EXCEPT !.dep = DepOf(units, u)] \in UnitRecords
    OBVIOUS
  <2>1. DepOf(units, u) \in {"NOT_APPLICABLE", "BLOCKED", "SATISFIED"}
    BY DEF DepOf
  <2>2. QED
    BY <2>1, DepChanges
<1>3. QED
  BY <1>1, <1>2

\* Units whose dependencies are already what their axes say.
LEMMA DerivedStands ==
  ASSUME Typed, NEW units \in [Units -> UnitRecords], \A u \in Units : units[u].dep = DepOf(units, u)
  PROVE  units = derive_dependencies(units)
<1>1. \A u \in Units : [units[u] EXCEPT !.dep = DepOf(units, u)] = units[u]
  <2> SUFFICES ASSUME NEW u \in Units PROVE [units[u] EXCEPT !.dep = DepOf(units, u)] = units[u]
    OBVIOUS
  <2>1. PICK d \in {"NOT_APPLICABLE", "BLOCKED", "SATISFIED"} : d = DepOf(units, u)
    BY DEF DepOf
  <2>2. units[u] \in UnitRecords /\ units[u].dep = d
    BY <2>1
  <2>3. [units[u] EXCEPT !.dep = d] = units[u]
    BY <2>2, DepChanges
  <2>4. QED
    BY <2>1, <2>3
<1>2. derive_dependencies(units) = [u \in Units |-> units[u]]
  BY <1>1 DEF derive_dependencies, DepOf
<1>3. QED
  BY <1>2

\* Records that are accepted alike have the same dependents.
LEMMA SameDependents ==
  ASSUME Typed, NEW units, NEW new,
         \A u \in Units : Accepted(units[u], campaign.require) <=> Accepted(new[u], campaign.require)
  PROVE  \A u \in Units : DepOf(new, u) = DepOf(units, u)
<1>1. \A u \in Units : campaign.needs[u] \subseteq Units
  BY CampaignFacts
<1>2. QED
  BY <1>1 DEF DepOf

\* A change that leaves what is accepted alone leaves the dependencies right.
LEMMA DeriveSame ==
  ASSUME Typed, NEW units \in [Units -> UnitRecords], NEW new \in [Units -> UnitRecords],
         units = derive_dependencies(units),
         \A u \in Units : new[u].dep = units[u].dep,
         \A u \in Units : Accepted(units[u], campaign.require) <=> Accepted(new[u], campaign.require)
  PROVE  new = derive_dependencies(new)
<1>1. \A u \in Units : units[u].dep = DepOf(units, u)
  <2> SUFFICES ASSUME NEW u \in Units PROVE units[u].dep = DepOf(units, u)
    OBVIOUS
  <2>1. PICK d \in {"NOT_APPLICABLE", "BLOCKED", "SATISFIED"} : d = DepOf(units, u)
    BY DEF DepOf
  <2>2. units[u] = [units[u] EXCEPT !.dep = d]
    BY <2>1, DeriveIs, ZenonT(60)
  <2>3. [units[u] EXCEPT !.dep = d].dep = d
    BY DepChanges
  <2>4. QED
    BY <2>1, <2>2, <2>3
<1>2. \A u \in Units : DepOf(new, u) = DepOf(units, u)
  BY SameDependents
<1>3. QED
  BY <1>1, <1>2, DerivedStands

\* The dependencies are all that derive_dependencies changes.
LEMMA DeriveKeeps ==
  ASSUME Typed, NEW units \in [Units -> UnitRecords], NEW u \in Units
  PROVE  /\ SameButDep(units[u], derive_dependencies(units)[u])
         /\ derive_dependencies(units)[u].dep = DepOf(units, u)
<1>1. PICK d \in {"NOT_APPLICABLE", "BLOCKED", "SATISFIED"} : d = DepOf(units, u)
  BY DEF DepOf
<1>2. derive_dependencies(units)[u] = [units[u] EXCEPT !.dep = d] /\ units[u] \in UnitRecords
  BY <1>1, DeriveIs
<1>3. SameButDep(units[u], [units[u] EXCEPT !.dep = d])
  BY <1>2, DepChanges
<1>4. [units[u] EXCEPT !.dep = d].dep = d
  BY <1>2, DepChanges
<1>5. QED
  BY <1>1, <1>2, <1>3, <1>4

\* Derived once, the dependencies need not be derived again.
LEMMA DeriveTwice ==
  ASSUME Typed, NEW units \in [Units -> UnitRecords]
  PROVE  derive_dependencies(units) = derive_dependencies(derive_dependencies(units))
<1> DEFINE new == derive_dependencies(units)
<1>1. new \in [Units -> UnitRecords]
  BY DeriveIs
<1>2. \A u \in Units : new[u].dep = DepOf(units, u) /\ SameButDep(units[u], new[u])
  BY DeriveKeeps
<1> HIDE DEF new
<1>3. \A u \in Units : Accepted(units[u], campaign.require) <=> Accepted(new[u], campaign.require)
  BY <1>2, CampaignFacts DEF Accepted, SameButDep
<1>4. \A u \in Units : DepOf(new, u) = DepOf(units, u)
  BY <1>3, SameDependents
<1>5. new = derive_dependencies(new)
  BY <1>1, <1>2, <1>4, DerivedStands
<1>6. QED
  BY <1>5 DEF new

------------------------------------------------------------------------------
(* What is observed is true *)

\* A record without its dependency is as true, and as far in its history.
LEMMA SameIsTrue ==
  ASSUME NEW r, NEW x, NEW u, SameButDep(r, x), RecordTrue(r, u)
  PROVE  RecordTrue(x, u)
BY DEF SameButDep, RecordTrue, SchedTold, Pending

\* What squeue, sacct or the registry tell of a job.
LEMMA SeenIsTrue ==
  ASSUME Typed, NEW u \in Units, NEW r \in UnitRecords, RecordTrue(r, u), r.cur # None,
         NEW blind, NEW lag, NEW grace,
         NEW seen, seen = Reconcile(r.cur, u, r.sched, blind, lag, grace)
  PROVE  /\ seen.state \in (RowStates \ {NoRow}) \union {"UNKNOWN"}
         /\ seen.source \in SCHEDULER_SOURCES \union {"registry", "unknown"}
         /\ \/ seen.state \in {"COMPLETED", "FAILED"}
            \/ seen.state = "CANCELLED" /\ seen.source \in SCHEDULER_SOURCES
            => RowOver(r.cur, u)
<1> DEFINE row == rows[<<r.cur, u>>]
<1>1. r.cur \in Bindings /\ r.sched \in RowStates \union {"UNKNOWN"}
  BY DEF UnitRecords, Refs
<1>2. row \in RowStates
  BY <1>1, CampaignFacts DEF Typed, ClusterTyped
<1>3. r.sched \in {"COMPLETED", "FAILED"} => RowOver(r.cur, u)
  BY DEF RecordTrue, SchedTold
<1>4. row \in TerminalStates => RowOver(r.cur, u)
  BY DEF RowOver
<1>5. \/ seen = [state |-> row, source |-> "squeue"] /\ row \in {"PENDING", "RUNNING"}
      \/ seen = [state |-> row, source |-> "sacct"] /\ row # NoRow
      \/ seen = [state |-> r.sched, source |-> "registry"] /\ r.sched # NoRow
      \/ seen = [state |-> "UNKNOWN", source |-> "unknown"]
  BY DEF Reconcile
<1> HIDE DEF row
<1>6. CASE seen = [state |-> row, source |-> "squeue"] /\ row \in {"PENDING", "RUNNING"}
  <2>1. row # NoRow
    BY <1>6 DEF NoRow
  <2>2. QED
    BY <1>2, <1>4, <1>6, <2>1 DEF RowStates, TerminalStates, SCHEDULER_SOURCES
<1>7. CASE seen = [state |-> row, source |-> "sacct"] /\ row # NoRow
  BY <1>2, <1>4, <1>7 DEF RowStates, TerminalStates, SCHEDULER_SOURCES
<1>8. CASE seen = [state |-> r.sched, source |-> "registry"] /\ r.sched # NoRow
  BY <1>1, <1>3, <1>8 DEF RowStates, TerminalStates, SCHEDULER_SOURCES
<1>9. CASE seen = [state |-> "UNKNOWN", source |-> "unknown"]
  BY <1>9 DEF RowStates, SCHEDULER_SOURCES, NoRow
<1>10. QED
  BY <1>5, <1>6, <1>7, <1>8, <1>9

\* What the markers of a packed unit add to it.
LEMMA MarkedIsTrue ==
  ASSUME Typed, NEW u \in Units, NEW a \in Bindings, NEW blind,
         NEW state \in (RowStates \ {NoRow}) \union {"UNKNOWN"},
         state \in {"COMPLETED", "FAILED"} => Over(a, u)
  PROVE  /\ UnitState(a, u, state, blind) \in (RowStates \ {NoRow}) \union {"UNKNOWN"}
         /\ UnitState(a, u, state, blind) \in {"COMPLETED", "FAILED"} => Over(a, u)
<1> DEFINE mark == IF "markers" \in blind THEN "unread" ELSE marks[<<a, u>>]
<1>1. marks[<<a, u>>] \in {NoRow, "started", "ok", "bad"}
  BY CampaignFacts DEF Typed, ClusterTyped
<1>2. marks[<<a, u>>] \in {"ok", "bad"} => Over(a, u)
  BY DEF Over
<1>3. CASE mark = "unread"
  BY <1>3 DEF UnitState, NoRow
<1>4. CASE mark # "unread" /\ mark \in {"ok", "bad"}
  BY <1>2, <1>4 DEF UnitState, RowStates, NoRow, TerminalStates
<1>5. CASE mark # "unread" /\ mark \in {"started", NoRow}
  BY <1>5 DEF UnitState, RowStates, NoRow, TerminalStates
<1>6. QED
  BY <1>1, <1>3, <1>4, <1>5

\* A job's state, as observed.
LEMMA ExecutionIsTrue ==
  ASSUME Typed, NEW u \in Units, NEW r \in UnitRecords, RecordTrue(r, u), NEW blind, NEW lag, NEW grace,
         NEW x, x = ObserveExecution(u, r, blind, lag, grace)
  PROVE  x \in UnitRecords /\ RecordTrue(x, u) /\ x.tries = r.tries /\ x.cur = r.cur
<1>1. CASE ~HasJob(r.cur)
  BY <1>1 DEF ObserveExecution
<1>2. CASE HasJob(r.cur)
  <2>1. r.cur # None /\ r.cur \in Bindings
    BY <1>2, BindingFacts DEF HasJob, Bindings
  <2>2. PICK seen : seen = Reconcile(r.cur, u, r.sched, blind, lag, grace)
    OBVIOUS
  <2>3. /\ seen.state \in (RowStates \ {NoRow}) \union {"UNKNOWN"}
        /\ seen.source \in SCHEDULER_SOURCES \union {"registry", "unknown"}
        /\ \/ seen.state \in {"COMPLETED", "FAILED"}
           \/ seen.state = "CANCELLED" /\ seen.source \in SCHEDULER_SOURCES
           => RowOver(r.cur, u)
    BY <2>1, <2>2, SeenIsTrue
  <2>4. PICK e : e = IF Packed /\ r.cur # Outside
                       THEN UnitState(r.cur, u, seen.state, blind) ELSE seen.state
    OBVIOUS
  <2>5. seen.state \in {"COMPLETED", "FAILED"} => Over(r.cur, u)
    BY <2>3 DEF Over
  <2>6. /\ e \in (RowStates \ {NoRow}) \union {"UNKNOWN"}
        /\ e \in {"COMPLETED", "FAILED"} => Over(r.cur, u)
    BY <2>1, <2>3, <2>4, <2>5, MarkedIsTrue
  <2>7. x = [r EXCEPT !.sched = seen.state, !.source = seen.source, !.exec = e]
    BY <1>2, <2>2, <2>4 DEF ObserveExecution
  <2>8. x \in UnitRecords
    <3>1. /\ seen.state \in RowStates \union {"UNKNOWN"}
          /\ seen.source \in SCHEDULER_SOURCES \union {"none", "registry", "unknown", "scancel"}
          /\ e \in {"UNBOUND", "PENDING", "RUNNING", "UNKNOWN"} \union TerminalStates
      BY <2>3, <2>6 DEF RowStates
    <3>2. QED
      BY <2>7, <3>1 DEF UnitRecords
  <2>9. /\ x.sched = seen.state /\ x.source = seen.source /\ x.exec = e
        /\ x.cur = r.cur /\ x.tries = r.tries /\ x.auth = r.auth /\ x.val = r.val
        /\ x.vsig = r.vsig /\ x.sig = r.sig
    BY <2>7 DEF UnitRecords
  <2>10. e # "UNBOUND"
    BY <2>6 DEF RowStates, TerminalStates, NoRow
  <2>11. QED
    BY <2>1, <2>3, <2>6, <2>8, <2>10, <2>9 DEF RecordTrue, SchedTold, Pending
<1>3. QED
  BY <1>1, <1>2

\* What the outputs of a unit look like.
LEMMA ArtifactsAreTrue ==
  ASSUME Typed, NEW u \in Units, NEW r \in UnitRecords, RecordTrue(r, u), NEW blind,
         NEW x, x = ObserveArtifacts(u, r, blind)
  PROVE  x \in UnitRecords /\ RecordTrue(x, u) /\ x.tries = r.tries /\ x.cur = r.cur
<1>1. PICK sig : sig = IF "filesystem" \in blind THEN r.sig ELSE out[u]
  OBVIOUS
<1>2. sig \in Refs
  BY <1>1, CampaignFacts DEF UnitRecords, Typed, ClusterTyped
<1>3. PICK val : val = IF r.vsig # None /\ sig # r.vsig /\ r.val \in {"PASSED", "STALE"} THEN "STALE" ELSE r.val
  OBVIOUS
<1>4. PICK art \in {"PRESENT", "MISSING", "ERROR", "CHANGED"} : x = [r EXCEPT !.sig = sig, !.art = art, !.val = val]
  BY <1>1, <1>3 DEF ObserveArtifacts
<1>5. val \in {"NOT_RUN", "PASSED", "FAILED", "ERROR", "STALE"}
  BY <1>3 DEF UnitRecords
<1>6. x \in UnitRecords
  <2>1. art \in {"UNCHECKED", "PRESENT", "MISSING", "ERROR", "CHANGED"}
    OBVIOUS
  <2>2. QED
    BY <1>2, <1>4, <1>5, <2>1, ZenonT(60) DEF UnitRecords
<1>7. /\ x.sched = r.sched /\ x.source = r.source /\ x.exec = r.exec
      /\ x.cur = r.cur /\ x.tries = r.tries /\ x.auth = r.auth /\ x.val = val
      /\ x.vsig = r.vsig /\ x.sig = sig
  BY <1>4 DEF UnitRecords
<1>8. val = "PASSED" => r.val = "PASSED" /\ sig = r.vsig
  BY <1>3 DEF RecordTrue
<1>9. QED
  BY <1>7, <1>8, <1>6 DEF RecordTrue, SchedTold, Pending

\* Giving an authorization up leaves nothing to be true of it.
LEMMA VoidedIsTrue ==
  ASSUME NEW u \in Units, NEW r \in UnitRecords, RecordTrue(r, u), NEW x, x = void_stale(r)
  PROVE  /\ x \in UnitRecords /\ RecordTrue(x, u) /\ x.tries = r.tries /\ x.cur = r.cur
         /\ x.dep = r.dep /\ x.exec = r.exec /\ x.art = r.art /\ x.val = r.val
<1>1. CASE x = r
  BY <1>1
<1>2. CASE x = [r EXCEPT !.auth = NoClaim]
  <2>1. NoClaim \in [id : Auths \union {None}, prev : Refs, risk : BOOLEAN]
    BY DEF NoClaim, Refs
  <2>2. /\ x \in UnitRecords
        /\ x.sched = r.sched /\ x.source = r.source /\ x.exec = r.exec
        /\ x.cur = r.cur /\ x.tries = r.tries /\ x.auth = NoClaim /\ x.val = r.val
        /\ x.vsig = r.vsig /\ x.sig = r.sig /\ x.dep = r.dep /\ x.art = r.art
    BY <1>2, <2>1 DEF UnitRecords
  <2>3. QED
    BY <2>2 DEF RecordTrue, SchedTold, Pending
<1>3. QED
  BY <1>1, <1>2 DEF void_stale

\* A validation is of the output it looked at.
LEMMA VerifiedIsTrue ==
  ASSUME Typed, NEW u \in Units, NEW r \in UnitRecords, RecordTrue(r, u),
         NEW verdict \in {"PASSED", "FAILED", "ERROR"}, NEW x, x = Verified(u, r, verdict)
  PROVE  x \in UnitRecords /\ RecordTrue(x, u) /\ x.tries = r.tries /\ x.cur = r.cur
<1>1. PICK sig \in Refs : sig = out[u]
  BY CampaignFacts DEF Typed, ClusterTyped
<1>2. PICK val \in {"PASSED", "FAILED", "ERROR"} : val = IF sig = None THEN "FAILED" ELSE verdict
  OBVIOUS
<1>3. PICK art \in {"PRESENT", "MISSING"} : art = IF sig = None THEN "MISSING" ELSE "PRESENT"
  OBVIOUS
<1>4. x = [r EXCEPT !.sig = sig, !.vsig = sig, !.art = art, !.val = val]
  BY <1>1, <1>2, <1>3 DEF Verified
<1>5. x \in UnitRecords
  <2>1. /\ art \in {"UNCHECKED", "PRESENT", "MISSING", "ERROR", "CHANGED"}
        /\ val \in {"NOT_RUN", "PASSED", "FAILED", "ERROR", "STALE"}
    OBVIOUS
  <2>2. [r EXCEPT !.sig = sig, !.vsig = sig] \in UnitRecords
    BY DEF UnitRecords
  <2>3. PICK y \in UnitRecords : y = [r EXCEPT !.sig = sig, !.vsig = sig]
    BY <2>2
  <2>4. x = [y EXCEPT !.art = art, !.val = val]
    BY <1>4, <2>3
  <2>5. [y EXCEPT !.art = art] \in UnitRecords
    BY <2>1 DEF UnitRecords
  <2>6. PICK z \in UnitRecords : z = [y EXCEPT !.art = art]
    BY <2>5
  <2>7. [z EXCEPT !.val = val] \in UnitRecords
    BY <2>1 DEF UnitRecords
  <2>8. x = [z EXCEPT !.val = val]
    BY <2>4, <2>6
  <2>9. QED
    BY <2>7, <2>8
<1>6. /\ x.sched = r.sched /\ x.source = r.source /\ x.exec = r.exec
      /\ x.cur = r.cur /\ x.tries = r.tries /\ x.auth = r.auth /\ x.val = val
      /\ x.vsig = sig /\ x.sig = sig
  BY <1>4 DEF UnitRecords
<1>7. val = "PASSED" => sig # None
  BY <1>2
<1>8. QED
  BY <1>5, <1>6, <1>7 DEF RecordTrue, SchedTold, Pending

\* Our own scancel tells nothing of the job.
LEMMA CancelledIsTrue ==
  ASSUME NEW u \in Units, NEW r \in UnitRecords, RecordTrue(r, u), r.exec \in ACTIVE_EXECUTION,
         NEW x, x = Cancelled(r)
  PROVE  /\ x \in UnitRecords /\ RecordTrue(x, u) /\ x.tries = r.tries /\ x.cur = r.cur
         /\ x.dep = r.dep /\ x.exec = "CANCELLED" /\ x.art = r.art /\ x.val = r.val
<1>1. x = [r EXCEPT !.exec = "CANCELLED", !.sched = "CANCELLED", !.source = "scancel"]
  BY DEF Cancelled
<1>2. x \in UnitRecords
  BY <1>1 DEF UnitRecords, RowStates, TerminalStates
<1>3. /\ x.sched = "CANCELLED" /\ x.source = "scancel" /\ x.exec = "CANCELLED"
      /\ x.cur = r.cur /\ x.tries = r.tries /\ x.auth = r.auth /\ x.val = r.val
      /\ x.vsig = r.vsig /\ x.sig = r.sig /\ x.dep = r.dep /\ x.art = r.art
  BY <1>1 DEF UnitRecords
<1>4. r.exec # "UNBOUND"
  BY DEF ACTIVE_EXECUTION, LIVE_EXECUTION
<1>5. r.cur # None /\ "scancel" \notin SCHEDULER_SOURCES
  BY <1>4 DEF RecordTrue, SCHEDULER_SOURCES
<1>6. QED
  BY <1>2, <1>3, <1>5 DEF RecordTrue, SchedTold, Pending

\* An outcome joins a unit's history: behind the current attempt, or as it.
LEMMA MergedUnitIsTrue ==
  ASSUME Typed, NEW u \in Units, NEW r \in UnitRecords, RecordTrue(r, u), NEW a \in Attempts,
         NEW x, x = MergeUnit(r, a, u)
  PROVE  x \in UnitRecords /\ RecordTrue(x, u) /\ Follows(r, x)
<1> DEFINE e == _attempt_state(ledger[a].state)
<1>1. a \in Bindings /\ a \in Refs /\ a # None
  BY BindingFacts DEF Refs
<1>2. e \in {"PENDING", "FAILED", "UNKNOWN"} /\ (e = "FAILED" => Over(a, u))
  BY DEF _attempt_state, Over, Typed, ClusterTyped, EntryStates
<1> HIDE DEF e
<1>3. e \in {"UNBOUND", "PENDING", "RUNNING", "UNKNOWN"} \union TerminalStates
  BY <1>2 DEF TerminalStates
<1>4. r.tries \union {a} \in SUBSET Bindings
  BY <1>1 DEF UnitRecords
<1>5. CASE Historical(r, a, u)
  <2>1. x = [r EXCEPT !.tries = r.tries \union {a}] /\ r.cur # None
    BY <1>5 DEF MergeUnit, Historical
  <2>2. x \in UnitRecords
    BY <1>4, <2>1 DEF UnitRecords
  <2>3. /\ x.sched = r.sched /\ x.source = r.source /\ x.exec = r.exec
        /\ x.cur = r.cur /\ x.tries = r.tries \union {a} /\ x.auth = r.auth /\ x.val = r.val
        /\ x.vsig = r.vsig /\ x.sig = r.sig
    BY <2>1 DEF UnitRecords
  <2>4. QED
    BY <2>1, <2>2, <2>3 DEF RecordTrue, SchedTold, Pending, Follows
<1>6. CASE ~Historical(r, a, u) /\ a \in r.tries
  <2>1. PICK f : f = IF r.exec \in {"COMPLETED", "CANCELLED"} THEN r.exec ELSE e
    OBVIOUS
  <2>2. x = [r EXCEPT !.cur = a, !.exec = f]
    BY <1>6, <2>1 DEF MergeUnit, MergeAgain, e
  <2>3. r.cur = a
    BY <1>6 DEF Historical, RecordTrue
  <2>4. f \in {"UNBOUND", "PENDING", "RUNNING", "UNKNOWN"} \union TerminalStates
    BY <1>3, <2>1 DEF TerminalStates
  <2>5. x \in UnitRecords
    BY <1>1, <2>2, <2>4 DEF UnitRecords
  <2>6. /\ x.sched = r.sched /\ x.source = r.source /\ x.exec = f
        /\ x.cur = a /\ x.tries = r.tries /\ x.auth = r.auth /\ x.val = r.val
        /\ x.vsig = r.vsig /\ x.sig = r.sig
    BY <2>2 DEF UnitRecords
  <2>7. f # "UNBOUND" /\ (f \in {"COMPLETED", "FAILED"} => Over(a, u))
    BY <1>2, <2>1, <2>3 DEF RecordTrue
  <2>8. QED
    BY <1>1, <2>3, <2>5, <2>6, <2>7 DEF RecordTrue, SchedTold, Pending, Follows
<1>7. CASE ~Historical(r, a, u) /\ a \notin r.tries
  <2>1. x = [r EXCEPT !.tries = r.tries \union {a}, !.cur = a, !.exec = e,
                      !.sched = NoRow, !.source = "none", !.auth = NoClaim]
    BY <1>7 DEF MergeUnit, MergeNew, e
  <2>2. /\ NoRow \in RowStates \union {"UNKNOWN"}
        /\ NoClaim \in [id : Auths \union {None}, prev : Refs, risk : BOOLEAN]
    BY DEF NoClaim, RowStates, Refs
  <2>3. x \in UnitRecords
    BY <1>1, <1>3, <1>4, <2>1, <2>2, ZenonT(60) DEF UnitRecords
  <2>4. /\ x.sched = NoRow /\ x.exec = e /\ x.cur = a /\ x.tries = r.tries \union {a}
        /\ x.auth = NoClaim /\ x.val = r.val /\ x.vsig = r.vsig /\ x.sig = r.sig
    BY <2>1 DEF UnitRecords
  <2>5. ~SchedTold(x)
    BY <2>4 DEF SchedTold, NoRow
  <2>6. QED
    BY <1>1, <1>2, <1>7, <2>3, <2>4, <2>5 DEF RecordTrue, Pending, Follows
<1>8. QED
  BY <1>5, <1>6, <1>7

\* An authorization names the attempt it replaces, and accepts the risk there is.
LEMMA RetriedIsTrue ==
  ASSUME Typed, NEW u \in Units, NEW r \in UnitRecords, RecordTrue(r, u), retry_eligible(r),
         NEW id \in Auths,
         NEW x, x = [r EXCEPT !.auth = [id |-> id, prev |-> r.cur, risk |-> duplicate_risk(r)]]
  PROVE  /\ x \in UnitRecords /\ RecordTrue(x, u) /\ Follows(r, x)
         /\ x.dep = r.dep /\ x.exec = r.exec /\ x.art = r.art /\ x.val = r.val
<1>1. PICK risk \in BOOLEAN : risk = duplicate_risk(r)
  BY DEF duplicate_risk
<1>2. PICK c : c = [id |-> id, prev |-> r.cur, risk |-> risk]
  OBVIOUS
<1>3. c \in [id : Auths \union {None}, prev : Refs, risk : BOOLEAN]
  BY <1>2 DEF UnitRecords
<1>4. x = [r EXCEPT !.auth = c]
  BY <1>1, <1>2
<1>5. x \in UnitRecords
  BY <1>3, <1>4 DEF UnitRecords
<1>6. /\ x.sched = r.sched /\ x.source = r.source /\ x.exec = r.exec
      /\ x.cur = r.cur /\ x.tries = r.tries /\ x.auth = c /\ x.val = r.val
      /\ x.vsig = r.vsig /\ x.sig = r.sig /\ x.dep = r.dep /\ x.art = r.art
  BY <1>4 DEF UnitRecords
<1>7. ASSUME ~risk, r.cur \in Attempts PROVE Over(r.cur, u)
  <2>1. r.cur # None
    BY <1>7, BindingFacts
  <2>2. r.exec \in {"COMPLETED", "FAILED", "CANCELLED"}
    <3>1. r.exec # "UNBOUND" /\ r.exec # "UNKNOWN" /\ r.exec \notin {"PENDING", "RUNNING"}
      BY <1>1, <1>7, <2>1 DEF RecordTrue, duplicate_risk, retry_eligible, LIVE_EXECUTION
    <3>2. QED
      BY <3>1 DEF UnitRecords, TerminalStates
  <2>3. CASE r.exec \in {"COMPLETED", "FAILED"}
    BY <2>1, <2>3 DEF RecordTrue
  <2>4. CASE r.exec = "CANCELLED"
    <3>1. r.sched \in TerminalStates /\ r.source \in SCHEDULER_SOURCES
      BY <1>1, <1>7, <2>4 DEF duplicate_risk
    <3>2. SchedTold(r)
      BY <3>1 DEF SchedTold, TerminalStates
    <3>3. QED
      BY <2>1, <3>2 DEF RecordTrue, Over
  <2>5. QED
    BY <2>2, <2>3, <2>4
<1>8. ClaimTrue(c.prev, c.risk, u)
  BY <1>2, <1>7 DEF ClaimTrue
<1>9. QED
  BY <1>2, <1>5, <1>6, <1>8 DEF RecordTrue, SchedTold, Pending, Follows

Adopted(r) == [r EXCEPT !.exec = "UNKNOWN", !.cur = Outside, !.tries = {Outside}]

\* A unit that was never attempted becomes that of a job from elsewhere.
LEMMA AdoptedIsTrue ==
  ASSUME Typed, NEW u \in Units, NEW r \in UnitRecords, RecordTrue(r, u), r.tries = {},
         NEW x, x = Adopted(r)
  PROVE  /\ x \in UnitRecords /\ RecordTrue(x, u) /\ Follows(r, x)
         /\ x.dep = r.dep /\ r.exec = "UNBOUND" /\ x.exec = "UNKNOWN" /\ x.art = r.art /\ x.val = r.val
         /\ ~SchedTold(x) /\ x.exec \notin {"COMPLETED", "FAILED"}
<1>1. Outside \in Bindings /\ Outside \in Refs /\ Outside # None
  BY BindingFacts DEF Refs
<1>2. {Outside} \in SUBSET Bindings
  BY <1>1
<1>3. x \in UnitRecords
  BY <1>1, <1>2 DEF UnitRecords, Adopted
<1>4. /\ x.sched = r.sched /\ x.source = r.source /\ x.exec = "UNKNOWN"
      /\ x.cur = Outside /\ x.tries = {Outside} /\ x.auth = r.auth /\ x.val = r.val
      /\ x.vsig = r.vsig /\ x.sig = r.sig /\ x.dep = r.dep /\ x.art = r.art
  BY DEF UnitRecords, Adopted
<1>5. r.cur = None /\ r.exec = "UNBOUND" /\ r.sched = NoRow
  BY DEF RecordTrue
<1>6. ~SchedTold(x)
  BY <1>4, <1>5 DEF SchedTold, NoRow
<1>7. QED
  BY <1>1, <1>3, <1>4, <1>5, <1>6 DEF RecordTrue, Pending, Follows

------------------------------------------------------------------------------
(* Snapshots and drafts *)

\* A snapshot that exists has a record of every unit.
LEMMA SnapFacts ==
  ASSUME NEW s \in Snapshots, s.life # "ABSENT"
  PROVE  s.life \in Lives /\ s.units \in [Units -> UnitRecords] /\ s = [life |-> s.life, units |-> s.units]
BY DEF Snapshots, Absent

\* What stands when the records of a snapshot are replaced by true ones.
LEMMA NewRecords ==
  ASSUME Typed, snap.life # "ABSENT", NEW units \in [Units -> UnitRecords],
         units = derive_dependencies(units),
         \A u \in Units : RecordTrue(units[u], u) /\ Follows(snap.units[u], units[u]),
         NEW d, d = [life |-> snap.life, units |-> units]
  PROVE  d \in Snapshots /\ d.life = snap.life /\ DraftTrue(d) /\ SnapTrue(d)
<1>1. snap.life \in Lives
  BY SnapFacts DEF Typed, ClusterTyped
<1>2. d \in Snapshots
  BY <1>1 DEF Snapshots
<1>3. QED
  BY <1>2 DEF DraftTrue, SnapTrue

\* The records of the units are replaced and derived.
LEMMA DerivedRecords ==
  ASSUME Typed, snap.life # "ABSENT", NEW units \in [Units -> UnitRecords],
         \A u \in Units : RecordTrue(units[u], u) /\ Follows(snap.units[u], units[u]),
         NEW d, d = [life |-> snap.life, units |-> derive_dependencies(units)]
  PROVE  d \in Snapshots /\ d.life = snap.life /\ DraftTrue(d) /\ SnapTrue(d)
<1>1. PICK new : new = derive_dependencies(units)
  OBVIOUS
<1>2. new \in [Units -> UnitRecords] /\ new = derive_dependencies(new)
  BY <1>1, DeriveIs, DeriveTwice
<1>3. \A u \in Units : SameButDep(units[u], new[u])
  BY <1>1, DeriveKeeps
<1>4. \A u \in Units : RecordTrue(new[u], u) /\ Follows(snap.units[u], new[u])
  BY <1>3, SameIsTrue DEF SameButDep, Follows
<1>5. QED
  BY <1>1, <1>2, <1>4, NewRecords

\* A unit's record without its dependency: true, and no step back.
Succeeds(x, r, u) == x \in UnitRecords /\ RecordTrue(x, u) /\ Follows(r, x)

\* The draft of a refresh is true.
LEMMA RefreshedIsTrue ==
  ASSUME Typed, SnapTrue(snap), snap.life # "ABSENT", NEW blind, NEW lag, NEW grace,
         NEW d, d = Refreshed(blind, lag, grace)
  PROVE  d \in Snapshots /\ d.life = snap.life /\ DraftTrue(d)
<1> DEFINE Seen(u) == ObserveArtifacts(u, ObserveExecution(u, snap.units[u], blind, lag, grace), blind)
<1>1. snap.units \in [Units -> UnitRecords]
  BY SnapFacts DEF Typed, ClusterTyped
<1>2. \A u \in Units : Succeeds(Seen(u), snap.units[u], u)
  <2> SUFFICES ASSUME NEW u \in Units PROVE Succeeds(Seen(u), snap.units[u], u)
    OBVIOUS
  <2>1. PICK r \in UnitRecords : r = snap.units[u]
    BY <1>1
  <2>2. RecordTrue(r, u)
    BY <2>1 DEF SnapTrue
  <2>3. PICK x : x = ObserveExecution(u, r, blind, lag, grace)
    OBVIOUS
  <2>4. x \in UnitRecords /\ RecordTrue(x, u) /\ x.tries = r.tries /\ x.cur = r.cur
    BY <2>2, <2>3, ExecutionIsTrue
  <2>5. PICK y : y = ObserveArtifacts(u, x, blind)
    OBVIOUS
  <2>6. y \in UnitRecords /\ RecordTrue(y, u) /\ y.tries = x.tries /\ y.cur = x.cur
    BY <2>4, <2>5, ArtifactsAreTrue
  <2>7. Seen(u) = y
    BY <2>1, <2>3, <2>5
  <2> HIDE DEF Seen
  <2>8. QED
    BY <2>1, <2>4, <2>6, <2>7 DEF Succeeds, Follows
<1>3. PICK seen : seen = [u \in Units |-> Seen(u)]
  OBVIOUS
<1>4. PICK derived : derived = derive_dependencies(seen)
  OBVIOUS
<1>5. PICK new : new = [u \in Units |-> void_stale(derived[u])]
  OBVIOUS
<1>6. d = [life |-> snap.life, units |-> new]
  BY <1>3, <1>4, <1>5 DEF Refreshed
<1> HIDE DEF Seen
<1>7. seen \in [Units -> UnitRecords]
  BY <1>2, <1>3 DEF Succeeds
<1>8. derived \in [Units -> UnitRecords] /\ derived = derive_dependencies(derived)
  BY <1>4, <1>7, DeriveIs, DeriveTwice
<1>9. \A u \in Units : Succeeds(derived[u], snap.units[u], u)
  <2> SUFFICES ASSUME NEW u \in Units PROVE Succeeds(derived[u], snap.units[u], u)
    OBVIOUS
  <2>1. SameButDep(seen[u], derived[u])
    BY <1>4, <1>7, DeriveKeeps
  <2>2. Succeeds(seen[u], snap.units[u], u)
    BY <1>2, <1>3
  <2>3. QED
    BY <1>8, <2>1, <2>2, SameIsTrue DEF Succeeds, SameButDep, Follows
<1>10. \A u \in Units : /\ Succeeds(new[u], snap.units[u], u)
                        /\ new[u].dep = derived[u].dep /\ new[u].exec = derived[u].exec
                        /\ new[u].art = derived[u].art /\ new[u].val = derived[u].val
  <2> SUFFICES ASSUME NEW u \in Units
               PROVE  /\ Succeeds(new[u], snap.units[u], u)
                      /\ new[u].dep = derived[u].dep /\ new[u].exec = derived[u].exec
                      /\ new[u].art = derived[u].art /\ new[u].val = derived[u].val
    OBVIOUS
  <2>1. PICK r \in UnitRecords : r = derived[u]
    BY <1>8
  <2>2. RecordTrue(r, u) /\ Follows(snap.units[u], r)
    BY <1>9, <2>1 DEF Succeeds
  <2>3. PICK x : x = void_stale(r)
    OBVIOUS
  <2>4. /\ x \in UnitRecords /\ RecordTrue(x, u) /\ x.tries = r.tries /\ x.cur = r.cur
        /\ x.dep = r.dep /\ x.exec = r.exec /\ x.art = r.art /\ x.val = r.val
    BY <2>2, <2>3, VoidedIsTrue
  <2>5. new[u] = x
    BY <1>5, <2>1, <2>3
  <2>6. QED
    BY <2>1, <2>2, <2>4, <2>5 DEF Succeeds, Follows
<1>11. new \in [Units -> UnitRecords]
  BY <1>5, <1>10 DEF Succeeds
<1>12. new = derive_dependencies(new)
  <2>1. \A u \in Units : Accepted(derived[u], campaign.require) <=> Accepted(new[u], campaign.require)
    BY <1>10, CampaignFacts DEF Accepted
  <2>2. QED
    BY <1>8, <1>10, <1>11, <2>1, DeriveSame
<1>13. QED
  BY <1>6, <1>10, <1>11, <1>12, NewRecords DEF Succeeds

\* The draft of a verification is true.
LEMMA VerifyIsTrue ==
  ASSUME Typed, SnapTrue(snap), snap.life # "ABSENT", NEW us,
         NEW verdict \in {"PASSED", "FAILED", "ERROR"},
         NEW d, d = [snap EXCEPT !.units = derive_dependencies([u \in Units |->
                       IF u \in us THEN Verified(u, snap.units[u], verdict) ELSE snap.units[u]])]
  PROVE  d \in Snapshots /\ d.life = snap.life /\ DraftTrue(d)
<1>1. snap.units \in [Units -> UnitRecords] /\ snap = [life |-> snap.life, units |-> snap.units]
  BY SnapFacts DEF Typed, ClusterTyped
<1>2. PICK new : new = [u \in Units |->
                          IF u \in us THEN Verified(u, snap.units[u], verdict) ELSE snap.units[u]]
  OBVIOUS
<1>3. \A u \in Units : Succeeds(new[u], snap.units[u], u)
  <2> SUFFICES ASSUME NEW u \in Units PROVE Succeeds(new[u], snap.units[u], u)
    OBVIOUS
  <2>1. PICK r \in UnitRecords : r = snap.units[u]
    BY <1>1
  <2>2. RecordTrue(r, u)
    BY <2>1 DEF SnapTrue
  <2>3. PICK x : x = Verified(u, r, verdict)
    OBVIOUS
  <2>4. x \in UnitRecords /\ RecordTrue(x, u) /\ x.tries = r.tries /\ x.cur = r.cur
    BY <2>2, <2>3, VerifiedIsTrue
  <2>5. new[u] \in {r, x}
    BY <1>2, <2>1, <2>3
  <2>6. QED
    BY <2>1, <2>2, <2>4, <2>5 DEF Succeeds, Follows
<1>4. new \in [Units -> UnitRecords]
  BY <1>2, <1>3 DEF Succeeds
<1>5. d = [life |-> snap.life, units |-> derive_dependencies(new)]
  BY <1>1, <1>2
<1>6. QED
  BY <1>3, <1>4, <1>5, DerivedRecords DEF Succeeds

\* The draft of a cancellation is true, its gates unmoved.
LEMMA CancelIsTrue ==
  ASSUME Typed, SnapTrue(snap), snap.life # "ABSENT", NEW affected,
         \A u \in affected : snap.units[u].exec \in ACTIVE_EXECUTION,
         NEW d, d = [snap EXCEPT !.units = [v \in Units |->
                       IF v \in affected THEN Cancelled(snap.units[v]) ELSE snap.units[v]]]
  PROVE  d \in Snapshots /\ d.life = snap.life /\ DraftTrue(d)
<1>1. snap.units \in [Units -> UnitRecords] /\ snap = [life |-> snap.life, units |-> snap.units]
  BY SnapFacts DEF Typed, ClusterTyped
<1>2. PICK new : new = [v \in Units |->
                          IF v \in affected THEN Cancelled(snap.units[v]) ELSE snap.units[v]]
  OBVIOUS
<1>3. \A u \in Units : /\ Succeeds(new[u], snap.units[u], u)
                       /\ new[u].dep = snap.units[u].dep
                       /\ new[u].art = snap.units[u].art /\ new[u].val = snap.units[u].val
                       /\ new[u].exec = "COMPLETED" <=> snap.units[u].exec = "COMPLETED"
  <2> SUFFICES ASSUME NEW u \in Units
               PROVE  /\ Succeeds(new[u], snap.units[u], u)
                      /\ new[u].dep = snap.units[u].dep
                      /\ new[u].art = snap.units[u].art /\ new[u].val = snap.units[u].val
                      /\ new[u].exec = "COMPLETED" <=> snap.units[u].exec = "COMPLETED"
    OBVIOUS
  <2>1. PICK r \in UnitRecords : r = snap.units[u]
    BY <1>1
  <2>2. RecordTrue(r, u)
    BY <2>1 DEF SnapTrue
  <2>3. CASE u \notin affected
    BY <1>2, <2>1, <2>2, <2>3 DEF Succeeds, Follows
  <2>4. CASE u \in affected
    <3>1. PICK x : x = Cancelled(r)
      OBVIOUS
    <3>2. r.exec \in ACTIVE_EXECUTION
      BY <2>1, <2>4
    <3>3. /\ x \in UnitRecords /\ RecordTrue(x, u) /\ x.tries = r.tries /\ x.cur = r.cur
          /\ x.dep = r.dep /\ x.exec = "CANCELLED" /\ x.art = r.art /\ x.val = r.val
      BY <2>2, <3>1, <3>2, CancelledIsTrue
    <3>4. new[u] = x
      BY <1>2, <2>1, <2>4, <3>1
    <3>5. r.exec # "COMPLETED"
      BY <3>2 DEF ACTIVE_EXECUTION, LIVE_EXECUTION
    <3>6. QED
      BY <2>1, <3>3, <3>4, <3>5 DEF Succeeds, Follows
  <2>5. QED
    BY <2>3, <2>4
<1>4. new \in [Units -> UnitRecords]
  BY <1>2, <1>3 DEF Succeeds
<1>5. d = [life |-> snap.life, units |-> new]
  BY <1>1, <1>2
<1>6. \A u \in Units : Accepted(snap.units[u], campaign.require) <=> Accepted(new[u], campaign.require)
  BY <1>3, CampaignFacts DEF Accepted
<1>7. snap.units = derive_dependencies(snap.units)
  BY DEF SnapTrue
<1>8. new = derive_dependencies(new)
  BY <1>1, <1>3, <1>4, <1>6, <1>7, DeriveSame
<1>9. QED
  BY <1>3, <1>4, <1>5, <1>8, NewRecords DEF Succeeds

\* The draft of a merge is true.
LEMMA MergedIsTrue ==
  ASSUME Typed, SnapTrue(snap), snap.life # "ABSENT", NEW got, got \subseteq Attempts,
         NEW d, d = Merged(got)
  PROVE  d \in Snapshots /\ d.life = snap.life /\ DraftTrue(d)
<1> DEFINE Mine(u) == {a \in got : u \in ledger[a].units}
<1>1. snap.units \in [Units -> UnitRecords] /\ snap = [life |-> snap.life, units |-> snap.units]
  BY SnapFacts DEF Typed, ClusterTyped
<1>2. PICK new : new = [u \in Units |-> IF Mine(u) = {} THEN snap.units[u]
                                        ELSE MergeUnit(snap.units[u], Max(Mine(u)), u)]
  OBVIOUS
<1>3. d = [snap EXCEPT !.units = derive_dependencies(new)]
  BY <1>2 DEF Merged
<1>4. \A u \in Units : Succeeds(new[u], snap.units[u], u)
  <2> SUFFICES ASSUME NEW u \in Units PROVE Succeeds(new[u], snap.units[u], u)
    OBVIOUS
  <2>1. PICK r \in UnitRecords : r = snap.units[u]
    BY <1>1
  <2>2. RecordTrue(r, u)
    BY <2>1 DEF SnapTrue
  <2>3. CASE Mine(u) = {}
    BY <1>2, <2>1, <2>2, <2>3 DEF Succeeds, Follows
  <2>4. CASE Mine(u) # {}
    <3>1. PICK a : a = Max(Mine(u))
      OBVIOUS
    <3>2. a \in Attempts
      <4>1. Mine(u) \subseteq Attempts
        OBVIOUS
      <4> HIDE DEF Mine
      <4>2. QED
        BY <2>4, <3>1, <4>1, MaxIsLast
    <3>3. PICK x : x = MergeUnit(r, a, u)
      OBVIOUS
    <3>4. x \in UnitRecords /\ RecordTrue(x, u) /\ Follows(r, x)
      BY <2>2, <3>2, <3>3, MergedUnitIsTrue
    <3>5. new[u] = x
      BY <1>2, <2>1, <2>4, <3>1, <3>3
    <3>6. QED
      BY <2>1, <3>4, <3>5 DEF Succeeds
  <2>5. QED
    BY <2>3, <2>4
<1>5. new \in [Units -> UnitRecords]
  BY <1>2, <1>4 DEF Succeeds
<1>6. d = [life |-> snap.life, units |-> derive_dependencies(new)]
  BY <1>1, <1>3
<1>7. QED
  BY <1>4, <1>5, <1>6, DerivedRecords DEF Succeeds

\* A plan claims what the snapshot it is made from authorizes.
LEMMA PlanIsTrue ==
  ASSUME Typed, NEW s \in Snapshots, s.life # "ABSENT", SnapTrue(s), NEW sel, NEW g \in plan_job_groups(s, sel)
  PROVE  g \in Groups /\ GroupTrue(g)
<1>1. s.units \in [Units -> UnitRecords]
  BY SnapFacts
<1>2. PICK us : us \subseteq Ready(s, sel) /\ g = [units |-> us, claims |-> Claims(s, us)]
  BY DEF plan_job_groups
<1>3. us \subseteq Units
  BY <1>2 DEF Ready
<1>4. ASSUME NEW c \in Claims(s, us)
      PROVE  c \in ClaimRecords /\ c.unit \in us /\ ClaimTrue(c.prev, c.risk, c.unit)
  <2>1. PICK u \in us : /\ Pending(s.units[u])
                        /\ c = [unit |-> u, id |-> s.units[u].auth.id, prev |-> s.units[u].auth.prev,
                                risk |-> s.units[u].auth.risk]
    BY DEF Claims
  <2>2. PICK r \in UnitRecords : r = s.units[u]
    BY <1>1, <1>3
  <2>3. r.auth.id \in Auths /\ ClaimTrue(r.auth.prev, r.auth.risk, u)
    BY <1>3, <2>1, <2>2 DEF SnapTrue, RecordTrue
  <2>4. r.auth.prev \in Refs /\ r.auth.risk \in BOOLEAN
    BY DEF UnitRecords
  <2>5. QED
    BY <1>3, <2>1, <2>2, <2>3, <2>4 DEF ClaimRecords
<1>5. Claims(s, us) \subseteq ClaimRecords
  BY <1>4
<1>6. QED
  BY <1>2, <1>3, <1>4, <1>5 DEF Groups, GroupTrue

------------------------------------------------------------------------------
(* What is over stays so *)

\* The jobs and the marks of the attempts in A that are over remain over.
EndsStay(A) ==
  /\ campaign' = campaign
  /\ \A a \in A, u \in Units : (RowOver(a, u) => RowOver(a, u)') /\ (Over(a, u) => Over(a, u)')

\* What was true of a unit remains true of it.
LEMMA RecordStays ==
  ASSUME EndsStay(Bindings), NEW u \in Units, NEW r \in UnitRecords, RecordTrue(r, u)
  PROVE  RecordTrue(r, u)'
<1>1. r.cur \in Bindings \/ r.cur = None
  BY DEF UnitRecords, Refs
<1>2. SchedTold(r) => r.cur # None
  BY DEF RecordTrue, SchedTold, NoRow
<1>3. r.exec \in {"COMPLETED", "FAILED"} => r.cur # None
  BY DEF RecordTrue
<1>4. SchedTold(r) => RowOver(r.cur, u)'
  BY <1>1, <1>2 DEF RecordTrue, EndsStay
<1>5. r.exec \in {"COMPLETED", "FAILED"} => Over(r.cur, u)'
  BY <1>1, <1>3 DEF RecordTrue, EndsStay
<1>6. ClaimTrue(r.auth.prev, r.auth.risk, u) => ClaimTrue(r.auth.prev, r.auth.risk, u)'
  BY BindingFacts DEF ClaimTrue, EndsStay
<1>7. QED
  BY <1>4, <1>5, <1>6 DEF RecordTrue, Pending, SchedTold

\* What was true of a snapshot or a draft remains true of it.
LEMMA SnapStays ==
  ASSUME EndsStay(Bindings), NEW s \in Snapshots, SnapTrue(s)
  PROVE  SnapTrue(s)'
<1>1. Units' = Units /\ campaign' = campaign
  BY DEF Units, EndsStay
<1>2. SUFFICES ASSUME s.life # "ABSENT"
               PROVE  s.units = derive_dependencies(s.units)' /\ \A u \in Units : RecordTrue(s.units[u], u)'
  BY <1>1 DEF SnapTrue
<1>3. s.units \in [Units -> UnitRecords]
  BY <1>2, SnapFacts
<1>4. derive_dependencies(s.units)' = derive_dependencies(s.units)
  BY <1>1 DEF derive_dependencies
<1>5. \A u \in Units : RecordTrue(s.units[u], u)'
  BY <1>2, <1>3, RecordStays DEF SnapTrue
<1>6. QED
  BY <1>2, <1>4, <1>5 DEF SnapTrue

\* A plan's claims speak of attempts alone.
LEMMA GroupStays ==
  ASSUME EndsStay(Attempts), NEW g \in Groups, GroupTrue(g)
  PROVE  GroupTrue(g)'
<1>1. \A c \in g.claims : c.unit \in Units
  BY DEF Groups, ClaimRecords
<1>2. \A c \in g.claims : ClaimTrue(c.prev, c.risk, c.unit) => ClaimTrue(c.prev, c.risk, c.unit)'
  BY <1>1 DEF ClaimTrue, EndsStay
<1>3. QED
  BY <1>2 DEF GroupTrue

\* As long as nobody commits, a process has what it had.
LEMMA ProcStays ==
  ASSUME EndsStay(Bindings), snap' = snap, NEW p \in Processes, ProcTrue(p)
  PROVE  ProcTrue(p)'
<1>1. p.draft \in Snapshots /\ p.todo \subseteq Groups
  BY DEF Processes
<1>2. \A g \in p.todo : GroupTrue(g)'
  <2>1. EndsStay(Attempts)
    BY BindingFacts DEF EndsStay
  <2>2. QED
    BY <1>1, <2>1, GroupStays DEF ProcTrue
<1>3. DraftTrue(p.draft)'
  <2>1. p.draft.life # "ABSENT" => SnapTrue(p.draft)'
    BY <1>1, SnapStays DEF ProcTrue, DraftTrue
  <2>2. Units' = Units
    BY DEF Units, EndsStay
  <2>3. QED
    BY <2>1, <2>2 DEF ProcTrue, DraftTrue, Follows
<1>4. QED
  BY <1>2, <1>3 DEF ProcTrue

\* Whoever commits, the others lose their drafts and keep their plans.
LEMMA SupersededStays ==
  ASSUME EndsStay(Attempts), snap'.life # "ABSENT", NEW p \in Processes, ProcTrue(p)
  PROVE  Superseded(p) \in Processes /\ ProcTrue(Superseded(p))'
<1>1. Superseded(p) \in Processes
  <2>1. Absent \in Snapshots
    BY DEF Snapshots
  <2>2. QED
    BY <2>1 DEF Superseded, Processes
<1>2. /\ Superseded(p).draft = Absent /\ Superseded(p).todo = p.todo /\ Superseded(p).pc = p.pc
  BY DEF Superseded, Processes
<1>3. p.todo \subseteq Groups
  BY DEF Processes
<1>4. \A g \in p.todo : GroupTrue(g)'
  BY <1>3, GroupStays DEF ProcTrue
<1>5. QED
  BY <1>1, <1>2, <1>4 DEF ProcTrue, DraftTrue, Absent

------------------------------------------------------------------------------
(* The cluster and the ledger *)

\* The cluster is in order after a step, and what was over still is.
ClusterKept ==
  /\ EndsStay(Bindings)
  /\ ClusterTyped'
  /\ LedgerInOrder'
  /\ ReplacedIsOver'

ClusterInv == ClusterTyped /\ LedgerInOrder /\ ReplacedIsOver

\* The units of a campaign are among all.
LEMMA UnitFacts == ClusterTyped => Units \subseteq AllUnits
BY DEF ClusterTyped, Units, AllUnits

\* A step that leaves the cluster alone.
LEMMA ClusterRests ==
  ASSUME ClusterInv, campaign' = campaign, UNCHANGED cluster
  PROVE  ClusterKept
<1> USE DEF cluster
<1>1. Units' = Units /\ (Packed <=> Packed')
  BY DEF Units, Packed
<1>2. EndsStay(Bindings)
  BY DEF EndsStay, Over, RowOver
<1>3. ClusterTyped'
  BY <1>1 DEF ClusterInv, ClusterTyped
<1>4. LedgerInOrder' /\ ReplacedIsOver'
  BY <1>1 DEF ClusterInv, LedgerInOrder, ReplacedIsOver, Over, RowOver
<1>5. QED
  BY <1>2, <1>3, <1>4 DEF ClusterKept

\* Rows of jobs that exist move on, those of an allocation together.
LEMMA RowsMove ==
  ASSUME ClusterInv, NEW a \in Bindings, NEW us, us \subseteq Units,
         NEW st \in {"RUNNING"} \union TerminalStates,
         rows' = [k \in DOMAIN rows |-> IF k[1] = a /\ k[2] \in us THEN st ELSE rows[k]],
         \A u \in us : rows[<<a, u>>] \in {"PENDING", "RUNNING"},
         Packed /\ a \in Attempts /\ us # {} => us = ledger[a].units,
         UNCHANGED <<campaign, ledger, bound, spent, marks, risked>>,
         out' \in [AllUnits -> Refs]
  PROVE  ClusterKept
<1>1. Units' = Units /\ (Packed <=> Packed') /\ Units \subseteq AllUnits
  BY UnitFacts DEF Units, Packed, ClusterInv
<1>2. \A b \in Bindings, u \in AllUnits : rows'[<<b, u>>] = IF b = a /\ u \in us THEN st ELSE rows[<<b, u>>]
  BY DEF ClusterInv, ClusterTyped
<1>3. rows' \in [Bindings \X AllUnits -> RowStates]
  <2>1. DOMAIN rows = Bindings \X AllUnits /\ \A k \in DOMAIN rows : rows[k] \in RowStates
    BY DEF ClusterInv, ClusterTyped
  <2>2. st \in RowStates
    BY DEF RowStates
  <2>3. QED
    BY <2>1, <2>2
<1>4. \A b \in Bindings, u \in Units : RowOver(b, u) => RowOver(b, u)'
  BY <1>1, <1>2 DEF RowOver, TerminalStates
<1>5. \A b \in Bindings, u \in Units : Over(b, u) => Over(b, u)'
  BY <1>4 DEF Over
<1>6. EndsStay(Bindings)
  BY <1>4, <1>5 DEF EndsStay
<1>7. ClusterTyped'
  BY <1>1, <1>3 DEF ClusterInv, ClusterTyped
<1>8. \A u \in us : a \in Attempts => /\ ledger[a].state \notin {"ABSENT", "INTENDED", "REJECTED"}
                                      /\ u \in ledger[a].units
  <2> SUFFICES ASSUME NEW u \in us, a \in Attempts
               PROVE  /\ ledger[a].state \notin {"ABSENT", "INTENDED", "REJECTED"}
                      /\ u \in ledger[a].units
    OBVIOUS
  <2>1. rows[<<a, u>>] # NoRow
    BY DEF NoRow
  <2>2. QED
    BY <1>1, <2>1 DEF ClusterInv, LedgerInOrder
<1>9. \A b \in Attempts : ledger[b].units \subseteq AllUnits
  BY <1>1 DEF ClusterInv, ClusterTyped
<1>10. LedgerInOrder'
  <2> SUFFICES ASSUME NEW b \in Attempts
               PROVE  /\ ledger[b].state = "ABSENT" => ledger[b].units = {}
                      /\ \A c \in Attempts : c < b /\ ledger[b].state # "ABSENT" => ledger[c].state # "ABSENT"
                      /\ \A u \in ledger[b].units : bound[u] # None /\ b <= bound[u]
                      /\ \A u \in AllUnits :
                           ledger[b].state \in {"ABSENT", "INTENDED", "REJECTED"} \/ u \notin ledger[b].units
                             => rows'[<<b, u>>] = NoRow
                      /\ Packed => \A u, v \in ledger[b].units : rows'[<<b, u>>] = rows'[<<b, v>>]
    BY <1>1 DEF LedgerInOrder
  <2>1. b \in Bindings
    BY BindingFacts
  <2>2. CASE b # a
    BY <1>2, <1>9, <2>1, <2>2 DEF ClusterInv, LedgerInOrder
  <2>3. CASE b = a
    BY <1>2, <1>8, <1>9, <2>1, <2>3 DEF ClusterInv, LedgerInOrder
  <2>4. QED
    BY <2>2, <2>3
<1>11. ReplacedIsOver'
  <2>1. \A b \in Attempts : ledger[b].units \subseteq Units
    BY DEF ClusterInv, ClusterTyped
  <2>2. QED
    BY <1>5, <2>1, BindingFacts DEF ClusterInv, ReplacedIsOver
<1>12. QED
  BY <1>6, <1>7, <1>10, <1>11 DEF ClusterKept

\* The output of a unit is what an attempt wrote, or nothing.
LEMMA WritesTyped ==
  ASSUME ClusterTyped, NEW a \in Bindings, NEW u, NEW ok, Writes(a, u, ok)
  PROVE  out' \in [AllUnits -> Refs]
BY DEF ClusterTyped, Writes, Refs

\* The rows of a packed allocation agree.
LEMMA RowsAgree ==
  ASSUME ClusterInv, NEW a \in Attempts, NEW u \in Units, NEW v \in Together(a, u),
         rows[<<a, u>>] \in {"PENDING", "RUNNING"}
  PROVE  rows[<<a, v>>] = rows[<<a, u>>] /\ v \in Units
<1>1. rows[<<a, u>>] # NoRow
  BY DEF NoRow
<1>2. u \in ledger[a].units
  BY <1>1, UnitFacts DEF ClusterInv, LedgerInOrder
<1>3. ledger[a].units \subseteq Units
  BY DEF ClusterInv, ClusterTyped
<1>4. QED
  BY <1>2, <1>3 DEF Together, ClusterInv, LedgerInOrder

\* Jobs, tasks and allocations end once; marks and outputs are no jobs.
LEMMA ClusterSteps ==
  ASSUME ClusterInv, ClusterStep
  PROVE  ClusterKept /\ UNCHANGED <<snap, granted, proc>>
<1>1. ASSUME NEW u \in Units, OutputChanges(u)
      PROVE  ClusterKept /\ UNCHANGED <<snap, granted, proc>>
  <2>1. /\ UNCHANGED <<campaign, ledger, bound, spent, rows, marks, risked, snap, granted, proc>>
        /\ out' = [out EXCEPT ![u] = None]
    BY <1>1 DEF OutputChanges
  <2>2. Units' = Units /\ (Packed <=> Packed')
    BY <2>1 DEF Units, Packed
  <2>3. EndsStay(Bindings)
    BY <2>1 DEF EndsStay, Over, RowOver
  <2>4. ClusterTyped'
    BY <2>1, <2>2 DEF ClusterInv, ClusterTyped, Refs
  <2>5. LedgerInOrder' /\ ReplacedIsOver'
    BY <2>1, <2>2 DEF ClusterInv, LedgerInOrder, ReplacedIsOver, Over, RowOver
  <2>6. QED
    BY <2>1, <2>3, <2>4, <2>5 DEF ClusterKept
<1>2. ASSUME NEW a \in Bindings, NEW u \in Units, JobStarts(a, u)
      PROVE  ClusterKept /\ UNCHANGED <<snap, granted, proc>>
  <2>1. /\ rows[<<a, u>>] = "PENDING"
        /\ rows' = [k \in DOMAIN rows |-> IF k[1] = a /\ k[2] \in Together(a, u) THEN "RUNNING" ELSE rows[k]]
        /\ UNCHANGED <<campaign, ledger, bound, spent, marks, risked, out, snap, granted, proc>>
    BY <1>2 DEF JobStarts, RowsBecome
  <2>2. \A v \in Together(a, u) : rows[<<a, v>>] \in {"PENDING", "RUNNING"} /\ v \in Units
    <3>1. CASE a \in Attempts
      BY <2>1, <3>1, RowsAgree
    <3>2. CASE a = Outside
      BY <2>1, <3>2 DEF Together
    <3>3. QED
      BY <3>1, <3>2, BindingFacts
  <2>3. Packed /\ a \in Attempts => Together(a, u) = ledger[a].units
    BY BindingFacts DEF Together
  <2>4. out' \in [AllUnits -> Refs]
    BY <2>1 DEF ClusterInv, ClusterTyped
  <2>5. PICK us : us = Together(a, u)
    OBVIOUS
  <2>6. ClusterKept
    BY <2>1, <2>2, <2>3, <2>4, <2>5, RowsMove
  <2>7. QED
    BY <2>1, <2>6
<1>3. ASSUME NEW a \in Bindings, NEW u \in Units, NEW st \in TerminalStates, TaskEnds(a, u, st)
      PROVE  ClusterKept /\ UNCHANGED <<snap, granted, proc>>
  <2>1. /\ rows[<<a, u>>] = "RUNNING" /\ (~Packed \/ a = Outside)
        /\ rows' = [k \in DOMAIN rows |-> IF k[1] = a /\ k[2] \in {u} THEN st ELSE rows[k]]
        /\ UNCHANGED <<campaign, ledger, bound, spent, marks, risked, snap, granted, proc>>
        /\ Writes(a, u, st = "COMPLETED")
    BY <1>3 DEF TaskEnds, RowsBecome
  <2>2. out' \in [AllUnits -> Refs]
    BY <2>1, WritesTyped DEF ClusterInv
  <2>3. ~(Packed /\ a \in Attempts)
    BY <2>1, BindingFacts
  <2>4. PICK us : us = {u}
    OBVIOUS
  <2>5. us \subseteq Units /\ \A v \in us : rows[<<a, v>>] \in {"PENDING", "RUNNING"}
    BY <2>1, <2>4
  <2>6. rows' = [k \in DOMAIN rows |-> IF k[1] = a /\ k[2] \in us THEN st ELSE rows[k]]
    BY <2>1, <2>4
  <2>7. ClusterKept
    BY <2>1, <2>2, <2>3, <2>5, <2>6, RowsMove, ZenonT(60)
  <2>8. QED
    BY <2>1, <2>7
<1>4. ASSUME NEW a \in Bindings, NEW u \in Units, NEW mark \in {"started", "ok", "bad"}, UnitMarks(a, u, mark)
      PROVE  ClusterKept /\ UNCHANGED <<snap, granted, proc>>
  <2>1. /\ marks[<<a, u>>] \in {NoRow, "started"}
        /\ marks' = [marks EXCEPT ![<<a, u>>] = mark]
        /\ UNCHANGED <<campaign, ledger, bound, spent, rows, risked, snap, granted, proc>>
        /\ Writes(a, u, mark = "ok")
    BY <1>4 DEF UnitMarks
  <2>2. out' \in [AllUnits -> Refs]
    BY <2>1, WritesTyped DEF ClusterInv
  <2>3. Units' = Units /\ (Packed <=> Packed') /\ Units \subseteq AllUnits
    BY <2>1, UnitFacts DEF Units, Packed, ClusterInv
  <2>4. marks' \in [Bindings \X AllUnits -> {NoRow, "started", "ok", "bad"}]
    BY <2>1 DEF ClusterInv, ClusterTyped
  <2>5. \A b \in Bindings, v \in Units : marks[<<b, v>>] \in {"ok", "bad"} => marks'[<<b, v>>] = marks[<<b, v>>]
    BY <2>1, <2>3 DEF ClusterInv, ClusterTyped, NoRow
  <2>6. \A b \in Bindings, v \in Units : (RowOver(b, v) => RowOver(b, v)') /\ (Over(b, v) => Over(b, v)')
    BY <2>1, <2>5 DEF Over, RowOver
  <2>7. EndsStay(Bindings)
    BY <2>1, <2>6 DEF EndsStay
  <2>8. ClusterTyped'
    BY <2>1, <2>2, <2>3, <2>4 DEF ClusterInv, ClusterTyped
  <2>9. LedgerInOrder'
    BY <2>1, <2>3 DEF ClusterInv, LedgerInOrder
  <2>10. ReplacedIsOver'
    <3>1. \A b \in Attempts : ledger[b].units \subseteq Units
      BY DEF ClusterInv, ClusterTyped
    <3>2. QED
      BY <2>1, <2>6, <3>1, BindingFacts DEF ClusterInv, ReplacedIsOver
  <2>11. QED
    BY <2>1, <2>7, <2>8, <2>9, <2>10 DEF ClusterKept
<1>5. ASSUME NEW a \in Bindings, a # Outside, NEW st \in TerminalStates, AllocationEnds(a, st)
      PROVE  ClusterKept /\ UNCHANGED <<snap, granted, proc>>
  <2>1. PICK u \in ledger[a].units : rows[<<a, u>>] = "RUNNING"
    BY <1>5 DEF AllocationEnds
  <2>2. /\ Packed
        /\ rows' = [k \in DOMAIN rows |-> IF k[1] = a /\ k[2] \in ledger[a].units THEN st ELSE rows[k]]
        /\ UNCHANGED <<campaign, ledger, bound, spent, marks, risked, out, snap, granted, proc>>
    BY <1>5 DEF AllocationEnds, RowsBecome
  <2>3. a \in Attempts
    BY <1>5, BindingFacts
  <2>4. ledger[a].units \subseteq Units
    BY <2>3 DEF ClusterInv, ClusterTyped
  <2>5. \A v \in ledger[a].units : rows[<<a, v>>] \in {"PENDING", "RUNNING"}
    BY <2>1, <2>2, <2>3 DEF ClusterInv, LedgerInOrder
  <2>6. out' \in [AllUnits -> Refs]
    BY <2>2 DEF ClusterInv, ClusterTyped
  <2>7. PICK us : us = ledger[a].units
    OBVIOUS
  <2>8. ClusterKept
    BY <2>2, <2>4, <2>5, <2>6, <2>7, RowsMove
  <2>9. QED
    BY <2>2, <2>8
<1>6. QED
  BY <1>1, <1>2, <1>3, <1>4, <1>5 DEF ClusterStep, Bindings

\* What driving attempts does: states go on, and jobs appear only for those
\* that were intended and now may have one.
LEMMA DriveFacts ==
  ASSUME ClusterInv, NEW book \in [Attempts -> [units : SUBSET Units, state : EntryStates]],
         NEW driven, driven \subseteq Attempts, NEW states, DriveTo(book, driven, states)
  PROVE  /\ ledger' \in [Attempts -> [units : SUBSET Units, state : EntryStates]]
         /\ rows' \in [Bindings \X AllUnits -> RowStates]
         /\ \A a \in Attempts :
              /\ ledger'[a].units = book[a].units
              /\ ledger'[a].state = "ABSENT" <=> book[a].state = "ABSENT"
              /\ ledger'[a].state \in {"INTENDED", "REJECTED"} => book[a].state \in {"INTENDED", "REJECTED"}
              /\ book[a].state = "REJECTED" => ledger'[a].state = "REJECTED"
              /\ \E started \in BOOLEAN :
                   /\ started => /\ book[a].state = "INTENDED"
                                 /\ ledger'[a].state \notin {"ABSENT", "INTENDED", "REJECTED"}
                   /\ \A u \in AllUnits : rows'[<<a, u>>] = IF started /\ u \in book[a].units
                                                            THEN "PENDING" ELSE rows[<<a, u>>]
         /\ \A u \in AllUnits : rows'[<<Outside, u>>] = rows[<<Outside, u>>]
<1>1. /\ \A a \in driven : states[a] \in Outcomes(book[a].state)
      /\ ledger' = [a \in Attempts |->
                      IF a \in driven THEN [book[a] EXCEPT !.state = states[a]] ELSE book[a]]
  BY DEF DriveTo
<1>2. PICK jobs \in SUBSET {a \in driven : book[a].state = "INTENDED"} :
        /\ \A a \in driven : book[a].state = "INTENDED" =>
             /\ states[a] = "ACCEPTED" => a \in jobs
             /\ states[a] \in {"INTENDED", "REJECTED"} => a \notin jobs
        /\ rows' = [k \in DOMAIN rows |->
                      IF k[1] \in jobs /\ k[2] \in book[k[1]].units THEN "PENDING" ELSE rows[k]]
  BY DEF DriveTo
<1>3. ASSUME NEW a \in Attempts
      PROVE  /\ ledger'[a] \in [units : SUBSET Units, state : EntryStates]
             /\ ledger'[a].units = book[a].units
             /\ a \in driven => ledger'[a].state = states[a] /\ states[a] \in Outcomes(book[a].state)
             /\ a \notin driven => ledger'[a].state = book[a].state
  <2>1. PICK entry \in [units : SUBSET Units, state : EntryStates] : entry = book[a]
    OBVIOUS
  <2>2. CASE a \notin driven
    BY <1>1, <2>1, <2>2
  <2>3. CASE a \in driven
    <3>1. states[a] \in Outcomes(entry.state)
      BY <1>1, <2>1, <2>3
    <3>2. states[a] \in EntryStates
      BY <3>1 DEF Outcomes, EntryStates
    <3>3. ledger'[a] = [entry EXCEPT !.state = states[a]]
      BY <1>1, <2>1, <2>3
    <3>4. QED
      BY <2>1, <2>3, <3>1, <3>2, <3>3
  <2>4. QED
    BY <2>2, <2>3
<1>4. ledger' \in [Attempts -> [units : SUBSET Units, state : EntryStates]]
  BY <1>1, <1>3
<1>5. rows' \in [Bindings \X AllUnits -> RowStates]
  <2>1. DOMAIN rows = Bindings \X AllUnits /\ \A k \in DOMAIN rows : rows[k] \in RowStates
    BY DEF ClusterInv, ClusterTyped
  <2>2. QED
    BY <1>2, <2>1 DEF RowStates
<1>6. \A a \in Bindings, u \in AllUnits :
        rows'[<<a, u>>] = IF a \in jobs /\ u \in book[a].units THEN "PENDING" ELSE rows[<<a, u>>]
  BY <1>2 DEF ClusterInv, ClusterTyped
<1>7. ASSUME NEW a \in Attempts
      PROVE  /\ ledger'[a].units = book[a].units
             /\ ledger'[a].state = "ABSENT" <=> book[a].state = "ABSENT"
             /\ ledger'[a].state \in {"INTENDED", "REJECTED"} => book[a].state \in {"INTENDED", "REJECTED"}
             /\ book[a].state = "REJECTED" => ledger'[a].state = "REJECTED"
             /\ \E started \in BOOLEAN :
                  /\ started => /\ book[a].state = "INTENDED"
                                /\ ledger'[a].state \notin {"ABSENT", "INTENDED", "REJECTED"}
                  /\ \A u \in AllUnits : rows'[<<a, u>>] = IF started /\ u \in book[a].units
                                                           THEN "PENDING" ELSE rows[<<a, u>>]
  <2>1. book[a].state \in EntryStates
    OBVIOUS
  <2>2. a \in driven => states[a] \in Outcomes(book[a].state)
    BY <1>3
  <2>3. /\ ledger'[a].state = "ABSENT" <=> book[a].state = "ABSENT"
        /\ ledger'[a].state \in {"INTENDED", "REJECTED"} => book[a].state \in {"INTENDED", "REJECTED"}
        /\ book[a].state = "REJECTED" => ledger'[a].state = "REJECTED"
    BY <1>3, <2>1, <2>2 DEF Outcomes, EntryStates
  <2>4. a \in jobs => /\ book[a].state = "INTENDED"
                      /\ ledger'[a].state \notin {"ABSENT", "INTENDED", "REJECTED"}
    BY <1>2, <1>3, <2>3
  <2>5. a \in Bindings
    BY BindingFacts
  <2>6. PICK started \in BOOLEAN : started <=> a \in jobs
    OBVIOUS
  <2>7. QED
    BY <1>3, <1>6, <2>3, <2>4, <2>5, <2>6
<1>8. \A u \in AllUnits : rows'[<<Outside, u>>] = rows[<<Outside, u>>]
  <2>1. Outside \notin jobs
    BY <1>2, BindingFacts
  <2>2. QED
    BY <1>6, <2>1, BindingFacts
<1>9. QED
  BY <1>4, <1>5, <1>7, <1>8

\* Attempts that are driven again, or for the first time, keep the order.
LEMMA DriveKeeps ==
  ASSUME ClusterInv, NEW book \in [Attempts -> [units : SUBSET Units, state : EntryStates]],
         NEW driven, driven \subseteq Attempts, NEW states, DriveTo(book, driven, states),
         UNCHANGED <<campaign, marks, out>>,
         \A a \in Attempts : ledger[a] = book[a] \/ (ledger[a].state = "ABSENT" /\ book[a].state = "INTENDED"),
         \A a, b \in Attempts : b < a /\ book[a].state # "ABSENT" => book[b].state # "ABSENT",
         bound' \in [AllUnits -> Attempts \union {None}],
         spent' \in [Auths \X AllUnits -> Attempts \union {None}],
         \A a \in Attempts : \A u \in book[a].units : bound'[u] # None /\ a <= bound'[u]
  PROVE  EndsStay(Bindings) /\ ClusterTyped' /\ LedgerInOrder'
<1> DEFINE Was(a) == /\ ledger[a].state = "ABSENT" => ledger[a].units = {}
                     /\ \A u \in AllUnits :
                          ledger[a].state \in {"ABSENT", "INTENDED", "REJECTED"} \/ u \notin ledger[a].units
                            => rows[<<a, u>>] = NoRow
                     /\ Packed => \A u, v \in ledger[a].units : rows[<<a, u>>] = rows[<<a, v>>]
           Become(a, started) ==
             /\ started => /\ book[a].state = "INTENDED"
                           /\ ledger'[a].state \notin {"ABSENT", "INTENDED", "REJECTED"}
             /\ \A u \in AllUnits : rows'[<<a, u>>] = IF started /\ u \in book[a].units
                                                      THEN "PENDING" ELSE rows[<<a, u>>]
<1>1. Units' = Units /\ (Packed <=> Packed') /\ Units \subseteq AllUnits
  BY UnitFacts DEF Units, Packed, ClusterInv
<1>2. \A a \in Attempts : Was(a)
  BY DEF ClusterInv, LedgerInOrder
<1>3. /\ ledger' \in [Attempts -> [units : SUBSET Units, state : EntryStates]]
      /\ rows' \in [Bindings \X AllUnits -> RowStates]
      /\ \A u \in AllUnits : rows'[<<Outside, u>>] = rows[<<Outside, u>>]
  BY DriveFacts
<1>4. \A a \in Attempts :
        /\ ledger'[a].units = book[a].units
        /\ ledger'[a].state = "ABSENT" <=> book[a].state = "ABSENT"
        /\ ledger'[a].state \in {"INTENDED", "REJECTED"} => book[a].state \in {"INTENDED", "REJECTED"}
        /\ book[a].state = "REJECTED" => ledger'[a].state = "REJECTED"
  BY DriveFacts
<1>5. \A a \in Attempts : \E started \in BOOLEAN : Become(a, started)
  BY DriveFacts
<1>6. \A a \in Attempts : book[a].state \in {"ABSENT", "INTENDED", "REJECTED"} =>
                            \A u \in AllUnits : rows[<<a, u>>] = NoRow
  BY <1>2
<1>7. \A a \in Attempts : book[a].units \subseteq Units
  BY DEF ClusterInv
<1>8. ASSUME NEW a \in Attempts, NEW u \in Units
      PROVE  (RowOver(a, u) => RowOver(a, u)') /\ (Over(a, u) => Over(a, u)')
  <2>1. PICK started \in BOOLEAN : Become(a, started)
    BY <1>5
  <2>2. RowOver(a, u) => rows'[<<a, u>>] = rows[<<a, u>>]
    BY <1>1, <1>6, <2>1 DEF RowOver, TerminalStates, NoRow
  <2>3. RowOver(a, u) => RowOver(a, u)'
    BY <2>2 DEF RowOver
  <2>4. ledger[a].state = "REJECTED" => ledger'[a].state = "REJECTED"
    BY <1>4
  <2>5. QED
    BY <2>3, <2>4 DEF Over
<1>9. ASSUME NEW u \in Units
      PROVE  (RowOver(Outside, u) => RowOver(Outside, u)') /\ (Over(Outside, u) => Over(Outside, u)')
  BY <1>1, <1>3, BindingFacts DEF RowOver, Over
<1>10. EndsStay(Bindings)
  BY <1>8, <1>9, BindingFacts DEF EndsStay
<1>11. ClusterTyped'
  BY <1>1, <1>3 DEF ClusterInv, ClusterTyped
<1>12. LedgerInOrder'
  <2> SUFFICES ASSUME NEW a \in Attempts
               PROVE  /\ ledger'[a].state = "ABSENT" => ledger'[a].units = {}
                      /\ \A b \in Attempts : b < a /\ ledger'[a].state # "ABSENT" => ledger'[b].state # "ABSENT"
                      /\ \A u \in ledger'[a].units : bound'[u] # None /\ a <= bound'[u]
                      /\ \A u \in AllUnits :
                           ledger'[a].state \in {"ABSENT", "INTENDED", "REJECTED"} \/ u \notin ledger'[a].units
                             => rows'[<<a, u>>] = NoRow
                      /\ Packed => \A u, v \in ledger'[a].units : rows'[<<a, u>>] = rows'[<<a, v>>]
    BY <1>1 DEF LedgerInOrder
  <2>1. PICK started \in BOOLEAN : Become(a, started)
    BY <1>5
  <2>2. ledger'[a].state = "ABSENT" => ledger'[a].units = {}
    BY <1>2, <1>4
  <2>3. \A b \in Attempts : b < a /\ ledger'[a].state # "ABSENT" => ledger'[b].state # "ABSENT"
    BY <1>4
  <2>4. \A u \in ledger'[a].units : bound'[u] # None /\ a <= bound'[u]
    BY <1>4
  <2>5. ASSUME NEW u \in AllUnits,
               ledger'[a].state \in {"ABSENT", "INTENDED", "REJECTED"} \/ u \notin ledger'[a].units
        PROVE  rows'[<<a, u>>] = NoRow
    <3>1. ~(started /\ u \in book[a].units)
      BY <1>4, <2>1, <2>5
    <3>2. rows'[<<a, u>>] = rows[<<a, u>>]
      BY <2>1, <3>1
    <3>3. book[a].state \in {"ABSENT", "INTENDED", "REJECTED"} \/ u \notin book[a].units
      BY <1>4, <2>5
    <3>4. rows[<<a, u>>] = NoRow
      BY <1>2, <1>6, <3>3
    <3>5. QED
      BY <3>2, <3>4
  <2>6. Packed => \A u, v \in ledger'[a].units : rows'[<<a, u>>] = rows'[<<a, v>>]
    <3> SUFFICES ASSUME Packed, NEW u \in ledger'[a].units, NEW v \in ledger'[a].units
                 PROVE  rows'[<<a, u>>] = rows'[<<a, v>>]
      OBVIOUS
    <3>1. u \in book[a].units /\ v \in book[a].units /\ u \in AllUnits /\ v \in AllUnits
      BY <1>1, <1>4, <1>7
    <3>2. rows[<<a, u>>] = rows[<<a, v>>]
      <4>1. CASE ledger[a] = book[a]
        BY <1>2, <3>1, <4>1
      <4>2. CASE ledger[a].state = "ABSENT"
        BY <1>2, <3>1, <4>2
      <4>3. QED
        BY <4>1, <4>2
    <3>3. QED
      BY <2>1, <3>1, <3>2
  <2>7. QED
    BY <2>2, <2>3, <2>4, <2>5, <2>6
<1>13. QED
  BY <1>10, <1>11, <1>12

\* Following attempts that exist.
LEMMA FollowKeeps ==
  ASSUME ClusterInv, NEW driven, driven \subseteq Attempts, NEW states, DriveTo(ledger, driven, states),
         UNCHANGED <<campaign, bound, spent, marks, out, risked>>
  PROVE  ClusterKept
<1>0. ledger \in [Attempts -> [units : SUBSET Units, state : EntryStates]]
  BY DEF ClusterInv, ClusterTyped
<1>1. EndsStay(Bindings) /\ ClusterTyped' /\ LedgerInOrder'
  <2>1. PICK book \in [Attempts -> [units : SUBSET Units, state : EntryStates]] : book = ledger
    BY <1>0
  <2>2. /\ bound' \in [AllUnits -> Attempts \union {None}]
        /\ spent' \in [Auths \X AllUnits -> Attempts \union {None}]
    BY DEF ClusterInv, ClusterTyped
  <2>3. \A a \in Attempts : \A u \in book[a].units : bound'[u] # None /\ a <= bound'[u]
    BY <2>1 DEF ClusterInv, LedgerInOrder
  <2>4. \A a, b \in Attempts : b < a /\ book[a].state # "ABSENT" => book[b].state # "ABSENT"
    BY <2>1 DEF ClusterInv, LedgerInOrder
  <2>5. \A a \in Attempts : ledger[a] = book[a] \/ (ledger[a].state = "ABSENT" /\ book[a].state = "INTENDED")
    BY <2>1
  <2>6. DriveTo(book, driven, states) /\ UNCHANGED <<campaign, marks, out>>
    BY <2>1
  <2>7. QED
    BY <2>2, <2>3, <2>4, <2>5, <2>6, DriveKeeps
<1>2. \A a \in Attempts : ledger'[a].units = ledger[a].units /\ ledger[a].units \subseteq Units
  BY <1>0, DriveFacts
<1>3. ReplacedIsOver'
  BY <1>1, <1>2, BindingFacts DEF ClusterInv, ReplacedIsOver, EndsStay
<1>4. QED
  BY <1>1, <1>3 DEF ClusterKept

\* A group is reserved for the next attempt, which starts: what it replaces is
\* over, unless its claim accepts the risk.
LEMMA IntendKeeps ==
  ASSUME ClusterInv, NEW g \in Groups, GroupTrue(g), NEW a \in Attempts,
         Matches(g), Blocking(g) = {}, Fresh(a), NEW states,
         DriveTo([ledger EXCEPT ![a] = [units |-> g.units, state |-> "INTENDED"]], {a}, states),
         bound' = [u \in AllUnits |-> IF u \in g.units THEN a ELSE bound[u]],
         spent' = [k \in DOMAIN spent |->
                     IF \E c \in g.claims : k = <<c.id, c.unit>> THEN a ELSE spent[k]],
         risked' = risked \union {<<c.prev, c.unit>> : c \in {d \in g.claims : d.risk}},
         UNCHANGED <<campaign, marks, out>>
  PROVE  ClusterKept
<1>1. /\ ledger \in [Attempts -> [units : SUBSET Units, state : EntryStates]]
      /\ bound \in [AllUnits -> Attempts \union {None}]
      /\ Units \subseteq AllUnits
  BY UnitFacts DEF ClusterInv, ClusterTyped
<1>2. g.units \subseteq Units /\ g.claims \subseteq ClaimRecords
  BY DEF Groups
<1>3. PICK entry \in [units : SUBSET Units, state : EntryStates] :
        entry = [units |-> g.units, state |-> "INTENDED"]
  BY <1>2 DEF EntryStates
<1>4. entry.units = g.units /\ entry.state = "INTENDED"
  BY <1>3
<1>5. PICK book \in [Attempts -> [units : SUBSET Units, state : EntryStates]] :
        book = [ledger EXCEPT ![a] = entry]
  BY <1>1
<1>6. book[a] = entry /\ \A b \in Attempts : b # a => book[b] = ledger[b]
  BY <1>1, <1>5
<1>7. /\ ledger[a].state = "ABSENT"
      /\ \A b \in Attempts : b # a /\ ledger[b].state # "ABSENT" => b < a
  BY BindingFacts DEF Fresh, ClusterInv, LedgerInOrder
<1>8. \A b, c \in Attempts : c < b /\ book[b].state # "ABSENT" => book[c].state # "ABSENT"
  <2> SUFFICES ASSUME NEW b \in Attempts, NEW c \in Attempts, c < b, book[b].state # "ABSENT", c # a
               PROVE  ledger[c].state # "ABSENT"
    BY <1>4, <1>6
  <2>1. CASE b = a
    BY <2>1 DEF Fresh
  <2>2. CASE b # a
    BY <1>6, <2>2 DEF ClusterInv, LedgerInOrder
  <2>3. QED
    BY <2>1, <2>2
<1>9. bound' \in [AllUnits -> Attempts \union {None}]
  BY <1>1
<1>10. spent' \in [Auths \X AllUnits -> Attempts \union {None}]
  BY DEF ClusterInv, ClusterTyped
<1>11. \A b \in Attempts : \A u \in book[b].units : bound'[u] # None /\ b <= bound'[u]
  <2> SUFFICES ASSUME NEW b \in Attempts, NEW u \in book[b].units
               PROVE  bound'[u] # None /\ b <= bound'[u]
    OBVIOUS
  <2>1. a # None /\ a \in Nat /\ b \in Nat /\ u \in AllUnits
    BY <1>1, BindingFacts
  <2>2. CASE b = a
    BY <1>4, <1>6, <2>1, <2>2
  <2>3. CASE b # a
    <3>1. u \in ledger[b].units
      BY <1>6, <2>3
    <3>2. b < a
      BY <1>7, <2>3, <3>1 DEF ClusterInv, LedgerInOrder
    <3>3. bound[u] # None /\ b <= bound[u]
      BY <3>1 DEF ClusterInv, LedgerInOrder
    <3>4. QED
      BY <2>1, <3>2, <3>3
  <2>4. QED
    BY <2>2, <2>3
<1>12. \A b \in Attempts : ledger[b] = book[b] \/ (ledger[b].state = "ABSENT" /\ book[b].state = "INTENDED")
  BY <1>4, <1>6, <1>7
<1>13. DriveTo(book, {a}, states) /\ {a} \subseteq Attempts
  BY <1>3, <1>5
<1>14. EndsStay(Bindings) /\ ClusterTyped' /\ LedgerInOrder'
  BY <1>8, <1>9, <1>10, <1>11, <1>12, <1>13, DriveKeeps
<1>15. \A b \in Attempts : ledger'[b].units = book[b].units
  BY <1>13, DriveFacts
<1>16. ReplacedIsOver'
  <2> SUFFICES ASSUME NEW b \in Attempts, NEW u \in ledger'[b].units, b # bound'[u]
               PROVE  Over(b, u)' \/ <<b, u>> \in risked'
    BY DEF ReplacedIsOver
  <2>1. u \in book[b].units /\ u \in Units /\ u \in AllUnits
    BY <1>1, <1>15
  <2>2. b # a
    BY <1>4, <1>6, <2>1
  <2>3. u \in ledger[b].units
    BY <1>6, <2>1, <2>2
  <2>4. Over(b, u) => Over(b, u)'
    BY <1>14, <2>1, BindingFacts DEF EndsStay
  <2>5. CASE b # bound[u]
    BY <2>3, <2>4, <2>5 DEF ClusterInv, ReplacedIsOver
  <2>6. CASE b = bound[u]
    <3>1. u \in g.units /\ bound[u] # None
      BY <2>1, <2>6, BindingFacts
    <3>2. PICK c \in g.claims : c.unit = u
      <4>1. PICK claimed : claimed = {c.unit : c \in g.claims}
        OBVIOUS
      <4>2. u \notin claimed => bound[u] \in {bound[v] : v \in g.units \ claimed}
        BY <3>1
      <4>3. Blocking(g) = {bound[v] : v \in g.units \ claimed} \ {None}
        BY <4>1 DEF Blocking
      <4>4. u \in claimed
        BY <3>1, <4>2, <4>3
      <4>5. QED
        BY <4>1, <4>4
    <3>3. c.prev = b
      BY <2>6, <3>1, <3>2 DEF Matches
    <3>4. CASE c.risk
      BY <3>2, <3>3, <3>4
    <3>5. CASE ~c.risk
      <4>1. Over(b, u)
        BY <3>2, <3>3, <3>5 DEF GroupTrue, ClaimTrue
      <4>2. QED
        BY <2>4, <4>1
    <3>6. QED
      BY <3>4, <3>5
  <2>7. QED
    BY <2>5, <2>6
<1>17. QED
  BY <1>14, <1>16 DEF ClusterKept

------------------------------------------------------------------------------
(* Processes *)

\* Nothing in the types of a snapshot or a process changes.
LEMMA TypesStay ==
  ASSUME campaign' = campaign
  PROVE  /\ Units' = Units /\ Snapshots' = Snapshots /\ Groups' = Groups /\ Processes' = Processes
BY DEF Units, Snapshots, Groups, ClaimRecords, Processes

\* A process that rests holds nothing.
LEMMA RestingIsTrue == Resting \in Processes /\ ProcTrue(Resting)
BY DEF Resting, Processes, Snapshots, ProcTrue, DraftTrue, Absent

\* One process moves on, to something true, while the snapshot stands.
LEMMA ProcMoves ==
  ASSUME IndInv, ClusterKept, UNCHANGED <<snap, granted>>, NEW m \in Managers,
         NEW p \in Processes, ProcTrue(p), proc' = [proc EXCEPT ![m] = p]
  PROVE  IndInv'
<1>1. EndsStay(Bindings) /\ campaign' = campaign
  BY DEF ClusterKept, EndsStay
<1>2. proc \in [Managers -> Processes] /\ snap \in Snapshots
  BY DEF IndInv, Typed
<1>3. Typed'
  BY <1>1, <1>2, TypesStay DEF IndInv, Typed, ClusterKept
<1>4. SnapTrue(snap)'
  <2>1. PICK s \in Snapshots : s = snap
    BY <1>2
  <2>2. SnapTrue(s)'
    BY <1>1, <2>1, SnapStays DEF IndInv
  <2>3. QED
    BY <2>1, <2>2 DEF SnapTrue
<1>5. ASSUME NEW n \in Managers PROVE ProcTrue(proc[n])'
  <2>1. PICK q \in Processes : q = proc'[n]
    BY <1>2
  <2>2. ProcTrue(q)
    BY <1>2, <2>1 DEF IndInv
  <2>3. ProcTrue(q)'
    BY <1>1, <2>2, ProcStays
  <2>4. QED
    BY <2>1, <2>3
<1>6. QED
  BY <1>3, <1>4, <1>5 DEF IndInv, ClusterKept

\* One process commits, and the others lose their drafts.
LEMMA CommitMoves ==
  ASSUME IndInv, EndsStay(Attempts), ClusterTyped', LedgerInOrder', ReplacedIsOver',
         granted' \in 0..MaxAuths, NEW s \in Snapshots, s.life # "ABSENT", SnapTrue(s)',
         NEW m \in Managers, NEW p \in Processes, p.draft = Absent, \A g \in p.todo : GroupTrue(g),
         Replace(m, s, p)
  PROVE  IndInv'
<1>1. campaign' = campaign /\ snap' = s
  BY DEF EndsStay, Replace
<1>2. proc \in [Managers -> Processes]
  BY DEF IndInv, Typed
<1>3. ProcTrue(p)'
  <2>1. \A g \in p.todo : GroupTrue(g)'
    BY GroupStays DEF Processes
  <2>2. QED
    BY <1>1, <2>1 DEF ProcTrue, DraftTrue, Absent
<1>4. ASSUME NEW n \in Managers
      PROVE  \E q \in Processes : proc'[n] = q /\ ProcTrue(q)'
  <2>1. CASE n = m
    BY <1>3, <2>1 DEF Replace
  <2>2. CASE n # m
    <3>1. PICK old \in Processes : old = proc[n]
      BY <1>2
    <3>2. ProcTrue(old)
      BY <3>1 DEF IndInv
    <3>3. Superseded(old) \in Processes /\ ProcTrue(Superseded(old))'
      BY <1>1, <3>2, SupersededStays
    <3>4. PICK new : new = Superseded(old)
      OBVIOUS
    <3>5. new \in Processes /\ ProcTrue(new)'
      BY <3>3, <3>4 DEF Superseded
    <3>6. proc'[n] = new
      BY <2>2, <3>1, <3>4 DEF Replace
    <3>7. QED
      BY <3>5, <3>6
  <2>3. QED
    BY <2>1, <2>2
<1>5. proc' \in [Managers -> Processes]
  <2>1. \A n \in Managers : proc'[n] \in Processes
    BY <1>4
  <2>2. QED
    BY <2>1 DEF Replace
<1>6. Typed'
  BY <1>1, <1>5, TypesStay DEF Typed
<1>7. \A n \in Managers : ProcTrue(proc[n])'
  BY <1>4
<1>8. SnapTrue(snap)'
  BY <1>1 DEF SnapTrue
<1>9. QED
  BY <1>6, <1>7, <1>8 DEF IndInv

\* A true snapshot is committed while the cluster rests.
LEMMA CommitKeeps ==
  ASSUME IndInv, campaign' = campaign, UNCHANGED cluster,
         granted' \in 0..MaxAuths, NEW s \in Snapshots, s.life # "ABSENT", SnapTrue(s),
         NEW m \in Managers, NEW p \in Processes, p.draft = Absent, \A g \in p.todo : GroupTrue(g),
         Replace(m, s, p)
  PROVE  IndInv'
<1>1. ClusterKept
  BY ClusterRests DEF IndInv, ClusterInv, Typed
<1>2. EndsStay(Bindings) /\ EndsStay(Attempts)
  BY <1>1, BindingFacts DEF ClusterKept, EndsStay
<1>3. SnapTrue(s)'
  BY <1>2, SnapStays
<1>4. QED
  BY <1>1, <1>2, <1>3, CommitMoves DEF ClusterKept

\* A process drafts something true.
LEMMA DraftMoves ==
  ASSUME IndInv, ClusterKept, UNCHANGED <<snap, granted>>, NEW m \in Managers,
         NEW pc \in {"refresh", "verify", "cancel", "plan", "merging"}, snap.life # "ABSENT",
         NEW d \in Snapshots, DraftTrue(d), Drafted(m, pc, d)
  PROVE  IndInv'
<1>1. PICK old \in Processes : old = proc[m]
  BY DEF IndInv, Typed
<1>2. PICK p : p = [old EXCEPT !.pc = pc, !.draft = d]
  OBVIOUS
<1>3. p \in Processes /\ p.draft = d /\ p.todo = old.todo
  BY <1>2 DEF Processes
<1>4. ProcTrue(old)
  BY <1>1 DEF IndInv
<1>5. ProcTrue(p)
  BY <1>3, <1>4 DEF ProcTrue
<1>6. proc' = [proc EXCEPT ![m] = p]
  BY <1>1, <1>2 DEF Drafted
<1>7. QED
  BY <1>3, <1>5, <1>6, ProcMoves

\* A process gives up while the cluster rests.
LEMMA RestMoves ==
  ASSUME IndInv, ClusterKept, UNCHANGED <<snap, granted>>, NEW m \in Managers, Rest(m)
  PROVE  IndInv'
BY RestingIsTrue, ProcMoves DEF Rest

\* A draft that nobody superseded is committed.
LEMMA DraftCommits ==
  ASSUME IndInv, campaign' = campaign, UNCHANGED <<granted, cluster>>, NEW m \in Managers,
         NEW p \in Processes, p.draft = Absent, \A g \in p.todo : GroupTrue(g), CommitDraft(m, p)
  PROVE  IndInv'
<1>1. PICK old \in Processes : old = proc[m]
  BY DEF IndInv, Typed
<1>2. PICK d : d = old.draft
  OBVIOUS
<1>3. d \in Snapshots /\ d.life # "ABSENT" /\ Replace(m, d, p)
  BY <1>1, <1>2 DEF CommitDraft, Conflict, Processes
<1>4. DraftTrue(d)
  BY <1>1, <1>2 DEF IndInv, ProcTrue
<1>5. SnapTrue(d)
  BY <1>3, <1>4 DEF DraftTrue
<1>6. granted' \in 0..MaxAuths
  BY DEF IndInv, Typed
<1>7. QED
  BY <1>3, <1>5, <1>6, CommitKeeps

------------------------------------------------------------------------------
(* The operations of a controller *)

\* A unit that was never submitted.
LEMMA InitialIsTrue ==
  ASSUME NEW u \in Units
  PROVE  /\ InitialUnit(u) \in UnitRecords /\ RecordTrue(InitialUnit(u), u)
         /\ ~Accepted(InitialUnit(u), campaign.require) \/ campaign.require \notin {"completed", "outputs_present", "verified"}
         /\ InitialUnit(u).dep = IF campaign.needs[u] = {} THEN "NOT_APPLICABLE" ELSE "BLOCKED"
<1>1. PICK dep \in {"NOT_APPLICABLE", "BLOCKED"} : dep = IF campaign.needs[u] = {} THEN "NOT_APPLICABLE" ELSE "BLOCKED"
  OBVIOUS
<1>2. PICK x : x = InitialUnit(u)
  OBVIOUS
<1>3. x = [exec |-> "UNBOUND", sched |-> NoRow, source |-> "none", cur |-> None, tries |-> {},
           art |-> "UNCHECKED", sig |-> None, val |-> "NOT_RUN", vsig |-> None,
           dep |-> dep, auth |-> NoClaim]
  BY <1>1, <1>2 DEF InitialUnit
<1>4. NoClaim \in [id : Auths \union {None}, prev : Refs, risk : BOOLEAN]
  BY DEF NoClaim, Refs
<1>5. x \in UnitRecords
  BY <1>3, <1>4 DEF UnitRecords, RowStates, Refs
<1>6. RecordTrue(x, u)
  BY <1>3 DEF RecordTrue, SchedTold, Pending, NoRow
<1>7. ~Accepted(x, campaign.require) \/ campaign.require \notin {"completed", "outputs_present", "verified"}
  BY <1>3 DEF Accepted
<1>8. QED
  BY <1>1, <1>2, <1>3, <1>5, <1>6, <1>7

\* A run starts with nothing submitted.
LEMMA StartKeeps ==
  ASSUME IndInv, NEW m \in Managers, start(m)
  PROVE  IndInv'
<1>1. PICK units : units = [u \in Units |-> InitialUnit(u)]
  OBVIOUS
<1>2. PICK s : s = [life |-> "OPEN", units |-> units]
  OBVIOUS
<1>3. Typed
  BY DEF IndInv
<1>4. units \in [Units -> UnitRecords]
  BY <1>1, InitialIsTrue
<1>5. \A u \in Units : ~Accepted(units[u], campaign.require)
  BY <1>1, <1>3, InitialIsTrue, CampaignFacts
<1>6. \A u \in Units : units[u].dep = DepOf(units, u)
  <2> SUFFICES ASSUME NEW u \in Units PROVE units[u].dep = DepOf(units, u)
    OBVIOUS
  <2>1. units[u].dep = IF campaign.needs[u] = {} THEN "NOT_APPLICABLE" ELSE "BLOCKED"
    BY <1>1, InitialIsTrue
  <2>2. campaign.needs[u] \subseteq Units
    BY <1>3, CampaignFacts
  <2>3. QED
    BY <1>5, <2>1, <2>2 DEF DepOf
<1>7. units = derive_dependencies(units)
  BY <1>3, <1>4, <1>6, DerivedStands
<1>8. s \in Snapshots /\ s.life # "ABSENT" /\ s.units = units
  BY <1>2, <1>4 DEF Snapshots, Lives
<1>9. SnapTrue(s)
  BY <1>1, <1>7, <1>8, InitialIsTrue DEF SnapTrue
<1>10. Replace(m, s, Resting) /\ campaign' = campaign /\ UNCHANGED cluster /\ granted' \in 0..MaxAuths
  BY <1>1, <1>2, <1>3 DEF start, Typed
<1>11. QED
  BY <1>8, <1>9, <1>10, CommitKeeps, RestingIsTrue DEF Resting

\* A run is closed, archived or restored.
LEMMA LifeKeeps ==
  ASSUME IndInv, snap.life # "ABSENT", NEW m \in Managers, NEW op, NEW life \in Lives, SetLife(m, op, life)
  PROVE  IndInv'
<1>1. snap \in Snapshots /\ SnapTrue(snap)
  BY DEF IndInv, Typed
<1>2. PICK s : s = [snap EXCEPT !.life = life]
  OBVIOUS
<1>3. s \in Snapshots /\ s.life # "ABSENT" /\ s.units = snap.units
  <2>1. snap.units \in [Units -> UnitRecords] /\ snap = [life |-> snap.life, units |-> snap.units]
    BY <1>1, SnapFacts
  <2>2. s = [life |-> life, units |-> snap.units]
    BY <1>2, <2>1
  <2>3. QED
    BY <2>1, <2>2 DEF Snapshots, Lives
<1>4. SnapTrue(s)
  BY <1>1, <1>3 DEF SnapTrue
<1>5. Replace(m, s, Resting) /\ campaign' = campaign /\ UNCHANGED cluster /\ granted' \in 0..MaxAuths
  BY <1>2 DEF SetLife, IndInv, Typed
<1>6. QED
  BY <1>3, <1>4, <1>5, CommitKeeps, RestingIsTrue DEF Resting

\* The units retried are authorized, each over the attempt it had.
LEMMA RetryIsTrue ==
  ASSUME Typed, SnapTrue(snap), snap.life # "ABSENT", NEW us,
         \A u \in us : retry_eligible(snap.units[u]), NEW id \in Auths,
         NEW d, d = [snap EXCEPT !.units = [u \in Units |->
                       IF u \in us THEN [snap.units[u] EXCEPT !.auth = [id |-> id,
                              prev |-> snap.units[u].cur, risk |-> duplicate_risk(snap.units[u])]]
                       ELSE snap.units[u]]]
  PROVE  d \in Snapshots /\ d.life = snap.life /\ DraftTrue(d)
<1>1. snap.units \in [Units -> UnitRecords] /\ snap = [life |-> snap.life, units |-> snap.units]
  BY SnapFacts DEF Typed, ClusterTyped
<1>2. PICK new : new = [u \in Units |->
                          IF u \in us THEN [snap.units[u] EXCEPT !.auth = [id |-> id,
                                 prev |-> snap.units[u].cur, risk |-> duplicate_risk(snap.units[u])]]
                          ELSE snap.units[u]]
  OBVIOUS
<1>3. \A u \in Units : /\ Succeeds(new[u], snap.units[u], u)
                       /\ new[u].dep = snap.units[u].dep /\ new[u].exec = snap.units[u].exec
                       /\ new[u].art = snap.units[u].art /\ new[u].val = snap.units[u].val
  <2> SUFFICES ASSUME NEW u \in Units
               PROVE  /\ Succeeds(new[u], snap.units[u], u)
                      /\ new[u].dep = snap.units[u].dep /\ new[u].exec = snap.units[u].exec
                      /\ new[u].art = snap.units[u].art /\ new[u].val = snap.units[u].val
    OBVIOUS
  <2>1. PICK r \in UnitRecords : r = snap.units[u]
    BY <1>1
  <2>2. RecordTrue(r, u)
    BY <2>1 DEF SnapTrue
  <2>3. CASE u \notin us
    BY <1>2, <2>1, <2>2, <2>3 DEF Succeeds, Follows
  <2>4. CASE u \in us
    <3>1. PICK x : x = [r EXCEPT !.auth = [id |-> id, prev |-> r.cur, risk |-> duplicate_risk(r)]]
      OBVIOUS
    <3>2. retry_eligible(r)
      BY <2>1, <2>4
    <3>3. /\ x \in UnitRecords /\ RecordTrue(x, u) /\ Follows(r, x)
          /\ x.dep = r.dep /\ x.exec = r.exec /\ x.art = r.art /\ x.val = r.val
      BY <2>2, <3>1, <3>2, RetriedIsTrue
    <3>4. new[u] = x
      BY <1>2, <2>1, <2>4, <3>1
    <3>5. QED
      BY <2>1, <3>3, <3>4 DEF Succeeds
  <2>5. QED
    BY <2>3, <2>4
<1>4. new \in [Units -> UnitRecords]
  BY <1>2, <1>3 DEF Succeeds
<1>5. d = [life |-> snap.life, units |-> new]
  BY <1>1, <1>2
<1>6. \A u \in Units : Accepted(snap.units[u], campaign.require) <=> Accepted(new[u], campaign.require)
  BY <1>3 DEF Accepted
<1>7. snap.units = derive_dependencies(snap.units)
  BY DEF SnapTrue
<1>8. new = derive_dependencies(new)
  BY <1>1, <1>3, <1>4, <1>6, <1>7, DeriveSame
<1>9. QED
  BY <1>3, <1>4, <1>5, <1>8, NewRecords DEF Succeeds

\* What a retry commits.
LEMMA RetryCommits ==
  ASSUME IndInv, NEW m \in Managers, NEW us, retry(m, us)
  PROVE  /\ snap'.life # "ABSENT" /\ snap' \in Snapshots /\ DraftTrue(snap')
         /\ Replace(m, snap', Resting) /\ granted' \in 0..MaxAuths
<1>1. Typed /\ SnapTrue(snap) /\ snap.life # "ABSENT"
  BY DEF IndInv, retry
<1>2. granted + 1 \in Auths /\ granted' \in 0..MaxAuths
  BY <1>1 DEF retry, Typed, Auths
<1>3. PICK id \in Auths : id = granted + 1
  BY <1>2
<1>4. PICK d : d = [snap EXCEPT !.units = [u \in Units |->
                      IF u \in us THEN [snap.units[u] EXCEPT !.auth = [id |-> id,
                             prev |-> snap.units[u].cur, risk |-> duplicate_risk(snap.units[u])]]
                      ELSE snap.units[u]]]
  OBVIOUS
<1>5. Replace(m, d, Resting)
  BY <1>3, <1>4 DEF retry, Amend
<1>6. d \in Snapshots /\ d.life = snap.life /\ DraftTrue(d)
  BY <1>1, <1>4, RetryIsTrue DEF retry
<1>7. snap' = d
  BY <1>5 DEF Replace
<1>8. QED
  BY <1>1, <1>2, <1>5, <1>6, <1>7

\* A retry authorizes what may be replaced.
LEMMA RetryKeeps ==
  ASSUME IndInv, NEW m \in Managers, NEW us, retry(m, us)
  PROVE  IndInv'
<1>1. PICK s \in Snapshots : s = snap'
  BY RetryCommits
<1>2. s.life # "ABSENT" /\ DraftTrue(s) /\ Replace(m, s, Resting) /\ granted' \in 0..MaxAuths
  BY <1>1, RetryCommits
<1>3. SnapTrue(s)
  BY <1>2 DEF DraftTrue
<1>4. campaign' = campaign /\ UNCHANGED cluster
  BY DEF retry
<1>5. QED
  BY <1>2, <1>3, <1>4, CommitKeeps, RestingIsTrue DEF Resting

\* A unit that was never submitted takes over a job of elsewhere.
LEMMA AdoptIsTrue ==
  ASSUME Typed, SnapTrue(snap), snap.life # "ABSENT", NEW u \in Units,
         NEW r \in UnitRecords, r = snap.units[u], r.tries = {},
         NEW x, x = Adopted(r),
         NEW new \in [Units -> UnitRecords], new[u] = x, \A v \in Units : v # u => new[v] = snap.units[v],
         NEW d, d = [life |-> snap.life, units |-> new]
  PROVE  /\ d \in Snapshots /\ d.life = snap.life /\ DraftTrue(d)
         /\ \A v \in Units : v # u => d.units[v] = snap.units[v]
         /\ ~SchedTold(d.units[u]) /\ d.units[u].exec \notin {"COMPLETED", "FAILED"}
<1>1. snap.units \in [Units -> UnitRecords] /\ snap = [life |-> snap.life, units |-> snap.units]
  BY SnapFacts DEF Typed, ClusterTyped
<1>2. /\ x \in UnitRecords /\ RecordTrue(x, u) /\ Follows(r, x)
      /\ x.dep = r.dep /\ r.exec = "UNBOUND" /\ x.exec = "UNKNOWN" /\ x.art = r.art /\ x.val = r.val
      /\ ~SchedTold(x) /\ x.exec \notin {"COMPLETED", "FAILED"}
  <2>1. RecordTrue(r, u)
    BY DEF SnapTrue
  <2>2. QED
    BY <2>1, AdoptedIsTrue
<1>3. \A v \in Units : RecordTrue(new[v], v) /\ Follows(snap.units[v], new[v])
  BY <1>2 DEF SnapTrue, Follows
<1>4. \A v \in Units : /\ new[v].dep = snap.units[v].dep
                       /\ Accepted(snap.units[v], campaign.require) <=> Accepted(new[v], campaign.require)
  <2>1. Accepted(r, campaign.require) <=> Accepted(x, campaign.require)
    BY <1>2, CampaignFacts DEF Accepted
  <2>2. QED
    BY <1>2, <2>1
<1>5. snap.units = derive_dependencies(snap.units)
  BY DEF SnapTrue
<1>6. new = derive_dependencies(new)
  BY <1>1, <1>4, <1>5, DeriveSame
<1>7. d \in Snapshots /\ d.life = snap.life /\ DraftTrue(d)
  BY <1>3, <1>6, NewRecords
<1>8. d.units = new
  OBVIOUS
<1>9. QED
  BY <1>2, <1>7, <1>8

\* What an adoption commits.
LEMMA AdoptCommits ==
  ASSUME IndInv, NEW m \in Managers, NEW u \in Units, NEW state, adopt(m, u, state)
  PROVE  /\ snap'.life # "ABSENT" /\ snap' \in Snapshots /\ DraftTrue(snap') /\ Replace(m, snap', Resting)
         /\ \A v \in Units : v # u => snap'.units[v] = snap.units[v]
         /\ ~SchedTold(snap'.units[u]) /\ snap'.units[u].exec \notin {"COMPLETED", "FAILED"}
<1>1. Typed /\ SnapTrue(snap) /\ snap.life # "ABSENT" /\ snap.units[u].tries = {}
  BY DEF IndInv, adopt
<1>2. snap.units \in [Units -> UnitRecords] /\ snap = [life |-> snap.life, units |-> snap.units]
  BY <1>1, SnapFacts DEF Typed
<1>3. PICK r : r = snap.units[u]
  OBVIOUS
<1>4. PICK x : x = Adopted(r)
  OBVIOUS
<1>5. PICK new : new = [snap.units EXCEPT ![u] = x]
  OBVIOUS
<1>6. PICK d : d = [life |-> snap.life, units |-> new]
  OBVIOUS
<1>7. Replace(m, d, Resting)
  <2>1. new = [snap.units EXCEPT ![u].exec = "UNKNOWN", ![u].cur = Outside, ![u].tries = {Outside}]
    BY <1>2, <1>3, <1>4, <1>5 DEF Adopted
  <2>2. d = [snap EXCEPT !.units = new]
    BY <1>2, <1>6
  <2>3. QED
    BY <2>1, <2>2 DEF adopt, Amend
<1>8. /\ d \in Snapshots /\ d.life = snap.life /\ DraftTrue(d)
      /\ \A v \in Units : v # u => d.units[v] = snap.units[v]
      /\ ~SchedTold(d.units[u]) /\ d.units[u].exec \notin {"COMPLETED", "FAILED"}
  <2>1. r \in UnitRecords /\ r.tries = {}
    BY <1>1, <1>2, <1>3
  <2>2. x \in UnitRecords
    <3>1. RecordTrue(r, u)
      BY <1>1, <1>3 DEF SnapTrue
    <3>2. QED
      BY <1>1, <1>4, <2>1, <3>1, AdoptedIsTrue
  <2>3. new \in [Units -> UnitRecords] /\ new[u] = x /\ \A v \in Units : v # u => new[v] = snap.units[v]
    BY <1>2, <1>5, <2>2
  <2>4. QED
    BY <1>1, <1>3, <1>4, <1>6, <2>1, <2>3, AdoptIsTrue
<1>9. snap' = d
  BY <1>7 DEF Replace
<1>10. QED
  BY <1>1, <1>7, <1>8, <1>9

\* An adoption speaks of a job that no attempt has.
LEMMA AdoptKeeps ==
  ASSUME IndInv, NEW m \in Managers, NEW u \in Units, NEW state \in {"PENDING", "COMPLETED", "FAILED"},
         adopt(m, u, state)
  PROVE  IndInv'
<1>1. PICK s \in Snapshots : s = snap'
  BY AdoptCommits
<1>2. /\ s.life # "ABSENT" /\ DraftTrue(s) /\ Replace(m, s, Resting)
      /\ ~SchedTold(s.units[u]) /\ s.units[u].exec \notin {"COMPLETED", "FAILED"}
  BY <1>1, AdoptCommits
<1>3. /\ UNCHANGED <<campaign, granted, ledger, bound, spent, marks, out, risked>>
      /\ rows' = [rows EXCEPT ![<<Outside, u>>] = state]
  BY DEF adopt
<1>4. Units' = Units /\ (Packed <=> Packed') /\ Units \subseteq AllUnits /\ ClusterTyped
  BY <1>3, UnitFacts DEF Units, Packed, IndInv, Typed
<1>5. rows' \in [Bindings \X AllUnits -> RowStates]
  BY <1>3, <1>4 DEF ClusterTyped, RowStates, TerminalStates
<1>6. \A a \in Bindings, v \in AllUnits : a # Outside \/ v # u => rows'[<<a, v>>] = rows[<<a, v>>]
  BY <1>3 DEF ClusterTyped
<1>7. ClusterTyped'
  BY <1>3, <1>4, <1>5 DEF ClusterTyped
<1>8. \A a \in Attempts, v \in AllUnits : rows'[<<a, v>>] = rows[<<a, v>>]
  BY <1>6, BindingFacts
<1>9. EndsStay(Attempts)
  BY <1>3, <1>4, <1>8 DEF EndsStay, Over, RowOver
<1>10. LedgerInOrder'
  <2>1. \A a \in Attempts : ledger[a].units \subseteq AllUnits
    BY <1>4 DEF ClusterTyped
  <2>2. QED
    BY <1>3, <1>4, <1>8, <2>1 DEF LedgerInOrder, IndInv
<1>11. ReplacedIsOver'
  <2>1. \A a \in Attempts : ledger[a].units \subseteq Units
    BY <1>4 DEF ClusterTyped
  <2>2. QED
    BY <1>3, <1>9, <2>1 DEF ReplacedIsOver, IndInv, EndsStay
<1>12. SnapTrue(s)'
  <2>1. SnapTrue(s)
    BY <1>2 DEF DraftTrue
  <2>2. s.units = derive_dependencies(s.units)'
    BY <1>2, <1>3, <1>4, <2>1 DEF SnapTrue, derive_dependencies
  <2>3. ASSUME NEW v \in Units PROVE RecordTrue(s.units[v], v)'
    <3>1. PICK r \in UnitRecords : r = s.units[v]
      BY <1>2, SnapFacts
    <3>2. RecordTrue(r, v)
      BY <1>2, <2>1, <3>1 DEF SnapTrue
    <3>3. r.cur \in Bindings \/ r.cur = None
      BY DEF UnitRecords, Refs
    <3>4. (SchedTold(r) \/ r.exec \in {"COMPLETED", "FAILED"}) => r.cur # None /\ v # u
      BY <1>2, <3>1, <3>2 DEF RecordTrue, SchedTold, NoRow
    <3>5. r.cur \in Bindings /\ v # u => rows'[<<r.cur, v>>] = rows[<<r.cur, v>>]
      BY <1>4, <1>6
    <3>6. SchedTold(r) => RowOver(r.cur, v)'
      BY <3>2, <3>3, <3>4, <3>5 DEF RecordTrue, RowOver
    <3>7. r.exec \in {"COMPLETED", "FAILED"} => Over(r.cur, v)'
      BY <1>3, <3>2, <3>3, <3>4, <3>5 DEF RecordTrue, Over, RowOver
    <3>8. ClaimTrue(r.auth.prev, r.auth.risk, v) => ClaimTrue(r.auth.prev, r.auth.risk, v)'
      BY <1>9 DEF ClaimTrue, EndsStay
    <3>9. RecordTrue(r, v)'
      BY <3>2, <3>6, <3>7, <3>8 DEF RecordTrue, Pending, SchedTold
    <3>10. QED
      BY <3>1, <3>9
  <2>4. QED
    BY <1>4, <2>2, <2>3 DEF SnapTrue
<1>13. granted' \in 0..MaxAuths
  BY <1>3 DEF IndInv, Typed
<1>14. QED
  BY <1>2, <1>7, <1>9, <1>10, <1>11, <1>12, <1>13, CommitMoves, RestingIsTrue DEF Resting

\* A refresh, alone or before a plan, drafts what was seen.
LEMMA ObserveKeeps ==
  ASSUME IndInv, NEW m \in Managers, NEW pc \in {"refresh", "plan"}, Observe(m, pc)
  PROVE  IndInv'
<1>1. PICK blind, lag, grace : Drafted(m, pc, Refreshed(blind, lag, grace))
  BY DEF Observe
<1>2. PICK d : d = Refreshed(blind, lag, grace)
  OBVIOUS
<1>3. Typed /\ SnapTrue(snap) /\ snap.life # "ABSENT"
  BY DEF IndInv, Observe
<1>4. d \in Snapshots /\ DraftTrue(d)
  BY <1>2, <1>3, RefreshedIsTrue
<1>5. ClusterKept
  BY ClusterRests DEF Observe, IndInv, ClusterInv, Typed
<1>6. Drafted(m, pc, d) /\ UNCHANGED <<snap, granted>>
  BY <1>1, <1>2 DEF Observe
<1>7. QED
  BY <1>3, <1>4, <1>5, <1>6, DraftMoves

\* A verification drafts its verdict.
LEMMA VerifyKeeps ==
  ASSUME IndInv, NEW m \in Managers, NEW us, NEW verdict \in {"PASSED", "FAILED", "ERROR"},
         verify(m, us, verdict)
  PROVE  IndInv'
<1>1. PICK d : d = [snap EXCEPT !.units = derive_dependencies([u \in Units |->
                       IF u \in us THEN Verified(u, snap.units[u], verdict) ELSE snap.units[u]])]
  OBVIOUS
<1>2. Typed /\ SnapTrue(snap) /\ snap.life # "ABSENT"
  BY DEF IndInv, verify
<1>3. d \in Snapshots /\ DraftTrue(d)
  BY <1>1, <1>2, VerifyIsTrue
<1>4. ClusterKept
  BY ClusterRests DEF verify, IndInv, ClusterInv, Typed
<1>5. Drafted(m, "verify", d) /\ UNCHANGED <<snap, granted>>
  BY <1>1 DEF verify
<1>6. QED
  BY <1>2, <1>3, <1>4, <1>5, DraftMoves

\* A cancellation drafts the end of what shares the allocation, which the
\* scheduler may end in the same step.
LEMMA CancelKeeps ==
  ASSUME IndInv, NEW m \in Managers, NEW u \in Units, cancel(m, u)
  PROVE  IndInv'
<1>1. Typed /\ SnapTrue(snap) /\ snap.life # "ABSENT" /\ ClusterInv
  BY DEF IndInv, cancel, ClusterInv, Typed
<1>2. PICK d : d = [snap EXCEPT !.units = [v \in Units |->
                      IF v \in Affected(u) THEN Cancelled(snap.units[v]) ELSE snap.units[v]]]
  OBVIOUS
<1>3. d \in Snapshots /\ DraftTrue(d)
  <2>1. \A v \in Affected(u) : snap.units[v].exec \in ACTIVE_EXECUTION
    BY DEF Affected
  <2>2. QED
    BY <1>1, <1>2, <2>1, CancelIsTrue
<1>4. Drafted(m, "cancel", d) /\ UNCHANGED <<snap, granted>>
  BY <1>2 DEF cancel
<1>5. ClusterKept
  <2>1. CASE UNCHANGED rows
    BY <1>1, <2>1, ClusterRests DEF cancel, cluster
  <2>2. CASE rows' # rows
    <3>1. PICK a \in Bindings : a = snap.units[u].cur
      BY BindingFacts DEF cancel, HasJob
    <3>2. PICK us : us = {v \in Together(a, u) : rows[<<a, v>>] \in {"PENDING", "RUNNING"}}
      OBVIOUS
    <3>3. Units \subseteq AllUnits /\ rows \in [Bindings \X AllUnits -> RowStates]
          /\ ledger \in [Attempts -> [units : SUBSET Units, state : EntryStates]]
      BY <1>1, UnitFacts DEF ClusterInv, ClusterTyped
    <3>4. Together(a, u) \subseteq Units
      BY <3>3, BindingFacts DEF Together
    <3>5. us \subseteq Units /\ \A v \in us : rows[<<a, v>>] \in {"PENDING", "RUNNING"}
      BY <3>2, <3>4
    <3>6. rows' = [k \in DOMAIN rows |-> IF k[1] = a /\ k[2] \in us THEN "CANCELLED" ELSE rows[k]]
      <4>1. rows' = [k \in DOMAIN rows |->
                       IF k[1] = a /\ k[2] \in Together(a, u) /\ rows[k] \in {"PENDING", "RUNNING"}
                         THEN "CANCELLED" ELSE rows[k]]
        BY <2>2, <3>1 DEF cancel
      <4>2. ASSUME NEW k \in DOMAIN rows
            PROVE  k[1] = a /\ k[2] \in Together(a, u) /\ rows[k] \in {"PENDING", "RUNNING"}
                     <=> k[1] = a /\ k[2] \in us
        <5>1. k = <<k[1], k[2]>>
          BY <3>3
        <5>2. QED
          BY <3>2, <5>1
      <4>3. QED
        BY <4>1, <4>2
    <3>7. Packed /\ a \in Attempts /\ us # {} => us = ledger[a].units
      <4> SUFFICES ASSUME Packed, a \in Attempts, us # {}
                   PROVE  us = ledger[a].units
        OBVIOUS
      <4>1. Together(a, u) = ledger[a].units
        BY BindingFacts DEF Together
      <4>2. \A v, w \in ledger[a].units : rows[<<a, v>>] = rows[<<a, w>>]
        BY <1>1 DEF ClusterInv, LedgerInOrder
      <4>3. QED
        BY <3>2, <4>1, <4>2
    <3>8. UNCHANGED <<campaign, ledger, bound, spent, marks, risked>> /\ out' \in [AllUnits -> Refs]
      BY <1>1 DEF cancel, ClusterInv, ClusterTyped
    <3>9. "CANCELLED" \in {"RUNNING"} \union TerminalStates
      BY DEF TerminalStates
    <3>10. QED
      BY <1>1, <3>5, <3>6, <3>7, <3>8, <3>9, RowsMove
  <2>3. QED
    BY <2>1, <2>2
<1>6. QED
  BY <1>1, <1>3, <1>4, <1>5, DraftMoves

\* An apply notes its selection.
LEMMA ApplyKeeps ==
  ASSUME IndInv, NEW m \in Managers, NEW us \in SUBSET Units, StartApply(m, us)
  PROVE  IndInv'
<1>1. PICK old \in Processes : old = proc[m]
  BY DEF IndInv, Typed
<1>2. PICK p : p = [old EXCEPT !.pc = "apply", !.sel = us]
  OBVIOUS
<1>3. p \in Processes /\ p.draft = old.draft /\ p.todo = old.todo
  BY <1>2 DEF Processes
<1>4. ProcTrue(old) /\ snap.life # "ABSENT"
  BY <1>1 DEF IndInv, StartApply
<1>5. ProcTrue(p)
  BY <1>3, <1>4 DEF ProcTrue
<1>6. proc' = [proc EXCEPT ![m] = p]
  BY <1>1, <1>2 DEF StartApply
<1>7. ClusterKept /\ UNCHANGED <<snap, granted>>
  BY ClusterRests DEF StartApply, IndInv, ClusterInv, Typed
<1>8. QED
  BY <1>3, <1>5, <1>6, <1>7, ProcMoves

\* The groups of a plan are what a process goes on to submit.
LEMMA SubmittingIsTrue ==
  ASSUME Typed, NEW m, NEW s \in Snapshots, s.life # "ABSENT", SnapTrue(s), NEW sel,
         NEW p, p = Submitting(m, plan_job_groups(s, sel))
  PROVE  p \in Processes /\ p.draft = Absent /\ \A g \in p.todo : GroupTrue(g)
<1>1. PICK plan : plan = plan_job_groups(s, sel)
  OBVIOUS
<1>2. plan \subseteq Groups /\ \A g \in plan : GroupTrue(g)
  BY <1>1, PlanIsTrue
<1>3. p = Submitting(m, plan)
  BY <1>1
<1>4. CASE plan = {}
  <2>1. p = Resting
    BY <1>3, <1>4 DEF Submitting
  <2>2. Resting.draft = Absent /\ Resting.todo = {}
    BY DEF Resting
  <2>3. QED
    BY <2>1, <2>2, RestingIsTrue
<1>5. CASE plan # {}
  <2>1. p = [pc |-> "ensure", draft |-> Absent, sel |-> {}, todo |-> plan, got |-> {}]
    BY <1>3, <1>5 DEF Submitting, Resting
  <2>2. Absent \in Snapshots
    BY DEF Snapshots
  <2>3. QED
    BY <1>2, <2>1, <2>2 DEF Processes
<1>6. QED
  BY <1>4, <1>5

\* A plan is made on what was committed, or on what others committed.
LEMMA PlanKeeps ==
  ASSUME IndInv, NEW m \in Managers, CommitAndPlan(m)
  PROVE  IndInv'
<1>1. PICK old \in Processes : old = proc[m]
  BY DEF IndInv, Typed
<1>2. old.pc = "plan" /\ snap.life # "ABSENT" /\ Typed /\ SnapTrue(snap)
  BY <1>1 DEF CommitAndPlan, IndInv, ProcTrue
<1>3. campaign' = campaign /\ UNCHANGED <<granted, cluster>>
  BY DEF CommitAndPlan
<1>4. CASE \E p : p = Submitting(m, plan_job_groups(old.draft, old.sel)) /\ CommitDraft(m, p)
  <2>1. PICK p : p = Submitting(m, plan_job_groups(old.draft, old.sel)) /\ CommitDraft(m, p)
    BY <1>4
  <2>2. PICK d \in Snapshots : d = old.draft
    BY DEF Processes
  <2>3. d.life # "ABSENT"
    BY <1>1, <2>1, <2>2 DEF CommitDraft, Conflict
  <2>4. SnapTrue(d)
    BY <1>1, <2>2, <2>3 DEF IndInv, ProcTrue, DraftTrue
  <2>5. p \in Processes /\ p.draft = Absent /\ \A g \in p.todo : GroupTrue(g)
    BY <1>2, <2>1, <2>2, <2>3, <2>4, SubmittingIsTrue
  <2>6. QED
    BY <1>3, <2>1, <2>5, DraftCommits
<1>5. CASE /\ proc' = [proc EXCEPT ![m] = Submitting(m, plan_job_groups(snap, old.sel))]
           /\ UNCHANGED snap
  <2>1. PICK p : p = Submitting(m, plan_job_groups(snap, old.sel))
    OBVIOUS
  <2>2. PICK s \in Snapshots : s = snap
    BY DEF IndInv, Typed
  <2>3. p \in Processes /\ p.draft = Absent /\ \A g \in p.todo : GroupTrue(g)
    BY <1>2, <2>1, <2>2, SubmittingIsTrue
  <2>4. ProcTrue(p)
    BY <1>2, <2>3 DEF ProcTrue, DraftTrue, Absent
  <2>5. ClusterKept
    BY <1>3, ClusterRests DEF IndInv, ClusterInv, Typed
  <2>6. QED
    BY <1>3, <1>5, <2>1, <2>3, <2>4, <2>5, ProcMoves
<1>6. QED
  BY <1>1, <1>4, <1>5 DEF CommitAndPlan

\* A group's outcomes come back, or its process gives up.
LEMMA AnsweredMoves ==
  ASSUME IndInv, ClusterKept, UNCHANGED <<snap, granted>>, NEW m \in Managers, NEW g \in proc[m].todo,
         snap.life # "ABSENT", NEW driven, driven \subseteq Attempts, Answered(m, g, driven)
  PROVE  IndInv'
<1>1. PICK old \in Processes : old = proc[m]
  BY DEF IndInv, Typed
<1>2. ProcTrue(old)
  BY <1>1 DEF IndInv
<1>3. CASE Rest(m)
  BY <1>3, RestMoves
<1>4. CASE ~Rest(m)
  <2>1. PICK pc \in {"merge", "ensure"} : pc = IF old.todo = {g} THEN "merge" ELSE "ensure"
    OBVIOUS
  <2>2. PICK p : p = [old EXCEPT !.todo = @ \ {g}, !.got = @ \union driven, !.pc = pc]
    OBVIOUS
  <2>3. proc' = [proc EXCEPT ![m] = p]
    BY <1>1, <1>4, <2>1, <2>2 DEF Answered
  <2>4. p \in Processes /\ p.draft = old.draft /\ p.todo = old.todo \ {g}
    BY <2>2 DEF Processes
  <2>5. ProcTrue(p)
    BY <1>2, <2>4 DEF ProcTrue
  <2>6. QED
    BY <2>3, <2>4, <2>5, ProcMoves
<1>5. QED
  BY <1>3, <1>4

\* The last attempt of the units of an attempt is one.
LEMMA CurrentIsAttempt ==
  ASSUME NEW a \in Attempts
  PROVE  CurrentOf(a) \in Attempts
<1>1. PICK S : S = {b \in Attempts : ledger[b].units = ledger[a].units}
  OBVIOUS
<1>2. Max(S) \in S
  BY <1>1, MaxIsLast
<1>3. QED
  BY <1>1, <1>2 DEF CurrentOf

\* The ledger leads to attempts.
LEMMA LedgerLeadsOn ==
  ASSUME ClusterTyped, NEW g \in Groups
  PROVE  Paid(g) \subseteq Attempts /\ Blocking(g) \subseteq Attempts
<1>1. g.units \subseteq AllUnits /\ \A c \in g.claims : c.id \in Auths /\ c.unit \in AllUnits
  BY UnitFacts DEF Groups, ClaimRecords
<1>2. \A c \in g.claims : spent[<<c.id, c.unit>>] \in Attempts \union {None}
  BY <1>1 DEF ClusterTyped
<1>3. \A u \in g.units : bound[u] \in Attempts \union {None}
  BY <1>1 DEF ClusterTyped
<1>4. QED
  BY <1>2, <1>3 DEF Paid, Blocking

\* Attempts are followed where they exist.
LEMMA FollowMoves ==
  ASSUME IndInv, snap.life # "ABSENT", NEW m \in Managers, NEW g \in proc[m].todo, NEW S, S \subseteq Attempts,
         Follow(m, g, {CurrentOf(a) : a \in S})
  PROVE  IndInv'
<1>1. PICK driven : driven = {CurrentOf(a) : a \in S}
  OBVIOUS
<1>2. driven \subseteq Attempts
  BY <1>1, CurrentIsAttempt
<1>3. Follow(m, g, driven)
  BY <1>1
<1>4. PICK states : DriveTo(ledger, driven, states)
  BY <1>3 DEF Follow
<1>5. Answered(m, g, driven) /\ UNCHANGED <<campaign, asked, snap, granted, bound, spent, marks, out, risked>>
  BY <1>3 DEF Follow
<1>6. ClusterKept
  BY <1>2, <1>4, <1>5, FollowKeeps DEF IndInv, ClusterInv, Typed
<1>7. QED
  BY <1>2, <1>5, <1>6, AnsweredMoves

\* A group is submitted for the first time, again, or behind another.
LEMMA SubmitKeeps ==
  ASSUME IndInv, NEW m \in Managers, NEW g \in proc[m].todo,
         Replay(m, g) \/ Recover(m, g) \/ \E a \in Attempts : Intend(m, g, a)
  PROVE  IndInv'
<1>1. g \in Groups /\ GroupTrue(g)
  BY DEF IndInv, Typed, Processes, ProcTrue
<1>2. Paid(g) \subseteq Attempts /\ Blocking(g) \subseteq Attempts
  BY <1>1, LedgerLeadsOn DEF IndInv, Typed
<1>3. snap.life # "ABSENT"
  BY DEF IndInv, ProcTrue, Replay, Recover, Intend
<1>4. CASE Replay(m, g)
  BY <1>3, <1>2, <1>4, FollowMoves DEF Replay
<1>5. CASE Recover(m, g)
  BY <1>3, <1>2, <1>5, FollowMoves DEF Recover
<1>6. ASSUME NEW a \in Attempts, Intend(m, g, a) PROVE IndInv'
  <2>1. PICK s : DriveTo([ledger EXCEPT ![a] = [units |-> g.units, state |-> "INTENDED"]], {a}, [b \in {a} |-> s])
    BY <1>6 DEF Intend
  <2>2. PICK states : states = [b \in {a} |-> s]
    OBVIOUS
  <2>3. DriveTo([ledger EXCEPT ![a] = [units |-> g.units, state |-> "INTENDED"]], {a}, states)
    BY <2>1, <2>2
  <2>4. /\ Matches(g) /\ Blocking(g) = {} /\ Fresh(a)
        /\ bound' = [u \in AllUnits |-> IF u \in g.units THEN a ELSE bound[u]]
        /\ spent' = [k \in DOMAIN spent |->
                       IF \E c \in g.claims : k = <<c.id, c.unit>> THEN a ELSE spent[k]]
        /\ risked' = risked \union {<<c.prev, c.unit>> : c \in {d \in g.claims : d.risk}}
        /\ UNCHANGED <<campaign, marks, out>>
    BY <1>6 DEF Intend
  <2>5. ClusterInv
    BY DEF IndInv, ClusterInv, Typed
  <2>6. ClusterKept
    BY <1>1, <2>3, <2>4, <2>5, IntendKeeps
  <2>7. Answered(m, g, {a}) /\ UNCHANGED <<snap, granted>> /\ {a} \subseteq Attempts
    BY <1>6 DEF Intend
  <2>8. QED
    BY <1>3, <2>6, <2>7, AnsweredMoves
<1>7. QED
  BY <1>4, <1>5, <1>6

\* The outcomes are drafted into the snapshot of now.
LEMMA MergeKeeps ==
  ASSUME IndInv, NEW m \in Managers, _merge_submission_outcomes(m)
  PROVE  IndInv'
<1>1. PICK old \in Processes : old = proc[m]
  BY DEF IndInv, Typed
<1>2. snap.life # "ABSENT" /\ Typed /\ SnapTrue(snap)
  BY DEF _merge_submission_outcomes, IndInv, ProcTrue
<1>3. ClusterKept /\ UNCHANGED <<snap, granted>>
  BY ClusterRests DEF _merge_submission_outcomes, IndInv, ClusterInv, Typed
<1>4. CASE Rest(m)
  BY <1>3, <1>4, RestMoves
<1>5. CASE Drafted(m, "merging", Merged(old.got))
  <2>1. PICK d : d = Merged(old.got)
    OBVIOUS
  <2>2. old.got \subseteq Attempts
    BY DEF Processes
  <2>3. d \in Snapshots /\ DraftTrue(d)
    BY <1>2, <2>1, <2>2, MergedIsTrue
  <2>4. Drafted(m, "merging", d)
    BY <1>5, <2>1
  <2>5. QED
    BY <1>2, <1>3, <2>3, <2>4, DraftMoves
<1>6. QED
  BY <1>1, <1>4, <1>5 DEF _merge_submission_outcomes

\* A merge is committed, or starts again.
LEMMA CommitMergeKeeps ==
  ASSUME IndInv, NEW m \in Managers, CommitMerge(m)
  PROVE  IndInv'
<1>1. PICK old \in Processes : old = proc[m]
  BY DEF IndInv, Typed
<1>2. campaign' = campaign /\ UNCHANGED <<granted, cluster>>
  BY DEF CommitMerge
<1>3. CASE CommitDraft(m, Resting)
  BY <1>2, <1>3, RestingIsTrue, DraftCommits DEF Resting
<1>4. CASE proc' = [proc EXCEPT ![m].pc = "merge"] /\ UNCHANGED snap
  <2>1. PICK p : p = [old EXCEPT !.pc = "merge"]
    OBVIOUS
  <2>2. p \in Processes /\ p.draft = old.draft /\ p.todo = old.todo
    BY <2>1 DEF Processes
  <2>3. ProcTrue(old) /\ snap.life # "ABSENT"
    BY <1>1 DEF CommitMerge, IndInv, ProcTrue
  <2>4. ProcTrue(p)
    BY <2>2, <2>3 DEF ProcTrue
  <2>5. proc' = [proc EXCEPT ![m] = p]
    BY <1>1, <1>4, <2>1
  <2>6. ClusterKept
    BY <1>2, ClusterRests DEF IndInv, ClusterInv, Typed
  <2>7. QED
    BY <1>2, <1>4, <2>2, <2>4, <2>5, <2>6, ProcMoves
<1>5. QED
  BY <1>3, <1>4 DEF CommitMerge

------------------------------------------------------------------------------
(* The whole system *)

\* Nothing exists at first.
LEMMA InitInv == Init => IndInv
<1> SUFFICES ASSUME Init PROVE IndInv
  OBVIOUS
<1>1. campaign \in Definitions /\ snap = Absent /\ granted = 0 /\ proc = [m \in Managers |-> Resting]
  BY DEF Init
<1>2. ClusterTyped
  BY DEF Init, ClusterTyped, EntryStates, Bindings, RowStates, Refs
<1>3. Typed
  <2>1. 0 \in 0..MaxAuths
    OBVIOUS
  <2>2. Absent \in Snapshots
    BY DEF Snapshots
  <2>3. QED
    BY <1>1, <1>2, <2>1, <2>2, RestingIsTrue DEF Typed
<1>4. \A a \in Attempts : ledger[a].units = {} /\ ledger[a].state = "ABSENT"
  BY DEF Init
<1>5. \A a \in Attempts, u \in AllUnits : rows[<<a, u>>] = NoRow
  BY BindingFacts DEF Init, Bindings
<1>6. LedgerInOrder /\ ReplacedIsOver
  BY <1>4, <1>5 DEF LedgerInOrder, ReplacedIsOver
<1>7. SnapTrue(snap)
  BY <1>1 DEF SnapTrue, Absent
<1>8. QED
  BY <1>1, <1>3, <1>6, <1>7, RestingIsTrue DEF IndInv

\* A step of one controller.
LEMMA ManagerKeeps ==
  ASSUME IndInv, NEW m \in Managers, ManagerStep(m)
  PROVE  IndInv'
<1>1. CASE start(m)
  BY <1>1, StartKeeps
<1>2. CASE close(m) \/ archive(m) \/ restore(m)
  <2>1. snap.life # "ABSENT"
    BY <1>2 DEF close, archive, restore
  <2>2. PICK life \in Lives : SetLife(m, "close", life)
    BY <1>2 DEF close, archive, restore, Lives
  <2>3. QED
    BY <2>1, <2>2, LifeKeeps
<1>3. CASE \E u \in Units : cancel(m, u) \/ \E s \in {"PENDING", "COMPLETED", "FAILED"} : adopt(m, u, s)
  BY <1>3, CancelKeeps, AdoptKeeps
<1>4. CASE \E us \in SUBSET Units : \/ retry(m, us)
                                    \/ StartApply(m, us)
                                    \/ \E v \in {"PASSED", "FAILED", "ERROR"} : verify(m, us, v)
  BY <1>4, RetryKeeps, ApplyKeeps, VerifyKeeps
<1>5. CASE StartRefresh(m) \/ ObserveApply(m)
  BY <1>5, ObserveKeeps DEF StartRefresh, ObserveApply
<1>6. CASE CommitObserved(m)
  <2>1. campaign' = campaign /\ UNCHANGED <<granted, cluster>>
    BY <1>6 DEF CommitObserved
  <2>2. CASE CommitDraft(m, Resting)
    <3>1. Resting.draft = Absent /\ Resting.todo = {}
      BY DEF Resting
    <3>2. QED
      BY <2>1, <2>2, <3>1, RestingIsTrue, DraftCommits
  <2>3. CASE Rest(m) /\ UNCHANGED snap
    BY <2>1, <2>3, ClusterRests, RestMoves DEF IndInv, ClusterInv, Typed
  <2>4. QED
    BY <1>6, <2>2, <2>3 DEF CommitObserved
<1>7. CASE CommitAndPlan(m)
  BY <1>7, PlanKeeps
<1>8. CASE \E g \in proc[m].todo : Replay(m, g) \/ Recover(m, g) \/ \E a \in Attempts : Intend(m, g, a)
  BY <1>8, SubmitKeeps
<1>9. CASE Abort(m) \/ \E g \in proc[m].todo : ClaimRefused(m, g)
  BY <1>9, ClusterRests, RestMoves DEF Abort, ClaimRefused, IndInv, ClusterInv, Typed
<1>10. CASE _merge_submission_outcomes(m) \/ CommitMerge(m)
  BY <1>10, MergeKeeps, CommitMergeKeeps
<1>11. QED
  BY <1>1, <1>2, <1>3, <1>4, <1>5, <1>6, <1>7, <1>8, <1>9, <1>10 DEF ManagerStep

\* A step that no controller takes.
LEMMA OthersKeep ==
  ASSUME IndInv, ClusterKept, UNCHANGED <<snap, granted, proc>>
  PROVE  IndInv'
<1>1. EndsStay(Bindings) /\ campaign' = campaign
  BY DEF ClusterKept, EndsStay
<1>2. Typed'
  BY <1>1, TypesStay DEF IndInv, Typed, ClusterKept
<1>3. SnapTrue(snap)'
  <2>1. PICK s \in Snapshots : s = snap
    BY DEF IndInv, Typed
  <2>2. SnapTrue(s)'
    BY <1>1, <2>1, SnapStays DEF IndInv
  <2>3. QED
    BY <2>1, <2>2 DEF SnapTrue
<1>4. ASSUME NEW n \in Managers PROVE ProcTrue(proc[n])'
  <2>1. PICK q \in Processes : q = proc[n]
    BY DEF IndInv, Typed
  <2>2. ProcTrue(q)'
    BY <1>1, <2>1, ProcStays DEF IndInv
  <2>3. QED
    BY <2>1, <2>2
<1>5. QED
  BY <1>2, <1>3, <1>4 DEF IndInv, ClusterKept

\* No step makes the invariant false.
LEMMA NextInv == IndInv /\ [Next]_vars => IndInv'
<1> SUFFICES ASSUME IndInv, [Next]_vars PROVE IndInv'
  OBVIOUS
<1>1. ClusterInv
  BY DEF IndInv, ClusterInv, Typed
<1>2. CASE ClusterStep
  BY <1>1, <1>2, ClusterSteps, OthersKeep
<1>3. ASSUME NEW m \in Managers, ManagerStep(m) PROVE IndInv'
  BY <1>3, ManagerKeeps
<1>4. CASE UNCHANGED vars
  BY <1>1, <1>4, ClusterRests, OthersKeep DEF vars, cluster
<1>5. QED
  BY <1>2, <1>3, <1>4 DEF Next

\* What the snapshot, every draft and every plan say of an attempt is true, the
\* ledger numbers attempts in order, and what it replaced is over or was
\* replaced at an accepted risk: _refresh, _commit_snapshot and the ledger.
THEOREM Inductive == Spec => []IndInv
<1>1. Init => IndInv
  BY InitInv
<1>2. IndInv /\ [Next]_vars => IndInv'
  BY NextInv
<1>3. QED
  BY <1>1, <1>2, PTL DEF Spec

\* Of two attempts of a unit that run together, the older was replaced with its
\* duplicate risk accepted: NoUnsanctionedDuplicate, for every campaign and any
\* number of controllers.
THEOREM DuplicatesAreSanctioned == Spec => []NoUnsanctionedDuplicate
<1>1. IndInv => NoUnsanctionedDuplicate
  <2> SUFFICES ASSUME IndInv, NEW u \in Units, NEW a \in LiveFor(u), NEW b \in LiveFor(u), a < b
               PROVE  <<a, u>> \in risked
    BY DEF NoUnsanctionedDuplicate
  <2>1. /\ a \in Attempts /\ b \in Attempts /\ u \in AllUnits
        /\ rows[<<a, u>>] \in {"PENDING", "RUNNING"} /\ rows[<<b, u>>] \in {"PENDING", "RUNNING"}
        /\ marks[<<a, u>>] \notin {"ok", "bad"}
    BY UnitFacts DEF LiveFor, IndInv, Typed
  <2>2. rows[<<a, u>>] # NoRow /\ rows[<<b, u>>] # NoRow
    BY <2>1 DEF NoRow
  <2>3. u \in ledger[a].units /\ u \in ledger[b].units /\ ledger[a].state # "REJECTED"
    BY <2>1, <2>2 DEF IndInv, LedgerInOrder
  <2>4. b <= bound[u] /\ bound[u] \in Attempts
    BY <2>1, <2>3 DEF IndInv, LedgerInOrder, Typed, ClusterTyped
  <2>5. a # bound[u]
    BY <2>1, <2>4, BindingFacts
  <2>6. ~Over(a, u)
    BY <2>1, <2>3 DEF Over, RowOver, TerminalStates
  <2>7. QED
    BY <2>1, <2>3, <2>5, <2>6 DEF IndInv, ReplacedIsOver
<1>2. QED
  BY <1>1, Inductive, PTL

\* A committed dependency is what the other axes of the snapshot say, and a
\* validation that passed is of the output last observed, although cancel,
\* retry and adopt commit without deriving the dependencies: GatesAreHonest.
THEOREM GatesHold == Spec => []GatesAreHonest
<1>1. IndInv => GatesAreHonest
  BY DEF IndInv, SnapTrue, RecordTrue, GatesAreHonest
<1>2. QED
  BY <1>1, Inductive, PTL

\* What each commit does to a unit's history.
LEMMA CommitsFollow ==
  ASSUME IndInv, [Next]_vars, snap.life # "ABSENT"
  PROVE  \A u \in Units : Follows(snap.units[u], snap'.units[u])
<1>1. CASE snap' = snap
  BY <1>1 DEF Follows
<1>2. ASSUME NEW m \in Managers, NEW p, CommitDraft(m, p)
      PROVE  \A u \in Units : Follows(snap.units[u], snap'.units[u])
  <2>1. PICK d : d = proc[m].draft
    OBVIOUS
  <2>2. DraftTrue(d) /\ d.life # "ABSENT" /\ snap' = d
    BY <1>2, <2>1 DEF IndInv, ProcTrue, CommitDraft, Conflict, Replace
  <2>3. QED
    BY <2>2 DEF DraftTrue
<1>3. ASSUME NEW m \in Managers, NEW op, NEW life, SetLife(m, op, life)
      PROVE  \A u \in Units : Follows(snap.units[u], snap'.units[u])
  <2>1. snap \in Snapshots /\ snap' = [snap EXCEPT !.life = life]
    BY <1>3 DEF IndInv, Typed, SetLife, Replace
  <2>2. snap = [life |-> snap.life, units |-> snap.units]
    BY <2>1, SnapFacts
  <2>3. snap'.units = snap.units
    BY <2>1, <2>2
  <2>4. QED
    BY <2>3 DEF Follows
<1>4. ASSUME NEW m \in Managers, NEW us, retry(m, us)
      PROVE  \A u \in Units : Follows(snap.units[u], snap'.units[u])
  BY <1>4, RetryCommits DEF DraftTrue
<1>5. ASSUME NEW m \in Managers, NEW u \in Units, NEW state, adopt(m, u, state)
      PROVE  \A v \in Units : Follows(snap.units[v], snap'.units[v])
  BY <1>5, AdoptCommits DEF DraftTrue
<1>6. ASSUME snap' # snap
      PROVE  \E m \in Managers :
               \/ \E p : CommitDraft(m, p)
               \/ \E op, life : SetLife(m, op, life)
               \/ \E us : retry(m, us)
               \/ \E u \in Units : \E state : adopt(m, u, state)
  <2>1. ~ClusterStep
    BY <1>6, ClusterSteps DEF IndInv, ClusterInv, Typed
  <2>2. PICK m \in Managers : ManagerStep(m)
    BY <1>6, <2>1 DEF Next, vars
  <2>3. ~start(m)
    BY DEF start
  <2>4. CASE close(m) \/ archive(m) \/ restore(m)
    BY <2>4 DEF close, archive, restore
  <2>5. CASE \E u \in Units : cancel(m, u) \/ \E s \in {"PENDING", "COMPLETED", "FAILED"} : adopt(m, u, s)
    BY <1>6, <2>5 DEF cancel
  <2>6. CASE \E us \in SUBSET Units : \/ retry(m, us)
                                      \/ StartApply(m, us)
                                      \/ \E v \in {"PASSED", "FAILED", "ERROR"} : verify(m, us, v)
    BY <1>6, <2>6 DEF StartApply, verify
  <2>7. CASE StartRefresh(m) \/ ObserveApply(m)
    BY <1>6, <2>7 DEF StartRefresh, ObserveApply, Observe
  <2>8. CASE CommitObserved(m)
    BY <1>6, <2>8 DEF CommitObserved
  <2>9. CASE CommitAndPlan(m)
    BY <1>6, <2>9 DEF CommitAndPlan
  <2>10. CASE \E g \in proc[m].todo : \/ Replay(m, g) \/ Recover(m, g) \/ ClaimRefused(m, g)
                                      \/ \E a \in Attempts : Intend(m, g, a)
    BY <1>6, <2>10 DEF Replay, Recover, ClaimRefused, Intend, Follow
  <2>11. CASE _merge_submission_outcomes(m)
    BY <1>6, <2>11 DEF _merge_submission_outcomes
  <2>12. CASE CommitMerge(m)
    BY <1>6, <2>12 DEF CommitMerge
  <2>13. CASE Abort(m)
    BY <1>6, <2>13 DEF Abort
  <2>14. QED
    BY <2>2, <2>3, <2>4, <2>5, <2>6, <2>7, <2>8, <2>9, <2>10, <2>11, <2>12, <2>13 DEF ManagerStep
<1>7. QED
  BY <1>1, <1>2, <1>3, <1>4, <1>5, <1>6

\* A unit's history only grows, and an attempt that was replaced never becomes
\* the current one again: HistoryOnlyGrows, whatever order the controllers
\* merge their outcomes and commit their observations in.
THEOREM HistoryGrows == Spec => HistoryOnlyGrows
<1>1. IndInv /\ [Next]_vars =>
        [snap.life # "ABSENT" => \A u \in Units :
           /\ snap.units[u].tries \subseteq snap'.units[u].tries
           /\ snap'.units[u].cur # snap.units[u].cur => snap'.units[u].cur \notin snap.units[u].tries]_vars
  BY CommitsFollow DEF Follows
<1>2. QED
  BY <1>1, Inductive, PTL DEF Spec, HistoryOnlyGrows
==============================================================================
