-------------------------- MODULE CampaignRecovery --------------------------
(***************************************************************************)
(* The observer's import of a campaign's records (activity/recovery.py,    *)
(* activity/monitor.py) by bounded reads (stub.py: op_campaign_read,       *)
(* op_campaign_ledger_read, op_campaign_changes).  A pass takes one page   *)
(* of units, of the execution ledger and of the commits; where to go on is *)
(* a checkpoint, saved after each read.  The campaign moves meanwhile, and *)
(* a pass may fail or its process die after any step.                      *)
(***************************************************************************)
EXTENDS Integers, FiniteSets

CONSTANTS Groups,      \* job groups of the ledger: numbers, in the order of their ids
          MaxState,    \* bound: how often a group's record changes
          MaxCommits,  \* bound: commits of the campaign
          Window,      \* commits a read walks back from HEAD
          UnitPages    \* pages of units in a snapshot

VARIABLES head,        \* the campaign's commits are 1..head
          ledger,      \* the state of each group's record, 0 for none
          cp,          \* the checkpoint
          observer,    \* the pass under way
          imported,    \* the newest state of each group in the journal
          known,       \* commits in the journal
          cached,      \* the commit each page of units was cached from
          swept        \* history: the ledger whose last page was imported last

recoveryVars == <<head, ledger, cp, observer, imported, known, cached, swept>>
campaign == <<head, ledger>>
journal  == <<imported, known, cached>>

None == [g \in Groups |-> 0]
NoPage == [next |-> -1, digest |-> None]
Fresh == [summary |-> 0, index |-> FALSE, ready |-> FALSE, page |-> NoPage,
          after |-> 0, snapshot |-> 0, unitPage |-> 0, offset |-> 0, digest |-> None, gap |-> FALSE]
Resting == [pc |-> "idle", todo |-> {}, page |-> NoPage, changes |-> {}, last |-> 0, reached |-> TRUE]

RecoveryInit ==
  /\ head = 1
  /\ ledger = None
  /\ cp = Fresh
  /\ observer = Resting
  /\ imported = None
  /\ known = {}
  /\ cached = [p \in 1..UnitPages |-> 0]
  /\ swept = None

------------------------------------------------------------------------------
(* The campaign *)

Commits ==
  /\ head < MaxCommits
  /\ head' = head + 1
  /\ UNCHANGED <<ledger, cp, observer, journal, swept>>

LedgerChanges(g) ==
  /\ ledger[g] < MaxState
  /\ ledger' = [ledger EXCEPT ![g] = @ + 1]
  /\ UNCHANGED <<head, cp, observer, journal, swept>>

------------------------------------------------------------------------------
(* A pass *)

Goes(o) == observer' = o
Reading == observer.pc = "reading"

Begin ==
  /\ observer.pc = "idle"
  /\ Goes([Resting EXCEPT !.pc = "reading"])
  /\ UNCHANGED <<campaign, cp, journal, swept>>

\* The read budget is spent, the connection fails, or the process dies.
Fails ==
  /\ observer.pc # "idle"
  /\ Goes(Resting)
  /\ UNCHANGED <<campaign, cp, journal, swept>>

\* A pinned commit is looked for by walking back from HEAD, so far and no
\* further: too_large, on every later pass too, since the pin is kept.
_campaign_reachable(commit) == head - commit < Window

TooFarBack(commit) == ~_campaign_reachable(commit) /\ Goes(Resting) /\ UNCHANGED <<campaign, cp, journal, swept>>

ReadSummary ==
  /\ Reading
  /\ cp.summary = 0
  /\ \/ cp.snapshot # 0 /\ TooFarBack(cp.snapshot)
     \/ /\ cp.snapshot # 0 => _campaign_reachable(cp.snapshot)
        /\ cp' = [cp EXCEPT !.summary = IF cp.snapshot # 0 THEN cp.snapshot ELSE head]
        /\ UNCHANGED <<campaign, observer, journal, swept>>

ReadIndex ==
  /\ Reading
  /\ cp.summary # 0 /\ ~cp.index
  /\ \/ TooFarBack(cp.summary)
     \/ /\ _campaign_reachable(cp.summary)
        /\ cp' = [cp EXCEPT !.index = TRUE]
        /\ UNCHANGED <<campaign, observer, journal, swept>>

\* One page of units, of the commit the summary came from.
cache_snapshot ==
  /\ Reading
  /\ cp.index /\ ~cp.ready
  /\ \/ TooFarBack(cp.summary)
     \/ /\ _campaign_reachable(cp.summary)
        /\ cached' = [cached EXCEPT ![cp.unitPage + 1] = cp.summary]
        /\ cp' = [cp EXCEPT !.ready = TRUE]
        /\ UNCHANGED <<campaign, observer, imported, known, swept>>

SameLedger == cp.digest \in {None, ledger}

\* A page of the ledger, one group long; its further pages must be of the same
\* ledger.  The groups are those there are, in the order of their ids, and the
\* offset is how many of them earlier pages had.
op_campaign_ledger_read ==
  LET present == {g \in Groups : ledger[g] > 0}
      groups == {g \in present : Cardinality({h \in present : h < g}) = cp.offset}
      end == cp.offset + Cardinality(groups)
  IN  /\ Reading
      /\ cp.ready /\ cp.page = NoPage
      /\ IF SameLedger
           THEN Goes([observer EXCEPT !.pc = "importing", !.todo = {<<g, ledger[g]>> : g \in groups},
                                      !.page = [next |-> IF end < Cardinality(present) THEN end ELSE 0, digest |-> ledger]])
           ELSE Goes([Resting EXCEPT !.pc = "conflict"])
      /\ UNCHANGED <<campaign, cp, journal, swept>>

\* A record older than the one imported does not replace it.
import_group ==
  /\ observer.pc = "importing"
  /\ \/ \E group \in observer.todo :
          /\ imported' = [imported EXCEPT ![group[1]] = IF @ < group[2] THEN group[2] ELSE @]
          /\ Goes([observer EXCEPT !.todo = @ \ {group}])
          /\ UNCHANGED cp
     \/ /\ observer.todo = {}
        /\ cp' = [cp EXCEPT !.page = observer.page]
        /\ Goes([Resting EXCEPT !.pc = "reading"])
        /\ UNCHANGED imported
  /\ UNCHANGED <<campaign, known, cached, swept>>

\* A bug: a first pass is taken to begin at the beginning.
FirstIsWhole == cp.after = 0 \/ head - cp.after < Window

\* The walk from HEAD back to the commit read last has found it.
Reached == IF cp.after = 0 THEN head <= Window ELSE head - cp.after < Window

\* A page of the commits since, one commit long, the oldest of those found.
op_campaign_changes ==
  LET chain == {k \in 1..head : k > cp.after /\ head - k < Window}
      first == {k \in chain : \A l \in chain : k <= l}
  IN  /\ Reading
      /\ cp.page # NoPage
      /\ Goes([Resting EXCEPT !.pc = "recording", !.changes = first, !.reached = Reached,
                              !.last = IF chain = {} THEN cp.after ELSE CHOOSE k \in first : TRUE])
      /\ UNCHANGED <<campaign, cp, journal, swept>>

RecordChange ==
  /\ observer.pc = "recording"
  /\ observer.changes # {}
  /\ known' = known \union observer.changes
  /\ Goes([observer EXCEPT !.changes = {}])
  /\ UNCHANGED <<campaign, cp, imported, cached, swept>>

\* Where the next pass goes on.
Finish ==
  LET more == cp.unitPage + 1 < UnitPages IN
  /\ observer.pc = "recording"
  /\ observer.changes = {}
  /\ cp' = [Fresh EXCEPT !.after = observer.last,
                         !.snapshot = IF more THEN cp.summary ELSE 0,
                         !.unitPage = IF more THEN cp.unitPage + 1 ELSE 0,
                         !.offset = cp.page.next,
                         !.digest = IF cp.page.next # 0 THEN cp.page.digest ELSE None,
                         !.gap = cp.gap \/ ~observer.reached]
  /\ swept' = IF cp.page.next = 0 THEN cp.page.digest ELSE swept
  /\ Goes(Resting)
  /\ UNCHANGED <<campaign, journal>>

\* Any collector of the run may meet a conflict; the recovery starts over then,
\* and says that it has a gap.
SampleConflicts ==
  /\ observer.pc = "idle"
  /\ Goes([Resting EXCEPT !.pc = "conflict"])
  /\ UNCHANGED <<campaign, cp, journal, swept>>

Restart ==
  /\ observer.pc = "conflict"
  /\ cp' = [Fresh EXCEPT !.after = cp.after, !.gap = TRUE]
  /\ Goes(Resting)
  /\ UNCHANGED <<campaign, journal, swept>>

RecoveryNext ==
  \/ Commits \/ (\E g \in Groups : LedgerChanges(g))
  \/ Begin \/ Fails \/ ReadSummary \/ ReadIndex \/ cache_snapshot \/ op_campaign_ledger_read \/ import_group
  \/ op_campaign_changes \/ RecordChange \/ Finish \/ SampleConflicts \/ Restart

------------------------------------------------------------------------------
(* Properties *)

\* Whatever fails in between: unless it says that there is a gap, the journal
\* has every commit up to where it goes on; once the last page of a ledger is
\* in, every group of that ledger is; and the pages of units of one snapshot
\* are cached from one commit.
RecoveryIsWhole ==
  /\ cp.gap \/ 1..cp.after \subseteq known
  /\ \A g \in Groups : imported[g] >= swept[g]
  /\ \A p \in 1..cp.unitPage : cached[p] = cp.snapshot
==============================================================================
