---------------------------- MODULE CampaignCommit ---------------------------
(***************************************************************************)
(* The transaction store of a campaign run (src/remoteslurm/stub.py,       *)
(* op_campaign_commit): immutable views and journal entries named by       *)
(* revision and transaction, a transactions/<id> directory for staging and *)
(* idempotency, and HEAD, advanced last.  The run's lease admits one       *)
(* worker at a time; it may be killed between any two durable steps, and   *)
(* the caller, or another one, may send any request again.                 *)
(***************************************************************************)
EXTENDS Naturals, FiniteSets, Sequences

CONSTANTS Transactions, \* transaction ids
          Contents,     \* the documents and events of a request
          NoTx, None,
          MaxRevision,  \* bound: revisions of the run
          MaxDeaths,    \* bound: workers that may be killed
          Persistent    \* transactions whose caller repeats until answered

VARIABLES head,     \* HEAD: revision and transaction
          views,    \* views/<revision>-<tx>
          journal,  \* journal/<revision>-<tx>.json
          txdir,    \* transactions/<tx>
          work,     \* the request being served, and its next durable step
          acked,    \* history: the commits callers were told of
          deaths

vars == <<head, views, journal, txdir, work, acked, deaths>>

Keys     == (1..MaxRevision) \X Transactions
Digests  == [expected : 0..(MaxRevision - 1), content : Contents]
Pointers == [revision : 0..MaxRevision, tx : Transactions \union {NoTx}]
Entries  == [parent : Pointers, digest : Digests]
Origin   == [revision |-> 0, tx |-> NoTx]
NoTxDir  == [made |-> FALSE, request |-> None, result |-> None]
Idle     == [step |-> "idle"]

ASSUME CampaignCommitAssumption ==
  /\ NoTx \notin Transactions
  /\ None \notin Contents \union Digests \union Entries
  /\ MaxRevision \in Nat
  /\ MaxDeaths \in Nat

Init ==
  /\ head = Origin
  /\ views = [k \in Keys |-> None]
  /\ journal = [k \in Keys |-> None]
  /\ txdir = [t \in Transactions |-> NoTxDir]
  /\ work = Idle
  /\ acked = {}
  /\ deaths = 0

\* The commits reachable from HEAD by parent links, newest first: history[i]
\* is the pointer i links away from HEAD (_campaign_reachable).
History ==
  LET chain[i \in 0..head.revision] ==
        IF i = 0 THEN head
        ELSE journal[<<chain[i - 1].revision, chain[i - 1].tx>>].parent
  IN  chain

\* The transaction HEAD's history has at revision r.
TxAt(r) == History[head.revision - r].tx

Reachable(t) == \E r \in 1..head.revision : TxAt(r) = t

------------------------------------------------------------------------------
(* One request, from the lease to the reply *)

At(step) == work.step = step
Then(step) == work' = [work EXCEPT !.step = step]
Key == <<work.digest.expected + 1, work.tx>>

Take(t, d, step) == work' = [step |-> step, tx |-> t, digest |-> d]
Told(t, r, d) == acked' = acked \union {[tx |-> t, revision |-> r, digest |-> d]}

Replayed(t, d) == txdir[t].request = d
\* A bug: a view alone is taken for a published revision.
ViewPublished(t, d) == views[<<d.expected + 1, t>>] # None

Published(t, d) ==
  LET key == <<d.expected + 1, t>> IN views[key] # None /\ journal[key] # None

\* A transaction id used before for other bytes, or a HEAD that moved on
\* (store_conflict), and nothing recorded that would answer the request.
Refuse(t, d) ==
  /\ At("idle")
  /\ \/ txdir[t].request \notin {None, d}
     \/ /\ head.revision # d.expected
        /\ ~(Replayed(t, d) /\ (txdir[t].result # None \/ Reachable(t)))
  /\ UNCHANGED vars

AnswerAgain(t, d) ==
  /\ At("idle")
  /\ Replayed(t, d)
  /\ txdir[t].result # None
  /\ Told(t, txdir[t].result, d)
  /\ UNCHANGED <<head, views, journal, txdir, work, deaths>>

\* HEAD had advanced but the result was not written.
RecoverResult(t, d) ==
  /\ At("idle")
  /\ Replayed(t, d)
  /\ txdir[t].result = None
  /\ \E r \in 1..head.revision :
       /\ TxAt(r) = t
       /\ txdir' = [txdir EXCEPT ![t].result = r]
       /\ Told(t, r, d)
  /\ UNCHANGED <<head, views, journal, work, deaths>>

\* A bug: the expected revision is not compared with HEAD.
ServeStale(t, d) ==
  /\ At("idle")
  /\ txdir[t].request \in {None, d}
  /\ Replayed(t, d) => txdir[t].result = None /\ ~Reachable(t)
  /\ Take(t, d, IF Replayed(t, d) THEN "quarantine" ELSE "mkdir")
  /\ UNCHANGED <<head, views, journal, txdir, acked, deaths>>

\* A bug: a transaction id may be used again, for other bytes.
ServeAnyBytes(t, d) ==
  /\ At("idle")
  /\ head.revision = d.expected
  /\ Take(t, d, IF txdir[t].made THEN "quarantine" ELSE "mkdir")
  /\ UNCHANGED <<head, views, journal, txdir, acked, deaths>>

\* What is left of the request is done from here on.
Serve(t, d) ==
  /\ At("idle")
  /\ txdir[t].request \in {None, d}
  /\ Replayed(t, d) => txdir[t].result = None /\ ~Reachable(t)
  /\ head.revision = d.expected
  /\ Take(t, d, CASE ~Replayed(t, d)                   -> "mkdir"
                  [] Replayed(t, d) /\ Published(t, d)  -> "head"
                  [] Replayed(t, d) /\ ~Published(t, d) -> "quarantine")
  /\ UNCHANGED <<head, views, journal, txdir, acked, deaths>>

\* A bug: the transaction's directory is left where it is.
LeaveTxDir ==
  /\ At("quarantine")
  /\ Then("clearView")
  /\ UNCHANGED <<head, views, journal, txdir, acked, deaths>>

\* _campaign_quarantine moves away what an earlier try left, piece by piece.
QuarantineTxDir ==
  /\ At("quarantine")
  /\ txdir' = [txdir EXCEPT ![work.tx] = NoTxDir]
  /\ Then("clearView")
  /\ UNCHANGED <<head, views, journal, acked, deaths>>

QuarantineView ==
  /\ At("clearView")
  /\ views' = [views EXCEPT ![Key] = None]
  /\ Then("clearJournal")
  /\ UNCHANGED <<head, journal, txdir, acked, deaths>>

QuarantineJournal ==
  /\ At("clearJournal")
  /\ journal' = [journal EXCEPT ![Key] = None]
  /\ Then("mkdir")
  /\ UNCHANGED <<head, views, txdir, acked, deaths>>

\* makedirs(exist_ok=False): a directory left without request.json is an error.
MakeTxDir ==
  /\ At("mkdir")
  /\ IF txdir[work.tx].made
       THEN work' = Idle /\ UNCHANGED txdir
       ELSE /\ txdir' = [txdir EXCEPT ![work.tx].made = TRUE]
            /\ Then("request")
  /\ UNCHANGED <<head, views, journal, acked, deaths>>

WriteRequest ==
  /\ At("request")
  /\ txdir' = [txdir EXCEPT ![work.tx].request = work.digest]
  /\ Then("view")
  /\ UNCHANGED <<head, views, journal, acked, deaths>>

\* The staged documents are renamed into place; a directory that is already
\* there is an error.
PublishView ==
  /\ At("view")
  /\ IF views[Key] # None
       THEN work' = Idle /\ UNCHANGED views
       ELSE /\ views' = [views EXCEPT ![Key] = work.digest.content]
            /\ Then("journal")
  /\ UNCHANGED <<head, journal, txdir, acked, deaths>>

\* Bugs: every entry names the first revision as its parent, or none at all.
RootJournal ==
  /\ At("journal")
  /\ journal' = [journal EXCEPT ![Key] = [parent |-> Origin, digest |-> work.digest]]
  /\ Then("head")
  /\ UNCHANGED <<head, views, txdir, acked, deaths>>

OrphanJournal ==
  /\ At("journal")
  /\ journal' = [journal EXCEPT ![Key] = [digest |-> work.digest]]
  /\ Then("head")
  /\ UNCHANGED <<head, views, txdir, acked, deaths>>

PublishJournal ==
  /\ At("journal")
  /\ journal' = [journal EXCEPT ![Key] = [parent |-> head, digest |-> work.digest]]
  /\ Then("head")
  /\ UNCHANGED <<head, views, txdir, acked, deaths>>

AdvanceHead ==
  /\ At("head")
  /\ head' = [revision |-> work.digest.expected + 1, tx |-> work.tx]
  /\ Then("result")
  /\ UNCHANGED <<views, journal, txdir, acked, deaths>>

WriteResult ==
  /\ At("result")
  /\ txdir' = [txdir EXCEPT ![work.tx].result = head.revision]
  /\ Told(work.tx, head.revision, work.digest)
  /\ work' = Idle
  /\ UNCHANGED <<head, views, journal, deaths>>

Step ==
  \/ QuarantineTxDir \/ QuarantineView \/ QuarantineJournal
  \/ MakeTxDir \/ WriteRequest \/ PublishView \/ PublishJournal
  \/ AdvanceHead \/ WriteResult

\* The worker is killed; its lease is broken later (module StoreLease).
Killed ==
  /\ ~At("idle")
  /\ deaths < MaxDeaths
  /\ deaths' = deaths + 1
  /\ work' = Idle
  /\ UNCHANGED <<head, views, journal, txdir, acked>>

Call(t, d) == Refuse(t, d) \/ AnswerAgain(t, d) \/ RecoverResult(t, d) \/ Serve(t, d)

Next ==
  \/ \E t \in Transactions, d \in Digests : Call(t, d)
  \/ Step
  \/ Killed

Spec == Init /\ [][Next]_vars

\* A worker that is not killed goes on, and the persistent callers repeat a
\* request until it gets its turn.
FairSpec ==
  /\ Spec
  /\ WF_vars(Step)
  /\ \A t \in Persistent, d \in Digests : SF_vars(Serve(t, d) \/ RecoverResult(t, d))

------------------------------------------------------------------------------
(* Properties *)

Steps == {"quarantine", "clearView", "clearJournal", "mkdir", "request",
          "view", "journal", "head", "result"}

TypeOK ==
  /\ head \in Pointers
  /\ views \in [Keys -> Contents \union {None}]
  /\ journal \in [Keys -> Entries \union {None}]
  /\ txdir \in [Transactions -> [made    : BOOLEAN,
                                 request : Digests \union {None},
                                 result  : (1..MaxRevision) \union {None}]]
  /\ work \in [step : Steps, tx : Transactions, digest : Digests] \union {Idle}
  /\ acked \subseteq [tx : Transactions, revision : 1..MaxRevision, digest : Digests]
  /\ deaths \in 0..MaxDeaths

\* "Process death at every transaction step recovers to the previous or next
\* complete revision": behind HEAD there is one whole commit per revision, each
\* with its journal entry, its view, and a request computed from its parent.
HeadIsWhole ==
  \A r \in 1..head.revision :
    LET key == <<r, TxAt(r)>>
    IN  /\ key \in Keys
        /\ journal[key] # None
        /\ journal[key].parent = History[head.revision - r + 1]
        /\ journal[key].parent.revision = r - 1
        /\ journal[key].digest.expected = r - 1
        /\ views[key] = journal[key].digest.content

\* What a caller was told is committed stays committed, at that revision and
\* with the bytes of its own request, whatever is replayed or quarantined later.
AckedIsCommitted ==
  \A x \in acked :
    /\ x.revision <= head.revision
    /\ TxAt(x.revision) = x.tx
    /\ journal[<<x.revision, x.tx>>].digest = x.digest

\* "Duplicate idempotency keys produce one committed transaction/revision."
OneCommitPerTransaction ==
  \A r, s \in 1..head.revision : TxAt(r) = TxAt(s) => r = s

\* HEAD moves forward by one commit whose parent is the old HEAD, and no step,
\* a quarantine least of all, touches what a reader of any HEAD may be reading.
PublishedIsFrozen ==
  [][/\ head' # head => /\ head'.revision = head.revision + 1
                        /\ journal[<<head'.revision, head'.tx>>].parent = head
     /\ \A r \in 1..head.revision :
          LET key == <<r, TxAt(r)>>
          IN  views'[key] = views[key] /\ journal'[key] = journal[key]]_vars

Log == INSTANCE CommitLog WITH
  log <- [r \in 1..head.revision |->
            [tx |-> TxAt(r), content |-> journal[<<r, TxAt(r)>>].digest.content]]

\* Seen through its reachable history, the store is the log of CommitLog.
StoreIsLog == Log!Spec

Begun(t, d)    == work # Idle /\ work.tx = t /\ work.digest = d
Answered(t, d) == \/ txdir[t].result # None
                  \/ head.revision # d.expected /\ ~Reachable(t)

\* "A lost caller may recover the same transaction by idempotency key": once
\* begun, a transaction that is sent again is answered, unless HEAD moves on.
LostCallerRecovers ==
  \A t \in Persistent, d \in Digests : Begun(t, d) ~> Answered(t, d)

\* So it is, wherever workers die, unless one died right between making the
\* transaction's directory and recording the request in it.
ReplayAnswered ==
  \A t \in Persistent, d \in Digests :
    Begun(t, d) ~> \/ Answered(t, d)
                   \/ txdir[t].made /\ txdir[t].request = None
==============================================================================
