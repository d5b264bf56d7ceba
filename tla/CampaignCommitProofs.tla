------------------------- MODULE CampaignCommitProofs -------------------------
(***************************************************************************)
(* The transaction store keeps one whole history, for any transactions,    *)
(* contents and deaths.  The argument: some line of pointers leads from    *)
(* the origin to HEAD, and every journal entry, reachable or not, is the   *)
(* whole work of the request its transaction's directory records, hung on  *)
(* that line.  So an entry left by a killed worker is either the next link *)
(* or not there at all, and HEAD only ever moves to a link.                *)
(***************************************************************************)
EXTENDS CampaignCommit, WellFoundedInduction, TLAPS

USE CampaignCommitAssumption

------------------------------------------------------------------------------
(* The history is the line, read backwards *)

\* A set of numbers that is not empty has a least element.
LEMMA LeastElement ==
  ASSUME NEW T, T \subseteq Nat, T # {}
  PROVE  \E m \in T : \A k \in T : ~(k < m)
<1> DEFINE R == OpToRel(<, Nat)
<1>1. IsWellFoundedOn(R, Nat)
  BY NatLessThanWellFounded, Zenon
<1>2. \A k, m \in Nat : k < m => <<k, m>> \in R
  BY Zenon DEF OpToRel
<1> HIDE DEF R
<1>3. PICK m \in T : \A k \in T : ~(<<k, m>> \in R)
  BY <1>1, WFMin
<1>4. QED
  BY <1>2, <1>3

\* The recursive function of History, for any HEAD and any journal.
Chain(h, j) ==
  LET chain[i \in 0..h.revision] ==
        IF i = 0 THEN h
        ELSE j[<<chain[i - 1].revision, chain[i - 1].tx>>].parent
  IN  chain

\* A line leads from the origin to h, one revision per link, by the parent
\* links of journal j.
IsLine(line, h, j) ==
  /\ h.revision \in 0..MaxRevision
  /\ line \in [0..h.revision -> Pointers]
  /\ line[0] = Origin
  /\ line[h.revision] = h
  /\ \A r \in 1..h.revision :
       /\ line[r].revision = r
       /\ line[r].tx \in Transactions
       /\ j[<<r, line[r].tx>>] # None
       /\ j[<<r, line[r].tx>>].parent = line[r - 1]

\* Where there is a line, the recursion is well defined and follows it: the
\* line is a solution of it, and by induction on the links the only one.
LEMMA ChainIsLine ==
  ASSUME NEW h, NEW j, NEW line, IsLine(line, h, j)
  PROVE  \A r \in 0..h.revision : Chain(h, j)[h.revision - r] = line[r]
<1> DEFINE n == h.revision
           Next1(c, i) == IF i = 0 THEN h ELSE j[<<c[i - 1].revision, c[i - 1].tx>>].parent
           Solves(c) == c = [i \in 0..n |-> Next1(c, i)]
           back == [i \in 0..n |-> line[n - i]]
<1>1. n \in Nat
  BY DEF IsLine
<1>2. ASSUME NEW i \in 0..n
      PROVE  back[i] = Next1(back, i)
  <2>1. CASE i = 0
    BY <1>1, <2>1 DEF IsLine
  <2>2. CASE i # 0
    <3>1. n - (i - 1) \in 1..n /\ n - i = (n - (i - 1)) - 1 /\ i - 1 \in 0..n
      BY <1>1, <2>2
    <3>2. back[i] = line[n - i] /\ back[i - 1] = line[n - (i - 1)]
      BY <3>1
    <3>3. QED
      BY <2>2, <3>1, <3>2, ZenonT(60) DEF IsLine
  <2>3. QED
    BY <2>1, <2>2
<1>3. Solves(back)
  <2>1. back = [i \in 0..n |-> Next1(back, i)]
    BY <1>2
  <2>2. QED
    BY <2>1
<1>4. Chain(h, j) = CHOOSE c : Solves(c)
  BY DEF Chain
<1>5. Solves(Chain(h, j))
  <2> HIDE DEF Solves, back
  <2> QED BY <1>3, <1>4
<1>6. \A i \in 0..n : Chain(h, j)[i] = Next1(Chain(h, j), i)
  <2> DEFINE c == Chain(h, j)
  <2>1. c = [i \in 0..n |-> Next1(c, i)]
    BY <1>5
  <2> HIDE DEF c
  <2>2. \A i \in 0..n : c[i] = Next1(c, i)
    BY <2>1
  <2>3. QED
    BY <2>2 DEF c
<1> DEFINE c == Chain(h, j)
           Off == {i \in 0..n : c[i] # back[i]}
<1> HIDE DEF c
<1>7. Off = {}
  <2> SUFFICES ASSUME Off # {} PROVE FALSE
    OBVIOUS
  <2>1. PICK m \in Off : \A k \in Off : ~(k < m)
    <3>1. Off \subseteq Nat
      BY <1>1
    <3> HIDE DEF Off
    <3>2. QED
      BY <3>1, LeastElement
  <2>2. m # 0
    BY <1>2, <1>6, <1>1 DEF c
  <2>3. m - 1 \in 0..n /\ m - 1 \notin Off
    BY <2>1, <2>2, <1>1
  <2>4. c[m - 1] = back[m - 1]
    BY <2>3
  <2>5. c[m] = back[m]
    <3>1. m \in 0..n
      OBVIOUS
    <3> HIDE DEF back, Off
    <3>2. QED
      BY <3>1, <2>2, <2>4, <1>2, <1>6 DEF c
  <2>6. QED
    BY <2>5
<1>8. ASSUME NEW r \in 0..n PROVE c[n - r] = line[r]
  <2>1. n - r \in 0..n /\ n - (n - r) = r
    BY <1>1
  <2>2. QED
    BY <2>1, <1>7
<1>9. QED
  BY <1>8 DEF c

\* The same for the store: its history, from the origin, is the line.
LEMMA HistoryIsLine ==
  ASSUME NEW line, IsLine(line, head, journal)
  PROVE  /\ \A r \in 0..head.revision : History[head.revision - r] = line[r]
         /\ \A r \in 1..head.revision : TxAt(r) = line[r].tx
<1>1. History = Chain(head, journal)
  BY DEF History, Chain
<1>2. \A r \in 0..head.revision : History[head.revision - r] = line[r]
  BY <1>1, ChainIsLine
<1>3. QED
  BY <1>2 DEF TxAt, IsLine

------------------------------------------------------------------------------
(* The inductive invariant *)

\* Every journal entry, reachable or left behind, is the whole work of the
\* request recorded for its transaction, computed from a revision of the line.
EntriesAreWhole(line) ==
  \A r \in 1..MaxRevision, t \in Transactions :
    journal[<<r, t>>] # None =>
      /\ r - 1 <= head.revision
      /\ journal[<<r, t>>].parent = line[r - 1]
      /\ journal[<<r, t>>].digest = txdir[t].request
      /\ journal[<<r, t>>].digest.expected = r - 1
      /\ views[<<r, t>>] = journal[<<r, t>>].digest.content

\* A recorded result is a revision of the line that is the transaction's.
ResultsAreTrue(line) ==
  \A t \in Transactions :
    txdir[t].result # None =>
      /\ txdir[t].result \in 1..head.revision
      /\ line[txdir[t].result].tx = t

\* So is every answer a caller was given, for the bytes it sent.
AnswersAreTrue(line) ==
  \A x \in acked :
    /\ x.revision \in 1..head.revision
    /\ line[x.revision].tx = x.tx
    /\ journal[<<x.revision, x.tx>>].digest = x.digest

\* How far the request being served has come.
WorkIsOrdered ==
  work # Idle =>
    /\ IF At("result")
         THEN head = [revision |-> work.digest.expected + 1, tx |-> work.tx]
         ELSE head.revision = work.digest.expected
    /\ IF work.step \in {"clearView", "clearJournal", "mkdir", "request"}
         THEN txdir[work.tx].request = None
         ELSE txdir[work.tx].request = work.digest
    /\ work.step \notin {"head", "result"} => journal[Key] = None
    /\ work.step \in {"head", "result"} => journal[Key] # None
    /\ At("journal") => views[Key] = work.digest.content

Whole(line) ==
  /\ IsLine(line, head, journal)
  /\ EntriesAreWhole(line)
  /\ ResultsAreTrue(line)
  /\ AnswersAreTrue(line)

IndInv ==
  /\ TypeOK
  /\ WorkIsOrdered
  /\ \E line : Whole(line)

\* The key a worker writes is a key, and TypeOK gives the parts their types.
LEMMA KeyTyped ==
  ASSUME TypeOK, work # Idle
  PROVE  /\ work.step \in Steps /\ work.tx \in Transactions /\ work.digest \in Digests
         /\ work.digest.expected \in 0..(MaxRevision - 1)
         /\ work.digest.expected + 1 \in 1..MaxRevision
         /\ work.digest.content \in Contents
         /\ Key \in Keys
         /\ ~At("idle")
<1>1. work \in [step : Steps, tx : Transactions, digest : Digests]
  BY DEF TypeOK
<1>2. /\ work.step \in Steps /\ work.tx \in Transactions /\ work.digest \in Digests
      /\ work.digest.expected \in 0..(MaxRevision - 1) /\ work.digest.content \in Contents
  BY <1>1 DEF Digests
<1>3. work.digest.expected + 1 \in 1..MaxRevision
  BY <1>2
<1>4. QED
  BY <1>2, <1>3 DEF Key, Keys, At, Steps

\* An idle store has the line of one point.
LEMMA InitIndInv == Init => IndInv
<1> SUFFICES ASSUME Init PROVE IndInv
  OBVIOUS
<1> DEFINE line == [r \in 0..0 |-> Origin]
<1>1. Origin \in Pointers
  BY DEF Origin, Pointers
<1>2. TypeOK
  BY <1>1 DEF Init, TypeOK, NoTxDir
<1>3. WorkIsOrdered
  BY DEF Init, WorkIsOrdered
<1>4. IsLine(line, head, journal)
  BY <1>1 DEF Init, IsLine, Origin
<1>5. Whole(line)
  BY <1>4 DEF Init, Whole, EntriesAreWhole, ResultsAreTrue, AnswersAreTrue, Keys, NoTxDir
<1>6. QED
  BY <1>2, <1>3, <1>5 DEF IndInv

\* No step takes a variable out of its type.
LEMMA StepTyped ==
  ASSUME TypeOK, WorkIsOrdered, [Next]_vars
  PROVE  TypeOK'
<1> USE DEF TypeOK
<1>1. ASSUME NEW t \in Transactions, NEW d \in Digests, Call(t, d)
      PROVE  TypeOK'
  <2>1. CASE Refuse(t, d)
    BY <2>1 DEF Refuse, vars
  <2>2. CASE AnswerAgain(t, d)
    BY <2>2 DEF AnswerAgain, Told
  <2>3. CASE RecoverResult(t, d)
    BY <2>3 DEF RecoverResult, Told, Pointers
  <2>4. CASE Serve(t, d)
    BY <2>4 DEF Serve, Take, Steps
  <2>5. QED
    BY <1>1, <2>1, <2>2, <2>3, <2>4 DEF Call
<1>2. ASSUME work # Idle, Step
      PROVE  TypeOK'
  <2> USE <1>2, KeyTyped
  <2>1. CASE QuarantineTxDir
    BY <2>1 DEF QuarantineTxDir, NoTxDir, Then, Steps
  <2>2. CASE QuarantineView
    BY <2>2 DEF QuarantineView, Then, Steps
  <2>3. CASE QuarantineJournal
    BY <2>3 DEF QuarantineJournal, Then, Steps
  <2>4. CASE MakeTxDir
    <3>1. CASE txdir[work.tx].made
      BY <2>4, <3>1 DEF MakeTxDir
    <3>2. CASE ~txdir[work.tx].made
      <4>1. /\ txdir' = [txdir EXCEPT ![work.tx].made = TRUE]
            /\ work' = [work EXCEPT !.step = "request"]
            /\ UNCHANGED <<head, views, journal, acked, deaths>>
        BY <2>4, <3>2 DEF MakeTxDir, Then
      <4>2. QED
        BY <4>1, ZenonT(60) DEF Steps
    <3>3. QED
      BY <3>1, <3>2
  <2>5. CASE WriteRequest
    BY <2>5 DEF WriteRequest, Then, Steps
  <2>6. CASE PublishView
    BY <2>6 DEF PublishView, Then, Steps
  <2>7. CASE PublishJournal
    BY <2>7 DEF PublishJournal, Then, Steps, Entries
  <2>8. CASE AdvanceHead
    BY <2>8 DEF AdvanceHead, Then, Steps, Pointers
  <2>9. CASE WriteResult
    BY <2>9 DEF WriteResult, Told, WorkIsOrdered
  <2>10. QED
    BY <1>2, <2>1, <2>2, <2>3, <2>4, <2>5, <2>6, <2>7, <2>8, <2>9 DEF Step
<1>3. Step => work # Idle
  BY DEF Step, Idle, At, QuarantineTxDir, QuarantineView, QuarantineJournal, MakeTxDir,
         WriteRequest, PublishView, PublishJournal, AdvanceHead, WriteResult
<1>4. CASE Killed
  BY <1>4 DEF Killed
<1>5. CASE UNCHANGED vars
  BY <1>5 DEF vars
<1>6. QED
  BY <1>1, <1>2, <1>3, <1>4, <1>5 DEF Next

\* A step that leaves HEAD and the line's entries alone keeps the line.
LEMMA StepWhole ==
  ASSUME TypeOK, WorkIsOrdered, NEW line, Whole(line), [Next]_vars,
         head' = head
  PROVE  WorkIsOrdered' /\ Whole(line)'
<1> USE DEF Whole, IsLine, EntriesAreWhole, ResultsAreTrue, AnswersAreTrue, WorkIsOrdered
<1> DEFINE Goal == WorkIsOrdered' /\ Whole(line)'
<1>0. TypeOK'
  BY StepTyped
<1>1. ASSUME NEW t \in Transactions, NEW d \in Digests, Call(t, d)
      PROVE  Goal
  <2>0. d.expected \in 0..(MaxRevision - 1) /\ d.expected + 1 \in 1..MaxRevision
    BY DEF Digests
  <2>1. CASE Refuse(t, d)
    BY <2>1 DEF Refuse, vars, At, Key
  <2>2. CASE AnswerAgain(t, d)
    <3>1. /\ acked' = acked \union {[tx |-> t, revision |-> txdir[t].result, digest |-> d]}
          /\ txdir[t].request = d /\ txdir[t].result # None
          /\ UNCHANGED <<head, views, journal, txdir, work, deaths>>
      BY <2>2 DEF AnswerAgain, Told, Replayed
    <3>2. /\ txdir[t].result \in 1..head.revision
          /\ line[txdir[t].result].tx = t
          /\ journal[<<txdir[t].result, t>>].digest = d
      BY <3>1 DEF TypeOK
    <3>3. QED
      BY <3>1, <3>2 DEF At, Key
  <2>3. CASE RecoverResult(t, d)
    <3>1. PICK r \in 1..head.revision :
            /\ TxAt(r) = t
            /\ txdir' = [txdir EXCEPT ![t].result = r]
            /\ Told(t, r, d)
      BY <2>3 DEF RecoverResult
    <3>2. txdir[t].request = d /\ UNCHANGED <<head, views, journal, work, deaths>>
      BY <2>3 DEF RecoverResult, Replayed
    <3>3. line[r].tx = t
      BY <3>1, HistoryIsLine, SMTT(30)
    <3>4. journal[<<r, t>>].digest = d
      BY <3>2, <3>3
    <3>5. QED
      BY <3>1, <3>2, <3>3, <3>4 DEF Told, At, Key, TypeOK
  <2>4. CASE Serve(t, d)
    <3>1. /\ head.revision = d.expected
          /\ txdir[t].request \in {None, d}
          /\ UNCHANGED <<head, views, journal, txdir, acked, deaths>>
      BY <2>4 DEF Serve
    <3>2. Whole(line)'
      BY <3>1
    <3>3. WorkIsOrdered'
      <4> DEFINE step == IF Replayed(t, d) THEN IF Published(t, d) THEN "head" ELSE "quarantine"
                                           ELSE "mkdir"
      <4>1. work' = [step |-> step, tx |-> t, digest |-> d]
        BY <2>4 DEF Serve, Take
      <4>2. /\ step \in {"head", "quarantine", "mkdir"}
            /\ work'.step = step /\ work'.tx = t /\ work'.digest = d
            /\ Key' = <<d.expected + 1, t>>
        BY <4>1 DEF Key
      <4>3. Replayed(t, d) => txdir[t].request = d
        BY DEF Replayed
      <4>4. step = "mkdir" => txdir[t].request = None
        BY <3>1 DEF Replayed
      <4>5. step = "head" => journal[<<d.expected + 1, t>>] # None
        BY DEF Published
      <4>6. step = "quarantine" => journal[<<d.expected + 1, t>>] = None
        <5> SUFFICES ASSUME step = "quarantine", journal[<<d.expected + 1, t>>] # None
                     PROVE  FALSE
          OBVIOUS
        <5>1. <<d.expected + 1, t>> \in Keys
          BY <2>0 DEF Keys
        <5>2. journal[<<d.expected + 1, t>>].digest \in Digests
          BY <5>1 DEF TypeOK, Entries
        <5>3. views[<<d.expected + 1, t>>] \in Contents
          BY <2>0, <5>2 DEF Digests
        <5>4. QED
          BY <5>3 DEF Published
      <4>7. step = "mkdir" => journal[<<d.expected + 1, t>>] = None
        BY <4>4, <2>0 DEF TypeOK, Keys, Entries
      <4> HIDE DEF step
      <4>8. step \notin {"clearView", "clearJournal", "request", "result", "journal"}
        BY <4>2
      <4>9. head' = head /\ journal' = journal /\ txdir' = txdir
        BY <3>1
      <4>10. IF step = "mkdir" THEN txdir[t].request = None ELSE txdir[t].request = d
        BY <4>2, <4>3, <4>4 DEF step
      <4>11. QED
        BY <3>1, <4>2, <4>5, <4>6, <4>7, <4>8, <4>9, <4>10 DEF At
    <3>4. QED
      BY <3>2, <3>3
  <2>5. QED
    BY <1>1, <2>1, <2>2, <2>3, <2>4 DEF Call
<1>2. ASSUME work # Idle, Step
      PROVE  Goal
  <2> USE <1>2, KeyTyped
  <2>a. ASSUME work.step \notin {"head", "result"}
        PROVE  /\ head.revision = work.digest.expected
               /\ \A r \in 1..MaxRevision : journal[<<r, work.tx>>] = None
               /\ \A r \in 1..head.revision : line[r].tx # work.tx
               /\ txdir[work.tx].result = None
               /\ \A x \in acked : x.tx # work.tx
    <3>1. head.revision = work.digest.expected /\ journal[Key] = None
      BY <2>a DEF At
    <3>2. ASSUME NEW r \in 1..MaxRevision, journal[<<r, work.tx>>] # None PROVE FALSE
      <4>1. journal[<<r, work.tx>>] \in Entries
        BY <3>2 DEF TypeOK, Keys
      <4>2. txdir[work.tx].request \in Digests
        BY <3>2, <4>1 DEF Entries
      <4>3. txdir[work.tx].request = work.digest
        BY <4>2
      <4>4. work.digest.expected = r - 1
        BY <3>2, <4>3, SMTT(30)
      <4>5. Key = <<r, work.tx>>
        BY <4>4 DEF Key
      <4>6. QED
        BY <3>1, <3>2, <4>5
    <3>3. ASSUME NEW r \in 1..head.revision PROVE line[r].tx # work.tx
      <4>1. r \in 1..MaxRevision /\ journal[<<r, line[r].tx>>] # None
        OBVIOUS
      <4>2. QED
        BY <4>1, <3>2
    <3>4. ASSUME NEW x \in acked PROVE x.tx # work.tx
      <4>1. x.revision \in 1..head.revision /\ line[x.revision].tx = x.tx
        OBVIOUS
      <4>2. QED
        BY <4>1, <3>3
    <3>5. txdir[work.tx].result = None
      BY <3>3
    <3>6. QED
      BY <3>1, <3>2, <3>3, <3>4, <3>5
  <2>b. ASSUME NEW step \in Steps, Then(step)
        PROVE  /\ work' # Idle
               /\ work'.step = step
               /\ work'.tx = work.tx
               /\ work'.digest = work.digest
               /\ Key' = Key
    BY <2>b DEF Then, TypeOK, Key, Idle, Steps
  <2>c. /\ work'.step = "idle" => work' = Idle
        /\ work' = Idle => WorkIsOrdered'
    BY <1>0 DEF TypeOK, Steps
  <2>1. CASE QuarantineTxDir
    <3>1. /\ work.step = "quarantine" /\ Then("clearView")
          /\ txdir' = [txdir EXCEPT ![work.tx] = NoTxDir]
          /\ UNCHANGED <<head, views, journal, acked, deaths>>
      BY <2>1 DEF QuarantineTxDir, At
    <3>2. Whole(line)'
      BY <3>1, <2>a, SMTT(30) DEF NoTxDir, TypeOK
    <3>3. WorkIsOrdered'
      BY <3>1, <2>a, <2>b DEF NoTxDir, TypeOK, At, Steps
    <3>4. QED
      BY <3>2, <3>3
  <2>2. CASE QuarantineView
    <3>1. /\ work.step = "clearView" /\ Then("clearJournal")
          /\ views' = [views EXCEPT ![Key] = None]
          /\ UNCHANGED <<head, journal, txdir, acked, deaths>>
      BY <2>2 DEF QuarantineView, At
    <3>2. Whole(line)'
      BY <3>1, <2>a DEF TypeOK, Key
    <3>3. WorkIsOrdered'
      BY <3>1, <2>a, <2>b DEF TypeOK, At, Steps
    <3>4. QED
      BY <3>2, <3>3
  <2>3. CASE QuarantineJournal
    <3>1. /\ work.step = "clearJournal" /\ Then("mkdir")
          /\ journal' = [journal EXCEPT ![Key] = None]
          /\ UNCHANGED <<head, views, txdir, acked, deaths>>
      BY <2>3 DEF QuarantineJournal, At
    <3>2. journal' = journal
      BY <3>1 DEF TypeOK, At
    <3>3. QED
      BY <3>1, <3>2, <2>b DEF TypeOK, At, Steps
  <2>4. CASE MakeTxDir
    <3>1. CASE txdir[work.tx].made
      BY <2>4, <3>1, <2>c DEF MakeTxDir
    <3>2. CASE ~txdir[work.tx].made
      <4>1. /\ work.step = "mkdir" /\ Then("request")
            /\ txdir' = [txdir EXCEPT ![work.tx].made = TRUE]
            /\ UNCHANGED <<head, views, journal, acked, deaths>>
        BY <2>4, <3>2 DEF MakeTxDir, At
      <4>2. \A t \in Transactions : /\ txdir'[t].request = txdir[t].request
                                    /\ txdir'[t].result = txdir[t].result
        BY <4>1 DEF TypeOK
      <4>3. Whole(line)'
        BY <4>1, <4>2
      <4>4. WorkIsOrdered'
        BY <4>1, <4>2, <2>b DEF At, Steps
      <4>5. QED
        BY <4>3, <4>4
    <3>3. QED
      BY <3>1, <3>2
  <2>5. CASE WriteRequest
    <3>1. /\ work.step = "request" /\ Then("view")
          /\ txdir' = [txdir EXCEPT ![work.tx].request = work.digest]
          /\ UNCHANGED <<head, views, journal, acked, deaths>>
      BY <2>5 DEF WriteRequest, At
    <3>2. /\ txdir'[work.tx].request = work.digest
          /\ \A t \in Transactions : /\ t # work.tx => txdir'[t].request = txdir[t].request
                                     /\ txdir'[t].result = txdir[t].result
      BY <3>1 DEF TypeOK
    <3>3. Whole(line)'
      BY <3>1, <3>2, <2>a
    <3>4. WorkIsOrdered'
      BY <3>1, <3>2, <2>a, <2>b DEF At, Steps
    <3>5. QED
      BY <3>3, <3>4
  <2>6. CASE PublishView
    <3>1. CASE views[Key] # None
      <4>1. work' = Idle /\ UNCHANGED <<head, views, journal, txdir, acked, deaths>>
        BY <2>6, <3>1 DEF PublishView
      <4>2. QED
        BY <4>1, <2>c
    <3>2. CASE views[Key] = None
      <4>1. /\ work.step = "view" /\ Then("journal")
            /\ views' = [views EXCEPT ![Key] = work.digest.content]
            /\ UNCHANGED <<head, journal, txdir, acked, deaths>>
        BY <2>6, <3>2 DEF PublishView, At
      <4>2. /\ views'[Key] = work.digest.content
            /\ \A r \in 1..MaxRevision, t \in Transactions :
                 t # work.tx => views'[<<r, t>>] = views[<<r, t>>]
        BY <4>1 DEF TypeOK, Key, Keys
      <4>3. Whole(line)'
        BY <4>1, <4>2, <2>a
      <4>4. WorkIsOrdered'
        BY <4>1, <4>2, <2>a, <2>b DEF At, Steps
      <4>5. QED
        BY <4>3, <4>4
    <3>3. QED
      BY <3>1, <3>2
  <2>7. CASE PublishJournal
    <3> DEFINE entry == [parent |-> head, digest |-> work.digest]
    <3>1. /\ work.step = "journal" /\ Then("head")
          /\ journal' = [journal EXCEPT ![Key] = entry]
          /\ UNCHANGED <<head, views, txdir, acked, deaths>>
      BY <2>7 DEF PublishJournal, At
    <3>2. entry \in Entries /\ entry # None
      BY DEF TypeOK, Entries
    <3>3. /\ journal'[Key] = entry
          /\ \A r \in 1..MaxRevision, t \in Transactions :
               <<r, t>> # Key => journal'[<<r, t>>] = journal[<<r, t>>]
      BY <3>1 DEF TypeOK, Keys
    <3>4. /\ Key = <<head.revision + 1, work.tx>>
          /\ txdir[work.tx].request = work.digest
          /\ views[Key] = work.digest.content
      BY <3>1, <2>a DEF Key, At
    <3> HIDE DEF entry
    <3>5. IsLine(line, head, journal)'
      BY <3>1, <3>3, <3>4
    <3>6. EntriesAreWhole(line)'
      <4> SUFFICES ASSUME NEW r \in 1..MaxRevision, NEW t \in Transactions,
                          journal'[<<r, t>>] # None
                   PROVE  /\ r - 1 <= head'.revision
                          /\ journal'[<<r, t>>].parent = line[r - 1]
                          /\ journal'[<<r, t>>].digest = txdir'[t].request
                          /\ journal'[<<r, t>>].digest.expected = r - 1
                          /\ views'[<<r, t>>] = journal'[<<r, t>>].digest.content
        BY DEF EntriesAreWhole
      <4>1. CASE <<r, t>> = Key
        <5>1. r = head.revision + 1 /\ t = work.tx
          BY <4>1, <3>4
        <5>2. /\ journal'[<<r, t>>].parent = head
              /\ journal'[<<r, t>>].digest = work.digest
          BY <4>1, <3>3 DEF entry
        <5>3. head.revision = work.digest.expected /\ head.revision \in 0..MaxRevision
          BY <3>1, <2>a
        <5>4. r - 1 = head.revision /\ line[r - 1] = head
          BY <5>1, <5>3
        <5>5. QED
          BY <4>1, <5>1, <5>2, <5>3, <5>4, <3>1, <3>4
      <4>2. CASE <<r, t>> # Key
        BY <4>2, <3>1, <3>3
      <4>3. QED
        BY <4>1, <4>2
    <3>7. ResultsAreTrue(line)'
      BY <3>1
    <3>8. AnswersAreTrue(line)'
      <4> SUFFICES ASSUME NEW x \in acked
                   PROVE  journal'[<<x.revision, x.tx>>] = journal[<<x.revision, x.tx>>]
        BY <3>1
      <4>1. x.revision \in 1..MaxRevision /\ x.tx \in Transactions /\ x.tx # work.tx
        BY <3>1, <2>a DEF TypeOK
      <4>2. QED
        BY <4>1, <3>3, <3>4
    <3>9. WorkIsOrdered'
      BY <3>1, <3>2, <3>3, <3>4, <2>a, <2>b DEF At, Steps
    <3>10. QED
      BY <3>5, <3>6, <3>7, <3>8, <3>9
  <2>9. CASE WriteResult
    <3> DEFINE r == head.revision
    <3>1. /\ work.step = "result" /\ work' = Idle
          /\ txdir' = [txdir EXCEPT ![work.tx].result = r]
          /\ acked' = acked \union {[tx |-> work.tx, revision |-> r, digest |-> work.digest]}
          /\ UNCHANGED <<head, views, journal, deaths>>
      BY <2>9 DEF WriteResult, Told, At
    <3>2. r \in 1..head.revision /\ line[r].tx = work.tx
      BY <3>1 DEF At
    <3>3. txdir[work.tx].request = work.digest
      BY <3>1
    <3>4. journal[<<r, work.tx>>].digest = work.digest
      BY <3>2, <3>3
    <3>5. \A t \in Transactions : /\ txdir'[t].request = txdir[t].request
                                  /\ txdir'[t].result = IF t = work.tx THEN r ELSE txdir[t].result
      BY <3>1 DEF TypeOK
    <3>6. QED
      BY <3>1, <3>2, <3>4, <3>5, <2>c
  <2>10. ~AdvanceHead
    BY DEF AdvanceHead, At
  <2>11. QED
    BY <1>2, <2>1, <2>2, <2>3, <2>4, <2>5, <2>6, <2>7, <2>9, <2>10 DEF Step
<1>3. Step => work # Idle
  BY DEF Step, Idle, At, QuarantineTxDir, QuarantineView, QuarantineJournal, MakeTxDir,
         WriteRequest, PublishView, PublishJournal, AdvanceHead, WriteResult
<1>4. CASE Killed
  BY <1>4 DEF Killed, At, Key
<1>5. CASE UNCHANGED vars
  BY <1>5 DEF vars, At, Key
<1>6. QED
  BY <1>1, <1>2, <1>3, <1>4, <1>5 DEF Next

\* Only AdvanceHead moves HEAD.
LEMMA HeadMovers == [Next]_vars => head' = head \/ AdvanceHead
BY DEF Next, Call, Refuse, AnswerAgain, RecoverResult, Serve, Step, QuarantineTxDir,
       QuarantineView, QuarantineJournal, MakeTxDir, WriteRequest, PublishView,
       PublishJournal, WriteResult, Killed, vars

\* The line with one more link.
Longer(line, h) == [r \in 0..h.revision |-> IF r = h.revision THEN h ELSE line[r]]

\* The entry HEAD moves to is the next link.
LEMMA HeadAdvances ==
  ASSUME TypeOK, WorkIsOrdered, NEW line, Whole(line), AdvanceHead
  PROVE  /\ head' = [revision |-> head.revision + 1, tx |-> work.tx]
         /\ head.revision + 1 \in 1..MaxRevision
         /\ work.tx \in Transactions
         /\ journal[<<head.revision + 1, work.tx>>].parent = head
         /\ WorkIsOrdered'
         /\ \E longer : longer = Longer(line, head') /\ Whole(longer)'
<1> DEFINE n == head.revision
<1>0. PICK longer : longer = Longer(line, head')
  OBVIOUS
<1>1. /\ work.step = "head" /\ work # Idle
      /\ work' = [work EXCEPT !.step = "result"]
      /\ head' = [revision |-> work.digest.expected + 1, tx |-> work.tx]
      /\ UNCHANGED <<views, journal, txdir, acked, deaths>>
  BY DEF AdvanceHead, At, Then, Idle
<1>2. /\ work.tx \in Transactions /\ work.digest \in Digests
      /\ n = work.digest.expected /\ n + 1 \in 1..MaxRevision /\ n \in 0..MaxRevision
      /\ txdir[work.tx].request = work.digest
      /\ Key = <<n + 1, work.tx>>
      /\ journal[<<n + 1, work.tx>>] # None
  BY <1>1, KeyTyped DEF WorkIsOrdered, At, Key, TypeOK, Pointers
<1>3. head' = [revision |-> n + 1, tx |-> work.tx] /\ head' \in Pointers
  BY <1>1, <1>2 DEF Pointers
<1>4. /\ IsLine(line, head, journal) /\ EntriesAreWhole(line)
      /\ ResultsAreTrue(line) /\ AnswersAreTrue(line)
  BY DEF Whole
<1>5. /\ longer \in [0..(n + 1) -> Pointers]
      /\ longer[n + 1] = head'
      /\ \A r \in 0..n : longer[r] = line[r]
  <2>1. line \in [0..n -> Pointers]
    BY <1>4 DEF IsLine
  <2>2. longer = [r \in 0..(n + 1) |-> IF r = n + 1 THEN head' ELSE line[r]]
    BY <1>0, <1>3 DEF Longer
  <2>3. QED
    BY <2>1, <2>2, <1>2, <1>3
<1>6. journal[<<n + 1, work.tx>>].parent = head
  BY <1>2, <1>4 DEF EntriesAreWhole, IsLine
<1>7. IsLine(longer, head', journal')
  <2>1. ASSUME NEW r \in 1..(n + 1)
        PROVE  /\ longer[r].revision = r
               /\ longer[r].tx \in Transactions
               /\ journal[<<r, longer[r].tx>>] # None
               /\ journal[<<r, longer[r].tx>>].parent = longer[r - 1]
    <3>1. CASE r = n + 1
      BY <3>1, <1>2, <1>3, <1>4, <1>5, <1>6 DEF IsLine
    <3>2. CASE r # n + 1
      BY <3>2, <1>2, <1>4, <1>5 DEF IsLine
    <3>3. QED
      BY <3>1, <3>2
  <2>2. longer[0] = Origin
    BY <1>2, <1>4, <1>5 DEF IsLine
  <2>3. QED
    BY <2>1, <2>2, <1>1, <1>2, <1>3, <1>5 DEF IsLine
<1>8. ASSUME NEW r \in 1..MaxRevision, NEW t \in Transactions, journal[<<r, t>>] # None
      PROVE  r - 1 <= n + 1 /\ journal[<<r, t>>].parent = longer[r - 1]
  BY <1>2, <1>4, <1>5, <1>8 DEF EntriesAreWhole
<1>9. ASSUME NEW t \in Transactions, txdir[t].result # None
      PROVE  txdir[t].result \in 1..(n + 1) /\ longer[txdir[t].result].tx = t
  BY <1>2, <1>4, <1>5, <1>9 DEF ResultsAreTrue
<1>10. ASSUME NEW x \in acked
       PROVE  x.revision \in 1..(n + 1) /\ longer[x.revision].tx = x.tx
  <2>1. x.revision \in 1..n /\ line[x.revision].tx = x.tx
    BY <1>4 DEF AnswersAreTrue
  <2>2. QED
    BY <2>1, <1>2, <1>5
<1>11. EntriesAreWhole(longer)'
  BY <1>1, <1>3, <1>4, <1>8 DEF EntriesAreWhole
<1>12. ResultsAreTrue(longer)'
  BY <1>1, <1>3, <1>9 DEF ResultsAreTrue
<1>13. AnswersAreTrue(longer)'
  <2>1. \A x \in acked : journal[<<x.revision, x.tx>>].digest = x.digest
    BY <1>4 DEF AnswersAreTrue
  <2>2. acked' = acked /\ journal' = journal /\ head'.revision = n + 1
    BY <1>1, <1>3
  <2>3. QED
    BY <2>1, <2>2, <1>10 DEF AnswersAreTrue
<1>14. /\ work'.step = "result" /\ work'.tx = work.tx /\ work'.digest = work.digest
       /\ Key' = Key
  BY <1>1, KeyTyped DEF TypeOK, Key, Idle
<1>15. WorkIsOrdered'
  BY <1>1, <1>2, <1>14 DEF WorkIsOrdered, At
<1>16. QED
  BY <1>2, <1>3, <1>6, <1>7, <1>11, <1>12, <1>13, <1>15, <1>0 DEF Whole

\* Every step keeps the store whole.
LEMMA StepIndInv == IndInv /\ [Next]_vars => IndInv'
<1> SUFFICES ASSUME IndInv, [Next]_vars PROVE IndInv'
  OBVIOUS
<1>1. TypeOK /\ WorkIsOrdered /\ TypeOK'
  BY StepTyped DEF IndInv
<1>2. PICK line : Whole(line)
  BY DEF IndInv
<1>3. CASE head' = head
  BY <1>1, <1>2, <1>3, StepWhole DEF IndInv
<1>4. CASE AdvanceHead
  BY <1>1, <1>2, <1>4, HeadAdvances DEF IndInv
<1>5. QED
  BY <1>3, <1>4, HeadMovers

\* The inductive invariant holds of every behaviour.
THEOREM Inductive == Spec => []IndInv
BY InitIndInv, StepIndInv, PTL DEF Spec

------------------------------------------------------------------------------
(* What it gives *)

\* Every variable of the store keeps its type.
THEOREM Typed == Spec => []TypeOK
<1>1. IndInv => TypeOK
  BY DEF IndInv
<1>2. QED
  BY <1>1, Inductive, PTL

\* Behind HEAD there is one whole commit per revision: journal entry, view and
\* a request computed from its parent, whenever and however often workers die.
THEOREM HistoryIsWhole == Spec => []HeadIsWhole
<1>1. ASSUME IndInv PROVE HeadIsWhole
  <2>1. PICK line : Whole(line)
    BY <1>1 DEF IndInv
  <2>2. IsLine(line, head, journal) /\ EntriesAreWhole(line)
    BY <2>1 DEF Whole
  <2>3. ASSUME NEW r \in 1..head.revision
        PROVE  /\ <<r, TxAt(r)>> \in Keys
               /\ journal[<<r, TxAt(r)>>] # None
               /\ journal[<<r, TxAt(r)>>].parent = History[head.revision - r + 1]
               /\ journal[<<r, TxAt(r)>>].parent.revision = r - 1
               /\ journal[<<r, TxAt(r)>>].digest.expected = r - 1
               /\ views[<<r, TxAt(r)>>] = journal[<<r, TxAt(r)>>].digest.content
    <3>1. /\ r \in 1..MaxRevision /\ head.revision \in Nat
          /\ TxAt(r) = line[r].tx
          /\ r - 1 \in 0..head.revision
          /\ head.revision - (r - 1) = head.revision - r + 1
      BY <2>2, HistoryIsLine DEF IsLine
    <3>2. History[head.revision - r + 1] = line[r - 1]
      BY <2>2, <3>1, HistoryIsLine
    <3>3. line[r - 1].revision = r - 1
      <4>1. CASE r = 1
        BY <4>1, <2>2 DEF IsLine, Origin
      <4>2. CASE r # 1
        <5>1. r - 1 \in 1..head.revision
          BY <4>2, <3>1
        <5>2. QED
          BY <5>1, <2>2 DEF IsLine
      <4>3. QED
        BY <4>1, <4>2
    <3>4. QED
      BY <3>1, <3>2, <3>3, <2>2 DEF IsLine, EntriesAreWhole, Keys
  <2>4. QED
    BY <2>3 DEF HeadIsWhole
<1>2. QED
  BY <1>1, Inductive, PTL

\* What a caller was told is committed stays where it was told, as it sent it.
THEOREM AnswersStand == Spec => []AckedIsCommitted
<1>1. ASSUME IndInv PROVE AckedIsCommitted
  <2>1. PICK line : Whole(line)
    BY <1>1 DEF IndInv
  <2>2. IsLine(line, head, journal) /\ AnswersAreTrue(line)
    BY <2>1 DEF Whole
  <2>3. ASSUME NEW x \in acked
        PROVE  /\ x.revision <= head.revision
               /\ TxAt(x.revision) = x.tx
               /\ journal[<<x.revision, x.tx>>].digest = x.digest
    <3>1. /\ x.revision \in 1..head.revision
          /\ line[x.revision].tx = x.tx
          /\ journal[<<x.revision, x.tx>>].digest = x.digest
      BY <2>2 DEF AnswersAreTrue
    <3>2. TxAt(x.revision) = line[x.revision].tx
      BY <2>2, <3>1, HistoryIsLine
    <3>3. QED
      BY <3>1, <3>2, <2>2 DEF IsLine
  <2>4. QED
    BY <2>3 DEF AckedIsCommitted
<1>2. QED
  BY <1>1, Inductive, PTL

\* No transaction is committed at two revisions of the line.
LEMMA LineIsInjective ==
  ASSUME TypeOK, NEW line, Whole(line),
         NEW r \in 1..head.revision, NEW s \in 1..head.revision,
         line[r].tx = line[s].tx
  PROVE  r = s
<1>1. IsLine(line, head, journal) /\ EntriesAreWhole(line)
  BY DEF Whole
<1>2. r \in 1..MaxRevision /\ s \in 1..MaxRevision
  BY <1>1 DEF IsLine
<1>3. ASSUME NEW i \in 1..head.revision
      PROVE  txdir[line[i].tx].request.expected = i - 1
  <2>1. i \in 1..MaxRevision /\ line[i].tx \in Transactions /\ journal[<<i, line[i].tx>>] # None
    BY <1>1 DEF IsLine
  <2>2. QED
    BY <2>1, <1>1 DEF EntriesAreWhole
<1>4. /\ txdir[line[r].tx].request.expected = r - 1
      /\ txdir[line[s].tx].request.expected = s - 1
  BY <1>3
<1>5. QED
  BY <1>2, <1>4

\* A request sent again, to whatever worker, makes one commit.
THEOREM CommitsOnce == Spec => []OneCommitPerTransaction
<1>1. ASSUME IndInv PROVE OneCommitPerTransaction
  <2>1. PICK line : Whole(line)
    BY <1>1 DEF IndInv
  <2>2. \A r \in 1..head.revision : TxAt(r) = line[r].tx
    BY <2>1, HistoryIsLine DEF Whole
  <2>3. QED
    BY <1>1, <2>1, <2>2, LineIsInjective DEF IndInv, OneCommitPerTransaction
<1>2. QED
  BY <1>1, Inductive, PTL

\* No step touches a view or an entry at a revision HEAD has passed.
LEMMA PassedIsFrozen ==
  ASSUME IndInv, [Next]_vars, NEW r \in 1..head.revision, NEW t \in Transactions
  PROVE  views'[<<r, t>>] = views[<<r, t>>] /\ journal'[<<r, t>>] = journal[<<r, t>>]
<1>1. \/ views' = views /\ journal' = journal
      \/ /\ work # Idle /\ ~At("result")
         /\ \/ /\ \E v : views' = [views EXCEPT ![Key] = v]
               /\ journal' = journal
            \/ /\ \E e : journal' = [journal EXCEPT ![Key] = e]
               /\ views' = views
  BY DEF Next, Call, Refuse, AnswerAgain, RecoverResult, Serve, Step, vars,
         QuarantineTxDir, QuarantineView, QuarantineJournal, MakeTxDir, WriteRequest,
         PublishView, PublishJournal, AdvanceHead, WriteResult, Killed, Idle, At
<1>2. work # Idle /\ ~At("result") => <<r, t>> # Key
  <2> SUFFICES ASSUME work # Idle, ~At("result") PROVE <<r, t>> # Key
    OBVIOUS
  <2>1. head.revision = work.digest.expected /\ head.revision \in Nat
    BY KeyTyped DEF IndInv, WorkIsOrdered
  <2>2. QED
    BY <2>1 DEF Key
<1>3. CASE views' = views /\ journal' = journal
  BY <1>3
<1>3a. <<r, t>> \in DOMAIN views /\ <<r, t>> \in DOMAIN journal
  BY DEF IndInv, TypeOK, Pointers, Keys
<1>4. ASSUME NEW v, work # Idle, ~At("result"),
             views' = [views EXCEPT ![Key] = v], journal' = journal
      PROVE  views'[<<r, t>>] = views[<<r, t>>]
  BY <1>2, <1>4, <1>3a
<1>5. ASSUME NEW e, work # Idle, ~At("result"),
             journal' = [journal EXCEPT ![Key] = e], views' = views
      PROVE  journal'[<<r, t>>] = journal[<<r, t>>]
  BY <1>2, <1>5, <1>3a
<1>6. QED
  BY <1>1, <1>3, <1>4, <1>5

\* HEAD moves by one link at a time and no step touches a commit behind it: a
\* reader that follows any HEAD it has read finds the documents of that HEAD.
THEOREM ReadersAreUndisturbed == Spec => PublishedIsFrozen
<1> DEFINE Frozen ==
      /\ head' # head => /\ head'.revision = head.revision + 1
                         /\ journal[<<head'.revision, head'.tx>>].parent = head
      /\ \A r \in 1..head.revision :
           LET key == <<r, TxAt(r)>>
           IN  views'[key] = views[key] /\ journal'[key] = journal[key]
<1>1. ASSUME IndInv, Next PROVE Frozen
  <2>1. PICK line : Whole(line)
    BY <1>1 DEF IndInv
  <2>2. ASSUME head' # head
        PROVE  /\ head'.revision = head.revision + 1
               /\ journal[<<head'.revision, head'.tx>>].parent = head
    BY <1>1, <2>1, <2>2, HeadMovers, HeadAdvances DEF IndInv
  <2>3. ASSUME NEW r \in 1..head.revision
        PROVE  /\ views'[<<r, TxAt(r)>>] = views[<<r, TxAt(r)>>]
               /\ journal'[<<r, TxAt(r)>>] = journal[<<r, TxAt(r)>>]
    <3>1. TxAt(r) \in Transactions
      BY <2>1, HistoryIsLine DEF Whole, IsLine
    <3>2. QED
      BY <1>1, <3>1, PassedIsFrozen
  <2>4. QED
    BY <2>2, <2>3
<1>2. IndInv /\ [Next]_vars => [Frozen]_vars
  BY <1>1
<1>3. QED
  BY <1>2, Inductive, PTL DEF Spec, PublishedIsFrozen

------------------------------------------------------------------------------
(* The store is the log of CommitLog *)

\* A function on 1..n is a sequence of length n.
LEMMA FunctionIsSequence ==
  ASSUME NEW S, NEW n \in Nat, NEW f \in [1..n -> S]
  PROVE  f \in Seq(S) /\ Len(f) = n
OBVIOUS

\* One more value at n + 1 is appended to it.
LEMMA LongerIsAppend ==
  ASSUME NEW S, NEW f \in Seq(S), NEW x \in S, NEW n \in Nat, Len(f) = n
  PROVE  [r \in 1..(n + 1) |-> IF r = n + 1 THEN x ELSE f[r]] = Append(f, x)
<1> DEFINE a == Append(f, x)
<1>1. /\ a \in Seq(S) /\ Len(a) = n + 1
      /\ \A r \in 1..n : a[r] = f[r]
      /\ a[n + 1] = x
  OBVIOUS
<1> HIDE DEF a
<1>2. a = [r \in 1..(n + 1) |-> a[r]]
  BY <1>1
<1>3. \A r \in 1..(n + 1) : a[r] = IF r = n + 1 THEN x ELSE f[r]
  BY <1>1
<1>4. QED
  BY <1>2, <1>3 DEF a

\* The log a reader sees who follows the parent links from HEAD h, and the one
\* written along a line.
LogBehind(h, j) ==
  [r \in 1..h.revision |->
     [tx      |-> Chain(h, j)[h.revision - r].tx,
      content |-> j[<<r, Chain(h, j)[h.revision - r].tx>>].digest.content]]

LogAlong(line, n, j) ==
  [r \in 1..n |-> [tx      |-> line[r].tx,
                   content |-> j[<<r, line[r].tx>>].digest.content]]

\* They are the same log.
LEMMA LogIsLine ==
  ASSUME NEW h, NEW j, NEW line, IsLine(line, h, j)
  PROVE  LogBehind(h, j) = LogAlong(line, h.revision, j)
<1>1. \A r \in 0..h.revision : Chain(h, j)[h.revision - r] = line[r]
  BY ChainIsLine
<1>2. h.revision \in Nat
  BY DEF IsLine
<1>3. QED
  BY <1>1, <1>2 DEF LogBehind, LogAlong

\* The log CommitLog is instantiated with.
LogNow == [r \in 1..head.revision |->
             [tx |-> TxAt(r), content |-> journal[<<r, TxAt(r)>>].digest.content]]

\* It is the log behind HEAD, in this state and in the next.
LEMMA LogNowBehind ==
  LogNow = LogBehind(head, journal) /\ LogNow' = LogBehind(head', journal')
BY DEF LogNow, LogBehind, TxAt, History, Chain

\* A step that leaves HEAD alone leaves the log alone.
LEMMA LogStands ==
  ASSUME IndInv, [Next]_vars, head' = head
  PROVE  LogNow' = LogNow
<1>1. PICK line : Whole(line)
  BY DEF IndInv
<1>2. Whole(line)'
  BY <1>1, StepWhole DEF IndInv
<1>3. IsLine(line, head, journal) /\ IsLine(line, head', journal')
  BY <1>1, <1>2 DEF Whole
<1>4. /\ LogNow = LogAlong(line, head.revision, journal)
      /\ LogNow' = LogAlong(line, head.revision, journal')
  BY <1>3, LogIsLine, LogNowBehind
<1>5. \A r \in 1..head.revision : journal'[<<r, line[r].tx>>] = journal[<<r, line[r].tx>>]
  BY <1>3, PassedIsFrozen DEF IsLine
<1>6. QED
  BY <1>4, <1>5 DEF LogAlong

\* AdvanceHead appends its transaction, which is not yet in the log.
LEMMA LogGrows ==
  ASSUME IndInv, AdvanceHead
  PROVE  \E tx \in Transactions, content \in Contents :
           /\ ~ \E i \in DOMAIN LogNow : LogNow[i].tx = tx
           /\ LogNow' = Append(LogNow, [tx |-> tx, content |-> content])
<1> DEFINE n == head.revision
           tx == work.tx
           content == work.digest.content
           link == [tx |-> tx, content |-> content]
<1>1. PICK line : Whole(line)
  BY DEF IndInv
<1>2. PICK longer : longer = Longer(line, head') /\ Whole(longer)'
  BY <1>1, HeadAdvances DEF IndInv
<1>3. /\ head' = [revision |-> n + 1, tx |-> tx]
      /\ n \in 0..MaxRevision /\ n + 1 \in 1..MaxRevision
      /\ tx \in Transactions
      /\ journal' = journal
  BY <1>1, HeadAdvances DEF IndInv, TypeOK, Pointers, AdvanceHead
<1>4. /\ LogNow = LogAlong(line, n, journal)
      /\ LogNow' = LogAlong(longer, n + 1, journal)
  BY <1>1, <1>2, <1>3, LogIsLine, LogNowBehind DEF Whole
<1>5. work # Idle /\ txdir[tx].request = work.digest /\ n = work.digest.expected
  BY DEF AdvanceHead, IndInv, WorkIsOrdered, At, Idle
<1>6. content \in Contents
  BY <1>5, KeyTyped DEF IndInv
<1>7. /\ longer[n + 1] = head'
      /\ \A r \in 1..n : longer[r] = line[r]
  BY <1>2, <1>3 DEF Longer
<1>8. journal[<<n + 1, tx>>] # None /\ journal[<<n + 1, tx>>].digest = txdir[tx].request
  <2>1. Key = <<n + 1, tx>>
    BY <1>5 DEF Key
  <2>2. journal[Key] # None
    BY <1>5 DEF AdvanceHead, IndInv, WorkIsOrdered, At
  <2>3. QED
    BY <2>1, <2>2, <1>1, <1>3 DEF Whole, EntriesAreWhole
<1>9. \A r \in 1..n : line[r].tx # tx
  <2>1. SUFFICES ASSUME NEW r \in 1..n, line[r].tx = tx PROVE FALSE
    OBVIOUS
  <2>2. r \in 1..MaxRevision /\ journal[<<r, tx>>] # None
    BY <1>1, <1>3, <2>1 DEF Whole, IsLine
  <2>3. work.digest.expected = r - 1
    BY <2>2, <1>1, <1>3, <1>5 DEF Whole, EntriesAreWhole
  <2>4. QED
    BY <2>3, <1>3, <1>5
<1>10. LogNow \in Seq([tx : Transactions, content : Contents]) /\ Len(LogNow) = n
  <2>1. ASSUME NEW r \in 1..n
        PROVE  line[r].tx \in Transactions /\ journal[<<r, line[r].tx>>].digest.content \in Contents
    <3>1. r \in 1..MaxRevision /\ line[r].tx \in Transactions /\ journal[<<r, line[r].tx>>] # None
      BY <1>1, <1>3 DEF Whole, IsLine
    <3>2. journal[<<r, line[r].tx>>] \in Entries
      BY <3>1 DEF IndInv, TypeOK, Keys
    <3>3. QED
      BY <3>1, <3>2 DEF Entries, Digests
  <2>2. n \in Nat /\ LogNow \in [1..n -> [tx : Transactions, content : Contents]]
    BY <2>1, <1>3, <1>4 DEF LogAlong
  <2>3. QED
    BY <2>2, FunctionIsSequence
<1>11. LogNow' = Append(LogNow, link)
  <2>1. LogNow' = [r \in 1..(n + 1) |-> IF r = n + 1 THEN link ELSE LogNow[r]]
    <3>1. ASSUME NEW r \in 1..(n + 1)
          PROVE  LogAlong(longer, n + 1, journal)[r]
                   = IF r = n + 1 THEN link ELSE LogAlong(line, n, journal)[r]
      <4>1. CASE r = n + 1
        BY <4>1, <1>3, <1>5, <1>7, <1>8 DEF LogAlong
      <4>2. CASE r # n + 1
        BY <4>2, <1>3, <1>7 DEF LogAlong
      <4>3. QED
        BY <4>1, <4>2
    <3>2. LogNow' = [r \in 1..(n + 1) |-> LogAlong(longer, n + 1, journal)[r]]
      BY <1>4 DEF LogAlong
    <3>3. QED
      BY <3>1, <3>2, <1>4
  <2>2. n \in Nat /\ link \in [tx : Transactions, content : Contents]
    BY <1>3, <1>6
  <2> HIDE DEF n, link
  <2>3. QED
    BY <2>1, <2>2, <1>10, LongerIsAppend
<1>12. \A i \in DOMAIN LogNow : LogNow[i].tx # tx
  BY <1>4, <1>9 DEF LogAlong
<1>13. QED
  BY <1>3, <1>6, <1>11, <1>12

\* The store implements CommitLog: a commit appends to the log behind HEAD,
\* once per transaction, and no other step is seen by a reader.
THEOREM ImplementsLog == Spec => StoreIsLog
<1>1. Init => Log!Init
  <2>1. SUFFICES ASSUME Init PROVE LogNow = <<>>
    BY DEF Log!Init, LogNow
  <2>2. head.revision = 0
    BY <2>1 DEF Init, Origin
  <2>3. QED
    BY <2>2 DEF LogNow
<1>2. IndInv /\ [Next]_vars => [Log!Next]_LogNow
  <2> SUFFICES ASSUME IndInv, [Next]_vars PROVE [Log!Next]_LogNow
    OBVIOUS
  <2>1. CASE head' = head
    BY <2>1, LogStands
  <2>2. CASE AdvanceHead
    BY <2>2, LogGrows DEF Log!Next, Log!Commit, Log!Committed, LogNow
  <2>3. QED
    BY <2>1, <2>2, HeadMovers
<1>3. QED
  BY <1>1, <1>2, Inductive, PTL DEF Spec, StoreIsLog, Log!Spec, LogNow
==============================================================================
