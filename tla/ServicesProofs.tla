---------------------------- MODULE ServicesProofs ----------------------------
(***************************************************************************)
(* What the services of module Services promise, for any number of         *)
(* clients, processes, events and jobs.  Each is proved of its service     *)
(* alone: the others share nothing with it.                                *)
(***************************************************************************)
EXTENDS Services, FiniteSetTheorems, WellFoundedInduction, TLAPS

USE ServicesAssumption

------------------------------------------------------------------------------
(* The daemon *)

HoldsLock == {"locked", "clear", "serving", "exit 1", "exit 2"}

\* From taking the flock to giving it back a daemon is its only owner; so
\* nobody else starts or exits while one serves, and only a client can have
\* taken its socket away.
DaemonInv ==
  /\ daemon \in [Daemons -> {"off", "spawned"} \union HoldsLock]
  /\ \A d \in Daemons : daemon[d] \in HoldsLock => owner = d
  /\ DaemonReachable

\* Every step of a daemon or of a client keeps it.
LEMMA DaemonStep == DaemonInv /\ [D!DaemonNext]_daemons => DaemonInv'
<1> SUFFICES ASSUME DaemonInv, [D!DaemonNext]_daemons PROVE DaemonInv'
  OBVIOUS
<1> USE DEF DaemonInv, DaemonReachable, D!Reachable, HoldsLock, D!Enters
<1>1. ASSUME NEW d \in Daemons, D!TakeLock(d) PROVE DaemonInv'
  <2>1. CASE owner = Nobody
    BY <1>1, <2>1 DEF D!TakeLock
  <2>2. CASE owner # Nobody
    BY <1>1, <2>2 DEF D!TakeLock
  <2>3. QED
    BY <2>1, <2>2
<1>2. ASSUME NEW d \in Daemons, D!RemoveOld(d) PROVE DaemonInv'
  BY <1>2 DEF D!RemoveOld
<1>3. ASSUME NEW d \in Daemons, D!Bind(d) PROVE DaemonInv'
  BY <1>3 DEF D!Bind
<1>4. ASSUME NEW d \in Daemons, D!Closes(d) PROVE DaemonInv'
  BY <1>4 DEF D!Closes, D!Serves
<1>5. ASSUME NEW d \in Daemons, D!Killed(d) PROVE DaemonInv'
  BY <1>5 DEF D!Killed
<1>6. ASSUME NEW d \in Daemons, NEW n \in {1, 2}, D!Exits(d, n) PROVE DaemonInv'
  <2>1. D!ExitSteps[1] = "unlink" /\ D!ExitSteps[2] = "unlock"
    BY DEF D!ExitSteps
  <2>2. CASE n = 1
    <3>1. /\ daemon[d] = "exit 1" /\ daemon' = [daemon EXCEPT ![d] = "exit 2"]
          /\ owner' = owner
      BY <1>6, <2>1, <2>2 DEF D!Exits
    <3>2. QED
      BY <3>1
  <2>3. CASE n = 2
    <3>1. /\ daemon[d] = "exit 2" /\ daemon' = [daemon EXCEPT ![d] = "off"]
          /\ socket' = socket /\ orphans' = orphans
          /\ owner' = IF owner = d THEN Nobody ELSE owner
      BY <1>6, <2>1, <2>3 DEF D!Exits
    <3>2. QED
      BY <3>1
  <2>4. QED
    BY <2>2, <2>3
<1>7. ASSUME NEW c \in Clients, D!UnlinkStale(c) PROVE DaemonInv'
  BY <1>7 DEF D!UnlinkStale, D!Serves
<1>8. ASSUME NEW c \in Clients, NEW d \in Daemons, D!spawn_daemon(c, d) PROVE DaemonInv'
  BY <1>8 DEF D!spawn_daemon
<1>9. ASSUME NEW c \in Clients,
             \/ D!Probe(c, "idle", "probing") \/ D!Hears(c, "probing") \/ D!HearsNothing(c)
             \/ D!FindsNone(c)
             \/ D!Probe(c, "waiting", "polling") \/ D!Hears(c, "polling") \/ D!NotYet(c)
             \/ D!GoesWithout(c) \/ D!call(c) \/ D!Refused(c) \/ D!Answer(c)
             \/ D!GivesUp(c) \/ D!cancel(c) \/ D!Completes(c)
      PROVE  DaemonInv'
  BY <1>9 DEF D!Probe, D!Hears, D!HearsNothing, D!FindsNone, D!NotYet, D!GoesWithout,
              D!call, D!Refused, D!Answer, D!GivesUp, D!cancel, D!Completes
<1>10. CASE UNCHANGED daemons
  BY <1>10 DEF daemons
<1>11. QED
  BY <1>1, <1>2, <1>3, <1>4, <1>5, <1>6, <1>7, <1>8, <1>9, <1>10 DEF D!DaemonNext

\* Two daemons never serve at once, and the one that serves is found at its
\* socket unless a client removed it, whoever is killed and spawned again.
THEOREM DaemonIsReachable ==
  D!DaemonInit /\ [][D!DaemonNext]_daemons => []DaemonReachable
<1>1. D!DaemonInit => DaemonInv
  BY DEF D!DaemonInit, DaemonInv, DaemonReachable, D!Reachable, HoldsLock
<1>2. DaemonInv => DaemonReachable
  BY DEF DaemonInv
<1>3. QED
  BY <1>1, <1>2, DaemonStep, PTL

------------------------------------------------------------------------------
(* Numbers *)

\* A set of numbers that is not empty has a least element.
LEMMA LeastElement ==
  ASSUME NEW T, T \subseteq Nat, T # {}
  PROVE  \E m \in T : \A k \in T : ~(k < m)
<1> DEFINE Less == OpToRel(<, Nat)
<1>1. IsWellFoundedOn(Less, Nat)
  BY NatLessThanWellFounded, Zenon
<1>2. \A k, m \in Nat : k < m => <<k, m>> \in Less
  BY Zenon DEF OpToRel
<1> HIDE DEF Less
<1>3. PICK m \in T : \A k \in T : ~(<<k, m>> \in Less)
  BY <1>1, WFMin
<1>4. QED
  BY <1>2, <1>3

\* A bounded one has a greatest, which is what Highest chooses.
LEMMA HighestIsGreatest ==
  ASSUME NEW T, T \subseteq Nat, T # {}, NEW b \in Nat, \A n \in T : n <= b
  PROVE  A!Highest(T) \in T /\ \A n \in T : n <= A!Highest(T)
<1> DEFINE Bounds == {m \in Nat : \A n \in T : n <= m}
<1>1. Bounds \subseteq Nat /\ b \in Bounds
  OBVIOUS
<1>2. PICK m \in Bounds : \A k \in Bounds : ~(k < m)
  <2> HIDE DEF Bounds
  <2>1. QED
    BY <1>1, LeastElement
<1>3. m \in T
  <2>1. SUFFICES ASSUME m \notin T PROVE FALSE
    OBVIOUS
  <2>2. PICK n \in T : TRUE
    OBVIOUS
  <2>3. \A k \in T : k < m
    BY <2>1
  <2>4. m - 1 \in Bounds
    BY <2>2, <2>3
  <2>5. QED
    BY <2>4, <1>2
<1>4. \E h \in T : \A n \in T : n <= h
  BY <1>3
<1>5. QED
  BY <1>4 DEF A!Highest

------------------------------------------------------------------------------
(* The activity journal *)

\* Events as the table holds them: a finite set, one event to a number.
Numbered(es) ==
  /\ IsFiniteSet(es)
  /\ \A e \in es : e.seq \in Nat
  /\ \A e, k \in es : e.seq = k.seq => e = k

\* The instance counts as FiniteSets does.
LEMMA JournalCounts == \A T : A!Cardinality(T) = Cardinality(T)
BY DEF A!Cardinality, Cardinality

\* Retention deletes a prefix.
LEMMA KeptIsSuffix ==
  ASSUME NEW es, Numbered(es), NEW upto \in Nat,
         NEW e \in A!Kept(es, upto), NEW k \in es \ A!Kept(es, upto)
  PROVE  k.seq < e.seq
<1> DEFINE From(x) == {y \in es : y.seq >= x.seq}
<1>0. A!Kept(es, upto) = {x \in es : x.seq > upto /\ Cardinality(From(x)) <= MaxKept}
  BY JournalCounts DEF A!Kept
<1> HIDE DEF From
<1>1. /\ e \in es /\ e.seq \in Nat /\ k \in es /\ k.seq \in Nat
      /\ e.seq > upto /\ Cardinality(From(e)) <= MaxKept
      /\ k.seq > upto => ~(Cardinality(From(k)) <= MaxKept)
  BY <1>0 DEF Numbered
<1>2. SUFFICES ASSUME k.seq >= e.seq PROVE FALSE
  BY <1>1
<1>3. From(k) \subseteq From(e)
  BY <1>1, <1>2 DEF Numbered, From
<1>4. IsFiniteSet(From(e))
  BY FS_Subset DEF Numbered, From
<1>5. Cardinality(From(k)) <= Cardinality(From(e)) /\ IsFiniteSet(From(k))
  BY <1>3, <1>4, FS_Subset
<1>6. Cardinality(From(k)) \in Nat /\ Cardinality(From(e)) \in Nat
  BY <1>4, <1>5, FS_CardinalityType
<1>7. QED
  BY <1>1, <1>2, <1>5, <1>6

\* Where retention says it has come to, after everything up to p was gone.
PrunedTo(es, upto, p) ==
  IF es = A!Kept(es, upto) THEN p ELSE A!Highest(A!Numbers(es \ A!Kept(es, upto)))

\* It has come no less far than before, and what is above is all there.
LEMMA RetentionIsHonest ==
  ASSUME NEW es, Numbered(es), NEW upto \in Nat, NEW p \in Nat, NEW b \in Nat, p <= b,
         \A e \in es : p < e.seq /\ e.seq <= b
  PROVE  /\ Numbered(A!Kept(es, upto))
         /\ PrunedTo(es, upto, p) \in p..b
         /\ \A e \in A!Kept(es, upto) : e \in es /\ PrunedTo(es, upto, p) < e.seq
         /\ \A e \in es : PrunedTo(es, upto, p) < e.seq => e \in A!Kept(es, upto)
<1> DEFINE kept == A!Kept(es, upto)
           gone == A!Numbers(es \ kept)
           to == PrunedTo(es, upto, p)
<1>1. kept \subseteq es
  BY DEF A!Kept
<1>2. Numbered(kept)
  BY <1>1, FS_Subset DEF Numbered
<1>3. CASE es = kept
  BY <1>1, <1>2, <1>3 DEF PrunedTo
<1>4. CASE es # kept
  <2>1. gone \subseteq Nat /\ gone # {} /\ \A n \in gone : n <= b
    BY <1>1, <1>4 DEF A!Numbers, Numbered
  <2>2. to \in gone /\ \A n \in gone : n <= to
    BY <2>1, <1>4, HighestIsGreatest DEF PrunedTo
  <2>3. PICK k \in es \ kept : k.seq = to
    BY <2>2 DEF A!Numbers
  <2>4. \A e \in kept : to < e.seq
    BY <2>3, KeptIsSuffix
  <2>5. \A e \in es : e \notin kept => e.seq \in gone
    BY DEF A!Numbers
  <2>6. to \in p..b
    BY <2>1, <2>2, <2>3
  <2> HIDE DEF to, gone, kept
  <2>7. ASSUME NEW e \in es, to < e.seq PROVE e \in kept
    <3>1. SUFFICES ASSUME e \notin kept PROVE FALSE
      OBVIOUS
    <3>2. e.seq <= to /\ e.seq \in Nat /\ to \in Nat
      BY <2>1, <2>2, <2>5, <3>1
    <3>3. QED
      BY <2>7, <3>2
  <2>8. QED
    BY <1>1, <1>2, <2>4, <2>6, <2>7 DEF to, kept
<1>5. QED
  BY <1>3, <1>4

\* An unfinished page is not empty, and holds every row up to its last one.
LEMMA PageIsPrefix ==
  ASSUME NEW rows, Numbered(rows), NEW b \in Nat, \A e \in rows : e.seq <= b,
         A!Page(rows) # rows
  PROVE  LET end == A!Highest(A!Numbers(A!Page(rows)))
         IN  /\ end \in 0..b
             /\ \A e \in rows : e.seq <= end => e \in A!Page(rows)
<1> DEFINE Upto(x) == {y \in rows : y.seq <= x.seq}
           page == A!Page(rows)
           numbers == A!Numbers(page)
           end == A!Highest(numbers)
<1>0. page = {x \in rows : Cardinality(Upto(x)) <= Limit}
  BY JournalCounts DEF A!Page
<1>1. \A x \in rows : /\ IsFiniteSet(Upto(x)) /\ Cardinality(Upto(x)) \in Nat
  BY FS_Subset, FS_CardinalityType DEF Numbered
<1>2. \A x, y \in rows : x.seq <= y.seq => Cardinality(Upto(x)) <= Cardinality(Upto(y))
  <2>1. SUFFICES ASSUME NEW x \in rows, NEW y \in rows, x.seq <= y.seq
                 PROVE  Cardinality(Upto(x)) <= Cardinality(Upto(y))
    OBVIOUS
  <2>2. Upto(x) \subseteq Upto(y)
    BY <2>1 DEF Numbered
  <2> HIDE DEF Upto
  <2>3. QED
    BY <2>2, <1>1, FS_Subset
<1>3. PICK first \in rows : \A y \in rows : first.seq <= y.seq
  <2>1. rows # {}
    BY <1>0
  <2> DEFINE all == {x.seq : x \in rows}
  <2>2. all \subseteq Nat /\ all # {}
    BY <2>1 DEF Numbered
  <2>3. PICK m \in all : \A k \in all : ~(k < m)
    <3> HIDE DEF all
    <3>1. QED
      BY <2>2, LeastElement
  <2>4. PICK x \in rows : x.seq = m
    OBVIOUS
  <2>5. \A y \in rows : x.seq <= y.seq
    BY <2>2, <2>3, <2>4
  <2>6. QED
    BY <2>5
<1>4. first \in page
  <2>1. Upto(first) = {first}
    BY <1>3 DEF Numbered
  <2>2. Cardinality(Upto(first)) = 1
    BY <2>1, FS_Singleton
  <2> HIDE DEF Upto
  <2>3. QED
    BY <2>2, <1>0
<1>5. numbers \subseteq Nat /\ numbers # {} /\ \A n \in numbers : n <= b
  <2>1. page \subseteq rows
    BY <1>0
  <2>2. numbers = {e.seq : e \in page}
    BY DEF A!Numbers
  <2> HIDE DEF page, numbers
  <2>3. QED
    BY <1>4, <2>1, <2>2 DEF Numbered
<1>6. end \in numbers /\ \A n \in numbers : n <= end
  BY <1>5, HighestIsGreatest
<1>7. PICK h \in page : h.seq = end
  BY <1>6 DEF A!Numbers
<1> HIDE DEF Upto
<1>8. ASSUME NEW e \in rows, e.seq <= end PROVE e \in page
  <2>1. h \in rows /\ Cardinality(Upto(h)) <= Limit
    BY <1>0
  <2>2. Cardinality(Upto(e)) <= Cardinality(Upto(h))
    BY <1>2, <1>7, <1>8, <2>1
  <2>3. Cardinality(Upto(e)) <= Limit
    BY <1>1, <2>1, <2>2
  <2>4. QED
    BY <1>0, <2>3
<1>9. end \in 0..b
  BY <1>5, <1>6
<1>10. QED
  BY <1>8, <1>9

\* The table: events are numbered in the order they came, and what is above
\* pruned is all there, the workspace's events among it.
TableInv ==
  /\ last \in Nat
  /\ pruned \in 0..last
  /\ Numbered(events)
  /\ \A e \in events : pruned < e.seq /\ e.seq <= last
  /\ inScope \subseteq 1..last
  /\ \A n \in inScope : pruned < n => \E e \in events : e.seq = n /\ e.scope

\* A cursor does not run ahead of the journal, and nothing was skipped.
JournalInv ==
  /\ TableInv
  /\ follower \in [Followers -> [cursor : Nat, after : BOOLEAN, seen : SUBSET Nat, since : Nat]]
  /\ \A f \in Followers : follower[f].cursor <= last
  /\ FollowersMissNothing

\* What an append or a retention may do to the table under a follower's eyes.
TableMoves ==
  /\ TableInv'
  /\ last <= last'
  /\ \A n \in inScope' : n <= last => n \in inScope

\* An event is appended, and the oldest go.
LEMMA AppendKeeps ==
  ASSUME TableInv, NEW scope \in BOOLEAN, NEW key, NEW done, A!append(scope, key, done)
  PROVE  TableMoves
<1> USE DEF TableInv, TableMoves
<1>1. CASE UNCHANGED <<events, last, pruned, inScope>>
  BY <1>1
<1>2. CASE ~UNCHANGED <<events, last, pruned, inScope>>
  <2> DEFINE new == [seq |-> last + 1, scope |-> scope, key |-> key]
             es == events \union {new}
  <2>1. /\ last' = last + 1
        /\ inScope' = IF scope THEN inScope \union {last + 1} ELSE inScope
        /\ events' = A!Kept(es, 0)
        /\ pruned' = PrunedTo(es, 0, pruned)
    BY <1>2 DEF A!append, A!_prune, PrunedTo
  <2>2. new.seq = last + 1 /\ new.scope = scope
    OBVIOUS
  <2> HIDE DEF new
  <2>3. Numbered(es)
    BY <2>2, FS_AddElement DEF Numbered
  <2>4. \A e \in es : pruned < e.seq /\ e.seq <= last + 1
    BY <2>2 DEF Numbered
  <2>5. \A n \in inScope' : pruned < n => \E e \in es : e.seq = n /\ e.scope
    BY <2>1, <2>2
  <2>6. inScope' \subseteq 1..(last + 1) /\ \A n \in inScope' : n <= last => n \in inScope
    BY <2>1
  <2> HIDE DEF es
  <2>7. /\ Numbered(events')
        /\ pruned' \in pruned..(last + 1)
        /\ \A e \in events' : e \in es /\ pruned' < e.seq
        /\ \A e \in es : pruned' < e.seq => e \in events'
    BY <2>1, <2>3, <2>4, RetentionIsHonest
  <2>8. \A n \in inScope' : pruned' < n => \E e \in events' : e.seq = n /\ e.scope
    BY <2>5, <2>6, <2>7
  <2>9. QED
    BY <2>1, <2>4, <2>6, <2>7, <2>8
<1>3. QED
  BY <1>1, <1>2

\* Retention by age.
LEMMA PruneKeeps ==
  ASSUME TableInv, NEW upto, A!Prune(upto)
  PROVE  TableMoves
<1> USE DEF TableInv, TableMoves
<1>1. /\ upto \in Nat
      /\ events' = A!Kept(events, upto)
      /\ pruned' = PrunedTo(events, upto, pruned)
      /\ UNCHANGED <<last, inScope>>
  BY DEF A!Prune, A!_prune, A!Numbers, PrunedTo, Numbered
<1>2. /\ Numbered(events')
      /\ pruned' \in pruned..last
      /\ \A e \in events' : e \in events /\ pruned' < e.seq
      /\ \A e \in events : pruned' < e.seq => e \in events'
  BY <1>1, RetentionIsHonest
<1>3. \A n \in inScope : pruned' < n => \E e \in events' : e.seq = n /\ e.scope
  BY <1>2
<1>4. QED
  BY <1>1, <1>2, <1>3

\* No page skips a row: not at its end, not over what retention took.
LEMMA QueryKeeps ==
  ASSUME JournalInv, NEW f \in Followers, A!query(f)
  PROVE  JournalInv'
<1> USE DEF JournalInv, TableInv
<1> DEFINE q == follower[f]
           rows == {e \in events : e.scope /\ e.seq > q.cursor}
           next == A!NextCursor(rows)
           gap == q.after /\ q.cursor < pruned
           fresh == [A!Start EXCEPT !.cursor = last, !.after = TRUE, !.since = last,
                                    !.seen = A!Numbers(A!Latest(rows))]
           on == [q EXCEPT !.cursor = next, !.seen = @ \union A!Numbers(A!Page(rows))]
           States == [cursor : Nat, after : BOOLEAN, seen : SUBSET Nat, since : Nat]
           Sees(p) == /\ p \in States
                      /\ p.cursor <= last
                      /\ \A n \in inScope : p.since < n /\ n <= p.cursor => n \in p.seen
<1>1. /\ follower' = [follower EXCEPT ![f] = IF gap THEN A!Start ELSE IF ~q.after THEN fresh ELSE on]
      /\ UNCHANGED <<events, last, pruned, inScope>>
  BY DEF A!query, A!stored
<1>2. Sees(q)
  BY DEF FollowersMissNothing, A!FollowerSeesAll
<1>3. Sees(A!Start)
  BY DEF A!Start
<1>4. Numbered(rows) /\ \A e \in rows : e.seq <= last
  BY FS_Subset DEF Numbered
<1>5. A!Numbers(A!Latest(rows)) \subseteq Nat /\ A!Numbers(A!Page(rows)) \subseteq Nat
  <2>1. A!Latest(rows) \subseteq rows /\ A!Page(rows) \subseteq rows
    BY DEF A!Latest, A!Page
  <2> HIDE DEF rows
  <2>2. \A x \in SUBSET rows : A!Numbers(x) \subseteq Nat
    BY <1>4 DEF A!Numbers, Numbered
  <2>3. QED
    BY <2>1, <2>2
<1>6. Sees(fresh)
  <2> DEFINE latest == A!Numbers(A!Latest(rows))
  <2> HIDE DEF latest, rows
  <2> DEFINE start == A!Start
  <2>1. start \in States
    BY DEF A!Start
  <2>2. latest \subseteq Nat
    BY <1>5 DEF latest
  <2>3. fresh = [start EXCEPT !.cursor = last, !.after = TRUE, !.since = last, !.seen = latest]
    BY DEF latest
  <2> HIDE DEF start, fresh
  <2>4. fresh \in States /\ fresh.cursor = last /\ fresh.since = last
    BY <2>1, <2>2, <2>3
  <2> HIDE DEF States
  <2>5. QED
    BY <2>4 DEF latest
<1>7. ASSUME ~gap, q.after PROVE Sees(on)
  <2>1. next \in 0..last /\ \A e \in rows : e.seq <= next => e \in A!Page(rows)
    <3>1. CASE A!Page(rows) = rows
      BY <3>1, <1>4 DEF A!NextCursor
    <3>2. CASE A!Page(rows) # rows
      <4> HIDE DEF rows
      <4>1. QED
        BY <3>2, <1>4, PageIsPrefix DEF A!NextCursor
    <3>3. QED
      BY <3>1, <3>2
  <2>2. /\ on.cursor = next /\ on.since = q.since /\ on.after = q.after
        /\ on.seen = q.seen \union A!Numbers(A!Page(rows))
        /\ on \in States
    <3> DEFINE paged == A!Numbers(A!Page(rows))
    <3>1. paged \subseteq Nat /\ next \in Nat /\ q \in States
      BY <2>1, <1>2, <1>5
    <3> HIDE DEF paged, next, rows, q
    <3>2. on = [q EXCEPT !.cursor = next, !.seen = q.seen \union paged]
      BY <3>1 DEF paged
    <3> HIDE DEF on
    <3>3. QED
      BY <3>1, <3>2 DEF paged
  <2>3. ASSUME NEW n \in inScope, q.since < n, n <= next PROVE n \in on.seen
    <3>1. CASE n <= q.cursor
      BY <3>1, <2>2, <2>3, <1>2
    <3>2. CASE ~(n <= q.cursor)
      <4>1. n \in Nat /\ pruned < n
        BY <3>2, <1>7, <1>2
      <4>2. PICK e \in events : e.seq = n /\ e.scope
        BY <4>1
      <4>3. e \in A!Page(rows)
        BY <4>1, <4>2, <3>2, <2>1, <2>3, <1>2
      <4>4. n \in A!Numbers(A!Page(rows))
        BY <4>2, <4>3 DEF A!Numbers
      <4>5. QED
        BY <4>4, <2>2
    <3>3. QED
      BY <3>1, <3>2
  <2> HIDE DEF on, next
  <2>4. QED
    BY <2>1, <2>2, <2>3
<1> HIDE DEF q, gap, fresh, on, rows
<1>8. Sees(follower'[f])
  BY <1>1, <1>3, <1>6, <1>7
<1>9. \A g \in Followers : Sees(follower'[g])
  BY <1>1, <1>8 DEF FollowersMissNothing, A!FollowerSeesAll
<1>10. follower' \in [Followers -> States]
  BY <1>1, <1>9
<1>11. QED
  BY <1>1, <1>9, <1>10 DEF FollowersMissNothing, A!FollowerSeesAll

\* Every step of writers, retention and followers keeps it.
LEMMA JournalStep == JournalInv /\ [A!JournalNext]_journal => JournalInv'
<1> SUFFICES ASSUME JournalInv, [A!JournalNext]_journal PROVE JournalInv'
  OBVIOUS
<1>1. ASSUME TableMoves, UNCHANGED follower PROVE JournalInv'
  BY <1>1 DEF JournalInv, TableInv, TableMoves, FollowersMissNothing, A!FollowerSeesAll
<1>2. ASSUME UNCHANGED <<events, last, pruned, inScope>> PROVE TableMoves
  BY <1>2 DEF JournalInv, TableInv, TableMoves
<1>3. ASSUME NEW upto \in 1..MaxEvents, A!Prune(upto) PROVE JournalInv'
  BY <1>1, <1>3, PruneKeeps DEF JournalInv, A!Prune
<1>4. ASSUME NEW scope \in BOOLEAN, A!capture(scope) PROVE TableMoves
  BY <1>2, <1>4, AppendKeeps DEF JournalInv, A!capture, A!stored
<1>5. ASSUME NEW a \in Actors, NEW scope \in BOOLEAN,
             A!Requests(a, scope) \/ A!Submitted(a, scope) \/ A!Outcome(a, scope)
      PROVE  JournalInv'
  BY <1>1, <1>4, <1>5 DEF A!Requests, A!Submitted, A!Outcome
<1>6. ASSUME NEW a \in Actors, A!Dies(a) PROVE JournalInv'
  BY <1>1, <1>2, <1>6 DEF A!Dies, A!stored
<1>7. ASSUME NEW fact \in Facts, A!publish(fact) PROVE JournalInv'
  BY <1>1, <1>7, AppendKeeps DEF JournalInv, A!publish
<1>8. ASSUME NEW f \in Followers, A!query(f) PROVE JournalInv'
  BY <1>8, QueryKeeps
<1>9. CASE UNCHANGED journal
  BY <1>1, <1>2, <1>9 DEF journal
<1>10. QED
  BY <1>3, <1>5, <1>6, <1>7, <1>8, <1>9 DEF A!JournalNext

\* Who follows the journal by its cursors sees every event of its workspace,
\* whatever is appended, deleted, or recorded of other workspaces meanwhile.
THEOREM FollowersSeeAll ==
  A!JournalInit /\ [][A!JournalNext]_journal => []FollowersMissNothing
<1>1. A!JournalInit => JournalInv
  BY FS_EmptySet DEF A!JournalInit, A!Start, JournalInv, TableInv, Numbered,
                     FollowersMissNothing, A!FollowerSeesAll
<1>2. JournalInv => FollowersMissNothing
  BY DEF JournalInv
<1>3. QED
  BY <1>1, <1>2, JournalStep, PTL
------------------------------------------------------------------------------
(* Watches *)

TaskFates == {"live", "ok", "bad"}
Polls == [terminal : BOOLEAN, failed : BOOLEAN, unknown : BOOLEAN, seen : SUBSET WatchedTasks]
WatchRows == [status       : {"none", "active", "stopped", "finished"},
              reason       : {"none", "any_failed", "all_terminal"},
              delivery     : {"pending", "unknown", "sent", "failed"},
              observations : [WatchedTasks -> Polls]]
Rounds == {"queue", "accounting", "merge", "notify", "sent", "failed"}
Monitors == [pc     : {"off", "passive", "idle"} \union Rounds,
             due    : [Watches -> WatchRows],
             sample : [WatchedTasks -> {"unread", "none"} \union TaskFates],
             todo   : SUBSET Watches]

TasksIn(of, j) == {t \in WatchedTasks : of[t] = j}

\* What an observation o of job j says is so, by the tasks' true fates.
PollTrue(fates, of, j, o) ==
  /\ o.seen \subseteq TasksIn(of, j)
  /\ o.failed => \E t \in TasksIn(of, j) : fates[t] = "bad"
  /\ o.terminal => \A t \in TasksIn(of, j) :
       TasksIn(of, j) = {t} \/ t \in o.seen => fates[t] # "live" /\ (fates[t] = "bad" => o.failed)

\* A row r has true observations, of every task the watch has sighted, and
\* finishes by them.
RowTrue(fates, of, r, seen) ==
  /\ \A j \in WatchedTasks : PollTrue(fates, of, j, r.observations[j])
  /\ \A t \in seen : t \in r.observations[of[t]].seen
  /\ r.status = "finished" =>
       IF r.reason = "any_failed" THEN \E t \in WatchedTasks : fates[t] = "bad"
       ELSE \A t \in WatchedTasks : r.observations[of[t]].terminal

\* How often a watch with row r has notified.
RowPaid(r, times, stopped) ==
  /\ r.status # "finished" => r.delivery = "pending" /\ times = 0
  /\ r.status = "finished" => r.delivery # "pending"
  /\ r.delivery = "sent" => times = 1
  /\ stopped => r.status = "stopped"

\* A monitor in a round has the observations of the rows it has still to do;
\* the one it has finished it has not notified before.
RowHeld(m, w, r, times) ==
  /\ m.due[w].observations = r.observations
  /\ \/ /\ m.due[w].status = "active" /\ m.due[w].delivery = "pending"
        /\ r.status \in {"active", "stopped"}
     \/ /\ m.due[w].status = "finished"
        /\ r.status = "finished"
        /\ m.pc \in {"notify", "sent", "failed"}
        /\ m.pc = "notify" => r.delivery = "unknown" /\ times = 0
        /\ m.pc = "sent" => times = 1
        /\ m.pc = "failed" => times = 0

MonitorTrue(m, fates, rs, times) ==
  /\ m.pc \notin Rounds => m.todo = {}
  /\ \A t \in WatchedTasks : m.sample[t] \in {"ok", "bad"} => fates[t] = m.sample[t]
  /\ \A w \in m.todo : RowHeld(m, w, rs[w], times[w])
  /\ \A v, w \in m.todo : m.due[v].status = "finished" /\ m.due[w].status = "finished" => v = w

WatchTyped ==
  /\ jobOf \in [WatchedTasks -> WatchedTasks]
  /\ watchFate \in [WatchedTasks -> TaskFates]
  /\ watchSacct \in [WatchedTasks -> {"none"} \union TaskFates]
  /\ row \in [Watches -> WatchRows]
  /\ monitor \in [WatchDaemons -> Monitors]
  /\ told \in [Watches -> {0, 1}]
  /\ sighted \in [Watches -> SUBSET WatchedTasks]

\* Only the owner of the lock is in a round, and what rows and rounds hold of
\* the cluster was true and stays so: an end is for good.
WatchInv ==
  /\ WatchTyped
  /\ \A t \in WatchedTasks : watchSacct[t] \in {"ok", "bad"} => watchFate[t] = watchSacct[t]
  /\ \A w \in Watches : /\ RowTrue(watchFate, jobOf, row[w], sighted[w])
                        /\ RowPaid(row[w], told[w], w \in answered)
  /\ \A d \in WatchDaemons :
       /\ monitor[d].pc \notin {"off", "passive"} => monitorLock = d
       /\ MonitorTrue(monitor[d], watchFate, row, told)

\* The instance counts as FiniteSets does: the only task of a single job.
LEMMA SingleJob ==
  ASSUME NEW j, ~W!IsArray(j), NEW t \in TasksIn(jobOf, j)
  PROVE  TasksIn(jobOf, j) = {t}
<1> DEFINE all == TasksIn(jobOf, j)
<1>1. W!IsArray(j) <=> Cardinality(all) > 1
  BY DEF W!IsArray, W!TasksOf, W!Cardinality, Cardinality, TasksIn
<1>2. IsFiniteSet(all)
  BY WatchAssumption, FS_Subset DEF TasksIn
<1>3. SUFFICES ASSUME NEW u \in all, u # t PROVE FALSE
  OBVIOUS
<1>4. {t, u} \subseteq all
  OBVIOUS
<1> HIDE DEF all
<1>5. Cardinality({t}) = 1 /\ IsFiniteSet({t})
  BY FS_Singleton
<1>6. {t, u} = {t} \union {u}
  OBVIOUS
<1>7. Cardinality({t} \union {u}) = Cardinality({t}) + 1
  BY <1>3, <1>5, FS_AddElement
<1>8. Cardinality({t, u}) <= Cardinality(all)
  BY <1>2, <1>4, FS_Subset
<1>9. Cardinality(all) \in Nat
  BY <1>2, FS_CardinalityType
<1>10. QED
  BY <1>1, <1>5, <1>6, <1>7, <1>8, <1>9 DEF all

\* An end is for good, so what was observed of one stays so.
LEMMA PollStays ==
  ASSUME NEW fates, NEW after, NEW of, NEW j, NEW o,
         \A t \in WatchedTasks : fates[t] # "live" => after[t] = fates[t],
         PollTrue(fates, of, j, o)
  PROVE  PollTrue(after, of, j, o)
BY DEF PollTrue, TasksIn

\* And so does a row.
LEMMA RowStays ==
  ASSUME NEW fates, NEW after, NEW of, NEW r, NEW seen,
         \A t \in WatchedTasks : fates[t] # "live" => after[t] = fates[t],
         RowTrue(fates, of, r, seen)
  PROVE  RowTrue(after, of, r, seen)
BY PollStays DEF RowTrue

\* One sample of a job is true when the sample is.
LEMMA SampleTrue ==
  ASSUME NEW fates, NEW j, NEW shown \in [WatchedTasks -> {"unread", "none"} \union TaskFates],
         \A t \in WatchedTasks : shown[t] \in {"ok", "bad"} => fates[t] = shown[t]
  PROVE  /\ W!Observed(j, shown) \in Polls
         /\ PollTrue(fates, jobOf, j, W!Observed(j, shown))
         /\ W!Observed(j, shown).unknown => W!Observed(j, shown).seen = {}
<1> DEFINE found == {t \in TasksIn(jobOf, j) : shown[t] # "none"}
           now   == W!Observed(j, shown)
<1>1. /\ now = [terminal |-> found # {} /\ \A t \in found : shown[t] \in {"ok", "bad"},
                failed   |-> \E t \in found : shown[t] = "bad",
                unknown  |-> found = {},
                seen     |-> IF W!IsArray(j) THEN found ELSE {}]
      /\ found \subseteq TasksIn(jobOf, j) /\ found \subseteq WatchedTasks
  BY DEF W!Observed, W!TasksOf, TasksIn
<1> HIDE DEF now, found
<1>2. now \in Polls
  BY <1>1 DEF Polls
<1>3. /\ now.terminal <=> found # {} /\ \A t \in found : shown[t] \in {"ok", "bad"}
      /\ now.failed <=> \E t \in found : shown[t] = "bad"
      /\ now.unknown <=> found = {}
      /\ now.seen \in {found, {}}
  BY <1>1
<1>4. now.failed => \E t \in TasksIn(jobOf, j) : fates[t] = "bad"
  BY <1>1, <1>3
<1>5. ASSUME now.terminal, NEW t \in TasksIn(jobOf, j), TasksIn(jobOf, j) = {t} \/ t \in now.seen
      PROVE  fates[t] # "live" /\ (fates[t] = "bad" => now.failed)
  <2>1. t \in found
    BY <1>1, <1>3, <1>5
  <2>2. shown[t] \in {"ok", "bad"} /\ fates[t] = shown[t]
    BY <1>1, <1>3, <1>5, <2>1
  <2>3. QED
    BY <1>3, <2>1, <2>2
<1>6. now.seen \subseteq TasksIn(jobOf, j) /\ (now.unknown => now.seen = {})
  BY <1>1, <1>3
<1>7. QED
  BY <1>2, <1>4, <1>5, <1>6 DEF now, PollTrue

\* Merging it with what was known loses no task and claims no more.
LEMMA MergeTrue ==
  ASSUME NEW fates, NEW j, NEW before \in Polls, NEW now \in Polls,
         PollTrue(fates, jobOf, j, before), PollTrue(fates, jobOf, j, now),
         now.unknown => now.seen = {}
  PROVE  /\ W!Merged(before, now) \in Polls
         /\ PollTrue(fates, jobOf, j, W!Merged(before, now))
         /\ before.seen \subseteq W!Merged(before, now).seen
<1>1. CASE now.unknown /\ before.terminal
  BY <1>1 DEF W!Merged
<1>2. CASE ~(now.unknown /\ before.terminal) /\ before.seen \subseteq now.seen
  BY <1>2 DEF W!Merged
<1>3. CASE ~(now.unknown /\ before.terminal) /\ ~(before.seen \subseteq now.seen)
  <2> DEFINE m == W!Merged(before, now)
  <2>1. m = [terminal |-> FALSE, failed |-> now.failed, unknown |-> TRUE, seen |-> before.seen \union now.seen]
    BY <1>3 DEF W!Merged, Polls
  <2> HIDE DEF m
  <2>2. /\ m.terminal = FALSE /\ m.failed = now.failed /\ m.seen = before.seen \union now.seen
        /\ m \in Polls
    BY <2>1 DEF Polls
  <2>3. PollTrue(fates, jobOf, j, m)
    BY <2>2 DEF PollTrue
  <2>4. QED
    BY <2>2, <2>3 DEF m
<1>4. QED
  BY <1>1, <1>2, <1>3

\* What a round concludes for a watch is a true row, still with every task seen.
LEMMA ConclusionTrue ==
  ASSUME NEW fates, jobOf \in [WatchedTasks -> WatchedTasks],
         NEW w, NEW old \in WatchRows, old.status = "active", old.delivery = "pending",
         \A j \in WatchedTasks : PollTrue(fates, jobOf, j, old.observations[j]),
         NEW shown \in [WatchedTasks -> {"unread", "none"} \union TaskFates],
         \A t \in WatchedTasks : shown[t] \in {"ok", "bad"} => fates[t] = shown[t],
         NEW new, new = W!Concluded(w, old, shown)
  PROVE  /\ new \in WatchRows
         /\ \A j \in W!Jobs : old.observations[j].seen \subseteq new.observations[j].seen
         /\ RowTrue(fates, jobOf, new, {})
         /\ \/ new.status = "active" /\ new.delivery = "pending"
            \/ new.status = "finished" /\ new.delivery = "unknown"
<1> DEFINE merged(j) == W!Merged(old.observations[j], W!Observed(j, shown))
           obs == [j \in WatchedTasks |-> IF j \in W!Jobs THEN merged(j) ELSE W!Unobserved]
           triggered == (\E j \in W!Jobs : obs[j].failed) /\ condition[w] # "all_terminal"
           complete == \A j \in W!Jobs : obs[j].terminal
<1>1. new = IF complete \/ triggered
              THEN [status |-> "finished", reason |-> IF triggered THEN "any_failed" ELSE "all_terminal",
                    delivery |-> "unknown", observations |-> obs]
              ELSE [old EXCEPT !.observations = obs]
  BY DEF W!Concluded
<1>2. W!Jobs \subseteq WatchedTasks /\ \A t \in WatchedTasks : jobOf[t] \in W!Jobs
  BY DEF W!Jobs
<1>3. ASSUME NEW j \in W!Jobs
      PROVE  /\ obs[j] \in Polls /\ PollTrue(fates, jobOf, j, obs[j])
             /\ old.observations[j].seen \subseteq obs[j].seen
  <2>1. old.observations[j] \in Polls /\ j \in WatchedTasks
    BY <1>2 DEF WatchRows
  <2>2. merged(j) = W!Merged(old.observations[j], W!Observed(j, shown)) /\ obs[j] = merged(j)
    BY <1>2, <2>1
  <2> HIDE DEF merged, obs
  <2>3. PollTrue(fates, jobOf, j, old.observations[j])
    BY <2>1
  <2>4. /\ W!Observed(j, shown) \in Polls
        /\ PollTrue(fates, jobOf, j, W!Observed(j, shown))
        /\ W!Observed(j, shown).unknown => W!Observed(j, shown).seen = {}
    BY SampleTrue
  <2>5. QED
    BY <2>1, <2>2, <2>3, <2>4, MergeTrue
<1>4. ASSUME NEW j \in WatchedTasks, j \notin W!Jobs
      PROVE  obs[j] \in Polls /\ PollTrue(fates, jobOf, j, obs[j])
  <2>1. obs[j] = [terminal |-> FALSE, failed |-> FALSE, unknown |-> TRUE, seen |-> {}]
    BY <1>4 DEF W!Unobserved
  <2> HIDE DEF obs
  <2>2. QED
    BY <2>1 DEF Polls, PollTrue
<1>5. obs \in [WatchedTasks -> Polls]
  BY <1>3, <1>4
<1>6. \A j \in WatchedTasks : PollTrue(fates, jobOf, j, obs[j])
  BY <1>3, <1>4
<1> HIDE DEF obs
<1>7. CASE complete \/ triggered
  <2>1. new = [status |-> "finished", reason |-> IF triggered THEN "any_failed" ELSE "all_terminal",
               delivery |-> "unknown", observations |-> obs]
    BY <1>1, <1>7
  <2>2. /\ new \in WatchRows /\ new.status = "finished" /\ new.delivery = "unknown" /\ new.observations = obs
        /\ new.reason = IF triggered THEN "any_failed" ELSE "all_terminal"
    BY <2>1, <1>5 DEF WatchRows
  <2>3. CASE triggered
    <3>1. PICK j \in W!Jobs : obs[j].failed
      BY <2>3
    <3>2. \E t \in WatchedTasks : fates[t] = "bad"
      BY <3>1, <1>3 DEF PollTrue, TasksIn
    <3>3. new.reason = "any_failed"
      BY <2>2, <2>3
    <3>4. RowTrue(fates, jobOf, new, {})
      BY <2>2, <3>2, <3>3, <1>6 DEF RowTrue
    <3>5. QED
      BY <1>3, <2>2, <3>4
  <2>4. CASE ~triggered
    <3>1. new.reason = "all_terminal"
      BY <2>2, <2>4
    <3>2. \A t \in WatchedTasks : obs[jobOf[t]].terminal
      BY <1>2, <1>7, <2>4
    <3>3. RowTrue(fates, jobOf, new, {})
      BY <2>2, <3>1, <3>2, <1>6 DEF RowTrue
    <3>4. QED
      BY <1>3, <2>2, <3>3
  <2>5. QED
    BY <2>3, <2>4
<1>8. CASE ~(complete \/ triggered)
  <2>1. new = [old EXCEPT !.observations = obs]
    BY <1>1, <1>8
  <2>2. new \in WatchRows /\ new.status = "active" /\ new.delivery = "pending" /\ new.observations = obs
    BY <2>1, <1>5 DEF WatchRows
  <2>3. RowTrue(fates, jobOf, new, {})
    BY <2>2, <1>6 DEF RowTrue
  <2>4. QED
    BY <1>3, <2>2, <2>3
<1>9. QED
  BY <1>7, <1>8
\* Only the owner of the lock has a round.
LEMMA OthersRest ==
  ASSUME WatchInv, NEW d \in WatchDaemons, monitor[d].pc \in Rounds
  PROVE  /\ monitorLock = d
         /\ \A e \in WatchDaemons : e # d => monitor[e].todo = {} /\ monitor[e].pc \in {"off", "passive"}
<1>1. monitorLock = d
  BY DEF WatchInv, Rounds
<1>2. ASSUME NEW e \in WatchDaemons, e # d PROVE monitor[e].todo = {} /\ monitor[e].pc \in {"off", "passive"}
  <2>1. monitor[e].pc \in {"off", "passive"}
    BY <1>1, <1>2 DEF WatchInv
  <2>2. monitor[e].pc \notin Rounds
    BY <2>1 DEF Rounds
  <2>3. QED
    BY <2>1, <2>2 DEF WatchInv, MonitorTrue
<1>3. QED
  BY <1>1, <1>2

\* One monitor moves, and rows only if nobody else has a round.
LEMMA WatchMoves ==
  ASSUME WatchInv, NEW d \in WatchDaemons, NEW m \in Monitors,
         monitor' = [monitor EXCEPT ![d] = m], UNCHANGED <<jobOf, watchFate, watchSacct>>,
         row' \in [Watches -> WatchRows], told' \in [Watches -> {0, 1}],
         sighted' \in [Watches -> SUBSET WatchedTasks],
         \A w \in Watches : /\ RowTrue(watchFate, jobOf, row'[w], sighted'[w])
                            /\ RowPaid(row'[w], told'[w], w \in answered'),
         MonitorTrue(m, watchFate, row', told'),
         m.pc \notin {"off", "passive"} => monitorLock' = d,
         \A e \in WatchDaemons : e # d /\ monitor[e].pc \notin {"off", "passive"} => monitorLock' = e,
         UNCHANGED <<row, told>> \/ \A e \in WatchDaemons : e # d => monitor[e].todo = {}
  PROVE  WatchInv'
<1>1. /\ monitor \in [WatchDaemons -> Monitors] /\ monitor'[d] = m
      /\ \A e \in WatchDaemons : e # d => monitor'[e] = monitor[e]
  BY DEF WatchInv, WatchTyped
<1>2. WatchTyped'
  BY <1>1 DEF WatchInv, WatchTyped
<1>3. \A t \in WatchedTasks : watchSacct'[t] \in {"ok", "bad"} => watchFate'[t] = watchSacct'[t]
  BY DEF WatchInv
<1>4. \A w \in Watches : /\ RowTrue(watchFate', jobOf', row'[w], sighted'[w])
                         /\ RowPaid(row'[w], told'[w], w \in answered')
  OBVIOUS
<1>5. ASSUME NEW e \in WatchDaemons
      PROVE  /\ monitor'[e].pc \notin {"off", "passive"} => monitorLock' = e
             /\ MonitorTrue(monitor'[e], watchFate', row', told')
  <2>1. CASE e = d
    BY <1>1, <2>1
  <2>2. CASE e # d
    <3>1. MonitorTrue(monitor[e], watchFate, row, told)
      BY DEF WatchInv
    <3>2. MonitorTrue(monitor[e], watchFate, row', told')
      <4>1. CASE UNCHANGED <<row, told>>
        BY <3>1, <4>1
      <4>2. CASE monitor[e].todo = {}
        BY <3>1, <4>2 DEF MonitorTrue
      <4>3. QED
        BY <2>2, <4>1, <4>2
    <3>3. QED
      BY <1>1, <2>2, <3>2
  <2>3. QED
    BY <2>1, <2>2
<1>6. QED
  BY <1>2, <1>3, <1>4, <1>5 DEF WatchInv

\* A monitor moves and leaves the rows alone.
LEMMA MonitorMoves ==
  ASSUME WatchInv, NEW d \in WatchDaemons, NEW m \in Monitors, W!Goes(d, m),
         UNCHANGED <<jobOf, watchFate, watchSacct, row, told, sighted, answered>>,
         MonitorTrue(m, watchFate, row, told),
         m.pc \notin {"off", "passive"} => monitorLock' = d,
         \A e \in WatchDaemons : e # d /\ monitor[e].pc \notin {"off", "passive"} => monitorLock' = e
  PROVE  WatchInv'
<1>1. /\ row' \in [Watches -> WatchRows] /\ told' \in [Watches -> {0, 1}]
      /\ sighted' \in [Watches -> SUBSET WatchedTasks]
      /\ \A w \in Watches : /\ RowTrue(watchFate, jobOf, row'[w], sighted'[w])
                            /\ RowPaid(row'[w], told'[w], w \in answered')
      /\ MonitorTrue(m, watchFate, row', told')
      /\ monitor' = [monitor EXCEPT ![d] = m]
  BY DEF WatchInv, WatchTyped, W!Goes
<1>2. QED
  BY <1>1, WatchMoves

\* A monitor that sleeps holds nothing.
LEMMA AsleepTrue ==
  ASSUME NEW p \in {"off", "passive", "idle"}
  PROVE  W!Asleep(p) \in Monitors /\ W!Asleep(p).pc = p /\ W!Asleep(p).todo = {}
         /\ \A fates, rs, times : MonitorTrue(W!Asleep(p), fates, rs, times)
<1>1. W!Asleep(p) = [pc |-> p, due |-> [w \in Watches |-> W!NoRow], sample |-> [t \in WatchedTasks |-> "unread"], todo |-> {}]
  BY DEF W!Asleep, W!NoSample
<1>2. W!NoRow \in WatchRows
  BY DEF W!NoRow, W!Unobserved, WatchRows, Polls
<1>3. W!Asleep(p) \in Monitors
  BY <1>1, <1>2 DEF Monitors
<1>4. /\ W!Asleep(p).pc = p /\ W!Asleep(p).todo = {} /\ p \notin Rounds
      /\ \A t \in WatchedTasks : W!Asleep(p).sample[t] = "unread"
  BY <1>1 DEF Rounds
<1>5. QED
  BY <1>3, <1>4 DEF MonitorTrue

\* Where a watch begins and stops.
LEMMA CallsKeepWatches ==
  ASSUME WatchInv, NEW w \in Watches, W!start(w) \/ W!stop(w)
  PROVE  WatchInv'
<1> DEFINE s == row'[w].status
<1>1. /\ row[w] \in WatchRows /\ row[w].status \in {"none", "active"}
      /\ row' = [row EXCEPT ![w].status = s] /\ s \in {"active", "stopped"}
      /\ s = "active" => row[w].status = "none" /\ answered' = answered
      /\ s = "stopped" => row[w].status = "active" /\ answered' = answered \union {w}
      /\ UNCHANGED <<jobOf, watchFate, watchSacct, monitor, monitorLock, told, sighted>>
  BY DEF WatchInv, WatchTyped, WatchRows, W!start, W!stop, W!cluster, W!history
<1> HIDE DEF s
<1>2. /\ row' \in [Watches -> WatchRows]
      /\ row'[w].status = s /\ row'[w].delivery = row[w].delivery /\ row'[w].observations = row[w].observations
      /\ \A v \in Watches : v # w => row'[v] = row[v]
  BY <1>1 DEF WatchInv, WatchTyped, WatchRows
<1>3. ASSUME NEW v \in Watches
      PROVE  /\ RowTrue(watchFate, jobOf, row'[v], sighted[v])
             /\ RowPaid(row'[v], told[v], v \in answered')
  <2>1. RowTrue(watchFate, jobOf, row[v], sighted[v]) /\ RowPaid(row[v], told[v], v \in answered)
    BY DEF WatchInv
  <2>2. CASE v = w
    BY <1>1, <1>2, <2>1, <2>2 DEF RowTrue, RowPaid
  <2>3. CASE v # w
    BY <1>1, <1>2, <2>1, <2>3
  <2>4. QED
    BY <2>2, <2>3
<1>4. ASSUME NEW d \in WatchDaemons PROVE MonitorTrue(monitor[d], watchFate, row', told)
  <2>1. MonitorTrue(monitor[d], watchFate, row, told) /\ monitor[d] \in Monitors
    BY DEF WatchInv, WatchTyped
  <2>2. ASSUME NEW v \in monitor[d].todo PROVE RowHeld(monitor[d], v, row'[v], told[v])
    <3>1. RowHeld(monitor[d], v, row[v], told[v]) /\ v \in Watches
      BY <2>1 DEF MonitorTrue, Monitors
    <3>2. CASE v = w
      BY <1>1, <1>2, <3>1, <3>2 DEF RowHeld
    <3>3. CASE v # w
      BY <1>2, <3>1, <3>3
    <3>4. QED
      BY <3>2, <3>3
  <2>3. QED
    BY <2>1, <2>2 DEF MonitorTrue
<1>5. WatchTyped'
  BY <1>1, <1>2 DEF WatchInv, WatchTyped
<1>6. QED
  BY <1>1, <1>3, <1>4, <1>5 DEF WatchInv

\* What the scheduler does, and what accounting makes of it.
LEMMA SchedulerKeepsWatches ==
  ASSUME WatchInv, NEW t \in WatchedTasks,
         \/ W!AccountingFollows(t) \/ W!AccountingForgets(t)
         \/ W!TaskEnds(t, "ok") \/ W!TaskEnds(t, "bad")
  PROVE  WatchInv'
<1>1. /\ UNCHANGED <<jobOf, row, monitor, monitorLock, told, answered, sighted>>
      /\ watchFate' \in [WatchedTasks -> TaskFates]
      /\ watchSacct' \in [WatchedTasks -> {"none"} \union TaskFates]
      /\ \A u \in WatchedTasks : watchFate[u] # "live" => watchFate'[u] = watchFate[u]
      /\ \A u \in WatchedTasks : watchSacct'[u] \in {"ok", "bad"} => watchFate'[u] = watchSacct'[u]
  <2>1. ASSUME W!AccountingFollows(t) \/ W!AccountingForgets(t)
        PROVE  /\ UNCHANGED <<jobOf, row, monitor, monitorLock, told, answered, sighted, watchFate>>
               /\ watchSacct' = [watchSacct EXCEPT ![t] = watchSacct'[t]]
               /\ watchSacct'[t] \in {watchFate[t], "none"}
    BY <2>1 DEF W!AccountingFollows, W!AccountingForgets, W!history, WatchInv, WatchTyped
  <2>2. ASSUME W!TaskEnds(t, "ok") \/ W!TaskEnds(t, "bad")
        PROVE  /\ UNCHANGED <<jobOf, row, monitor, monitorLock, told, answered, sighted, watchSacct>>
               /\ watchFate[t] = "live" /\ watchFate'[t] \in TaskFates
               /\ watchFate' = [watchFate EXCEPT ![t] = watchFate'[t]]
    BY <2>2 DEF W!TaskEnds, W!history, WatchInv, WatchTyped, TaskFates
  <2>3. QED
    BY <2>1, <2>2 DEF WatchInv, WatchTyped, TaskFates
<1>2. \A w \in Watches : RowTrue(watchFate', jobOf, row[w], sighted[w])
  BY <1>1, RowStays DEF WatchInv
<1>3. ASSUME NEW d \in WatchDaemons PROVE MonitorTrue(monitor[d], watchFate', row, told)
  <2>1. MonitorTrue(monitor[d], watchFate, row, told)
    BY DEF WatchInv
  <2>2. QED
    BY <1>1, <2>1 DEF MonitorTrue
<1>4. WatchTyped'
  BY <1>1 DEF WatchInv, WatchTyped
<1>5. QED
  BY <1>1, <1>2, <1>3, <1>4 DEF WatchInv
\* A monitor begins and ends.
LEMMA MonitorsComeAndGo ==
  ASSUME WatchInv, NEW d \in WatchDaemons, W!StartMonitor(d) \/ W!close(d) \/ W!Dies(d)
  PROVE  WatchInv'
<1>1. UNCHANGED <<jobOf, watchFate, watchSacct, row, told, sighted, answered>>
  BY DEF W!StartMonitor, W!close, W!Dies, W!cluster, W!history
<1>2. \A e \in WatchDaemons : monitor[e].pc \notin {"off", "passive"} => monitorLock = e
  BY DEF WatchInv
<1>3. PICK p \in {"off", "passive", "idle"} :
        /\ W!Goes(d, W!Asleep(p))
        /\ p = "idle" => monitorLock = Nobody /\ monitorLock' = d
        /\ \A e \in WatchDaemons : e # d /\ monitorLock = e => monitorLock' = e \/ p = "idle"
  <2>1. CASE W!StartMonitor(d)
    <3>1. CASE monitorLock = Nobody
      BY <2>1, <3>1, WatchAssumption DEF W!StartMonitor
    <3>2. CASE monitorLock # Nobody
      BY <2>1, <3>2 DEF W!StartMonitor
    <3>3. QED
      BY <3>1, <3>2
  <2>2. CASE W!close(d)
    BY <2>2 DEF W!close
  <2>3. CASE W!Dies(d)
    <3>1. monitorLock = d
      BY <1>2, <2>3 DEF W!Dies
    <3>2. QED
      BY <2>3, <3>1 DEF W!Dies
  <2>4. QED
    BY <2>1, <2>2, <2>3
<1>4. \A e \in WatchDaemons : e # d /\ monitor[e].pc \notin {"off", "passive"} => monitorLock' = e
  BY <1>2, <1>3, WatchAssumption
<1>5. /\ W!Asleep(p) \in Monitors /\ MonitorTrue(W!Asleep(p), watchFate, row, told)
      /\ W!Asleep(p).pc \notin {"off", "passive"} => monitorLock' = d
  BY <1>3, AsleepTrue
<1>6. QED
  BY <1>1, <1>3, <1>4, <1>5, MonitorMoves

\* A round begins with the rows as they are, and reads the cluster.
LEMMA RoundsKeepWatches ==
  ASSUME WatchInv, NEW d \in WatchDaemons,
         W!due(d) \/ W!Squeue(d) \/ W!collect(d) \/ W!CollectFails(d)
  PROVE  WatchInv'
<1>1. UNCHANGED <<jobOf, watchFate, watchSacct, row, told, sighted, answered, monitorLock>>
  BY DEF W!due, W!Squeue, W!collect, W!CollectFails, W!cluster, W!history
<1>2. /\ \A e \in WatchDaemons : monitor[e].pc \notin {"off", "passive"} => monitorLock = e
      /\ monitor[d] \in Monitors /\ MonitorTrue(monitor[d], watchFate, row, told)
      /\ row \in [Watches -> WatchRows]
      /\ watchFate \in [WatchedTasks -> TaskFates]
      /\ watchSacct \in [WatchedTasks -> {"none"} \union TaskFates]
      /\ \A t \in WatchedTasks : watchSacct[t] \in {"ok", "bad"} => watchFate[t] = watchSacct[t]
      /\ \A w \in Watches : RowPaid(row[w], told[w], w \in answered)
  BY DEF WatchInv, WatchTyped
<1>3. monitor[d].pc \in {"idle"} \union Rounds /\ monitorLock = d
  BY <1>2 DEF W!due, W!Squeue, W!collect, W!CollectFails, Rounds
<1>4. SUFFICES \E m \in Monitors : /\ W!Goes(d, m) /\ MonitorTrue(m, watchFate, row, told)
  BY <1>1, <1>2, <1>3, MonitorMoves
<1>5. CASE W!due(d)
  <2> DEFINE todo == {w \in Watches : row[w].status = "active"}
             a == W!Asleep("queue")
             m == [a EXCEPT !.due = row, !.todo = todo]
  <2>1. W!Goes(d, m)
    BY <1>5 DEF W!due
  <2>2. /\ a = [pc |-> "queue", due |-> [w \in Watches |-> W!NoRow],
                sample |-> [t \in WatchedTasks |-> "unread"], todo |-> {}]
        /\ W!NoRow \in WatchRows
    BY DEF W!Asleep, W!NoSample, W!NoRow, W!Unobserved, WatchRows, Polls
  <2> HIDE DEF a
  <2>3. /\ m \in Monitors
        /\ m.pc = "queue" /\ m.due = row /\ m.todo = todo
        /\ \A t \in WatchedTasks : m.sample[t] = "unread"
    <3>1. a \in Monitors /\ a.pc = "queue" /\ \A t \in WatchedTasks : a.sample[t] = "unread"
      BY <2>2 DEF Monitors, Rounds
    <3>2. todo \in SUBSET Watches
      OBVIOUS
    <3> HIDE DEF todo
    <3>3. QED
      BY <1>2, <3>1, <3>2 DEF Monitors
  <2> HIDE DEF m
  <2>4. MonitorTrue(m, watchFate, row, told)
    BY <1>2, <2>3 DEF MonitorTrue, RowHeld, RowPaid, Rounds
  <2>5. QED
    BY <2>1, <2>3, <2>4
<1>6. ASSUME NEW p \in {"accounting", "merge"}, monitor[d].pc \in {"queue", "accounting"},
             NEW shown \in [WatchedTasks -> {"unread", "none"} \union TaskFates],
             \A t \in WatchedTasks : shown[t] \in {"ok", "bad"} => watchFate[t] = shown[t],
             W!Goes(d, [monitor[d] EXCEPT !.pc = p, !.sample = shown])
      PROVE  \E m \in Monitors : W!Goes(d, m) /\ MonitorTrue(m, watchFate, row, told)
  <2> DEFINE m == [monitor[d] EXCEPT !.pc = p, !.sample = shown]
  <2>1. /\ m \in Monitors /\ m.pc = p /\ m.sample = shown
        /\ m.due = monitor[d].due /\ m.todo = monitor[d].todo
    BY <1>2 DEF Monitors, Rounds
  <2>2. W!Goes(d, m)
    BY <1>6
  <2> HIDE DEF m
  <2>3. MonitorTrue(m, watchFate, row, told)
    BY <1>2, <1>6, <2>1 DEF MonitorTrue, RowHeld, Rounds
  <2>4. QED
    BY <2>1, <2>2, <2>3
<1>7. CASE W!Squeue(d)
  <2> DEFINE s == [t \in WatchedTasks |-> IF watchFate[t] = "live" THEN "live" ELSE "none"]
  <2>1. s \in [WatchedTasks -> {"unread", "none"} \union TaskFates]
    BY DEF TaskFates
  <2>2. \A t \in WatchedTasks : s[t] \in {"ok", "bad"} => watchFate[t] = s[t]
    OBVIOUS
  <2>3. W!Goes(d, [monitor[d] EXCEPT !.pc = "accounting", !.sample = s]) /\ monitor[d].pc = "queue"
    BY <1>7 DEF W!Squeue
  <2> HIDE DEF s
  <2>4. QED
    BY <1>6, <2>1, <2>2, <2>3
<1>8. CASE W!collect(d)
  <2> DEFINE s == [t \in WatchedTasks |-> IF monitor[d].sample[t] = "live" THEN "live" ELSE watchSacct[t]]
  <2>1. s \in [WatchedTasks -> {"unread", "none"} \union TaskFates]
    BY <1>2 DEF TaskFates
  <2>2. \A t \in WatchedTasks : s[t] \in {"ok", "bad"} => watchFate[t] = s[t]
    BY <1>2
  <2>3. W!Goes(d, [monitor[d] EXCEPT !.pc = "merge", !.sample = s]) /\ monitor[d].pc = "accounting"
    BY <1>8, <1>2 DEF W!collect, Monitors
  <2> HIDE DEF s
  <2>4. QED
    BY <1>6, <2>1, <2>2, <2>3
<1>9. CASE W!CollectFails(d)
  <2> DEFINE s == [t \in WatchedTasks |-> "unread"]
  <2>1. s \in [WatchedTasks -> {"unread", "none"} \union TaskFates]
    OBVIOUS
  <2>2. \A t \in WatchedTasks : s[t] \in {"ok", "bad"} => watchFate[t] = s[t]
    OBVIOUS
  <2>3. /\ W!Goes(d, [monitor[d] EXCEPT !.pc = "merge", !.sample = s])
        /\ monitor[d].pc \in {"queue", "accounting"}
    BY <1>9 DEF W!CollectFails, W!NoSample
  <2> HIDE DEF s
  <2>4. QED
    BY <1>6, <2>1, <2>2, <2>3
<1>10. QED
  BY <1>5, <1>7, <1>8, <1>9

\* What is left of a round when one watch is done.
LEMMA RestingTrue ==
  ASSUME NEW d \in WatchDaemons, monitor[d] \in Monitors, monitor[d].pc \in Rounds,
         NEW w \in monitor[d].todo, NEW rs, NEW times,
         \A t \in WatchedTasks : monitor[d].sample[t] \in {"ok", "bad"} => watchFate[t] = monitor[d].sample[t],
         \A v \in monitor[d].todo : v # w => monitor[d].due[v].status # "finished"
                                             /\ RowHeld(monitor[d], v, rs[v], times[v])
  PROVE  LET m == W!Resting(d, monitor[d].todo \ {w})
         IN  m \in Monitors /\ MonitorTrue(m, watchFate, rs, times) /\ m.pc \notin {"off", "passive"}
<1> DEFINE rest == monitor[d].todo \ {w}
           m == W!Resting(d, rest)
<1>1. CASE rest = {}
  <2>1. m = W!Asleep("idle")
    BY <1>1 DEF W!Resting
  <2>2. QED
    BY <2>1, AsleepTrue
<1>2. CASE rest # {}
  <2>1. m = [monitor[d] EXCEPT !.pc = "merge", !.todo = rest]
    BY <1>2 DEF W!Resting
  <2> HIDE DEF m
  <2>2. /\ m \in Monitors /\ m.pc = "merge" /\ m.todo = rest
        /\ m.due = monitor[d].due /\ m.sample = monitor[d].sample
    BY <2>1 DEF Monitors, Rounds
  <2>3. \A v \in rest : RowHeld(m, v, rs[v], times[v]) /\ m.due[v].status # "finished"
    BY <2>2 DEF RowHeld
  <2>4. MonitorTrue(m, watchFate, rs, times)
    BY <2>2, <2>3 DEF MonitorTrue, Rounds
  <2>5. QED
    BY <2>2, <2>4 DEF m
<1>3. QED
  BY <1>1, <1>2
\* A watch is saved, unless it was stopped since the round began.
LEMMA SaveKeepsWatches ==
  ASSUME WatchInv, NEW d \in WatchDaemons, NEW w \in Watches, W!save(d, w)
  PROVE  WatchInv'
<1> DEFINE old == monitor[d].due[w]
           new == IF monitor[d].sample = W!NoSample THEN old
                  ELSE W!Concluded(w, old, monitor[d].sample)
           found == UNION {row'[w].observations[j].seen : j \in W!Jobs}
<1>1. /\ monitor[d].pc = "merge" /\ w \in monitor[d].todo
      /\ row' = IF row[w].status = "active" THEN [row EXCEPT ![w] = new] ELSE row
      /\ sighted' = [sighted EXCEPT ![w] = sighted[w] \union found]
      /\ UNCHANGED <<jobOf, watchFate, watchSacct, monitorLock, told, answered>>
  BY DEF W!save, W!MaySave, W!cluster, WatchInv, WatchTyped
<1>2. /\ monitor[d].pc \in Rounds /\ monitor[d] \in Monitors
      /\ MonitorTrue(monitor[d], watchFate, row, told)
      /\ RowTrue(watchFate, jobOf, row[w], sighted[w]) /\ RowPaid(row[w], told[w], w \in answered)
      /\ jobOf \in [WatchedTasks -> WatchedTasks]
  BY <1>1 DEF WatchInv, WatchTyped, Rounds
<1>3. /\ old \in WatchRows /\ old.observations = row[w].observations
      /\ old.status = "active" /\ old.delivery = "pending"
      /\ \A j \in WatchedTasks : PollTrue(watchFate, jobOf, j, old.observations[j])
  BY <1>1, <1>2 DEF MonitorTrue, RowHeld, Monitors, RowTrue
<1> HIDE DEF old
<1>4. /\ new \in WatchRows
      /\ \A j \in W!Jobs : old.observations[j].seen \subseteq new.observations[j].seen
      /\ RowTrue(watchFate, jobOf, new, {})
      /\ \/ new.status = "active" /\ new.delivery = "pending"
         \/ new.status = "finished" /\ new.delivery = "unknown"
  <2>1. CASE monitor[d].sample = W!NoSample
    <3>1. new = old
      BY <2>1
    <3>2. QED
      BY <1>3, <3>1 DEF RowTrue
  <2>2. CASE monitor[d].sample # W!NoSample
    <3>1. new = W!Concluded(w, old, monitor[d].sample)
      BY <2>2
    <3>2. monitor[d].sample \in [WatchedTasks -> {"unread", "none"} \union TaskFates]
      BY <1>2 DEF Monitors
    <3>3. \A t \in WatchedTasks : monitor[d].sample[t] \in {"ok", "bad"} => watchFate[t] = monitor[d].sample[t]
      BY <1>2 DEF MonitorTrue
    <3> HIDE DEF new
    <3>4. QED
      BY <1>2, <1>3, <3>1, <3>2, <3>3, ConclusionTrue
  <2>3. QED
    BY <2>1, <2>2
<1>5. /\ row \in [Watches -> WatchRows] /\ sighted \in [Watches -> SUBSET WatchedTasks]
      /\ told \in [Watches -> {0, 1}]
      /\ \A v \in Watches : RowTrue(watchFate, jobOf, row[v], sighted[v]) /\ RowPaid(row[v], told[v], v \in answered)
  BY DEF WatchInv, WatchTyped
<1>6. \A t \in WatchedTasks : jobOf[t] \in W!Jobs /\ jobOf[t] \in WatchedTasks
  BY <1>2 DEF W!Jobs
<1>7. W!Jobs \subseteq WatchedTasks
  BY <1>2 DEF W!Jobs
<1> HIDE DEF new
<1>8. /\ row' \in [Watches -> WatchRows]
      /\ \A v \in Watches : v # w => row'[v] = row[v]
      /\ row'[w] = IF row[w].status = "active" THEN new ELSE row[w]
  BY <1>1, <1>4, <1>5
<1>9. /\ \A j \in WatchedTasks : PollTrue(watchFate, jobOf, j, row'[w].observations[j])
      /\ \A j \in W!Jobs : row[w].observations[j].seen \subseteq row'[w].observations[j].seen
      /\ RowTrue(watchFate, jobOf, row'[w], {})
  <2>1. CASE row[w].status = "active"
    BY <1>3, <1>4, <1>8, <2>1 DEF RowTrue
  <2>2. CASE row[w].status # "active"
    BY <1>2, <1>8, <2>2 DEF RowTrue
  <2>3. QED
    BY <2>1, <2>2
<1>10. found \subseteq WatchedTasks /\ \A t \in found : t \in row'[w].observations[jobOf[t]].seen
  BY <1>7, <1>9 DEF PollTrue, TasksIn
<1> HIDE DEF found
<1>11. /\ sighted' \in [Watches -> SUBSET WatchedTasks]
       /\ sighted'[w] = sighted[w] \union found
       /\ \A v \in Watches : v # w => sighted'[v] = sighted[v]
  BY <1>1, <1>5, <1>10
<1>12. RowTrue(watchFate, jobOf, row'[w], sighted'[w])
  <2>1. \A t \in sighted'[w] : t \in row'[w].observations[jobOf[t]].seen
    BY <1>2, <1>5, <1>6, <1>9, <1>10, <1>11 DEF RowTrue
  <2>2. QED
    BY <1>9, <2>1 DEF RowTrue
<1>13. RowPaid(row'[w], told[w], w \in answered)
  BY <1>2, <1>4, <1>8 DEF RowPaid
<1>14. \A v \in Watches : /\ RowTrue(watchFate, jobOf, row'[v], sighted'[v])
                          /\ RowPaid(row'[v], told'[v], v \in answered')
  BY <1>1, <1>5, <1>8, <1>11, <1>12, <1>13
<1>15. \A e \in WatchDaemons : e # d => monitor[e].todo = {} /\ monitor[e].pc \in {"off", "passive"}
  BY <1>2, OthersRest
<1>16. monitorLock' = d
  BY <1>1, <1>2, OthersRest
<1>17. SUFFICES \E m \in Monitors : /\ monitor' = [monitor EXCEPT ![d] = m]
                                    /\ MonitorTrue(m, watchFate, row', told) /\ m.pc \notin {"off", "passive"}
  <2>1. PICK m \in Monitors : /\ monitor' = [monitor EXCEPT ![d] = m]
                              /\ MonitorTrue(m, watchFate, row', told) /\ m.pc \notin {"off", "passive"}
    BY <1>17
  <2>2. told' \in [Watches -> {0, 1}] /\ MonitorTrue(m, watchFate, row', told')
    BY <1>1, <1>5, <2>1
  <2>3. QED
    BY <1>1, <1>8, <1>11, <1>14, <1>15, <1>16, <2>1, <2>2, WatchMoves
<1>18. /\ \A t \in WatchedTasks : monitor[d].sample[t] \in {"ok", "bad"} => watchFate[t] = monitor[d].sample[t]
       /\ \A v \in monitor[d].todo :
            /\ v \in Watches /\ RowHeld(monitor[d], v, row[v], told[v])
            /\ monitor[d].due[v].status = "active"
  BY <1>1, <1>2 DEF MonitorTrue, Monitors, RowHeld
<1>19. CASE row[w].status = "active" /\ new.status = "finished"
  <2> DEFINE m == [monitor[d] EXCEPT !.pc = "notify", !.todo = {w} \union monitor[d].todo, !.due[w] = new]
  <2>1. monitor' = [monitor EXCEPT ![d] = m]
    BY <1>1, <1>2, <1>19 DEF W!save, W!MaySave, W!Goes, new, old, Monitors
  <2>2. /\ m \in Monitors /\ m.pc = "notify" /\ m.todo = monitor[d].todo /\ m.sample = monitor[d].sample
        /\ m.due[w] = new /\ \A v \in Watches : v # w => m.due[v] = monitor[d].due[v]
    BY <1>1, <1>2, <1>4 DEF Monitors, Rounds
  <2> HIDE DEF m
  <2>3. RowHeld(m, w, row'[w], told[w])
    <3>1. row'[w] = new /\ told[w] = 0 /\ new.delivery = "unknown"
      BY <1>2, <1>4, <1>8, <1>19 DEF RowPaid
    <3>2. QED
      BY <1>19, <2>2, <3>1 DEF RowHeld
  <2>4. ASSUME NEW v \in m.todo, v # w PROVE RowHeld(m, v, row'[v], told[v]) /\ m.due[v].status # "finished"
    BY <1>8, <1>18, <2>2, <2>4 DEF RowHeld
  <2>5. MonitorTrue(m, watchFate, row', told)
    BY <1>18, <2>2, <2>3, <2>4 DEF MonitorTrue, Rounds
  <2>6. QED
    BY <2>1, <2>2, <2>5
<1>20. CASE ~(row[w].status = "active" /\ new.status = "finished")
  <2> DEFINE m == W!Resting(d, monitor[d].todo \ {w})
  <2>1. monitor' = [monitor EXCEPT ![d] = m]
    BY <1>20 DEF W!save, W!MaySave, W!Goes, new, old
  <2>2. \A v \in monitor[d].todo : v # w => monitor[d].due[v].status # "finished"
                                            /\ RowHeld(monitor[d], v, row'[v], told[v])
    BY <1>8, <1>18
  <2>3. PICK rs : rs = row'
    OBVIOUS
  <2>4. \A v \in monitor[d].todo : v # w => monitor[d].due[v].status # "finished"
                                            /\ RowHeld(monitor[d], v, rs[v], told[v])
    BY <2>2, <2>3
  <2>5. m \in Monitors /\ MonitorTrue(m, watchFate, rs, told) /\ m.pc \notin {"off", "passive"}
    BY <1>1, <1>2, <1>18, <2>4, RestingTrue
  <2> HIDE DEF m
  <2>6. QED
    BY <2>1, <2>3, <2>5
<1>21. QED
  BY <1>19, <1>20
\* The desktop is told, or cannot be.
LEMMA NotifyKeepsWatches ==
  ASSUME WatchInv, NEW d \in WatchDaemons, NEW w \in Watches, NEW ok \in BOOLEAN, W!notify(d, w, ok)
  PROVE  WatchInv'
<1> DEFINE p == IF ok THEN "sent" ELSE "failed"
           m == [monitor[d] EXCEPT !.pc = p]
<1>1. /\ monitor[d].pc = "notify" /\ w \in monitor[d].todo /\ monitor[d].due[w].status = "finished"
      /\ told' = IF ok THEN [told EXCEPT ![w] = told[w] + 1] ELSE told
      /\ monitor' = [monitor EXCEPT ![d] = m]
      /\ UNCHANGED <<jobOf, watchFate, watchSacct, monitorLock, row, answered, sighted>>
  BY DEF W!notify, W!Goes, W!cluster
<1>2. /\ monitor[d].pc \in Rounds /\ monitor[d] \in Monitors
      /\ MonitorTrue(monitor[d], watchFate, row, told)
      /\ told \in [Watches -> {0, 1}] /\ row \in [Watches -> WatchRows]
      /\ sighted \in [Watches -> SUBSET WatchedTasks]
      /\ \A v \in Watches : RowTrue(watchFate, jobOf, row[v], sighted[v]) /\ RowPaid(row[v], told[v], v \in answered)
  BY <1>1 DEF WatchInv, WatchTyped, Rounds
<1>3. row[w].status = "finished" /\ row[w].delivery = "unknown" /\ told[w] = 0
  BY <1>1, <1>2 DEF MonitorTrue, RowHeld
<1>4. /\ told' \in [Watches -> {0, 1}]
      /\ told'[w] = IF ok THEN 1 ELSE 0
      /\ \A v \in Watches : v # w => told'[v] = told[v]
  BY <1>1, <1>2, <1>3
<1>5. \A v \in Watches : RowPaid(row[v], told'[v], v \in answered)
  BY <1>2, <1>3, <1>4 DEF RowPaid
<1>6. /\ m \in Monitors /\ m.pc = p /\ m.due = monitor[d].due /\ m.todo = monitor[d].todo
      /\ m.sample = monitor[d].sample
  BY <1>2 DEF Monitors, Rounds
<1> HIDE DEF m
<1>7. ASSUME NEW v \in m.todo PROVE RowHeld(m, v, row[v], told'[v])
  <2>1. RowHeld(monitor[d], v, row[v], told[v]) /\ v \in Watches
    BY <1>2, <1>6 DEF MonitorTrue, Monitors
  <2>2. CASE v = w
    BY <1>1, <1>3, <1>4, <1>6, <2>1, <2>2 DEF RowHeld
  <2>3. CASE v # w
    <3>1. monitor[d].due[v].status # "finished" /\ told'[v] = told[v]
      BY <1>1, <1>2, <1>4, <1>6, <2>1, <2>3 DEF MonitorTrue
    <3>2. QED
      BY <1>6, <2>1, <3>1 DEF RowHeld
  <2>4. QED
    BY <2>2, <2>3
<1>8. MonitorTrue(m, watchFate, row, told') /\ m.pc \notin {"off", "passive"}
  BY <1>2, <1>6, <1>7 DEF MonitorTrue, Rounds
<1>9. /\ monitorLock = d
      /\ \A e \in WatchDaemons : e # d => monitor[e].todo = {} /\ monitor[e].pc \in {"off", "passive"}
  BY <1>2, OthersRest
<1>10. /\ row' \in [Watches -> WatchRows] /\ sighted' \in [Watches -> SUBSET WatchedTasks]
       /\ MonitorTrue(m, watchFate, row', told')
       /\ \A v \in Watches : /\ RowTrue(watchFate, jobOf, row'[v], sighted'[v])
                             /\ RowPaid(row'[v], told'[v], v \in answered')
  BY <1>1, <1>2, <1>5, <1>8
<1>11. QED
  BY <1>1, <1>4, <1>6, <1>8, <1>9, <1>10, WatchMoves

\* What became of it is saved.
LEMMA DeliveryKeepsWatches ==
  ASSUME WatchInv, NEW d \in WatchDaemons, NEW w \in Watches, W!delivered(d, w)
  PROVE  WatchInv'
<1> DEFINE p == monitor[d].pc
           m == W!Resting(d, monitor[d].todo \ {w})
<1>1. /\ p \in {"sent", "failed"} /\ w \in monitor[d].todo /\ monitor[d].due[w].status = "finished"
      /\ row' = [row EXCEPT ![w].delivery = p]
      /\ monitor' = [monitor EXCEPT ![d] = m]
      /\ UNCHANGED <<jobOf, watchFate, watchSacct, monitorLock, told, answered, sighted>>
  BY DEF W!delivered, W!Goes, W!cluster, W!history
<1>2. /\ monitor[d].pc \in Rounds /\ monitor[d] \in Monitors
      /\ MonitorTrue(monitor[d], watchFate, row, told)
      /\ told \in [Watches -> {0, 1}] /\ row \in [Watches -> WatchRows]
      /\ sighted \in [Watches -> SUBSET WatchedTasks]
      /\ \A v \in Watches : RowTrue(watchFate, jobOf, row[v], sighted[v]) /\ RowPaid(row[v], told[v], v \in answered)
  BY <1>1 DEF WatchInv, WatchTyped, Rounds
<1>3. row[w].status = "finished" /\ (p = "sent" => told[w] = 1)
  BY <1>1, <1>2 DEF MonitorTrue, RowHeld
<1>4. /\ row' \in [Watches -> WatchRows]
      /\ row'[w].status = "finished" /\ row'[w].delivery = p
      /\ row'[w].reason = row[w].reason /\ row'[w].observations = row[w].observations
      /\ \A v \in Watches : v # w => row'[v] = row[v]
  BY <1>1, <1>2, <1>3 DEF WatchRows
<1>5. ASSUME NEW v \in Watches
      PROVE  RowTrue(watchFate, jobOf, row'[v], sighted[v]) /\ RowPaid(row'[v], told[v], v \in answered)
  <2>1. CASE v = w
    BY <1>1, <1>2, <1>3, <1>4, <2>1 DEF RowTrue, RowPaid
  <2>2. CASE v # w
    BY <1>2, <1>4, <2>2
  <2>3. QED
    BY <2>1, <2>2
<1>6. \A v \in monitor[d].todo : v # w => /\ monitor[d].due[v].status # "finished"
                                          /\ RowHeld(monitor[d], v, row'[v], told[v])
  BY <1>1, <1>2, <1>4 DEF MonitorTrue, Monitors
<1>7. /\ \A t \in WatchedTasks : monitor[d].sample[t] \in {"ok", "bad"} => watchFate[t] = monitor[d].sample[t]
  BY <1>2 DEF MonitorTrue
<1>8. m \in Monitors /\ MonitorTrue(m, watchFate, row', told) /\ m.pc \notin {"off", "passive"}
  <2>1. PICK rs : rs = row'
    OBVIOUS
  <2>2. \A v \in monitor[d].todo : v # w => /\ monitor[d].due[v].status # "finished"
                                            /\ RowHeld(monitor[d], v, rs[v], told[v])
    BY <1>6, <2>1
  <2>3. m \in Monitors /\ MonitorTrue(m, watchFate, rs, told) /\ m.pc \notin {"off", "passive"}
    BY <1>1, <1>2, <1>7, <2>2, RestingTrue
  <2> HIDE DEF m
  <2>4. QED
    BY <2>1, <2>3
<1> HIDE DEF m
<1>9. /\ monitorLock = d
      /\ \A e \in WatchDaemons : e # d => monitor[e].todo = {} /\ monitor[e].pc \in {"off", "passive"}
  BY <1>2, OthersRest
<1>10. /\ told' \in [Watches -> {0, 1}] /\ sighted' \in [Watches -> SUBSET WatchedTasks]
       /\ MonitorTrue(m, watchFate, row', told')
       /\ \A v \in Watches : /\ RowTrue(watchFate, jobOf, row'[v], sighted'[v])
                             /\ RowPaid(row'[v], told'[v], v \in answered')
  BY <1>1, <1>2, <1>5, <1>8
<1>11. QED
  BY <1>1, <1>4, <1>8, <1>9, <1>10, WatchMoves

\* A watch notifies at most once, never after a stop was answered, and finishes
\* only on ends that were: whatever monitors die and take over, and however
\* accounting lags and forgets.
THEOREM WatchesTellTheTruth ==
  W!WatchInit /\ [][W!WatchNext]_watches => []WatchesAreHonest
<1>1. W!WatchInit => WatchInv
  <2> SUFFICES ASSUME W!WatchInit PROVE WatchInv
    OBVIOUS
  <2>1. W!NoRow = [status |-> "none", reason |-> "none", delivery |-> "pending",
                   observations |-> [t \in WatchedTasks |-> W!Unobserved]]
    BY DEF W!NoRow
  <2>2. W!Unobserved = [terminal |-> FALSE, failed |-> FALSE, unknown |-> TRUE, seen |-> {}]
    BY DEF W!Unobserved
  <2>3. W!NoRow \in WatchRows
    BY <2>1, <2>2 DEF WatchRows, Polls
  <2>4. jobOf \in [WatchedTasks -> WatchedTasks]
    BY DEF W!WatchInit
  <2>5. \A j \in WatchedTasks : PollTrue(watchFate, jobOf, j, W!NoRow.observations[j])
    BY <2>1, <2>2 DEF PollTrue
  <2>6. \A w \in Watches : /\ RowTrue(watchFate, jobOf, row[w], sighted[w])
                           /\ RowPaid(row[w], told[w], w \in answered)
    BY <2>1, <2>5 DEF W!WatchInit, RowTrue, RowPaid
  <2>7. W!Asleep("off") \in Monitors /\ W!Asleep("off").pc = "off"
        /\ MonitorTrue(W!Asleep("off"), watchFate, row, told)
    BY AsleepTrue
  <2>8. \A d \in WatchDaemons : monitor[d] = W!Asleep("off")
    BY DEF W!WatchInit
  <2>9. WatchTyped
    BY <2>3, <2>4, <2>7 DEF W!WatchInit, WatchTyped, TaskFates
  <2>10. \A t \in WatchedTasks : watchSacct[t] = "none"
    BY DEF W!WatchInit
  <2>11. QED
    BY <2>6, <2>7, <2>8, <2>9, <2>10 DEF WatchInv
<1>2. WatchInv => WatchesAreHonest
  <2> SUFFICES ASSUME WatchInv PROVE WatchesAreHonest
    OBVIOUS
  <2>1. /\ \A w \in Watches : /\ RowTrue(watchFate, jobOf, row[w], sighted[w])
                              /\ RowPaid(row[w], told[w], w \in answered)
        /\ WatchTyped
    BY DEF WatchInv
  <2>2. W!ToldOnce
    BY <2>1 DEF W!ToldOnce, RowPaid, WatchTyped, WatchRows
  <2>3. ASSUME NEW w \in Watches, row[w].status = "finished", row[w].reason # "any_failed",
               NEW t \in WatchedTasks, ~W!IsArray(jobOf[t]) \/ t \in sighted[w]
        PROVE  watchFate[t] # "live" /\ (watchFate[t] = "bad" => row[w].observations[jobOf[t]].failed)
    <3>1. t \in TasksIn(jobOf, jobOf[t]) /\ jobOf[t] \in WatchedTasks
      BY <2>1 DEF TasksIn, WatchTyped
    <3>2. /\ PollTrue(watchFate, jobOf, jobOf[t], row[w].observations[jobOf[t]])
          /\ row[w].observations[jobOf[t]].terminal
          /\ t \in sighted[w] => t \in row[w].observations[jobOf[t]].seen
      BY <2>1, <2>3, <3>1 DEF RowTrue
    <3>3. TasksIn(jobOf, jobOf[t]) = {t} \/ t \in row[w].observations[jobOf[t]].seen
      BY <2>3, <3>1, <3>2, SingleJob
    <3>4. QED
      BY <3>1, <3>2, <3>3 DEF PollTrue
  <2>4. W!FinishIsTrue
    BY <2>1, <2>3 DEF W!FinishIsTrue, RowTrue
  <2>5. QED
    BY <2>2, <2>4 DEF WatchesAreHonest
<1>3. WatchInv /\ [W!WatchNext]_watches => WatchInv'
  <2> SUFFICES ASSUME WatchInv, [W!WatchNext]_watches PROVE WatchInv'
    OBVIOUS
  <2>1. CASE UNCHANGED watches
    BY <2>1 DEF watches, WatchInv, WatchTyped
  <2>2. CASE W!WatchNext
    BY <2>2, CallsKeepWatches, SchedulerKeepsWatches, MonitorsComeAndGo, RoundsKeepWatches,
       SaveKeepsWatches, NotifyKeepsWatches, DeliveryKeepsWatches DEF W!WatchNext
  <2>3. QED
    BY <2>1, <2>2
<1>4. QED
  BY <1>1, <1>2, <1>3, PTL
------------------------------------------------------------------------------
(* Campaign recovery *)

Ledgers == [Groups -> Nat]
Pages   == [next : Nat, digest : Ledgers] \union {C!NoPage}
Checkpoints ==
  [summary : Nat, index : BOOLEAN, ready : BOOLEAN, page : Pages, after : Nat, snapshot : Nat,
   unitPage : 0..(UnitPages - 1), offset : Nat, digest : Ledgers, gap : BOOLEAN]
Passes ==
  [pc : {"idle", "reading", "importing", "recording", "conflict"}, todo : SUBSET (Groups \X Nat),
   page : Pages, changes : SUBSET Nat, last : Nat, reached : BOOLEAN]

\* How many groups of a ledger come before g.
Present(its) == {g \in Groups : its[g] > 0}
Rank(its, g) == Cardinality({h \in Present(its) : h < g})

\* Reads of a ledger up to offset next, or to its end, have imported what it said,
\* but for the records in todo.
ImportedTo(its, next, todo, done) ==
  \A g \in Present(its) : next = 0 \/ Rank(its, g) < next =>
    done[g] >= its[g] \/ <<g, its[g]>> \in todo

RecoveryTyped ==
  /\ head \in Nat \ {0}
  /\ ledger \in Ledgers /\ imported \in Ledgers /\ swept \in Ledgers
  /\ cached \in [1..UnitPages -> Nat]
  /\ cp \in Checkpoints
  /\ recoverer \in Passes

\* Pages of units are cached from the commit that is pinned until the last is.
UnitsInv ==
  /\ cp.snapshot = 0 => cp.unitPage = 0
  /\ cp.snapshot # 0 /\ cp.summary # 0 => cp.summary = cp.snapshot
  /\ \A p \in 1..cp.unitPage : cached[p] = cp.snapshot
  /\ cp.index => cp.summary # 0
  /\ cp.ready => cp.index /\ cached[cp.unitPage + 1] = cp.summary

\* The pages of a ledger so far, and the one in the checkpoint or in hand, are of
\* the ledger the checkpoint names, each from where the one before it ended.
LedgerInv ==
  /\ \A g \in Groups : imported[g] >= swept[g]
  /\ cp.offset # 0 => cp.digest # C!None /\ ImportedTo(cp.digest, cp.offset, {}, imported)
  /\ cp.page # C!NoPage => /\ cp.ready /\ ImportedTo(cp.page.digest, cp.page.next, {}, imported)
                           /\ cp.page.next # 0 => cp.page.digest # C!None
  /\ recoverer.pc = "importing" =>
       /\ cp.ready /\ recoverer.page # C!NoPage
       /\ ImportedTo(recoverer.page.digest, recoverer.page.next, recoverer.todo, imported)
       /\ recoverer.page.next # 0 => recoverer.page.digest # C!None
  /\ recoverer.pc = "recording" => cp.page # C!NoPage

\* The journal has the commits read before, and those of the page in hand follow.
CommitsInv ==
  /\ cp.gap \/ 1..cp.after \subseteq known
  /\ recoverer.pc = "recording" =>
       cp.gap \/ ~recoverer.reached \/ 1..recoverer.last \subseteq known \union recoverer.changes

RecoveryInv == RecoveryTyped /\ UnitsInv /\ LedgerInv /\ CommitsInv

\* The instance counts as FiniteSets does.
LEMMA RecoveryCounts == \A T : C!Cardinality(T) = Cardinality(T)
BY DEF C!Cardinality, Cardinality

\* Ranks are numbers, tell groups apart, and end before the number of groups.
LEMMA RanksCount ==
  ASSUME NEW its \in Ledgers
  PROVE  /\ Cardinality(Present(its)) \in Nat
         /\ \A g \in Present(its) : Rank(its, g) \in Nat /\ Rank(its, g) < Cardinality(Present(its))
         /\ \A g, h \in Present(its) : Rank(its, g) = Rank(its, h) => g = h
<1> DEFINE all == Present(its)
           Before(g) == {h \in all : h < g}
<1>1. IsFiniteSet(all) /\ all \subseteq Nat
  <2>1. all \subseteq Groups
    BY DEF Present
  <2> HIDE DEF all
  <2>2. QED
    BY <2>1, RecoveryAssumption, FS_Subset
<1>2. \A g : Rank(its, g) = Cardinality(Before(g))
  BY DEF Rank
<1>3. \A g \in all : g \notin Before(g) /\ Before(g) \subseteq all
  BY <1>1
<1>4. \A g, h \in all : g < h => Before(g) \subseteq Before(h) /\ g \in Before(h) /\ g \notin Before(g)
  BY <1>1
<1> HIDE DEF all, Before
<1>5. \A g \in all : /\ IsFiniteSet(Before(g)) /\ Cardinality(Before(g)) \in Nat
                     /\ Cardinality(Before(g)) < Cardinality(all)
  BY <1>1, <1>3, FS_Subset, FS_CardinalityType
<1>6. \A g, h \in all : g < h => Cardinality(Before(g)) < Cardinality(Before(h))
  BY <1>4, <1>5, FS_Subset, FS_CardinalityType
<1>7. Cardinality(all) \in Nat
  BY <1>1, FS_CardinalityType
<1>8. \A g, h \in all : Cardinality(Before(g)) = Cardinality(Before(h)) => g = h
  <2>1. SUFFICES ASSUME NEW g \in all, NEW h \in all, Cardinality(Before(g)) = Cardinality(Before(h)), g # h
                 PROVE  FALSE
    OBVIOUS
  <2>2. g < h \/ h < g
    BY <1>1, <2>1
  <2>3. QED
    BY <1>5, <1>6, <2>1, <2>2
<1>9. QED
  BY <1>2, <1>5, <1>7, <1>8 DEF all

\* A page has at most one group, the one at the offset, and the first is not empty.
LEMMA PageIsOne ==
  ASSUME NEW its \in Ledgers, NEW offset \in Nat,
         NEW groups, groups = {g \in Present(its) : Rank(its, g) = offset}
  PROVE  /\ \/ groups = {} /\ Cardinality(groups) = 0
            \/ groups # {} /\ Cardinality(groups) = 1
         /\ offset = 0 /\ Present(its) # {} => groups # {}
<1>1. groups = {} => Cardinality(groups) = 0
  BY FS_EmptySet
<1>2. ASSUME groups # {} PROVE Cardinality(groups) = 1
  <2>1. PICK g \in groups : TRUE
    BY <1>2
  <2>2. groups = {g}
    BY <2>1, RanksCount
  <2>3. Cardinality({g}) = 1
    BY FS_Singleton
  <2>4. QED
    BY <1>2, <2>2, <2>3
<1>3. offset = 0 /\ Present(its) # {} => groups # {}
  <2>1. SUFFICES ASSUME offset = 0, Present(its) # {} PROVE groups # {}
    OBVIOUS
  <2>2. Present(its) \subseteq Nat
    BY RecoveryAssumption DEF Present
  <2>3. PICK g \in Present(its) : \A h \in Present(its) : ~(h < g)
    BY <2>1, <2>2, LeastElement
  <2>4. {h \in Present(its) : h < g} = {}
    BY <2>3
  <2>5. Rank(its, g) = 0
    BY <2>4, FS_EmptySet DEF Rank
  <2>6. QED
    BY <2>1, <2>5
<1>4. QED
  BY <1>1, <1>2, <1>3

\* Importing a record leaves the others done.
LEMMA ImportGrows ==
  ASSUME NEW its \in Ledgers, NEW next, NEW todo, NEW less, NEW done \in Ledgers, NEW more \in Ledgers,
         \A g \in Groups : done[g] <= more[g],
         \A g \in Present(its) : <<g, its[g]>> \in todo \ less => more[g] >= its[g],
         ImportedTo(its, next, todo, done)
  PROVE  ImportedTo(its, next, less, more)
BY DEF ImportedTo, Present, Ledgers

\* The campaign moves, or a pass begins, fails or rests.
LEMMA CampaignKeepsRecovery ==
  ASSUME RecoveryInv, C!Commits \/ \E g \in Groups : C!LedgerChanges(g)
  PROVE  RecoveryInv'
<1>1. /\ head' \in Nat \ {0} /\ ledger' \in Ledgers
      /\ UNCHANGED <<cp, recoverer, imported, known, cached, swept>>
  <2>1. CASE C!Commits
    BY <2>1 DEF C!Commits, C!journal, RecoveryInv, RecoveryTyped
  <2>2. ASSUME NEW g \in Groups, C!LedgerChanges(g)
        PROVE  ledger' \in Ledgers /\ UNCHANGED <<head, cp, recoverer, imported, known, cached, swept>>
    BY <2>2 DEF C!LedgerChanges, C!journal, RecoveryInv, RecoveryTyped, Ledgers
  <2>3. QED
    BY <2>1, <2>2 DEF RecoveryInv, RecoveryTyped
<1>2. QED
  BY <1>1 DEF RecoveryInv, RecoveryTyped, UnitsInv, LedgerInv, CommitsInv

\* Where only the pass moves, to a step that claims nothing.
LEMMA PassKeepsRecovery ==
  ASSUME RecoveryInv, recoverer' \in Passes, recoverer'.pc \in {"idle", "reading", "conflict"},
         UNCHANGED <<head, ledger, cp, imported, known, cached, swept>>
  PROVE  RecoveryInv'
BY DEF RecoveryInv, RecoveryTyped, UnitsInv, LedgerInv, CommitsInv

\* A pass at rest.
LEMMA RestingIs ==
  /\ C!Resting \in Passes /\ C!Resting.pc = "idle"
  /\ \A p \in {"idle", "reading", "conflict"} :
       [C!Resting EXCEPT !.pc = p] \in Passes /\ [C!Resting EXCEPT !.pc = p].pc = p
BY DEF C!Resting, C!NoPage, Passes, Pages

\* A checkpoint from which a recovery starts.
LEMMA FreshIs ==
  /\ C!None \in Ledgers /\ C!NoPage \in Pages
  /\ C!Fresh \in Checkpoints
  /\ C!Fresh.summary = 0 /\ C!Fresh.index = FALSE /\ C!Fresh.ready = FALSE /\ C!Fresh.page = C!NoPage
  /\ C!Fresh.snapshot = 0 /\ C!Fresh.unitPage = 0 /\ C!Fresh.offset = 0
<1>1. C!None \in Ledgers /\ C!NoPage \in Pages
  BY DEF C!None, Ledgers, Pages
<1>2. 0 \in 0..(UnitPages - 1)
  BY RecoveryAssumption
<1>3. QED
  BY <1>1, <1>2 DEF C!Fresh, Checkpoints

\* Steps that only begin, fail or are refused.
LEMMA PassesKeepRecovery ==
  ASSUME RecoveryInv, C!Begin \/ C!Fails \/ C!SampleConflicts \/ \E n \in Nat : C!TooFarBack(n)
  PROVE  RecoveryInv'
BY RestingIs, PassKeepsRecovery
DEF C!Begin, C!Fails, C!SampleConflicts, C!TooFarBack, C!Goes, C!campaign, C!journal

\* A read of the snapshot's pages.
LEMMA ReadsKeepRecovery ==
  ASSUME RecoveryInv, C!ReadSummary \/ C!ReadIndex \/ C!cache_snapshot
  PROVE  RecoveryInv'
<1>1. cp \in Checkpoints /\ head \in Nat \ {0} /\ cached \in [1..UnitPages -> Nat]
  BY DEF RecoveryInv, RecoveryTyped
<1>2. ASSUME \E n \in Nat : C!TooFarBack(n) PROVE RecoveryInv'
  BY <1>2, PassesKeepRecovery
<1>3. CASE C!ReadSummary
  <2>1. CASE C!TooFarBack(cp.snapshot)
    BY <1>1, <1>2, <2>1 DEF Checkpoints
  <2>2. CASE ~C!TooFarBack(cp.snapshot)
    <3> DEFINE v == IF cp.snapshot # 0 THEN cp.snapshot ELSE head
    <3>1. /\ cp' = [cp EXCEPT !.summary = v] /\ cp.summary = 0
          /\ UNCHANGED <<head, ledger, recoverer, imported, known, cached, swept>>
      BY <1>3, <2>2 DEF C!ReadSummary, C!campaign, C!journal
    <3>2. v \in Nat /\ v # 0 /\ (cp.snapshot # 0 => v = cp.snapshot)
      BY <1>1 DEF Checkpoints
    <3> HIDE DEF v
    <3>3. /\ cp' \in Checkpoints /\ cp'.summary = v /\ cp'.index = cp.index /\ cp'.ready = cp.ready
          /\ cp'.page = cp.page /\ cp'.after = cp.after /\ cp'.snapshot = cp.snapshot
          /\ cp'.unitPage = cp.unitPage /\ cp'.offset = cp.offset /\ cp'.digest = cp.digest /\ cp'.gap = cp.gap
      BY <1>1, <3>1, <3>2 DEF Checkpoints
    <3>4. UnitsInv'
      BY <3>1, <3>2, <3>3 DEF RecoveryInv, UnitsInv
    <3>5. QED
      BY <3>1, <3>3, <3>4 DEF RecoveryInv, RecoveryTyped, LedgerInv, CommitsInv
  <2>3. QED
    BY <2>1, <2>2
<1>4. CASE C!ReadIndex
  <2>1. CASE C!TooFarBack(cp.summary)
    BY <1>1, <1>2, <2>1 DEF Checkpoints
  <2>2. CASE ~C!TooFarBack(cp.summary)
    <3>1. /\ cp' = [cp EXCEPT !.index = TRUE] /\ cp.summary # 0
          /\ UNCHANGED <<head, ledger, recoverer, imported, known, cached, swept>>
      BY <1>4, <2>2 DEF C!ReadIndex, C!campaign, C!journal
    <3>2. /\ cp' \in Checkpoints /\ cp'.summary = cp.summary /\ cp'.index = TRUE /\ cp'.ready = cp.ready
          /\ cp'.page = cp.page /\ cp'.after = cp.after /\ cp'.snapshot = cp.snapshot
          /\ cp'.unitPage = cp.unitPage /\ cp'.offset = cp.offset /\ cp'.digest = cp.digest /\ cp'.gap = cp.gap
      BY <1>1, <3>1 DEF Checkpoints
    <3>3. UnitsInv'
      BY <3>1, <3>2 DEF RecoveryInv, UnitsInv
    <3>4. QED
      BY <3>1, <3>2, <3>3 DEF RecoveryInv, RecoveryTyped, LedgerInv, CommitsInv
  <2>3. QED
    BY <2>1, <2>2
<1>5. CASE C!cache_snapshot
  <2>1. CASE C!TooFarBack(cp.summary)
    BY <1>1, <1>2, <2>1 DEF Checkpoints
  <2>2. CASE ~C!TooFarBack(cp.summary)
    <3>1. /\ cp' = [cp EXCEPT !.ready = TRUE] /\ cp.index
          /\ cached' = [cached EXCEPT ![cp.unitPage + 1] = cp.summary]
          /\ UNCHANGED <<head, ledger, recoverer, imported, known, swept>>
      BY <1>5, <2>2 DEF C!cache_snapshot, C!campaign
    <3>2. /\ cp' \in Checkpoints /\ cp'.summary = cp.summary /\ cp'.index = cp.index /\ cp'.ready = TRUE
          /\ cp'.page = cp.page /\ cp'.after = cp.after /\ cp'.snapshot = cp.snapshot
          /\ cp'.unitPage = cp.unitPage /\ cp'.offset = cp.offset /\ cp'.digest = cp.digest /\ cp'.gap = cp.gap
      BY <1>1, <3>1 DEF Checkpoints
    <3>3. cp.unitPage \in 0..(UnitPages - 1) /\ cp.summary \in Nat
      BY <1>1 DEF Checkpoints
    <3>4. /\ cached' \in [1..UnitPages -> Nat] /\ cached'[cp.unitPage + 1] = cp.summary
          /\ \A p \in 1..cp.unitPage : cached'[p] = cached[p]
      BY <1>1, <3>1, <3>3, RecoveryAssumption
    <3>5. UnitsInv'
      BY <3>1, <3>2, <3>4 DEF RecoveryInv, UnitsInv
    <3>6. QED
      BY <3>1, <3>2, <3>4, <3>5 DEF RecoveryInv, RecoveryTyped, LedgerInv, CommitsInv
  <2>3. QED
    BY <2>1, <2>2
<1>6. QED
  BY <1>3, <1>4, <1>5

\* A page of the ledger is read.
LEMMA LedgerReadKeepsRecovery ==
  ASSUME RecoveryInv, C!op_campaign_ledger_read
  PROVE  RecoveryInv'
<1> DEFINE groups == {g \in Present(ledger) : Rank(ledger, g) = cp.offset}
           end == cp.offset + Cardinality(groups)
           next == IF end < Cardinality(Present(ledger)) THEN end ELSE 0
           todo == {<<g, ledger[g]>> : g \in groups}
           page == [next |-> next, digest |-> ledger]
           pass == [recoverer EXCEPT !.pc = "importing", !.todo = todo, !.page = page]
<1>1. /\ cp \in Checkpoints /\ recoverer \in Passes /\ ledger \in Ledgers /\ imported \in Ledgers
  BY DEF RecoveryInv, RecoveryTyped
<1>2. UNCHANGED <<head, ledger, cp, imported, known, cached, swept>> /\ cp.ready
  BY DEF C!op_campaign_ledger_read, C!campaign, C!journal
<1>3. CASE ~C!SameLedger
  BY <1>2, <1>3, RestingIs, PassKeepsRecovery DEF C!op_campaign_ledger_read, C!Goes
<1>4. CASE C!SameLedger
  <2>1. recoverer' = pass
    BY <1>4, RecoveryCounts DEF C!op_campaign_ledger_read, C!Goes, Present, Rank
  <2>2. /\ Cardinality(Present(ledger)) \in Nat
        /\ \A g \in Present(ledger) : Rank(ledger, g) \in Nat /\ Rank(ledger, g) < Cardinality(Present(ledger))
    BY <1>1, RanksCount
  <2>3. cp.offset \in Nat /\ cp.digest \in Ledgers
    BY <1>1 DEF Checkpoints
  <2>4. /\ \/ groups = {} /\ Cardinality(groups) = 0
           \/ groups # {} /\ Cardinality(groups) = 1
        /\ cp.offset = 0 /\ Present(ledger) # {} => groups # {}
    BY <1>1, <2>3, PageIsOne
  <2>5. \A g \in Present(ledger) : Rank(ledger, g) = cp.offset => <<g, ledger[g]>> \in todo
    OBVIOUS
  <2>6. todo \subseteq Groups \X Nat
    BY <1>1 DEF Present, Ledgers
  <2>7. groups = {} => \A g \in Present(ledger) : Rank(ledger, g) # cp.offset
    OBVIOUS
  <2> HIDE DEF groups, todo
  <2>8. next \in Nat /\ page \in Pages /\ page # C!NoPage
    BY <1>1, <2>3, <2>4 DEF Pages, C!NoPage
  <2>9. next # 0 => ledger # C!None
    <3>1. SUFFICES ASSUME ledger = C!None, next # 0 PROVE FALSE
      OBVIOUS
    <3>2. Present(ledger) = {}
      BY <3>1 DEF C!None, Present
    <3>3. Cardinality(Present(ledger)) = 0
      BY <3>2, FS_EmptySet
    <3>4. QED
      BY <2>3, <2>4, <3>1, <3>3
  <2>10. \A g \in Present(ledger) : Rank(ledger, g) < cp.offset => imported[g] >= ledger[g]
    <3>1. CASE cp.offset = 0
      BY <2>2, <3>1
    <3>2. CASE cp.offset # 0
      <4>1. cp.digest = ledger
        BY <1>4, <3>2 DEF C!SameLedger, RecoveryInv, LedgerInv
      <4>2. ImportedTo(ledger, cp.offset, {}, imported)
        BY <3>2, <4>1 DEF RecoveryInv, LedgerInv
      <4>3. QED
        BY <4>2 DEF ImportedTo
    <3>3. QED
      BY <3>1, <3>2
  <2>11. ImportedTo(ledger, next, todo, imported)
    <3>1. ASSUME NEW g \in Present(ledger), next = 0 \/ Rank(ledger, g) < next
          PROVE  Rank(ledger, g) < cp.offset \/ Rank(ledger, g) = cp.offset
      <4> DEFINE r == Rank(ledger, g)
                 c == Cardinality(groups)
                 n == Cardinality(Present(ledger))
      <4>1. /\ next = IF cp.offset + c < n THEN cp.offset + c ELSE 0
            /\ r \in Nat /\ r < n /\ n \in Nat
            /\ (c = 0 /\ r # cp.offset /\ cp.offset # 0) \/ c = 1
            /\ next = 0 \/ r < next
        BY <2>2, <2>4, <2>7, <3>1
      <4> HIDE DEF r, c, n, next
      <4>2. r < cp.offset \/ r = cp.offset
        BY <2>3, <4>1
      <4>3. QED
        BY <4>2 DEF r
    <3>2. QED
      BY <2>5, <2>10, <3>1 DEF ImportedTo
  <2>12. /\ pass \in Passes /\ pass.pc = "importing" /\ pass.todo = todo /\ pass.page = page
    BY <1>1, <2>6, <2>8 DEF Passes
  <2>13. page.next = next /\ page.digest = ledger
    OBVIOUS
  <2> HIDE DEF pass, page, next
  <2>14. /\ recoverer' \in Passes /\ recoverer'.pc = "importing" /\ recoverer'.page # C!NoPage
         /\ ImportedTo(recoverer'.page.digest, recoverer'.page.next, recoverer'.todo, imported)
         /\ recoverer'.page.next # 0 => recoverer'.page.digest # C!None
    BY <2>1, <2>8, <2>9, <2>11, <2>12, <2>13
  <2>15. QED
    BY <1>2, <2>14 DEF RecoveryInv, RecoveryTyped, UnitsInv, LedgerInv, CommitsInv
<1>5. QED
  BY <1>3, <1>4
\* A record of the page is imported, or the page is done.
LEMMA ImportKeepsRecovery ==
  ASSUME RecoveryInv, C!import_group
  PROVE  RecoveryInv'
<1>1. /\ cp \in Checkpoints /\ recoverer \in Passes /\ imported \in Ledgers /\ swept \in Ledgers
      /\ recoverer.pc = "importing" /\ cp.ready
      /\ UNCHANGED <<head, ledger, known, cached, swept>>
  BY DEF RecoveryInv, RecoveryTyped, LedgerInv, C!import_group, C!campaign
<1>2. /\ recoverer.page # C!NoPage /\ recoverer.page \in Pages /\ recoverer.todo \subseteq Groups \X Nat
      /\ ImportedTo(recoverer.page.digest, recoverer.page.next, recoverer.todo, imported)
      /\ recoverer.page.next # 0 => recoverer.page.digest # C!None
      /\ recoverer.page.digest \in Ledgers
  <2>1. recoverer.page # C!NoPage /\ recoverer.page \in Pages /\ recoverer.todo \subseteq Groups \X Nat
    BY <1>1 DEF RecoveryInv, LedgerInv, Passes
  <2>2. recoverer.page.digest \in Ledgers
    BY <2>1 DEF Pages
  <2>3. QED
    BY <1>1, <2>1, <2>2 DEF RecoveryInv, LedgerInv
<1>3. CASE \E group \in recoverer.todo :
             /\ imported' = [imported EXCEPT ![group[1]] = IF @ < group[2] THEN group[2] ELSE @]
             /\ C!Goes([recoverer EXCEPT !.todo = @ \ {group}])
             /\ UNCHANGED cp
  <2>1. PICK g \in Groups, n \in Nat :
          /\ imported' = [imported EXCEPT ![g] = IF imported[g] < n THEN n ELSE imported[g]]
          /\ recoverer' = [recoverer EXCEPT !.todo = recoverer.todo \ {<<g, n>>}]
    <3>1. PICK group \in recoverer.todo :
             /\ imported' = [imported EXCEPT ![group[1]] = IF @ < group[2] THEN group[2] ELSE @]
             /\ C!Goes([recoverer EXCEPT !.todo = @ \ {group}])
      BY <1>3
    <3>2. PICK g \in Groups, n \in Nat : group = <<g, n>>
      BY <1>2, <3>1
    <3>3. imported' = [imported EXCEPT ![g] = IF imported[g] < n THEN n ELSE imported[g]]
      BY <1>1, <3>1, <3>2 DEF Ledgers
    <3>4. recoverer' = [recoverer EXCEPT !.todo = recoverer.todo \ {<<g, n>>}]
      BY <1>1, <3>1, <3>2 DEF C!Goes, Passes
    <3>5. QED
      BY <3>3, <3>4
  <2>2. /\ imported' \in Ledgers /\ imported'[g] >= n
        /\ \A h \in Groups : imported[h] <= imported'[h]
    BY <1>1, <2>1 DEF Ledgers
  <2>3. PICK less : less = recoverer.todo \ {<<g, n>>}
    OBVIOUS
  <2>4. /\ recoverer' \in Passes /\ recoverer'.pc = "importing" /\ recoverer'.page = recoverer.page
        /\ recoverer'.todo = less
    BY <1>1, <1>2, <2>1, <2>3 DEF Passes
  <2>5. PICK more : more = imported'
    OBVIOUS
  <2>6. \A next, todo : \A its \in Ledgers : ImportedTo(its, next, todo, imported) => ImportedTo(its, next, todo, more)
    BY <1>1, <2>2, <2>5, ImportGrows
  <2>7. ImportedTo(recoverer.page.digest, recoverer.page.next, less, more)
    <3>1. PICK its, next, todo : its = recoverer.page.digest /\ next = recoverer.page.next /\ todo = recoverer.todo
      OBVIOUS
    <3>2. \A h \in Present(its) : <<h, its[h]>> \in todo \ less => more[h] >= its[h]
      BY <2>2, <2>3, <2>5, <3>1
    <3>3. ImportedTo(its, next, todo, imported) /\ its \in Ledgers
      BY <1>2, <3>1
    <3>4. ImportedTo(its, next, less, more)
      BY <1>1, <2>2, <2>5, <3>2, <3>3, ImportGrows
    <3>5. QED
      BY <3>1, <3>4
  <2>8. cp.offset # 0 => ImportedTo(cp.digest, cp.offset, {}, more)
    BY <1>1, <2>6 DEF RecoveryInv, LedgerInv, Checkpoints
  <2>9. cp.page # C!NoPage => ImportedTo(cp.page.digest, cp.page.next, {}, more)
    <3>1. cp.page # C!NoPage => cp.page.digest \in Ledgers
      BY <1>1 DEF Checkpoints, Pages
    <3>2. QED
      BY <2>6, <3>1 DEF RecoveryInv, LedgerInv
  <2>10. \A h \in Groups : imported'[h] >= swept[h]
    BY <1>1, <2>2 DEF RecoveryInv, LedgerInv, Ledgers
  <2>11. UNCHANGED cp
    BY <1>3
  <2>12. LedgerInv'
    BY <1>1, <1>2, <2>4, <2>5, <2>7, <2>8, <2>9, <2>10, <2>11 DEF RecoveryInv, LedgerInv
  <2>13. QED
    BY <1>1, <2>2, <2>4, <2>11, <2>12 DEF RecoveryInv, RecoveryTyped, UnitsInv, CommitsInv
<1>4. CASE /\ recoverer.todo = {}
           /\ cp' = [cp EXCEPT !.page = recoverer.page]
           /\ C!Goes([C!Resting EXCEPT !.pc = "reading"])
           /\ UNCHANGED imported
  <2>1. /\ recoverer' \in Passes /\ recoverer'.pc = "reading"
    BY <1>4, RestingIs DEF C!Goes
  <2>2. /\ cp' \in Checkpoints /\ cp'.summary = cp.summary /\ cp'.index = cp.index /\ cp'.ready = cp.ready
        /\ cp'.page = recoverer.page /\ cp'.after = cp.after /\ cp'.snapshot = cp.snapshot
        /\ cp'.unitPage = cp.unitPage /\ cp'.offset = cp.offset /\ cp'.digest = cp.digest /\ cp'.gap = cp.gap
    BY <1>1, <1>2, <1>4 DEF Checkpoints
  <2>3. LedgerInv'
    BY <1>1, <1>2, <1>4, <2>1, <2>2 DEF RecoveryInv, LedgerInv
  <2>4. UnitsInv' /\ CommitsInv'
    BY <1>1, <2>1, <2>2 DEF RecoveryInv, UnitsInv, CommitsInv
  <2>5. QED
    BY <1>1, <1>4, <2>1, <2>2, <2>3, <2>4 DEF RecoveryInv, RecoveryTyped
<1>5. QED
  BY <1>3, <1>4 DEF C!import_group

\* A page of commits is read: the oldest of those that follow, if it was reached.
LEMMA ChangesKeepRecovery ==
  ASSUME RecoveryInv, C!op_campaign_changes
  PROVE  RecoveryInv'
<1> DEFINE chain == {k \in 1..head : k > cp.after /\ head - k < Window}
           first == {k \in chain : \A l \in chain : k <= l}
           end   == IF chain = {} THEN cp.after ELSE CHOOSE k \in first : TRUE
           pass  == [C!Resting EXCEPT !.pc = "recording", !.changes = first, !.reached = C!Reached, !.last = end]
<1>1. /\ cp \in Checkpoints /\ head \in Nat /\ cp.after \in Nat /\ Window \in Nat
  BY RecoveryAssumption DEF RecoveryInv, RecoveryTyped, Checkpoints
<1>2. recoverer' = pass /\ cp.page # C!NoPage /\ UNCHANGED <<head, ledger, cp, imported, known, cached, swept>>
  BY DEF C!op_campaign_changes, C!Goes, C!campaign, C!journal
<1>3. first \subseteq Nat /\ chain \subseteq Nat
  BY <1>1
<1>4. chain # {} => end \in Nat
  <2>1. SUFFICES ASSUME chain # {} PROVE first # {}
    BY <1>3
  <2>2. PICK m \in chain : \A k \in chain : ~(k < m)
    <3> HIDE DEF chain
    <3>1. QED
      BY <1>3, <2>1, LeastElement
  <2>3. m \in first
    BY <1>3, <2>2
  <2>4. QED
    BY <2>3
<1>5. ASSUME C!Reached, chain # {} PROVE first = {cp.after + 1} /\ end = cp.after + 1
  <2>1. cp.after + 1 \in chain
    BY <1>1, <1>5 DEF C!Reached
  <2>2. \A k \in chain : cp.after + 1 <= k
    BY <1>1
  <2> HIDE DEF chain
  <2>3. first = {cp.after + 1}
    BY <1>1, <1>3, <2>1, <2>2
  <2> HIDE DEF first
  <2>4. QED
    BY <1>5, <2>3
<1> HIDE DEF chain, first
<1>6. end \in Nat /\ (chain = {} => end = cp.after)
  BY <1>1, <1>4
<1> HIDE DEF end
<1>7. C!Reached \in BOOLEAN
  <2>1. CASE cp.after = 0
    BY <2>1 DEF C!Reached
  <2>2. CASE cp.after # 0
    BY <2>2 DEF C!Reached
  <2>3. QED
    BY <2>1, <2>2
<1>8. /\ pass \in Passes /\ pass.pc = "recording" /\ pass.changes = first
      /\ pass.reached = C!Reached /\ pass.last = end
  BY <1>3, <1>6, <1>7 DEF C!Resting, C!NoPage, Passes, Pages
<1> HIDE DEF pass
<1>9. C!Reached /\ 1..cp.after \subseteq known => 1..end \subseteq known \union first
  BY <1>1, <1>5, <1>6
<1>10. CommitsInv'
  BY <1>2, <1>8, <1>9 DEF RecoveryInv, CommitsInv
<1>11. QED
  BY <1>2, <1>8, <1>10 DEF RecoveryInv, RecoveryTyped, UnitsInv, LedgerInv

\* Its commits are recorded.
LEMMA RecordKeepsRecovery ==
  ASSUME RecoveryInv, C!RecordChange
  PROVE  RecoveryInv'
<1>1. /\ recoverer \in Passes /\ recoverer.pc = "recording"
      /\ recoverer' = [recoverer EXCEPT !.changes = {}]
      /\ known' = known \union recoverer.changes
      /\ UNCHANGED <<head, ledger, cp, imported, cached, swept>>
  BY DEF C!RecordChange, C!Goes, C!campaign, RecoveryInv, RecoveryTyped
<1>2. /\ recoverer' \in Passes /\ recoverer'.pc = "recording" /\ recoverer'.changes = {}
      /\ recoverer'.reached = recoverer.reached /\ recoverer'.last = recoverer.last
      /\ recoverer'.page = recoverer.page /\ recoverer'.todo = recoverer.todo
  BY <1>1 DEF Passes
<1>3. CommitsInv'
  BY <1>1, <1>2 DEF RecoveryInv, CommitsInv
<1>4. QED
  BY <1>1, <1>2, <1>3 DEF RecoveryInv, RecoveryTyped, UnitsInv, LedgerInv

\* The next pass goes on after this one.
LEMMA FinishKeepsRecovery ==
  ASSUME RecoveryInv, C!Finish
  PROVE  RecoveryInv'
<1> DEFINE more == cp.unitPage + 1 < UnitPages
           next == cp.page.next
<1>1. /\ cp \in Checkpoints /\ recoverer \in Passes /\ recoverer.pc = "recording" /\ recoverer.changes = {}
      /\ cp.page # C!NoPage /\ imported \in Ledgers /\ swept \in Ledgers
      /\ UnitsInv /\ LedgerInv /\ CommitsInv
      /\ UNCHANGED <<head, ledger, imported, known, cached>>
  BY DEF C!Finish, C!campaign, C!journal, RecoveryInv, RecoveryTyped, LedgerInv
<1>2. /\ cp.page \in [next : Nat, digest : Ledgers] /\ cp.ready /\ cp.index /\ cp.summary # 0
      /\ ImportedTo(cp.page.digest, next, {}, imported)
      /\ next # 0 => cp.page.digest # C!None
  BY <1>1 DEF Checkpoints, Pages, UnitsInv, LedgerInv
<1>3. /\ cp.summary \in Nat /\ cp.unitPage \in 0..(UnitPages - 1) /\ recoverer.last \in Nat
      /\ next \in Nat /\ cp.page.digest \in Ledgers
      /\ cp.gap \in BOOLEAN /\ recoverer.reached \in BOOLEAN
  BY <1>1, <1>2 DEF Checkpoints, Passes
<1>4. /\ cp' = [C!Fresh EXCEPT !.after = recoverer.last,
                               !.snapshot = IF more THEN cp.summary ELSE 0,
                               !.unitPage = IF more THEN cp.unitPage + 1 ELSE 0,
                               !.offset = next,
                               !.digest = IF next # 0 THEN cp.page.digest ELSE C!None,
                               !.gap = cp.gap \/ ~recoverer.reached]
      /\ recoverer' = C!Resting
      /\ swept' = IF next = 0 THEN cp.page.digest ELSE swept
  BY DEF C!Finish, C!Goes
<1> DEFINE pin  == IF more THEN cp.summary ELSE 0
           unit == IF more THEN cp.unitPage + 1 ELSE 0
           of   == IF next # 0 THEN cp.page.digest ELSE C!None
           gaps == cp.gap \/ ~recoverer.reached
<1>5. pin \in Nat /\ unit \in 0..(UnitPages - 1) /\ of \in Ledgers /\ gaps \in BOOLEAN
  <2>1. pin \in Nat /\ unit \in 0..(UnitPages - 1)
    BY <1>3, RecoveryAssumption
  <2>2. of \in Ledgers /\ gaps \in BOOLEAN
    BY <1>3, FreshIs
  <2>3. QED
    BY <2>1, <2>2
<1>6. pin = (IF more THEN cp.summary ELSE 0) /\ unit = (IF more THEN cp.unitPage + 1 ELSE 0)
       /\ of = (IF next # 0 THEN cp.page.digest ELSE C!None) /\ gaps = (cp.gap \/ ~recoverer.reached)
  OBVIOUS
<1>7. cp' = [C!Fresh EXCEPT !.after = recoverer.last, !.snapshot = pin, !.unitPage = unit,
                             !.offset = next, !.digest = of, !.gap = gaps]
  BY <1>4
<1> HIDE DEF next, pin, unit, of, gaps
<1>8. /\ cp' \in Checkpoints /\ cp'.summary = 0 /\ cp'.index = FALSE /\ cp'.ready = FALSE /\ cp'.page = C!NoPage
      /\ cp'.after = recoverer.last /\ cp'.gap = gaps /\ cp'.snapshot = pin /\ cp'.unitPage = unit
      /\ cp'.offset = next /\ cp'.digest = of
  BY <1>3, <1>5, <1>7, FreshIs DEF Checkpoints
<1>9. CommitsInv'
  BY <1>1, <1>4, <1>8, <1>6, RestingIs DEF CommitsInv
<1>10. UnitsInv'
  <2>1. ASSUME more, NEW p \in 1..(cp.unitPage + 1) PROVE cached[p] = cp.summary
    <3>1. CASE p = cp.unitPage + 1
      BY <1>1, <1>2, <3>1 DEF UnitsInv
    <3>2. CASE p # cp.unitPage + 1
      <4>1. p \in 1..cp.unitPage /\ cp.unitPage # 0
        BY <1>3, <2>1, <3>2
      <4>2. QED
        BY <1>1, <1>2, <4>1 DEF UnitsInv
    <3>3. QED
      BY <3>1, <3>2
  <2>2. CASE more
    BY <1>1, <1>2, <1>8, <1>6, <2>1, <2>2 DEF UnitsInv
  <2>3. CASE ~more
    BY <1>1, <1>8, <1>6, <2>3 DEF UnitsInv
  <2>4. QED
    BY <2>2, <2>3
<1>11. \A g \in Groups : imported[g] >= swept'[g]
  <2>1. CASE next = 0
    <3>1. ASSUME NEW g \in Groups PROVE imported[g] >= cp.page.digest[g]
      <4>1. CASE g \in Present(cp.page.digest)
        BY <1>2, <2>1, <4>1 DEF ImportedTo
      <4>2. CASE g \notin Present(cp.page.digest)
        BY <1>1, <1>3, <4>2 DEF Present, Ledgers
      <4>3. QED
        BY <4>1, <4>2
    <3>2. QED
      BY <1>4, <2>1, <3>1
  <2>2. CASE next # 0
    BY <1>1, <1>4, <2>2 DEF LedgerInv
  <2>3. QED
    BY <2>1, <2>2
<1>12. cp'.offset # 0 => cp'.digest # C!None /\ ImportedTo(cp'.digest, cp'.offset, {}, imported)
  BY <1>2, <1>8, <1>6
<1>13. /\ recoverer' \in Passes /\ recoverer'.pc = "idle" /\ swept' \in Ledgers
  BY <1>1, <1>3, <1>4, RestingIs
<1>14. LedgerInv'
  BY <1>1, <1>8, <1>11, <1>12, <1>13 DEF LedgerInv
<1>15. QED
  BY <1>1, <1>8, <1>9, <1>10, <1>13, <1>14 DEF RecoveryInv, RecoveryTyped

\* Starting over, with a gap.
LEMMA RestartKeepsRecovery ==
  ASSUME RecoveryInv, C!Restart
  PROVE  RecoveryInv'
<1>1. /\ cp \in Checkpoints /\ cp' = [C!Fresh EXCEPT !.after = cp.after, !.gap = TRUE]
      /\ recoverer' = C!Resting /\ UNCHANGED <<head, ledger, imported, known, cached, swept>>
  BY DEF C!Restart, C!Goes, C!campaign, C!journal, RecoveryInv, RecoveryTyped
<1>2. /\ cp' \in Checkpoints /\ cp'.gap = TRUE /\ cp'.snapshot = 0 /\ cp'.unitPage = 0
      /\ cp'.index = FALSE /\ cp'.ready = FALSE /\ cp'.page = C!NoPage /\ cp'.offset = 0
  BY <1>1, FreshIs DEF Checkpoints
<1>3. recoverer' \in Passes /\ recoverer'.pc = "idle"
  BY <1>1, RestingIs
<1>4. QED
  BY <1>1, <1>2, <1>3 DEF RecoveryInv, RecoveryTyped, UnitsInv, LedgerInv, CommitsInv

\* A recovery that declares no gap has every commit before its cursor, the last
\* ledger it read through, and units of one commit, wherever its passes failed
\* and however the campaign moved between them.
THEOREM CompleteIsComplete ==
  C!RecoveryInit /\ [][C!RecoveryNext]_recovery => []RecoveryIsWhole
<1>1. C!RecoveryInit => RecoveryInv
  BY RecoveryAssumption, RestingIs
  DEF C!RecoveryInit, C!Fresh, C!None, C!NoPage, RecoveryInv, RecoveryTyped, UnitsInv, LedgerInv,
      CommitsInv, Checkpoints, Pages, Ledgers
<1>2. RecoveryInv => RecoveryIsWhole
  BY DEF RecoveryInv, UnitsInv, LedgerInv, CommitsInv, RecoveryIsWhole, C!RecoveryIsWhole
<1>3. RecoveryInv /\ [C!RecoveryNext]_recovery => RecoveryInv'
  <2> SUFFICES ASSUME RecoveryInv, [C!RecoveryNext]_recovery PROVE RecoveryInv'
    OBVIOUS
  <2>1. CASE UNCHANGED recovery
    BY <2>1 DEF recovery, RecoveryInv, RecoveryTyped, UnitsInv, LedgerInv, CommitsInv
  <2>2. CASE C!RecoveryNext
    BY <2>2, CampaignKeepsRecovery, PassesKeepRecovery, ReadsKeepRecovery, LedgerReadKeepsRecovery,
       ImportKeepsRecovery, ChangesKeepRecovery, RecordKeepsRecovery, FinishKeepsRecovery,
       RestartKeepsRecovery DEF C!RecoveryNext
  <2>3. QED
    BY <2>1, <2>2
<1>4. QED
  BY <1>1, <1>2, <1>3, PTL
==============================================================================
