----------------------------- MODULE ActivityLog -----------------------------
(***************************************************************************)
(* The activity journal (activity/store.py), those who write it            *)
(* (activity/producer.py) and those who follow it (activity/reader.py).    *)
(* Operations record what they ask for and how it went, at best effort;    *)
(* retention deletes a prefix of the events at any time; a follower reads  *)
(* pages and resumes each with the cursor of the one before.               *)
(***************************************************************************)
EXTENDS Naturals, FiniteSets

CONSTANTS Actors,    \* processes that perform recorded operations
          Followers,
          Facts,     \* things that observers find out, and record under one key each
          MaxEvents, \* bound: events ever appended
          MaxKept,   \* events the byte budget has room for
          Limit      \* events in a page

VARIABLES events,    \* what the table holds: sequence number, workspace, and key
          last,      \* the last sequence number given out
          pruned,    \* everything up to here was deleted
          inScope,   \* history: the numbers of all events of the workspace
          operation, \* each actor's operation
          checkpoint, \* facts recorded as known
          follower

journalVars == <<events, last, pruned, inScope, operation, checkpoint, follower>>
stored == <<events, last, pruned, inScope, checkpoint>>

Start == [cursor |-> 0, after |-> FALSE, seen |-> {}, since |-> 0]

JournalInit ==
  /\ events = {}
  /\ last = 0
  /\ pruned = 0
  /\ inScope = {}
  /\ operation = [a \in Actors |-> "idle"]
  /\ checkpoint = {}
  /\ follower = [f \in Followers |-> Start]

Numbers(es) == {e.seq : e \in es}
Highest(numbers) == CHOOSE n \in numbers : \A m \in numbers : m <= n

------------------------------------------------------------------------------
(* Appending and retention *)

\* The oldest go until the rest fit: by size, or by age up to some event.
Kept(es, upto) == {e \in es : e.seq > upto /\ Cardinality({k \in es : k.seq >= e.seq}) <= MaxKept}

_prune(es, upto) ==
  /\ events' = Kept(es, upto)
  /\ pruned' = IF es = Kept(es, upto) THEN pruned ELSE Highest(Numbers(es \ Kept(es, upto)))

\* One transaction: the event, the checkpoint, and retention.  The same source
\* key is not appended again while its event is kept.
append(scope, key, done) ==
  /\ last < MaxEvents
  /\ IF key # "fresh" /\ \E e \in events : e.key = key
       THEN UNCHANGED <<events, last, pruned, inScope>>
       ELSE /\ last' = last + 1
            /\ inScope' = IF scope THEN inScope \union {last + 1} ELSE inScope
            /\ _prune(events \union {[seq |-> last + 1, scope |-> scope, key |-> key]}, 0)
  /\ checkpoint' = checkpoint \union done

\* Recording fails without failing the operation.
capture(scope) == append(scope, "fresh", {}) \/ UNCHANGED stored

\* prune, and the retention by age that every append performs.
Prune(upto) ==
  /\ upto \in Numbers(events)
  /\ _prune(events, upto)
  /\ UNCHANGED <<last, inScope, operation, checkpoint, follower>>

------------------------------------------------------------------------------
(* Writers *)

\* A decorated entry point: the request is recorded, the operation performed,
\* its return, failure or unknown outcome recorded.
Requests(a, scope) ==
  /\ operation[a] = "idle"
  /\ operation' = [operation EXCEPT ![a] = "performing"]
  /\ capture(scope)
  /\ UNCHANGED follower

\* A submission records the job besides.
Submitted(a, scope) ==
  /\ operation[a] = "performing"
  /\ operation' = [operation EXCEPT ![a] = "submitted"]
  /\ capture(scope)
  /\ UNCHANGED follower

Outcome(a, scope) ==
  /\ operation[a] # "idle"
  /\ operation' = [operation EXCEPT ![a] = "idle"]
  /\ capture(scope)
  /\ UNCHANGED follower

Dies(a) ==
  /\ operation[a] # "idle"
  /\ operation' = [operation EXCEPT ![a] = "idle"]
  /\ UNCHANGED <<stored, follower>>

\* An observer's fact, under a key of its own, with its checkpoint.
publish(fact) ==
  /\ fact \notin checkpoint
  /\ append(TRUE, fact, {fact})
  /\ UNCHANGED <<operation, follower>>

------------------------------------------------------------------------------
(* Followers *)

\* The first of the rows, in order, up to the limit (in rows and in bytes).
Page(rows) == {e \in rows : Cardinality({k \in rows : k.seq <= e.seq}) <= Limit}
Latest(rows) == {e \in rows : Cardinality({k \in rows : k.seq >= e.seq}) <= Limit}

\* A bug: every page ends at the last event of the journal.
EndOfJournal(rows) == last

\* An unfinished page ends with its last row, a finished one with the journal.
NextCursor(rows) ==
  IF Page(rows) # rows THEN Highest(Numbers(Page(rows))) ELSE last

\* Without a cursor the latest page is shown, from there on everything after
\* the cursor.  A cursor from before the retained events is told of the gap,
\* and the follower starts anew.
query(f) ==
  LET q == follower[f]
      rows == {e \in events : e.scope /\ e.seq > q.cursor}
      gap == q.after /\ q.cursor < pruned
      next == NextCursor(rows)
  IN  /\ q.cursor < last \/ ~q.after
      /\ follower' = [follower EXCEPT ![f] =
           IF gap THEN Start
           ELSE IF ~q.after THEN [Start EXCEPT !.cursor = last, !.after = TRUE, !.since = last,
                                               !.seen = Numbers(Latest(rows))]
           ELSE [q EXCEPT !.cursor = next, !.seen = @ \union Numbers(Page(rows))]]
      /\ UNCHANGED <<stored, operation>>

JournalNext ==
  \/ \E upto \in 1..MaxEvents : Prune(upto)
  \/ \E a \in Actors : Dies(a) \/ \E scope \in BOOLEAN : Requests(a, scope) \/ Submitted(a, scope) \/ Outcome(a, scope)
  \/ \E fact \in Facts : publish(fact)
  \/ \E f \in Followers : query(f)

------------------------------------------------------------------------------
(* Properties *)

\* A follower has seen every event of its workspace from where it began, or was
\* last told of a gap, to its cursor: none is skipped at the end of a page, by
\* retention, by other workspaces' events, or by writers in between.
FollowerSeesAll ==
  \A f \in Followers : LET q == follower[f] IN
    \A n \in inScope : q.since < n /\ n <= q.cursor => n \in q.seen
==============================================================================
