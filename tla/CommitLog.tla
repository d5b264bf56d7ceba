------------------------------ MODULE CommitLog ------------------------------
(***************************************************************************)
(* What the campaign store promises its writers: a run's history is one    *)
(* log.  A transaction names the revision it was computed from; it is      *)
(* appended at most once, and only while that revision is the last one.    *)
(***************************************************************************)
EXTENDS Naturals, Sequences

CONSTANTS Transactions, Contents

VARIABLE log  \* the committed transactions, oldest first

Init == log = <<>>

Committed(tx) == \E i \in DOMAIN log : log[i].tx = tx

Commit(tx, content) ==
  /\ ~Committed(tx)
  /\ log' = Append(log, [tx |-> tx, content |-> content])

Next == \E tx \in Transactions, content \in Contents : Commit(tx, content)

Spec == Init /\ [][Next]_log
==============================================================================
