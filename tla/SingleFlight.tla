---------------------------- MODULE SingleFlight -----------------------------
(***************************************************************************)
(* What every durable submitter of remoteslurm promises about one piece of *)
(* work, with the files, leases and messages left out: its submissions are *)
(* opened one at a time, a new one only when every earlier submission is   *)
(* off the cluster for good or was excused (by an operator who accepted a  *)
(* duplicate, or by a scheduler that denied having taken it), and only the *)
(* open one is ever launched.                                              *)
(***************************************************************************)
CONSTANTS Submissions, None

VARIABLES open,     \* the submission that speaks for the work, or None
          used,     \* submissions ever opened
          flying,   \* submissions that are, or may still come to be, on the cluster
          excused   \* submissions written off although they may fly

absVars == <<open, used, flying, excused>>

Init ==
  /\ open = None
  /\ used = {}
  /\ flying = {}
  /\ excused = {}

Open(s) ==
  /\ s \notin used
  /\ used' = used \union {s}
  /\ open' = s
  /\ excused' \in {excused, excused \union ({open} \ {None})}
  /\ flying \subseteq excused'
  /\ UNCHANGED flying

Launch ==
  /\ open # None
  /\ flying' = flying \union {open}
  /\ UNCHANGED <<open, used, excused>>

Settle(s) ==
  /\ s \in flying
  /\ flying' = flying \ {s}
  /\ UNCHANGED <<open, used, excused>>

\* The scheduler's own word that it did not take the open submission.
Excuse ==
  /\ excused' = excused \union ({open} \ {None})
  /\ UNCHANGED <<open, used, flying>>

Next ==
  \/ \E s \in Submissions : Open(s) \/ Settle(s)
  \/ Excuse
  \/ Launch

Spec == Init /\ [][Next]_absVars
==============================================================================
