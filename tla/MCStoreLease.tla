---------------------------- MODULE MCStoreLease -----------------------------
(* Small instances of StoreLease for TLC. *)
EXTENDS StoreLease

CONSTANTS p1, p2, p3, hostA, hostB

OneHost  == [p \in Procs |-> hostA]
TwoHosts == [p \in Procs |-> IF p = p1 THEN hostA ELSE hostB]
==============================================================================
