---------------------------- MODULE MCEnsureTask -----------------------------
(* Small instances of EnsureTask for TLC. *)
EXTENDS EnsureTask, TLC

Symmetry == Permutations(Clients) \union Permutations(Markers)
              \union Permutations(JobIds)
==============================================================================
