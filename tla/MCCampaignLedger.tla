-------------------------- MODULE MCCampaignLedger --------------------------
(* Two units, planned alone or together, and interchangeable attempts and  *)
(* jobs.  The units may be swapped if their own groups are swapped too.    *)
EXTENDS CampaignLedger, TLC

CONSTANTS u1, u2, g1, g2, g12

MCUnitsOf == (g1 :> {u1}) @@ (g2 :> {u2}) @@ (g12 :> {u1, u2})

Swap == (u1 :> u2) @@ (u2 :> u1) @@ (g1 :> g2) @@ (g2 :> g1)

Symmetry == Permutations(Markers) \union Permutations(JobIds) \union {Swap}
==============================================================================
