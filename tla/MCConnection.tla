---------------------------- MODULE MCConnection ----------------------------
(* A run, an srun, or a follow beside the probe of another thread.          *)
EXTENDS ClientSession

CONSTANTS r1, r2

MCMixes ==
  {[r \in Calls |-> IF r = r1 THEN mix[1] ELSE mix[2]] :
     mix \in {<<"run", "none">>, <<"srun", "none">>, <<"follow", "ping">>}}
=============================================================================
