----------------------- MODULE MCCampaignController -----------------------
EXTENDS CampaignController, TLC

CONSTANTS p, q, u, v

AtMost(some) ==
  some @@ [start |-> 1, apply |-> 1, refresh |-> 0, verify |-> 0, retry |-> 0, cancel |-> 0,
           close |-> 0, adopt |-> 0, mutate |-> 0]

Campaign(units, mode, outages, limit) ==
  [units |-> units, needs |-> [w \in units |-> {}], require |-> "completed", mode |-> mode,
   outages |-> {{}, outages}, limit |-> limit]

\* One unit that is retried or cancelled while two processes apply; one whose
\* run is closed, archived and restored meanwhile, or that was adopted; two
\* packed into an allocation; one that waits for another to be verified.
MCDefinitions ==
  {Campaign({u}, "single", {"squeue", "sacct"}, AtMost([apply |-> 3, retry |-> 2])),
   Campaign({u}, "single", {"squeue", "sacct"}, AtMost([apply |-> 2, refresh |-> 1, retry |-> 1, cancel |-> 1])),
   Campaign({u}, "single", {"squeue", "sacct"}, AtMost([refresh |-> 1, close |-> 3, adopt |-> 1])),
   Campaign({u, v}, "pack", {"markers"}, AtMost([apply |-> 2, retry |-> 1])),
   Campaign({u, v}, "pack", {"markers"}, AtMost([refresh |-> 1, cancel |-> 1])),
   [Campaign({u, v}, "single", {"filesystem"}, AtMost([apply |-> 2, refresh |-> 1, verify |-> 1, mutate |-> 1]))
      EXCEPT !.needs = (u :> {}) @@ (v :> {u}), !.require = "verified"]}

\* A unit that is retried twice.
MCRetried == {Campaign({u}, "single", {"squeue", "sacct"}, AtMost([apply |-> 3, retry |-> 2]))}

Processes == Permutations(Managers)
===========================================================================
