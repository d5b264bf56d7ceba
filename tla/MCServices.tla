----------------------------- MODULE MCServices -----------------------------
(***************************************************************************)
(* The services share no state, so that a behaviour of the run is one of a *)
(* single service: the scene, chosen at the beginning.                     *)
(***************************************************************************)
EXTENDS Services

CONSTANT w1

VARIABLE scene

Scenes == {"jobs", "watches", "daemon", "detached", "journal", "files", "recovery", "workspace", "discovery"}

\* A service that has no part in the scene begins in one way only.
Still ==
  /\ scene # "jobs" => jobSubject = 1 /\ jobKept = {}
  /\ scene # "watches" => jobOf[1] = 1 /\ jobOf[2] = 2 /\ condition[w1] = "all_terminal"
  /\ scene # "daemon" => socket = Nobody
  /\ scene # "detached" => log = <<>>
  /\ scene # "files" => file[1] = 1

Init ==
  /\ scene \in Scenes
  /\ J!JobInit /\ W!WatchInit /\ D!DaemonInit /\ R!DetachInit /\ A!JournalInit
  /\ F!FileInit /\ C!RecoveryInit /\ S!SpaceInit /\ H!DiscoveryInit
  /\ Still

Others ==
  /\ UNCHANGED scene
  /\ IF scene = "jobs" THEN TRUE ELSE UNCHANGED jobs
  /\ IF scene = "watches" THEN TRUE ELSE UNCHANGED watches
  /\ IF scene = "daemon" THEN TRUE ELSE UNCHANGED daemons
  /\ IF scene = "detached" THEN TRUE ELSE UNCHANGED runs
  /\ IF scene = "journal" THEN TRUE ELSE UNCHANGED journal
  /\ IF scene = "files" THEN TRUE ELSE UNCHANGED files
  /\ IF scene = "recovery" THEN TRUE ELSE UNCHANGED recovery
  /\ IF scene = "workspace" THEN TRUE ELSE UNCHANGED spaces
  /\ IF scene = "discovery" THEN TRUE ELSE UNCHANGED hosts

Jobs == scene = "jobs" /\ J!JobNext /\ Others
Watching == scene = "watches" /\ W!WatchNext /\ Others
Daemon == scene = "daemon" /\ D!DaemonNext /\ Others
Detached == scene = "detached" /\ R!DetachNext /\ Others
Journal == scene = "journal" /\ A!JournalNext /\ Others
FileWork == scene = "files" /\ F!FileNext /\ Others
Recovery == scene = "recovery" /\ C!RecoveryNext /\ Others
Spaces == scene = "workspace" /\ S!SpaceNext /\ Others
Hosts == scene = "discovery" /\ H!DiscoveryNext /\ Others

Next == Jobs \/ Watching \/ Daemon \/ Detached \/ Journal \/ FileWork \/ Recovery \/ Spaces \/ Hosts

Vars == <<scene, jobs, watches, daemons, runs, journal, files, recovery,
          spaces, hosts>>

Spec == Init /\ [][Next]_Vars
=============================================================================
