CONSTANTS
  Nobody = Nobody
  w1 = w1
  Clients = {c1, c2}
  Singles = {1}
  Arrays = {2}
  MaxRequests = 2
  Watches = {w1}
  WatchDaemons = {d1, d2}
  WatchedTasks = {1, 2}
  Daemons = {d1, d2, d3}
  RunClients = {c1}
  MaxLog = 4
  Budget = 1
  Actors = {a1}
  Followers = {f1}
  Facts = {"fact"}
  MaxEvents = 5
  MaxKept = 3
  Limit = 1
  Workers = {k1, k2}
  Files = {1, 3}
  Inodes = {1, 2, 3, 4, 5}
  MaxOps = 2
  Groups = {1, 2, 3}
  MaxState = 1
  MaxCommits = 2
  Window = 1
  UnitPages = 2
  MaxSpaceClock = 4
  MaxInspections = 1
  HostTasks = {1, 2}
  MaxHostClock = 3
SPECIFICATION Spec
INVARIANTS
  JobsAreTracked
  WatchesAreHonest
  DaemonReachable
  
  FollowersMissNothing
  
  RecoveryIsWhole
  WorkspaceIsHonest
  
CHECK_DEADLOCK FALSE
