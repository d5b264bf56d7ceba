\* A holder and one contender on two hosts: the lease excludes and survives a death.
SPECIFICATION FairSpec
CONSTANTS
  p1 = p1
  p2 = p2
  p3 = p3
  hostA = hostA
  hostB = hostB
  Procs = {p1, p2}
  HostOf <- TwoHosts
  Dirs = {d1, d2, d3}
  NoDir = NoDir
  NoOwner = NoOwner
  MaxDeaths = 1
  SlowHolders = FALSE
INVARIANTS
  TypeOK
  MutualExclusion
  HolderKeepsLease
PROPERTIES
  DeadLeaseBroken
