\* Two contenders judge one dead holder.
SPECIFICATION Spec
CONSTANTS
  p1 = p1
  p2 = p2
  p3 = p3
  hostA = hostA
  hostB = hostB
  Procs = {p1, p2, p3}
  HostOf <- OneHost
  Dirs = {d1, d2, d3, d4}
  NoDir = NoDir
  NoOwner = NoOwner
  MaxDeaths = 1
  SlowHolders = FALSE
INVARIANTS
  MutualExclusion
