CONSTANTS
  r1 = r1
  r2 = r2
  Calls = {r1, r2}
  Mixes <- MCMixes
  Stubs = {1, 2}
  MaxChunks = 1
  MaxLost = 1
  Nobody = Nobody
SPECIFICATION Spec
INVARIANTS
  NoStrandedCall
  NoHiddenAllocation
CHECK_DEADLOCK FALSE
PROPERTIES
  AbandonedIsStopped
