SPECIFICATION Spec
CONSTANTS
  p = p
  q = q
  u = u
  v = v
  Managers = {p, q}
  Definitions <- MCRetried
  MaxAttempts = 2
  MaxAuths = 2
INVARIANTS
  ApplyRecovers
SYMMETRY Processes
CHECK_DEADLOCK FALSE
