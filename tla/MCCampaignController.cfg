SPECIFICATION Spec
CONSTANTS
  p = p
  q = q
  u = u
  v = v
  Managers = {p, q}
  Definitions <- MCDefinitions
  MaxAttempts = 2
  MaxAuths = 2
INVARIANTS
  NoUnsanctionedDuplicate
  GatesAreHonest
PROPERTIES
  HistoryOnlyGrows
SYMMETRY Processes
CHECK_DEADLOCK FALSE
