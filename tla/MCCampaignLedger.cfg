CONSTANTS
  u1 = u1
  u2 = u2
  g1 = g1
  g2 = g2
  g12 = g12
  Units = {u1, u2}
  Groups = {g1, g2, g12}
  UnitsOf <- MCUnitsOf
  Markers = {m1, m2, m3}
  JobIds = {j1}
  Auths = {x1}
  Reported = {"FAILED"}
  NoMarker = NoMarker
  NoGroup = NoGroup
  NoJob = NoJob
SYMMETRY Symmetry
SPECIFICATION Spec
INVARIANTS
  TypeOK
  NoUnitDuplicate
  OneSubmissionEach
  ReservationIsCurrent
PROPERTIES
  RetriesArePaid
  UnitPromise
