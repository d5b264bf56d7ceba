\* Two concurrent verifications: the second receipt replaces the first.
SPECIFICATION Spec
CONSTANTS
  Clients = {c1, c2}
  Markers = {a1}
  JobIds = {j1}
  Contents = {v1, v2}
  NoMarker = NoMarker
  NoJob = NoJob
  NoReceipt = NoReceipt
  NoContent = NoContent
  Free = Free
  Dead = Dead
  MaxCrashes = 0
  MaxEdits = 1
PROPERTIES
  ReceiptsKept
