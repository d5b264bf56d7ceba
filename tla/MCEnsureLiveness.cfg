\* Two calls, one attempt: an interrupted submission is explained.
SPECIFICATION FairSpec
CONSTANTS
  Clients = {c1, c2}
  Markers = {a1}
  JobIds = {j1}
  Contents = {v1}
  NoMarker = NoMarker
  NoJob = NoJob
  NoReceipt = NoReceipt
  NoContent = NoContent
  Free = Free
  Dead = Dead
  MaxCrashes = 1
  MaxEdits = 1
PROPERTIES
  IntentResolved
