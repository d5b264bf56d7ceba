\* Two concurrent calls, two attempts and their jobs, one crash.
SPECIFICATION Spec
SYMMETRY Symmetry
CONSTANTS
  Clients = {c1, c2}
  Markers = {a1, a2}
  JobIds = {j1, j2}
  Contents = {v1}
  NoMarker = NoMarker
  NoJob = NoJob
  NoReceipt = NoReceipt
  NoContent = NoContent
  Free = Free
  Dead = Dead
  MaxCrashes = 1
  MaxEdits = 0
INVARIANTS
  TypeOK
  
  
  JobIdentified
  RetryableIsSettled
  VerifiedIsEvidenced

  
