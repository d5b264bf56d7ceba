\* One persistent caller; a death between makedirs and request.json strands it.
SPECIFICATION FairSpec
CONSTANTS
  Transactions = {t1, t2}
  Contents = {v1}
  NoTx = NoTx
  None = None
  MaxRevision = 2
  MaxDeaths = 2
  Persistent = {t1}
PROPERTIES
  LostCallerRecovers
