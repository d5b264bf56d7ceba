\* Two transactions of any content, replayed at will, two deaths anywhere.
SPECIFICATION FairSpec
CONSTANTS
  Transactions = {t1, t2}
  Contents = {v1, v2}
  NoTx = NoTx
  None = None
  MaxRevision = 2
  MaxDeaths = 2
  Persistent = {t1}
INVARIANTS
  TypeOK
  HeadIsWhole
  AckedIsCommitted
  OneCommitPerTransaction
PROPERTIES
  PublishedIsFrozen
  StoreIsLog
  ReplayAnswered
