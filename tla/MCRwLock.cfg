CONSTANTS
  Threads = {t1, t2, t3}
  NoThread = NoThread
  MaxCalls = 2
SPECIFICATION FairSpec
INVARIANTS
  TypeOK
  LockInv
  AccountingExact
  WriterFindsIdleWord
  WriteHoldNotStolen
  RefusedOnlyIfRobbed
PROPERTIES
  ReadReleaseNeverHitsWriter
  ParkedOnlyBehindHold
  HostLockIdeal
CHECK_DEADLOCK FALSE
