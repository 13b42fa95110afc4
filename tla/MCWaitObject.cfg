CONSTANTS
  Threads = {t1, t2, t3}
  NoRequest = NoRequest
  b1 = b1
  b2 = b2
  Bits <- MCBits
  FlagRequests <- MCFlagRequests
  Masks <- MCMasks
  Needs <- MCNeeds
  MaxCalls = 5
SPECIFICATION FairSpec
INVARIANTS
  TypeOK
  FreedUnused
  NoStrandedWaiter
  Conserved
  ObjectInv
PROPERTIES
  DeletedIsFreed
  TimedWaitReturns
CHECK_DEADLOCK FALSE
