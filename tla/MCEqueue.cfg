CONSTANTS
  Callers = {c1}
  Waiters = {w1, w2}
  Handles = {h1}
  None = None
  MaxIdentity = 2
  Cap = 1
  Timers = {k1}
  Reads = {r1}
  MaxNum = 2
  MaxWork = 3
SPECIFICATION FairSpec
INVARIANTS
  TypeOK
  CompletionsKept
  ExpirationsCounted
  NoSleeperMissed
PROPERTIES
  DeleteReleases
CHECK_DEADLOCK FALSE
