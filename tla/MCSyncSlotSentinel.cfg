CONSTANTS
  Threads = {t1, t2}
  Objs = {o1, o2}
  Kinds <- MCKinds
  Static = Static
  Destroyed = Destroyed
  NoObj = NoObj
  Window = 2
  MaxTime = 3
  MaxCalls = 4
SPECIFICATION Spec
INVARIANT SentinelNeverResolved
CHECK_DEADLOCK FALSE
