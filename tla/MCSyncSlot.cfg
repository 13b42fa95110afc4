CONSTANTS
  Threads = {t1, t2, t3}
  Objs = {o1, o2, o3}
  Kinds <- MCKinds
  Static = Static
  Destroyed = Destroyed
  NoObj = NoObj
  Window = 2
  MaxTime = 3
  MaxCalls = 5
SPECIFICATION Spec
SYMMETRY Symmetry
INVARIANTS
  TypeOK
  AnsweredForOnce
  NoBlockLost
  LiveWithinWindow
  EarlyWaitersKept
PROPERTIES
  OnlyInitRevives
CHECK_DEADLOCK FALSE
