CONSTANTS
  Threads = {t1, t2, t3}
  Conds = {c1, c2}
  NoThread = NoThread
  NoCond = NoCond
  Retiring = Retiring
  NSlots = 2
  Attempts = 2
  Guests = {"free"}
  MaxCalls = 6
SPECIFICATION Spec
SYMMETRY Symmetry
INVARIANTS
  OneSlotPerCond
CHECK_DEADLOCK FALSE
