CONSTANTS
  Threads = {t1, t2, t3}
  Conds = {c1, c2, c3}
  NoThread = NoThread
  NoCond = NoCond
  Retiring = Retiring
  NSlots = 2
  Attempts = 2
  Guests = {"locked", "pair"}
  MaxCalls = 5
SPECIFICATION Spec
SYMMETRY Symmetry
INVARIANTS
  TypeOK
  OneSlotPerCond
  SlotKeptWhileUsed
PROPERTIES
  SignalNotLost
  GenerationNeverRewinds
CHECK_DEADLOCK FALSE
