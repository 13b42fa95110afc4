CONSTANTS
  Threads = {t1, t2}
  Fibers = {f1, f2, f3}
  NoFiber = NoFiber
  Nowhere = Nowhere
  Migrate = FALSE
  LateEnds = TRUE
  MaxCalls = 10
SPECIFICATION Spec
SYMMETRY Symmetry
INVARIANTS
  ReturnNeverStrands
CHECK_DEADLOCK FALSE
