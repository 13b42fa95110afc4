CONSTANTS
  Threads = {t1, t2}
  Fibers = {f1, f2, f3}
  NoFiber = NoFiber
  Nowhere = Nowhere
  Migrate = TRUE
  LateEnds = FALSE
  MaxCalls = 10
SPECIFICATION Spec
SYMMETRY Symmetry
INVARIANTS
  CurrentIsRunning
CHECK_DEADLOCK FALSE
