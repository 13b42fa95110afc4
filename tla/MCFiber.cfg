CONSTANTS
  Threads = {t1, t2}
  Fibers = {f1, f2, f3}
  NoFiber = NoFiber
  Nowhere = Nowhere
  Migrate = FALSE
  LateEnds = FALSE
  MaxCalls = 14
SPECIFICATION Spec
SYMMETRY Symmetry
INVARIANTS
  TypeOK
  CurrentIsRunning
  RunMeansRunning
  SuspendedMeansEntered
CHECK_DEADLOCK FALSE
