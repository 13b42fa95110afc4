CONSTANTS
  Submitters = {s1, s2}
  Waiters = {}
  Cells = {1, 2}
  Labels = {2}
  None = None
  MaxSubmits = 2
  MaxWrites = 2
SPECIFICATION Spec
INVARIANTS
  PrivateUntilReturn
CHECK_DEADLOCK FALSE
