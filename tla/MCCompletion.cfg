CONSTANTS
  Submitters = {s1, s2}
  Waiters = {w1}
  Cells = {1, 2}
  Labels = {2}
  None = None
  MaxSubmits = 2
  MaxWrites = 2
SPECIFICATION FairSpec
INVARIANTS
  TypeOK
  EventsAfterWrites
PROPERTIES
  LandInOrder
  Delivered
CHECK_DEADLOCK FALSE
