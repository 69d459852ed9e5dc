SPECIFICATION Spec
CONSTANTS
  N = 2
  Desired = 2
  Top = 3
  Capacity = 1
  HasDeadline = TRUE
  MaxChanges = 3
INVARIANTS WaitIsTruthful
CHECK_DEADLOCK FALSE
