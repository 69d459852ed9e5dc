SPECIFICATION PartSpec
CONSTANTS
  MaxIndex = 1000
  None = None
  N = 2
  Desired = 2
  Top = 3
  Capacity = 1
  MaxChanges = 3
  Num = 5
INVARIANTS
  NameIsItsNumber
  AnswersAreTrue
PROPERTIES
  WaitsEnd
  EventsWake
  CallsEnd
CHECK_DEADLOCK FALSE
