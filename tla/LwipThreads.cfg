CONSTANTS
  Starts = 3
  Slots = 4
SPECIFICATION Spec
INVARIANTS
  HandleIsItsThread
  NullIsExplained
  WaitIsAnswered
PROPERTY DriverGetsThrough
CHECK_DEADLOCK FALSE
