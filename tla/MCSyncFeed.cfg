SPECIFICATION Spec
CONSTANTS
  MaxCapture = 3
  PerMilli = 2
  MaxTick = 4
  MaxLimit = 2
  MaxGiven = 2
INVARIANT
  OnlyNewCaptures
CHECK_DEADLOCK FALSE
