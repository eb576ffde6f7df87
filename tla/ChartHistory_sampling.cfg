SPECIFICATION Spec
CONSTANTS
  Interval = 5
  Capacity = 3
  Periods = {1, 2, 5, 10}
  MaxTime = 14
CHECK_DEADLOCK FALSE
INVARIANTS
  SamplesRepresented
