SPECIFICATION Spec
CONSTANTS
  MaxTime = 2
  MaxRecords = 3
CHECK_DEADLOCK FALSE
INVARIANTS
  FailureLeavesIncomplete
