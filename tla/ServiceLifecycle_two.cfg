SPECIFICATION Spec
CONSTANTS
  Callers = {main, request}
  MaxWorkers = 2
  MaxFrames = 1
  MaxSubscribers = 1
CHECK_DEADLOCK FALSE
INVARIANTS
  OneSource
