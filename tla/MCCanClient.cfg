SPECIFICATION Spec
CONSTANTS
  Ids = {"common", "rare"}
  IdOf <- MCIdOf
  Capacity = 3
  MaxFrames = 8
CHECK_DEADLOCK FALSE
INVARIANTS
  BufferIsNewestWindow
  PassedFramesExact
  CleanEndShowsAll
