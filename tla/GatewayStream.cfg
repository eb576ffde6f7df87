SPECIFICATION FairLinkSpec
CONSTANTS
  MaxRecords = 3
CHECK_DEADLOCK FALSE
INVARIANTS
  FramesArePrefix
  CleanEndIsWhole
  TruncationIsReal
PROPERTIES
  ClientEndsAfterServer
