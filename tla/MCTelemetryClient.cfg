SPECIFICATION FairSpec
CONSTANTS
  Messages = {"fast", "slow"}
  MessageOf <- MCMessageOf
  MaxFrames = 3
  MaxSources = 2
  MaxBreaks = 2
CHECK_DEADLOCK FALSE
INVARIANTS
  ViewIsPrefixOfOneSource
  NoFalseStreamWarning
PROPERTIES
  ConvergesToFinalView
