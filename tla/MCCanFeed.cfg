SPECIFICATION FeedSpec
CONSTANTS
  Dme = Dme
  Dsc = Dsc
  rpm = rpm
  coolant = coolant
  speed = speed
  Foreign = Foreign
  Messages = {Dme, Dsc}
  Signals <- MCSignals
  Period <- MCPeriod
  Size <- MCSize
  Lengths = {2, 8}
  HistoryCapacity = 2
  ExplorerCapacity = 2
  Time = {0, 2, 5}
  MaxFrames = 4
  QueueCapacity = 1
  MaxSources = 1
INVARIANTS
  ViewsAgree
  FreshMeansRecent
  ExplorerExact
  PagesAgree
  LabelledBySource
CHECK_DEADLOCK FALSE
