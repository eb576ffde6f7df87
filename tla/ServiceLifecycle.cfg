SPECIFICATION FairSpec
CONSTANTS
  Callers = {main}
  MaxWorkers = 3
  MaxFrames = 1
  MaxSubscribers = 1
CHECK_DEADLOCK FALSE
INVARIANTS
  OneSource
  StoppedMeansJoined
  SourcesNotMixed
  CompletedMeansAll
PROPERTIES
  StopEndsWorkers
  SubscriberStartsReplay
