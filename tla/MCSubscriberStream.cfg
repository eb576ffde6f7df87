SPECIFICATION FairSpec
CONSTANTS
  reader = reader
  stalled = stalled
  Clients = {reader, stalled}
  Responsive = {reader}
  Capacity = 2
  MaxEvents = 3
CHECK_DEADLOCK FALSE
INVARIANTS
  OutstandingExact
  NeverQueueFull
  ContiguousStream
PROPERTIES
  FoundSlowOnlyBehind
  PublisherReturns
  EndReachesClient
