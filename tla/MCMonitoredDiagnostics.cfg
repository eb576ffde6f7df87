SPECIFICATION MonitoredSpec
CONSTANTS
  Catalog <- TwoRules
  Confirmation <- TwoConfirmations
  Recovery <- TwoRecoveries
  SnapshotsFor <- BoundarySnapshots
  EventCapacity = 3
  MaxTime = 2
  MaxFrames = 6
INVARIANTS
  Timeline
  EventsExplainStatus
PROPERTIES
  ConfirmedRecordKept
  ImplementsLifecycle
  TransitionsAsDescribed
