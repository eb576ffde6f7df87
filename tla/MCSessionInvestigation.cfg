SPECIFICATION InvestigationSpec
CONSTANTS
  MaxTime = 2
  MaxRecords = 3
  Keys = {rpm, iat}
  MaxSelected = 1
  MaxWindow = 3
  MaxRaw = 2
CHECK_DEADLOCK FALSE
INVARIANTS
  CompleteManifestIsTrue
  ReplayIsRecording
  WindowExact
  CenterState
  CursorExact
SYMMETRY KeySymmetry
