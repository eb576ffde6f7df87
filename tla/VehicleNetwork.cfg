SPECIFICATION Spec
CONSTANTS
  Ids = {1, 2}
  Optional = {2}
  Periods = {1, 2, 3, 5}
  MaxWord = 9
INVARIANTS
  OnSchedule
  DueAhead
