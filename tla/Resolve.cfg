SPECIFICATION Spec
CONSTANTS
  Workers = {w}
  Deciders = {d}
  Capacity = 1
  MaxRows = 4
  MaxSaves = 2
  MaxDecides = 1
  MaxAgain = 1
  MaxEdits = 1
  MaxDeletes = 1
INVARIANTS SettledIsHidden OneResolution BothLostOnlyIfContested
CHECK_DEADLOCK FALSE
