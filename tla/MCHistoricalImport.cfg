CONSTANTS
  Imports = {i1, i2}
  Seasons = {1, 2, 3}
  Requests <- Ranges
  MaxRequests = 3
  MaxTries = 2
  MaxTrouble = 2
  NoCheckpoint = NoCheckpoint
SPECIFICATION HistorySpec
SYMMETRY Symmetry
INVARIANT
  UnmixedIsThere
PROPERTY
  ProgressKept
CHECK_DEADLOCK FALSE
