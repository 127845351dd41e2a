SPECIFICATION UpdateAppSpec
CONSTANTS
  NoStatus = NoStatus
  Prereleases = {}
  MaxRelease = 2
  MaxStarts = 2
  MaxAttempts = 1
CHECK_DEADLOCK FALSE
INVARIANT CheckAgainAsks
