SPECIFICATION Spec
CONSTANTS
  NsPerSec = 4
  Earliest <- Before
  Latest = 9
  MinCount <- Least
  MaxCount = 15
  Durations <- Lengths
  TimePoints <- Lengths
CHECK_DEADLOCK FALSE
INVARIANTS
  DeadlineKept
  ExpiresInTime
