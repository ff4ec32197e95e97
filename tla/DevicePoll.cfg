SPECIFICATION PollFairSpec
CONSTANTS
  MinInterval = 2
  SlowDown = 2
  RequestTimeout = 3
  Lateness = 2
  LastInstant = 60
  PollCap = 8
  Expiries <- MCExpiries
  Intervals <- MCIntervals
  RetryAfters <- MCRetryAfters
INVARIANTS
  PollTypeOK
  NoLateToken
PROPERTIES
  Polite
  PollEnds
CHECK_DEADLOCK FALSE
