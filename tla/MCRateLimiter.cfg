SPECIFICATION Spec
CONSTANTS
  Checks = {c1, c2, c3, c4}
  Minute = 2
  Hour = 4
  MinuteLimit = 1
  HourLimit = 2
  MaxLatency = 1
  MaxTime = 5
SYMMETRY Symmetry
INVARIANTS
  TypeOK
  LimitHolds
  LimitDoublesAtMost
  RejectedOnlyOverLimit
  RetryAfterSuffices
  CountersGo
CHECK_DEADLOCK FALSE
