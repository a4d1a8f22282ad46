SPECIFICATION Spec
CONSTANTS
  Checks = {c1, c2, c3}
  Minute = 2
  Hour = 4
  MinuteLimit = 1
  HourLimit = 2
  MaxLatency = 1
  MaxTime = 5
SYMMETRY Symmetry
INVARIANTS
  LimitHoldsAlways
CHECK_DEADLOCK FALSE
