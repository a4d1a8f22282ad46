SPECIFICATION Spec
CONSTANTS
  Chain <- MCTwo
  FailureThreshold = 2
  Cooldown = 2
  Second = 2
  None = None
  Requests = {r1, r2}
  MaxRetries = 1
  Timeout = 2
  BaseDelay = 1
  MaxDelay = 1
  OwnTimeouts = {1, 2}
  Lateness = 1
  LastArrival = 1
PROPERTIES
  TransientRetried
