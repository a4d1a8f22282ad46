SPECIFICATION Spec
CONSTANTS
  Chain <- MCTwo
  FailureThreshold = 2
  Cooldown = 2
  Second = 2
  None = None
  Requests = {r1, r2, r3}
  MaxRetries = 0
  Timeout = 2
  BaseDelay = 1
  MaxDelay = 1
  OwnTimeouts = {}
  Lateness = 0
  LastArrival = 4
SYMMETRY Symmetry
INVARIANTS
  HealthyGaugeCurrent
