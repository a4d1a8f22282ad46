SPECIFICATION Spec
CONSTANTS
  Chain <- MCDuplicate
  FailureThreshold = 2
  Cooldown = 2
  Second = 2
  None = None
  Requests = {r1, r2, r3}
  MaxRetries = 0
  Timeout = 2
  BaseDelay = 1
  MaxDelay = 1
  OwnTimeouts = {1, 2, 3}
  Lateness = 0
  LastArrival = 2
SYMMETRY Symmetry
INVARIANTS
  ExhaustedAfterAll
  VisitsAccounted
  GaugesSound
