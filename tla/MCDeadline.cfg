SPECIFICATION FairSpec
CONSTANTS
  Chain <- MCTwo
  FailureThreshold = 3
  Cooldown = 2
  Second = 2
  None = None
  Requests = {r1, r2}
  MaxRetries = 2
  Timeout = 1
  BaseDelay = 1
  MaxDelay = 1
  OwnTimeouts = {1}
  Lateness = 0
  LastArrival = 0
INVARIANTS
  InTime
PROPERTIES
  StepsRunOut
  EveryRequestEnds
