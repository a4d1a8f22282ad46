SPECIFICATION Spec
CONSTANTS
  Chain <- MCChain
  FailureThreshold = 3
  Cooldown = 2
  Second = 2
  None = None
  Latencies <- MCLatencies
  MaxRequests = 4
  MaxTime = 3
INVARIANTS
  TypeOK
  StatsConsistent
  SelectionIsUnique
  SelectedNotDominated
PROPERTIES
  FailureNeverPromotes
  ImplementsBreaker
CHECK_DEADLOCK FALSE
