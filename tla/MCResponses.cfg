SPECIFICATION FairSpec
CONSTANTS
  Requests = {r1, r2}
  hello = hello
  Hello = Hello
  tla = tla
  Prompts <- MCPrompts
  Normal <- MCNormal
  Ttl = 2
  MaxLatency = 1
  MaxTime = 2
  None = None
PROPERTIES
  EveryRequestEnds
CHECK_DEADLOCK FALSE
