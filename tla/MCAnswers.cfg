SPECIFICATION Spec
CONSTANTS
  Requests = {r1, r2, r3}
  hello = hello
  Hello = Hello
  tla = tla
  Prompts <- MCPrompts
  Normal <- MCNormal
  Ttl = 2
  MaxLatency = 1
  MaxTime = 4
  None = None
SYMMETRY Symmetry
INVARIANTS
  TypeOK
  AnswersAccounted
PROPERTIES
  ImplementsAnswerService
  AnswersFresh
CHECK_DEADLOCK FALSE
