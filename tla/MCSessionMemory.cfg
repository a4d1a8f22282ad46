SPECIFICATION Spec
CONSTANTS
  m1 = m1
  m2 = m2
  Messages = {m1, m2, bad, big}
  Reads = {r1}
  Clears = {k1}
  TooLarge = {big}
  Malformed = {bad}
  MaxItems = 2
  Ttl = 2
  MaxInFlight = 2
  MaxTime = 2
  None = None
SYMMETRY Symmetry
INVARIANTS
  TypeOK
  StoreKeepsWindow
  ReadSeesAppended
  AppendedInOrder
  ClearForgets
PROPERTIES
  ImplementsSessionLog
CHECK_DEADLOCK FALSE
