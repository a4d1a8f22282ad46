SPECIFICATION Spec
CONSTANTS
  Requests = {r1, r2}
  Configs <- MCConfigs
  ApiKeys <- MCApiKeys
  Statuses = {200, 400, 403, 429, 502}
  RequestTimeout = 2
  MaxConnections = 1
  MaxCalls = 2
INVARIANTS
  TypeOK
  ChainAsConfigured
  ContentFound
  NoCallRefused
  ClientTimeoutNotFirst
PROPERTIES
  ImplementsSharedPool
  ShutdownCompletes
CHECK_DEADLOCK FALSE
