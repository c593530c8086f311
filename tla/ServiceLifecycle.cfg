\* Three requests for two slots and two connections, and a lifespan run twice
\* or more.
CONSTANTS
  Requests = {r1, r2, r3}
  Clients = {c1, c2}
  Capacity = 2
  MaxConnections = 2
  None = None
SPECIFICATION FairSpec
INVARIANTS
  TypeOK
  OneClient
  NoUseAfterClose
  NothingLeftOpen
PROPERTIES
  SlotsLimitConnections
  ImplementsCustody
  ShutdownCompletes
CHECK_DEADLOCK FALSE
