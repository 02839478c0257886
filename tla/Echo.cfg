SPECIFICATION FairSpec
CONSTANTS
  Clients = {c1, c2}
  MaxTicks = 2
INVARIANTS
  TypeOK
  EchoInOrder
  CleanClose
PROPERTIES
  Unregistered
CHECK_DEADLOCK FALSE
