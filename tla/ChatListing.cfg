SPECIFICATION Spec
CONSTANTS
  Clients = {c1, c2}
  MaxMessages = 1
INVARIANTS
  ListedAreConnected
CHECK_DEADLOCK FALSE
