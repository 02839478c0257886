SPECIFICATION Spec
CONSTANTS
  Clients = {c1, c2, c3}
  MaxMessages = 1
SYMMETRY Symmetry
INVARIANTS
  TypeOK
  OneConversation
CHECK_DEADLOCK FALSE
