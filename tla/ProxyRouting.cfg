SPECIFICATION Spec
CONSTANTS
  Requests = {r1}
  NoServer = NoServer
INVARIANTS
  RoutedAsPrinted
CHECK_DEADLOCK FALSE
