SPECIFICATION FairSpec
CONSTANTS
  Requests = {r1}
  NoServer = NoServer
INVARIANTS
  TypeOK
  NothingCut
PROPERTIES
  SignalEnds
CHECK_DEADLOCK FALSE
