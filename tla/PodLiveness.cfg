SPECIFICATION FairSpec
CONSTANTS
  Keys = {k1}
  Workers = {w1, w2}
  NoKey = NoKey
  MaxRetries = 1
  MaxVersion = 3
  MaxErrors = 2
  MaxDisconnects = 1
PROPERTIES
  PrintsLikeMirror
  EventuallyPrinted
  StopTerminates
CHECK_DEADLOCK FALSE
