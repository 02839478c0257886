SPECIFICATION FairSpec
CONSTANTS
  Types = {t1}
  Callers = {c1, c2}
  Channels = {ch1, ch2}
  None = None
INVARIANTS
  TypeOK
  ShutdownIsFinal
  SharedInformer
PROPERTIES
  NoAddDuringWait
  ShutdownReturns
  WaitReturns
