SPECIFICATION Spec
CONSTANTS
  Keys = {k1, k2}
  Workers = {w1, w2}
  NoKey = NoKey
  MaxRetries = 1
  MaxVersion = 3
  MaxErrors = 2
  MaxDisconnects = 0
SYMMETRY Symmetry
INVARIANTS
  TypeOK
  QueueShape
  NeverInParallel
  NoLostChange
  DrainedBeforeExit
  RetryBudget
CHECK_DEADLOCK FALSE
