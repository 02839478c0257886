SPECIFICATION MCSpec
CONSTANTS
  Programs = {p1, p2}
  Steps = 2
  MaxVersion = 5
  MaxClock = 9
INVARIANTS
  TypesOK
  ConflictsHaveCauses
PROPERTIES
  NotesKept
  RetryEnds
  OnlyOwnPodDeleted
  PatchSeesLatest
CHECK_DEADLOCK FALSE
