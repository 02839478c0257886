SPECIFICATION Spec
CONSTANTS
    Sessions = {"A", "B", "C"}
    MaxDrops = 4
INVARIANTS
    TypeOK
    BlockedAsLabelled
    OnlyLabelledWait
    ErrorsAsShown
    NothingOfA
    ShowsPhantoms
    ReadsAfterUnlock
PROPERTIES
    ProgramEnds
CHECK_DEADLOCK FALSE
