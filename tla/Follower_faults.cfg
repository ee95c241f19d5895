SPECIFICATION Spec
CONSTANTS
    Kinds <- BothKinds
    Reader = TRUE
    EventCap = 1
    SinkCap = 2
    MaxLog = 3
    MaxCuts = 1
    MaxLosses = 1
CHECK_DEADLOCK FALSE
INVARIANTS
    ShowsTheLog
    EventsAreComplete
PROPERTIES
    CatchesUp
