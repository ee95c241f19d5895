SPECIFICATION FairSpec
CONSTANTS
    s1 = s1
    NoId = NoId
    Ids = {s1}
    Calls <- Steered
    Window = 1
    Buffer = 1
    Outbox = 2
    MaxRecords = 2
    MaxBreaks = 1
CHECK_DEADLOCK FALSE
INVARIANTS
    SteeringIsSafe
    NothingIsLost
PROPERTIES
    WireSettles
