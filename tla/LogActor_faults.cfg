SPECIFICATION FairSpec
CONSTANTS
    Req = {r1, r2}
    Commands <- FaultCommands
    Patches <- StorePatches
    Malformed = {"junk"}
    States <- StoreStates
    Zero = "absent"
    Rejected = "refused"
    Apply <- StoreApply
    Reducible = TRUE
    RingCapacity = 2
    BatchSize = 4
    InboxCapacity = 2
    CheckpointEvery = 1
    Faults = {"write", "cleanup", "sync", "header", "late_header", "open"}
    CrashKinds = {"process", "power"}
    MaxFaults = 2
    MaxCommit = 4
    MaxLog = 12
    MaxCrashes = 2
INVARIANTS
    MemoryMatchesLog
    HeaderIsBacked
    AcksSurvive
PROPERTIES
    FrontierIsBacked
    Answered
