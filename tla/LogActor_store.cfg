SPECIFICATION Spec
CONSTANTS
    Req = {r1, r2, r3}
    Commands <- MixedCommands
    Patches <- StorePatches
    Malformed = {"junk"}
    States <- StoreStates
    Zero = "absent"
    Rejected = "refused"
    Apply <- StoreApply
    Reducible = TRUE
    RingCapacity = 2
    BatchSize = 2
    InboxCapacity = 2
    CheckpointEvery = 2
    Faults = {"write", "header", "late_header"}
    CrashKinds = {"process", "power"}
    MaxFaults = 1
    MaxCommit = 4
    MaxLog = 12
    MaxCrashes = 1
SYMMETRY Symmetry
INVARIANTS
    Reopens
    AnswersAreTrue
    SubscribersSeeTheLog
PROPERTIES
    OnlyTheGuiltyFail
    ImplementsFeed
