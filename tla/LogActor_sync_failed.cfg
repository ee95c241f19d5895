SPECIFICATION Spec
CONSTANTS
    Req = {r1, r2}
    Commands <- MixedCommands
    Patches <- StorePatches
    Malformed = {"junk"}
    States <- StoreStates
    Zero = "absent"
    Rejected = "refused"
    Apply <- StoreApply
    Reducible = TRUE
    RingCapacity = 2
    BatchSize = 2
    InboxCapacity = 2
    CheckpointEvery = 2
    Faults = {"sync"}
    CrashKinds = {}
    MaxFaults = 1
    MaxCommit = 4
    MaxLog = 12
    MaxCrashes = 0
SYMMETRY Symmetry
INVARIANTS
    FailedLeavesNothing
