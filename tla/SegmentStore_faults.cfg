SPECIFICATION Spec
CONSTANTS
    RotateAt = 2
    MaxBatch = 2
    MaxVersion = 4
    MaxAppends = 3
    Faults = {"open", "seal", "create", "prologue", "persist", "grow", "write", "cleanup", "header", "link", "unlink"}
    MaxFaults = 2
    CrashKinds = {"process", "power"}
    MaxCrashes = 2
INVARIANTS
    KeepsWhatWasAppended
    OpensUnlessUnfinished
PROPERTIES
    RecoversAsPromised
