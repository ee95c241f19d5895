SPECIFICATION Spec
CONSTANTS
    Roots <- MCRoots
    Patches <- MCPatches
    Imports <- MCImports
    VersionLimit = 2
    MaxPatches = 2
    HoldAcrossTruncate = FALSE
INVARIANTS
    TreesAreSound
    PatchesMeanWhatTheySay
    MergeIsComposition
    HistoryIsTheLog
