SPECIFICATION FairSpec
CONSTANTS
    Rows = 2
    Tables <- MCTables
    Size <- MCSize
    Refs <- MCRefs
    Views <- MCViews
    Deps <- MCDeps
    PageSize = 2
    MaxParallel = 2
    Parallels = {1, 2}
    Strategies = {"offset", "stream", "range"}
    MaxFaults = 1
    MaxCancels = 1
INVARIANTS
    ManifestTruth
    QuietAfterRelease
    OneMoreJob
PROPERTIES
    DoneIsWhole
    RetainedKeysKept
    BatchEnds
CHECK_DEADLOCK FALSE
