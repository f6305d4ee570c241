CONSTANTS
    NumTables = 2
    NumPages = 2
    Refs <- OneKey
    MaxRequests = 4
    MaxFaults = 3
    MaxReplaced = 1
    MaxPos = 1
SPECIFICATION FairSpec
INVARIANTS CompletedIsWhole OnlyOwnDropped RowNeverAhead OnlyAcknowledged
PROPERTIES RecordOneWay CopyEnds
CHECK_DEADLOCK FALSE
