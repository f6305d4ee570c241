CONSTANTS
    UseGTID = FALSE
    StartTxn = 1
    MaxTxn = 3
    MaxRows = 2
    Kinds = {"commit", "ddl", "xa_prepare"}
    Ackers = {a1}
    MaxFaults = 2
SPECIFICATION FairSpec
PROPERTIES EventuallyReplicated
CHECK_DEADLOCK FALSE
