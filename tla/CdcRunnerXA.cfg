CONSTANTS
    UseGTID = TRUE
    StartTxn = 1
    MaxTxn = 4
    MaxRows = 1
    Kinds = {"xid", "xa_prepare", "xa_rollback"}
    Ackers = {a1}
    MaxFaults = 2
SPECIFICATION Spec
INVARIANTS RolledBackNeverApplied
CHECK_DEADLOCK FALSE
