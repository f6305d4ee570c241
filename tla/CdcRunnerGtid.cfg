CONSTANTS
    UseGTID = TRUE
    StartTxn = 1
    MaxTxn = 3
    MaxRows = 2
    Kinds = {"xid", "rollback", "ddl", "other"}
    Ackers = {a1}
    MaxFaults = 2
SPECIFICATION Spec
INVARIANTS ExactlyOnce DDLBarrier CutoverComplete
PROPERTIES CheckpointMonotone ImplementsCopy
CHECK_DEADLOCK FALSE
