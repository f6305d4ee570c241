CONSTANTS
    Jobs = {j1, j2}
    Threads = {t1, t2, t3}
    NoThread = none
    Ops = {"start", "abort", "resume"}
    Outcomes = {}
    DDLAt = {}
    MaxHead = 2
    MaxRequests = 5
    MaxRestarts = 1
SPECIFICATION Spec
SYMMETRY SlotSymmetry
INVARIANTS OneRunnerPerTarget
CHECK_DEADLOCK FALSE
