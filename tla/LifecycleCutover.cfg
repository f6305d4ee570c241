CONSTANTS
    Jobs = {j1, j2}
    Threads = {t1, t2, t3}
    NoThread = none
    Ops = {"start", "pause", "prepare", "stop", "cancel", "resume", "abort"}
    Outcomes = {"conflict", "error"}
    DDLAt = {}
    MaxHead = 2
    MaxRequests = 5
    MaxRestarts = 1
SPECIFICATION Spec
SYMMETRY SlotSymmetry
INVARIANTS TwoRunnersOneEnded
PROPERTIES CompletedAtBoundary SettledStays
CHECK_DEADLOCK FALSE
