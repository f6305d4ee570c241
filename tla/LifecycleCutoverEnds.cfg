CONSTANTS
    Jobs = {j1}
    Threads = {t1, t2, t3}
    NoThread = none
    Ops = {"start", "prepare", "stop", "pause", "resume", "ack", "abort"}
    Outcomes = {"conflict", "error"}
    DDLAt = {2}
    MaxHead = 2
    MaxRequests = 5
    MaxRestarts = 0
SPECIFICATION FairSpec
PROPERTIES CutoverEnds AbortTakesEffect
CHECK_DEADLOCK FALSE
