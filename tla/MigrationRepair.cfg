CONSTANTS
    h1 = h1
    h2 = h2
    r1 = r1
    r2 = r2
    Handlers = {h1, h2}
    Requests = {r1, r2}
    NumUnits = 2
    NumPages = 2
    MaxSent = 3
    MaxFaults = 1
SPECIFICATION FairSpec
INVARIANTS OneWriter AtMostOnce LedgerTruth DataTruth Reviewed CancelReaches
PROPERTIES AttemptEnds
CHECK_DEADLOCK FALSE
