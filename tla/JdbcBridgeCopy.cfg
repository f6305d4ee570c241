CONSTANTS
    w1 = w1
    w2 = w2
    c1 = c1
    c2 = c2
    Writers = {w1}
    Workers = {c1, c2}
    Threads = {w1, c1, c2}
    WriterOf <- TwoWorkers
    Cancellable = {"exec", "begin", "lob", "add", "abort", "close"}
    Pages = 1
    MaxOpen = 1
    MaxIdle = 1
    MaxFaults = 1
SPECIFICATION FairSpec
INVARIANTS NoUnknownBatch PoolCountsConnections
PROPERTIES EveryCallEnds
CHECK_DEADLOCK FALSE
