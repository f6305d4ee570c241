CONSTANTS
    w1 = w1
    w2 = w2
    c1 = c1
    c2 = c2
    Writers = {w1, w2}
    Workers = {c1}
    Threads = {w1, w2, c1}
    WriterOf <- OneWorker
    Cancellable = {"hello", "open", "add"}
    Pages = 2
    MaxOpen = 1
    MaxIdle = 1
    MaxFaults = 2
SPECIFICATION Spec
INVARIANTS OneProcess WholePages
CHECK_DEADLOCK FALSE
