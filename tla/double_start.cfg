CONSTANTS
    w1 = w1
    w2 = w2
    r1 = r1
    r2 = r2
    DefaultAgent = "default"
    Agent <- OneNamed
    Pid <- TwoPids
    Request <- TwoRequests
    ManualStart = FALSE
    Reuse = {}
    ExitAfter = 0
    MaxBatch = 1
SPECIFICATION Spec
INVARIANTS AtMostOneWatcher
CHECK_DEADLOCK FALSE
