CONSTANTS
    w1 = w1
    w2 = w2
    r1 = r1
    r2 = r2
    DefaultAgent = "default"
    Agent <- WithDefault
    Pid <- TwoPids
    Request <- OneRequest
    ManualStart = FALSE
    Reuse = {}
    ExitAfter = 0
    MaxBatch = 1
SPECIFICATION Spec
INVARIANTS DiscoveryIsOwn
CHECK_DEADLOCK FALSE
