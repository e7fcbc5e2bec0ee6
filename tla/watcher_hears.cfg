CONSTANTS
    w1 = w1
    w2 = w2
    r1 = r1
    r2 = r2
    DefaultAgent = "default"
    Agent <- WithDefault
    Pid <- TwoPids
    Request <- OneRequest
    ManualStart = TRUE
    Reuse = {"stranger"}
    ExitAfter = 0
    MaxBatch = 1
SPECIFICATION FairSpec
INVARIANTS NamedSignalsStayHome
PROPERTIES StopFileIsHeard
CHECK_DEADLOCK FALSE
