CONSTANTS
    w1 = w1
    w2 = w2
    r1 = r1
    r2 = r2
    DefaultAgent = "default"
    Agent <- NamedAgents
    Pid <- TwoPids
    Request <- OneRequest
    ManualStart = FALSE
    Reuse = {"watcher", "stranger"}
    ExitAfter = 1
    MaxBatch = 1
SPECIFICATION FairSpec
INVARIANTS TypeOK AtMostOneWatcher
PROPERTIES StopWins
CHECK_DEADLOCK FALSE
