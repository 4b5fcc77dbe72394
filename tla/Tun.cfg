SPECIFICATION BridgeSpec
CONSTANTS
    V4 = {"server", "net4", "host4"}
    V6 = {"host6"}
    Domains = {"site"}
    Sessions <- MCSessions
    Answers <- MCAnswers
    MaxDomains = 1
    FlowCap = 1
    MaxFaults = 2
    Fds = {"f1", "f2", "f3"}
    NoFd = "nofd"
    MaxPerHost = 1
INVARIANTS
    Restored
    FailClosed
    BaselineTrue
    FlowsCapped
    FdsHeld
CHECK_DEADLOCK FALSE
