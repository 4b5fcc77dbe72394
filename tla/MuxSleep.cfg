CONSTANTS
    Hellos <- MCPhone
    Period = 2
    DefaultTolerance = 5
    MinTolerance = 2
    MaxTolerance = 9
    QueueCap = 1
    LinkCap = 1
    Backlog = 1
    MaxPeerStreams = 1
    None = None
    MaxOpens = 1
    MaxSleep = 6
SPECIFICATION LifecycleSpec
INVARIANT SleepTolerated
CHECK_DEADLOCK FALSE
