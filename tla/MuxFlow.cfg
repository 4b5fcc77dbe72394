CONSTANTS
    s1 = s1
    s2 = s2
    Streams = {s1, s2}
    Draining = {s1}
    Probe = s1
    InitWindow = 3
    Threshold = 2
    MaxCredit = 3
    MaxFrame = 2
    MaxBuffered = 6
    ChanCap = 1
    CmdCap = 1
    WireCap = 1
    MaxChunks <- Chunks
    Payloads <- SizesSent
SPECIFICATION FairSpec
INVARIANTS
    InOrder
PROPERTIES
    ImplementsWindow
    Isolation
    SendReturns
CHECK_DEADLOCK FALSE
