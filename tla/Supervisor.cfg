\* Two command slots (so commands are also lost) and six outside events.
CONSTANTS
    CmdCap = 2
    MaxEvents = 6
SPECIFICATION FairSpec
INVARIANT
    NoStrandedWait
PROPERTIES
    KillSwitchHolds
    ImplementsSession
    DisconnectHonoured
CHECK_DEADLOCK FALSE
