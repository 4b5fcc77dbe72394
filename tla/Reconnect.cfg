CONSTANTS
    t1 = t1
    t2 = t2
    o1 = o1
    Tunnels = {t1, t2}
    Openers = {o1}
    Seed = t1
    None = None
    Dials <- MCDials
    QuicAddrs = 2
SPECIFICATION DialedFairSpec
INVARIANTS
    NoMissedPublish
PROPERTIES
    OpenReturnsCurrent
    KickHonoured
    HealsWhenReachable
CHECK_DEADLOCK FALSE
