CONSTANTS
    c1 = c1
    s1 = s1
    s2 = s2
    v1 = v1
    v2 = v2
    Clients = {c1}
    Sessions = {s1, s2}
    None = None
    VpnSessions = {v1, v2}
    NoVpn = NoVpn
    MaxConnects = 2
    Slots = 2
SPECIFICATION DesktopFairSpec
INVARIANTS
    SlotOwnsEngine
PROPERTIES
    StopRestores
    StopReturns
    AppGoneNoEngine
    StopEndsSession
    StaleProxyCleared
CHECK_DEADLOCK FALSE
