SPECIFICATION ServerSpec
CONSTANTS
    Openers <- MCConns
    Conns <- MCConns
    Source <- MCSource
    Plans <- MCPlans
    Skew <- MCSkew
    DestHellos <- MCDestHellos
    Resolutions <- MCResolutions
    Links = {l1, l2, l3}
    NoLink = NoLink
    AllowPrivate = FALSE
    Proxied = FALSE
    Users = {u1}
    MaxTotal = 2
    MaxPerIp = 2
    MaxTimeDiff = 1
    MaxEntries = 1
    MtProxy = TRUE
    OldKey = OldKey
    MaxAcceptFailures = 1
    Malformed = Malformed
    ServerKey = ServerKey
    CertKey = CertKey
    Secret = Secret
    Sni = Sni
INVARIANTS NoSecondTakeover ClientNotFooled RetryIsFresh
PROPERTIES SlotsReturned FlowsReleased
CHECK_DEADLOCK FALSE
