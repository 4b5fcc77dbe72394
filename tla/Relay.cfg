CONSTANTS
    t1 = t1
    t2 = t2
    d1 = d1
    Tcp = {t1, t2}
    Dgram = {d1}
    Flush = 2
    MaxChunk = 2
    Cap = 3
    MaxMoved = 6
SPECIFICATION FairSpec
INVARIANTS
    EveryByteAccounted
    OverrunBounded
PROPERTY RevokedCut
CHECK_DEADLOCK FALSE
