CONSTANTS
    old = old
    new = new
    bad = bad
    Images = {old, new, bad}
    Broken = {bad}
    p1 = p1
    p2 = p2
    Ports = {p1, p2}
    u1 = u1
    u2 = u2
    Users = {u1, u2}
    main = main
    Main = main
    b1 = b1
    b2 = b2
    Backups = {b1, b2}
    None = None
    RunAttempts = 2
    ReadyAttempts = 2
    MaxOps = 3
    MaxLosses = 1
SYMMETRY Symm
SPECIFICATION Spec
INVARIANTS
    PublishedIsBound
    RecordTruthful
    NeverLostServer
CHECK_DEADLOCK FALSE
