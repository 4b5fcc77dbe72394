CONSTANTS
    u1 = u1
    u2 = u2
    r1 = r1
    r2 = r2
    l1 = l1
    l2 = l2
    Users = {u1, u2}
    Reqs = {r1, r2}
    Limits = {l1}
    MaxReqs = 3
    MaxUsage = 1
    MaxFailures = 1
    MaxRestarts = 1
SPECIFICATION FairSpec
INVARIANTS
    WriteThrough
    BanHolds
PROPERTY UsageConverges
CHECK_DEADLOCK FALSE
