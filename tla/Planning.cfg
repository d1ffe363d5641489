SPECIFICATION FairSpec
CONSTANTS
    p1 = p1
    p2 = p2
    a = a
    b = b
    c = c
    e = e
    f = f
    o1 = o1
    o2 = o2
    o3 = o3
    o4 = o4
    Pools = {p1, p2}
    PoolOrder <- PQ
    Disks = {a, b, c, e, f}
    OBJs = {o1, o2, o3, o4}
    PoolOf <- PoolsOfDisks
    TierOf <- Tiers
    Rank <- Ranks
    Advices <- Advised2
    Source <- Sources
    TargetTier <- Targets
    Lacking <- SomeLack
    RetryTimes = 3
    Echoes = {"completed", "expired"}
    MaxWindows = 2
    MaxMishaps = 1
    Movable = {p1, c}
INVARIANTS
    BatchUsesTargetsOnce
    QueuesAreSound
PROPERTIES
    HandlersEnd
\* The bounds run out.
CHECK_DEADLOCK FALSE
