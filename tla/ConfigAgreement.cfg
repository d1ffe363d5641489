SPECIFICATION FairSpec
CONSTANTS
    o1 = o1
    o2 = o2
    d1 = d1
    d2 = d2
    d3 = d3
    p1 = p1
    p2 = p2
    Pools = {p1, p2}
    Disks = {d1, d2, d3}
    OBJs = {o1, o2}
    PoolOf <- TwoPools
    TierOf <- OneTier
    Rank <- Order
    InitialDisks = {d1, d2, d3}
    InitialOBJs <- SomeOBJs
    Kept <- KeptOBJs
    Pinnable = {d3}
    AdviseEvery = 2
    MaxChanges = 3
    MaxFailures = 1
INVARIANTS
    ConfigIsATree
    StaleIsReported
PROPERTIES
    AdviceIsConfirmed
    KeptIsNotForgotten
    AgreesInTheEnd
\* A generator that nobody answers stops when the bounds run out.
CHECK_DEADLOCK FALSE
