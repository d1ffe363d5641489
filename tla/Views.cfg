SPECIFICATION ViewsSpec
CONSTANTS
    Pools = {1, 2}
    DiskKeys = {1, 2, 3, 4}
    OBJIds = {1, 2, 3, 4}
    PoolOf <- DefPoolOf
    TierOf <- DefTierOf
    InitialDisks = {1, 2, 3}
    InitialOBJs <- DefInitialOBJs
    IOs <- DefIOs
    Msec = 2
    FragmentSize = 1
    FragmentNum = 2
    MaxAccesses = 2
    MaxChanges = 2
    MaxCollections = 2
    MaxFailed = 1
INVARIANTS NothingIsForgotten FragmentsAreFilled
PROPERTIES WalkIsComplete
CHECK_DEADLOCK FALSE
