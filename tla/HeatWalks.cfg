SPECIFICATION HeatSpec
CONSTANTS
    o1 = o1
    o2 = o2
    o3 = o3
    tier = tier
    disk = disk
    empty = empty
    BucketNum = 4
    Boundary = 1
    Units = {tier, disk, empty}
    OrderOf <- OrderOf3
    DiskOf = {disk, empty}
    Profiles <- Profiles3
    Rules <- Rules3
    MaxAsked = 3
    MaxSetups = 2
INVARIANTS
    WalkInOrder
    SortedAsAsked
CHECK_DEADLOCK FALSE
