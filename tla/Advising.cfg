SPECIFICATION Spec
CONSTANTS
    ssd = ssd
    ent = ent
    sata = sata
    sata2 = sata2
    o1 = o1
    o2 = o2
    o3 = o3
    o4 = o4
    Disks = {ssd, ent, sata, sata2}
    OBJs = {o1, o2, o3, o4}
    TierOf <- MCTierOf
    Bandwidth <- MCBandwidth
    OBJSize = 2
    Gain = 2
    Configs <- MCConfigs
    Windows <- MCWindows
    MaxFilters = 3
INVARIANTS
    WalksAreComplete
    FlagsTell
    AdviceLeadsNext
CHECK_DEADLOCK FALSE
