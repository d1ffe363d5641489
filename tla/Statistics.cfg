SPECIFICATION Spec
CONSTANTS
    Settings <- MCSettings
    OBJs = {o1, o2}
    Disks = {d1}
    DiskOf <- MCDiskOf
    Samples <- MCSamples
    Word = 1024
    MaxTicks = 4
    MaxFailures = 1
SYMMETRY Symmetric
INVARIANTS
    TypesFollowShares
    AveragesBetween
    MonitoredIsEffective
PROPERTIES
    SummaryFits
