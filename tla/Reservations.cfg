SPECIFICATION Spec
CONSTANTS
    d1 = d1  d2 = d2  d3 = d3  o1 = o1  o2 = o2
    Disks = {d1, d2, d3}
    OBJs = {o1, o2}
    Devices <- TheDevices
    Prop <- Props
    Places <- ThePlaces
    Word = 1073741824
    Period = 1
    Default <- DefaultPerf
    Loads <- TheLoads
    Demands <- TheDemands
    MaxWindows = 2
    MaxBatch = 2
    MaxPlans = 3
    MaxConfigChanges = 1
INVARIANTS BookedAsHeld ThresholdsWithin
CHECK_DEADLOCK FALSE
