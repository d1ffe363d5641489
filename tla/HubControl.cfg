SPECIFICATION ControlSpec
CONSTANTS
    DayEnd = 4
    SubPools = {1, 2}
    SliceLists <- Lists
    MaxAsks = 3
    MaxStarts = 2
INVARIANTS
    InvolvedAsAsked
    OffForAll
CHECK_DEADLOCK FALSE
