SPECIFICATION Spec
CONSTANTS
    OBJs = {o1}
    Disks = {d1, d2, d3}
    Workers = {w1}
    MaxMoves = 3
    MaxIOs = 2
INVARIANTS
    UnsettledInBoth
\* The bounds run out.
CHECK_DEADLOCK FALSE
