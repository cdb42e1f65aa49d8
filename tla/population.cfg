SPECIFICATION Spec
CONSTANTS
    c1 = c1
    c2 = c2
    c3 = c3
    c4 = c4
    c5 = c5
    Contents = {c1, c2, c3, c4, c5}
    Measures <- MCMeasures
    Weight <- MCWeight
    UnsetKeys <- MCUnsetKeys
    BestSize = 3
    PopSize = 6
    Deviation = 2
    MaxStale = 1
    SlowMating = TRUE
    MaxGenerations = 3
SYMMETRY ContentSymmetry
INVARIANTS
    TypeOK
    BestDistinct
    BestKept
    AtMostOneMore
    SizeInRange
    InRange
    DrawEnds
    FixpointBound
CHECK_DEADLOCK FALSE
