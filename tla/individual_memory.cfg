SPECIFICATION Spec
CONSTANTS
    Multiplier = 2
    Duplicator = 2
    Shuffled = 2
    Digits = 2
    Segment = 2
    Seeds = 2
    SeedLengths <- MCSeedLengths
    MinSize = 1
    BestSize = 1
    MaxNew = 2
    MaxGenerations = 2
    MaxDrawn = 2
    MaxSlots = 6
    MaxLength = 2
INVARIANTS
    TypeOK
    RefsCover
    NoDangling
    NothingLeaked
    OwnBuffer
    StaysInBuffer
    NeverEmptied
CHECK_DEADLOCK FALSE
