SPECIFICATION FairSpec
CONSTANTS
    MaxTestcases = 3
    GenerationSize = 2
    Capacity = 2
    MaxPutFailures = 2
INVARIANTS
    TypeOK
    NoneLost
    SummarisedOnce
PROPERTY StoredInTheEnd
CHECK_DEADLOCK FALSE
