SPECIFICATION Spec
CONSTANTS
    main = main
    a = a
    b = b
    c = c
    goal = goal
    Unnamed = Unnamed
    Functions = {main}
    Blocks <- MCBlocks
    Traces <- MCTraces
    Goals <- MCGoals
    MockedScores <- MCMockedScores
    CacheSize = 2
    MaxTraces = 2
INVARIANTS
    TypeOK
    FewCopies
    NoveltyOnce
    FailsOnlyIfEvicted
PROPERTIES
    NoveltySpec
CHECK_DEADLOCK FALSE
