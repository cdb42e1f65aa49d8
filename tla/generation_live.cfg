SPECIFICATION FairSpec
CONSTANTS
    p1 = p1
    p2 = p2
    NoPid = NoPid
    Pids = {p1, p2}
    MaxProcesses = 2
    MaxTestcases = 1
    PopulationSizes = {2}
    Faults = {"forkfails"}
    EarlyReuse = FALSE
INVARIANT TraceComplete
PROPERTY GenerationCompletes
CHECK_DEADLOCK FALSE
