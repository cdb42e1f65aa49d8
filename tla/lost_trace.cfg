SPECIFICATION FairSpec
CONSTANTS
    p1 = p1
    p2 = p2
    NoPid = NoPid
    Pids = {p1, p2}
    MaxProcesses = 1
    MaxTestcases = 1
    PopulationSizes = {1}
    Faults = {"silent"}
    EarlyReuse = FALSE
PROPERTY GenerationCompletes
CHECK_DEADLOCK FALSE
