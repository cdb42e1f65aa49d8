SPECIFICATION Spec
CONSTANTS
    p1 = p1
    p2 = p2
    NoPid = NoPid
    Pids = {p1, p2}
    MaxProcesses = 1
    MaxTestcases = 2
    PopulationSizes = {1}
    Faults = {}
    EarlyReuse = FALSE
INVARIANT WithinProcessLimit
CHECK_DEADLOCK FALSE
