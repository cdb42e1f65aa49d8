SPECIFICATION Spec
CONSTANTS
    p1 = p1
    p2 = p2
    NoPid = NoPid
    Pids = {p1, p2}
    MaxProcesses = 1
    MaxTestcases = 2
    PopulationSizes = {1, 2}
    Faults = {"forkfails", "silent", "stops", "throws"}
    EarlyReuse = TRUE
SYMMETRY PidSymmetry
INVARIANTS
    KnowledgeExclusive
    IndInv
    EachOnce
PROPERTY LedgerSpec
CHECK_DEADLOCK FALSE
