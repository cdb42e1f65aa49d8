SPECIFICATION Spec
CONSTANTS
    p1 = p1
    t1 = t1
    t2 = t2
    Nobody = Nobody
    Fuzzer = Fuzzer
    Procs = {p1}
    Threads = {t1, t2}
    FlushRate = 2
    MaxCalls = 2
    MaxSignals = 2
    Faults = {"crashes", "full", "killed"}
SYMMETRY RuntimeSymmetry
INVARIANTS
    TypeOK
    FlushedInOrder
    OutcomeTold
    LeftLockedByOther
CHECK_DEADLOCK FALSE
