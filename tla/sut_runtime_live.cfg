SPECIFICATION FairSpec
CONSTANTS
    p1 = p1
    p2 = p2
    t1 = t1
    Nobody = Nobody
    Fuzzer = Fuzzer
    Procs = {p1, p2}
    Threads = {t1}
    FlushRate = 2
    MaxCalls = 1
    MaxSignals = 1
    Faults = {"crashes", "full", "killed"}
PROPERTY EndsUnlessInterrupted
CHECK_DEADLOCK FALSE
