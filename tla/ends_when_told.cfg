SPECIFICATION FairSpec
CONSTANTS
    p1 = p1
    t1 = t1
    Nobody = Nobody
    Fuzzer = Fuzzer
    Procs = {p1}
    Threads = {t1}
    FlushRate = 2
    MaxCalls = 1
    MaxSignals = 1
    Faults = {}
PROPERTY EndsWhenTold
CHECK_DEADLOCK FALSE
