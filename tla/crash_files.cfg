SPECIFICATION FairSpec
CONSTANTS
    segv = segv
    Unknown = Unknown
    None = None
    Kinds <- MCKinds
    Leftovers <- MCLeftovers
    Base = 2
    MaxTestcases = 2
    MaxPerKind = 1
    MaxOutputFailures = 1
INVARIANTS
    TypeOK
    KindsAgree
    LockedComplete
    ShownIsOwn
PROPERTY CrashShown
CHECK_DEADLOCK FALSE
