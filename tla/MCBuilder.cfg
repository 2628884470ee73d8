CONSTANTS
    b1 = b1
    b2 = b2
    r1 = r1
    r2 = r2
    c1 = c1
    c2 = c2
    None = None
    Build <- MCBuild
    Run <- MCRun
    Caller <- MCCaller
    Concurrency = 1
    MaxMishaps = 1
    Misfortune <- AllMisfortunes
SPECIFICATION FairSpec
CHECK_DEADLOCK FALSE
INVARIANTS
    ReadyIsRestorable
    OrphansHaveACause
    CallersActOnOutcomes
PROPERTIES
    OutcomesAreFinal
    EveryCallerHears
