CONSTANTS
    b1 = b1
    r1 = r1
    r2 = r2
    r3 = r3
    r4 = r4
    c1 = c1
    c2 = c2
    None = None
    Build <- MCBuild
    Run <- Runs4
    Caller <- MCCaller
    Concurrency = 1
    MaxMishaps = 1
    Misfortune <- CrashOrUndeleted
SPECIFICATION VisitorsSpec
CHECK_DEADLOCK FALSE
INVARIANTS
    OneRunPerBuild
PROPERTIES
    ForgottenForACause
    EveryVisitorHears
