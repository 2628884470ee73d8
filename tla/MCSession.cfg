CONSTANTS
    r1 = r1
    r2 = r2
    d1 = d1
    d2 = d2
    i1 = i1
    None = None
    Request <- Requests2
    Device <- Devices2
    IP <- IPs1
    PerDevice = 1
    PerIP = 1
    Global = 2
    TTL = 1
    MaxTTL = 2
    MaxWait = 2
    MaxCrashes = 1
    Overlap = 1
    Stress <- Leaving
SPECIFICATION OrderedSpec
CHECK_DEADLOCK FALSE
INVARIANTS
    LimitsKept
    PromiseKept
PROPERTIES
    WatchedSandboxesGo
    ExtendTakesNoTime
    EverySessionCloses
