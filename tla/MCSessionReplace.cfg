CONSTANTS
    r1 = r1
    r2 = r2
    d1 = d1
    d2 = d2
    i1 = i1
    None = None
    Request <- Requests2
    Device <- Devices1
    IP <- IPs1
    PerDevice = 1
    PerIP = 2
    Global = 2
    TTL = 1
    MaxTTL = 2
    MaxWait = 1
    MaxCrashes = 0
    Overlap = 1
    Stress <- Replace
SPECIFICATION Spec
CHECK_DEADLOCK FALSE
PROPERTY EndedIsFinal
