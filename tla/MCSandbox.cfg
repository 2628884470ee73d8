CONSTANTS
    Timeout = 5
    Interval = 1
    CallTimeout = 3
    Outputs <- MCOutputs
    MaxSessions = 2
    MaxInput = 2
    MaxOutput = 1
SPECIFICATION SandboxSpec
CHECK_DEADLOCK FALSE
INVARIANTS
    WaitIsBounded
    ReadyInTimeIsFound
    SuccessIsWhole
    BothWaysInOrder
    ExitIsShown
    StatusTellsCurrent
PROPERTIES
    RelayEnds
