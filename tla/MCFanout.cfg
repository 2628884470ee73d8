CONSTANTS
    s1 = s1
    s2 = s2
    a = a
    b = b
    Subscribers <- MCSubscribers
    Event <- MCEvent
    OutCap = 1
    MaxEvents = 2
    Logs <- MCLogs
    Capacity = 3
SPECIFICATION StreamsSpec
CHECK_DEADLOCK FALSE
INVARIANTS
    WholeStory
PROPERTIES
    ImplementsStream
    ReplayEnds
