CONSTANTS
    None = None
    MaxSessions = 2
    MaxVisits = 2
    Built = {2}
    Web = {1}
    Lines = 3
    MaxLogLines = 2
    Retries = 1
    MaxFaults = 1
    Stores = {"postgres", "memory"}
SPECIFICATION FairSpec
CHECK_DEADLOCK FALSE
INVARIANTS
    OwnStory
    
    RestartIsFresh
PROPERTIES
    SetupSettles
    EndIsShown
