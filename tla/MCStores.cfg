CONSTANTS
    b1 = b1
    b2 = b2
    s1 = s1
    c1 = c1
    c2 = c2
    BuildId = {b1, b2}
    SessionId = {s1}
    Repo = {"repo"}
    Sha = {"old", "new"}
    Device = {"phone"}
    IP = {"home"}
    Log = {"text", "raw"}
    Caller = {c1, c2}
    MaxClock = 3
    None = None
    Server = {"one", "two", "three"}
    N = 2
    MaxCrashes = 2
SPECIFICATION StoresSpec
CHECK_DEADLOCK FALSE
INVARIANTS
    SameAnswers
PROPERTIES
    AllComeUp
