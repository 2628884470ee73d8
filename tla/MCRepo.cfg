CONSTANTS
    v1 = v1
    v2 = v2
    lower = lower
    mixed = mixed
    Visitor <- MCVisitor
    Spelling <- MCSpelling
    MaxHead = 3
    Nothing = Nothing
    Owners <- MCOwners
    Names <- MCNames
    Others <- MCOthers
SPECIFICATION RepoSpec
CHECK_DEADLOCK FALSE
INVARIANTS
    VisitorsGetNoOlder
    RightRepository
