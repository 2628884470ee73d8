CONSTANTS
    None = None
    Malformed = Malformed
    Repos <- MCRepos
    Replies <- MCReplies
    Fixes <- MCFixes
    Assignments <- MCAssignments
    ForbiddenWords <- MCForbidden
    MalformedKeys = {"A B"}
    MaxInstall = 3
    MaxRepairs = 2
SPECIFICATION Spec
CHECK_DEADLOCK FALSE
INVARIANTS
    OnlyCheckedCommandsRun
    StartFitsTheRepo
