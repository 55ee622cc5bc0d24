SPECIFICATION Spec
CONSTANTS
    StringLimit = 2
    SourceCommit = TRUE
    Atom = {"protected", "branch", "opaque", "approval"}
    Node <- Numbers
    Value <- Values
    Join <- JoinAssign
    Bottom <- Default
    Programs <- Plain
    Requests <- MCRequests
INVARIANTS
    FixpointReached
    ProvedIsSafe
    AuthorizationProvedIsGated
    CyclesAreReported
    TaintIsSeen
    RepositoryCannotWeaken
    SuppressionsExpire
    StrictPassSawAll
PROPERTY WorkListEmpties
CHECK_DEADLOCK FALSE
