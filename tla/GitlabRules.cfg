SPECIFICATION Spec
CONSTANTS
    StringLimit = 2
    SourceCommit = TRUE
    Atom = {"protected", "branch", "opaque", "approval"}
    Node <- Numbers
    Value <- Values
    Join <- JoinAssign
    Bottom <- Default
    Programs <- Alternatives
    Requests <- MCRequests
INVARIANT AuthorizationProvedIsGated
CHECK_DEADLOCK FALSE
