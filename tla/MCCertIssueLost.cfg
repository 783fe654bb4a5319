SPECIFICATION IssueSpec
CONSTANTS
    www = www
    dkim = dkim
    Foreign <- MCForeign
    Opaque <- MCOpaque
    MaxIssues = 2
    Auths = 2
    MaxEdits = 0
    MaxBlanks = 0
INVARIANT DeleteAttempted
CHECK_DEADLOCK FALSE
