SPECIFICATION IssueSpec
CONSTANTS
    www = www
    dkim = dkim
    Foreign <- MCForeign
    Opaque <- MCOpaque
    MaxIssues = 2
    Auths = 2
    MaxEdits = 1
    MaxBlanks = 1
INVARIANT ForeignKept
CHECK_DEADLOCK FALSE
