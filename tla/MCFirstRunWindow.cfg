SPECIFICATION FirstRunSpec
CONSTANTS
    term1 = term1
    term2 = term2
    anna = anna
    ben = ben
    NoUser = NoUser
    Terminals <- MCTerminals
    Browsers <- MCBrowsers
    Secrets = 2
    MaxPolls = 2
    TokenTtl = 1
    SessionTtl = 1
    Window = 1
    MaxAttempts = 2
    MaxRuns = 2
    MaxTime = 2
    MaxSessions = 2
    MaxSeeds = 1
CHECK_DEADLOCK FALSE
SYMMETRY Alike
INVARIANT SlidingWindow
