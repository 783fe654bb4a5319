SPECIFICATION StoresSpec
CONSTANTS
    Plugins = {p1}
    Plans = {a1}
    Requests = {anna, ben}
    Interval = 3
    MaxEntries = 4
    MaxRotations = 2
    MaxImports = 1
    MaxFailed = 1
    MaxTorn = 1
    MaxCrashes = 1
    term1 = term1
    term2 = term2
    anna = anna
    ben = ben
    NoUser = NoUser
    Terminals <- MCTerminals
    Browsers <- MCBrowsers
    Secrets = 2
    MaxPolls = 2
    TokenTtl = 1
    SessionTtl = 1
    Window = 1
    MaxAttempts = 2
    MaxRuns = 2
    MaxTime = 2
    MaxSessions = 2
    MaxSeeds = 1
    p1 = p1
    p2 = p2
    p3 = p3
    r1 = r1
    r2 = r2
    r3 = r3
    PluginIds <- MCPlugins
    Roles <- MCRoles
    NoPlugin = none
    Setting = setting
    MaxDeps = 3
    MaxFaults = 1
SYMMETRY StoresSymmetry
CONSTRAINT Few
CHECK_DEADLOCK FALSE
INVARIANTS
    ChainUnbroken
    DamageBounded
    CustodyMatches
    RecordsVerify
    FirstRunInv
    LimiterFair
    CycleExact
    VerdictExact
PROPERTIES
    TrustsUnderCurrent
    PasswordSettles
    SessionsEarned
