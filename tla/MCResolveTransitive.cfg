CONSTANTS
    p1 = p1
    p2 = p2
    p3 = p3
    r1 = r1
    r2 = r2
    r3 = r3
    PluginIds <- MCPlugins
    Roles <- MCRoles
    NoPlugin = none
    Setting = setting
    MaxDeps = 2
    MaxFaults = 0
SPECIFICATION DocumentSpec
CHECK_DEADLOCK FALSE
INVARIANT TransitivelySatisfied
