SPECIFICATION Spec
CONSTANTS
    Plugins = {p1}
    Plans = {a1}
    Requests = {r1, r2}
    Interval = 3
    MaxEntries = 3
    MaxRotations = 0
    MaxImports = 0
    MaxFailed = 0
    MaxTorn = 1
    MaxCrashes = 1
SYMMETRY RequestSymmetry
CHECK_DEADLOCK FALSE
INVARIANTS
    LandedKept
