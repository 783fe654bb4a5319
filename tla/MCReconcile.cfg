SPECIFICATION SafetySpec
CONSTANTS
    NStages = 8
    Degrading = {}
    None = None
    Services = {a, b}
    Projections = {base, root}
    Powerful = {root}
    Envs = {x}
    HostMode = {}
    Unjoinable <- MCUnjoinable
    SelfExposed = {}
    MaxEdits = 2
    MaxFaults = 1
    MaxListFaults = 0
    MaxRestarts = 0
SYMMETRY ServiceSymmetry
INVARIANTS
    Inv
PROPERTIES
    StartsOnlyApproved
    DataKept
    ParkedUntouched
    CollectsOnlyAbsent
    IdempotentRun
