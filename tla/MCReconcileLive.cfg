SPECIFICATION Spec
CONSTANTS
    NStages = 8
    Degrading <- MCDegrading
    None = None
    Services = {a}
    Projections = {base, root, host}
    Powerful = {root, host}
    Envs = {x}
    HostMode = {host}
    Unjoinable <- MCUnjoinable
    SelfExposed = {}
    MaxEdits = 1
    MaxFaults = 1
    MaxListFaults = 1
    MaxRestarts = 1
PROPERTIES
    Convergence
