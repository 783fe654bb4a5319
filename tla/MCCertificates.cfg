SPECIFICATION CertificatesSpec
CONSTANTS
    NameSets = {n1, n2}
    None = None
    Retained = 3
    Lifetime = 5
    RenewWithin = 2
    EscalateWithin = 1
    Backoff <- MCBackoff
    Pace = 2
    Longest = 2
    MaxStores = 4
    MaxFaults = 1
    MaxCrashes = 1
    MaxTorn = 1
    MaxRollbacks = 1
    MaxChanges = 1
    www = www
    dkim = dkim
    Foreign <- MCForeign
    Opaque <- MCOpaque
    MaxIssues = 2
    Auths = 2
    MaxEdits = 1
    MaxBlanks = 1
    Width = 3
    Docs <- MCDocs
    NoDoc = NoDoc
    Owners = {proxy, other}
    ProxyOwner = proxy
    Anon = Anon
    Free = Free
    CallIds = {c1, c2}
    NoCall = NoCall
    NoNet = NoNet
    MaxCalls = 2
    MaxUpsets = 1
CHECK_DEADLOCK FALSE
INVARIANTS
    PointerWhole
    ReloadFindsCert
    InTime
    Inv
    IssueOrder
    CleanedUp
    ForeignSafe
    HostsExact
    Table
PROPERTIES
    NoReissue
    ServesCurrent
    IssuanceEnds
