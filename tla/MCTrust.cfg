SPECIFICATION Spec
SYMMETRY Alike
CONSTANTS
    Bundles <- MCBundles
    Builtins = {"b1", "b2"}
    IdOf <- MCId
    VersionOf <- MCVersion
    CapsOf <- MCCaps
    DeployIds = {"deploy"}
    NoBundle = "none"
    Specs <- MCSpecs
    Uploads = {u1, u2}
    Reqs = {q1, q2}
    MaxUploads = 2
    MaxRequests = 3
    MaxTrouble = 1
CHECK_DEADLOCK FALSE
INVARIANTS
    Inv
    GrantsExact
PROPERTIES
    ValidatedByTrust
