CONSTANTS
    Requests = {r1, r2}
    Slugs = {s1, s2}
    Users = {u1, u2}
    None = None
    MaxAttempts = 2
    MaxTime = 1
    MaxCalls = 2

SPECIFICATION Spec
INVARIANTS ManifestTrue NothingLost
PROPERTIES ImplementsLog
SYMMETRY Symmetry
CHECK_DEADLOCK FALSE
