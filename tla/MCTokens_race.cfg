CONSTANTS
    Requests = {r1, r2}
    Users = {u1, u2}
    Tokens = {t1, t2}
    None = None
    MaxTTL = 2
    TouchInterval = 1
    MaxTime = 1

SPECIFICATION TokensSpec
INVARIANTS RecordsTrue RevocationTakesEffect UsableIndexed ListExact
SYMMETRY Symmetry
