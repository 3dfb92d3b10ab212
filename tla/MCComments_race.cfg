CONSTANTS
    Requests = {r1, r2}
    Users = {u1, u2}
    Texts = {t1}
    Ids = {i1, i2, i3}
    Pages = {p1}
    File = File
    None = None
    MaxUploads = 2
    MaxWork = 5
SYMMETRY Symmetry
SPECIFICATION Spec
INVARIANTS RecordsTrue RepliesFlat LiveCommentsListed ActivityPersisted
PROPERTY ImplementsBoard
CHECK_DEADLOCK FALSE
