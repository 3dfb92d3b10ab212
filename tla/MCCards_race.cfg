CONSTANTS
    Requests = {r1, r2, r3}
    Images = {x1, x2}
    Versions = {v1, v2}
    None = None
SYMMETRY Symmetry
SPECIFICATION Spec
INVARIANTS CardHasImage NothingLeft MissingIsTrue
