CONSTANTS
    Clients = {c1,c2}
    Slugs = {s1}
    Contents = {1, 2, 3}
    None = None
    Modes <- AllModes
    MaxRetries = 1
    HeadFaults = TRUE
    MaxUploads = 3
SYMMETRY Symmetry
SPECIFICATION Spec
PROPERTY NoBlindReplace
