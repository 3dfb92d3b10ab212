CONSTANTS
    Clients = {c1}
    Slugs = {s1}
    Contents = {1, 2}
    None = None
    Modes <- AllModes
    MaxRetries = 1
    HeadFaults = TRUE
    MaxUploads = 3
SYMMETRY Symmetry
SPECIFICATION Spec
PROPERTY CreateNeverReplaces
