CONSTANTS
    Clients = {c1,c2}
    Slugs = {s1}
    Contents = {1, 2}
    None = None
    Modes <- AllModes
    MaxRetries = 1
    HeadFaults = TRUE
    MaxUploads = 3
SPECIFICATION FairSpec
PROPERTIES ReadUpdatesNotBlind LoneCreateReplacesNothing Answered
