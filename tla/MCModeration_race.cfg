CONSTANTS
    Requests = {r1, r2}
    p1 = p1
    p2 = p2
    f1 = f1
    f2 = f2
    Files <- SomeFiles
    Prompts <- SomePrompts
    Blocks <- SomeBlocks
    Skipped <- NoFile
    None = None
    TTL = 1
    Latency = 1
    MaxTime = 4
    FailOpen = FALSE
SYMMETRY Symmetry
SPECIFICATION Spec
INVARIANTS StoredWasAllowed CacheSoundUnlessSwapped GuidanceInTime FlagsTrue
