CONSTANTS
    Uploads = {r1, r2}
    Readers = {d1}
    Slugs = {s1}
    dir = dir
    slash = slash
    wide = wide
    Zips <- SomeZips
    None = None
    Names <- SomeNames
    Banned <- SomeBanned
    Forbidden <- NoParts
    MaxFiles = 2
SYMMETRY Symmetry
SPECIFICATION Spec
INVARIANTS PromisedPagesStored UntornSiteWhole PagesSound NotFoundIsTrue
PROPERTY LoneUploadReplacesAsAsked
