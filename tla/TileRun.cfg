SPECIFICATION Spec
CONSTANTS
    Retries = 1
    SceneSet = {s1, s2}
    None = None
    Forced = FALSE
    Caching = TRUE
    BucketFails = TRUE
    ListingFails = FALSE
    Watching = TRUE
INVARIANTS
    TypeOK
    CogsMatch
    OffsetsBelong
    DoneMeansCogs
    PointerIsAVerdict
    CachedIsOfItsSecond
    NothingIsStuck
PROPERTIES
    EvidenceIsKept
    ManifestOnlyGrows
CHECK_DEADLOCK FALSE
