SPECIFICATION Spec
CONSTANTS
    NStages = 1
    MaxWaves = 2
    MaxVms = 1
    MaxUnits = 1
    SubmitRetries = 1
    Outage = TRUE
    CensusLag = TRUE
    StoreFails = FALSE
INVARIANTS
    RecordedBeforeStarted
PROPERTIES
    NameIsFree
    ReleaseIsEarned
