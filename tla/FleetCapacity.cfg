SPECIFICATION FairSpec
CONSTANTS
    NStages = 2
    MaxWaves = 1
    MaxVms = 2
    MaxUnits = 2
    SubmitRetries = 1
    Outage = FALSE
    CensusLag = FALSE
    StoreFails = FALSE
INVARIANTS
    TypeOK
    SafetyC
    ChargeCoversRunning
PROPERTIES
    ImplementsPool
    StrandedIsSettled
