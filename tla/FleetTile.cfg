SPECIFICATION Spec
CONSTANTS
    Tile = {t1}
    FleetUnits = 1
    Scenes = 1
    Bands = 1
    OverlapAt = 1
    Rounds = 2
    MaxWaves = 3
    ListingFails = FALSE
    RecordFails = FALSE
INVARIANTS
    TypeOK
    RoundBudget
PROPERTIES
    OnlyStrandedWorkIsRepeated
CHECK_DEADLOCK FALSE
