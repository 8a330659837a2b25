SPECIFICATION FairSpec
CONSTANTS
    Tile = {t1}
    FleetUnits = 1
    Scenes = 1
    Bands = 1
    OverlapAt = 1
    Rounds = 1
    MaxWaves = 3
    ListingFails = FALSE
    RecordFails = FALSE
PROPERTIES
    RunEnds
CHECK_DEADLOCK FALSE
