SPECIFICATION Spec
CONSTANTS
    Worker = {w1, w2, w3}
    SceneSet = {S1, S2}
    None = None
    FleetUnits = 3
    RefShards = 3
    SceneShards = 2
    Bands = 2
    Rounds = 2
    Repeats = FALSE
INVARIANTS
    TypeOK
    OneSceneSet
    FrozenTogether
    LastBandIsClaimed
PROPERTIES
    AsksForOwedBlocks
CHECK_DEADLOCK FALSE
