SPECIFICATION FairSpec
CONSTANTS
    Drivers = 2
    Rounds = 2
    Retries = 2
    Deadline = 1
    Units = 2
    Overlap = 60
    Failures = 0
INVARIANTS
    OverlapIsEarned
PROPERTIES
    DriverEnds
CHECK_DEADLOCK FALSE
