SPECIFICATION Spec
CONSTANTS
    Drivers = 2
    Rounds = 2
    Retries = 1
    Deadline = 1
    Units = 1
    Overlap = 0
    Failures = 1
INVARIANTS OneFreshArray
PROPERTIES GivenUpIsOverdue
CHECK_DEADLOCK FALSE
