SPECIFICATION Spec
CONSTANTS
    MaxProcesses = 2
    U64_MAX = 7
    MIN_PRIORITY_VALUE = 5
    PriorityLevels = {}
    ExitCodes = {0}
    Sleeps = {}
    MaxTime = 0
INVARIANTS
    WaitsForExisting
CHECK_DEADLOCK FALSE
