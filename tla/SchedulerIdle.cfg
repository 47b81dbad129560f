SPECIFICATION Spec
CONSTANTS
    MaxProcesses = 2
    U64_MAX = 7
    MIN_PRIORITY_VALUE = 5
    PriorityLevels = {}
    ExitCodes = {}
    Sleeps = {1}
    MaxTime = 2
INVARIANTS
    IdleWaitsForInterrupts
CHECK_DEADLOCK FALSE
