SPECIFICATION FairSpec
CONSTANTS
    MaxProcesses = 2
    U64_MAX = 9
    MIN_PRIORITY_VALUE = 5
    PriorityLevels = {1}
    ExitCodes = {1}
    Sleeps = {1}
    MaxTime = 1
INVARIANTS
    CliBalanced
    NoUnderflow
PROPERTIES
    NoHog
    DeadStayDead
    NoStarvation
    ShutdownCompletes
CHECK_DEADLOCK FALSE
