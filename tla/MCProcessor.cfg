SPECIFICATION ProcessorSpec
CONSTANTS
    MaxProcesses = 3
    U64_MAX = 7
    MIN_PRIORITY_VALUE = 5
    PriorityLevels = {}
    ExitCodes <- Codes
    Sleeps = {}
    MaxTime = 0
    Cpus = {0, 1}
    Tasks = {t1, t2, irq}
    Handler = irq
    Mutexes = {m}
    ReMutexes = {r}
    RwLocks = {w}
    TryLocks = {m, r}
    MASK = 3
    MaxGuards = 2
    MaxLeaks = 1
    Callers = {a, b, c}
    Values = {shutdown, reboot}
    Uninit = uninit
SYMMETRY TaskSymmetry
INVARIANTS
    TypeOK
    ListsConsistent
    
    LocksAreSound
    OnceGetsTheValue
CHECK_DEADLOCK FALSE
