SPECIFICATION Spec
CONSTANTS
    Cpus = {0}
    Tasks = {t1, t2, irq}
    Handler = irq
    Mutexes = {}
    ReMutexes = {}
    RwLocks = {w}
    TryLocks = {}
    MASK = 3
    MaxGuards = 2
    MaxLeaks = 0
INVARIANTS
    NoSelfDeadlockOnRead
CHECK_DEADLOCK FALSE
