SPECIFICATION Spec
CONSTANTS
    Pids = {0, 1}
    Pipes = {q}
    Newline = 10
    Bytes = {10, 65}
    SpawnMappings <- Pipelines
    MaxFd = 4
    UserFds = {0, 3, 4}
    SetModes = {"Line", "None"}
    MaxSent = 2
INVARIANTS
    HandlesAreRight
    
PROPERTIES
    EofIsFinal
    
CHECK_DEADLOCK FALSE
