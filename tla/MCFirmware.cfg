SPECIFICATION Spec
CONSTANTS
    IdSegs = {309}
    UNKW = 320
    MaxPolls = 2
    PAGE_4K = 4
    EXTENDED_OFFSET = 8
    KERNEL_END = 32
    BarWidth = 8
    Buses = 2
    Devs = 2
    Funcs = 2
    MaxDrives = 4
    Fat12Max = 10
    Fat16Max = 15
    DefaultIo <- LegacyPorts
INVARIANTS
    
    
    SleepsAsDeclared
    InfoIsRight
    FirstPagesAreRight
    ProbeIsRight

    
CHECK_DEADLOCK FALSE
