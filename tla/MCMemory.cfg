SPECIFICATION MemorySpec
CONSTANTS
    MaxPid = 2
    NumPages = 38
    HeapMax = 2
    KernelMax = 2
    MaxCalls = 2
    SpaceSize = 4
    PhysStarts = {10, 11, 20}
    Sizes = {1, 2}
    MaxEntries = 6
    MaxSpaces = 3
    Layouts <- MixedLayouts
    PageUnits = 8
    MaxPages = 3
    MaxBlocks = 4
    Files <- SomeFiles
    Argvs <- SomeArgvs
    PAGE_4K = 16
    PAGE_2M = 32
    HEAP_OFFSET_FROM_ELF_END = 16
    StackSize = 112
INVARIANTS
    PagesAreRight
    SpacesAreSound
    HeapIsSound
    ProcessStartsRight
PROPERTIES
    DropFreesImageAndHeap
    ImplementsHeap
CHECK_DEADLOCK FALSE
