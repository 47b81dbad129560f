SPECIFICATION DevicesSpec
CONSTANTS
    NANOS_PER_SEC = 11
    TicksPerSec = 5
    PitSize = 8
    CyclesPerTick = 3
    NS_SCALE = 16
    SleepNanos = 4
    ApicPeriod = 3
    StartTimes = {1, 4}
    MaxNow = 40
    Dates <- SomeDates
    MaxUpdates = 2
    Drives = {"hd", "cd"}
    Type <- DriveTypes
    Sectors <- DriveSizes
    MaxChunk = 2
    LbaSize = 4
    MaxRequests = 2
    MaxLength = 3
    StaticSize = 3
    Pieces = 2
    MaxEvents = 5
    Scancodes <- SomeKeys
    Mice = {0, 4}
    Movements <- SomeMovements
    Received = {13}
    BufferSize = 1
    MaxActions = 3
    TextWidth = 2
    TextHeight = 2
    Outputs <- SomeWrites
    MaxWrites = 5
    Processes = {1, 2}
    ScreenWidth = 5
    ScreenHeight = 7
    CharWidth = 2
    LineHeight = 2
    Text = {"a", "b", "newline", "return", "backspace"}
    Regions <- SomeRegions
    MaxSteps = 6
    Machines <- SomeMachines
INVARIANTS
    RtcIsRight
    IdeMovesItsSectors
    LogIsComplete
    
    
    VectorsAreRight
PROPERTIES
    ClockIsRight
CHECK_DEADLOCK FALSE
