SPECIFICATION FileSystemSpec
CONSTANTS
    Files <- Two
    Handles = {h1, h2}
    Clusters = {2, 3, 4, 5}
    StartOf <- TwoStarts
    B = 2
    Values = {1}
    MaxSize <- TwoSizes
    EntryNames <- FourNames
    LongOf <- LongEntries
    ShortOf <- ShortNames
    Plain <- PlainNames
    OneDigit = 9
    Slots = 9
    DirClusters = {1, 2, 3}
    Layouts <- Mixed
    Directories = {"b"}
    Names = {"a", "f", "m"}
    Empty = Empty
    Content <- TwoFileSystems
    MountArgs <- Args
    MaxPath = 3
    PathNames = {"a", "b"}
    MaxTokens = 5
    MaxPrefix = 3
    TableSector = 8
    TableSectors = 4
    TableClusters = {2, 3, 4, 5, 6}
    TableLinks = {2, 291, 4086, 65526}
    MaxTableWrites = 3
SYMMETRY HandleSymmetry
INVARIANTS
    
    TableIsRight
    
    
CHECK_DEADLOCK FALSE
