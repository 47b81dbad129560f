SPECIFICATION SharedSpec
CONSTANTS
    Files = {"f"}
    Handles = {h1, h2}
    Clusters = {2, 3, 4, 5}
    StartOf <- OneStart
    B = 2
    Values = {1}
    MaxSize <- OneSize
INVARIANT OperationsDoNotPanic
CHECK_DEADLOCK FALSE
