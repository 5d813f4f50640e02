SPECIFICATION Spec
CONSTANTS
    h1 = h1
    h2 = h2
    x = x
    y = y
    Handle <- OneHandle
    Path <- TwoFiles
    Flags <- AnyFlags
    Failing <- OneFile
    Entries = 6
    CellsPerCluster = 2
    Value <- TwoValues
    MaxWrite = 2
    MaxSize = 3
CHECK_DEADLOCK FALSE
PROPERTY OnlyWritersWrite
