SPECIFICATION Spec
CONSTANTS
    h1 = h1
    h2 = h2
    x = x
    y = y
    Handle <- OneHandle
    Path <- TwoFiles
    Flags <- Writers
    Failing <- OneFile
    Entries = 6
    CellsPerCluster = 2
    Value <- TwoValues
    MaxWrite = 2
    MaxSize = 3
SYMMETRY ValueSymmetry
CHECK_DEADLOCK FALSE
INVARIANTS
    SizeCovered
PROPERTIES
    WritesInPlace
    ImplementsFileStore
