SPECIFICATION Spec
CONSTANTS
    h1 = h1
    h2 = h2
    x = x
    y = y
    Handle <- TwoHandles
    Path <- Tree
    Flags <- AnyFlags
    Failing <- Tree
    Entries = 6
    CellsPerCluster = 2
    Value = {x}
    MaxWrite = 2
    MaxSize = 3
SYMMETRY HandleSymmetry
CHECK_DEADLOCK FALSE
INVARIANTS
    TreeIsSound
    HandlesFindEntries
