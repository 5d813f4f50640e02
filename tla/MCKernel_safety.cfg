SPECIFICATION MCSpec
CONSTANTS
    init = init
    loader = loader
    app1 = app1
    app2 = app2
    Kernel <- MCKernelThreads
    User <- MCUserThreads
    HeapStart = 100
    HeapSize = 116
    Header = 12
    PageSize = 16
    Word = 4
    Request <- MCRequest
    Pages <- MCPageCounts
    Proc = {p0, p1, p2, p3, p4}
    None = None
    InitProc = p0
    Tasks = {a, b, c}
    HeapPages = {1, 2, 3, 4, 5, 6}
    ImagePages = {4, 12}
    KernelBlocks = 2
    Layouts <- MCLayouts
    WordValues = 16
    Reserved = 8
    Files <- MCFiles
    HeaderSize = 1
    MetadataSize = 2
    StackSize = 64
    Arguments <- MCArguments
    Subjects <- MCSubjects
    NameSize = 5
    Wanted <- MCWanted
    Aliases <- MCAliases
CHECK_DEADLOCK FALSE
INVARIANTS
    LockIsSound
    HeapIsSound
    ListIsSound
    SpacesAreSound
    LoadsSoundly
    ImagesAreRight
PROPERTY
    OthersUntouched
