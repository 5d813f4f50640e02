SPECIFICATION Spec
CHECK_DEADLOCK FALSE
CONSTANTS
    pInit = pInit
    p1 = p1
    p2 = p2
    p3 = p3
    p4 = p4
    None = None
    Proc <- MCProc
    InitProc <- pInit
    TimeSlice = 2
    MaxPid = 5
SYMMETRY Symmetric
INVARIANTS
    TableIsSound
PROPERTIES
    FreedSafely
    KernelSurvivesUser
    ImplementsLifecycle
