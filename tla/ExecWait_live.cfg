SPECIFICATION FairWaitSpec
CHECK_DEADLOCK FALSE
CONSTANTS
    None = None
    Proc = {pInit, p1, p2, p3}
    InitProc = pInit
    TimeSlice = 2
    MaxPid = 4
PROPERTIES
    NoStarvation
    BootCompletes
    WaitsEnd
