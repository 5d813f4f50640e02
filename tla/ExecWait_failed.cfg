SPECIFICATION FairWaitSpec
CHECK_DEADLOCK FALSE
CONSTANTS
    None = None
    Proc = {pInit, p1, p2, p3}
    InitProc = pInit
    TimeSlice = 1
    MaxPid = 5
PROPERTY
    WaitForProcExit
