SPECIFICATION FairLockSpec
CONSTANTS
    Kernel = {init, loader}
    User = {app1, app2}
PROPERTY
    SchedulerKeepsBeingCalled
