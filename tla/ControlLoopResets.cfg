SPECIFICATION FairSpec
CONSTANTS
    MAX_SEMAPHORE_COUNT = 3
    MaxFifoCmds = 3
    MaxPsuCmds = 0
    MaxS0 = 0
    MaxResets = 2
    ScomFaults = FALSE
CHECK_DEADLOCK FALSE
PROPERTY
    ResetServed
