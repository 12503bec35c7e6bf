SPECIFICATION FairSpec
CONSTANTS
    MAX_SEMAPHORE_COUNT = 3
    MaxFifoCmds = 1
    MaxPsuCmds = 0
    MaxS0 = 1
    MaxResets = 0
    ScomFaults = FALSE
PROPERTY
    S0Served
