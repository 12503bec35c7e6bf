SPECIFICATION FairSpec
CONSTANTS
    MAX_SEMAPHORE_COUNT = 3
    MaxFifoCmds = 2
    MaxPsuCmds = 1
    MaxS0 = 0
    MaxResets = 0
    ScomFaults = TRUE
CHECK_DEADLOCK FALSE
INVARIANT
    NoLostWakeup
PROPERTY
    InterfaceReleased
