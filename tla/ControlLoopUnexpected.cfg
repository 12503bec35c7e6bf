SPECIFICATION Spec
CONSTANTS
    MAX_SEMAPHORE_COUNT = 3
    MaxFifoCmds = 2
    MaxPsuCmds = 0
    MaxS0 = 0
    MaxResets = 1
    ScomFaults = FALSE
CHECK_DEADLOCK FALSE
INVARIANT
    NoUnexpectedInterrupt
