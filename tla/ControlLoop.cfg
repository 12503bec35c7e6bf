SPECIFICATION FairSpec
CONSTANTS
    MAX_SEMAPHORE_COUNT = 3
    MaxFifoCmds = 2
    MaxPsuCmds = 1
    MaxS0 = 1
    MaxResets = 0
    ScomFaults = FALSE
INVARIANTS
    TypeOK
    NoUnexpectedInterrupt
    SemaphoresBounded
    OwnedIsMasked
    FifoExclusive
    FifoResponseMatches
    PsuResponseMatches
PROPERTIES
    ImplementsService
