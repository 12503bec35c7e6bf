SPECIFICATION FairSpec
CONSTANTS
    None = None
    Fused = FALSE
    ShortTimer = FALSE
    MaxCmds = 3
    MaxHresets = 1
CHECK_DEADLOCK FALSE
INVARIANTS
    TypeOK
    QuiescedIsStill
    DeadmanArmed
PROPERTIES
    TransitionsMapped
    DoorbellMeansStop15
    DmtEnds
    ProcessorReturns
