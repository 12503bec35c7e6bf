SPECIFICATION Spec
CONSTANTS
    None = None
    Fused = TRUE
    ShortTimer = FALSE
    MaxCmds = 3
    MaxHresets = 0
CHECK_DEADLOCK FALSE
PROPERTY
    DoorbellMeansStop15
