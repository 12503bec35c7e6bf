SPECIFICATION Spec
CONSTANTS
    Units <- ByteUnits
    MaxUpdates = 2
CHECK_DEADLOCK FALSE
PROPERTY
    OtherBitsRetained
