SPECIFICATION Spec
CONSTANTS
    UpDepth = 1
    DownDepth = 2
    HwpFfdcWords = 1
    SendInternalFFDC = TRUE
    ScomFaults = 1
    MaxRegions = 2
    AddrMod = 128
    SizeMod = 64
    FWSecurityEnabled = TRUE
    HostRegions <- MCRegions
    ReqWords = 2
    PbaLines = 2
    SramGranule = 8
    MaxGranules = 2
    PassThroughSize = 32
    Requests <- MCRequests
    RingMaxWords = 3
    TraceRows = 2
    Cores <- TwoCores
INVARIANTS
    TypeOK
    MessageBoundary
    ResponseParses
    LengthTrue
    OkMeansDone
    PayloadInOrder
    InterfaceProtocol
    RamCleanedUp
    WakeupsReleased
PROPERTIES
    RegionsDecided
    Served
