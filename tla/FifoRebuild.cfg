SPECIFICATION FairSpec
CONSTANTS
    DevSize = 6
    MinRing = 12
    Align = 2
    BlockSize = 2
    Requests = {2}
    Modes <- BlockFifo
    SpiMayFail = FALSE
    SizeMayFail = FALSE
    MaxBytes = 4
    Resizes = 1
    UdpCommands = 0
PROPERTIES
    EventConsumed
CHECK_DEADLOCK FALSE
