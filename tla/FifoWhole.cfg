SPECIFICATION FairSpec
CONSTANTS
    DevSize = 6
    MinRing = 12
    Align = 2
    BlockSize = 4
    Requests = {2}
    Modes <- BlocksFifo
    SpiMayFail = FALSE
    SizeMayFail = TRUE
    MaxBytes = 12
    Resizes = 0
    UdpCommands = 0
INVARIANTS
    CountSound
    WriteInBounds
PROPERTIES
    EventConsumed
CHECK_DEADLOCK FALSE
