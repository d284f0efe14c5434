SPECIFICATION Spec
CONSTANTS
    DevSize = 6
    MinRing = 12
    Align = 2
    BlockSize = 2
    Requests = {2}
    Modes <- BlockFifo
    SpiMayFail = FALSE
    SizeMayFail = FALSE
    MaxBytes = 12
    Resizes = 0
    UdpCommands = 0
INVARIANTS
    SentIsData
CHECK_DEADLOCK FALSE
