SPECIFICATION Spec
CONSTANTS
    DevSize = 4
    MinRing = 8
    Align = 2
    BlockSize = 4
    Requests = {2, 6}
    Modes <- DirectModes
    SpiMayFail = TRUE
    SizeMayFail = TRUE
    MaxBytes = 8
    Resizes = 1
    UdpCommands = 0
PROPERTIES
    ImplementsService
CHECK_DEADLOCK FALSE
