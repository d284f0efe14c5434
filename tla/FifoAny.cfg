SPECIFICATION Spec
CONSTANTS
    DevSize = 2
    MinRing = 6
    Align = 2
    BlockSize = 6
    Requests = {4}
    Modes <- MixedModes
    SpiMayFail = TRUE
    SizeMayFail = FALSE
    MaxBytes = 10
    Resizes = 0
    UdpCommands = 1
INVARIANTS
    TypeOK
    AnswerMatchesGrant
    PointsStayWhole
    WriteInBounds
    CountSound
    
VIEW Control
CHECK_DEADLOCK FALSE
