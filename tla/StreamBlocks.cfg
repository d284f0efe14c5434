SPECIFICATION FairSpec
CONSTANTS
    BlockSize = 3
    SumLen = 2
    Pipelined = 2
    MaxFrames = 4
INVARIANTS
    TypeOK
    BlocksOrZeros
PROPERTIES
    EveryFrameAnswered
CHECK_DEADLOCK FALSE
