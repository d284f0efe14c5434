SPECIFICATION FairSpec
CONSTANTS
    t1 = t1
    t2 = t2
    Tasks = {t1}
    Loads = {1, 3}
    MaxTransfer = 2
    DeviceBuf = 4
    Tries = 3
    Cycles = 2
    MayStream = TRUE
    MayBeLate = TRUE
INVARIANTS
    TypeOK
    InStep
    LoadTaken
    AnswerIsGrant
PROPERTIES
    GetReadyEnds
    LoadEnds
CHECK_DEADLOCK FALSE
