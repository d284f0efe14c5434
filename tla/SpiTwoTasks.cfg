SPECIFICATION Spec
CONSTANTS
    t1 = t1
    t2 = t2
    Tasks <- TwoTasks
    Loads = {1, 3}
    MaxTransfer = 2
    DeviceBuf = 4
    Tries = 3
    Cycles = 2
    MayStream = FALSE
    MayBeLate = FALSE
SYMMETRY TaskSymmetry
INVARIANTS
    PreparedFirst
CHECK_DEADLOCK FALSE
