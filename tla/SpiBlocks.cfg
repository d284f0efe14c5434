SPECIFICATION FairSpec
CONSTANTS
    BlockSizes = {2, 3}
    Loads = {1, 2, 5}
    SpiMayFail = TRUE
    MaxBytes = 7
INVARIANTS
    TypeOK
    BlockFits
    KeepsOrder
PROPERTIES
    CallEnds
CHECK_DEADLOCK FALSE
