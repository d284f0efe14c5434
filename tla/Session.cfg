SPECIFICATION FairSpec
CONSTANTS
    NFds = 3
    Modes <- Transports
INVARIANTS
    TypeOK
    OneStreamSocket
    ClosesItsOwn
PROPERTIES
    RestartTaken
CHECK_DEADLOCK FALSE
