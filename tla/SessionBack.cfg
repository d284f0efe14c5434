SPECIFICATION Spec
CONSTANTS
    NFds = 3
    Modes <- Transports
INVARIANTS
    AcceptListens
CHECK_DEADLOCK FALSE
