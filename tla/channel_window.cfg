CONSTANTS
    MAX_RELIABLE_WINDOW_SIZE = 7
    SEQNUM_INITIAL = 12
    MIN_RELIABLE_WINDOW_SIZE = 1
    START_RELIABLE_WINDOW_SIZE = 2
    MAX_RELIABLE_WINDOW_SIZE_SEND = 2
    WindowSteps <- MCWindowSteps
    MaxPacketsRequeued = 1
    ChunkCounts = {2}
    MaxCommands = 6
    MaxPings = 1
    MaxInFlight = 2
    MaxAcksInFlight = 1
SPECIFICATION Spec
INVARIANTS TypeOK InOrder NoLoss AckedIsHeld SpreadOK
CHECK_DEADLOCK FALSE
