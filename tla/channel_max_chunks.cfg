CONSTANTS
    MAX_RELIABLE_WINDOW_SIZE = 7
    SEQNUM_INITIAL = 12
    MIN_RELIABLE_WINDOW_SIZE = 2
    START_RELIABLE_WINDOW_SIZE = 4
    MAX_RELIABLE_WINDOW_SIZE_SEND = 4
    WindowSteps = {}
    MaxPacketsRequeued = 2
    ChunkCounts = {1, 6}
    MaxCommands = 2
    MaxPings = 0
    MaxInFlight = 2
    MaxAcksInFlight = 1
SPECIFICATION Spec
INVARIANT NoLoss
CHECK_DEADLOCK FALSE
