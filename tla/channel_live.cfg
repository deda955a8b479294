CONSTANTS
    MAX_RELIABLE_WINDOW_SIZE = 7
    SEQNUM_INITIAL = 12
    MIN_RELIABLE_WINDOW_SIZE = 2
    START_RELIABLE_WINDOW_SIZE = 2
    MAX_RELIABLE_WINDOW_SIZE_SEND = 4
    WindowSteps = {2}
    MaxPacketsRequeued = 1
    ChunkCounts = {1, 3}
    MaxCommands = 2
    MaxPings = 0
    MaxInFlight = 1
    MaxAcksInFlight = 1
SPECIFICATION FairSpec
INVARIANT CommandOrder
PROPERTIES ImplementsFifo ForcedDelivery EventuallyIdle
CHECK_DEADLOCK FALSE
