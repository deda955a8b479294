SPECIFICATION FairSpec
CONSTANTS
    Blocks = {b1, b2}
    OverLimit = {}
    Peers = {none}
    PEER_ID_INEXISTENT = none
    NThreads = 2
    qlimit_total = 3
    qlimit_diskonly = 2
    qlimit_generate = 1
    LuaEmerges = FALSE
    CanFail = FALSE
    MaxRequests = 1
INVARIANT CallsRemaining
PROPERTY AllCalledBack
PROPERTY StopFinishes
CHECK_DEADLOCK FALSE
