SPECIFICATION FairSpec
CONSTANTS
    Blocks = {b1}
    OverLimit = {}
    Peers = {none}
    PEER_ID_INEXISTENT = none
    NThreads = 2
    qlimit_total = 3
    qlimit_diskonly = 2
    qlimit_generate = 1
    LuaEmerges = TRUE
    CanFail = FALSE
    MaxRequests = 2
PROPERTY StopFinishes
CHECK_DEADLOCK FALSE
