SPECIFICATION Spec
CONSTANTS
    Blocks = {b1, b2}
    OverLimit = {b2}
    Peers = {none, p1}
    PEER_ID_INEXISTENT = none
    NThreads = 2
    qlimit_total = 3
    qlimit_diskonly = 2
    qlimit_generate = 1
    LuaEmerges = FALSE
    CanFail = FALSE
    MaxRequests = 1
INVARIANT CallsRemaining
CHECK_DEADLOCK FALSE
