SPECIFICATION Spec
CONSTANTS
    Blocks = {b1, b2}
    OverLimit = {b2}
    Peers = {none, p1}
    PEER_ID_INEXISTENT = none
    NThreads = 2
    qlimit_total = 2
    qlimit_diskonly = 1
    qlimit_generate = 1
    LuaEmerges = TRUE
    CanFail = TRUE
    MaxRequests = 1
INVARIANT QueuesAgree
INVARIANT CountsExact
INVARIANT PeerLimits
INVARIANT StateAlive
INVARIANT NoLostWakeup
CHECK_DEADLOCK FALSE
