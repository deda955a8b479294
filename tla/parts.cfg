CONSTANTS
    Parts = {"peers", "timers", "map", "split", "objects"}

    a1 = a1
    i1 = i1
    i2 = i2
    Addrs = {a1}
    Ids = {i1, i2}
    ReuseIds = FALSE
    Kinds = {"ping", "disco", "data"}
    MaxPeers = 1
    MaxEvents = 1
    MaxAsks = 1
    MaxCommands = 1

    Positions = {1, 2}
    Settings <- Settled
    Steps = {1, 2}
    MaxTime = 2

    MaxId = 3
    o1 = o1
    o2 = o2
    Objects = {o1, o2}
    NoObject = NoObject
    GC_MIN_SIZE = 2
    MaxIterations = 2
    MaxGarbage = 3

    SplitNumbers = 2
    ChunkCounts = {1, 2}
    MaxMessages = 3
    MaxTries = 1

    e1 = e1
    b1 = b1
    b2 = b2
    v1 = v1
    v2 = v2
    NoBlock = NoBlock
    Entities = {e1}
    SaoIds = {1, 2}
    MapBlocks = {b1, b2}
    Viewers = {v1, v2}
    UnloadRaces = FALSE
    MaxMoves = 1
SPECIFICATION FairPartsSpec
INVARIANTS Reassembled KnownExact EachOnce
PROPERTIES TimersAreSet SafeToModify AskedIsFreed
CHECK_DEADLOCK FALSE
