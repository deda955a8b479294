CONSTANTS
    Addrs = {a1}
    Ids = {i1}
    ReuseIds = TRUE
    Kinds = {"data", "disco"}
    MaxPeers = 2
    MaxEvents = 2
    MaxAsks = 0
    MaxCommands = 1
SPECIFICATION Spec
INVARIANT OwnerInformed
