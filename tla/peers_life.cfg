CONSTANTS
    a1 = a1
    a2 = a2
    i1 = i1
    i2 = i2
    Addrs = {a1, a2}
    Ids = {i1, i2}
    ReuseIds = FALSE
    Kinds = {"disco", "data"}
    MaxPeers = 2
    MaxEvents = 1
    MaxAsks = 1
    MaxCommands = 1
SPECIFICATION Spec
SYMMETRY Symmetry
INVARIANTS UsageCounts NoDangling NoLeak OnePeerPerAddress OwnerInformed
PROPERTY EventsInOrder
