CONSTANTS
    e1 = e1
    b1 = b1
    b2 = b2
    v1 = v1
    NoBlock = NoBlock
    Entities = {e1}
    SaoIds = {1, 2}
    MapBlocks = {b1, b2}
    Viewers = {v1}
    UnloadRaces = FALSE
    MaxMoves = 1
INIT InitActiveObjects
NEXT NextActiveObjects
INVARIANT RemovedForGood
