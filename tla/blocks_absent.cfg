SPECIFICATION FairSpec
CONSTANTS
    N = 3
    Dist <- RowDist
    Euclid <- RowDist
    Stored <- RowStored
    Loaded = {1, 3}
    Hideable = {}
    m_max_simul_sends = 2
    full_d_max = 5
    d_max_gen = 1
    OthersBusy = FALSE
    EditKinds = {"bulk"}
    Verdicts = {"refused"}
    MaxTimes <- LiveTimes
PROPERTY AllSent
