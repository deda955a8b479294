SPECIFICATION FairSpec
CONSTANTS
    N = 3
    Dist <- NearDist
    Euclid <- NearDist
    Stored <- RowStored
    Loaded = {1, 3}
    Hideable = {2}
    m_max_simul_sends = 2
    full_d_max = 2
    d_max_gen = 3
    OthersBusy = FALSE
    EditKinds = {"bulk"}
    Verdicts = {"refused"}
    MaxTimes <- HiddenTimes
PROPERTY AllSent
