SPECIFICATION Spec
CONSTANTS
    N = 1
    Dist <- OneDist
    Euclid <- OneDist
    Stored <- OneStored
    Loaded = {1}
    Hideable = {}
    m_max_simul_sends = 1
    full_d_max = 0
    d_max_gen = 0
    OthersBusy = FALSE
    EditKinds = {"meta", "unmeta"}
    Verdicts = {"refused"}
    MaxTimes <- RaceTimes
INVARIANT Announced
