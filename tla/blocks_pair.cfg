SPECIFICATION Spec
CONSTANTS
    N = 2
    Dist <- TwoDist
    Euclid <- TwoDist
    Stored <- TwoStored
    Loaded = {1, 2}
    Hideable = {}
    m_max_simul_sends = 2
    full_d_max = 0
    d_max_gen = 0
    OthersBusy = FALSE
    EditKinds = {"bulk"}
    Verdicts = {"dead", "no_priv", "too_far", "refused", "done"}
    MaxTimes <- PairTimes
INVARIANT BulkUpToDate
