SPECIFICATION Spec
CONSTANTS
    N = 3
    Dist <- RowDist
    Euclid <- DiagonalEuclid
    Stored <- RowStored
    Loaded = {1, 3}
    Hideable = {}
    m_max_simul_sends = 2
    full_d_max = 5
    d_max_gen = 3
    OthersBusy = FALSE
    EditKinds = {"bulk"}
    Verdicts = {"refused"}
    MaxTimes <- ScanTimes
INVARIANT NothingPassed
