SPECIFICATION Spec
CONSTANTS
    N = 3
    Dist <- RowDist
    Euclid <- DiagonalEuclid
    Stored <- BlankStored
    Loaded = {1, 3}
    Hideable = {2}
    m_max_simul_sends = 1
    full_d_max = 5
    d_max_gen = 3
    OthersBusy = TRUE
    EditKinds = {"bulk"}
    Verdicts = {"refused"}
    MaxTimes <- WalkTimes
INVARIANT NothingBehind
