SPECIFICATION MCSpec
CONSTANTS
    r1 = r1  r2 = r2  r3 = r3
    k1 = k1  k2 = k2  k3 = k3  k4 = k4
    coin1 = coin1  coin2 = coin2
    NoReq = NoReq
    Requests = {r1, r2}
    Carriers = {k1, k2}
    Hot = {r1, r2}
    ReqOf <- MCReqOf
    DuressCarriers <- MCDuress
    ExpiryOf <- SlowExpiry
    Outflow <- MCOutflow
    Inputs <- MCInputs
    HoldSecs = 1
    EpsilonSecs = 1
    CombineSlackSecs = 1
    DuressDelaySecs = 1
    GraceSecs = 1
    MaxCommitmentAgeSecs = 3
    DeliveryHorizonSecs = 1
    HotWindowSecs = 3
    MaxPerWindowSat = 1
    MaxHotReservations = 2
    MaxActiveCandidates = 4
    MaxTime = 5
    MaxWallSteps = 0
    SlowSends = TRUE
    ClockRewinds = FALSE
INVARIANT VelocityBound
CHECK_DEADLOCK FALSE
