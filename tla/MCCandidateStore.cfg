SPECIFICATION MCSpec
CONSTANTS
    r1 = r1  r2 = r2  r3 = r3
    k1 = k1  k2 = k2  k3 = k3  k4 = k4
    coin1 = coin1  coin2 = coin2
    NoReq = NoReq
    Requests = {r1, r2, r3}
    Carriers = {k1, k2, k3, k4}
    Hot = {r1, r2, r3}
    ReqOf <- MCReqOf
    DuressCarriers <- MCDuress
    ExpiryOf <- MCExpiry
    Outflow <- MCOutflow
    Inputs <- MCInputs
    HoldSecs = 1
    EpsilonSecs = 1
    CombineSlackSecs = 1
    DuressDelaySecs = 1
    GraceSecs = 1
    MaxCommitmentAgeSecs = 2
    DeliveryHorizonSecs = 1
    HotWindowSecs = 2
    MaxPerWindowSat = 1
    MaxHotReservations = 2
    MaxActiveCandidates = 4
    MaxTime = 4
    MaxWallSteps = 1
    SlowSends = FALSE
    ClockRewinds = FALSE
INVARIANT CandidateInv
INVARIANT VelocityBound
PROPERTY ArmedStaysArmed
PROPERTY HotStaysMetered
CHECK_DEADLOCK FALSE
