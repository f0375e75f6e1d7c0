SPECIFICATION MCSpec
CONSTANTS
    Nonces = {n1, n2, n3}
    MalformedNonces = {bad}
    MaxAge = 2
    MaxCoordNonces = 2
    ChannelMode = TRUE
    U64Max = 4
    MaxAttempts = 3
    Window = 3
    Backoff <- MCBackoff
    Lockout = 4
    ClockMax = 8
    HotSpends = {"s1"}
    EscapeSpends = {"s2"}
    Refreshes = {"r1", "r2"}
    Coins = {"c0", "c1", "c2"}
    Inputs <- MCInputs
    Outputs <- MCOutputs
    Expiry <- MCExpiry
    Submissions <- MCSubmissions
    SpendHandlers = {h1, h2}
    RefreshHandlers = {h3}
    CommitmentAge = 2
    RefreshInterval = 1
    LastReading = 3
    AmountMax = 30
    MaxFeePercent = 10
    HotMaxPerTx = 12
    MaxIndex = 1
    InputLists <- MCInputLists
    OutputLists <- MCOutputLists
INVARIANT LogInv
INVARIANT SingleUse
INVARIANT LogServes
INVARIANT PinInv
INVARIANT GateInv
INVARIANT PolicyInv
PROPERTY LeavesOnlyDead
PROPERTY NoRefreshOvertakes
PROPERTY RefreshesArePaced
PROPERTY ImplementsLockout
SYMMETRY MCSymmetry
