SPECIFICATION MCSpec
CONSTANTS
    Nodes = {"n1", "n2", "n3"}
    Threshold = 2
    Top = 3
    Feerate <- MCFeerate
    Delivered <- MCDelivered
    FeeFloor = 2
    CoveragePct = 80
    Medians <- MCMedians
    Step = 5
    Balance = 100
    Deposit = 10
    ReleaseQuota <- MCQuota
    MaxFaults = 2
    Blocks = {"g1", "a2", "a3", "a4", "e3", "e4", "b2", "b3", "b4"}
    Root = "g1"
    Parent <- MCParent
    Time <- MCTime
    Included <- MCIncluded
    Txs = {"S", "D", "R"}
    Creates <- MCCreates
    Spends <- MCSpends
    RootCoins = {"c0"}
    Accepted = {"R"}
    MaxDelta = 1
    MaxReorgs = 1
    MaxMoves = 2
    MaxMishaps = 1
INVARIANT LadderInv
 
 
PROPERTY BumpLands
PROPERTY AnswerIsWhole
PROPERTY CacheCatchesUp
