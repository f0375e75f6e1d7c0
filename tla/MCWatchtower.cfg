SPECIFICATION FairSpec
CONSTANTS
    Genesis = g
    Empty = {e1}
    Spends = {s1, s2}
    Recovery = {s2}
    MaxReorgDepth = 1
    MaxHeight = 3
    MaxFaults = 2
INVARIANT WatchInv
PROPERTY CursorFollows
CHECK_DEADLOCK FALSE
