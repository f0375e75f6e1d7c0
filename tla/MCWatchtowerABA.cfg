SPECIFICATION Spec
CONSTANTS
    Genesis = g
    Empty = {e1}
    Spends = {s1, s2}
    Recovery = {s2}
    MaxReorgDepth = 1
    MaxHeight = 3
    MaxFaults = 2
PROPERTY AdvancesOnActive
CHECK_DEADLOCK FALSE
