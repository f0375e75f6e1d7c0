CONSTANTS
    Procs = {p1, p2}
    Jobs = {j1, j2}
    p1 = p1
    j1 = j1
    Delay = 1
    Resolution = 1
    MaxTime = 2
    MaxPanics = 1
    MaxPower = 1
SPECIFICATION MCSpec
 
INVARIANT OneGeneration
 
PROPERTY LockdownComes
PROPERTY StagedIsSent
CHECK_DEADLOCK FALSE
