CONSTANTS
    Nodes = {n1, n2, n3}
    Threshold = 2
    Finalizers = {f1, f2}
    Ports <- MCPorts
    MaxKeygen = 2
    Regenerates = {n1}
    MaxRounds = 2
    MaxEdits = 1
    n1 = n1
    n2 = n2
    n3 = n3
SPECIFICATION MCSpec
INVARIANT SealedInv
 
PROPERTY SealedIsFinal
CHECK_DEADLOCK FALSE
