SPECIFICATION Spec
CONSTANTS
    b1 = b1  b2 = b2  b3 = b3
    s1 = s1  s2 = s2
    n1 = n1
    Bodies <- QuorumBodies
    Copies <- QuorumCopies
    NonceOf <- NonceOfAll
    ExpiryOf <- ExpiryOfAll
    DuressBodies <- Duress
    Peers = {p1}
    Self = self
    Coord = coord
    Threshold = 3
    Threads = {t1, t2}
    Horizon = 1
    NoCopy = NoCopy
    MaxAge = 3
    MaxCoordNonces = 1
    U64Max = 2
SYMMETRY Interchangeable
INVARIANT NoStrandedReceipt
