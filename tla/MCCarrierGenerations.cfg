SPECIFICATION Spec
CONSTANTS
    b1 = b1  b2 = b2  b3 = b3
    s1 = s1  s2 = s2
    n1 = n1
    Bodies <- GenerationBodies
    Copies <- GenerationCopies
    NonceOf <- NonceOfAll
    ExpiryOf <- ShortExpiry
    DuressBodies <- Duress
    Peers = {p1}
    Self = self
    Coord = coord
    Threshold = 2
    Threads = {t1, t2}
    Horizon = 1
    NoCopy = NoCopy
    MaxAge = 2
    MaxCoordNonces = 1
    U64Max = 2
INVARIANT ArmInv
INVARIANT ClaimInv
PROPERTY RelayKept
SYMMETRY Interchangeable
