SPECIFICATION Spec
CONSTANTS
    Readers = {p1, p2, p3}
    Roots = {r}
    Epochs = {0, 1}
    epochCacheTTL = 2
    RpcMax = 2
    MaxTime = 4
SYMMETRY ReaderSymmetry
INVARIANTS
    TypeOK
    RevocationReachesCache
PROPERTY KeepsPromise
