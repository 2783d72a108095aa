SPECIFICATION Spec
CONSTANTS
    Calls = {c1, c2, c3}
    NoCall = NoCall
    Versions <- MCVersions
    paramsCacheTTL = 3
    RpcMax = 2
    MaxTime = 7
SYMMETRY CallSymmetry
INVARIANTS
    TypeOK
    WaitBounded
PROPERTY KeepsPromise
