SPECIFICATION MCSpec
CONSTANTS
    Configs <- MCConfigs
    Keys = {"k1", "k2"}
    Requests = {"r1", "r2"}
    Grace = 2
    MaxRotations = 2
    ArgKeys <- CallerKeys
INVARIANTS
    ProcessTypeOK
    CleanExit
    OneIdentity
    CutOnlyAfterGrace
    SurfaceTypeOK
    SameSurface
    NothingDropped
PROPERTY StopSignalStops
