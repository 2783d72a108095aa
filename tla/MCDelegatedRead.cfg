SPECIFICATION Spec
CONSTANTS
    Calls = {c1, c2, c3}
    Requests <- MCRequests
    Principals = {"alice", "bob"}
    NoOwner = ""
    Subaccounts = {0, 7}
    Ids = {"i1", "i2", "i3"}
    maxReadTenants = 2
    MaxTime = 4
SYMMETRY CallSymmetry
INVARIANTS
    TypeOK
    ServedWithinGrant
    TableBounded
    UnknownTenantExplained
PROPERTY NoEviction
