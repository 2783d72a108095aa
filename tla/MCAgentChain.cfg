SPECIFICATION Spec
CONSTANTS
    alice = alice
    bob = bob
    autoA = autoA
    autoB = autoB
    svpdtA = svpdtA
    Ops = {o1, o2}
    Accounts = {alice, bob}
    NoAccount = NoAccount
    BearerIds = {autoA, autoB}
    ReadIds = {svpdtA}
    NoTenant = NoTenant
    Unknown = Unknown
    Owner <- MCOwner
    Requests <- MCRequests
    MaxSends = 2
INVARIANTS
    TypeOK
    TenantLandsOwn
    RefusalIsFinal
    BadSequenceExplained
