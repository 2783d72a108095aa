SPECIFICATION Spec
CONSTANTS
    user = user
    agent = agent
    bare = bare
    kU = kU
    kA = kA
    kR = kR
    NoKey = NoKey
    Issuers = {user, agent, bare}
    Keys = {kU, kA, kR}
    IsDID <- MCIsDID
    AccountKey <- MCAccountKey
    Proofs <- MCProofs
    MaxChanges = 2
INVARIANTS
    TypeOK
    KeysOfItsTime
    NoSpuriousRefusal
