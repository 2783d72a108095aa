SPECIFICATION FairSpec
CONSTANTS
    Sessions = {s1, s2}
    MaxDeploy = 3
    MaxSeq = 8
    MaxFaults = 1
INVARIANT TypeOK
PROPERTIES
    NoOlderCard
    EventuallyVerified
