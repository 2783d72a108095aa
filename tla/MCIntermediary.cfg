SPECIFICATION FairSpec
CONSTANTS
    DIDs <- MCDIDs
    RawDIDs <- MCRawDIDs
    TrimSpace <- MCTrimSpace
    NoDID = ""
    Principals = {"alice"}
    Actions = {"order", "spend"}
    RecordSpend = "spend"
    Subaccounts = {0, 7}
    Settlements = {"o1"}
    NoSettlement = ""
    MaxTokenTtlSeconds = 4
    AgentID = "me"
    HasRecorder = TRUE
    EscrowCap <- MCEscrowCap
    MaxDelegationDepth = 3
    Requests <- MCRequests
    MaxTime = 4
    MaxCrashes = 1
    Tasks = {t1, t2}
INVARIANTS
    TypeOK
    ForwardedWithinGrant
    NoThirdHop
    UsableDownstream
    ChargedOnceBeforeForward
    AnswerIsTrue
PROPERTY EveryTaskAnswered
