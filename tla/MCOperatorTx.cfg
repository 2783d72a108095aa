SPECIFICATION MCFairSpec
CONSTANTS
    Calls = {1, 2, 3}
    Requests <- MCRequests
    Principals = {"alice", "op"}
    Operator = "op"
    Actions <- MCActions
    Subaccounts = {0, 7}
    Settlements = {"o1", "o2"}
    NoSettlement = ""
    Nobody = nobody
INVARIANTS
    TypeOK
    RefusalHasACause
    OutcomeIsTrue
PROPERTY EveryCallReturns
