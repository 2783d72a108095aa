SPECIFICATION Spec
CONSTANTS
    Calls = {c1, c2}
    Requests <- OwnOnly
    Principals = {"alice", "op"}
    Operator = "op"
    Actions <- MCActions
    Subaccounts = {0, 7}
    Settlements = {"o1", "o2"}
    NoSettlement = ""
    Nobody = nobody
INVARIANT ExecutesDontRace
