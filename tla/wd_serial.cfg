SPECIFICATION FairSpec
CONSTANTS
    Users = {u1}
    Withdrawals = {w1, w2}
    Requests = {r1, r2}
    Operators = {o1}
    Amounts = {1, 2}
    InitialBalance = 2
    MaxCrashes = 1
    MaxFaults = 2
    None = None
INVARIANTS
    NoRefundOfLiveRow
PROPERTIES
    
    ApprovedIsSettled
