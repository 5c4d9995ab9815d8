SPECIFICATION Spec
CONSTANTS
    Users = {u1}
    Withdrawals = {w1, w2}
    Requests = {r1}
    Operators = {o1, o2}
    Amounts = {1}
    InitialBalance = 1
    MaxCrashes = 1
    MaxFaults = 1
    None = None
SYMMETRY Symmetry
INVARIANTS
    TypeOK
    FundsNeverLost
    OnlyApprovedIsPaid
    BalanceNotNegative
