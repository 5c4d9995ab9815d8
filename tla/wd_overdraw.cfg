SPECIFICATION Spec
CONSTANTS
    Users = {u1}
    Withdrawals = {w1, w2}
    Requests = {r1, r2}
    Operators = {o1}
    Amounts = {1}
    InitialBalance = 1
    MaxCrashes = 0
    MaxFaults = 0
    None = None
INVARIANTS
    BalanceNotNegative
