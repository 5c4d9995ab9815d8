SPECIFICATION Spec
CONSTANTS
    Users = {u1}
    Withdrawals = {w1, w2}
    Requests = {r1}
    Operators = {o1}
    Amounts = {1}
    InitialBalance = 2
    MaxCrashes = 0
    MaxFaults = 1
    None = None
INVARIANTS
    FailedIsUnpaid
