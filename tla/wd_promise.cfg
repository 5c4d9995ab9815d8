SPECIFICATION Spec
CONSTANTS
    Users = {u1, u2}
    Withdrawals = {w1, w2, w3}
    Requests = {r1}
    Operators = {o1}
    Amounts = {1, 2}
    InitialBalance = 3
    MaxCrashes = 0
    MaxFaults = 0
    None = None
INVARIANTS
    PaidOrReturnedOnce
    OneInFlightPerUser
    FailedIsUnpaid
PROPERTIES
    KeepsPromise
