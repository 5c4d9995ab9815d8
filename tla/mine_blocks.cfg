SPECIFICATION Spec
CONSTANTS
    Users = {ua, ub}
    Referrer <- MCReferrer
    Splits <- MCSplits
    Sockets = {s1}
    Savers = {v1}
    InitialBalance = 100
    BoostCost = 10000
    RigCost = 10000
    RigStep = 8000
    Moves <- MCMoves
    MayFail = TRUE
    MayBootFail = FALSE
    MaxBlocks = 2
    MaxRigs = 1
    MaxMoves = 0
    MaxCrashes = 1
    None = None
    ua = ua
    ub = ub
INVARIANTS
    LedgerAddsUp
    NextBlockIsNew
