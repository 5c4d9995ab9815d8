SPECIFICATION Spec
CONSTANTS
    Users = {ua}
    Referrer <- MCReferrer
    Splits <- MCSplits
    Sockets = {s1}
    Savers = {v1}
    InitialBalance = 100
    BoostCost = 50
    RigCost = 100
    RigStep = 50
    Moves <- MCMoves
    MayFail = FALSE
    MayBootFail = FALSE
    MaxBlocks = 1
    MaxRigs = 2
    MaxMoves = 1
    MaxCrashes = 0
    None = None
    ua = ua
    ub = ub
INVARIANTS
    PaidRigIsKept
