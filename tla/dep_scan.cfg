SPECIFICATION FairSpec
CONSTANTS
    Users = {u1}
    Wallets = {wa, wb}
    Hashes = {h1, h2}
    ToHotWallet = {}
    Sender <- MCSender
    LockKey <- OwnKey
    Handlers = {s1, s2}
    Kinds = {"user", "scan"}
    Value = 1000
    Claims = {1001, 1002}
    PoolSize = 3
    MayFail = FALSE
    MaySleep = FALSE
    MaxManual = 0
    None = None
    h1 = h1
    h2 = h2
    wa = wa
    wb = wb

    
INVARIANTS
    DepositsAreGenuine
    
