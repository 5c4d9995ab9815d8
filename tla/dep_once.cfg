SPECIFICATION FairSpec
CONSTANTS
    Users = {u1}
    Wallets = {wa, wb}
    Hashes = {h1}
    ToHotWallet = {}
    Sender <- MCSender
    LockKey <- SharedKey
    Handlers = {s1, s2}
    Kinds = {"user", "scan", "admin", "ticket"}
    Value = 1000
    Claims = {1000}
    PoolSize = 2
    MayFail = TRUE
    MaySleep = TRUE
    MaxManual = 1
    None = None
    h1 = h1
    h2 = h2
    wa = wa
    wb = wb

INVARIANTS
    TypeOK
    OneDepositPerHash
PROPERTIES
    CallsFinish
    
