SPECIFICATION PeopleSpec
CONSTANTS
    Calls = {c1, c2}
    MayFail = TRUE
    None = None
    n1 = n1
    N1 = N1
    n2 = n2
    e1 = e1
    e2 = e2
    t1 = t1
    t2 = t2
    u1 = u1
    u2 = u2
    w1 = w1
    w2 = w2
    a1 = a1
    a2 = a2
    Spellings = {n1, N1, n2}
    Fold <- MCFold
    Forms <- MCForms
    Ips = {a1, a2}
    Limit = 1
    MaxAccounts = 2
    People = {u1, u2}
    Retries = 1
    Words = {w1, w2}
    Tickets = {t1, t2}
    Panels <- MCPanels
    Chats = {t1, t2}
    MaxMessages = 2
    Newest = 1
    MaxNotices = 2
    Partners = {u1, u2}
    PageSize = 1
    MaxPrivate = 2
    Actions = {a1, a2}
    Parallel = {a2}
    Keys = {u1, u2}
    Window = 2
    MaxHits = 1
    CleanupEvery = 1
    MaxKeys = 1
    LastTime = 6
    MaxDone = 2
    Hashes = {t1, t2}
    Emails = {e1, e2}
    LocalPart <- MCLocalPart
    MaxTickets = 1
    Players = {u1, u2}
    Wallets = {w1, w2}
    WalletOf <- MCWalletOf
    Chain <- MCChain
    Retention = 1
    LastStamp = 2
    Rows = {t1}
    MaxClicks = 2
    Customers = {u1}
    LastPage = 2
    MaxAsks = 5
    Catalogued = {t1, t2}
    GH = 2
    LastGh = 2
    MaxSaves = 2
    CooldownTicks = 2
    WaitTicks = 2
    MaxClaims = 3
    Tabs = {b1, b2, b3}
    CheckEvery = 1
    LeaderTtl = 2
    FullCount = 2
    MaxToggles = 5
    LastGpu = 2
    Countdown = 2
    MaxSwitches = 3
    MaxStarts = 2
    MaxChanges = 1
    Duration = 2
    LastNow = 3
    MaxBoosts = 2
    Pages = {b1}
    HistoryLength = 2
    LastBlock = 3
    MaxDrops = 2
    Billion = 6
    LegacyMax = 3
    MaxLevel = 2
    Machines = {t1, t2}
    LooseRates = {1, 5}
    MaxScripts = 3
    Mails = {e1, e2}
    Usernames = {n1, n2, N1}
    OldUsers <- MCOldUsers
    MaxMigrations = 3
    MaxNewcomers = 2
INVARIANTS
    PeopleTypeOK
    AccountsAreSound
    
    
    MessagesArrive
    ServerKeepsCount
