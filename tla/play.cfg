SPECIFICATION PlaySpec
CONSTANTS
    Calls = {c1, c2}
    MayFail = TRUE
    None = None
    m1 = m1
    m2 = m2
    p1 = p1
    Units = {m1, m2, p1}
    ModelOf <- MCModelOf
    Stats <- MCStats
    LastSlot = 3
    Funds = 1
    Price = 1
    MaxCalls = 4
    Cooldown = 3
    Wait = 1
    DayLength = 3
    LastTick = 4
    Tabs = {t1}
    TotalSteps = 2
    MaxDailyRuns = 1
    LastSecond = 4
    MaxBoots = 1
    Cost <- MCCost
    PerWindow <- MCPerWindow
    Window = 3
    ReleaseGap = 1
    MaxGpus = 2
    LastBeat = 4
    Sockets = {s1, s2}
    GameCooldown = 2
    MinPlay = 1
    LastMoment = 2
    Pairs = {q1, q2}
    MaxClicks = 2
    Symbols = {a, b, c}
    Width = 3
    Height = 3
    Goal = 5
    Hole = Hole
    Pages = {t1}
    Take = 2
    LastDay = 2
    MaxPayments = 3
    Prices = {1, 2}
    Ttl = 2
    Amounts = {2}
    StartPol = 2
    StartUsdc = 2
    Viewers = {v1, v2, v3}
    TargetViews = 2
    LastPriceTick = 2
    MaxOrders = 4
INVARIANTS
    PlayTypeOK
    UnitsAreKept
    RackIsSound
    EngineMinesWithRack
    RewardsAreCounted
    WatchIsPaid
    GamesAreSound
    
    

    
    
