SPECIFICATION Spec
CONSTANTS
    t1 = t1
    t2 = t2
    MaxEpoch = 2
    DayLength = 4
    Cooldown = 3
    LossLimit = 2
    Books <- AlwaysSound
    Trades = {t1, t2}
    ProfileTrades = {t1, t2}
    TargetLoses = {}
    OpenAtStart = {t1, t2}
    Monitors = {m1}
    Humans = {h1}
    Scanners = {}
    NoTrade = NoTrade
    Prints <- Falling
    Step = 2
    SettlementGap = 0
    BackfillAge = 4
    PauseWindow = 3
    HumanCloses <- LossAtThree
    MaxTime = 4
PROPERTIES
    LossIncrementsStreak
CHECK_DEADLOCK FALSE
