SPECIFICATION Spec
CONSTANTS
    t1 = t1
    t2 = t2
    MaxEpoch = 3
    DayLength = 4
    Cooldown = 3
    LossLimit = 1
    Books <- SoundOrBroken
    Trades = {t1, t2}
    ProfileTrades = {t1, t2}
    TargetLoses = {}
    OpenAtStart = {t1}
    Monitors = {m1, m2}
    Humans = {h1}
    Scanners = {s1}
    NoTrade = NoTrade
    Prints <- Markets
    Step = 2
    SettlementGap = 0
    BackfillAge = 4
    PauseWindow = 3
    HumanCloses <- LossAtThree
    MaxTime = 6
SYMMETRY MonitorSymmetry
INVARIANTS
    TypeOK
    MonitorTakesFirstTouch
    ClosedOnce
    PauseIsEarned
PROPERTIES
    LossReachesAccount
    PausesHold
    LatchHolds
CHECK_DEADLOCK FALSE
