SPECIFICATION Spec
CONSTANTS
    d1 = d1
    d2 = d2
    p1 = p1
    p2 = p2
    a1 = a1
    a2 = a2
    a3 = a3
    a4 = a4
    Commands = {k1, k2}
    Plans = {d1, p1, p2}
    PlanInfo <- Shared
    Authorizations = {a1, a2, a3, a4}
    AuthorizedPlan <- SharedAuthorized
    Workers = {w1}
    Instruments = {"BTC", "ETH"}
    Prices = {1, 3}
    MaxNotional = 4
    MaxDailyLoss = 6
    MaxTradeSlots = 2
    MaxSymbolNotional = 6
    LastDay = 2
    MaxEpoch = 2
    MaxFaults = 0
    BatchLimit = 20
    NoPlan = NoPlan
    NoAuthorization = NoAuthorization
    NoCommandId = NoCommandId
SYMMETRY SharedSymmetry
INVARIANTS
    TypeOK
    ExclusiveClaims
    LedgerMatches
    ExposureMatches
CHECK_DEADLOCK FALSE
