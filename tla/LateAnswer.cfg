SPECIFICATION Spec
CONSTANTS
    d1 = d1
    d2 = d2
    p1 = p1
    p2 = p2
    a1 = a1
    a2 = a2
    a3 = a3
    a4 = a4
    Commands = {k1}
    Plans = {d1}
    PlanInfo <- OneDemo
    Authorizations = {a1}
    AuthorizedPlan <- OneDemoAuthorized
    Workers = {w1, w2}
    Instruments = {"BTC"}
    Prices = {1}
    MaxNotional = 10
    MaxDailyLoss = 10
    MaxTradeSlots = 10
    MaxSymbolNotional = 10
    LastDay = 1
    MaxEpoch = 2
    MaxFaults = 0
    BatchLimit = 20
    NoPlan = NoPlan
    NoAuthorization = NoAuthorization
    NoCommandId = NoCommandId
PROPERTIES
    CancelledIsFinal
CHECK_DEADLOCK FALSE
