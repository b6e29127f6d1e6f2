SPECIFICATION Spec
CONSTANTS
    d1 = d1
    d2 = d2
    p1 = p1
    p2 = p2
    a1 = a1
    a2 = a2
    a3 = a3
    a4 = a4
    Commands = {k1, k2}
    Plans = {d1, d2}
    PlanInfo <- TwoDemo
    Authorizations = {a1, a2}
    AuthorizedPlan <- TwoDemoAuthorized
    Workers = {w1}
    Instruments = {"BTC"}
    Prices = {1}
    MaxNotional = 10
    MaxDailyLoss = 10
    MaxTradeSlots = 10
    MaxSymbolNotional = 10
    LastDay = 1
    MaxEpoch = 3
    MaxFaults = 1
    BatchLimit = 20
    NoPlan = NoPlan
    NoAuthorization = NoAuthorization
    NoCommandId = NoCommandId
SYMMETRY KeySymmetry
INVARIANTS
    UnsentProofSound
    ReservationCoversVenue
    OneDemoExposure
PROPERTIES
    KeepsPromise
CHECK_DEADLOCK FALSE
