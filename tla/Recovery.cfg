SPECIFICATION AllSpec
CONSTANTS
    Runs = {r1, r2}
    MaxAttempts = 2
    MaxReplays = 1
    MaxVerdicts = 2
    CronReturns = TRUE
    NoOrder = NoOrder
    Orders = {o1}
    ManualOrders = {}
    Queued = {o1}
    Requests = {q1}
    Workers = {w1, w2}
    Handlers = {"deliver"}
    MayCrash = FALSE
    Desks = {d1, d2}
    Sweeps = {s1}
    MaxCalls = 2
INVARIANTS PartsTypeOK DeliveredOnEvidence EscalatedIsListed DispatchNeedsDecision
CHECK_DEADLOCK FALSE
