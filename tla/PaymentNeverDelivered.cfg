CONSTANTS
    NoOrder = NoOrder
    Orders = {o1}
    ManualOrders = {}
    Queued = {}
    Requests = {r1}
    Workers = {w1}
    Handlers <- GuardedHandlers
    MayCrash = FALSE
SPECIFICATION FairSpec
PROPERTY PaidOrderSettles
CHECK_DEADLOCK FALSE
