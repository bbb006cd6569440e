CONSTANTS
    NoOrder = NoOrder
    Orders = {o1}
    ManualOrders = {}
    Queued = {o1}
    Requests = {r1, r2}
    Workers = {w1}
    Handlers <- WebhookAndStatus
    MayCrash = FALSE
SPECIFICATION Spec
PROPERTY NoPaidOrderGivenUp
CHECK_DEADLOCK FALSE
