CONSTANTS
    NoOrder = NoOrder
    Orders = {o1}
    ManualOrders = {}
    Queued = {o1}
    Requests = {r1, r2}
    Workers = {w1, w2}
    Handlers <- AnyHandler
    MayCrash = TRUE
SPECIFICATION Spec
INVARIANTS TypeOK  DispatchedAtMostOnce
SYMMETRY ProcSymmetry
CHECK_DEADLOCK FALSE
