SPECIFICATION Spec
CONSTANTS
    o1 = o1
    s1 = s1
    s2 = s2
    p1 = p1
    p2 = p2
    j1 = j1
    j2 = j2
    Orders = {o1}
    ManualOrders = {}
    Slots = {s1, s2}
    Owner <- TwoProcesses
    Ttl = 1
    MayStall = TRUE
    MayCrash = FALSE
    Jobs = {j1, j2}
    JobKinds = {"deliver", "verify", "retry", "expire", "reconcile"}
    OutboxJobs = FALSE
    MaxTries = 1
    NoJob = NoJob
    Nobody = Nobody
CHECK_DEADLOCK FALSE
SYMMETRY JobSymmetry
INVARIANTS OneExecutionAtATime DeliveredWasExecuted
