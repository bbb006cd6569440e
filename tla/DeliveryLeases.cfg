SPECIFICATION FairSpec
CONSTANTS
    o1 = o1
    s1 = s1
    s2 = s2
    p1 = p1
    p2 = p2
    j1 = j1
    j2 = j2
    Orders = {o1}
    ManualOrders = {}
    Slots = {s1, s2}
    Owner <- TwoProcesses
    Ttl = 2
    MayStall = FALSE
    MayCrash = TRUE
    Jobs = {j1, j2}
    JobKinds = {"deliver"}
    OutboxJobs = FALSE
    MaxTries = 2
    NoJob = NoJob
    Nobody = Nobody
CHECK_DEADLOCK FALSE
INVARIANTS TypeOK OneWorkerPerOrder NoExecutionAfterSuccess
PROPERTY JobsEnd
