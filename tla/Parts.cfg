SPECIFICATION PartsSpec
CONSTANTS
    Callers = {c1, c2}
    SotCallers = {c2}
    FailureThreshold = 3
    SuccessThreshold = 2
    HalfOpenMaxRequests = 2
    MaxOverrides = 1
    Latencies = {1, 11, 16}
    MaxCalls = 3
    Clients = {l1, l2}
    Sessions = {0, 1}
    NoValue = NoValue
    Ttl = 3
    MaxRetries = 3
    MaxRevokes = 1
    Workers = {w1, w2}
    NoWorker = NoWorker
    LockTerm = 2
    MaxVersions = 4
    Crons = {r1, r2, r3}
    Timeout = 3
    Calls = {a1, a2}
    Spins = {1, 2}
    TargetSize = 3
    MaxPoints = 2
    Requests = {q1, q2}
    MaxPollAttempts = 4
    None = None
    Uids = {u1, u2}
    Lookups = {f1, f2}
INVARIANTS
    ProtectionTypeOK NeverStuck CriticalMeansOutage
    LocksTypeOK OverlapNeedsOverdue
    StoreTypeOK PointsAreAccounted TwiceNeedsDisturbance PoolAddsUp NicknameBelongsToUid
PROPERTIES LockIsALease JobIsALease DeliveredIsShown
CHECK_DEADLOCK FALSE
