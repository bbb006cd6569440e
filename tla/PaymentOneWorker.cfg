CONSTANTS
    NoOrder = NoOrder
    Orders = {o1, o2}
    ManualOrders = {o2}
    Queued = {o1, o2}
    Requests = {r1}
    Workers = {w1}
    Handlers <- GuardedHandlers
    MayCrash = FALSE
SPECIFICATION FairSpec
INVARIANTS OutcomeFindsItsOrder JobTellsOutcome
PROPERTIES FollowsStateTransitions 
CHECK_DEADLOCK FALSE
