SPECIFICATION Spec
CONSTANTS
    u1 = u1
    p1 = p1
    p2 = p2
    r1 = r1
    r2 = r2
    Users = {u1}
    Products = {p1, p2}
    Requests = {r1, r2}
    PriceOf <- TwoPrices
    Kinds = {"checkout", "gift", "bulk", "payout"}
    Methods = {"WALLET", "BAKONG"}
    MaxUses = 1
    PromoDiscount = 100
    PointsAsked = {0, 200}
    InitialWallet = 7900
    InitialPoints = 300
    Payout = 2000
    MayFail = TRUE
    NoUser = NoUser
    NoOrder = NoOrder
SYMMETRY RequestSymmetry
INVARIANT TypeOK
INVARIANT DiscountsAreCounted
CHECK_DEADLOCK FALSE
