SPECIFICATION Spec
CONSTANTS
    u1 = u1
    p1 = p1
    p2 = p2
    r1 = r1
    r2 = r2
    Users = {u1}
    Products = {p1, p2}
    Requests = {r1, r2}
    PriceOf <- TwoPrices
    Kinds = {"checkout", "payout"}
    Methods = {"WALLET"}
    MaxUses = 2
    PromoDiscount = 100
    PointsAsked = {0, 200}
    InitialWallet = 7900
    InitialPoints = 300
    Payout = 2000
    MayFail = FALSE
    NoUser = NoUser
    NoOrder = NoOrder
SYMMETRY RequestSymmetry
INVARIANT WalletNeverNegative
INVARIANT WalletMatchesOrders
INVARIANT SpendingAddsUp
INVARIANT PointsAddUp
CHECK_DEADLOCK FALSE
