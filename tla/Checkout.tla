------------------------------- MODULE Checkout -------------------------------
(***************************************************************************)
(* What a signed-in customer's requests do to the customer's User row and  *)
(* to a PromoCode row: the checkout (app/api/orders), the gift and bulk    *)
(* routes and the referral payout of the admin.  A request takes one       *)
(* action per awaited database call.  Amounts are in cents; one point is   *)
(* worth one cent.  The delivery of a paid order is reduced to the three   *)
(* status writes of PaymentLifecycle that meet the checkout's own.         *)
(***************************************************************************)
EXTENDS Integers, FiniteSets, Functions

CONSTANTS
    Users, Products, Requests,
    PriceOf,        \* Product.priceUsd
    Kinds,          \* the routes that are in use
    Methods,        \* the paymentMethod values customers choose
    MaxUses,        \* PromoCode.maxUses, 0 for no limit
    PromoDiscount,  \* PromoCode.discountValue of a code of type FIXED
    PointsAsked,    \* the values of usePoints
    InitialWallet, InitialPoints,
    Payout,         \* the amount of a referral payout
    MayFail,        \* whether a database call may throw, or the process die
    NoUser, NoOrder

AllKinds == {"checkout", "gift", "bulk", "payout"}

ASSUME CheckoutAssumption ==
    /\ IsFiniteSet(Products) /\ PriceOf \in [Products -> Nat \ {0}]
    /\ Kinds \subseteq AllKinds
    /\ Methods \subseteq {"WALLET", "BAKONG"}
    /\ MaxUses \in Nat /\ PromoDiscount \in Nat /\ Payout \in Nat
    /\ InitialWallet \in Nat /\ InitialPoints \in Nat
    /\ PointsAsked \subseteq Nat
    /\ MayFail \in BOOLEAN
    /\ NoUser \notin Users

VARIABLES
    wallet,      \* User.walletBalance
    points,      \* User.pointsBalance
    totalSpent,  \* User.totalSpentUsd
    vipRank,     \* User.vipRank
    usedCount,   \* PromoCode.usedCount
    orders,      \* the Order row that request r created for product p
    credited,    \* what payouts added to the wallet (history)
    req          \* what each request is doing

userVars == <<wallet, points, totalSpent, vipRank, credited>>
vars == <<wallet, points, totalSpent, vipRank, usedCount, orders, credited, req>>

Status == {"PENDING", "PAID", "PROCESSING", "DELIVERED"}
Ranks == {"BRONZE", "SILVER", "GOLD", "DIAMOND_LEGEND"}
Row == [user : Users, method : {"WALLET", "BAKONG"}, amount : Int, status : Status,
        promo : BOOLEAN, member : BOOLEAN, points : Int,
        worker : BOOLEAN]   \* a payment worker has taken the order

\* null is no row
ASSUME OrderAssumption == NoOrder \notin Row

Steps == {"idle", "promo", "countUse", "session", "price", "deduct", "create",
          "settle", "points", "readTotal", "total",
          "giftRead", "giftPay", "giftOrder",
          "bulkRead", "bulkPay", "bulkOrders", "payout", "done"}
Fresh == [pc |-> "idle", kind |-> "checkout", user |-> NoUser, cart |-> {},
          method |-> "WALLET", wants |-> 0, price |-> 0,
          promo |-> FALSE, member |-> FALSE, points |-> 0, seen |-> 0]
Activity == [pc : Steps, kind : AllKinds, user : Users \cup {NoUser},
             cart : SUBSET Products, method : {"WALLET", "BAKONG"}, wants : Nat,
             price : Int, promo : BOOLEAN, member : BOOLEAN, points : Int, seen : Int]

TypeOK ==
    /\ wallet \in [Users -> Int]
    /\ points \in [Users -> Int]
    /\ totalSpent \in [Users -> Int]
    /\ vipRank \in [Users -> Ranks]
    /\ usedCount \in Nat
    /\ orders \in [Requests \X Products -> Row \cup {NoOrder}]
    /\ credited \in [Users -> Nat]
    /\ req \in [Requests -> Activity]

Init ==
    /\ wallet = [u \in Users |-> InitialWallet]
    /\ points = [u \in Users |-> InitialPoints]
    /\ totalSpent = [u \in Users |-> 0]
    /\ vipRank = [u \in Users |-> "BRONZE"]
    /\ usedCount = 0
    /\ orders = [k \in Requests \X Products |-> NoOrder]
    /\ credited = [u \in Users |-> 0]
    /\ req = [r \in Requests |-> Fresh]

-----------------------------------------------------------------------------
(* Pure parts *)

Least(a, b) == IF a <= b THEN a ELSE b
Positive(a) == IF a >= 0 THEN a ELSE 0

\* Math.round(finalPrice * 0.02 * 100) / 100
MemberDiscount(price) == (2 * price + 50) \div 100

\* lib/vip.ts: getRank, minSpend in cents
GetRank(spent) ==
    CASE spent >= 100000 -> "DIAMOND_LEGEND"
      [] spent >= 25000 /\ spent < 100000 -> "GOLD"
      [] spent >= 5000 /\ spent < 25000 -> "SILVER"
      [] spent < 5000 -> "BRONZE"

\* The orders in these states count as purchases of the product.
Exists(k) == orders[k] # NoOrder
Bought(k) == Exists(k) /\ orders[k].status # "PENDING"
HasBoughtBefore(u, p) ==
    \E r \in Requests : Bought(<<r, p>>) /\ orders[<<r, p>>].user = u

\* The product of a cart of one.
ProductOf(cart) == CHOOSE p \in cart : TRUE

\* Request r moves to step pc and changes nothing else of its own.
GoTo(r, pc) == req' = [req EXCEPT ![r].pc = pc]

\* A finished request keeps nothing; the row records what it did.
Finish(r) == req' = [req EXCEPT ![r] = [Fresh EXCEPT !.pc = "done"]]

Insert(r, p, row) == orders' = [orders EXCEPT ![<<r, p>>] = row]
SetStatus(k, s) == orders' = [orders EXCEPT ![k].status = s]

-----------------------------------------------------------------------------
(* Arrival: the request body, already validated, products active *)

\* The step that follows the promo code.
AfterPromo(kind, method) ==
    CASE kind = "checkout" -> "session"
      [] OTHER -> IF method = "WALLET" THEN "bulkRead" ELSE "bulkOrders"

FirstStep(kind, method, promo) ==
    CASE kind = "gift" -> "giftRead"
      [] kind = "payout" -> "payout"
      [] OTHER -> IF promo THEN "promo" ELSE AfterPromo(kind, method)

Asked(kind, u, m, promo, w, cart) ==
    [pc |-> FirstStep(kind, m, promo), kind |-> kind, user |-> u, cart |-> cart,
     method |-> m, wants |-> w, price |-> 0, promo |-> FALSE, member |-> FALSE,
     points |-> 0, seen |-> 0]

RequestArrives(r) ==
    /\ req[r].pc = "idle"
    /\ \E kind \in Kinds, u \in Users, m \in Methods, promo \in BOOLEAN,
          w \in PointsAsked, cart \in SUBSET Products :
         /\ cart # {}
         /\ kind # "bulk" => Cardinality(cart) = 1
         /\ kind # "checkout" => w = 0
         /\ kind \in {"gift", "payout"} => ~promo /\ m = "WALLET"
         /\ req' = [req EXCEPT ![r] = Asked(kind, u, m, promo, w, cart)]
    /\ UNCHANGED <<userVars, usedCount, orders>>

-----------------------------------------------------------------------------
(* The promo code, in the checkout and in the bulk route *)

\* The bulk route does not look at maxUses.
PromoUsable(r) ==
    req[r].kind = "bulk" \/ MaxUses = 0 \/ usedCount < MaxUses

ReadPromo(r) ==
    /\ req[r].pc = "promo"
    /\ req' = [req EXCEPT
            ![r].promo = PromoUsable(r),
            ![r].pc = IF PromoUsable(r) THEN "countUse"
                      ELSE AfterPromo(req[r].kind, req[r].method)]
    /\ UNCHANGED <<userVars, usedCount, orders>>

\* Mutant: updateMany where usedCount < maxUses, its count never looked at.
CountPromoUseBelowLimit(r) ==
    /\ req[r].pc = "countUse"
    /\ usedCount' = IF usedCount < MaxUses THEN usedCount + 1 ELSE usedCount
    /\ GoTo(r, AfterPromo(req[r].kind, req[r].method))
    /\ UNCHANGED <<userVars, orders>>

CountPromoUse(r) ==
    /\ req[r].pc = "countUse"
    /\ usedCount' = usedCount + 1
    /\ GoTo(r, AfterPromo(req[r].kind, req[r].method))
    /\ UNCHANGED <<userVars, orders>>

-----------------------------------------------------------------------------
(* The checkout *)

\* getCurrentUser reads the points balance; pointsUsed is settled from it.
ReadSession(r) ==
    LET me == req[r]
        pointsUsed == IF me.wants > 0 THEN Least(me.wants, points[me.user]) ELSE 0
    IN
    /\ me.pc = "session"
    /\ req' = [req EXCEPT ![r].pc = "price", ![r].points = pointsUsed]
    /\ UNCHANGED <<userVars, usedCount, orders>>

\* The member discount after the promo discount, then the points.
CalculatePrice(r) ==
    LET me == req[r]
        p == ProductOf(me.cart)
        promoPrice == PriceOf[p] - IF me.promo THEN Least(PromoDiscount, PriceOf[p]) ELSE 0
        member == ~HasBoughtBefore(me.user, p)
        memberPrice == promoPrice - IF member THEN MemberDiscount(promoPrice) ELSE 0
        price == Positive(memberPrice - me.points)
    IN  /\ me.pc = "price"
        /\ req' = [req EXCEPT ![r].price = price, ![r].member = member,
                              ![r].pc = IF me.method = "WALLET" /\ price > 0
                                        THEN "deduct" ELSE "create"]
        /\ UNCHANGED <<userVars, usedCount, orders>>

\* Mutant: the decrement without its where clause.
DeductUnconditionally(r) ==
    /\ req[r].pc = "deduct"
    /\ wallet' = [wallet EXCEPT ![req[r].user] = @ - req[r].price]
    /\ GoTo(r, "create")
    /\ UNCHANGED <<points, totalSpent, vipRank, credited, usedCount, orders>>

\* updateMany where walletBalance gte finalPrice; count 0 answers 400.
DeductWallet(r) ==
    LET u == req[r].user IN
    /\ req[r].pc = "deduct"
    /\ IF wallet[u] >= req[r].price
       THEN /\ wallet' = [wallet EXCEPT ![u] = @ - req[r].price]
            /\ GoTo(r, "create")
       ELSE /\ Finish(r)
            /\ UNCHANGED wallet
    /\ UNCHANGED <<points, totalSpent, vipRank, credited, usedCount, orders>>

\* The amount was taken from the wallet before this request inserts its order.
WalletDeducted(r) == req[r].method = "WALLET" /\ req[r].price > 0

NewRow(r, amount, status) ==
    [user |-> req[r].user, method |-> req[r].method, amount |-> amount, status |-> status,
     promo |-> req[r].promo, member |-> req[r].member, points |-> req[r].points,
     worker |-> FALSE]

\* Mutant: the row records the list price, as the bulk route does.
CreateOrderAtListPrice(r) ==
    LET p == ProductOf(req[r].cart)
        status == IF WalletDeducted(r) THEN "PAID" ELSE "PENDING"
    IN  /\ req[r].pc = "create"
        /\ Insert(r, p, NewRow(r, PriceOf[p], status))
        /\ IF WalletDeducted(r) THEN GoTo(r, "settle") ELSE Finish(r)
        /\ UNCHANGED <<userVars, usedCount>>

\* A free wallet order is inserted PENDING; building its answer then throws.
CreateOrder(r) ==
    LET status == IF WalletDeducted(r) THEN "PAID" ELSE "PENDING" IN
    /\ req[r].pc = "create"
    /\ Insert(r, ProductOf(req[r].cart), NewRow(r, req[r].price, status))
    /\ IF WalletDeducted(r) THEN GoTo(r, "settle") ELSE Finish(r)
    /\ UNCHANGED <<userVars, usedCount>>

\* Mutant: a delivery status written to the order's status column.
SettleAsQueued(r) ==
    /\ req[r].pc = "settle"
    /\ SetStatus(<<r, ProductOf(req[r].cart)>>, "QUEUED")
    /\ GoTo(r, IF req[r].points > 0 THEN "points" ELSE "readTotal")
    /\ UNCHANGED <<userVars, usedCount>>

\* Mutant: on to the total, the points forgotten.
SettleWithoutPoints(r) ==
    /\ req[r].pc = "settle"
    /\ SetStatus(<<r, ProductOf(req[r].cart)>>, "PROCESSING")
    /\ GoTo(r, "readTotal")
    /\ UNCHANGED <<userVars, usedCount>>

\* order.update by id: the status is not looked at.
SettleWalletOrder(r) ==
    /\ req[r].pc = "settle"
    /\ SetStatus(<<r, ProductOf(req[r].cart)>>, "PROCESSING")
    /\ GoTo(r, IF req[r].points > 0 THEN "points" ELSE "readTotal")
    /\ UNCHANGED <<userVars, usedCount>>

DeductPoints(r) ==
    /\ req[r].pc = "points"
    /\ points' = [points EXCEPT ![req[r].user] = @ - req[r].points]
    /\ GoTo(r, "readTotal")
    /\ UNCHANGED <<wallet, totalSpent, vipRank, credited, usedCount, orders>>

\* updateUserTotalSpent: the rank follows from the total read, the total from an increment.
ReadTotalSpent(r) ==
    /\ req[r].pc = "readTotal"
    /\ req' = [req EXCEPT ![r].pc = "total", ![r].seen = totalSpent[req[r].user]]
    /\ UNCHANGED <<userVars, usedCount, orders>>

\* Mutant: totalSpentUsd: newTotal.
WriteNewTotal(r) ==
    LET u == req[r].user
        newTotal == req[r].seen + req[r].price
    IN  /\ req[r].pc = "total"
        /\ totalSpent' = [totalSpent EXCEPT ![u] = newTotal]
        /\ vipRank' = [vipRank EXCEPT ![u] = GetRank(newTotal)]
        /\ Finish(r)
        /\ UNCHANGED <<wallet, points, credited, usedCount, orders>>

UpdateUserTotalSpent(r) ==
    LET u == req[r].user IN
    /\ req[r].pc = "total"
    /\ totalSpent' = [totalSpent EXCEPT ![u] = @ + req[r].price]
    /\ vipRank' = [vipRank EXCEPT ![u] = GetRank(req[r].seen + req[r].price)]
    /\ Finish(r)
    /\ UNCHANGED <<wallet, points, credited, usedCount, orders>>

-----------------------------------------------------------------------------
(* The gift route *)

GiftPrice(r) == PriceOf[ProductOf(req[r].cart)]

ReadGiftWallet(r) ==
    /\ req[r].pc = "giftRead"
    /\ IF wallet[req[r].user] >= GiftPrice(r) THEN GoTo(r, "giftPay") ELSE Finish(r)
    /\ UNCHANGED <<userVars, usedCount, orders>>

PayGift(r) ==
    /\ req[r].pc = "giftPay"
    /\ wallet' = [wallet EXCEPT ![req[r].user] = @ - GiftPrice(r)]
    /\ GoTo(r, "giftOrder")
    /\ UNCHANGED <<points, totalSpent, vipRank, credited, usedCount, orders>>

CreateGiftOrder(r) ==
    /\ req[r].pc = "giftOrder"
    /\ Insert(r, ProductOf(req[r].cart), NewRow(r, 0, "PENDING"))
    /\ Finish(r)
    /\ UNCHANGED <<userVars, usedCount>>

-----------------------------------------------------------------------------
(* The bulk route *)

BulkTotal(r) ==
    Positive(SumFunctionOnSet(PriceOf, req[r].cart)
             - IF req[r].promo THEN PromoDiscount ELSE 0)

ReadBulkWallet(r) ==
    /\ req[r].pc = "bulkRead"
    /\ IF wallet[req[r].user] >= BulkTotal(r) THEN GoTo(r, "bulkPay") ELSE Finish(r)
    /\ UNCHANGED <<userVars, usedCount, orders>>

PayBulk(r) ==
    /\ req[r].pc = "bulkPay"
    /\ wallet' = [wallet EXCEPT ![req[r].user] = @ - BulkTotal(r)]
    /\ GoTo(r, "bulkOrders")
    /\ UNCHANGED <<points, totalSpent, vipRank, credited, usedCount, orders>>

\* One insert each, at list price and without the promo code.
CreateBulkOrder(r) ==
    /\ req[r].pc = "bulkOrders" /\ req[r].method = "WALLET"
    /\ \E p \in req[r].cart :
         /\ ~Exists(<<r, p>>)
         /\ Insert(r, p, [NewRow(r, PriceOf[p], "PROCESSING") EXCEPT !.promo = FALSE])
         /\ IF \A q \in req[r].cart \ {p} : Exists(<<r, q>>)
            THEN Finish(r) ELSE UNCHANGED req
    /\ UNCHANGED <<userVars, usedCount>>

\* The insert names a product "BULK" that no Product row has, and throws.
RefuseBakongBulk(r) ==
    /\ req[r].pc = "bulkOrders" /\ req[r].method = "BAKONG"
    /\ Finish(r)
    /\ UNCHANGED <<userVars, usedCount, orders>>

-----------------------------------------------------------------------------
(* The referral payout, failures, and what happens to an order meanwhile *)

PayoutReferral(r) ==
    LET u == req[r].user IN
    /\ req[r].pc = "payout"
    /\ wallet' = [wallet EXCEPT ![u] = @ + Payout]
    /\ credited' = [credited EXCEPT ![u] = @ + Payout]
    /\ Finish(r)
    /\ UNCHANGED <<points, totalSpent, vipRank, usedCount, orders>>

\* The catch block answers 500 and undoes nothing; neither does a dead process.
RequestFails(r) ==
    /\ MayFail
    /\ req[r].pc \notin {"idle", "done"}
    /\ Finish(r)
    /\ UNCHANGED <<userVars, usedCount, orders>>

\* PaymentLifecycle: the payment of a Bakong order is confirmed.
BakongPaymentConfirmed(k) ==
    /\ Exists(k) /\ orders[k].status = "PENDING" /\ orders[k].method = "BAKONG"
    /\ SetStatus(k, "PAID")
    /\ UNCHANGED <<userVars, usedCount, req>>

\* PaymentLifecycle: StartProcessing, a compare-and-set from PAID.  It is allowed
\* for every paid order, though the delivery query returns none as written.
WorkerTakesOrder(k) ==
    /\ Exists(k) /\ orders[k].status = "PAID"
    /\ orders' = [orders EXCEPT ![k].status = "PROCESSING", ![k].worker = TRUE]
    /\ UNCHANGED <<userVars, usedCount, req>>

\* PaymentLifecycle: MarkOrderAsDelivered, a compare-and-set from PROCESSING.
WorkerDeliversOrder(k) ==
    /\ Exists(k) /\ orders[k].worker /\ orders[k].status = "PROCESSING"
    /\ orders' = [orders EXCEPT ![k].status = "DELIVERED", ![k].worker = FALSE]
    /\ UNCHANGED <<userVars, usedCount, req>>

-----------------------------------------------------------------------------
CheckoutStep(r) ==
    \/ ReadPromo(r) \/ CountPromoUse(r) \/ ReadSession(r) \/ CalculatePrice(r)
    \/ DeductWallet(r) \/ CreateOrder(r) \/ SettleWalletOrder(r) \/ DeductPoints(r)
    \/ ReadTotalSpent(r) \/ UpdateUserTotalSpent(r)
GiftStep(r) == ReadGiftWallet(r) \/ PayGift(r) \/ CreateGiftOrder(r)
BulkStep(r) ==
    ReadBulkWallet(r) \/ PayBulk(r) \/ CreateBulkOrder(r) \/ RefuseBakongBulk(r)

RequestStep(r) == CheckoutStep(r) \/ GiftStep(r) \/ BulkStep(r) \/ PayoutReferral(r)
WorkerStep(k) == WorkerTakesOrder(k) \/ WorkerDeliversOrder(k)

Next ==
    \/ \E r \in Requests : RequestArrives(r) \/ RequestStep(r) \/ RequestFails(r)
    \/ \E k \in Requests \X Products : BakongPaymentConfirmed(k) \/ WorkerStep(k)

Spec == Init /\ [][Next]_vars

-----------------------------------------------------------------------------
(* Properties *)

OrderKeys == {k \in Requests \X Products : Exists(k)}
WalletOrdersOf(u) ==
    {k \in OrderKeys : orders[k].user = u /\ orders[k].method = "WALLET"}
InFlightFor(u, steps) == {r \in Requests : req[r].user = u /\ req[r].pc \in steps}
SettledOrdersOf(u) == {k \in WalletOrdersOf(u) : Bought(k)}
PointsOf(rs) == SumFunctionOnSet([r \in rs |-> req[r].points], rs)
PricesOf(rs) == SumFunctionOnSet([r \in rs |-> req[r].price], rs)
AmountsOf(ks) == SumFunctionOnSet([k \in ks |-> orders[k].amount], ks)
PointsIn(ks) == SumFunctionOnSet([k \in ks |-> Positive(orders[k].points)], ks)

\* However many requests of a customer run at once, the wallet is never overdrawn
\* (app/api/orders/route.ts deducts with "walletBalance: { gte: finalPrice }").
WalletNeverNegative == \A u \in Users : wallet[u] >= 0

\* The amounts of a customer's wallet orders are exactly the money that left the
\* wallet: nothing is taken without an order and no order shows another amount.
WalletMatchesOrders ==
    \A u \in Users :
        InitialWallet + credited[u] - wallet[u] =
            AmountsOf(WalletOrdersOf(u))
            + PricesOf({r \in InFlightFor(u, {"create"}) : WalletDeducted(r)})

\* User.totalSpentUsd is the sum of the settled wallet checkouts, so concurrent
\* checkouts lose no update (updateUserTotalSpent increments).
SpendingAddsUp ==
    \A u \in Users :
        totalSpent[u] + PricesOf(InFlightFor(u, {"settle", "points", "readTotal", "total"})) =
            AmountsOf(WalletOrdersOf(u))

\* The points recorded on a customer's settled wallet orders are exactly those
\* that left the balance, or are about to.
PointsAddUp ==
    \A u \in Users :
        InitialPoints - points[u]
            + PointsOf({r \in InFlightFor(u, {"settle", "points"}) : req[r].points > 0}) =
            PointsIn(SettledOrdersOf(u))

\* Every order that carries the promo code has been counted as a use of it.
DiscountsAreCounted ==
    Cardinality({k \in OrderKeys : orders[k].promo}) <= usedCount
=============================================================================
