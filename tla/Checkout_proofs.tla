--------------------------- MODULE Checkout_proofs ---------------------------
(***************************************************************************)
(* Proofs about the rows that the requests of a customer share, for any    *)
(* number of customers, products and concurrent requests: every row keeps  *)
(* its type; every use of the promo code is counted; with the gift and     *)
(* bulk routes out of use no wallet is overdrawn, and if no request fails  *)
(* either, wallet, points and total agree with the orders to the cent.     *)
(***************************************************************************)
EXTENDS Checkout, FiniteSetTheorems, WellFoundedInduction, TLAPS

-----------------------------------------------------------------------------
(* Sums.  SumFunctionOnSet is a recursion over the subsets of a set; what  *)
(* it adds up does not depend on the order of CHOOSE.  Induction over      *)
(* finite sets is an appeal to a least counterexample (WFMin).             *)

\* The recursion of the community modules, for one function and one set.
Adds(F, S, g) ==
    g = [s \in SUBSET S |-> IF s = {} THEN 0
                            ELSE F[CHOOSE x \in s : TRUE] + g[s \ {CHOOSE x \in s : TRUE}]]

\* g maps every subset of S to the sum of F over it, whatever is taken first.
IsSums(F, S, g) ==
    /\ g \in [SUBSET S -> Int]
    /\ g[{}] = 0
    /\ \A T \in SUBSET S : \A x \in T : g[T] = F[x] + g[T \ {x}]

IntsOn(F, S) == \A x \in S : F[x] \in Int

LEMMA SumIsChosen ==
    ASSUME NEW F, NEW S
    PROVE  SumFunctionOnSet(F, S) = (CHOOSE g : Adds(F, S, g))[S]
  BY DEF SumFunctionOnSet, FoldFunctionOnSet, MapThenFoldSet, Adds

LEMMA LeastCounterexample ==
    ASSUME NEW S, IsFiniteSet(S), NEW Bad \in SUBSET SUBSET S, Bad # {}
    PROVE  \E T \in Bad : \A x \in T : T \ {x} \notin Bad
  <1>1. Bad \subseteq FiniteSubsetsOf(S)
    BY FS_Subset DEF FiniteSubsetsOf
  <1>2. PICK T \in Bad : \A U \in Bad : ~(<<U, T>> \in StrictSubsetOrdering(S))
    BY <1>1, FS_StrictSubsetOrderingWellFounded, WFMin
  <1>3. \A x \in T : T \ {x} \subseteq T /\ T \ {x} # T
    OBVIOUS
  <1> QED  BY <1>2, <1>3 DEF StrictSubsetOrdering

\* One element more.
LEMMA SumsExtend ==
    ASSUME NEW F, NEW S, NEW x, x \notin S, F[x] \in Int, IntsOn(F, S),
           NEW g, IsSums(F, S, g)
    PROVE  \E h : IsSums(F, S \cup {x}, h)
  <1> DEFINE h == [T \in SUBSET (S \cup {x}) |-> IF x \in T THEN F[x] + g[T \ {x}] ELSE g[T]]
  <1>1. \A T \in SUBSET (S \cup {x}) : T \ {x} \in SUBSET S /\ (x \notin T => T \in SUBSET S)
    OBVIOUS
  <1>2. h \in [SUBSET (S \cup {x}) -> Int]
    BY <1>1 DEF IsSums
  <1>3. h[{}] = 0
    BY DEF IsSums
  <1>4. ASSUME NEW T \in SUBSET (S \cup {x}), NEW y \in T
        PROVE  h[T] = F[y] + h[T \ {y}]
    <2>0. T \ {y} \in SUBSET (S \cup {x})
      OBVIOUS
    <2>1. CASE y = x
      <3>1. h[T] = F[x] + g[T \ {x}] /\ h[T \ {x}] = g[T \ {x}]
        BY <2>0, <2>1
      <3> QED  BY <2>1, <3>1
    <2>2. CASE y # x /\ x \in T
      <3> DEFINE U == T \ {x}
      <3>1. U \in SUBSET S /\ y \in U /\ U \ {y} \in SUBSET S
        BY <2>2
      <3>2. (T \ {y}) \ {x} = U \ {y}
        OBVIOUS
      <3>3. h[T] = F[x] + g[U] /\ h[T \ {y}] = F[x] + g[U \ {y}]
        BY <2>0, <2>2, <3>2
      <3> HIDE DEF U
      <3>4. g[U] = F[y] + g[U \ {y}] /\ g[U \ {y}] \in Int /\ F[y] \in Int
        BY <3>1 DEF IsSums, IntsOn
      <3> HIDE DEF h
      <3> QED  BY <3>3, <3>4
    <2>3. CASE x \notin T
      <3>1. T \in SUBSET S /\ h[T] = g[T] /\ h[T \ {y}] = g[T \ {y}]
        BY <2>0, <2>3
      <3> HIDE DEF h
      <3> QED  BY <3>1 DEF IsSums
    <2> QED  BY <2>1, <2>2, <2>3
  <1> HIDE DEF h
  <1> QED  BY <1>2, <1>3, <1>4 DEF IsSums

LEMMA SumsExist ==
    ASSUME NEW F, NEW S, IsFiniteSet(S), IntsOn(F, S)
    PROVE  \E g : IsSums(F, S, g)
  <1> DEFINE Bad == {T \in SUBSET S : ~\E g : IsSums(F, T, g)}
  <1> SUFFICES ASSUME Bad # {} PROVE FALSE
    OBVIOUS
  <1>1. PICK T \in Bad : \A x \in T : T \ {x} \notin Bad
    <2>1. Bad \in SUBSET SUBSET S
      OBVIOUS
    <2> HIDE DEF Bad
    <2> QED  BY <2>1, LeastCounterexample
  <1>2. CASE T = {}
    <2> DEFINE none == [s \in SUBSET {} |-> 0]
    <2>1. IsSums(F, {}, none)
      BY DEF IsSums
    <2> QED  BY <1>1, <1>2, <2>1
  <1>3. CASE T # {}
    <2>1. PICK x \in T : TRUE
      BY <1>3
    <2>2. PICK g : IsSums(F, T \ {x}, g)
      BY <1>1, <2>1
    <2>3. F[x] \in Int /\ IntsOn(F, T \ {x})
      BY <1>1, <2>1 DEF IntsOn
    <2>4. (T \ {x}) \cup {x} = T /\ x \notin T \ {x}
      BY <2>1
    <2> DEFINE U == T \ {x}
    <2> HIDE DEF U
    <2>6. \E h : IsSums(F, U \cup {x}, h)
      BY <2>2, <2>3, <2>4, SumsExtend DEF U
    <2>5. \E h : IsSums(F, T, h)
      BY <2>4, <2>6 DEF U
    <2> QED  BY <1>1, <2>5
  <1> QED  BY <1>2, <1>3

\* Two such functions agree where both are defined.
LEMMA SumsAgree ==
    ASSUME NEW F, NEW S, NEW U \in SUBSET S, IsFiniteSet(S),
           NEW g, IsSums(F, S, g), NEW h, IsSums(F, U, h)
    PROVE  h[U] = g[U]
  <1> DEFINE Bad == {T \in SUBSET U : h[T] # g[T]}
  <1> SUFFICES ASSUME Bad # {} PROVE FALSE
    OBVIOUS
  <1>1. PICK T \in Bad : \A x \in T : T \ {x} \notin Bad
    <2>1. Bad \in SUBSET SUBSET U /\ IsFiniteSet(U)
      BY FS_Subset
    <2> HIDE DEF Bad
    <2> QED  BY <2>1, LeastCounterexample
  <1>2. T # {}
    BY <1>1 DEF IsSums
  <1>3. PICK x \in T : TRUE
    BY <1>2
  <1>4. h[T \ {x}] = g[T \ {x}]
    BY <1>1, <1>3
  <1>5. h[T] = F[x] + h[T \ {x}] /\ g[T] = F[x] + g[T \ {x}]
    BY <1>1, <1>3 DEF IsSums
  <1> QED  BY <1>1, <1>4, <1>5

\* The recursion has one solution, the sums.
LEMMA AddsAgree ==
    ASSUME NEW F, NEW S, IsFiniteSet(S), NEW g, IsSums(F, S, g), NEW h, Adds(F, S, h)
    PROVE  h[S] = g[S]
  <1> DEFINE Bad == {T \in SUBSET S : h[T] # g[T]}
             first(T) == CHOOSE x \in T : TRUE
  <1> SUFFICES ASSUME Bad # {} PROVE FALSE
    OBVIOUS
  <1>1. PICK T \in Bad : \A x \in T : T \ {x} \notin Bad
    <2>1. Bad \in SUBSET SUBSET S
      OBVIOUS
    <2> HIDE DEF Bad
    <2> QED  BY <2>1, LeastCounterexample
  <1>0. T \in SUBSET S
    BY <1>1
  <1>2. h[T] = IF T = {} THEN 0 ELSE F[first(T)] + h[T \ {first(T)}]
    <2>1. h = [s \in SUBSET S |-> IF s = {} THEN 0 ELSE F[first(s)] + h[s \ {first(s)}]]
      BY DEF Adds
    <2> HIDE DEF first
    <2> QED  BY <1>0, <2>1
  <1>3. T # {}
    BY <1>1, <1>2 DEF IsSums
  <1>4. PICK x \in T : x = first(T)
    BY <1>3
  <1>5. h[T \ {x}] = g[T \ {x}]
    BY <1>0, <1>1, <1>4
  <1>6. g[T] = F[x] + g[T \ {x}]
    BY <1>0, <1>4 DEF IsSums
  <1> QED  BY <1>1, <1>2, <1>3, <1>4, <1>5, <1>6

LEMMA SumsAdd ==
    ASSUME NEW F, NEW S, NEW g, IsSums(F, S, g)
    PROVE  Adds(F, S, g)
  <1> DEFINE first(T) == CHOOSE x \in T : TRUE
  <1>1. ASSUME NEW T \in SUBSET S
        PROVE  g[T] = IF T = {} THEN 0 ELSE F[first(T)] + g[T \ {first(T)}]
    <2>1. CASE T = {}
      BY <2>1 DEF IsSums
    <2>2. CASE T # {}
      <3>1. PICK x \in T : x = first(T)
        BY <2>2
      <3>2. g[T] = F[x] + g[T \ {x}]
        BY <3>1 DEF IsSums
      <3> QED  BY <2>2, <3>1, <3>2
    <2> QED  BY <2>1, <2>2
  <1>2. g = [s \in SUBSET S |-> g[s]]
    BY DEF IsSums
  <1> HIDE DEF first
  <1>3. g = [s \in SUBSET S |-> IF s = {} THEN 0 ELSE F[first(s)] + g[s \ {first(s)}]]
    BY <1>1, <1>2
  <1> QED  BY <1>3 DEF Adds, first

LEMMA SumOfSums ==
    ASSUME NEW F, NEW S, IsFiniteSet(S), IntsOn(F, S), NEW U \in SUBSET S,
           NEW g, IsSums(F, S, g)
    PROVE  SumFunctionOnSet(F, U) = g[U]
  <1>1. IsFiniteSet(U) /\ IntsOn(F, U)
    BY FS_Subset DEF IntsOn
  <1>2. PICK f : IsSums(F, U, f)
    BY <1>1, SumsExist
  <1>3. Adds(F, U, f)
    BY <1>2, SumsAdd
  <1>4. PICK h : h = (CHOOSE k : Adds(F, U, k)) /\ Adds(F, U, h)
    BY <1>3
  <1>5. SumFunctionOnSet(F, U) = h[U]
    BY <1>4, SumIsChosen
  <1>6. h[U] = f[U]
    BY <1>1, <1>2, <1>4, AddsAgree
  <1> QED  BY <1>2, <1>5, <1>6, SumsAgree

\* What a sum of integers is, and how it changes with one element.
LEMMA SumOfNone == ASSUME NEW F PROVE SumFunctionOnSet(F, {}) = 0
  <1>1. IsFiniteSet({}) /\ IntsOn(F, {})
    BY FS_EmptySet DEF IntsOn
  <1>2. PICK g : IsSums(F, {}, g)
    BY <1>1, SumsExist
  <1>3. SumFunctionOnSet(F, {}) = g[{}]
    BY <1>1, <1>2, SumOfSums
  <1> QED  BY <1>2, <1>3 DEF IsSums

LEMMA SumIsInt ==
    ASSUME NEW F, NEW S, IsFiniteSet(S), IntsOn(F, S)
    PROVE  SumFunctionOnSet(F, S) \in Int
  <1>1. PICK g : IsSums(F, S, g)
    BY SumsExist
  <1>2. SumFunctionOnSet(F, S) = g[S]
    BY <1>1, SumOfSums
  <1> QED  BY <1>1, <1>2 DEF IsSums

LEMMA SumOfSame ==
    ASSUME NEW F, NEW G, NEW S, IsFiniteSet(S), IntsOn(F, S), \A x \in S : F[x] = G[x]
    PROVE  SumFunctionOnSet(F, S) = SumFunctionOnSet(G, S)
  <1>1. PICK g : IsSums(F, S, g)
    BY SumsExist
  <1>2. IsSums(G, S, g)
    BY <1>1 DEF IsSums
  <1>3. IntsOn(G, S)
    BY DEF IntsOn
  <1> QED  BY <1>1, <1>2, <1>3, SumOfSums

\* what x adds to the sum over S
Share(F, S, x) == IF x \in S THEN F[x] ELSE 0

LEMMA SumWithout ==
    ASSUME NEW F, NEW S, IsFiniteSet(S), IntsOn(F, S), NEW x
    PROVE  SumFunctionOnSet(F, S) = SumFunctionOnSet(F, S \ {x}) + Share(F, S, x)
  <1>1. PICK g : IsSums(F, S, g)
    BY SumsExist
  <1>2. /\ SumFunctionOnSet(F, S) = g[S] /\ SumFunctionOnSet(F, S \ {x}) = g[S \ {x}]
        /\ g[S] \in Int /\ g[S \ {x}] \in Int
    <2>1. S \in SUBSET S /\ S \ {x} \in SUBSET S
      OBVIOUS
    <2>2. SumFunctionOnSet(F, S) = g[S] /\ SumFunctionOnSet(F, S \ {x}) = g[S \ {x}]
      BY <1>1, <2>1, SumOfSums
    <2> QED  BY <1>1, <2>1, <2>2 DEF IsSums
  <1>3. CASE x \in S
    BY <1>1, <1>2, <1>3 DEF IsSums, IntsOn, Share
  <1>4. CASE x \notin S
    <2>1. S \ {x} = S
      BY <1>4
    <2> QED  BY <1>2, <1>4, <2>1 DEF Share
  <1> QED  BY <1>3, <1>4

\* Two sums that differ in one element only.
LEMMA SumChanges ==
    ASSUME NEW F, NEW S, IsFiniteSet(S), IntsOn(F, S),
           NEW G, NEW T, IsFiniteSet(T), IntsOn(G, T),
           NEW x, S \ {x} = T \ {x}, \A y \in S \ {x} : F[y] = G[y]
    PROVE  SumFunctionOnSet(G, T) - Share(G, T, x) = SumFunctionOnSet(F, S) - Share(F, S, x)
  <1> DEFINE rest == SumFunctionOnSet(F, S \ {x})
  <1>1. IsFiniteSet(S \ {x}) /\ IntsOn(F, S \ {x})
    BY FS_Subset DEF IntsOn
  <1>2. rest = SumFunctionOnSet(G, T \ {x}) /\ rest \in Int
    BY <1>1, SumOfSame, SumIsInt
  <1>3. Share(F, S, x) \in Int /\ Share(G, T, x) \in Int
    BY DEF IntsOn, Share
  <1>4. SumFunctionOnSet(F, S) = rest + Share(F, S, x)
    BY SumWithout
  <1>5. SumFunctionOnSet(G, T) = SumFunctionOnSet(G, T \ {x}) + Share(G, T, x)
    BY SumWithout
  <1> HIDE DEF rest
  <1> QED  BY <1>2, <1>3, <1>4, <1>5

-----------------------------------------------------------------------------
(* How a request moves, on whichever route.                                *)

Resting == {"idle", "done"}
CheckoutSteps == {"promo", "countUse", "session", "price", "deduct", "create",
                  "settle", "points", "readTotal", "total"}
GiftSteps == {"giftRead", "giftPay", "giftOrder"}
BulkSteps == {"promo", "countUse", "bulkRead", "bulkPay", "bulkOrders"}
OnRoute(kind, pc) ==
    \/ kind = "checkout" /\ pc \in CheckoutSteps
    \/ kind = "gift" /\ pc \in GiftSteps
    \/ kind = "bulk" /\ pc \in BulkSteps
    \/ kind = "payout" /\ pc = "payout"

\* A request under way belongs to a customer, has something in its cart and is
\* at a step of its route.
UnderWay ==
    \A r \in Requests : req[r].pc \notin Resting =>
        req[r].user \in Users /\ req[r].cart # {} /\ OnRoute(req[r].kind, req[r].pc)

\* The order that a request settles has been inserted.
SettledExists ==
    \A r \in Requests : req[r].pc = "settle" =>
        orders[<<r, ProductOf(req[r].cart)>>] \in Row

TypedInv == TypeOK /\ UnderWay /\ SettledExists

\* What a step of request r leaves alone.
Alone(r) == req' \in [Requests -> Activity] /\ \A q \in Requests \ {r} : req'[q] = req[q]
Owned(r) == /\ req'[r].user = req[r].user /\ req'[r].cart = req[r].cart
            /\ req'[r].kind = req[r].kind /\ req'[r].method = req[r].method
Priced(r) == /\ req'[r].price = req[r].price /\ req'[r].promo = req[r].promo
             /\ req'[r].points = req[r].points

\* A member of a cart that is not empty is a product.
LEMMA ProductOfCart ==
    ASSUME NEW cart \in SUBSET Products, cart # {}
    PROVE  ProductOf(cart) \in cart /\ ProductOf(cart) \in Products
  BY DEF ProductOf

\* getRank answers one of the four ranks.
LEMMA RankOfSpending ==
    ASSUME NEW spent \in Int
    PROVE  GetRank(spent) \in Ranks
  BY DEF GetRank, Ranks

LEMMA FreshTyped == Fresh \in Activity /\ Fresh.pc = "idle"
  BY SMTT(30) DEF Fresh, Activity, Steps, AllKinds

\* Finishing a request disturbs no other request.
LEMMA FinishMoves ==
    ASSUME req \in [Requests -> Activity], NEW r \in Requests, Finish(r)
    PROVE  Alone(r) /\ req'[r].pc = "done"
  <1> DEFINE finished == [Fresh EXCEPT !.pc = "done"]
  <1>1. finished \in Activity /\ finished.pc = "done"
    BY FreshTyped DEF Activity, Steps
  <1>2. req' = [req EXCEPT ![r] = finished]
    BY DEF Finish
  <1> HIDE DEF finished
  <1> QED  BY <1>1, <1>2 DEF Alone

\* Moving a request to another step keeps everything else about it.
LEMMA GoToMoves ==
    ASSUME req \in [Requests -> Activity], NEW r \in Requests, NEW pc \in Steps, GoTo(r, pc)
    PROVE  Alone(r) /\ Owned(r) /\ Priced(r) /\ req'[r].pc = pc
  <1> DEFINE moved == [req[r] EXCEPT !.pc = pc]
  <1>1. /\ moved \in Activity
        /\ moved.pc = pc /\ moved.user = req[r].user /\ moved.cart = req[r].cart
        /\ moved.kind = req[r].kind /\ moved.method = req[r].method
        /\ moved.price = req[r].price /\ moved.promo = req[r].promo
        /\ moved.points = req[r].points
    BY DEF Activity
  <1>2. req' = [req EXCEPT ![r] = moved]
    BY DEF GoTo
  <1> HIDE DEF moved
  <1> QED  BY <1>1, <1>2 DEF Alone, Owned, Priced

\* A request arrives with nothing priced, at the first step of its route.
LEMMA ArrivalMoves ==
    ASSUME TypedInv, NEW r \in Requests, RequestArrives(r)
    PROVE  /\ Alone(r) /\ req[r].pc = "idle" /\ req'[r].kind \in Kinds
           /\ req'[r].user \in Users /\ req'[r].cart # {}
           /\ OnRoute(req'[r].kind, req'[r].pc)
           /\ req'[r].pc \in {"promo", "session", "bulkRead", "bulkOrders", "giftRead", "payout"}
           /\ req'[r].promo = FALSE
  <1>1. PICK kind \in Kinds, u \in Users, m \in Methods, promo \in BOOLEAN,
             w \in PointsAsked, cart \in SUBSET Products :
          /\ cart # {}
          /\ kind # "bulk" => Cardinality(cart) = 1
          /\ kind # "checkout" => w = 0
          /\ kind \in {"gift", "payout"} => ~promo /\ m = "WALLET"
          /\ req' = [req EXCEPT ![r] = Asked(kind, u, m, promo, w, cart)]
    BY DEF RequestArrives
  <1> DEFINE pc == FirstStep(kind, m, promo)
             new == Asked(kind, u, m, promo, w, cart)
  <1>2. kind \in AllKinds /\ m \in {"WALLET", "BAKONG"} /\ w \in Nat
    BY CheckoutAssumption
  <1>3. /\ pc \in {"promo", "session", "bulkRead", "bulkOrders", "giftRead", "payout"}
        /\ OnRoute(kind, pc)
    BY <1>2 DEF FirstStep, AfterPromo, AllKinds, OnRoute, CheckoutSteps, GiftSteps, BulkSteps
  <1> HIDE DEF pc
  <1>4. pc \in Steps
    BY <1>3 DEF Steps
  <1>5. new = [pc |-> pc, kind |-> kind, user |-> u, cart |-> cart,
               method |-> m, wants |-> w, price |-> 0,
               promo |-> FALSE, member |-> FALSE, points |-> 0, seen |-> 0]
    BY DEF Asked, pc
  <1> HIDE DEF new
  <1>6. /\ new \in Activity /\ new.pc = pc /\ new.user = u /\ new.cart = cart
        /\ new.kind = kind /\ new.promo = FALSE
    BY <1>2, <1>4, <1>5, SMTT(30) DEF Activity
  <1>7. Alone(r) /\ req'[r] = new
    BY <1>1, <1>6 DEF new, TypedInv, TypeOK, Alone
  <1>8. req[r].pc = "idle"
    BY DEF RequestArrives
  <1> QED  BY <1>1, <1>3, <1>6, <1>7, <1>8

LEMMA ReadPromoMoves ==
    ASSUME TypedInv, NEW r \in Requests, ReadPromo(r)
    PROVE  /\ Alone(r) /\ Owned(r) /\ req'[r].price = req[r].price /\ req'[r].points = req[r].points
           /\ \/ req'[r].pc = "countUse"
              \/ ~req'[r].promo /\ req'[r].pc = AfterPromo(req[r].kind, req[r].method)
           /\ req[r].kind \in {"checkout", "bulk"}
  <1>1. req[r] \in Activity /\ req[r].pc = "promo" /\ req[r].kind \in {"checkout", "bulk"}
    BY DEF ReadPromo, TypedInv, TypeOK, UnderWay, OnRoute, Resting, GiftSteps
  <1>2. PICK usable \in BOOLEAN : usable = PromoUsable(r)
    BY DEF PromoUsable
  <1> DEFINE pc == IF usable THEN "countUse" ELSE AfterPromo(req[r].kind, req[r].method)
             new == [req[r] EXCEPT !.promo = usable, !.pc = pc]
  <1>3. pc \in Steps
    BY <1>1 DEF AfterPromo, Steps
  <1>4. req' = [req EXCEPT ![r] = new]
    BY <1>2 DEF ReadPromo, TypedInv, TypeOK
  <1>5. pc = "countUse" \/ (~usable /\ pc = AfterPromo(req[r].kind, req[r].method))
    OBVIOUS
  <1> HIDE DEF pc
  <1>6. /\ new \in Activity /\ new.pc = pc /\ new.user = req[r].user /\ new.cart = req[r].cart
        /\ new.kind = req[r].kind /\ new.method = req[r].method /\ new.price = req[r].price
        /\ new.points = req[r].points /\ new.promo = usable
    BY <1>1, <1>3 DEF Activity
  <1> HIDE DEF new
  <1>7. Alone(r) /\ req'[r] = new
    BY <1>4, <1>6 DEF Alone, TypedInv, TypeOK
  <1> QED  BY <1>1, <1>5, <1>6, <1>7 DEF Owned

LEMMA ReadSessionMoves ==
    ASSUME TypedInv, NEW r \in Requests, ReadSession(r)
    PROVE  /\ Alone(r) /\ Owned(r) /\ req'[r].pc = "price"
           /\ req'[r].promo = req[r].promo
  <1>1. req[r] \in Activity /\ req[r].user \in Users
    BY DEF ReadSession, TypedInv, TypeOK, UnderWay, Resting
  <1> DEFINE used == IF req[r].wants > 0 THEN Least(req[r].wants, points[req[r].user]) ELSE 0
             new == [req[r] EXCEPT !.pc = "price", !.points = used]
  <1>2. used \in Int
    BY <1>1 DEF TypedInv, TypeOK, Activity, Least
  <1>3. req' = [req EXCEPT ![r] = new]
    BY DEF ReadSession, TypedInv, TypeOK
  <1> HIDE DEF used
  <1>4. /\ new \in Activity /\ new.pc = "price" /\ new.user = req[r].user /\ new.cart = req[r].cart
        /\ new.kind = req[r].kind /\ new.method = req[r].method /\ new.promo = req[r].promo
    BY <1>1, <1>2 DEF Activity, Steps
  <1> HIDE DEF new
  <1>5. Alone(r) /\ req'[r] = new
    BY <1>3, <1>4 DEF Alone, TypedInv, TypeOK
  <1> QED  BY <1>4, <1>5 DEF Owned

\* The price is never negative; the wallet is asked for it if it is not zero.
LEMMA CalculatePriceMoves ==
    ASSUME TypedInv, NEW r \in Requests, CalculatePrice(r)
    PROVE  /\ Alone(r) /\ Owned(r) /\ req'[r].promo = req[r].promo /\ req'[r].points = req[r].points
           /\ req'[r].price \in Int /\ req'[r].price >= 0
           /\ \/ req'[r].pc = "deduct" /\ req'[r].method = "WALLET" /\ req'[r].price > 0
              \/ req'[r].pc = "create" /\ ~(req'[r].method = "WALLET" /\ req'[r].price > 0)
  <1>1. req[r] \in Activity /\ req[r].cart # {}
    BY DEF CalculatePrice, TypedInv, TypeOK, UnderWay, Resting
  <1> DEFINE p == ProductOf(req[r].cart)
             promoPrice == PriceOf[p]
                 - IF req[r].promo THEN Least(PromoDiscount, PriceOf[p]) ELSE 0
             first == ~HasBoughtBefore(req[r].user, p)
             memberPrice == promoPrice - IF first THEN MemberDiscount(promoPrice) ELSE 0
             price == Positive(memberPrice - req[r].points)
             pc == IF req[r].method = "WALLET" /\ price > 0 THEN "deduct" ELSE "create"
  <1>2. PICK member \in BOOLEAN : member = first
    OBVIOUS
  <1> DEFINE new == [req[r] EXCEPT !.price = price, !.member = member, !.pc = pc]
  <1>3. PriceOf[p] \in Nat
    BY <1>1, ProductOfCart, CheckoutAssumption DEF Activity
  <1>4. promoPrice \in Int
    BY <1>3, CheckoutAssumption DEF Least
  <1> HIDE DEF promoPrice
  <1>5. memberPrice \in Int
    BY <1>4 DEF MemberDiscount
  <1> HIDE DEF memberPrice
  <1>6. price \in Int /\ price >= 0
    BY <1>1, <1>5 DEF Positive, Activity
  <1>7. req' = [req EXCEPT ![r] = new]
    BY <1>2 DEF CalculatePrice, TypedInv, TypeOK, promoPrice, memberPrice
  <1> HIDE DEF price
  <1>8. \/ pc = "deduct" /\ req[r].method = "WALLET" /\ price > 0
        \/ pc = "create" /\ ~(req[r].method = "WALLET" /\ price > 0)
    OBVIOUS
  <1> HIDE DEF pc, first, p
  <1>9. /\ new \in Activity /\ new.pc = pc /\ new.user = req[r].user /\ new.cart = req[r].cart
        /\ new.kind = req[r].kind /\ new.method = req[r].method /\ new.promo = req[r].promo
        /\ new.points = req[r].points /\ new.price = price
    <2>1. pc \in Steps
      BY <1>8 DEF Steps
    <2> QED  BY <1>1, <1>6, <2>1 DEF Activity
  <1> HIDE DEF new
  <1>10. Alone(r) /\ req'[r] = new
    BY <1>7, <1>9 DEF Alone, TypedInv, TypeOK
  <1> QED  BY <1>6, <1>8, <1>9, <1>10 DEF Owned

LEMMA ReadTotalMoves ==
    ASSUME TypedInv, NEW r \in Requests, ReadTotalSpent(r)
    PROVE  Alone(r) /\ Owned(r) /\ Priced(r) /\ req'[r].pc = "total"
  <1>1. req[r] \in Activity /\ req[r].user \in Users
    BY DEF ReadTotalSpent, TypedInv, TypeOK, UnderWay, Resting
  <1> DEFINE new == [req[r] EXCEPT !.pc = "total", !.seen = totalSpent[req[r].user]]
  <1>2. req' = [req EXCEPT ![r] = new]
    BY DEF ReadTotalSpent, TypedInv, TypeOK
  <1>3. totalSpent[req[r].user] \in Int
    BY <1>1 DEF TypedInv, TypeOK
  <1>4. /\ new \in Activity /\ new.pc = "total" /\ new.user = req[r].user /\ new.cart = req[r].cart
        /\ new.kind = req[r].kind /\ new.method = req[r].method /\ new.price = req[r].price
        /\ new.promo = req[r].promo /\ new.points = req[r].points
    BY <1>1, <1>3 DEF Activity, Steps
  <1> HIDE DEF new
  <1>5. Alone(r) /\ req'[r] = new
    BY <1>2, <1>4 DEF Alone, TypedInv, TypeOK
  <1> QED  BY <1>4, <1>5 DEF Owned, Priced

\* A row is inserted for a request, or one that exists gets another status.
LEMMA RowInserted ==
    ASSUME TypedInv, NEW k \in Requests \X Products, NEW row \in Row,
           orders' = [orders EXCEPT ![k] = row]
    PROVE  /\ orders' \in [Requests \X Products -> Row \cup {NoOrder}]
           /\ orders'[k] = row /\ \A j : j # k => orders'[j] = orders[j]
           /\ \A j : orders[j] \in Row => orders'[j] \in Row
  BY DEF TypedInv, TypeOK

LEMMA RowOfRequest ==
    ASSUME TypedInv, NEW r \in Requests, NEW amount \in Int, NEW status \in Status,
           req[r].pc \notin Resting
    PROVE  LET row == NewRow(r, amount, status) IN
           /\ row \in Row /\ row.user = req[r].user /\ row.method = req[r].method
           /\ row.amount = amount /\ row.status = status
           /\ row.promo = req[r].promo /\ row.points = req[r].points
  <1>1. req[r] \in Activity /\ req[r].user \in Users
    BY DEF TypedInv, TypeOK, UnderWay
  <1> QED  BY <1>1 DEF NewRow, Row, Activity

\* The order of a key that a worker or the payment of Bakong moves.
LEMMA OrderMoves ==
    ASSUME TypedInv, NEW k \in Requests \X Products,
           BakongPaymentConfirmed(k) \/ WorkerStep(k)
    PROVE  /\ UNCHANGED <<wallet, points, totalSpent, vipRank, credited, usedCount, req>>
           /\ orders[k] \in Row
           /\ \E row \in Row :
                 /\ orders' = [orders EXCEPT ![k] = row]
                 /\ row.user = orders[k].user /\ row.method = orders[k].method
                 /\ row.amount = orders[k].amount /\ row.points = orders[k].points
                 /\ row.promo = orders[k].promo /\ row.status # "PENDING"
                 /\ orders[k].method = "WALLET" => orders[k].status # "PENDING"
  <1>1. /\ orders[k] \in Row
        /\ UNCHANGED <<wallet, points, totalSpent, vipRank, credited, usedCount, req>>
    BY DEF BakongPaymentConfirmed, WorkerStep, WorkerTakesOrder,
           WorkerDeliversOrder, Exists, userVars, TypedInv, TypeOK
  <1>2. PICK s \in {"PAID", "PROCESSING", "DELIVERED"}, w \in BOOLEAN :
            \/ orders' = [orders EXCEPT ![k] = [orders[k] EXCEPT !.status = s]]
            \/ orders' = [orders EXCEPT ![k] = [orders[k] EXCEPT !.status = s, !.worker = w]]
    <2>1. CASE BakongPaymentConfirmed(k)
      BY <2>1 DEF BakongPaymentConfirmed, SetStatus
    <2>2. CASE WorkerTakesOrder(k)
      BY <1>1, <2>2 DEF WorkerTakesOrder, TypedInv, TypeOK
    <2>3. CASE WorkerDeliversOrder(k)
      BY <1>1, <2>3 DEF WorkerDeliversOrder, TypedInv, TypeOK
    <2> QED  BY <2>1, <2>2, <2>3 DEF WorkerStep
  <1>0. PICK old \in Row : old = orders[k]
    BY <1>1
  <1>3. PICK row : /\ orders' = [orders EXCEPT ![k] = row]
                   /\ \/ row = [old EXCEPT !.status = s]
                      \/ row = [old EXCEPT !.status = s, !.worker = w]
    BY <1>0, <1>2
  <1>4. /\ row \in Row /\ row.status = s /\ row.user = orders[k].user
        /\ row.method = orders[k].method /\ row.amount = orders[k].amount
        /\ row.points = orders[k].points /\ row.promo = orders[k].promo
    <2>1. s \in Status
      BY DEF Status
    <2>2. /\ row \in Row /\ row.status = s /\ row.user = old.user /\ row.method = old.method
          /\ row.amount = old.amount /\ row.points = old.points /\ row.promo = old.promo
      <3>1. CASE row = [old EXCEPT !.status = s]
        BY <2>1, <3>1 DEF Row
      <3>2. CASE row = [old EXCEPT !.status = s, !.worker = w]
        BY <2>1, <3>2 DEF Row
      <3> QED  BY <1>3, <3>1, <3>2
    <2> QED  BY <1>0, <2>2
  <1>5. orders[k].method = "WALLET" => orders[k].status # "PENDING"
    BY DEF BakongPaymentConfirmed, WorkerStep, WorkerTakesOrder, WorkerDeliversOrder
  <1> QED  BY <1>1, <1>3, <1>4, <1>5

-----------------------------------------------------------------------------
(* The rows keep their types, on every route.                              *)

LEMMA UnderWayRequest ==
    ASSUME TypedInv, NEW r \in Requests, req[r].pc \notin Resting
    PROVE  /\ req[r] \in Activity /\ req[r].user \in Users /\ req[r].cart # {}
           /\ ProductOf(req[r].cart) \in Products /\ ProductOf(req[r].cart) \in req[r].cart
           /\ <<r, ProductOf(req[r].cart)>> \in Requests \X Products
           /\ OnRoute(req[r].kind, req[r].pc)
           /\ req[r].price \in Int /\ req[r].points \in Int /\ req[r].promo \in BOOLEAN
           /\ PriceOf[ProductOf(req[r].cart)] \in Nat
  <1>1. /\ req[r] \in Activity /\ req[r].user \in Users /\ req[r].cart # {}
        /\ OnRoute(req[r].kind, req[r].pc)
    BY DEF TypedInv, TypeOK, UnderWay
  <1>2. /\ req[r].cart \in SUBSET Products
        /\ req[r].price \in Int /\ req[r].points \in Int /\ req[r].promo \in BOOLEAN
    BY <1>1 DEF Activity
  <1>3. ProductOf(req[r].cart) \in Products /\ ProductOf(req[r].cart) \in req[r].cart
    BY <1>1, <1>2, ProductOfCart
  <1>4. PriceOf[ProductOf(req[r].cart)] \in Nat
    BY <1>3, CheckoutAssumption
  <1> QED  BY <1>1, <1>2, <1>3, <1>4

\* A request that is on its way after a step of it keeps the invariant.
LEMMA TypedKept ==
    ASSUME TypedInv, NEW r \in Requests, Alone(r),
           wallet' \in [Users -> Int], points' \in [Users -> Int],
           totalSpent' \in [Users -> Int], vipRank' \in [Users -> Ranks],
           usedCount' \in Nat, credited' \in [Users -> Nat],
           orders' \in [Requests \X Products -> Row \cup {NoOrder}],
           \A j : orders[j] \in Row => orders'[j] \in Row,
           req'[r].pc \notin Resting =>
             req'[r].user \in Users /\ req'[r].cart # {} /\ OnRoute(req'[r].kind, req'[r].pc),
           req'[r].pc = "settle" => orders'[<<r, ProductOf(req'[r].cart)>>] \in Row
    PROVE  TypedInv'
  <1>1. TypeOK'
    BY DEF TypeOK, Alone
  <1>2. UnderWay'
    <2> SUFFICES ASSUME NEW q \in Requests, req'[q].pc \notin Resting
                 PROVE  req'[q].user \in Users /\ req'[q].cart # {}
                        /\ OnRoute(req'[q].kind, req'[q].pc)
      BY DEF UnderWay, OnRoute
    <2>1. CASE q = r
      BY <2>1
    <2>2. CASE q # r
      BY <2>2 DEF Alone, TypedInv, UnderWay
    <2> QED  BY <2>1, <2>2
  <1>3. SettledExists'
    <2> SUFFICES ASSUME NEW q \in Requests, req'[q].pc = "settle"
                 PROVE  orders'[<<q, ProductOf(req'[q].cart)>>] \in Row
      BY DEF SettledExists, ProductOf
    <2>1. CASE q = r
      BY <2>1
    <2>2. CASE q # r
      BY <2>2 DEF Alone, TypedInv, SettledExists
    <2> QED  BY <2>1, <2>2
  <1> QED  BY <1>1, <1>2, <1>3 DEF TypedInv

\* A step that moves only request r, not to the settling of its order.
LEMMA OnlyRequestMoves ==
    ASSUME TypedInv, NEW r \in Requests, Alone(r),
           UNCHANGED <<wallet, points, totalSpent, vipRank, credited, usedCount, orders>>,
           req'[r].pc # "settle",
           req'[r].pc \notin Resting =>
             req'[r].user \in Users /\ req'[r].cart # {} /\ OnRoute(req'[r].kind, req'[r].pc)
    PROVE  TypedInv'
  <1>1. /\ wallet' \in [Users -> Int] /\ points' \in [Users -> Int]
        /\ totalSpent' \in [Users -> Int] /\ vipRank' \in [Users -> Ranks]
        /\ usedCount' \in Nat /\ credited' \in [Users -> Nat]
        /\ orders' \in [Requests \X Products -> Row \cup {NoOrder}]
        /\ \A j : orders[j] \in Row => orders'[j] \in Row
    BY DEF TypedInv, TypeOK
  <1> QED  BY <1>1, TypedKept

\* What a bulk order costs is a number of cents.
LEMMA BulkTotalIsInt ==
    ASSUME TypedInv, NEW r \in Requests
    PROVE  BulkTotal(r) \in Int
  <1> DEFINE cart == req[r].cart
             all == SumFunctionOnSet(PriceOf, cart)
  <1>1. cart \in SUBSET Products
    BY DEF TypedInv, TypeOK, Activity
  <1>2. IsFiniteSet(cart) /\ IntsOn(PriceOf, cart)
    BY <1>1, CheckoutAssumption, FS_Subset DEF IntsOn
  <1>3. all \in Int
    BY <1>2, SumIsInt
  <1> HIDE DEF all
  <1>4. all - (IF req[r].promo THEN PromoDiscount ELSE 0) \in Int
    BY <1>3, CheckoutAssumption
  <1> QED  BY <1>4 DEF BulkTotal, Positive, all

LEMMA TypedInit == Init => TypedInv
  <1> SUFFICES ASSUME Init PROVE TypedInv
    OBVIOUS
  <1>1. TypeOK
    BY FreshTyped, CheckoutAssumption DEF Init, TypeOK, Ranks
  <1>2. \A r \in Requests : req[r].pc = "idle"
    BY FreshTyped DEF Init
  <1> QED  BY <1>1, <1>2 DEF TypedInv, UnderWay, SettledExists, Resting

\* The promo code, the session, the price and the total are read.
LEMMA ReadsTyped ==
    ASSUME TypedInv, NEW r \in Requests,
           \/ ReadPromo(r) \/ ReadSession(r) \/ CalculatePrice(r) \/ ReadTotalSpent(r)
           \/ ReadGiftWallet(r) \/ ReadBulkWallet(r)
    PROVE  TypedInv'
  <1>1. UNCHANGED <<wallet, points, totalSpent, vipRank, credited, usedCount, orders>>
    BY DEF ReadPromo, ReadSession, CalculatePrice, ReadTotalSpent, ReadGiftWallet,
           ReadBulkWallet, userVars
  <1>2. req[r].pc \notin Resting
    BY DEF ReadPromo, ReadSession, CalculatePrice, ReadTotalSpent, ReadGiftWallet,
           ReadBulkWallet, Resting
  <1>3. req[r].user \in Users /\ req[r].cart # {} /\ OnRoute(req[r].kind, req[r].pc)
    BY <1>2, UnderWayRequest
  <1>4. CASE ReadPromo(r)
    <2>1. /\ req'[r].pc \in {"countUse", AfterPromo(req[r].kind, req[r].method)}
          /\ req[r].kind \in {"checkout", "bulk"} /\ Alone(r) /\ Owned(r)
      BY <1>4, ReadPromoMoves
    <2>2. OnRoute(req'[r].kind, req'[r].pc) /\ req'[r].pc # "settle"
      BY <2>1 DEF AfterPromo, OnRoute, CheckoutSteps, BulkSteps, Owned
    <2> QED  BY <1>1, <1>3, <2>1, <2>2, OnlyRequestMoves DEF Owned
  <1>5. CASE ReadSession(r)
    <2>1. /\ Alone(r) /\ Owned(r) /\ req'[r].pc = "price" /\ req[r].pc = "session"
      BY <1>5, ReadSessionMoves DEF ReadSession
    <2>2. OnRoute(req'[r].kind, req'[r].pc)
      BY <1>3, <2>1 DEF OnRoute, CheckoutSteps, GiftSteps, BulkSteps, Owned
    <2> QED  BY <1>1, <1>3, <2>1, <2>2, OnlyRequestMoves DEF Owned
  <1>6. CASE CalculatePrice(r)
    <2>1. /\ Alone(r) /\ Owned(r) /\ req'[r].pc \in {"deduct", "create"} /\ req[r].pc = "price"
      BY <1>6, CalculatePriceMoves DEF CalculatePrice
    <2>2. OnRoute(req'[r].kind, req'[r].pc) /\ req'[r].pc # "settle"
      BY <1>3, <2>1 DEF OnRoute, CheckoutSteps, GiftSteps, BulkSteps, Owned
    <2> QED  BY <1>1, <1>3, <2>1, <2>2, OnlyRequestMoves DEF Owned
  <1>7. CASE ReadTotalSpent(r)
    <2>1. /\ Alone(r) /\ Owned(r) /\ req'[r].pc = "total" /\ req[r].pc = "readTotal"
      BY <1>7, ReadTotalMoves DEF ReadTotalSpent
    <2>2. OnRoute(req'[r].kind, req'[r].pc)
      BY <1>3, <2>1 DEF OnRoute, CheckoutSteps, GiftSteps, BulkSteps, Owned
    <2> QED  BY <1>1, <1>3, <2>1, <2>2, OnlyRequestMoves DEF Owned
  <1>8. CASE ReadGiftWallet(r) \/ ReadBulkWallet(r)
    <2>1. req \in [Requests -> Activity] /\ "giftPay" \in Steps /\ "bulkPay" \in Steps
      BY DEF TypedInv, TypeOK, Steps
    <2>2. CASE Finish(r)
      BY <1>1, <2>1, <2>2, FinishMoves, OnlyRequestMoves DEF Resting
    <2>3. CASE GoTo(r, "giftPay") /\ req[r].pc = "giftRead"
      <3>1. Alone(r) /\ Owned(r) /\ req'[r].pc = "giftPay"
        BY <2>1, <2>3, GoToMoves
      <3>2. OnRoute(req'[r].kind, req'[r].pc)
        BY <1>3, <2>3, <3>1 DEF OnRoute, CheckoutSteps, GiftSteps, BulkSteps, Owned
      <3> QED  BY <1>1, <1>3, <3>1, <3>2, OnlyRequestMoves DEF Owned
    <2>4. CASE GoTo(r, "bulkPay") /\ req[r].pc = "bulkRead"
      <3>1. Alone(r) /\ Owned(r) /\ req'[r].pc = "bulkPay"
        BY <2>1, <2>4, GoToMoves
      <3>2. OnRoute(req'[r].kind, req'[r].pc)
        BY <1>3, <2>4, <3>1 DEF OnRoute, CheckoutSteps, GiftSteps, BulkSteps, Owned
      <3> QED  BY <1>1, <1>3, <3>1, <3>2, OnlyRequestMoves DEF Owned
    <2> QED  BY <1>8, <2>2, <2>3, <2>4 DEF ReadGiftWallet, ReadBulkWallet
  <1> QED  BY <1>4, <1>5, <1>6, <1>7, <1>8

\* A request arrives, is refused or fails.
LEMMA EndsTyped ==
    ASSUME TypedInv, NEW r \in Requests,
           RequestArrives(r) \/ RefuseBakongBulk(r) \/ RequestFails(r)
    PROVE  TypedInv'
  <1>1. UNCHANGED <<wallet, points, totalSpent, vipRank, credited, usedCount, orders>>
    BY DEF RequestArrives, RefuseBakongBulk, RequestFails, userVars
  <1>2. CASE RequestArrives(r)
    BY <1>1, <1>2, ArrivalMoves, OnlyRequestMoves
  <1>3. CASE RefuseBakongBulk(r) \/ RequestFails(r)
    <2>1. Alone(r) /\ req'[r].pc = "done"
      BY <1>3, FinishMoves DEF RefuseBakongBulk, RequestFails, TypedInv, TypeOK
    <2> QED  BY <1>1, <2>1, OnlyRequestMoves DEF Resting
  <1> QED  BY <1>2, <1>3

\* A counter of the customer's or of the promo code's row is changed.
LEMMA CountersTyped ==
    ASSUME TypedInv, NEW r \in Requests,
           \/ CountPromoUse(r) \/ DeductWallet(r) \/ DeductPoints(r)
           \/ UpdateUserTotalSpent(r) \/ PayGift(r) \/ PayBulk(r) \/ PayoutReferral(r)
    PROVE  TypedInv'
  <1> DEFINE u == req[r].user
  <1>1. req[r].pc \notin Resting /\ UNCHANGED orders
    BY DEF CountPromoUse, DeductWallet, DeductPoints, UpdateUserTotalSpent, PayGift,
           PayBulk, PayoutReferral, Resting
  <1>2. /\ req[r] \in Activity /\ u \in Users /\ req[r].cart # {}
        /\ OnRoute(req[r].kind, req[r].pc)
        /\ req[r].price \in Int /\ req[r].points \in Int
        /\ PriceOf[ProductOf(req[r].cart)] \in Nat
    BY <1>1, UnderWayRequest
  <1>3. /\ wallet' \in [Users -> Int] /\ points' \in [Users -> Int]
        /\ totalSpent' \in [Users -> Int] /\ vipRank' \in [Users -> Ranks]
        /\ usedCount' \in Nat /\ credited' \in [Users -> Nat]
        /\ orders' \in [Requests \X Products -> Row \cup {NoOrder}]
        /\ \A j : orders[j] \in Row => orders'[j] \in Row
    <2>1. wallet' \in [Users -> Int]
      <3>1. BulkTotal(r) \in Int /\ GiftPrice(r) \in Int
        BY <1>2, BulkTotalIsInt DEF GiftPrice
      <3>2. \/ wallet' = wallet
            \/ \E x \in Int : wallet' = [wallet EXCEPT ![u] = wallet[u] - x]
            \/ wallet' = [wallet EXCEPT ![u] = wallet[u] + Payout]
        <4>1. CASE CountPromoUse(r) \/ DeductPoints(r) \/ UpdateUserTotalSpent(r)
          BY <4>1 DEF CountPromoUse, DeductPoints, UpdateUserTotalSpent, userVars
        <4>2. CASE DeductWallet(r)
          BY <1>2, <4>2 DEF DeductWallet
        <4>3. CASE PayGift(r)
          BY <3>1, <4>3 DEF PayGift
        <4>4. CASE PayBulk(r)
          BY <3>1, <4>4 DEF PayBulk
        <4>5. CASE PayoutReferral(r)
          BY <4>5 DEF PayoutReferral
        <4> QED  BY <4>1, <4>2, <4>3, <4>4, <4>5
      <3> QED  BY <1>2, <3>2, CheckoutAssumption DEF TypedInv, TypeOK
    <2>2. points' \in [Users -> Int] /\ credited' \in [Users -> Nat] /\ usedCount' \in Nat
      BY <1>2, CheckoutAssumption DEF CountPromoUse, DeductWallet, DeductPoints,
         UpdateUserTotalSpent, PayGift, PayBulk, PayoutReferral, TypedInv, TypeOK, userVars
    <2>3. totalSpent' \in [Users -> Int] /\ vipRank' \in [Users -> Ranks]
      <3>1. CASE UpdateUserTotalSpent(r)
        <4>1. GetRank(req[r].seen + req[r].price) \in Ranks
          BY <1>2, RankOfSpending DEF Activity
        <4> QED  BY <1>2, <3>1, <4>1 DEF UpdateUserTotalSpent, TypedInv, TypeOK
      <3>2. CASE ~UpdateUserTotalSpent(r)
        <4>1. UNCHANGED <<totalSpent, vipRank>>
          BY <3>2 DEF CountPromoUse, DeductWallet, DeductPoints, PayGift, PayBulk,
             PayoutReferral, userVars
        <4> QED  BY <4>1 DEF TypedInv, TypeOK
      <3> QED  BY <3>1, <3>2
    <2> QED  BY <1>1, <2>1, <2>2, <2>3 DEF TypedInv, TypeOK
  <1>4. PICK pc \in Steps :
            /\ \/ Finish(r)
               \/ GoTo(r, pc)
            /\ OnRoute(req[r].kind, pc) /\ pc # "settle"
    <2>1. CASE CountPromoUse(r)
      <3> DEFINE next == AfterPromo(req[r].kind, req[r].method)
      <3>1. GoTo(r, next) /\ req[r].pc = "countUse"
        BY <2>1 DEF CountPromoUse
      <3>2. next \in Steps /\ OnRoute(req[r].kind, next) /\ next # "settle"
        BY <1>2, <3>1 DEF AfterPromo, OnRoute, CheckoutSteps, GiftSteps, BulkSteps, Steps
      <3> QED  BY <3>1, <3>2
    <2>2. CASE DeductWallet(r)
      <3>1. /\ "create" \in Steps /\ OnRoute(req[r].kind, "create")
            /\ Finish(r) \/ GoTo(r, "create")
        BY <1>2, <2>2 DEF DeductWallet, Steps, OnRoute, CheckoutSteps, GiftSteps, BulkSteps
      <3> QED  BY <3>1
    <2>3. CASE DeductPoints(r)
      <3>1. /\ "readTotal" \in Steps /\ OnRoute(req[r].kind, "readTotal")
            /\ GoTo(r, "readTotal")
        BY <1>2, <2>3 DEF DeductPoints, Steps, OnRoute, CheckoutSteps, GiftSteps, BulkSteps
      <3> QED  BY <3>1
    <2>4. CASE PayGift(r)
      <3>1. /\ "giftOrder" \in Steps /\ OnRoute(req[r].kind, "giftOrder")
            /\ GoTo(r, "giftOrder")
        BY <1>2, <2>4 DEF PayGift, Steps, OnRoute, CheckoutSteps, GiftSteps, BulkSteps
      <3> QED  BY <3>1
    <2>5. CASE PayBulk(r)
      <3>1. /\ "bulkOrders" \in Steps /\ OnRoute(req[r].kind, "bulkOrders")
            /\ GoTo(r, "bulkOrders")
        BY <1>2, <2>5 DEF PayBulk, Steps, OnRoute, CheckoutSteps, GiftSteps, BulkSteps
      <3> QED  BY <3>1
    <2>6. CASE UpdateUserTotalSpent(r) \/ PayoutReferral(r)
      <3>1. Finish(r) /\ req[r].pc \in Steps /\ req[r].pc # "settle"
        BY <1>2, <2>6 DEF UpdateUserTotalSpent, PayoutReferral, Activity
      <3> QED  BY <1>2, <3>1
    <2> QED  BY <2>1, <2>2, <2>3, <2>4, <2>5, <2>6
  <1>5. CASE Finish(r)
    <2>1. Alone(r) /\ req'[r].pc = "done"
      BY <1>5, FinishMoves DEF TypedInv, TypeOK
    <2> QED  BY <1>3, <2>1, TypedKept DEF Resting
  <1>6. CASE GoTo(r, pc)
    <2>1. Alone(r) /\ Owned(r) /\ req'[r].pc = pc
      BY <1>6, GoToMoves DEF TypedInv, TypeOK
    <2> QED  BY <1>2, <1>3, <1>4, <2>1, TypedKept DEF Owned
  <1> QED  BY <1>4, <1>5, <1>6

\* A request inserts an order of its own: the row says what the request asked.
LEMMA InsertMoves ==
    ASSUME TypedInv, NEW r \in Requests, CreateOrder(r) \/ CreateGiftOrder(r)
    PROVE  \E amount \in Int, status \in Status, row \in Row :
              /\ orders' = [orders EXCEPT ![<<r, ProductOf(req[r].cart)>>] = row]
              /\ row.user = req[r].user /\ row.method = req[r].method
              /\ row.amount = amount /\ row.status = status
              /\ row.promo = req[r].promo /\ row.points = req[r].points
              /\ CreateGiftOrder(r) => amount = 0 /\ status = "PENDING"
              /\ CreateOrder(r) =>
                   /\ amount = req[r].price
                   /\ WalletDeducted(r) => status = "PAID"
                   /\ ~WalletDeducted(r) => status = "PENDING"
  <1> DEFINE amount == IF CreateOrder(r) THEN req[r].price ELSE 0
             status == IF CreateOrder(r) /\ WalletDeducted(r) THEN "PAID" ELSE "PENDING"
             row == NewRow(r, amount, status)
  <1>1. req[r].pc \notin Resting /\ ~(CreateOrder(r) /\ CreateGiftOrder(r))
    BY DEF CreateOrder, CreateGiftOrder, Resting
  <1>2. amount \in Int /\ status \in Status
    <2>1. amount \in {req[r].price, 0} /\ status \in {"PAID", "PENDING"}
      OBVIOUS
    <2> HIDE DEF amount, status
    <2>2. req[r].price \in Int
      BY <1>1, UnderWayRequest
    <2> QED  BY <2>1, <2>2 DEF Status
  <1>3. orders' = [orders EXCEPT ![<<r, ProductOf(req[r].cart)>>] = row]
    BY <1>1 DEF CreateOrder, CreateGiftOrder, Insert
  <1>4. /\ CreateGiftOrder(r) => amount = 0 /\ status = "PENDING"
        /\ CreateOrder(r) => /\ amount = req[r].price
                             /\ WalletDeducted(r) => status = "PAID"
                             /\ ~WalletDeducted(r) => status = "PENDING"
    BY <1>1
  <1> HIDE DEF amount, status
  <1>5. /\ row \in Row /\ row.user = req[r].user /\ row.method = req[r].method
        /\ row.amount = amount /\ row.status = status
        /\ row.promo = req[r].promo /\ row.points = req[r].points
    BY <1>1, <1>2, RowOfRequest
  <1> HIDE DEF row
  <1> QED  BY <1>2, <1>3, <1>4, <1>5

\* One order of a cart is inserted without the promo code.
LEMMA BulkInsertMoves ==
    ASSUME TypedInv, NEW r \in Requests, CreateBulkOrder(r)
    PROVE  \E p \in Products, row \in Row :
              /\ orders' = [orders EXCEPT ![<<r, p>>] = row]
              /\ row.user = req[r].user /\ row.promo = FALSE
  <1>1. req[r].pc \notin Resting
    BY DEF CreateBulkOrder, Resting
  <1>2. req[r].cart \in SUBSET Products /\ req[r].user \in Users
    BY <1>1, UnderWayRequest DEF Activity
  <1>3. PICK p \in req[r].cart :
            orders' = [orders EXCEPT
                ![<<r, p>>] = [NewRow(r, PriceOf[p], "PROCESSING") EXCEPT !.promo = FALSE]]
    BY DEF CreateBulkOrder, Insert
  <1>4. p \in Products /\ PriceOf[p] \in Int /\ "PROCESSING" \in Status
    BY <1>2, <1>3, CheckoutAssumption DEF Status
  <1>5. PICK old \in Row : old = NewRow(r, PriceOf[p], "PROCESSING") /\ old.user = req[r].user
    BY <1>1, <1>4, RowOfRequest
  <1>6. PICK row : row = [old EXCEPT !.promo = FALSE]
    OBVIOUS
  <1>7. row \in Row /\ row.user = old.user /\ row.promo = FALSE
    BY <1>6 DEF Row
  <1>8. orders' = [orders EXCEPT ![<<r, p>>] = row]
    BY <1>3, <1>5, <1>6
  <1> QED  BY <1>4, <1>5, <1>7, <1>8

\* The settling of an order keeps everything but its status.
LEMMA SettleMoves ==
    ASSUME TypedInv, NEW r \in Requests, SettleWalletOrder(r)
    PROVE  \E row \in Row :
              LET old == orders[<<r, ProductOf(req[r].cart)>>] IN
              /\ old \in Row
              /\ orders' = [orders EXCEPT ![<<r, ProductOf(req[r].cart)>>] = row]
              /\ row.user = old.user /\ row.method = old.method /\ row.amount = old.amount
              /\ row.points = old.points /\ row.promo = old.promo
              /\ row.status = "PROCESSING"
  <1>1. PICK old \in Row : old = orders[<<r, ProductOf(req[r].cart)>>]
    BY DEF SettleWalletOrder, TypedInv, SettledExists
  <1>2. PICK row : row = [old EXCEPT !.status = "PROCESSING"]
    OBVIOUS
  <1>3. /\ row \in Row /\ row.user = old.user /\ row.method = old.method
        /\ row.amount = old.amount /\ row.points = old.points /\ row.promo = old.promo
        /\ row.status = "PROCESSING"
    BY <1>2 DEF Row, Status
  <1>4. orders' = [orders EXCEPT ![<<r, ProductOf(req[r].cart)>>] =
                      [orders[<<r, ProductOf(req[r].cart)>>] EXCEPT !.status = "PROCESSING"]]
    BY DEF SettleWalletOrder, SetStatus
  <1> QED  BY <1>1, <1>2, <1>3, <1>4

\* Where a request goes once its order is inserted or settled.
LEMMA OrderStepMoves ==
    ASSUME TypedInv, NEW r \in Requests,
           CreateOrder(r) \/ CreateGiftOrder(r) \/ SettleWalletOrder(r)
    PROVE  /\ Alone(r) /\ req[r].pc \notin Resting
           /\ \/ req'[r].pc = "done" /\ ~SettleWalletOrder(r)
                 /\ (CreateOrder(r) => ~WalletDeducted(r))
              \/ CreateOrder(r) /\ WalletDeducted(r) /\ Owned(r) /\ Priced(r)
                 /\ req'[r].pc = "settle"
              \/ SettleWalletOrder(r) /\ Owned(r) /\ Priced(r)
                 /\ req'[r].pc = IF req[r].points > 0 THEN "points" ELSE "readTotal"
  <1> DEFINE next == IF req[r].points > 0 THEN "points" ELSE "readTotal"
  <1>1. /\ req[r].pc \notin Resting /\ req \in [Requests -> Activity]
        /\ "settle" \in Steps /\ next \in Steps
    BY DEF CreateOrder, CreateGiftOrder, SettleWalletOrder, Resting, TypedInv, TypeOK, Steps
  <1>2. /\ CreateOrder(r) => req[r].pc = "create"
        /\ CreateGiftOrder(r) => req[r].pc = "giftOrder"
        /\ SettleWalletOrder(r) => req[r].pc = "settle" /\ GoTo(r, next)
    BY DEF CreateOrder, CreateGiftOrder, SettleWalletOrder
  <1> HIDE DEF next
  <1>3. CASE CreateOrder(r) /\ WalletDeducted(r)
    <2>1. GoTo(r, "settle")
      BY <1>3 DEF CreateOrder
    <2> QED  BY <1>1, <1>3, <2>1, GoToMoves
  <1>4. CASE CreateOrder(r) /\ ~WalletDeducted(r)
    <2>1. Finish(r)
      BY <1>4 DEF CreateOrder
    <2> QED  BY <1>1, <1>2, <1>4, <2>1, FinishMoves
  <1>5. CASE CreateGiftOrder(r)
    <2>1. Finish(r)
      BY <1>5 DEF CreateGiftOrder
    <2> QED  BY <1>1, <1>2, <1>5, <2>1, FinishMoves
  <1>6. CASE SettleWalletOrder(r)
    BY <1>1, <1>2, <1>6, GoToMoves DEF next
  <1> QED  BY <1>3, <1>4, <1>5, <1>6

\* An order is inserted or changes its status.
LEMMA OrdersTyped ==
    ASSUME TypedInv, NEW r \in Requests,
           \/ CreateOrder(r) \/ CreateGiftOrder(r) \/ SettleWalletOrder(r)
           \/ CreateBulkOrder(r)
    PROVE  TypedInv'
  <1>1. UNCHANGED <<wallet, points, totalSpent, vipRank, credited, usedCount>>
    BY DEF CreateOrder, CreateGiftOrder, SettleWalletOrder, CreateBulkOrder, userVars
  <1>2. req[r].pc \notin Resting
    BY DEF CreateOrder, CreateGiftOrder, SettleWalletOrder, CreateBulkOrder, Resting
  <1>3. /\ req[r].user \in Users /\ req[r].cart # {} /\ OnRoute(req[r].kind, req[r].pc)
        /\ <<r, ProductOf(req[r].cart)>> \in Requests \X Products
    BY <1>2, UnderWayRequest
  <1>4. /\ wallet' \in [Users -> Int] /\ points' \in [Users -> Int]
        /\ totalSpent' \in [Users -> Int] /\ vipRank' \in [Users -> Ranks]
        /\ usedCount' \in Nat /\ credited' \in [Users -> Nat]
    BY <1>1 DEF TypedInv, TypeOK
  <1>5. CASE CreateOrder(r) \/ CreateGiftOrder(r) \/ SettleWalletOrder(r)
    <2>1. PICK row \in Row :
              orders' = [orders EXCEPT ![<<r, ProductOf(req[r].cart)>>] = row]
      BY <1>5, InsertMoves, SettleMoves
    <2>2. /\ orders' \in [Requests \X Products -> Row \cup {NoOrder}]
          /\ \A j : orders[j] \in Row => orders'[j] \in Row
          /\ orders'[<<r, ProductOf(req[r].cart)>>] \in Row
      BY <1>3, <2>1, RowInserted
    <2>3. CASE req'[r].pc = "done"
      BY <1>4, <1>5, <2>2, <2>3, OrderStepMoves, TypedKept DEF Resting
    <2>4. CASE req'[r].pc # "done"
      <3>1. /\ Alone(r) /\ Owned(r) /\ req'[r].pc \in {"settle", "points", "readTotal"}
            /\ CreateOrder(r) \/ SettleWalletOrder(r)
        BY <1>5, <2>4, OrderStepMoves
      <3>2. req[r].pc \in {"create", "settle"}
        BY <3>1 DEF CreateOrder, SettleWalletOrder
      <3>3. OnRoute(req'[r].kind, req'[r].pc)
        BY <1>3, <3>1, <3>2 DEF OnRoute, CheckoutSteps, GiftSteps, BulkSteps, Owned
      <3> QED  BY <1>3, <1>4, <2>2, <3>1, <3>3, TypedKept DEF Owned
    <2> QED  BY <2>3, <2>4
  <1>6. CASE CreateBulkOrder(r)
    <2>1. PICK p \in Products, row \in Row : orders' = [orders EXCEPT ![<<r, p>>] = row]
      BY <1>6, BulkInsertMoves
    <2>2. /\ orders' \in [Requests \X Products -> Row \cup {NoOrder}]
          /\ \A j : orders[j] \in Row => orders'[j] \in Row
      BY <2>1, RowInserted
    <2>3. CASE Finish(r)
      <3>1. Alone(r) /\ req'[r].pc = "done"
        BY <2>3, FinishMoves DEF TypedInv, TypeOK
      <3> QED  BY <1>4, <2>2, <3>1, TypedKept DEF Resting
    <2>4. CASE UNCHANGED req
      <3>1. Alone(r) /\ req'[r] = req[r] /\ req[r].pc # "settle"
        BY <1>6, <2>4 DEF Alone, TypedInv, TypeOK, CreateBulkOrder
      <3> QED  BY <1>3, <1>4, <2>2, <3>1, TypedKept
    <2> QED  BY <1>6, <2>3, <2>4 DEF CreateBulkOrder
  <1> QED  BY <1>5, <1>6

\* A worker, or the payment of Bakong, moves an order.
LEMMA WorkersTyped ==
    ASSUME TypedInv, NEW k \in Requests \X Products,
           BakongPaymentConfirmed(k) \/ WorkerStep(k)
    PROVE  TypedInv'
  <1>1. PICK row \in Row : orders' = [orders EXCEPT ![k] = row]
    BY OrderMoves
  <1>2. UNCHANGED <<wallet, points, totalSpent, vipRank, credited, usedCount, req>>
    BY OrderMoves
  <1>3. /\ orders' \in [Requests \X Products -> Row \cup {NoOrder}]
        /\ \A j : orders[j] \in Row => orders'[j] \in Row
    BY <1>1, RowInserted
  <1> QED  BY <1>2, <1>3 DEF TypedInv, TypeOK, UnderWay, SettledExists

LEMMA TypedStep == TypedInv /\ [Next]_vars => TypedInv'
  <1> SUFFICES ASSUME TypedInv, [Next]_vars PROVE TypedInv'
    OBVIOUS
  <1>1. CASE UNCHANGED vars
    BY <1>1 DEF vars, TypedInv, TypeOK, UnderWay, SettledExists
  <1>2. ASSUME NEW r \in Requests, RequestArrives(r) \/ RequestStep(r) \/ RequestFails(r)
        PROVE  TypedInv'
    BY <1>2, ReadsTyped, EndsTyped, CountersTyped, OrdersTyped
       DEF RequestStep, CheckoutStep, GiftStep, BulkStep
  <1>3. ASSUME NEW k \in Requests \X Products, BakongPaymentConfirmed(k) \/ WorkerStep(k)
        PROVE  TypedInv'
    BY <1>3, WorkersTyped
  <1> QED  BY <1>1, <1>2, <1>3 DEF Next

LEMMA Typed == Spec => []TypedInv
  BY TypedInit, TypedStep, PTL DEF Spec

\* Every row keeps its type, whichever routes are in use.
THEOREM CheckoutTypeCorrect == Spec => []TypeOK
  <1>1. TypedInv => TypeOK
    BY DEF TypedInv
  <1> QED  BY <1>1, Typed, PTL

\* The steps between the promo code and the insert of the order.
Pricing == {"session", "price", "deduct", "create"}

\* A step of request r that comes to be pricing with the code has counted its use.
CodeIsCounted(r) ==
    /\ req'[r].promo = req[r].promo \/ ReadPromo(r)
    /\ req'[r].pc \in Pricing => \/ req[r].pc \in Pricing
                                 \/ CountPromoUse(r)
                                 \/ ReadPromo(r) /\ ~req'[r].promo

\* A request that acts or fails is under way; it ends, or keeps what it asked for.
LEMMA RequestStepMoves ==
    ASSUME TypedInv, NEW r \in Requests, RequestStep(r) \/ RequestFails(r)
    PROVE  /\ Alone(r) /\ req[r].pc \notin Resting
           /\ \/ req'[r].pc = "done"
              \/ CreateBulkOrder(r) /\ req'[r] = req[r]
              \/ Owned(r) /\ CodeIsCounted(r)
  <1> USE DEF Pricing, CodeIsCounted
  <1>1. req \in [Requests -> Activity]
    BY DEF TypedInv, TypeOK
  <1>2. req[r].pc \notin Resting
    BY DEF RequestStep, CheckoutStep, GiftStep, BulkStep, RequestFails, ReadPromo,
           CountPromoUse, ReadSession, CalculatePrice, DeductWallet, CreateOrder,
           SettleWalletOrder, DeductPoints, ReadTotalSpent, UpdateUserTotalSpent,
           ReadGiftWallet, PayGift, CreateGiftOrder, ReadBulkWallet, PayBulk,
           CreateBulkOrder, RefuseBakongBulk, PayoutReferral, Resting
  <1>3. CASE Finish(r)
    BY <1>1, <1>2, <1>3, FinishMoves
  <1>4. CASE ReadPromo(r)
    BY <1>2, <1>4, ReadPromoMoves
  <1>5. CASE CountPromoUse(r)
    <2>1. req[r].kind \in AllKinds
      BY <1>1 DEF Activity
    <2>2. AfterPromo(req[r].kind, req[r].method) \in Steps
      BY <2>1 DEF AfterPromo, Steps
    <2>3. Alone(r) /\ Owned(r) /\ Priced(r)
      BY <1>1, <1>5, <2>2, GoToMoves DEF CountPromoUse
    <2> QED  BY <1>2, <1>5, <2>3 DEF Priced
  <1>6. CASE ReadSession(r)
    BY <1>2, <1>6, ReadSessionMoves DEF ReadSession
  <1>7. CASE CalculatePrice(r)
    BY <1>2, <1>7, CalculatePriceMoves DEF CalculatePrice
  <1>8. CASE ReadTotalSpent(r)
    BY <1>2, <1>8, ReadTotalMoves DEF Priced
  <1>9. CASE DeductWallet(r)
    <2>1. req[r].pc \in Pricing /\ "create" \in Steps
      BY <1>9 DEF DeductWallet, Steps
    <2>2. CASE GoTo(r, "create")
      BY <1>1, <1>2, <2>1, <2>2, GoToMoves DEF Priced
    <2> QED  BY <1>3, <1>9, <2>2 DEF DeductWallet
  <1>10. CASE CreateOrder(r) \/ CreateGiftOrder(r) \/ SettleWalletOrder(r)
    <2>1. CASE req'[r].pc = "done"
      BY <1>10, <2>1, OrderStepMoves
    <2>2. CASE req'[r].pc # "done"
      <3>1. Alone(r) /\ Owned(r) /\ Priced(r) /\ req'[r].pc \in {"settle", "points", "readTotal"}
        BY <1>10, <2>2, OrderStepMoves
      <3> QED  BY <1>2, <3>1 DEF Priced
    <2> QED  BY <2>1, <2>2
  <1>11. CASE CreateBulkOrder(r) /\ UNCHANGED req
    BY <1>1, <1>2, <1>11 DEF Alone
  <1>12. ASSUME NEW pc \in {"readTotal", "giftPay", "giftOrder", "bulkPay", "bulkOrders"},
                GoTo(r, pc)
         PROVE  Alone(r) /\ Owned(r) /\ Priced(r) /\ req'[r].pc = pc
    BY <1>1, <1>12, GoToMoves DEF Steps
  <1>13. CASE \E pc \in {"readTotal", "giftPay", "giftOrder", "bulkPay", "bulkOrders"} : GoTo(r, pc)
    BY <1>2, <1>12, <1>13 DEF Priced
  <1>14. \/ Finish(r)
         \/ \E pc \in {"readTotal", "giftPay", "giftOrder", "bulkPay", "bulkOrders"} : GoTo(r, pc)
         \/ ReadPromo(r) \/ CountPromoUse(r) \/ ReadSession(r) \/ CalculatePrice(r)
         \/ ReadTotalSpent(r) \/ DeductWallet(r)
         \/ CreateOrder(r) \/ CreateGiftOrder(r) \/ SettleWalletOrder(r)
         \/ CreateBulkOrder(r) /\ UNCHANGED req
    <2>1. CASE CheckoutStep(r)
      BY <2>1 DEF CheckoutStep, DeductPoints, UpdateUserTotalSpent
    <2>2. CASE GiftStep(r)
      BY <2>2 DEF GiftStep, ReadGiftWallet, PayGift
    <2>3. CASE BulkStep(r)
      BY <2>3 DEF BulkStep, ReadBulkWallet, PayBulk, CreateBulkOrder, RefuseBakongBulk
    <2>4. CASE PayoutReferral(r) \/ RequestFails(r)
      BY <2>4 DEF PayoutReferral, RequestFails
    <2> QED  BY <2>1, <2>2, <2>3, <2>4 DEF RequestStep
  <1> QED  BY <1>3, <1>4, <1>5, <1>6, <1>7, <1>8, <1>9, <1>10, <1>11, <1>13, <1>14

-----------------------------------------------------------------------------
(* The gift and the bulk route take a price from the wallet that they only *)
(* compared with it earlier; without them nothing overdraws it.            *)

GuardedOnly == Kinds \subseteq {"checkout", "payout"}

\* Every request under way is on a route that is in use.
KindsInUse == \A r \in Requests : req[r].pc \notin Resting => req[r].kind \in Kinds

RoutedInv == TypedInv /\ KindsInUse

LEMMA RoutedInit == Init => RoutedInv
  <1> SUFFICES ASSUME Init PROVE RoutedInv
    OBVIOUS
  <1>1. \A r \in Requests : req[r].pc = "idle"
    BY FreshTyped DEF Init
  <1> QED  BY <1>1, TypedInit DEF RoutedInv, KindsInUse, Resting

LEMMA RoutedStep == RoutedInv /\ [Next]_vars => RoutedInv'
  <1> SUFFICES ASSUME RoutedInv, [Next]_vars PROVE RoutedInv'
    OBVIOUS
  <1>1. TypedInv /\ TypedInv'
    BY TypedStep DEF RoutedInv
  <1>2. ASSUME NEW r \in Requests, RequestArrives(r) \/ RequestStep(r) \/ RequestFails(r)
        PROVE  KindsInUse'
    <2>1. Alone(r) /\ (req'[r].pc \notin Resting => req'[r].kind \in Kinds)
      <3>1. CASE RequestArrives(r)
        BY <1>1, <3>1, ArrivalMoves
      <3>2. CASE RequestStep(r) \/ RequestFails(r)
        BY <1>1, <3>2, RequestStepMoves DEF RoutedInv, KindsInUse, Owned, Resting
      <3> QED  BY <1>2, <3>1, <3>2
    <2> QED  BY <2>1 DEF RoutedInv, KindsInUse, Alone
  <1>3. ASSUME NEW k \in Requests \X Products, BakongPaymentConfirmed(k) \/ WorkerStep(k)
        PROVE  KindsInUse'
    BY <1>1, <1>3, OrderMoves DEF RoutedInv, KindsInUse
  <1>4. ASSUME UNCHANGED vars
        PROVE  KindsInUse'
    BY <1>4 DEF vars, RoutedInv, KindsInUse
  <1>5. KindsInUse'
    BY <1>2, <1>3, <1>4 DEF Next
  <1> QED  BY <1>1, <1>5 DEF RoutedInv

\* Without the gift and bulk routes no request is ever at one of their steps.
LEMMA NoGiftNoBulk ==
    ASSUME GuardedOnly, RoutedInv, NEW r \in Requests
    PROVE  /\ ~GiftStep(r) /\ ~BulkStep(r)
           /\ req[r].pc \notin Resting => req[r].pc \in CheckoutSteps \cup {"payout"}
  <1>1. req[r].pc \notin Resting => req[r].pc \in CheckoutSteps \cup {"payout"}
    BY DEF GuardedOnly, RoutedInv, KindsInUse, TypedInv, UnderWay, OnRoute
  <1> QED  BY <1>1 DEF GiftStep, ReadGiftWallet, PayGift, CreateGiftOrder, BulkStep,
              ReadBulkWallet, PayBulk, CreateBulkOrder, RefuseBakongBulk, CheckoutSteps, Resting

\* A request of those routes takes at most what the wallet holds.
LEMMA WalletKept ==
    ASSUME GuardedOnly, RoutedInv, WalletNeverNegative, [Next]_vars
    PROVE  WalletNeverNegative'
  <1>1. /\ TypedInv /\ wallet \in [Users -> Int] /\ Payout \in Nat
    BY CheckoutAssumption DEF RoutedInv, TypedInv, TypeOK
  <1>2. ASSUME NEW r \in Requests, DeductWallet(r) \/ PayoutReferral(r)
        PROVE  WalletNeverNegative'
    <2> DEFINE u == req[r].user
    <2>1. u \in Users /\ req[r].price \in Int
      BY <1>1, <1>2, UnderWayRequest DEF DeductWallet, PayoutReferral, Resting
    <2>2. CASE PayoutReferral(r)
      <3>1. wallet' = [wallet EXCEPT ![u] = wallet[u] + Payout]
        BY <2>2 DEF PayoutReferral
      <3> QED  BY <1>1, <2>1, <3>1 DEF WalletNeverNegative
    <2>3. CASE DeductWallet(r) /\ wallet[u] >= req[r].price
      <3>1. wallet' = [wallet EXCEPT ![u] = wallet[u] - req[r].price]
        BY <2>3 DEF DeductWallet
      <3> QED  BY <1>1, <2>1, <2>3, <3>1 DEF WalletNeverNegative
    <2>4. CASE DeductWallet(r) /\ ~(wallet[u] >= req[r].price)
      <3>1. wallet' = wallet
        BY <2>4 DEF DeductWallet
      <3> QED  BY <3>1 DEF WalletNeverNegative
    <2> QED  BY <1>2, <2>2, <2>3, <2>4
  <1>3. ASSUME UNCHANGED wallet
        PROVE  WalletNeverNegative'
    BY <1>3 DEF WalletNeverNegative
  <1>4. ASSUME NEW r \in Requests, RequestArrives(r) \/ RequestStep(r) \/ RequestFails(r)
        PROVE  WalletNeverNegative'
    <2>1. CASE CheckoutStep(r) /\ ~DeductWallet(r)
      <3>1. UNCHANGED wallet
        BY <2>1 DEF CheckoutStep, ReadPromo, CountPromoUse, ReadSession, CalculatePrice,
           CreateOrder, SettleWalletOrder, DeductPoints, ReadTotalSpent,
           UpdateUserTotalSpent, userVars
      <3> QED  BY <1>3, <3>1
    <2>2. CASE RequestArrives(r) \/ RequestFails(r)
      <3>1. UNCHANGED wallet
        BY <2>2 DEF RequestArrives, RequestFails, userVars
      <3> QED  BY <1>3, <3>1
    <2> QED  BY <1>2, <1>4, <2>1, <2>2, NoGiftNoBulk DEF RequestStep
  <1>5. ASSUME NEW k \in Requests \X Products, BakongPaymentConfirmed(k) \/ WorkerStep(k)
        PROVE  WalletNeverNegative'
    BY <1>1, <1>3, <1>5, OrderMoves
  <1>6. CASE UNCHANGED vars
    BY <1>3, <1>6 DEF vars
  <1> QED  BY <1>4, <1>5, <1>6 DEF Next

\* However many checkouts and payouts run at once, and wherever they fail, no
\* wallet is overdrawn: the where clause of the checkout's decrement is enough.
THEOREM WalletCorrect ==
    ASSUME GuardedOnly
    PROVE  Spec => []WalletNeverNegative
  <1>1. Init => RoutedInv /\ WalletNeverNegative
    BY RoutedInit, CheckoutAssumption DEF Init, WalletNeverNegative
  <1>2. RoutedInv /\ WalletNeverNegative /\ [Next]_vars => (RoutedInv /\ WalletNeverNegative)'
    BY RoutedStep, WalletKept
  <1> QED  BY <1>1, <1>2, PTL DEF Spec

-----------------------------------------------------------------------------
(* Every use of the promo code is counted before its order is inserted: an *)
(* order with the code was a request that held it.                         *)

PromoOrders == {k \in OrderKeys : orders[k].promo}
Holding == {r \in Requests : req[r].promo /\ req[r].pc \in Pricing}
GiftsHaveNoCode == \A r \in Requests : req[r].pc \in GiftSteps => ~req[r].promo

DiscountInv ==
    /\ TypedInv
    /\ GiftsHaveNoCode
    /\ IsFiniteSet(PromoOrders) /\ IsFiniteSet(Holding)
    /\ Cardinality(PromoOrders) + Cardinality(Holding) <= usedCount

\* The bound survives a step that adds no more to the two sets than to the count.
LEMMA DiscountsFit ==
    ASSUME DiscountInv, NEW gained \in Int, NEW held \in Int,
           IsFiniteSet(PromoOrders'), Cardinality(PromoOrders') <= Cardinality(PromoOrders) + gained,
           IsFiniteSet(Holding'), Cardinality(Holding') <= Cardinality(Holding) + held,
           TypedInv', usedCount' \in Nat, usedCount' >= usedCount + gained + held,
           GiftsHaveNoCode'
    PROVE  DiscountInv'
  <1>1. /\ Cardinality(PromoOrders) \in Nat /\ Cardinality(Holding) \in Nat
        /\ Cardinality(PromoOrders') \in Nat /\ Cardinality(Holding') \in Nat
        /\ usedCount \in Nat
    BY FS_CardinalityType DEF DiscountInv, TypedInv, TypeOK
  <1>2. Cardinality(PromoOrders') + Cardinality(Holding') <= usedCount'
    BY <1>1 DEF DiscountInv
  <1> QED  BY <1>2 DEF DiscountInv

\* A set that gains at most one member gains at most one in number.
LEMMA AtMostOneMore ==
    ASSUME NEW S, IsFiniteSet(S), NEW T, NEW x, T \subseteq S \cup {x}
    PROVE  IsFiniteSet(T) /\ Cardinality(T) <= Cardinality(S) + 1
  <1>1. IsFiniteSet(S \cup {x}) /\ Cardinality(S \cup {x}) <= Cardinality(S) + 1
    <2>1. Cardinality(S) \in Nat
      BY FS_CardinalityType
    <2>2. CASE x \in S
      <3>1. S \cup {x} = S
        BY <2>2
      <3> QED  BY <2>1, <3>1
    <2>3. CASE x \notin S
      <3>1. IsFiniteSet(S \cup {x}) /\ Cardinality(S \cup {x}) = Cardinality(S) + 1
        BY <2>3, FS_AddElement
      <3> QED  BY <2>1, <3>1
    <2> QED  BY <2>2, <2>3
  <1>2. IsFiniteSet(T) /\ Cardinality(T) <= Cardinality(S \cup {x})
    BY <1>1, FS_Subset
  <1> QED  BY <1>1, <1>2, FS_CardinalityType

\* A set that loses a member loses one in number.
LEMMA OneLess ==
    ASSUME NEW S, IsFiniteSet(S), NEW x \in S, NEW T, T \subseteq S \ {x}
    PROVE  IsFiniteSet(T) /\ Cardinality(T) <= Cardinality(S) - 1
  <1>1. IsFiniteSet(S \ {x}) /\ Cardinality(S \ {x}) = Cardinality(S) - 1
    BY FS_RemoveElement
  <1>2. IsFiniteSet(T) /\ Cardinality(T) <= Cardinality(S \ {x})
    BY <1>1, FS_Subset
  <1> QED  BY <1>1, <1>2

LEMMA NoMore ==
    ASSUME NEW S, IsFiniteSet(S), NEW T, T \subseteq S
    PROVE  IsFiniteSet(T) /\ Cardinality(T) <= Cardinality(S) + 0
  <1>1. IsFiniteSet(T) /\ Cardinality(T) <= Cardinality(S)
    BY FS_Subset
  <1> QED  BY <1>1, FS_CardinalityType

LEMMA DiscountInit == Init => DiscountInv
  <1> SUFFICES ASSUME Init PROVE DiscountInv
    OBVIOUS
  <1>1. \A r \in Requests : req[r].pc = "idle"
    BY FreshTyped DEF Init
  <1>2. PromoOrders = {} /\ Holding = {} /\ GiftsHaveNoCode
    <2>1. \A k \in Requests \X Products : orders[k] = NoOrder
      BY DEF Init
    <2>2. OrderKeys = {}
      BY <2>1 DEF OrderKeys, Exists
    <2> QED  BY <1>1, <2>2 DEF PromoOrders, Holding, GiftsHaveNoCode, Pricing, GiftSteps
  <1>3. usedCount = 0
    BY DEF Init
  <1> QED  BY <1>2, <1>3, TypedInit, FS_EmptySet DEF DiscountInv

\* Where a row is inserted or changed only one order can gain the code.
LEMMA PromoOrdersChange ==
    ASSUME TypedInv, NEW k \in Requests \X Products, NEW row \in Row,
           orders' = [orders EXCEPT ![k] = row]
    PROVE  /\ PromoOrders' \subseteq PromoOrders \cup {k}
           /\ ~row.promo => PromoOrders' \subseteq PromoOrders
           /\ orders[k] \in Row /\ row.promo = orders[k].promo => PromoOrders' \subseteq PromoOrders
  <1>1. orders'[k] = row /\ \A j : j # k => orders'[j] = orders[j]
    BY RowInserted
  <1> QED  BY <1>1, OrderAssumption DEF PromoOrders, OrderKeys, Exists

\* Only the counting of a use makes a request hold the code.
LEMMA HoldingChanges ==
    ASSUME DiscountInv, NEW r \in Requests,
           RequestArrives(r) \/ RequestStep(r) \/ RequestFails(r)
    PROVE  /\ Holding' \subseteq Holding \cup {r}
           /\ ~CountPromoUse(r) => Holding' \subseteq Holding
           /\ GiftsHaveNoCode'
  <1>1. TypedInv
    BY DEF DiscountInv
  <1>2. /\ Alone(r)
        /\ ~CountPromoUse(r) /\ req'[r].promo /\ req'[r].pc \in Pricing =>
              req[r].promo /\ req[r].pc \in Pricing
        /\ req'[r].pc \in GiftSteps => ~req'[r].promo
    <2>1. CASE RequestArrives(r)
      BY <1>1, <2>1, ArrivalMoves
    <2>2. CASE RequestStep(r) \/ RequestFails(r)
      <3>1. CASE req'[r].pc = "done"
        BY <1>1, <2>2, <3>1, RequestStepMoves DEF Pricing, GiftSteps
      <3>2. CASE CreateBulkOrder(r) /\ req'[r] = req[r]
        BY <1>1, <2>2, <3>2, RequestStepMoves DEF DiscountInv, GiftsHaveNoCode
      <3>3. CASE Owned(r) /\ CodeIsCounted(r)
        <4>1. TypedInv'
          BY <1>1, <2>2, TypedStep DEF Next
        <4>2. req'[r].pc \in GiftSteps => req[r].pc \in GiftSteps /\ ~ReadPromo(r)
          <5>1. OnRoute(req[r].kind, req[r].pc)
            BY <1>1, <2>2, RequestStepMoves, UnderWayRequest
          <5>2. req'[r].pc \notin Resting => OnRoute(req'[r].kind, req'[r].pc)
            BY <4>1 DEF TypedInv, UnderWay, OnRoute
          <5>3. req'[r].kind = req[r].kind
            BY <3>3 DEF Owned
          <5> QED  BY <5>1, <5>2, <5>3 DEF OnRoute, CheckoutSteps, GiftSteps, BulkSteps, Resting,
                      ReadPromo
        <4> QED  BY <1>1, <2>2, <3>3, <4>2, RequestStepMoves
            DEF DiscountInv, GiftsHaveNoCode, ReadPromo, CodeIsCounted, Pricing
      <3> QED  BY <1>1, <2>2, <3>1, <3>2, <3>3, RequestStepMoves
    <2> QED  BY <2>1, <2>2
  <1> QED  BY <1>2 DEF Alone, Holding, DiscountInv, GiftsHaveNoCode

LEMMA DiscountStep == DiscountInv /\ [Next]_vars => DiscountInv'
  <1> SUFFICES ASSUME DiscountInv, [Next]_vars PROVE DiscountInv'
    OBVIOUS
  <1>1. /\ TypedInv /\ TypedInv' /\ GiftsHaveNoCode
        /\ usedCount \in Nat /\ usedCount' \in Nat
        /\ IsFiniteSet(PromoOrders) /\ IsFiniteSet(Holding)
    BY TypedStep DEF DiscountInv, TypedInv, TypeOK
  <1>2. ASSUME PromoOrders' \subseteq PromoOrders, Holding' \subseteq Holding,
               usedCount' >= usedCount, GiftsHaveNoCode'
        PROVE  DiscountInv'
    <2>1. /\ IsFiniteSet(PromoOrders') /\ Cardinality(PromoOrders') <= Cardinality(PromoOrders) + 0
          /\ IsFiniteSet(Holding') /\ Cardinality(Holding') <= Cardinality(Holding) + 0
      BY <1>1, <1>2, NoMore
    <2>2. usedCount' >= usedCount + 0 + 0
      BY <1>1, <1>2
    <2> QED  BY <1>1, <1>2, <2>1, <2>2, DiscountsFit
  <1>3. ASSUME NEW r \in Requests, CountPromoUse(r)
        PROVE  DiscountInv'
    <2>1. UNCHANGED orders /\ usedCount' = usedCount + 1
      BY <1>3 DEF CountPromoUse
    <2>2. PromoOrders' = PromoOrders
      BY <2>1 DEF PromoOrders, OrderKeys, Exists
    <2>3. Holding' \subseteq Holding \cup {r} /\ GiftsHaveNoCode'
      BY <1>3, HoldingChanges DEF RequestStep, CheckoutStep
    <2>4. /\ IsFiniteSet(PromoOrders') /\ Cardinality(PromoOrders') <= Cardinality(PromoOrders) + 0
          /\ IsFiniteSet(Holding') /\ Cardinality(Holding') <= Cardinality(Holding) + 1
      BY <1>1, <2>2, <2>3, NoMore, AtMostOneMore
    <2>5. usedCount' >= usedCount + 0 + 1
      BY <1>1, <2>1
    <2> QED  BY <1>1, <2>3, <2>4, <2>5, DiscountsFit
  <1>4. ASSUME NEW r \in Requests, CreateOrder(r)
        PROVE  DiscountInv'
    <2> DEFINE k == <<r, ProductOf(req[r].cart)>>
    <2>1. usedCount' = usedCount /\ req[r].pc = "create" /\ k \in Requests \X Products
      BY <1>1, <1>4, UnderWayRequest DEF CreateOrder, Resting
    <2>2. PICK row \in Row :
              orders' = [orders EXCEPT ![k] = row] /\ row.promo = req[r].promo
      BY <1>1, <1>4, InsertMoves
    <2>3. Holding' \subseteq Holding \ {r} /\ GiftsHaveNoCode'
      <3>1. Holding' \subseteq Holding /\ GiftsHaveNoCode'
        BY <1>4, <2>1, HoldingChanges DEF RequestStep, CheckoutStep, CountPromoUse
      <3>2. req'[r].pc \in {"settle", "done"}
        BY <1>1, <1>4, <2>1, OrderStepMoves DEF SettleWalletOrder
      <3> QED  BY <3>1, <3>2 DEF Holding, Pricing
    <2>4. CASE req[r].promo
      <3>1. PromoOrders' \subseteq PromoOrders \cup {k} /\ r \in Holding
        BY <1>1, <2>1, <2>2, <2>4, PromoOrdersChange DEF Holding, Pricing
      <3> HIDE DEF k
      <3>2. /\ IsFiniteSet(PromoOrders') /\ Cardinality(PromoOrders') <= Cardinality(PromoOrders) + 1
            /\ IsFiniteSet(Holding') /\ Cardinality(Holding') <= Cardinality(Holding) - 1
        <4>1. IsFiniteSet(PromoOrders') /\ Cardinality(PromoOrders') <= Cardinality(PromoOrders) + 1
          BY <1>1, <3>1, AtMostOneMore
        <4>2. IsFiniteSet(Holding') /\ Cardinality(Holding') <= Cardinality(Holding) - 1
          BY <1>1, <2>3, <3>1, OneLess
        <4> QED  BY <4>1, <4>2
      <3>3. Cardinality(Holding') <= Cardinality(Holding) + (-1) /\ usedCount' >= usedCount + 1 + (-1)
        BY <1>1, <2>1, <3>2, FS_CardinalityType
      <3> QED  BY <1>1, <2>3, <3>2, <3>3, DiscountsFit
    <2>5. CASE ~req[r].promo
      <3>1. PromoOrders' \subseteq PromoOrders
        BY <1>1, <2>1, <2>2, <2>5, PromoOrdersChange
      <3> QED  BY <1>1, <1>2, <2>1, <2>3, <3>1
    <2> QED  BY <2>4, <2>5
  <1>5. ASSUME NEW r \in Requests, RequestArrives(r) \/ RequestStep(r) \/ RequestFails(r),
               ~CountPromoUse(r), ~CreateOrder(r)
        PROVE  DiscountInv'
    <2>1. Holding' \subseteq Holding /\ GiftsHaveNoCode'
      BY <1>5, HoldingChanges
    <2>2. usedCount' = usedCount
      BY <1>5 DEF RequestArrives, RequestStep, RequestFails, CheckoutStep, GiftStep, BulkStep,
         ReadPromo, ReadSession, CalculatePrice, DeductWallet, SettleWalletOrder, DeductPoints,
         ReadTotalSpent, UpdateUserTotalSpent, ReadGiftWallet, PayGift, CreateGiftOrder,
         ReadBulkWallet, PayBulk, CreateBulkOrder, RefuseBakongBulk, PayoutReferral
    <2>3. PromoOrders' \subseteq PromoOrders
      <3>1. CASE SettleWalletOrder(r)
        <4>1. <<r, ProductOf(req[r].cart)>> \in Requests \X Products
          BY <1>1, <3>1, UnderWayRequest DEF SettleWalletOrder, Resting
        <4> QED  BY <1>1, <3>1, <4>1, SettleMoves, PromoOrdersChange
      <3>2. CASE CreateGiftOrder(r)
        <4>1. /\ <<r, ProductOf(req[r].cart)>> \in Requests \X Products
              /\ req[r].promo \in BOOLEAN /\ ~req[r].promo
          BY <1>1, <3>2, UnderWayRequest DEF CreateGiftOrder, Resting, GiftsHaveNoCode, GiftSteps
        <4>2. PICK row \in Row :
                  /\ orders' = [orders EXCEPT ![<<r, ProductOf(req[r].cart)>>] = row]
                  /\ row.promo = req[r].promo
          BY <1>1, <3>2, InsertMoves
        <4> QED  BY <1>1, <4>1, <4>2, PromoOrdersChange
      <3>3. CASE CreateBulkOrder(r)
        <4>1. PICK p \in Products, row \in Row :
                  orders' = [orders EXCEPT ![<<r, p>>] = row] /\ row.promo = FALSE
          BY <1>1, <3>3, BulkInsertMoves
        <4> QED  BY <1>1, <4>1, PromoOrdersChange
      <3>4. CASE ~SettleWalletOrder(r) /\ ~CreateGiftOrder(r) /\ ~CreateBulkOrder(r)
        <4>1. UNCHANGED orders
          BY <1>5, <3>4 DEF RequestArrives, RequestStep, RequestFails, CheckoutStep, GiftStep,
             BulkStep, ReadPromo, ReadSession, CalculatePrice, DeductWallet, DeductPoints,
             ReadTotalSpent, UpdateUserTotalSpent, ReadGiftWallet, PayGift,
             ReadBulkWallet, PayBulk, RefuseBakongBulk, PayoutReferral
        <4> QED  BY <4>1 DEF PromoOrders, OrderKeys, Exists
      <3> QED  BY <3>1, <3>2, <3>3, <3>4
    <2> QED  BY <1>1, <1>2, <2>1, <2>2, <2>3
  <1>6. ASSUME NEW k \in Requests \X Products, BakongPaymentConfirmed(k) \/ WorkerStep(k)
        PROVE  DiscountInv'
    <2>1. usedCount' = usedCount /\ Holding' = Holding /\ GiftsHaveNoCode'
      BY <1>1, <1>6, OrderMoves DEF Holding, GiftsHaveNoCode
    <2>2. PromoOrders' \subseteq PromoOrders
      BY <1>1, <1>6, OrderMoves, PromoOrdersChange
    <2> QED  BY <1>1, <1>2, <2>1, <2>2
  <1>7. CASE UNCHANGED vars
    <2>1. usedCount' = usedCount /\ Holding' = Holding /\ GiftsHaveNoCode' /\ PromoOrders' = PromoOrders
      BY <1>1, <1>7 DEF vars, Holding, GiftsHaveNoCode, PromoOrders, OrderKeys, Exists
    <2> QED  BY <1>1, <1>2, <2>1
  <1> QED  BY <1>3, <1>4, <1>5, <1>6, <1>7 DEF Next

\* Whatever fails and whichever route is used, no order carries the promo code
\* without its use having been counted (app/api/orders/route.ts and
\* app/api/orders/bulk/route.ts increment usedCount before they insert).
THEOREM DiscountsCorrect == Spec => []DiscountsAreCounted
  <1>1. DiscountInv => DiscountsAreCounted
    <2> SUFFICES ASSUME DiscountInv PROVE Cardinality(PromoOrders) <= usedCount
      BY DEF DiscountsAreCounted, PromoOrders
    <2>1. Cardinality(PromoOrders) \in Nat /\ Cardinality(Holding) \in Nat /\ usedCount \in Nat
      BY FS_CardinalityType DEF DiscountInv, TypedInv, TypeOK
    <2> QED  BY <2>1 DEF DiscountInv
  <1> QED  BY <1>1, DiscountInit, DiscountStep, PTL DEF Spec

-----------------------------------------------------------------------------
(* The ledger of a customer: what one request and one order contribute to  *)
(* each of its five sums, and how a step changes the sums by as much.      *)

Settling == {"settle", "points", "readTotal", "total"}
Begun == {r \in Requests : req[r].pc # "idle"}

Taking(u) == {r \in InFlightFor(u, {"create"}) : WalletDeducted(r)}
Spending(u) == InFlightFor(u, Settling)
Redeeming(u) == {r \in InFlightFor(u, {"settle", "points"}) : req[r].points > 0}

Taken(r, u) == IF r \in Taking(u) THEN req[r].price ELSE 0
Spent(r, u) == IF r \in Spending(u) THEN req[r].price ELSE 0
Redeems(r, u) == IF r \in Redeeming(u) THEN req[r].points ELSE 0
Paid(k, u) == IF k \in WalletOrdersOf(u) THEN orders[k].amount ELSE 0
Redeemed(k, u) == IF k \in SettledOrdersOf(u) THEN Positive(orders[k].points) ELSE 0

TakingSum(u) == PricesOf(Taking(u))
SpendingSum(u) == PricesOf(Spending(u))
RedeemingSum(u) == PointsOf(Redeeming(u))
PaidSum(u) == AmountsOf(WalletOrdersOf(u))
RedeemedSum(u) == PointsIn(SettledOrdersOf(u))

Ledger == WalletMatchesOrders /\ SpendingAddsUp /\ PointsAddUp

LEMMA LedgerSums ==
    Ledger <=> \A u \in Users :
        /\ InitialWallet + credited[u] - wallet[u] = PaidSum(u) + TakingSum(u)
        /\ totalSpent[u] + SpendingSum(u) = PaidSum(u)
        /\ InitialPoints - points[u] + RedeemingSum(u) = RedeemedSum(u)
  BY DEF Ledger, WalletMatchesOrders, SpendingAddsUp, PointsAddUp, TakingSum, SpendingSum,
     RedeemingSum, PaidSum, RedeemedSum, Taking, Spending, Redeeming, Settling

\* A step of one request changes the sums over requests by that request's part.
LEMMA RequestSums ==
    ASSUME TypedInv, TypedInv', IsFiniteSet(Begun), IsFiniteSet(Begun'),
           NEW r \in Requests, Alone(r), NEW u
    PROVE  /\ TakingSum(u)' - Taken(r, u)' = TakingSum(u) - Taken(r, u)
           /\ SpendingSum(u)' - Spent(r, u)' = SpendingSum(u) - Spent(r, u)
           /\ RedeemingSum(u)' - Redeems(r, u)' = RedeemingSum(u) - Redeems(r, u)
           /\ TakingSum(u) \in Int /\ SpendingSum(u) \in Int /\ RedeemingSum(u) \in Int
           /\ TakingSum(u)' \in Int /\ SpendingSum(u)' \in Int /\ RedeemingSum(u)' \in Int
  <1>1. \A q \in Requests : /\ req[q].price \in Int /\ req'[q].price \in Int
                            /\ req[q].points \in Int /\ req'[q].points \in Int
    BY DEF TypedInv, TypeOK, Activity
  <1>2. \A q \in Requests : q # r => req'[q] = req[q]
    BY DEF Alone
  <1>3. /\ TakingSum(u)' - Taken(r, u)' = TakingSum(u) - Taken(r, u)
        /\ TakingSum(u) \in Int /\ TakingSum(u)' \in Int
    <2> DEFINE S == Taking(u)
               T == Taking(u)'
               F == [q \in S |-> req[q].price]
               G == [q \in T |-> req'[q].price]
    <2>1. S \subseteq Begun /\ T \subseteq Begun' /\ S \subseteq Requests /\ T \subseteq Requests
      BY DEF Taking, InFlightFor, Begun
    <2>2. IsFiniteSet(S) /\ IsFiniteSet(T)
      BY <2>1, FS_Subset
    <2>3. IntsOn(F, S) /\ IntsOn(G, T)
      BY <1>1, <2>1 DEF IntsOn
    <2>4. S \ {r} = T \ {r} /\ \A q \in S \ {r} : F[q] = G[q]
      BY <1>2 DEF Taking, InFlightFor, WalletDeducted
    <2>5. Share(F, S, r) = Taken(r, u) /\ Share(G, T, r) = Taken(r, u)'
      BY DEF Share, Taken
    <2>6. TakingSum(u) = SumFunctionOnSet(F, S) /\ TakingSum(u)' = SumFunctionOnSet(G, T)
      BY DEF TakingSum, PricesOf
    <2> HIDE DEF S, T, F, G
    <2>7. SumFunctionOnSet(G, T) - Share(G, T, r) = SumFunctionOnSet(F, S) - Share(F, S, r)
      BY <2>2, <2>3, <2>4, SumChanges
    <2>8. SumFunctionOnSet(F, S) \in Int /\ SumFunctionOnSet(G, T) \in Int
      BY <2>2, <2>3, SumIsInt
    <2> QED  BY <2>5, <2>6, <2>7, <2>8
  <1>4. /\ SpendingSum(u)' - Spent(r, u)' = SpendingSum(u) - Spent(r, u)
        /\ SpendingSum(u) \in Int /\ SpendingSum(u)' \in Int
    <2> DEFINE S == Spending(u)
               T == Spending(u)'
               F == [q \in S |-> req[q].price]
               G == [q \in T |-> req'[q].price]
    <2>1. S \subseteq Begun /\ T \subseteq Begun' /\ S \subseteq Requests /\ T \subseteq Requests
      BY DEF Spending, InFlightFor, Begun, Settling
    <2>2. IsFiniteSet(S) /\ IsFiniteSet(T)
      BY <2>1, FS_Subset
    <2>3. IntsOn(F, S) /\ IntsOn(G, T)
      BY <1>1, <2>1 DEF IntsOn
    <2>4. S \ {r} = T \ {r} /\ \A q \in S \ {r} : F[q] = G[q]
      BY <1>2 DEF Spending, InFlightFor
    <2>5. Share(F, S, r) = Spent(r, u) /\ Share(G, T, r) = Spent(r, u)'
      BY DEF Share, Spent
    <2>6. SpendingSum(u) = SumFunctionOnSet(F, S) /\ SpendingSum(u)' = SumFunctionOnSet(G, T)
      BY DEF SpendingSum, PricesOf
    <2> HIDE DEF S, T, F, G
    <2>7. SumFunctionOnSet(G, T) - Share(G, T, r) = SumFunctionOnSet(F, S) - Share(F, S, r)
      BY <2>2, <2>3, <2>4, SumChanges
    <2>8. SumFunctionOnSet(F, S) \in Int /\ SumFunctionOnSet(G, T) \in Int
      BY <2>2, <2>3, SumIsInt
    <2> QED  BY <2>5, <2>6, <2>7, <2>8
  <1>5. /\ RedeemingSum(u)' - Redeems(r, u)' = RedeemingSum(u) - Redeems(r, u)
        /\ RedeemingSum(u) \in Int /\ RedeemingSum(u)' \in Int
    <2> DEFINE S == Redeeming(u)
               T == Redeeming(u)'
               F == [q \in S |-> req[q].points]
               G == [q \in T |-> req'[q].points]
    <2>1. S \subseteq Begun /\ T \subseteq Begun' /\ S \subseteq Requests /\ T \subseteq Requests
      BY DEF Redeeming, InFlightFor, Begun
    <2>2. IsFiniteSet(S) /\ IsFiniteSet(T)
      BY <2>1, FS_Subset
    <2>3. IntsOn(F, S) /\ IntsOn(G, T)
      BY <1>1, <2>1 DEF IntsOn
    <2>4. S \ {r} = T \ {r} /\ \A q \in S \ {r} : F[q] = G[q]
      BY <1>2 DEF Redeeming, InFlightFor
    <2>5. Share(F, S, r) = Redeems(r, u) /\ Share(G, T, r) = Redeems(r, u)'
      BY DEF Share, Redeems
    <2>6. RedeemingSum(u) = SumFunctionOnSet(F, S) /\ RedeemingSum(u)' = SumFunctionOnSet(G, T)
      BY DEF RedeemingSum, PointsOf
    <2> HIDE DEF S, T, F, G
    <2>7. SumFunctionOnSet(G, T) - Share(G, T, r) = SumFunctionOnSet(F, S) - Share(F, S, r)
      BY <2>2, <2>3, <2>4, SumChanges
    <2>8. SumFunctionOnSet(F, S) \in Int /\ SumFunctionOnSet(G, T) \in Int
      BY <2>2, <2>3, SumIsInt
    <2> QED  BY <2>5, <2>6, <2>7, <2>8
  <1> QED  BY <1>3, <1>4, <1>5

\* The write of one order changes the sums over orders by that order's part.
LEMMA OrderSums ==
    ASSUME TypedInv, TypedInv', IsFiniteSet(OrderKeys), IsFiniteSet(OrderKeys'),
           NEW k, \A j : j # k => orders'[j] = orders[j], NEW u
    PROVE  /\ PaidSum(u)' - Paid(k, u)' = PaidSum(u) - Paid(k, u)
           /\ RedeemedSum(u)' - Redeemed(k, u)' = RedeemedSum(u) - Redeemed(k, u)
           /\ PaidSum(u) \in Int /\ RedeemedSum(u) \in Int
           /\ PaidSum(u)' \in Int /\ RedeemedSum(u)' \in Int
  <1>1. /\ \A j \in OrderKeys : /\ orders[j].amount \in Int
                                /\ Positive(orders[j].points) \in Int
        /\ \A j \in OrderKeys' : /\ orders'[j].amount \in Int
                                 /\ Positive(orders'[j].points) \in Int
    <2>1. /\ \A j \in OrderKeys : orders[j] \in Row
          /\ \A j \in OrderKeys' : orders'[j] \in Row
      BY DEF TypedInv, TypeOK, OrderKeys, Exists
    <2> QED  BY <2>1 DEF Row, Positive
  <1>2. OrderKeys \ {k} = OrderKeys' \ {k}
    BY DEF OrderKeys, Exists
  <1>3. /\ PaidSum(u)' - Paid(k, u)' = PaidSum(u) - Paid(k, u)
        /\ PaidSum(u) \in Int /\ PaidSum(u)' \in Int
    <2> DEFINE S == WalletOrdersOf(u)
               T == WalletOrdersOf(u)'
               F == [j \in S |-> orders[j].amount]
               G == [j \in T |-> orders'[j].amount]
    <2>1. S \subseteq OrderKeys /\ T \subseteq OrderKeys'
      BY DEF WalletOrdersOf
    <2>2. IsFiniteSet(S) /\ IsFiniteSet(T)
      BY <2>1, FS_Subset
    <2>3. IntsOn(F, S) /\ IntsOn(G, T)
      BY <1>1, <2>1 DEF IntsOn
    <2>4. S \ {k} = T \ {k} /\ \A j \in S \ {k} : F[j] = G[j]
      BY <1>2 DEF WalletOrdersOf
    <2>5. Share(F, S, k) = Paid(k, u) /\ Share(G, T, k) = Paid(k, u)'
      BY DEF Share, Paid
    <2>6. PaidSum(u) = SumFunctionOnSet(F, S) /\ PaidSum(u)' = SumFunctionOnSet(G, T)
      BY DEF PaidSum, AmountsOf
    <2> HIDE DEF S, T, F, G
    <2>7. SumFunctionOnSet(G, T) - Share(G, T, k) = SumFunctionOnSet(F, S) - Share(F, S, k)
      BY <2>2, <2>3, <2>4, SumChanges
    <2>8. SumFunctionOnSet(F, S) \in Int /\ SumFunctionOnSet(G, T) \in Int
      BY <2>2, <2>3, SumIsInt
    <2> QED  BY <2>5, <2>6, <2>7, <2>8
  <1>4. /\ RedeemedSum(u)' - Redeemed(k, u)' = RedeemedSum(u) - Redeemed(k, u)
        /\ RedeemedSum(u) \in Int /\ RedeemedSum(u)' \in Int
    <2> DEFINE S == SettledOrdersOf(u)
               T == SettledOrdersOf(u)'
               F == [j \in S |-> Positive(orders[j].points)]
               G == [j \in T |-> Positive(orders'[j].points)]
    <2>1. S \subseteq OrderKeys /\ T \subseteq OrderKeys'
      BY DEF SettledOrdersOf, WalletOrdersOf
    <2>2. IsFiniteSet(S) /\ IsFiniteSet(T)
      BY <2>1, FS_Subset
    <2>3. IntsOn(F, S) /\ IntsOn(G, T)
      BY <1>1, <2>1 DEF IntsOn
    <2>4. S \ {k} = T \ {k} /\ \A j \in S \ {k} : F[j] = G[j]
      BY <1>2 DEF SettledOrdersOf, WalletOrdersOf, Bought, Exists
    <2>5. Share(F, S, k) = Redeemed(k, u) /\ Share(G, T, k) = Redeemed(k, u)'
      BY DEF Share, Redeemed
    <2>6. RedeemedSum(u) = SumFunctionOnSet(F, S) /\ RedeemedSum(u)' = SumFunctionOnSet(G, T)
      BY DEF RedeemedSum, PointsIn
    <2> HIDE DEF S, T, F, G
    <2>7. SumFunctionOnSet(G, T) - Share(G, T, k) = SumFunctionOnSet(F, S) - Share(F, S, k)
      BY <2>2, <2>3, <2>4, SumChanges
    <2>8. SumFunctionOnSet(F, S) \in Int /\ SumFunctionOnSet(G, T) \in Int
      BY <2>2, <2>3, SumIsInt
    <2> QED  BY <2>5, <2>6, <2>7, <2>8
  <1> QED  BY <1>3, <1>4

\* The ledger balances after a step of request r that writes at most order k, if
\* what their parts gain is what the customer's row loses.
LEMMA LedgerKept ==
    ASSUME Ledger, TypedInv, TypedInv',
           IsFiniteSet(Begun), IsFiniteSet(Begun'), IsFiniteSet(OrderKeys), IsFiniteSet(OrderKeys'),
           NEW r \in Requests, Alone(r), NEW k, \A j : j # k => orders'[j] = orders[j],
           \A u \in Users :
              /\ (credited'[u] - wallet'[u]) - (credited[u] - wallet[u]) =
                    (Paid(k, u)' - Paid(k, u)) + (Taken(r, u)' - Taken(r, u))
              /\ (totalSpent'[u] - totalSpent[u]) + (Spent(r, u)' - Spent(r, u)) =
                    Paid(k, u)' - Paid(k, u)
              /\ (points[u] - points'[u]) + (Redeems(r, u)' - Redeems(r, u)) =
                    Redeemed(k, u)' - Redeemed(k, u)
    PROVE  Ledger'
  <1>1. SUFFICES ASSUME NEW u \in Users
                 PROVE  /\ InitialWallet + credited'[u] - wallet'[u] = PaidSum(u)' + TakingSum(u)'
                        /\ totalSpent'[u] + SpendingSum(u)' = PaidSum(u)'
                        /\ InitialPoints - points'[u] + RedeemingSum(u)' = RedeemedSum(u)'
    BY DEF Ledger, WalletMatchesOrders, SpendingAddsUp, PointsAddUp, TakingSum, SpendingSum,
       RedeemingSum, PaidSum, RedeemedSum, Taking, Spending, Redeeming, Settling
  <1>2. /\ InitialWallet + credited[u] - wallet[u] = PaidSum(u) + TakingSum(u)
        /\ totalSpent[u] + SpendingSum(u) = PaidSum(u)
        /\ InitialPoints - points[u] + RedeemingSum(u) = RedeemedSum(u)
    BY LedgerSums
  <1>3. /\ wallet[u] \in Int /\ credited[u] \in Int /\ totalSpent[u] \in Int /\ points[u] \in Int
        /\ wallet'[u] \in Int /\ credited'[u] \in Int /\ totalSpent'[u] \in Int
        /\ points'[u] \in Int /\ InitialWallet \in Int /\ InitialPoints \in Int
    BY CheckoutAssumption DEF TypedInv, TypeOK
  <1>4. /\ Taken(r, u) \in Int /\ Taken(r, u)' \in Int /\ Spent(r, u) \in Int /\ Spent(r, u)' \in Int
        /\ Redeems(r, u) \in Int /\ Redeems(r, u)' \in Int
    BY DEF Taken, Spent, Redeems, TypedInv, TypeOK, Activity
  <1>5. /\ Paid(k, u) \in Int /\ Paid(k, u)' \in Int
        /\ Redeemed(k, u) \in Int /\ Redeemed(k, u)' \in Int
    <2>1. /\ k \in OrderKeys => orders[k] \in Row
          /\ k \in OrderKeys' => orders'[k] \in Row
      BY DEF TypedInv, TypeOK, OrderKeys, Exists
    <2> QED  BY <2>1 DEF Paid, Redeemed, SettledOrdersOf, WalletOrdersOf, Row, Positive
  <1>6. /\ PaidSum(u)' - Paid(k, u)' = PaidSum(u) - Paid(k, u)
        /\ RedeemedSum(u)' - Redeemed(k, u)' = RedeemedSum(u) - Redeemed(k, u)
        /\ PaidSum(u) \in Int /\ RedeemedSum(u) \in Int
        /\ PaidSum(u)' \in Int /\ RedeemedSum(u)' \in Int
    BY OrderSums
  <1>7. /\ TakingSum(u)' - Taken(r, u)' = TakingSum(u) - Taken(r, u)
        /\ SpendingSum(u)' - Spent(r, u)' = SpendingSum(u) - Spent(r, u)
        /\ RedeemingSum(u)' - Redeems(r, u)' = RedeemingSum(u) - Redeems(r, u)
        /\ TakingSum(u) \in Int /\ SpendingSum(u) \in Int /\ RedeemingSum(u) \in Int
        /\ TakingSum(u)' \in Int /\ SpendingSum(u)' \in Int /\ RedeemingSum(u)' \in Int
    BY RequestSums
  <1>8. /\ (credited'[u] - wallet'[u]) - (credited[u] - wallet[u]) =
               (Paid(k, u)' - Paid(k, u)) + (Taken(r, u)' - Taken(r, u))
        /\ (totalSpent'[u] - totalSpent[u]) + (Spent(r, u)' - Spent(r, u)) =
               Paid(k, u)' - Paid(k, u)
        /\ (points[u] - points'[u]) + (Redeems(r, u)' - Redeems(r, u)) =
               Redeemed(k, u)' - Redeemed(k, u)
    OBVIOUS
  <1> DEFINE P == PaidSum(u)         P1 == PaidSum(u)'
             R == RedeemedSum(u)     R1 == RedeemedSum(u)'
             T == TakingSum(u)       T1 == TakingSum(u)'
             S == SpendingSum(u)     S1 == SpendingSum(u)'
             Q == RedeemingSum(u)    Q1 == RedeemingSum(u)'
             c == Paid(k, u)         c1 == Paid(k, u)'
             d == Redeemed(k, u)     d1 == Redeemed(k, u)'
             t == Taken(r, u)        t1 == Taken(r, u)'
             s == Spent(r, u)        s1 == Spent(r, u)'
             q == Redeems(r, u)      q1 == Redeems(r, u)'
             wrote == credited[u] - wallet[u]
             wrote1 == credited'[u] - wallet'[u]
             total == totalSpent[u]  total1 == totalSpent'[u]
             left == points[u]       left1 == points'[u]
  <1>9. /\ InitialWallet + wrote = P + T /\ total + S = P /\ InitialPoints - left + Q = R
        /\ wrote \in Int /\ wrote1 \in Int /\ total \in Int /\ total1 \in Int
        /\ left \in Int /\ left1 \in Int /\ InitialWallet \in Int /\ InitialPoints \in Int
    BY <1>2, <1>3
  <1>10. InitialWallet + wrote1 = P1 + T1 /\ total1 + S1 = P1 /\ InitialPoints - left1 + Q1 = R1
    <2> HIDE DEF P, P1, R, R1, T, T1, S, S1, Q, Q1, c, c1, d, d1, t, t1, s, s1, q, q1,
                 wrote, wrote1, total, total1, left, left1
    <2>1. /\ P1 - c1 = P - c /\ R1 - d1 = R - d
          /\ P \in Int /\ R \in Int /\ P1 \in Int /\ R1 \in Int
      BY <1>6 DEF P, P1, R, R1, c, c1, d, d1
    <2>2. /\ T1 - t1 = T - t /\ S1 - s1 = S - s /\ Q1 - q1 = Q - q
          /\ T \in Int /\ S \in Int /\ Q \in Int /\ T1 \in Int /\ S1 \in Int /\ Q1 \in Int
      BY <1>7 DEF T, T1, S, S1, Q, Q1, t, t1, s, s1, q, q1
    <2>3. /\ wrote1 - wrote = (c1 - c) + (t1 - t)
          /\ (total1 - total) + (s1 - s) = c1 - c
          /\ (left - left1) + (q1 - q) = d1 - d
      BY <1>8 DEF c, c1, d, d1, t, t1, s, s1, q, q1, wrote, wrote1, total, total1, left, left1
    <2>4. /\ c \in Int /\ c1 \in Int /\ d \in Int /\ d1 \in Int /\ t \in Int /\ t1 \in Int
          /\ s \in Int /\ s1 \in Int /\ q \in Int /\ q1 \in Int
      BY <1>4, <1>5 DEF c, c1, d, d1, t, t1, s, s1, q, q1
    <2> QED  BY <1>9, <2>1, <2>2, <2>3, <2>4
  <1> QED  BY <1>3, <1>10

-----------------------------------------------------------------------------
(* With checkouts and payouts only, and no failure, every step moves money *)
(* and points between the parts of the ledger.                             *)

\* What the ledger needs to know of request r and the orders it inserted.
ShapeOf(r) ==
    /\ \A p \in Products : Exists(<<r, p>>) => req[r].pc \in Settling \cup {"done"}
    /\ req[r].pc = "deduct" => WalletDeducted(r)
    /\ req[r].pc = "create" => req[r].price >= 0
    /\ req[r].pc = "points" => req[r].points > 0
    /\ req[r].pc = "settle" => Bought(<<r, ProductOf(req[r].cart)>>)

LedgerShape ==
    /\ IsFiniteSet(Begun) /\ IsFiniteSet(OrderKeys)
    /\ \A r \in Requests : ShapeOf(r)

LedgerInv == RoutedInv /\ LedgerShape /\ Ledger

\* The parts of a request and of an order, by what the request and the row say.
LEMMA PartsOfRequest ==
    ASSUME NEW r \in Requests, NEW u
    PROVE  /\ Taken(r, u) = IF req[r].user = u /\ req[r].pc = "create" /\ WalletDeducted(r)
                            THEN req[r].price ELSE 0
           /\ Taken(r, u)' = IF req'[r].user = u /\ req'[r].pc = "create" /\ WalletDeducted(r)'
                             THEN req'[r].price ELSE 0
           /\ Spent(r, u) = IF req[r].user = u /\ req[r].pc \in Settling
                            THEN req[r].price ELSE 0
           /\ Spent(r, u)' = IF req'[r].user = u /\ req'[r].pc \in Settling
                             THEN req'[r].price ELSE 0
           /\ Redeems(r, u) = IF req[r].user = u /\ req[r].pc \in {"settle", "points"}
                                 /\ req[r].points > 0
                              THEN req[r].points ELSE 0
           /\ Redeems(r, u)' = IF req'[r].user = u /\ req'[r].pc \in {"settle", "points"}
                                  /\ req'[r].points > 0
                               THEN req'[r].points ELSE 0
  BY DEF Taken, Spent, Redeems, Taking, Spending, Redeeming, InFlightFor

LEMMA PartsOfRow ==
    ASSUME NEW k \in Requests \X Products, NEW u, orders[k] \in Row
    PROVE  /\ Paid(k, u) = IF orders[k].user = u /\ orders[k].method = "WALLET"
                           THEN orders[k].amount ELSE 0
           /\ Redeemed(k, u) = IF orders[k].user = u /\ orders[k].method = "WALLET"
                                  /\ orders[k].status # "PENDING"
                               THEN Positive(orders[k].points) ELSE 0
  BY OrderAssumption DEF Paid, Redeemed, SettledOrdersOf, WalletOrdersOf, OrderKeys, Bought, Exists

LEMMA PartsOfNewRow ==
    ASSUME NEW k \in Requests \X Products, NEW u, orders'[k] \in Row
    PROVE  /\ Paid(k, u)' = IF orders'[k].user = u /\ orders'[k].method = "WALLET"
                            THEN orders'[k].amount ELSE 0
           /\ Redeemed(k, u)' = IF orders'[k].user = u /\ orders'[k].method = "WALLET"
                                   /\ orders'[k].status # "PENDING"
                                THEN Positive(orders'[k].points) ELSE 0
  BY OrderAssumption DEF Paid, Redeemed, SettledOrdersOf, WalletOrdersOf, OrderKeys, Bought, Exists

LEMMA PartsOfNoRow ==
    ASSUME NEW k, NEW u, ~Exists(k)
    PROVE  Paid(k, u) = 0 /\ Redeemed(k, u) = 0
  BY DEF Paid, Redeemed, SettledOrdersOf, WalletOrdersOf, OrderKeys

LEMMA PartsOfSameOrders ==
    ASSUME UNCHANGED orders, NEW k, NEW u
    PROVE  Paid(k, u)' = Paid(k, u) /\ Redeemed(k, u)' = Redeemed(k, u)
  BY DEF Paid, Redeemed, SettledOrdersOf, WalletOrdersOf, OrderKeys, Bought, Exists

\* A step of request r leaves the shape of the other requests alone.
LEMMA ShapeKept ==
    ASSUME LedgerShape, NEW r \in Requests, Alone(r), NEW k,
           \A j : j # k => orders'[j] = orders[j],
           \A q \in Requests, p \in Products : <<q, p>> = k => q = r,
           \A q \in Requests \ {r} : req[q].pc = "settle" => ProductOf(req[q].cart) \in Products,
           ShapeOf(r)'
    PROVE  LedgerShape' /\ IsFiniteSet(Begun') /\ IsFiniteSet(OrderKeys')
  <1>1. Begun' \subseteq Begun \cup {r}
    BY DEF Alone, Begun
  <1>2. OrderKeys' \subseteq OrderKeys \cup {k}
    BY DEF OrderKeys, Exists
  <1>3. IsFiniteSet(Begun') /\ IsFiniteSet(OrderKeys')
    BY <1>1, <1>2, AtMostOneMore DEF LedgerShape
  <1>4. ASSUME NEW q \in Requests
        PROVE  ShapeOf(q)'
    <2>1. CASE q = r
      BY <2>1
    <2>2. CASE q # r
      <3>1. req'[q] = req[q] /\ \A p \in Products : orders'[<<q, p>>] = orders[<<q, p>>]
        BY <2>2 DEF Alone
      <3>2. ShapeOf(q)
        BY DEF LedgerShape
      <3> QED  BY <2>2, <3>1, <3>2 DEF ShapeOf, Exists, Bought, WalletDeducted
    <2> QED  BY <2>1, <2>2
  <1> QED  BY <1>3, <1>4 DEF LedgerShape

\* A request that settles has a product to settle.
LEMMA SettlesAProduct ==
    ASSUME TypedInv
    PROVE  \A q \in Requests : req[q].pc = "settle" => ProductOf(req[q].cart) \in Products
  <1> SUFFICES ASSUME NEW q \in Requests, req[q].pc = "settle"
               PROVE  ProductOf(req[q].cart) \in Products
    OBVIOUS
  <1> QED  BY UnderWayRequest DEF Resting

\* Every step of a request that writes no order.
LEMMA LedgerMoves ==
    ASSUME LedgerInv, RoutedInv', NEW r \in Requests, Alone(r), UNCHANGED orders,
           /\ req'[r].pc = "deduct" => WalletDeducted(r)'
           /\ req'[r].pc = "create" => req'[r].price >= 0
           /\ req'[r].pc = "points" => req'[r].points > 0
           /\ req'[r].pc # "settle"
           /\ req[r].pc \in Settling \cup {"done"} => req'[r].pc \in Settling \cup {"done"},
           \A u \in Users :
              /\ (credited'[u] - wallet'[u]) - (credited[u] - wallet[u]) =
                    Taken(r, u)' - Taken(r, u)
              /\ (totalSpent'[u] - totalSpent[u]) + (Spent(r, u)' - Spent(r, u)) = 0
              /\ (points[u] - points'[u]) + (Redeems(r, u)' - Redeems(r, u)) = 0
    PROVE  LedgerInv'
  <1> DEFINE k == <<r, 0>>
  <1>1. TypedInv /\ TypedInv' /\ LedgerShape /\ Ledger
    BY DEF LedgerInv, RoutedInv
  <1>2. ShapeOf(r)'
    <2>1. ShapeOf(r)
      BY <1>1 DEF LedgerShape
    <2> QED  BY <2>1 DEF ShapeOf, Exists
  <1>3. /\ \A j : j # k => orders'[j] = orders[j]
        /\ \A q \in Requests, p \in Products : <<q, p>> = k => q = r
    OBVIOUS
  <1> HIDE DEF k
  <1>4. LedgerShape' /\ IsFiniteSet(Begun') /\ IsFiniteSet(OrderKeys')
    BY <1>1, <1>2, <1>3, ShapeKept, SettlesAProduct
  <1>5. IsFiniteSet(Begun) /\ IsFiniteSet(OrderKeys)
    BY <1>1 DEF LedgerShape
  <1>6. ASSUME NEW u \in Users
        PROVE  /\ (credited'[u] - wallet'[u]) - (credited[u] - wallet[u]) =
                     (Paid(k, u)' - Paid(k, u)) + (Taken(r, u)' - Taken(r, u))
               /\ (totalSpent'[u] - totalSpent[u]) + (Spent(r, u)' - Spent(r, u)) =
                     Paid(k, u)' - Paid(k, u)
               /\ (points[u] - points'[u]) + (Redeems(r, u)' - Redeems(r, u)) =
                     Redeemed(k, u)' - Redeemed(k, u)
    <2>1. Paid(k, u)' = Paid(k, u) /\ Redeemed(k, u)' = Redeemed(k, u)
      BY PartsOfSameOrders
    <2>2. Paid(k, u) \in Int /\ Redeemed(k, u) \in Int
      <3>1. k \in OrderKeys => orders[k] \in Row
        BY <1>1 DEF TypedInv, TypeOK, OrderKeys, Exists
      <3> QED  BY <3>1 DEF Paid, Redeemed, SettledOrdersOf, WalletOrdersOf, Row, Positive
    <2>3. Paid(k, u)' - Paid(k, u) = 0 /\ Redeemed(k, u)' - Redeemed(k, u) = 0
      BY <2>1, <2>2
    <2>4. Taken(r, u) \in Int /\ Taken(r, u)' \in Int
      BY <1>1 DEF Taken, TypedInv, TypeOK, Activity
    <2>5. 0 + (Taken(r, u)' - Taken(r, u)) = Taken(r, u)' - Taken(r, u)
      BY <2>4
    <2> QED  BY <2>3, <2>5
  <1>7. Ledger'
    BY <1>1, <1>3, <1>4, <1>5, <1>6, LedgerKept
  <1> QED  BY <1>4, <1>7 DEF LedgerInv

\* A request that has not come to its order, and has taken nothing, moves.
LEMMA QuietMoves ==
    ASSUME LedgerInv, RoutedInv', NEW r \in Requests, Alone(r),
           UNCHANGED <<wallet, points, totalSpent, credited, orders>>,
           req[r].pc \notin Settling \cup {"create", "done"},
           req'[r].pc \notin Settling,
           req'[r].pc = "deduct" => WalletDeducted(r)',
           req'[r].pc = "create" => req'[r].price >= 0 /\ ~WalletDeducted(r)'
    PROVE  LedgerInv'
  <1>1. ASSUME NEW u \in Users
        PROVE  /\ (credited'[u] - wallet'[u]) - (credited[u] - wallet[u]) =
                     Taken(r, u)' - Taken(r, u)
               /\ (totalSpent'[u] - totalSpent[u]) + (Spent(r, u)' - Spent(r, u)) = 0
               /\ (points[u] - points'[u]) + (Redeems(r, u)' - Redeems(r, u)) = 0
    <2>1. /\ Taken(r, u) = 0 /\ Taken(r, u)' = 0 /\ Spent(r, u) = 0 /\ Spent(r, u)' = 0
          /\ Redeems(r, u) = 0 /\ Redeems(r, u)' = 0
      BY PartsOfRequest DEF Settling
    <2>2. /\ wallet[u] \in Int /\ credited[u] \in Int /\ totalSpent[u] \in Int
          /\ points[u] \in Int
      BY DEF LedgerInv, RoutedInv, TypedInv, TypeOK
    <2> QED  BY <2>1, <2>2
  <1> QED  BY <1>1, LedgerMoves DEF Settling

\* Nothing moves while a request arrives, reads and prices.
LEMMA QuietLedger ==
    ASSUME LedgerInv, RoutedInv', NEW r \in Requests,
           \/ RequestArrives(r) \/ ReadPromo(r) \/ CountPromoUse(r) \/ ReadSession(r)
           \/ CalculatePrice(r)
    PROVE  LedgerInv'
  <1>1. TypedInv /\ req \in [Requests -> Activity]
    BY DEF LedgerInv, RoutedInv, TypedInv, TypeOK
  <1>2. UNCHANGED <<wallet, points, totalSpent, credited, orders>>
    BY DEF RequestArrives, ReadPromo, CountPromoUse, ReadSession, CalculatePrice, userVars
  <1>3. /\ Alone(r) /\ req[r].pc \notin Settling \cup {"create", "done"}
        /\ \/ req'[r].pc \notin Settling \cup {"deduct", "create"}
           \/ req'[r].pc = "deduct" /\ req'[r].method = "WALLET" /\ req'[r].price > 0
           \/ /\ req'[r].pc = "create" /\ req'[r].price >= 0
              /\ ~(req'[r].method = "WALLET" /\ req'[r].price > 0)
    <2> USE DEF Settling
    <2>1. CASE RequestArrives(r)
      BY <1>1, <2>1, ArrivalMoves
    <2>2. CASE ReadPromo(r)
      <3>1. AfterPromo(req[r].kind, req[r].method) \in {"session", "bulkRead", "bulkOrders"}
        BY DEF AfterPromo
      <3>2. req[r].pc = "promo"
        BY <2>2 DEF ReadPromo
      <3> QED  BY <1>1, <2>2, <3>1, <3>2, ReadPromoMoves
    <2>3. CASE CountPromoUse(r)
      <3> DEFINE next == AfterPromo(req[r].kind, req[r].method)
      <3>1. next \in {"session", "bulkRead", "bulkOrders"} /\ next \in Steps
        BY DEF AfterPromo, Steps
      <3>2. GoTo(r, next) /\ req[r].pc = "countUse"
        BY <2>3 DEF CountPromoUse
      <3> HIDE DEF next
      <3>3. Alone(r) /\ req'[r].pc = next
        BY <1>1, <3>1, <3>2, GoToMoves
      <3> QED  BY <3>1, <3>2, <3>3
    <2>4. CASE ReadSession(r)
      BY <1>1, <2>4, ReadSessionMoves DEF ReadSession
    <2>5. CASE CalculatePrice(r)
      BY <1>1, <2>5, CalculatePriceMoves DEF CalculatePrice
    <2> QED  BY <2>1, <2>2, <2>3, <2>4, <2>5
  <1>4. /\ req'[r].pc \notin Settling
        /\ req'[r].pc = "deduct" => WalletDeducted(r)'
        /\ req'[r].pc = "create" => req'[r].price >= 0 /\ ~WalletDeducted(r)'
    BY <1>3 DEF WalletDeducted, Settling
  <1> QED  BY <1>2, <1>3, <1>4, QuietMoves

\* What leaves the wallet is what the request takes along to its order.
LEMMA DeductLedger ==
    ASSUME LedgerInv, RoutedInv', NEW r \in Requests, DeductWallet(r)
    PROVE  LedgerInv'
  <1>1. /\ TypedInv /\ req \in [Requests -> Activity] /\ "create" \in Steps
        /\ wallet \in [Users -> Int]
    BY DEF LedgerInv, RoutedInv, TypedInv, TypeOK, Steps
  <1>2. /\ req[r].pc = "deduct" /\ UNCHANGED <<points, totalSpent, credited, orders>>
        /\ req[r].user \in Users /\ req[r].price \in Int
    BY <1>1, UnderWayRequest DEF DeductWallet, Resting
  <1>3. WalletDeducted(r)
    BY <1>2 DEF LedgerInv, LedgerShape, ShapeOf
  <1>4. CASE wallet[req[r].user] >= req[r].price
    <2>1. /\ wallet' = [wallet EXCEPT ![req[r].user] = wallet[req[r].user] - req[r].price]
          /\ GoTo(r, "create")
      BY <1>4 DEF DeductWallet
    <2>2. Alone(r) /\ Owned(r) /\ Priced(r) /\ req'[r].pc = "create"
      BY <1>1, <2>1, GoToMoves
    <2>3. WalletDeducted(r)' /\ req'[r].price >= 0
      BY <1>2, <1>3, <2>2 DEF WalletDeducted, Owned, Priced
    <2>4. ASSUME NEW u \in Users
          PROVE  /\ (credited'[u] - wallet'[u]) - (credited[u] - wallet[u]) =
                       Taken(r, u)' - Taken(r, u)
                 /\ (totalSpent'[u] - totalSpent[u]) + (Spent(r, u)' - Spent(r, u)) = 0
                 /\ (points[u] - points'[u]) + (Redeems(r, u)' - Redeems(r, u)) = 0
      <3>1. /\ Taken(r, u) = 0 /\ Spent(r, u) = 0 /\ Spent(r, u)' = 0
            /\ Redeems(r, u) = 0 /\ Redeems(r, u)' = 0
            /\ Taken(r, u)' = IF req[r].user = u THEN req[r].price ELSE 0
        BY <1>2, <2>2, <2>3, PartsOfRequest DEF Settling, Owned, Priced
      <3>2. /\ wallet[u] \in Int /\ credited[u] \in Int /\ totalSpent[u] \in Int
            /\ points[u] \in Int
        BY DEF LedgerInv, RoutedInv, TypedInv, TypeOK
      <3>3. wallet'[u] = wallet[u] - IF req[r].user = u THEN req[r].price ELSE 0
        BY <1>1, <1>2, <2>1, <3>2
      <3> QED  BY <1>2, <3>1, <3>2, <3>3
    <2> QED  BY <1>2, <2>2, <2>3, <2>4, LedgerMoves DEF Settling
  <1>5. CASE ~(wallet[req[r].user] >= req[r].price)
    <2>1. Finish(r) /\ UNCHANGED wallet
      BY <1>5 DEF DeductWallet
    <2>2. Alone(r) /\ req'[r].pc = "done"
      BY <1>1, <2>1, FinishMoves
    <2> QED  BY <1>2, <2>1, <2>2, QuietMoves DEF Settling
  <1> QED  BY <1>4, <1>5

\* What the request took along becomes the amount of its order.
LEMMA CreateLedger ==
    ASSUME LedgerInv, RoutedInv', NEW r \in Requests, CreateOrder(r)
    PROVE  LedgerInv'
  <1>1. TypedInv /\ TypedInv' /\ LedgerShape /\ Ledger /\ ShapeOf(r)
    BY DEF LedgerInv, RoutedInv, LedgerShape
  <1>2. /\ req[r].pc = "create" /\ UNCHANGED <<wallet, points, totalSpent, credited>>
        /\ ~SettleWalletOrder(r) /\ ~CreateGiftOrder(r)
    BY DEF CreateOrder, userVars, SettleWalletOrder, CreateGiftOrder
  <1>3. /\ <<r, ProductOf(req[r].cart)>> \in Requests \X Products
        /\ ProductOf(req[r].cart) \in Products
        /\ req[r].user \in Users /\ req[r].price \in Int /\ req[r].points \in Int
        /\ req[r].price >= 0 /\ ~Exists(<<r, ProductOf(req[r].cart)>>)
    BY <1>1, <1>2, UnderWayRequest DEF ShapeOf, Resting, Settling
  <1>0. PICK k \in Requests \X Products : k = <<r, ProductOf(req[r].cart)>>
    BY <1>3
  <1>4. PICK row \in Row :
            /\ orders' = [orders EXCEPT ![k] = row]
            /\ row.user = req[r].user /\ row.method = req[r].method
            /\ row.amount = req[r].price /\ row.points = req[r].points
            /\ WalletDeducted(r) => row.status = "PAID"
            /\ ~WalletDeducted(r) => row.status = "PENDING"
    BY <1>0, <1>1, InsertMoves
  <1>5. /\ Alone(r)
        /\ \/ req'[r].pc = "done" /\ ~WalletDeducted(r)
           \/ WalletDeducted(r) /\ Owned(r) /\ Priced(r) /\ req'[r].pc = "settle"
    BY <1>1, <1>2, OrderStepMoves
  <1>6. /\ \A j : j # k => orders'[j] = orders[j]
        /\ orders'[k] = row
    BY <1>1, <1>3, <1>4, RowInserted
  <1>7. \A q \in Requests, p \in Products : <<q, p>> = k => q = r
    BY <1>0
  <1>8. ShapeOf(r)'
    <2>1. req'[r].pc \in {"settle", "done"}
      BY <1>5
    <2>2. req'[r].pc = "settle" => Bought(<<r, ProductOf(req[r].cart)>>)' /\ req'[r].cart = req[r].cart
      <3>1. CASE WalletDeducted(r) /\ Owned(r)
        <4>1. orders'[k] # NoOrder /\ orders'[k].status # "PENDING"
          BY <1>4, <1>6, <3>1, OrderAssumption
        <4> QED  BY <1>0, <3>1, <4>1 DEF Bought, Exists, Owned
      <3> QED  BY <1>5, <3>1
    <2> QED  BY <2>1, <2>2 DEF ShapeOf, Settling
  <1>9. ASSUME NEW u \in Users
        PROVE  /\ (credited'[u] - wallet'[u]) - (credited[u] - wallet[u]) =
                     (Paid(k, u)' - Paid(k, u)) + (Taken(r, u)' - Taken(r, u))
               /\ (totalSpent'[u] - totalSpent[u]) + (Spent(r, u)' - Spent(r, u)) =
                     Paid(k, u)' - Paid(k, u)
               /\ (points[u] - points'[u]) + (Redeems(r, u)' - Redeems(r, u)) =
                     Redeemed(k, u)' - Redeemed(k, u)
    <2>1. Paid(k, u) = 0 /\ Redeemed(k, u) = 0
      BY <1>0, <1>3, PartsOfNoRow
    <2>2. /\ Paid(k, u)' = IF row.user = u /\ row.method = "WALLET" THEN row.amount ELSE 0
          /\ Redeemed(k, u)' = IF row.user = u /\ row.method = "WALLET" /\ row.status # "PENDING"
                               THEN Positive(row.points) ELSE 0
      BY <1>3, <1>6, PartsOfNewRow
    <2>3. /\ wallet[u] \in Int /\ credited[u] \in Int /\ totalSpent[u] \in Int
          /\ points[u] \in Int
      BY DEF LedgerInv, RoutedInv, TypedInv, TypeOK
    <2>4. Spent(r, u) = 0 /\ Redeems(r, u) = 0 /\ Taken(r, u)' = 0
      BY <1>2, <1>5, PartsOfRequest DEF Settling
    <2>5. CASE WalletDeducted(r)
      <3>1. /\ Taken(r, u) = IF req[r].user = u THEN req[r].price ELSE 0
            /\ Spent(r, u)' = IF req[r].user = u THEN req[r].price ELSE 0
            /\ Redeems(r, u)' = IF req[r].user = u /\ req[r].points > 0 THEN req[r].points ELSE 0
        BY <1>2, <1>5, <2>5, PartsOfRequest DEF Settling, Owned, Priced
      <3>2. /\ Paid(k, u)' = IF req[r].user = u THEN req[r].price ELSE 0
            /\ Redeemed(k, u)' = IF req[r].user = u THEN Positive(req[r].points) ELSE 0
        BY <1>4, <2>2, <2>5 DEF WalletDeducted
      <3>3. Redeemed(k, u)' = Redeems(r, u)'
        BY <1>3, <3>1, <3>2 DEF Positive
      <3>4. Redeems(r, u)' \in Int /\ Paid(k, u)' \in Int
        BY <1>3, <3>1, <3>2
      <3> QED  BY <1>2, <1>3, <2>1, <2>3, <2>4, <3>1, <3>2, <3>3, <3>4
    <2>6. CASE ~WalletDeducted(r)
      <3>1. /\ Taken(r, u) = 0 /\ Spent(r, u)' = 0 /\ Redeems(r, u)' = 0
        BY <1>2, <1>5, <2>6, PartsOfRequest DEF Settling
      <3>2. Paid(k, u)' = 0 /\ Redeemed(k, u)' = 0
        BY <1>3, <1>4, <2>2, <2>6 DEF WalletDeducted
      <3> QED  BY <1>2, <2>1, <2>3, <2>4, <3>1, <3>2
    <2> QED  BY <2>5, <2>6
  <1>10. LedgerShape' /\ IsFiniteSet(Begun') /\ IsFiniteSet(OrderKeys')
    BY <1>1, <1>5, <1>6, <1>7, <1>8, ShapeKept, SettlesAProduct
  <1>11. IsFiniteSet(Begun) /\ IsFiniteSet(OrderKeys)
    BY <1>1 DEF LedgerShape
  <1>12. Ledger'
    BY <1>1, <1>5, <1>6, <1>9, <1>10, <1>11, LedgerKept
  <1> QED  BY <1>10, <1>12 DEF LedgerInv

\* An order that keeps its amount, customer and points keeps its parts.
LEMMA PartsOfKeptRow ==
    ASSUME NEW k \in Requests \X Products, NEW u, NEW row \in Row, orders[k] \in Row,
           orders'[k] = row,
           /\ row.user = orders[k].user /\ row.method = orders[k].method
           /\ row.amount = orders[k].amount /\ row.points = orders[k].points
           /\ row.status # "PENDING"
           /\ orders[k].method = "WALLET" => orders[k].status # "PENDING"
    PROVE  /\ Paid(k, u)' = Paid(k, u) /\ Redeemed(k, u)' = Redeemed(k, u)
           /\ Paid(k, u) \in Int /\ Redeemed(k, u) \in Int
  <1>1. /\ Paid(k, u)' = Paid(k, u) /\ Redeemed(k, u)' = Redeemed(k, u)
    BY PartsOfRow, PartsOfNewRow
  <1>2. orders[k].amount \in Int /\ Positive(orders[k].points) \in Int
    BY DEF Row, Positive
  <1> QED  BY <1>1, <1>2, PartsOfRow

\* The settling of an order that was bought changes no sum over orders.
LEMMA SettleLedger ==
    ASSUME LedgerInv, RoutedInv', NEW r \in Requests, SettleWalletOrder(r)
    PROVE  LedgerInv'
  <1> DEFINE next == IF req[r].points > 0 THEN "points" ELSE "readTotal"
  <1>1. TypedInv /\ TypedInv' /\ LedgerShape /\ Ledger /\ ShapeOf(r)
    BY DEF LedgerInv, RoutedInv, LedgerShape
  <1>2. /\ req[r].pc = "settle" /\ UNCHANGED <<wallet, points, totalSpent, credited>>
        /\ ~CreateOrder(r) /\ ~CreateGiftOrder(r)
    BY DEF CreateOrder, userVars, SettleWalletOrder, CreateGiftOrder
  <1>3. /\ <<r, ProductOf(req[r].cart)>> \in Requests \X Products
        /\ ProductOf(req[r].cart) \in Products
        /\ req[r].user \in Users /\ req[r].price \in Int /\ req[r].points \in Int
        /\ Bought(<<r, ProductOf(req[r].cart)>>)
    BY <1>1, <1>2, UnderWayRequest DEF ShapeOf, Resting
  <1>0. PICK k \in Requests \X Products : k = <<r, ProductOf(req[r].cart)>>
    BY <1>3
  <1>4. PICK row \in Row :
            /\ orders[k] \in Row /\ orders' = [orders EXCEPT ![k] = row]
            /\ row.user = orders[k].user /\ row.method = orders[k].method
            /\ row.amount = orders[k].amount /\ row.points = orders[k].points
            /\ row.status = "PROCESSING"
    BY <1>0, <1>1, SettleMoves
  <1>5. /\ Alone(r) /\ Owned(r) /\ Priced(r) /\ req'[r].pc = next
    BY <1>1, <1>2, OrderStepMoves
  <1>6. /\ \A j : j # k => orders'[j] = orders[j]
        /\ orders'[k] = row
    BY <1>1, <1>3, <1>4, RowInserted
  <1>7. \A q \in Requests, p \in Products : <<q, p>> = k => q = r
    BY <1>0
  <1>8. ShapeOf(r)'
    <2>1. next \in {"points", "readTotal"} /\ (next = "points" => req[r].points > 0)
      OBVIOUS
    <2> QED  BY <1>5, <2>1 DEF ShapeOf, Settling, Priced
  <1>9. ASSUME NEW u \in Users
        PROVE  /\ (credited'[u] - wallet'[u]) - (credited[u] - wallet[u]) =
                     (Paid(k, u)' - Paid(k, u)) + (Taken(r, u)' - Taken(r, u))
               /\ (totalSpent'[u] - totalSpent[u]) + (Spent(r, u)' - Spent(r, u)) =
                     Paid(k, u)' - Paid(k, u)
               /\ (points[u] - points'[u]) + (Redeems(r, u)' - Redeems(r, u)) =
                     Redeemed(k, u)' - Redeemed(k, u)
    <2>1. /\ Paid(k, u)' = Paid(k, u) /\ Redeemed(k, u)' = Redeemed(k, u)
          /\ Paid(k, u) \in Int /\ Redeemed(k, u) \in Int
      <3>1. orders[k].status # "PENDING" /\ row.status # "PENDING"
        BY <1>0, <1>3, <1>4 DEF Bought
      <3> QED  BY <1>3, <1>4, <1>6, <3>1, PartsOfKeptRow
    <2>2. /\ wallet[u] \in Int /\ credited[u] \in Int /\ totalSpent[u] \in Int
          /\ points[u] \in Int
      BY DEF LedgerInv, RoutedInv, TypedInv, TypeOK
    <2>3. /\ Taken(r, u) = 0 /\ Taken(r, u)' = 0
          /\ Spent(r, u)' = Spent(r, u) /\ Spent(r, u) \in Int
          /\ Redeems(r, u)' = Redeems(r, u) /\ Redeems(r, u) \in Int
      BY <1>2, <1>3, <1>5, PartsOfRequest DEF Settling, Owned, Priced
    <2> QED  BY <1>2, <2>1, <2>2, <2>3
  <1>10. LedgerShape' /\ IsFiniteSet(Begun') /\ IsFiniteSet(OrderKeys')
    BY <1>1, <1>5, <1>6, <1>7, <1>8, ShapeKept, SettlesAProduct
  <1>11. IsFiniteSet(Begun) /\ IsFiniteSet(OrderKeys)
    BY <1>1 DEF LedgerShape
  <1>12. Ledger'
    BY <1>1, <1>5, <1>6, <1>9, <1>10, <1>11, LedgerKept
  <1> QED  BY <1>10, <1>12 DEF LedgerInv

\* The points leave the balance, or the price comes to the total.
LEMMA BookLedger ==
    ASSUME LedgerInv, RoutedInv', NEW r \in Requests,
           DeductPoints(r) \/ ReadTotalSpent(r) \/ UpdateUserTotalSpent(r)
    PROVE  LedgerInv'
  <1>1. /\ TypedInv /\ req \in [Requests -> Activity] /\ ShapeOf(r)
        /\ "readTotal" \in Steps
    BY DEF LedgerInv, LedgerShape, RoutedInv, TypedInv, TypeOK, Steps
  <1>2. /\ req[r].pc \in {"points", "readTotal", "total"} /\ UNCHANGED <<wallet, credited, orders>>
        /\ req[r].user \in Users /\ req[r].price \in Int /\ req[r].points \in Int
    <2>1. req[r].pc \in {"points", "readTotal", "total"} /\ UNCHANGED <<wallet, credited, orders>>
      BY DEF DeductPoints, ReadTotalSpent, UpdateUserTotalSpent, userVars
    <2> QED  BY <1>1, <2>1, UnderWayRequest DEF Resting
  <1>3. \A u \in Users : /\ wallet[u] \in Int /\ credited[u] \in Int /\ totalSpent[u] \in Int
                         /\ points[u] \in Int
    BY <1>1 DEF TypedInv, TypeOK
  <1>4. CASE DeductPoints(r)
    <2>1. /\ points' = [points EXCEPT ![req[r].user] = points[req[r].user] - req[r].points]
          /\ totalSpent' = totalSpent /\ req[r].pc = "points" /\ req[r].points > 0
      BY <1>1, <1>4 DEF DeductPoints, ShapeOf
    <2>2. Alone(r) /\ Owned(r) /\ Priced(r) /\ req'[r].pc = "readTotal"
      BY <1>1, <1>4, GoToMoves DEF DeductPoints
    <2>3. ASSUME NEW u \in Users
          PROVE  /\ (credited'[u] - wallet'[u]) - (credited[u] - wallet[u]) =
                       Taken(r, u)' - Taken(r, u)
                 /\ (totalSpent'[u] - totalSpent[u]) + (Spent(r, u)' - Spent(r, u)) = 0
                 /\ (points[u] - points'[u]) + (Redeems(r, u)' - Redeems(r, u)) = 0
      <3>1. /\ Taken(r, u) = 0 /\ Taken(r, u)' = 0
            /\ Spent(r, u)' = Spent(r, u) /\ Spent(r, u) \in Int
            /\ Redeems(r, u) = IF req[r].user = u THEN req[r].points ELSE 0
            /\ Redeems(r, u)' = 0
        BY <1>2, <2>1, <2>2, PartsOfRequest DEF Settling, Owned, Priced
      <3>2. points'[u] = points[u] - IF req[r].user = u THEN req[r].points ELSE 0
        <4>1. points \in [Users -> Int]
          BY <1>1 DEF TypedInv, TypeOK
        <4> QED  BY <1>2, <1>3, <2>1, <4>1
      <3> QED  BY <1>2, <1>3, <2>1, <3>1, <3>2
    <2> QED  BY <1>2, <2>1, <2>2, <2>3, LedgerMoves DEF Settling
  <1>5. CASE ReadTotalSpent(r)
    <2>1. UNCHANGED <<points, totalSpent>> /\ req[r].pc = "readTotal"
      BY <1>5 DEF ReadTotalSpent, userVars
    <2>2. Alone(r) /\ Owned(r) /\ Priced(r) /\ req'[r].pc = "total"
      BY <1>1, <1>5, ReadTotalMoves
    <2>3. ASSUME NEW u \in Users
          PROVE  /\ (credited'[u] - wallet'[u]) - (credited[u] - wallet[u]) =
                       Taken(r, u)' - Taken(r, u)
                 /\ (totalSpent'[u] - totalSpent[u]) + (Spent(r, u)' - Spent(r, u)) = 0
                 /\ (points[u] - points'[u]) + (Redeems(r, u)' - Redeems(r, u)) = 0
      <3>1. /\ Taken(r, u) = 0 /\ Taken(r, u)' = 0
            /\ Spent(r, u)' = Spent(r, u) /\ Spent(r, u) \in Int
            /\ Redeems(r, u) = 0 /\ Redeems(r, u)' = 0
        BY <1>2, <2>1, <2>2, PartsOfRequest DEF Settling, Owned, Priced
      <3> QED  BY <1>2, <1>3, <2>1, <3>1
    <2> QED  BY <1>2, <2>1, <2>2, <2>3, LedgerMoves DEF Settling
  <1>6. CASE UpdateUserTotalSpent(r)
    <2>1. /\ totalSpent' = [totalSpent EXCEPT ![req[r].user] = totalSpent[req[r].user] + req[r].price]
          /\ points' = points /\ req[r].pc = "total"
      BY <1>6 DEF UpdateUserTotalSpent
    <2>2. Alone(r) /\ req'[r].pc = "done"
      BY <1>1, <1>6, FinishMoves DEF UpdateUserTotalSpent
    <2>3. ASSUME NEW u \in Users
          PROVE  /\ (credited'[u] - wallet'[u]) - (credited[u] - wallet[u]) =
                       Taken(r, u)' - Taken(r, u)
                 /\ (totalSpent'[u] - totalSpent[u]) + (Spent(r, u)' - Spent(r, u)) = 0
                 /\ (points[u] - points'[u]) + (Redeems(r, u)' - Redeems(r, u)) = 0
      <3>1. /\ Taken(r, u) = 0 /\ Taken(r, u)' = 0
            /\ Spent(r, u) = (IF req[r].user = u THEN req[r].price ELSE 0) /\ Spent(r, u)' = 0
            /\ Redeems(r, u) = 0 /\ Redeems(r, u)' = 0
        BY <1>2, <2>1, <2>2, PartsOfRequest DEF Settling
      <3>2. totalSpent'[u] = totalSpent[u] + IF req[r].user = u THEN req[r].price ELSE 0
        <4>1. totalSpent \in [Users -> Int]
          BY <1>1 DEF TypedInv, TypeOK
        <4> QED  BY <1>2, <1>3, <2>1, <4>1
      <3> QED  BY <1>2, <1>3, <2>1, <3>1, <3>2
    <2> QED  BY <1>2, <2>1, <2>2, <2>3, LedgerMoves DEF Settling
  <1> QED  BY <1>4, <1>5, <1>6

\* A payout adds as much to the wallet as to what payouts have credited.
LEMMA PayoutLedger ==
    ASSUME LedgerInv, RoutedInv', NEW r \in Requests, PayoutReferral(r)
    PROVE  LedgerInv'
  <1>1. TypedInv /\ req \in [Requests -> Activity]
    BY DEF LedgerInv, RoutedInv, TypedInv, TypeOK
  <1>2. /\ req[r].pc = "payout" /\ UNCHANGED <<points, totalSpent, orders>>
        /\ wallet' = [wallet EXCEPT ![req[r].user] = wallet[req[r].user] + Payout]
        /\ credited' = [credited EXCEPT ![req[r].user] = credited[req[r].user] + Payout]
        /\ Finish(r)
    BY DEF PayoutReferral
  <1>3. Alone(r) /\ req'[r].pc = "done" /\ req[r].user \in Users
    BY <1>1, <1>2, FinishMoves, UnderWayRequest DEF Resting
  <1>4. ASSUME NEW u \in Users
        PROVE  /\ (credited'[u] - wallet'[u]) - (credited[u] - wallet[u]) =
                     Taken(r, u)' - Taken(r, u)
               /\ (totalSpent'[u] - totalSpent[u]) + (Spent(r, u)' - Spent(r, u)) = 0
               /\ (points[u] - points'[u]) + (Redeems(r, u)' - Redeems(r, u)) = 0
    <2>1. /\ Taken(r, u) = 0 /\ Taken(r, u)' = 0 /\ Spent(r, u) = 0 /\ Spent(r, u)' = 0
          /\ Redeems(r, u) = 0 /\ Redeems(r, u)' = 0
      BY <1>2, <1>3, PartsOfRequest DEF Settling
    <2>2. /\ wallet \in [Users -> Int] /\ credited \in [Users -> Nat] /\ Payout \in Nat
          /\ totalSpent[u] \in Int /\ points[u] \in Int
          /\ wallet[u] \in Int /\ credited[u] \in Int
      BY <1>1, CheckoutAssumption DEF TypedInv, TypeOK
    <2>3. credited'[u] - wallet'[u] = credited[u] - wallet[u]
      <3>1. CASE u = req[r].user
        BY <1>2, <1>3, <2>2, <3>1
      <3>2. CASE u # req[r].user
        BY <1>2, <1>3, <2>2, <3>2
      <3> QED  BY <3>1, <3>2
    <2>4. credited'[u] - wallet'[u] - (credited[u] - wallet[u]) = 0
      BY <2>2, <2>3
    <2> QED  BY <1>2, <2>1, <2>2, <2>4
  <1> QED  BY <1>2, <1>3, <1>4, LedgerMoves DEF Settling

\* A worker, or the payment of Bakong, moves an order of whatever request.
LEMMA WorkerLedger ==
    ASSUME LedgerInv, RoutedInv', NEW k \in Requests \X Products,
           BakongPaymentConfirmed(k) \/ WorkerStep(k)
    PROVE  LedgerInv'
  <1>1. TypedInv /\ TypedInv' /\ LedgerShape /\ Ledger
    BY DEF LedgerInv, RoutedInv
  <1>2. /\ UNCHANGED <<wallet, points, totalSpent, vipRank, credited, usedCount, req>>
        /\ orders[k] \in Row
    BY <1>1, OrderMoves
  <1>3. PICK row \in Row :
            /\ orders' = [orders EXCEPT ![k] = row]
            /\ row.user = orders[k].user /\ row.method = orders[k].method
            /\ row.amount = orders[k].amount /\ row.points = orders[k].points
            /\ row.status # "PENDING"
            /\ orders[k].method = "WALLET" => orders[k].status # "PENDING"
    BY <1>1, OrderMoves
  <1>4. PICK r \in Requests, x \in Products : k = <<r, x>>
    OBVIOUS
  <1>5. /\ \A j : j # k => orders'[j] = orders[j]
        /\ orders'[k] = row
    BY <1>1, <1>3, RowInserted
  <1>6. Alone(r) /\ \A q \in Requests, p \in Products : <<q, p>> = k => q = r
    BY <1>1, <1>2, <1>4 DEF Alone, TypedInv, TypeOK
  <1>7. ShapeOf(r)'
    <2>1. ShapeOf(r) /\ req'[r] = req[r]
      BY <1>1, <1>2 DEF LedgerShape
    <2>2. \A p \in Products : Exists(<<r, p>>)' => Exists(<<r, p>>)
      BY <1>2, <1>5, OrderAssumption DEF Exists
    <2>3. ASSUME NEW p \in Products, Bought(<<r, p>>)
          PROVE  Bought(<<r, p>>)'
      <3>1. CASE <<r, p>> = k
        BY <1>3, <1>5, <3>1, OrderAssumption DEF Bought, Exists
      <3>2. CASE <<r, p>> # k
        BY <1>5, <2>3, <3>2 DEF Bought, Exists
      <3> QED  BY <3>1, <3>2
    <2>4. req[r].pc = "settle" => ProductOf(req[r].cart) \in Products
      BY <1>1, SettlesAProduct
    <2>5. req[r].pc = "settle" => Bought(<<r, ProductOf(req[r].cart)>>)'
      <3> SUFFICES ASSUME req[r].pc = "settle"
                   PROVE  Bought(<<r, ProductOf(req[r].cart)>>)'
        OBVIOUS
      <3>1. PICK p \in Products : p = ProductOf(req[r].cart)
        BY <2>4
      <3>2. Bought(<<r, p>>)
        BY <2>1, <3>1 DEF ShapeOf
      <3>3. Bought(<<r, p>>)' /\ ProductOf(req'[r].cart) = p
        BY <2>1, <2>3, <3>1, <3>2
      <3> QED  BY <3>3 DEF Bought, Exists
    <2>6. /\ \A p \in Products : Exists(<<r, p>>)' => req'[r].pc \in Settling \cup {"done"}
          /\ req'[r].pc = "deduct" => WalletDeducted(r)'
          /\ req'[r].pc = "create" => req'[r].price >= 0
          /\ req'[r].pc = "points" => req'[r].points > 0
      BY <2>1, <2>2 DEF ShapeOf, WalletDeducted
    <2> QED  BY <2>1, <2>5, <2>6 DEF ShapeOf
  <1>8. ASSUME NEW u \in Users
        PROVE  /\ (credited'[u] - wallet'[u]) - (credited[u] - wallet[u]) =
                     (Paid(k, u)' - Paid(k, u)) + (Taken(r, u)' - Taken(r, u))
               /\ (totalSpent'[u] - totalSpent[u]) + (Spent(r, u)' - Spent(r, u)) =
                     Paid(k, u)' - Paid(k, u)
               /\ (points[u] - points'[u]) + (Redeems(r, u)' - Redeems(r, u)) =
                     Redeemed(k, u)' - Redeemed(k, u)
    <2>1. /\ Paid(k, u)' = Paid(k, u) /\ Redeemed(k, u)' = Redeemed(k, u)
          /\ Paid(k, u) \in Int /\ Redeemed(k, u) \in Int
      BY <1>2, <1>3, <1>5, PartsOfKeptRow
    <2>2. /\ wallet[u] \in Int /\ credited[u] \in Int /\ totalSpent[u] \in Int
          /\ points[u] \in Int
      BY <1>1 DEF TypedInv, TypeOK
    <2>3. /\ Taken(r, u)' = Taken(r, u) /\ Taken(r, u) \in Int
          /\ Spent(r, u)' = Spent(r, u) /\ Spent(r, u) \in Int
          /\ Redeems(r, u)' = Redeems(r, u) /\ Redeems(r, u) \in Int
      <3>1. req[r].price \in Int /\ req[r].points \in Int
        BY <1>1 DEF TypedInv, TypeOK, Activity
      <3> QED  BY <1>2, <3>1, PartsOfRequest DEF WalletDeducted
    <2> QED  BY <1>2, <2>1, <2>2, <2>3
  <1>9. LedgerShape' /\ IsFiniteSet(Begun') /\ IsFiniteSet(OrderKeys')
    BY <1>1, <1>5, <1>6, <1>7, ShapeKept, SettlesAProduct
  <1>10. IsFiniteSet(Begun) /\ IsFiniteSet(OrderKeys)
    BY <1>1 DEF LedgerShape
  <1>11. Ledger'
    BY <1>1, <1>5, <1>6, <1>8, <1>9, <1>10, LedgerKept
  <1> QED  BY <1>9, <1>11 DEF LedgerInv

LEMMA LedgerInit == Init => LedgerInv
  <1> SUFFICES ASSUME Init PROVE LedgerInv
    OBVIOUS
  <1>1. \A r \in Requests : req[r].pc = "idle"
    BY FreshTyped DEF Init
  <1>2. \A k \in Requests \X Products : ~Exists(k)
    BY DEF Init, Exists
  <1>3. OrderKeys = {} /\ Begun = {}
    BY <1>1, <1>2 DEF OrderKeys, Begun
  <1>4. LedgerShape
    BY <1>1, <1>2, <1>3, FS_EmptySet DEF LedgerShape, ShapeOf
  <1>5. ASSUME NEW u \in Users
        PROVE  /\ InitialWallet + credited[u] - wallet[u] = PaidSum(u) + TakingSum(u)
               /\ totalSpent[u] + SpendingSum(u) = PaidSum(u)
               /\ InitialPoints - points[u] + RedeemingSum(u) = RedeemedSum(u)
    <2>1. /\ WalletOrdersOf(u) = {} /\ SettledOrdersOf(u) = {}
          /\ Taking(u) = {} /\ Spending(u) = {} /\ Redeeming(u) = {}
      BY <1>1, <1>3 DEF WalletOrdersOf, SettledOrdersOf, Taking, Spending, Redeeming,
         InFlightFor, Settling
    <2>2. /\ PaidSum(u) = 0 /\ RedeemedSum(u) = 0
          /\ TakingSum(u) = 0 /\ SpendingSum(u) = 0 /\ RedeemingSum(u) = 0
      BY <2>1, SumOfNone DEF PaidSum, RedeemedSum, TakingSum, SpendingSum, RedeemingSum,
         AmountsOf, PointsIn, PricesOf, PointsOf
    <2>3. wallet[u] = InitialWallet /\ credited[u] = 0 /\ totalSpent[u] = 0
          /\ points[u] = InitialPoints
      BY DEF Init
    <2> QED  BY <2>2, <2>3, CheckoutAssumption
  <1> QED  BY <1>4, <1>5, RoutedInit, LedgerSums DEF LedgerInv

LEMMA LedgerStep ==
    ASSUME GuardedOnly, ~MayFail, LedgerInv, [Next]_vars
    PROVE  LedgerInv'
  <1>1. RoutedInv /\ RoutedInv'
    BY RoutedStep DEF LedgerInv
  <1>2. ASSUME NEW r \in Requests, RequestArrives(r) \/ RequestStep(r) \/ RequestFails(r)
        PROVE  LedgerInv'
    BY <1>1, <1>2, NoGiftNoBulk, QuietLedger, DeductLedger, CreateLedger, SettleLedger,
       BookLedger, PayoutLedger DEF RequestStep, CheckoutStep, RequestFails
  <1>3. ASSUME NEW k \in Requests \X Products, BakongPaymentConfirmed(k) \/ WorkerStep(k)
        PROVE  LedgerInv'
    BY <1>1, <1>3, WorkerLedger
  <1>4. ASSUME UNCHANGED vars
        PROVE  LedgerInv'
    <2>1. LedgerShape'
      BY <1>4 DEF vars, LedgerInv, LedgerShape, ShapeOf, Begun, OrderKeys, Exists, Bought,
         WalletDeducted
    <2>2. ASSUME NEW u \in Users
          PROVE  /\ PaidSum(u)' = PaidSum(u) /\ RedeemedSum(u)' = RedeemedSum(u)
                 /\ TakingSum(u)' = TakingSum(u) /\ SpendingSum(u)' = SpendingSum(u)
                 /\ RedeemingSum(u)' = RedeemingSum(u)
      <3>1. req' = req /\ orders' = orders
        BY <1>4 DEF vars
      <3>2. OrderKeys' = OrderKeys
        BY <3>1 DEF OrderKeys, Exists
      <3>3. WalletOrdersOf(u)' = WalletOrdersOf(u)
        BY <3>1, <3>2 DEF WalletOrdersOf
      <3>4. SettledOrdersOf(u)' = SettledOrdersOf(u)
        BY <3>1, <3>3 DEF SettledOrdersOf, Bought, Exists
      <3>5. /\ Taking(u)' = Taking(u) /\ Spending(u)' = Spending(u) /\ Redeeming(u)' = Redeeming(u)
        BY <3>1 DEF Taking, Spending, Redeeming, InFlightFor, WalletDeducted
      <3>6. /\ PaidSum(u)' = PaidSum(u) /\ RedeemedSum(u)' = RedeemedSum(u)
        BY <3>1, <3>3, <3>4 DEF PaidSum, RedeemedSum, AmountsOf, PointsIn
      <3>7. /\ TakingSum(u)' = TakingSum(u) /\ SpendingSum(u)' = SpendingSum(u)
            /\ RedeemingSum(u)' = RedeemingSum(u)
        BY <3>1, <3>5 DEF TakingSum, SpendingSum, RedeemingSum, PricesOf, PointsOf
      <3> QED  BY <3>6, <3>7
    <2>3. \A u \in Users :
            /\ InitialWallet + credited'[u] - wallet'[u] = PaidSum(u)' + TakingSum(u)'
            /\ totalSpent'[u] + SpendingSum(u)' = PaidSum(u)'
            /\ InitialPoints - points'[u] + RedeemingSum(u)' = RedeemedSum(u)'
      BY <1>4, <2>2, LedgerSums DEF vars, LedgerInv
    <2>4. Ledger'
      BY <2>3 DEF Ledger, WalletMatchesOrders, SpendingAddsUp, PointsAddUp, TakingSum,
         SpendingSum, RedeemingSum, PaidSum, RedeemedSum, Taking, Spending, Redeeming, Settling
    <2> QED  BY <1>1, <2>1, <2>4 DEF LedgerInv
  <1> QED  BY <1>2, <1>3, <1>4 DEF Next

LEMMA LedgerCorrect ==
    ASSUME GuardedOnly, ~MayFail
    PROVE  Spec => []LedgerInv
  <1>1. LedgerInv /\ [Next]_vars => LedgerInv'
    BY LedgerStep
  <1> QED  BY <1>1, LedgerInit, PTL DEF Spec

\* If no request fails, the amounts of a customer's wallet orders are exactly the
\* money that left the wallet, whatever the interleaving of checkouts, payouts,
\* workers and payments (app/api/orders/route.ts).
THEOREM WalletOrdersCorrect ==
    ASSUME GuardedOnly, ~MayFail
    PROVE  Spec => []WalletMatchesOrders
  <1>1. LedgerInv => WalletMatchesOrders
    BY DEF LedgerInv, Ledger
  <1> QED  BY <1>1, LedgerCorrect, PTL

\* The total spent is the sum of the settled wallet checkouts: the increments of
\* updateUserTotalSpent (lib/vip.ts) lose no update.
THEOREM SpendingCorrect ==
    ASSUME GuardedOnly, ~MayFail
    PROVE  Spec => []SpendingAddsUp
  <1>1. LedgerInv => SpendingAddsUp
    BY DEF LedgerInv, Ledger
  <1> QED  BY <1>1, LedgerCorrect, PTL

\* The points that settled wallet orders record are exactly those that left the
\* balance or are about to.
THEOREM OrderPointsCorrect ==
    ASSUME GuardedOnly, ~MayFail
    PROVE  Spec => []PointsAddUp
  <1>1. LedgerInv => PointsAddUp
    BY DEF LedgerInv, Ledger
  <1> QED  BY <1>1, LedgerCorrect, PTL
=============================================================================
