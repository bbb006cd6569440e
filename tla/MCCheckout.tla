------------------------------ MODULE MCCheckout ------------------------------
(* Small instances of Checkout: one customer, two products. *)
EXTENDS Checkout, TLC

\* The dear product crosses a rank on its own, the cheap one only with another.
TwoPrices == [p \in Products |-> IF p = CHOOSE q \in Products : TRUE THEN 3000 ELSE 5000]

AnyKind == AllKinds
RequestSymmetry == Permutations(Requests)
=============================================================================
