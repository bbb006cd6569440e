-------------------------------- MODULE Parts --------------------------------
(* Parts that share no variable in the code that runs are checked one at a   *)
(* time, the others standing still: the states are the sum of theirs and not *)
(* the product.                                                              *)

VARIABLE checked  \* the part this behaviour is about

Of(part, step, others) == checked = part /\ step /\ UNCHANGED <<checked, others>>
=============================================================================
