------------------------------ MODULE StatusPath ------------------------------
(***************************************************************************)
(* What lib/payment-state-machine.ts promises of every order: its status   *)
(* starts at PENDING and only ever moves along STATE_TRANSITIONS ("no      *)
(* skipping states, no rollback, transitions are atomic").  The abstract   *)
(* specification that the detailed order modules are compared with.        *)
(***************************************************************************)
EXTENDS PaymentStateMachine

CONSTANT Orders
VARIABLE status

Init == status = [o \in Orders |-> "PENDING"]

Move(o) ==
    \E to \in PaymentState :
        /\ CanTransition(status[o], to)
        /\ status' = [status EXCEPT ![o] = to]

Next == \E o \in Orders : Move(o)

Spec == Init /\ [][Next]_status
===============================================================================
