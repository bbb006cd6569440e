------------------------- MODULE PaymentStateMachine -------------------------
(***************************************************************************)
(* The order states of lib/payment-state-machine.ts and the table of the   *)
(* moves between them.  Constant-level only: the atomic compare-and-set    *)
(* that uses the table is an action of the modules that extend this one.   *)
(***************************************************************************)

\* type PaymentState
PaymentState ==
    {"PENDING", "PAID", "PROCESSING", "DELIVERED",
     "FAILED", "EXPIRED", "CANCELLED", "MANUAL_REVIEW"}

\* const STATE_TRANSITIONS
StateTransitions ==
    [PENDING       |-> {"PAID", "EXPIRED", "CANCELLED"},
     PAID          |-> {"PROCESSING", "FAILED"},
     PROCESSING    |-> {"DELIVERED", "FAILED", "MANUAL_REVIEW"},
     DELIVERED     |-> {},
     FAILED        |-> {"MANUAL_REVIEW"},
     EXPIRED       |-> {},
     CANCELLED     |-> {},
     MANUAL_REVIEW |-> {"DELIVERED", "FAILED"}]

CanTransition(from, to) == to \in StateTransitions[from]

\* The list the webhook, the status route and transitionOrderState use for
\* "already paid".
PaidStates == {"PAID", "PROCESSING", "DELIVERED"}
=============================================================================
