------------------------------ MODULE CheckoutPage ------------------------------
(***************************************************************************)
(* app/checkout/[orderNumber]/page.tsx: the page that waits for a payment. *)
(* It fetches the order when it loads and whenever its status has changed, *)
(* and asks the verify route every five seconds; the answers of calls that *)
(* are under way together come in any order.  The order itself moves by    *)
(* the table of lib/payment-state-machine.ts.                              *)
(***************************************************************************)
EXTENDS PaymentStateMachine, Naturals

CONSTANTS
    Requests,         \* bound: calls of the page under way at a time
    MaxPollAttempts,  \* MAX_POLL_ATTEMPTS
    NoOrder           \* null, before the first answer

VARIABLES
    status,    \* of the order, on the server
    order,     \* the status the page has last been told
    request,   \* the calls under way
    polling,   \* the poll: off, about to make its first call, or on
    attempts,  \* pollAttemptsRef
    loading, error,
    failed     \* whether any call has failed

vars == <<status, order, request, polling, attempts, loading, error, failed>>

Terminal == {"DELIVERED", "FAILED", "CANCELLED"}
SuccessStates == {"PAID", "DELIVERED"}  \* QUEUED and DELIVERING are no states of an order

NoRequest == [pc |-> "none", status |-> NoOrder, load |-> FALSE]

TypeOK ==
    /\ status \in PaymentState
    /\ order \in PaymentState \cup {NoOrder}
    /\ request \in [Requests -> [pc : {"none", "verify", "verified", "fetch", "fetched"},
                                 status : PaymentState \cup {NoOrder}, load : BOOLEAN]]
    /\ polling \in {"off", "first", "on"}
    /\ attempts \in 0..MaxPollAttempts
    /\ loading \in BOOLEAN /\ error \in BOOLEAN /\ failed \in BOOLEAN

\* /api/user/me has been answered and the first fetch is under way
Init ==
    /\ status \in PaymentState
    /\ order = NoOrder
    /\ LET first == CHOOSE r \in Requests : TRUE IN
          request = [r \in Requests |->
                       IF r = first THEN [NoRequest EXCEPT !.pc = "fetch", !.load = TRUE] ELSE NoRequest]
    /\ polling = "off"
    /\ attempts = 0
    /\ loading = TRUE /\ error = FALSE /\ failed = FALSE

-----------------------------------------------------------------------------

At(r, pc) == request[r].pc = pc
Becomes(r, next) == request' = [request EXCEPT ![r] = next]

\* the order as it is when the call reaches the server
ServerAnswers(r) ==
    /\ \/ At(r, "verify") /\ Becomes(r, [request[r] EXCEPT !.pc = "verified", !.status = status])
       \/ At(r, "fetch") /\ Becomes(r, [request[r] EXCEPT !.pc = "fetched", !.status = status])
    /\ UNCHANGED <<status, order, polling, attempts, loading, error, failed>>

\* a new status runs two effects again: the one that loads the order, which
\* depends on fetchOrder and so on the status, and the one that polls
PollEffect(new) == IF new \in Terminal \cup SuccessStates THEN "off" ELSE "first"

FetchOrder(r) ==
    /\ At(r, "fetched")
    /\ LET new == request[r].status IN
          /\ order' = new
          /\ \/ /\ new = order
                /\ Becomes(r, NoRequest)
                /\ loading' = (loading /\ ~request[r].load)
                /\ UNCHANGED polling
             \/ /\ new # order
                /\ Becomes(r, [NoRequest EXCEPT !.pc = "fetch", !.load = TRUE])
                /\ loading' = TRUE
                /\ polling' = PollEffect(new)
    /\ UNCHANGED <<status, attempts, error, failed>>

FetchFails(r) ==
    /\ request[r].pc \in {"fetch", "fetched"}
    /\ error' = TRUE /\ failed' = TRUE
    /\ loading' = (loading /\ ~request[r].load)
    /\ Becomes(r, NoRequest)
    /\ UNCHANGED <<status, order, polling, attempts>>

\* isPaid of the verify route
IsPaid(s) == s \in {"PAID", "DELIVERED"}

\* the page looks for the one status that says a payment has come in
VerifyLooksForPaid(r) ==
    /\ At(r, "verified")
    /\ Becomes(r, IF request[r].status = "PAID" THEN [NoRequest EXCEPT !.pc = "fetch"] ELSE NoRequest)
    /\ UNCHANGED <<status, order, polling, attempts, loading, error, failed>>

VerifyPaymentStatus(r) ==
    /\ At(r, "verified")
    /\ Becomes(r, IF IsPaid(request[r].status) THEN [NoRequest EXCEPT !.pc = "fetch"] ELSE NoRequest)
    /\ UNCHANGED <<status, order, polling, attempts, loading, error, failed>>

VerifyFails(r) ==
    /\ request[r].pc \in {"verify", "verified"}
    /\ Becomes(r, NoRequest)
    /\ failed' = TRUE
    /\ UNCHANGED <<status, order, polling, attempts, loading, error>>

\* the first call at once, the others by the timer
StartsPolling(r) ==
    /\ polling = "first" /\ At(r, "none")
    /\ Becomes(r, [NoRequest EXCEPT !.pc = "verify"])
    /\ polling' = "on"
    /\ UNCHANGED <<status, order, attempts, loading, error, failed>>

\* the timer that is never cleared
PollOnAndOn(r) ==
    /\ polling = "on" /\ At(r, "none")
    /\ attempts' = attempts + 1
    /\ Becomes(r, [NoRequest EXCEPT !.pc = "verify"])
    /\ UNCHANGED <<status, order, polling, loading, error, failed>>

Poll(r) ==
    /\ polling = "on" /\ At(r, "none")
    /\ LET more == IF attempts < MaxPollAttempts THEN attempts + 1 ELSE attempts IN
          /\ attempts' = more
          /\ \/ /\ more >= MaxPollAttempts
                /\ polling' = "off"
                /\ UNCHANGED request
             \/ /\ more < MaxPollAttempts
                /\ Becomes(r, [NoRequest EXCEPT !.pc = "verify"])
                /\ UNCHANGED polling
    /\ UNCHANGED <<status, order, loading, error, failed>>

OrderMoves ==
    /\ status' \in StateTransitions[status]
    /\ UNCHANGED <<order, request, polling, attempts, loading, error, failed>>

Answers(r) == ServerAnswers(r) \/ FetchOrder(r) \/ VerifyPaymentStatus(r)
Timers(r) == StartsPolling(r) \/ Poll(r)

Next ==
    \/ \E r \in Requests : Answers(r) \/ Timers(r) \/ FetchFails(r) \/ VerifyFails(r)
    \/ OrderMoves

Spec == Init /\ [][Next]_vars

\* A call is answered or fails, and the timer of an open page comes back.
Fairness ==
    /\ \A r \in Requests : WF_vars(Answers(r) \/ FetchFails(r) \/ VerifyFails(r))
    /\ WF_vars(\E r \in Requests : Timers(r))

FairSpec == Spec /\ Fairness

-----------------------------------------------------------------------------

IsShownAsPaid == ~loading /\ order \in SuccessStates

\* The page of an order that is delivered comes to show it, and goes on
\* showing it, whatever answers overtake each other and whatever it has shown
\* before, if an attempt to poll is left (and one that may be under way), no
\* call fails (after a failed fetch the error stays) and it has not been told
\* that the order failed (it asks no more, although a review may deliver).
DeliveredIsShown ==
    [](status = "DELIVERED" /\ order # "FAILED" /\ attempts + 1 < MaxPollAttempts
         => <>[](IsShownAsPaid \/ failed))
=============================================================================
