----------------------------- MODULE AdminOrders -----------------------------
(***************************************************************************)
(* The orders of PaymentLifecycle with the people and sweeps that write    *)
(* them from outside: the administrators' routes under app/api/admin/orders *)
(* and lib/reconciliation.ts.  All but one of their writes go by order id  *)
(* alone, on what was read some awaited calls earlier.  A status an        *)
(* administrator may set, REFUNDED, is unknown to the state machine.       *)
(***************************************************************************)
EXTENDS PaymentLifecycle

CONSTANTS
    Desks,       \* administrators at work
    Sweeps,      \* runs of reconcileAllOrders that may overlap
    MaxCalls  \* bound: calls of administrators and sweeps

VARIABLES
    desk,     \* what each administrator's PATCH is doing
    sweep,    \* what each reconciliation run is doing
    spent,    \* how often the amount was added to the customer's totalSpent
    becamePaid,  \* how often the order became PAID (history)
    calls  \* calls so far

outsideVars == <<desk, sweep, spent, calls>>
adminVars == <<vars, outsideVars, becamePaid>>

\* updateSchema's enum
Verdicts == {"PENDING", "PAID", "PROCESSING", "DELIVERED", "FAILED", "REFUNDED", "CANCELLED"}
BulkVerdicts == {"DELIVERED", "FAILED", "REFUNDED"}
ProviderStates == {"none", "PAID", "PENDING", "FAILED", "UNKNOWN"}

IdleDesk == [pc |-> "idle", order |-> NoOrder, to |-> "PENDING"]
IdleSweep == [pc |-> "idle", order |-> NoOrder, read |-> "PENDING", provider |-> "none"]

\* every row that is PAID has paidAt, and nothing ever clears it
PaidAt(o) == becamePaid[o] > 0

AdminTypeOK ==
    /\ desk \in [Desks -> [pc : {"idle", "count", "write"},
                           order : Orders \cup {NoOrder}, to : Verdicts]]
    /\ sweep \in [Sweeps -> [pc : {"idle", "ask", "settle", "write"},
                             order : Orders \cup {NoOrder},
                             read : {"PENDING", "PROCESSING"}, provider : ProviderStates]]
    /\ spent \in [Orders -> 0..MaxCalls]
    /\ becamePaid \in [Orders -> 0..MaxCalls + 1]
    /\ calls \in 0..MaxCalls
    /\ status \in [Orders -> PaymentState \cup {"REFUNDED"}]

AdminInit ==
    /\ Init
    /\ desk = [d \in Desks |-> IdleDesk]
    /\ sweep = [s \in Sweeps |-> IdleSweep]
    /\ spent = [o \in Orders |-> 0]
    /\ becamePaid = [o \in Orders |-> 0]
    /\ calls = 0

NewVerdict == calls < MaxCalls /\ calls' = calls + 1
LifecycleRest == <<md5, worldVars, jobs, providerVars, proc>>

-----------------------------------------------------------------------------
(* Administrators.                                                         *)

\* PATCH reads the order; an unpaid one set to PAID is counted first
PatchReads(d, o, to) ==
    /\ desk[d] = IdleDesk /\ NewVerdict
    /\ desk' = [desk EXCEPT ![d] =
          [pc |-> IF to = "PAID" /\ ~PaidAt(o) THEN "count" ELSE "write",
           order |-> o, to |-> to]]
    /\ UNCHANGED <<vars, sweep, spent>>

UpdateUserTotalSpent(d) ==
    /\ desk[d].pc = "count"
    /\ spent' = [spent EXCEPT ![desk[d].order] = @ + 1]
    /\ desk' = [desk EXCEPT ![d].pc = "write"]
    /\ UNCHANGED <<vars, sweep, calls>>

PatchWrites(d) ==
    /\ desk[d].pc = "write"
    /\ status' = [status EXCEPT ![desk[d].order] = desk[d].to]
    /\ desk' = [desk EXCEPT ![d] = IdleDesk]
    /\ UNCHANGED <<LifecycleRest, sweep, spent, calls>>

\* one updateMany over the ids that were ticked
BulkUpdate(to) ==
    /\ NewVerdict
    /\ \E ticked \in (SUBSET Orders) \ {{}} :
          status' = [o \in Orders |-> IF o \in ticked THEN to ELSE status[o]]
    /\ UNCHANGED <<LifecycleRest, desk, sweep, spent>>

-----------------------------------------------------------------------------
(* reconcileSingleOrder.                                                   *)

\* an order without bakongMd5 in its metadata is not asked about
SweepReads(s, o) ==
    /\ sweep[s] = IdleSweep /\ NewVerdict
    /\ status[o] \in {"PENDING", "PROCESSING"}
    /\ sweep' = [sweep EXCEPT ![s] =
          [pc |-> IF md5[o] THEN "ask" ELSE "settle", order |-> o,
           read |-> status[o], provider |-> "none"]]
    /\ UNCHANGED <<vars, desk, spent>>

\* checkBakongPayment: an API that does not answer is FAILED, a missing
\* configuration throws
SweepAsks(s) ==
    /\ sweep[s].pc = "ask"
    /\ \E answer \in {"PENDING", "FAILED", "UNKNOWN"}
                     \cup (IF bakong[sweep[s].order] THEN {"PAID"} ELSE {}) :
          sweep' = [sweep EXCEPT ![s].pc = "settle", ![s].provider = answer]
    /\ UNCHANGED <<vars, desk, spent, calls>>

SweepEnds(s) == sweep' = [sweep EXCEPT ![s] = IdleSweep]

\* PENDING and paid: markOrderAsPaid, the one compare-and-set of the file
SweepMarksPaid(s) ==
    /\ sweep[s].pc = "settle" /\ sweep[s].read = "PENDING" /\ sweep[s].provider = "PAID"
    /\ TransitionOrderState(sweep[s].order, "PENDING", "PAID")
    /\ SweepEnds(s)
    /\ UNCHANGED <<worldVars, jobs, providerVars, proc, desk, spent, calls>>

\* PENDING and FAILED at Bakong, or expired; the first writes the metadata it
\* read, bakongMd5 included
SweepGivesUp(s) ==
    /\ sweep[s].pc = "settle" /\ sweep[s].read = "PENDING"
    /\ LET o == sweep[s].order IN
         \/ /\ sweep[s].provider = "FAILED"
            /\ status' = [status EXCEPT ![o] = "FAILED"]
            /\ md5' = [md5 EXCEPT ![o] = TRUE]
         \/ /\ sweep[s].provider \notin {"PAID", "FAILED"} /\ expired[o]
            /\ OverwriteStatus(o, "EXPIRED")
    /\ SweepEnds(s)
    /\ UNCHANGED <<worldVars, jobs, providerVars, proc, desk, spent, calls>>

\* the latest job of the order
Delivered(o) ==
    \E last \in 1..Len(jobs[o]) : last = Len(jobs[o]) /\ jobs[o][last].status = "SUCCESS"

\* PROCESSING and paid: the latest job is read, the order is written after it
SweepReadsJob(s) ==
    /\ sweep[s].pc = "settle" /\ sweep[s].read = "PROCESSING" /\ sweep[s].provider = "PAID"
    /\ Delivered(sweep[s].order)
    /\ sweep' = [sweep EXCEPT ![s].pc = "write"]
    /\ UNCHANGED <<vars, desk, spent, calls>>

SweepDelivers(s) ==
    /\ sweep[s].pc = "write"
    /\ OverwriteStatus(sweep[s].order, "DELIVERED")
    /\ SweepEnds(s)
    /\ UNCHANGED <<worldVars, jobs, providerVars, proc, desk, spent, calls>>

\* action NONE
SweepLeaves(s) ==
    /\ sweep[s].pc = "settle"
    /\ \/ /\ sweep[s].read = "PENDING"
          /\ sweep[s].provider \notin {"PAID", "FAILED"} /\ ~expired[sweep[s].order]
       \/ /\ sweep[s].read = "PROCESSING"
          /\ ~(sweep[s].provider = "PAID" /\ Delivered(sweep[s].order))
    /\ SweepEnds(s)
    /\ UNCHANGED <<vars, desk, spent, calls>>

-----------------------------------------------------------------------------

FromOutside ==
    \/ \E d \in Desks :
         \/ \E o \in Orders, to \in Verdicts : PatchReads(d, o, to)
         \/ UpdateUserTotalSpent(d) \/ PatchWrites(d)
    \/ \E to \in BulkVerdicts : BulkUpdate(to)
    \/ \E s \in Sweeps :
         \/ \E o \in Orders : SweepReads(s, o)
         \/ SweepAsks(s) \/ SweepMarksPaid(s) \/ SweepGivesUp(s)
         \/ SweepReadsJob(s) \/ SweepDelivers(s) \/ SweepLeaves(s)

\* history only
CountPaid ==
    becamePaid' = [o \in Orders |->
        becamePaid[o] + (IF status[o] # "PAID" /\ status'[o] = "PAID" THEN 1 ELSE 0)]

AdminNext ==
    /\ \/ Next /\ UNCHANGED outsideVars
       \/ FromOutside
    /\ CountPaid

AdminSpec == AdminInit /\ [][AdminNext]_adminVars

-----------------------------------------------------------------------------

\* However administrators and sweeps write over what workers and customers are
\* doing, and whoever crashes: a top-up is sent to the provider at most once
\* for each time somebody made the order PAID.  A second one needs a second
\* decision, never just an unlucky interleaving.
DispatchNeedsDecision == \A o \in Orders : dispatched[o] <= becamePaid[o]
=============================================================================
