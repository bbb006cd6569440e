--------------------------- MODULE PaymentLifecycle ---------------------------
(***************************************************************************)
(* One row per order in the Order table, written by everything that can    *)
(* touch a Bakong order between checkout and delivery: the webhook, the    *)
(* status and verify routes, the cancel route, the reconcile cron and the  *)
(* payment worker (lib/payment-worker.ts).  A process is one invocation of *)
(* a route or one worker; it takes one action per awaited call, so every   *)
(* value it read may be stale when it writes.                              *)
(***************************************************************************)
EXTENDS PaymentStateMachine, Naturals, Sequences, FiniteSets

CONSTANTS
    Orders,        \* orders created with a KHQR and still PENDING
    ManualOrders,  \* those whose product has no delivery provider
    Queued,        \* those the delivery query's deliveryStatus filter returns
    Requests,      \* concurrent HTTP invocations
    Workers,       \* running payment workers, one loop each
    Handlers,      \* the entry points that are in use
    MayCrash,      \* whether a process may die between two calls
    NoOrder        \* the order of an idle process

AllHandlers ==
    {"webhook", "status", "verify", "cancel", "poll", "deliver", "expire", "retry"}

ASSUME ConstantsAssumption ==
    /\ ManualOrders \subseteq Orders
    /\ Queued \subseteq Orders
    /\ NoOrder \notin Orders
    /\ Handlers \subseteq AllHandlers
    /\ MayCrash \in BOOLEAN

\* lib/payment-worker.ts: const MAX_RETRIES
MaxRetries == 3

Procs == Requests \cup Workers

VARIABLES
    status,      \* Order.status
    md5,         \* Order.metadata still holds bakongMd5
    expired,     \* Order.paymentExpiresAt lies in the past
    bakong,      \* the customer's transfer is settled at Bakong
    jobs,        \* the DeliveryJob rows of the order, oldest first
    dispatched,  \* provider orders placed for the order (history)
    credited,    \* the provider topped the player up
    proc         \* what each process is doing

orderVars == <<status, md5>>
providerVars == <<dispatched, credited>>
worldVars == <<expired, bakong>>
vars == <<status, md5, expired, bakong, jobs, dispatched, credited, proc>>

JobState == {"PENDING", "PROCESSING", "SUCCESS", "FAILED",
             "RETRYING", "UNKNOWN_EXTERNAL_STATE"}
Job == [status : JobState, attempt : 0..MaxRetries]

CheckPoints == {"check", "reread", "markPaid"}
Steps == CheckPoints \cup
    {"expireOrder", "cancelOrder",
     "createJob", "claimJob", "startProcessing", "callProvider", "markDelivered",
     "completeJob", "unknownJob", "manualReview", "failJob", "failOrder",
     "scheduleRetry"}

Idle == [pc |-> "idle", handler |-> "none", order |-> NoOrder, slot |-> 0, attempt |-> 0]

Activity == [pc : Steps, handler : AllHandlers, order : Orders,
             slot : Nat, attempt : 0..MaxRetries]

TypeOK ==
    /\ status \in [Orders -> PaymentState]
    /\ md5 \in [Orders -> BOOLEAN]
    /\ expired \in [Orders -> BOOLEAN]
    /\ bakong \in [Orders -> BOOLEAN]
    /\ jobs \in [Orders -> Seq(Job)]
    /\ dispatched \in [Orders -> Nat]
    /\ credited \in [Orders -> BOOLEAN]
    /\ proc \in [Procs -> {Idle} \cup Activity]

Init ==
    /\ status = [o \in Orders |-> "PENDING"]
    /\ md5 = [o \in Orders |-> TRUE]
    /\ expired = [o \in Orders |-> FALSE]
    /\ bakong = [o \in Orders |-> FALSE]
    /\ jobs = [o \in Orders |-> <<>>]
    /\ dispatched = [o \in Orders |-> 0]
    /\ credited = [o \in Orders |-> FALSE]
    /\ proc = [p \in Procs |-> Idle]

-----------------------------------------------------------------------------
(* Control of a process.                                                   *)

At(p, step) == proc[p].pc = step
Goto(p, step) == proc' = [proc EXCEPT ![p].pc = step]
Return(p) == proc' = [proc EXCEPT ![p] = Idle]

Start(p, handler, step, o, slot, attempt) ==
    /\ proc[p] = Idle
    /\ handler \in Handlers
    /\ proc' = [proc EXCEPT ![p] =
          [pc |-> step, handler |-> handler, order |-> o,
           slot |-> slot, attempt |-> attempt]]

-----------------------------------------------------------------------------
(* The world outside: the customer, the bank and the clock.                *)

CustomerPays(o) ==
    /\ ~bakong[o]
    /\ bakong' = [bakong EXCEPT ![o] = TRUE]
    /\ UNCHANGED <<orderVars, expired, jobs, providerVars, proc>>

PaymentWindowCloses(o) ==
    /\ ~expired[o]
    /\ expired' = [expired EXCEPT ![o] = TRUE]
    /\ UNCHANGED <<orderVars, bakong, jobs, providerVars, proc>>

-----------------------------------------------------------------------------
(* lib/payment-state-machine.ts: the compare-and-set all mark* functions   *)
(* go through.  A transition that succeeds replaces the order's metadata,  *)
(* and bakongMd5 with it.                                                  *)

Applies(o, from, to) == CanTransition(from, to) /\ status[o] = from

\* the status left out of the where clause
WriteRegardless(o, from, to) ==
    /\ status' = [status EXCEPT ![o] = to]
    /\ md5' = [md5 EXCEPT ![o] = FALSE]

TransitionOrderState(o, from, to) ==
    IF Applies(o, from, to)
    THEN /\ status' = [status EXCEPT ![o] = to]
         /\ md5' = [md5 EXCEPT ![o] = FALSE]
    ELSE UNCHANGED orderVars

\* prisma.order.update({ where: { id } }): a write that looks at nothing
OverwriteStatus(o, to) ==
    /\ status' = [status EXCEPT ![o] = to]
    /\ UNCHANGED md5

-----------------------------------------------------------------------------
(* Confirming a payment: webhook, status route, verify route, cron poll.   *)

\* any answer of the API taken for a payment
TrustEveryAnswer(o) == {TRUE, FALSE}

\* checkBakongPayment: five attempts, then "not paid"; it never invents a payment
CheckBakongPayment(o) == IF bakong[o] THEN {TRUE, FALSE} ELSE {FALSE}

\* POST /api/payment/webhook/bakong finds the order by the md5 in its metadata
WebhookReceived(p, o) ==
    /\ md5[o]
    /\ status[o] \notin PaidStates
    /\ Start(p, "webhook", "check", o, 0, 0)
    /\ UNCHANGED <<orderVars, worldVars, jobs, providerVars>>

\* GET /api/payment/status
StatusRequested(p, o) ==
    /\ status[o] = "PENDING"
    /\ \/ expired[o] /\ Start(p, "status", "expireOrder", o, 0, 0)
       \/ ~expired[o] /\ md5[o] /\ Start(p, "status", "check", o, 0, 0)
    /\ UNCHANGED <<orderVars, worldVars, jobs, providerVars>>

\* POST /api/orders/[orderNumber]/verify recomputes the md5 from the QR
VerifyRequested(p, o) ==
    /\ status[o] = "PENDING"
    /\ Start(p, "verify", "check", o, 0, 0)
    /\ UNCHANGED <<orderVars, worldVars, jobs, providerVars>>

\* gt and lt swapped on paymentExpiresAt
CheckExpiredPayments(p, o) ==
    /\ status[o] = "PENDING" /\ expired[o] /\ md5[o]
    /\ Start(p, "poll", "check", o, 0, 0)
    /\ UNCHANGED <<orderVars, worldVars, jobs, providerVars>>

\* checkPendingPayments, from the payment worker and the reconcile cron
CheckPendingPayments(p, o) ==
    /\ status[o] = "PENDING" /\ ~expired[o] /\ md5[o]
    /\ Start(p, "poll", "check", o, 0, 0)
    /\ UNCHANGED <<orderVars, worldVars, jobs, providerVars>>

BakongConfirms(p) ==
    /\ At(p, "check")
    /\ TRUE \in CheckBakongPayment(proc[p].order)
    /\ Goto(p, IF proc[p].handler = "status" THEN "reread" ELSE "markPaid")
    /\ UNCHANGED <<orderVars, worldVars, jobs, providerVars>>

BakongDoesNotConfirm(p) ==
    /\ At(p, "check")
    /\ FALSE \in CheckBakongPayment(proc[p].order)
    /\ Return(p)
    /\ UNCHANGED <<orderVars, worldVars, jobs, providerVars>>

\* the status route looks at the status once more before it marks the order
RereadStatus(p) ==
    /\ At(p, "reread")
    /\ IF status[proc[p].order] = "PENDING" THEN Goto(p, "markPaid") ELSE Return(p)
    /\ UNCHANGED <<orderVars, worldVars, jobs, providerVars>>

MarkOrderAsPaid(p) ==
    /\ At(p, "markPaid")
    /\ TransitionOrderState(proc[p].order, "PENDING", "PAID")
    /\ Return(p)
    /\ UNCHANGED <<worldVars, jobs, providerVars>>

-----------------------------------------------------------------------------
(* Giving an order up: both writes go by id alone.                         *)

CancelRequested(p, o) ==
    /\ status[o] = "PENDING"
    /\ Start(p, "cancel", "cancelOrder", o, 0, 0)
    /\ UNCHANGED <<orderVars, worldVars, jobs, providerVars>>

CancelOrder(p) ==
    /\ At(p, "cancelOrder")
    /\ OverwriteStatus(proc[p].order, "CANCELLED")
    /\ Return(p)
    /\ UNCHANGED <<worldVars, jobs, providerVars>>

\* processExpiredOrders: the list is read first
ListExpiredOrders(p, o) ==
    /\ status[o] = "PENDING" /\ expired[o]
    /\ Start(p, "expire", "expireOrder", o, 0, 0)
    /\ UNCHANGED <<orderVars, worldVars, jobs, providerVars>>

ExpireOrder(p) ==
    /\ At(p, "expireOrder")
    /\ OverwriteStatus(proc[p].order, "EXPIRED")
    /\ Return(p)
    /\ UNCHANGED <<worldVars, jobs, providerVars>>

-----------------------------------------------------------------------------
(* Delivery: processPaidOrders and processDeliveryForOrder.                *)

SetJob(o, slot, s) == jobs' = [jobs EXCEPT ![o][slot].status = s]

\* The order was read as PAID together with its latest job; a job somebody
\* is processing is skipped.  The query also asks for deliveryStatus in
\* [null, "PENDING", "QUEUED"]: the column has no default, checkout leaves it
\* NULL, and a NULL is in no list, so of the orders checkout creates Queued
\* holds none (the client may even reject the null in the list).
PickPaidOrder(p, o) ==
    /\ status[o] = "PAID"
    /\ o \in Queued
    /\ LET latest == Len(jobs[o]) IN
         \/ latest = 0 /\ Start(p, "deliver", "createJob", o, 0, 0)
         \/ /\ latest > 0
            /\ jobs[o][latest].status # "PROCESSING"
            /\ Start(p, "deliver", "claimJob", o, latest, 0)
    /\ UNCHANGED <<orderVars, worldVars, jobs, providerVars>>

CreateJob(p) ==
    /\ At(p, "createJob")
    /\ LET o == proc[p].order IN
         /\ jobs' = [jobs EXCEPT ![o] = Append(@, [status |-> "PENDING", attempt |-> 0])]
         /\ proc' = [proc EXCEPT ![p].pc = "claimJob", ![p].slot = Len(jobs[o]) + 1]
    /\ UNCHANGED <<orderVars, worldVars, providerVars>>

\* the job row is set to PROCESSING whatever it holds by now
ClaimJob(p) ==
    /\ At(p, "claimJob")
    /\ SetJob(proc[p].order, proc[p].slot, "PROCESSING")
    /\ Goto(p, "startProcessing")
    /\ UNCHANGED <<orderVars, worldVars, providerVars>>

\* the result of markOrderAsProcessing thrown away
StartProcessingUnchecked(p) ==
    /\ At(p, "startProcessing")
    /\ LET o == proc[p].order IN
         /\ TransitionOrderState(o, "PAID", "PROCESSING")
         /\ Goto(p, IF o \in ManualOrders THEN "markDelivered" ELSE "callProvider")
    /\ UNCHANGED <<worldVars, jobs, providerVars>>

\* markOrderAsProcessing; a lost compare-and-set throws into the catch block
StartProcessing(p) ==
    /\ At(p, "startProcessing")
    /\ LET o == proc[p].order IN
         /\ TransitionOrderState(o, "PAID", "PROCESSING")
         /\ Goto(p, IF ~Applies(o, "PAID", "PROCESSING") THEN "failJob"
                    ELSE IF o \in ManualOrders THEN "markDelivered"
                    ELSE "callProvider")
    /\ UNCHANGED <<worldVars, jobs, providerVars>>

\* What createGameDropOrder or createG2BulkOrder may return.  A request aborted
\* after 15 s or broken on the way (ABORTED) comes back as a plain failure: its
\* message holds neither "timeout" nor "network", so only a provider that uses
\* one of those words itself is UNCLEAR.  Except after SUCCESS and REFUSED the
\* player may or may not have been topped up.
ProviderAnswers == {"SUCCESS", "PENDING", "REFUSED", "ABORTED", "UNCLEAR"}

\* where deliverViaGameDrop and deliverViaG2Bulk go with the answer
AfterAnswer(answer) ==
    IF answer \in {"SUCCESS", "PENDING"} THEN "markDelivered"
    ELSE IF answer = "UNCLEAR" THEN "unknownJob"
    ELSE "failJob"

CallProvider(p) ==
    /\ At(p, "callProvider")
    /\ LET o == proc[p].order IN
         \E answer \in ProviderAnswers, credits \in BOOLEAN :
            /\ answer = "SUCCESS" => credits
            /\ answer = "REFUSED" => ~credits
            /\ dispatched' = [dispatched EXCEPT ![o] = @ + 1]
            /\ credited' = [credited EXCEPT ![o] = @ \/ credits]
            /\ Goto(p, AfterAnswer(answer))
    /\ UNCHANGED <<orderVars, worldVars, jobs>>

\* the job row forgotten
MarkDeliveredAndReturn(p) ==
    /\ At(p, "markDelivered")
    /\ TransitionOrderState(proc[p].order, "PROCESSING", "DELIVERED")
    /\ Return(p)
    /\ UNCHANGED <<worldVars, jobs, providerVars>>

\* markOrderAsDelivered: its result is not looked at
MarkOrderAsDelivered(p) ==
    /\ At(p, "markDelivered")
    /\ TransitionOrderState(proc[p].order, "PROCESSING", "DELIVERED")
    /\ Goto(p, "completeJob")
    /\ UNCHANGED <<worldVars, jobs, providerVars>>

CompleteJob(p) ==
    /\ At(p, "completeJob")
    /\ SetJob(proc[p].order, proc[p].slot, "SUCCESS")
    /\ Return(p)
    /\ UNCHANGED <<orderVars, worldVars, providerVars>>

\* a job state the schema does not know
UnknownJobMisnamed(p) ==
    /\ At(p, "unknownJob")
    /\ SetJob(proc[p].order, proc[p].slot, "UNKNOWN")
    /\ Goto(p, "manualReview")
    /\ UNCHANGED <<orderVars, worldVars, providerVars>>

\* timeout and network errors: the job first, then the order
UnknownJob(p) ==
    /\ At(p, "unknownJob")
    /\ SetJob(proc[p].order, proc[p].slot, "UNKNOWN_EXTERNAL_STATE")
    /\ Goto(p, "manualReview")
    /\ UNCHANGED <<orderVars, worldVars, providerVars>>

MarkOrderForManualReview(p) ==
    /\ At(p, "manualReview")
    /\ TransitionOrderState(proc[p].order, "PROCESSING", "MANUAL_REVIEW")
    /\ Return(p)
    /\ UNCHANGED <<worldVars, jobs, providerVars>>

\* the catch block of processDeliveryForOrder
FailJob(p) ==
    /\ At(p, "failJob")
    /\ SetJob(proc[p].order, proc[p].slot, "FAILED")
    /\ Goto(p, "failOrder")
    /\ UNCHANGED <<orderVars, worldVars, providerVars>>

MarkOrderAsFailed(p) ==
    /\ At(p, "failOrder")
    /\ TransitionOrderState(proc[p].order, "PROCESSING", "FAILED")
    /\ Return(p)
    /\ UNCHANGED <<worldVars, jobs, providerVars>>

\* retryFailedDeliveries: reads failed jobs, then reschedules each by id
ListFailedDeliveries(p, o) ==
    \E slot \in 1..Len(jobs[o]) :
        /\ jobs[o][slot].status = "FAILED"
        /\ jobs[o][slot].attempt < MaxRetries
        /\ Start(p, "retry", "scheduleRetry", o, slot, jobs[o][slot].attempt)
        /\ UNCHANGED <<orderVars, worldVars, jobs, providerVars>>

ScheduleRetry(p) ==
    /\ At(p, "scheduleRetry")
    /\ jobs' = [jobs EXCEPT ![proc[p].order][proc[p].slot] =
                  [status |-> "RETRYING", attempt |-> proc[p].attempt + 1]]
    /\ Return(p)
    /\ UNCHANGED <<orderVars, worldVars, providerVars>>

-----------------------------------------------------------------------------

\* The process dies between two calls; nothing it wrote is undone.
Crash(p) ==
    /\ MayCrash
    /\ proc[p] # Idle
    /\ Return(p)
    /\ UNCHANGED <<orderVars, worldVars, jobs, providerVars>>

Arrival(p, o) ==
    \/ WebhookReceived(p, o)
    \/ StatusRequested(p, o)
    \/ VerifyRequested(p, o)
    \/ CancelRequested(p, o)

WorkerRound(p, o) ==
    \/ ListExpiredOrders(p, o)
    \/ PickPaidOrder(p, o)
    \/ ListFailedDeliveries(p, o)

Step(p) ==
    \/ BakongConfirms(p)
    \/ BakongDoesNotConfirm(p)
    \/ RereadStatus(p)
    \/ MarkOrderAsPaid(p)
    \/ CancelOrder(p)
    \/ ExpireOrder(p)
    \/ CreateJob(p)
    \/ ClaimJob(p)
    \/ StartProcessing(p)
    \/ CallProvider(p)
    \/ MarkOrderAsDelivered(p)
    \/ CompleteJob(p)
    \/ UnknownJob(p)
    \/ MarkOrderForManualReview(p)
    \/ FailJob(p)
    \/ MarkOrderAsFailed(p)
    \/ ScheduleRetry(p)

Next ==
    \/ \E o \in Orders : CustomerPays(o) \/ PaymentWindowCloses(o)
    \/ \E p \in Requests, o \in Orders : Arrival(p, o)
    \/ \E p \in Workers, o \in Orders : WorkerRound(p, o)
    \/ \E p \in Procs, o \in Orders : CheckPendingPayments(p, o)
    \/ \E p \in Procs : Step(p) \/ Crash(p)

Spec == Init /\ [][Next]_vars

-----------------------------------------------------------------------------
(* Fairness.  A route that was entered and a worker inside its loop body   *)
(* run on to their end; the worker loop and the cron come back to every    *)
(* phase; and Bakong, asked again and again about a settled transfer,      *)
(* confirms it some time.  Nothing obliges a customer, a webhook or a      *)
(* poller of the status route to call.                                     *)

Fairness ==
    /\ \A p \in Procs : WF_vars(Step(p)) /\ SF_vars(BakongConfirms(p))
    /\ \A o \in Orders :
         /\ SF_vars(\E p \in Workers : PickPaidOrder(p, o))
         /\ SF_vars(\E p \in Procs : CheckPendingPayments(p, o))

FairSpec == Spec /\ Fairness

-----------------------------------------------------------------------------
(* Properties.                                                             *)

\* Whatever races with whatever, an order never counts as paid, never fails
\* or goes to review as a paid order, and is never sent to a provider, unless
\* Bakong settled its transfer: every handler that marks or delivers checks
\* Bakong some awaited calls earlier and relies on the compare-and-set since.
PaidOnBakongEvidence ==
    \A o \in Orders :
        (status[o] \in PaidStates \cup {"FAILED", "MANUAL_REVIEW"} \/ dispatched[o] > 0)
            => bakong[o]

\* However many workers hold the same PAID row in their batch, and however
\* often they crash, the PAID -> PROCESSING compare-and-set lets one of them
\* place the provider order, once.
DispatchedAtMostOnce == \A o \in Orders : dispatched[o] <= 1

\* A worker that is through with an order leaves job row and order row telling
\* the same story, although it writes them in two calls.
WorkingOn(o) == {p \in Workers : proc[p].order = o /\ proc[p].handler = "deliver"}

JobTellsOutcome ==
    \A o \in Orders : WorkingOn(o) = {} =>
        LET last == jobs[o][Len(jobs[o])].status IN
        /\ status[o] = "DELIVERED" => last = "SUCCESS"
        /\ status[o] = "MANUAL_REVIEW" => last = "UNKNOWN_EXTERNAL_STATE"
        /\ status[o] = "FAILED" => last \in {"FAILED", "RETRYING"}
        /\ status[o] # "PROCESSING"

\* Between the provider call and the write of its outcome nobody takes the
\* order away: the worker that dispatched finds it PROCESSING.  Needs a single
\* worker; a second one's lost compare-and-set fails the order under the first.
OutcomeFindsItsOrder ==
    \A p \in Workers :
        proc[p].pc \in {"callProvider", "markDelivered", "unknownJob", "manualReview"}
            => status[proc[p].order] = "PROCESSING"

\* "PROCESSING | FAILED | Delivery failed": an order is not FAILED while a
\* worker is still delivering it or about to record its delivery.
FailedOnlyAfterDelivery ==
    \A p \in Workers :
        proc[p].pc \in {"callProvider", "markDelivered"} => status[proc[p].order] # "FAILED"

\* The atomic part of the code: with the routes that write by id switched
\* off, every order moves along STATE_TRANSITIONS, whatever interleaves.
StatusPath == INSTANCE StatusPath WITH Orders <- Orders, status <- status
FollowsStateTransitions == StatusPath!Spec

\* "No rollback": a paid order is never given up as expired or cancelled.
NoPaidOrderGivenUp ==
    [][\A o \in Orders :
          status[o] \in PaidStates => status'[o] \notin {"EXPIRED", "CANCELLED"}]_status

\* A customer who paid before the window closed is seen to have paid, unless
\* the window closes before anybody asks Bakong.
PaymentIsRecognised ==
    \A o \in Orders :
        (bakong[o] /\ ~expired[o]) ~> (status[o] # "PENDING" \/ expired[o])

\* "Process orders that are PAID and ready for delivery": a paid order reaches
\* DELIVERED, FAILED or MANUAL_REVIEW.  One that checkout created does not.
PaidOrderSettles ==
    \A o \in Orders :
        (status[o] = "PAID") ~> (status[o] \in {"DELIVERED", "FAILED", "MANUAL_REVIEW"})
=============================================================================
