--------------------------- MODULE DeliveryPipeline ---------------------------
(***************************************************************************)
(* The BullMQ pipeline: lib/workers.ts takes jobs off the queues of        *)
(* lib/queue.ts, and lib/delivery-processor.ts delivers under the lock of  *)
(* lib/heartbeat-lock.ts, behind the ExecutionFingerprint rows of          *)
(* lib/execution-fingerprint.ts and the writer rules of                    *)
(* lib/payment-state-machine-final.ts.  A slot is one job being processed; *)
(* it takes one action per awaited call.                                   *)
(***************************************************************************)
EXTENDS HeartbeatLock, PaymentStateMachine, Sequences

CONSTANTS
    Jobs,          \* BullMQ jobs, those not added yet included
    JobKinds,      \* the queues in use
    OutboxJobs,    \* whether the outbox has added delivery jobs
    ManualOrders,  \* orders whose product has no delivery provider
    MayCrash,      \* whether a worker process may die
    NoJob

Queues == {"verify", "deliver", "retry", "expire", "reconcile"}

ASSUME PipelineAssumption ==
    /\ JobKinds \subseteq Queues
    /\ ManualOrders \subseteq Orders
    /\ NoJob \notin Jobs
    /\ MayCrash \in BOOLEAN /\ OutboxJobs \in BOOLEAN

VARIABLES
    status,   \* Order.status
    prints,   \* the ExecutionFingerprint rows of an order
    jobs,     \* the BullMQ jobs
    work      \* what each slot is doing

rows == <<status, prints>>
vars == <<lockVars, rows, jobs, work>>

Providers == {"PROVIDER", "MANUAL"}

\* BullMQ runs a job again after an exception, as often as its queue says,
\* and once more when its worker went silent
Attempts == [verify |-> 3, deliver |-> 2, retry |-> 3, expire |-> 3, reconcile |-> 1]
MaxStalled == 1

Unused == [kind |-> "none", order |-> "none", provider |-> "none",
           state |-> "unused", left |-> 0, stalls |-> 0, by |-> Nobody]

NewJob(kind, o, provider) ==
    [kind |-> kind, order |-> o, provider |-> provider, state |-> "waiting",
     left |-> Attempts[kind], stalls |-> 0, by |-> Nobody]

DetermineProvider(o) == IF o \in ManualOrders THEN "MANUAL" ELSE "PROVIDER"

FingerprintRow == [provider : Providers, status : {"EXECUTING", "SUCCESS", "FAILED", "UNKNOWN"}]

Resting == [pc |-> "idle", job |-> NoJob, seen |-> "none", row |-> 0, ok |-> FALSE]

DeliverySteps == {"read", "find", "create", "call", "record", "mark"}
Steps == DeliverySteps \cup
    {"idle", "lock", "release", "delete", "finish",
     "verifyRead", "verifyAsk", "verifyMark", "verifyQueue",
     "retryRead", "expireRead", "expireWrite", "reconcileRead", "reconcileWrite"}

TypeOK ==
    /\ LockTypeOK
    /\ status \in [Orders -> PaymentState]
    /\ prints \in [Orders -> Seq(FingerprintRow)]
    /\ \A j \in Jobs :
         \/ jobs[j] = Unused
         \/ /\ jobs[j].kind \in Queues
            /\ jobs[j].order \in Orders
            /\ jobs[j].state \in {"waiting", "active", "completed", "failed"}
            /\ jobs[j].left \in 0..3
            /\ jobs[j].stalls \in 0..MaxStalled
    /\ \A s \in Slots :
         /\ work[s].pc \in Steps
         /\ work[s].pc # "idle" => work[s].job \in Jobs /\ jobs[work[s].job].kind \in Queues

\* The queues as other programs left them: outbox jobs come with the provider
\* of the product or, for want of one in the payload, with MANUAL.
Init ==
    /\ LockInit
    /\ status \in [Orders -> {"PENDING", "PAID", "PROCESSING"}]
    /\ prints = [o \in Orders |-> <<>>]
    /\ jobs \in [Jobs -> {Unused} \cup
          {NewJob(k, o, DetermineProvider(o)) : k \in JobKinds, o \in Orders} \cup
          (IF OutboxJobs THEN {NewJob("deliver", o, "MANUAL") : o \in Orders} ELSE {})]
    /\ work = [s \in Slots |-> Resting]

-----------------------------------------------------------------------------
(* Control of a slot.                                                      *)

At(s, pc) == work[s].pc = pc
Goto(s, pc) == work' = [work EXCEPT ![s].pc = pc]
Job(s) == jobs[work[s].job]
Ord(s) == Job(s).order

\* BullMQ hands a waiting job to a free slot
FirstCall == [verify |-> "verifyRead", deliver |-> "lock", retry |-> "retryRead",
              expire |-> "expireRead", reconcile |-> "reconcileRead"]

TakeJob(s, j) ==
    /\ At(s, "idle")
    /\ jobs[j].state = "waiting"
    /\ jobs' = [jobs EXCEPT ![j].state = "active", ![j].by = s]
    /\ work' = [work EXCEPT ![s] = [Resting EXCEPT !.pc = FirstCall[jobs[j].kind], !.job = j]]
    /\ UNCHANGED <<lockVars, rows>>

\* the processor returned, or threw; BullMQ listens only to the slot it
\* gave the job to last
Over(j, state) == [jobs[j] EXCEPT !.state = state, !.left = 0, !.stalls = 0, !.by = Nobody]

Settled(j, ok) ==
    IF ok THEN Over(j, "completed")
    ELSE IF jobs[j].left = 1 THEN Over(j, "failed")
    ELSE [jobs[j] EXCEPT !.state = "waiting", !.left = @ - 1, !.by = Nobody]

EndJob(s, ok) ==
    LET j == work[s].job IN
    /\ jobs' = IF jobs[j].by = s /\ jobs[j].state = "active"
               THEN [jobs EXCEPT ![j] = Settled(j, ok)] ELSE jobs
    /\ work' = [work EXCEPT ![s] = Resting]

-----------------------------------------------------------------------------
(* The world outside.                                                      *)

\* lib/payment-worker.ts or the checkout starts processing: nothing in the
\* pipeline moves an order from PAID to PROCESSING
StartedElsewhere(o) ==
    /\ status[o] = "PAID"
    /\ status' = [status EXCEPT ![o] = "PROCESSING"]
    /\ UNCHANGED <<lockVars, prints, jobs, work>>

-----------------------------------------------------------------------------
(* The two state machines: lib/payment-state-machine.ts for the paid mark, *)
(* lib/payment-state-machine-final.ts for the others.  A fencing token is  *)
(* passed without its resource, so it is never compared with the lock.     *)

Permitted(from, to) ==
    IF <<from, to>> = <<"PENDING", "PAID">> THEN "WEBHOOK" ELSE "WORKER"

CanWriterTransition(from, to, writer) ==
    /\ CanTransition(from, to)
    /\ to \notin {"EXPIRED", "CANCELLED"} /\ <<from, to>> # <<"FAILED", "MANUAL_REVIEW">>
    /\ writer = Permitted(from, to)

Moves(o, from, to, writer) == CanWriterTransition(from, to, writer) /\ status[o] = from

TransitionOrderState(o, from, to, writer) ==
    status' = IF Moves(o, from, to, writer) THEN [status EXCEPT ![o] = to] ELSE status

-----------------------------------------------------------------------------
(* Payment verification worker; Bakong may answer either way.              *)

VerifyReadsOrder(s) ==
    /\ At(s, "verifyRead")
    /\ IF status[Ord(s)] \in PaidStates
       THEN EndJob(s, TRUE)
       ELSE Goto(s, "verifyAsk") /\ UNCHANGED jobs
    /\ UNCHANGED <<lockVars, rows>>

VerifyAsksBakong(s) ==
    /\ At(s, "verifyAsk")
    /\ \/ Goto(s, "verifyMark") /\ UNCHANGED jobs
       \/ EndJob(s, TRUE)
    /\ UNCHANGED <<lockVars, rows>>

\* source "webhook" counts an order somebody else marked as a success
VerifyMarksPaid(s) ==
    /\ At(s, "verifyMark")
    /\ TransitionOrderState(Ord(s), "PENDING", "PAID", "WEBHOOK")
    /\ \/ /\ status[Ord(s)] \in PaidStates \cup {"PENDING"}
          /\ Goto(s, "verifyQueue") /\ UNCHANGED jobs
       \/ status[Ord(s)] # "PENDING" /\ EndJob(s, FALSE)
    /\ UNCHANGED <<lockVars, prints>>

\* the pool of Jobs bounds what can be added
VerifyQueuesDelivery(s) ==
    /\ At(s, "verifyQueue")
    /\ LET unused == {j \in Jobs : jobs[j] = Unused}
           o == Ord(s)
           me == work[s].job
           done == IF Job(s).by = s /\ Job(s).state = "active"
                   THEN [jobs EXCEPT ![me] = Settled(me, TRUE)] ELSE jobs
       IN jobs' = IF unused = {} THEN done
                  ELSE LET j == CHOOSE j \in unused : TRUE IN
                       [done EXCEPT ![j] = NewJob("deliver", o, DetermineProvider(o))]
    /\ work' = [work EXCEPT ![s] = Resting]
    /\ UNCHANGED <<lockVars, rows>>

-----------------------------------------------------------------------------
(* Expiration, reconciliation and retry workers.  Whether the payment      *)
(* window is over when the expiration worker looks is left open.           *)

ExpireReadsOrder(s) ==
    /\ At(s, "expireRead")
    /\ \/ status[Ord(s)] = "PENDING" /\ Goto(s, "expireWrite") /\ UNCHANGED jobs
       \/ EndJob(s, TRUE)
    /\ UNCHANGED <<lockVars, rows>>

ExpireWritesById(s) ==
    /\ At(s, "expireWrite")
    /\ status' = [status EXCEPT ![Ord(s)] = "EXPIRED"]
    /\ EndJob(s, TRUE)
    /\ UNCHANGED <<lockVars, prints>>

ReconcileReadsOrder(s) ==
    /\ At(s, "reconcileRead")
    /\ Goto(s, "reconcileWrite")
    /\ UNCHANGED <<lockVars, rows, jobs>>

ReconcileWritesById(s) ==
    /\ At(s, "reconcileWrite")
    /\ status' = [status EXCEPT ![Ord(s)] = "MANUAL_REVIEW"]
    /\ EndJob(s, TRUE)
    /\ UNCHANGED <<lockVars, prints>>

\* processDeliveryRetrySafely finds the provider of the product and goes on
\* as a delivery
RetryReadsProduct(s) ==
    /\ At(s, "retryRead")
    /\ jobs' = [jobs EXCEPT ![work[s].job].provider = DetermineProvider(Ord(s))]
    /\ Goto(s, "lock")
    /\ UNCHANGED <<lockVars, rows>>

-----------------------------------------------------------------------------
(* processDeliverySafely.                                                  *)

GetLock(s) ==
    /\ At(s, "lock")
    /\ AcquireLock(s, Ord(s))
    /\ Goto(s, "read")
    /\ UNCHANGED <<rows, jobs>>

\* three tries, then another worker is taken to be delivering
GiveUpLock(s) ==
    /\ At(s, "lock")
    /\ IF session[s].tries + 1 < MaxTries
       THEN LockBusy(s, Ord(s)) /\ UNCHANGED <<jobs, work>>
       ELSE AbandonLock(s, Ord(s)) /\ EndJob(s, TRUE)
    /\ UNCHANGED <<rows>>

\* leave the try block; ok is what the job's promise will be
Release(s, ok) ==
    work' = [work EXCEPT ![s] = [Resting EXCEPT !.pc = "release", !.job = work[s].job, !.ok = ok]]

ReadOrder(s) ==
    /\ At(s, "read")
    /\ IF status[Ord(s)] \in {"PAID", "PROCESSING"}
       THEN work' = [work EXCEPT ![s].pc = "find", ![s].seen = status[Ord(s)]]
       ELSE Release(s, TRUE)
    /\ UNCHANGED <<lockVars, rows, jobs>>

HasRow(o, provider, states) ==
    \E i \in DOMAIN prints[o] : prints[o][i].provider = provider /\ prints[o][i].status \in states

\* the look asks for attempts under way only
FindRunningExecution(s) ==
    /\ At(s, "find")
    /\ IF HasRow(Ord(s), Job(s).provider, {"EXECUTING"})
       THEN Release(s, TRUE)
       ELSE Goto(s, "create")
    /\ UNCHANGED <<lockVars, rows, jobs>>

\* recordExecutionAttempt: first a look ...
FindExecution(s) ==
    /\ At(s, "find")
    /\ IF HasRow(Ord(s), Job(s).provider, {"EXECUTING", "SUCCESS"})
       THEN Release(s, TRUE)
       ELSE Goto(s, "create")
    /\ UNCHANGED <<lockVars, rows, jobs>>

InsertExecution(s) ==
    LET o == Ord(s) IN
    /\ prints' = [prints EXCEPT ![o] =
                    Append(@, [provider |-> Job(s).provider, status |-> "EXECUTING"])]
    /\ work' = [work EXCEPT ![s].pc = "call", ![s].row = Len(prints[o]) + 1]

\* the schema without @@unique([orderId, provider, idempotencyKey, status])
CreateExecutionUnchecked(s) ==
    /\ At(s, "create")
    /\ InsertExecution(s)
    /\ UNCHANGED <<lockVars, status, jobs>>

\* ... then the row, which the unique constraint refuses while another one
\* of the same key is EXECUTING
CreateExecution(s) ==
    /\ At(s, "create")
    /\ IF HasRow(Ord(s), Job(s).provider, {"EXECUTING"})
       THEN Release(s, TRUE) /\ UNCHANGED prints
       ELSE InsertExecution(s)
    /\ UNCHANGED <<lockVars, status, jobs>>

\* the order is marked before the execution is recorded
ExecuteAndMark(s) ==
    /\ At(s, "call")
    /\ \E ok \in IF Job(s).provider = "MANUAL" THEN {TRUE} ELSE BOOLEAN :
          work' = [work EXCEPT ![s].pc = "mark", ![s].ok = ok]
    /\ UNCHANGED <<lockVars, rows, jobs>>

\* Neither client throws once its token is set, so nothing comes back as
\* retryable: success (PENDING included), or a failure for good.
ExecuteDelivery(s) ==
    /\ At(s, "call")
    /\ \E ok \in IF Job(s).provider = "MANUAL" THEN {TRUE} ELSE BOOLEAN :
          work' = [work EXCEPT ![s].pc = "record", ![s].ok = ok]
    /\ UNCHANGED <<lockVars, rows, jobs>>

\* updateExecutionResult: the same constraint holds for the new status, and
\* a refused update throws
UpdateExecutionResult(s) ==
    /\ At(s, "record")
    /\ LET o == Ord(s)
           result == IF work[s].ok THEN "SUCCESS" ELSE "FAILED"
           provider == prints[o][work[s].row].provider
       IN IF HasRow(o, provider, {result})
          THEN Release(s, FALSE) /\ UNCHANGED prints
          ELSE /\ prints' = [prints EXCEPT ![o][work[s].row].status = result]
               /\ work' = [work EXCEPT ![s].pc = "mark", ![s].row = 0]
    /\ UNCHANGED <<lockVars, status, jobs>>

\* markOrderAsDelivered must succeed; the result of markOrderAsFailed is not
\* looked at
MarkOutcome(s) ==
    /\ At(s, "mark")
    /\ LET o == Ord(s) IN
         IF work[s].ok
         THEN /\ TransitionOrderState(o, "PROCESSING", "DELIVERED", "WORKER")
              /\ Release(s, Moves(o, "PROCESSING", "DELIVERED", "WORKER"))
         ELSE /\ TransitionOrderState(o, work[s].seen, "FAILED", "WORKER")
              /\ Release(s, TRUE)
    /\ UNCHANGED <<lockVars, prints, jobs>>

ReleaseLock(s) ==
    /\ At(s, "release")
    /\ CloseSession(s, Ord(s))
    /\ Goto(s, IF StillHolds(s, Ord(s)) THEN "delete" ELSE "finish")
    /\ UNCHANGED <<rows, jobs>>

DeleteKey(s) ==
    /\ At(s, "delete")
    /\ DeleteLock(s, Ord(s))
    /\ Goto(s, "finish")
    /\ UNCHANGED <<rows, jobs>>

Finish(s) ==
    /\ At(s, "finish")
    /\ EndJob(s, work[s].ok)
    /\ UNCHANGED <<lockVars, rows>>

-----------------------------------------------------------------------------
(* Crashes and stalls.                                                     *)

\* a stalled job comes back however often it stalled
StalledUnlimited(j) == [jobs[j] EXCEPT !.state = "waiting", !.stalls = @ + 1, !.by = Nobody]

Stalled(j) ==
    IF jobs[j].stalls < MaxStalled
    THEN [jobs[j] EXCEPT !.state = "waiting", !.stalls = @ + 1, !.by = Nobody]
    ELSE Over(j, "failed")

\* A process dies with all its slots; BullMQ sees its jobs stall.
Crash(p) ==
    LET dead == {s \in Slots : Owner[s] = p}
        lost(j) == jobs[j].state = "active" /\ jobs[j].by \in dead
    IN /\ MayCrash
       /\ \E s \in dead : ~At(s, "idle")
       /\ ForgetSessions(dead)
       /\ work' = [s \in Slots |-> IF s \in dead THEN Resting ELSE work[s]]
       /\ jobs' = [j \in Jobs |-> IF lost(j) THEN Stalled(j) ELSE jobs[j]]
       /\ UNCHANGED rows

\* A process that is merely slow looks the same to BullMQ, and goes on.
JobStalls(j) ==
    /\ MayStall
    /\ jobs[j].state = "active"
    /\ jobs' = [jobs EXCEPT ![j] = Stalled(j)]
    /\ UNCHANGED <<lockVars, rows, work>>

-----------------------------------------------------------------------------

Heartbeat(s) ==
    /\ ~At(s, "idle")
    /\ HeartbeatReads(s, Ord(s)) \/ HeartbeatRenews(s, Ord(s))
    /\ UNCHANGED <<rows, jobs, work>>

TimePasses == Tick /\ UNCHANGED <<rows, jobs, work>>

Step(s) ==
    \/ VerifyReadsOrder(s) \/ VerifyAsksBakong(s) \/ VerifyMarksPaid(s) \/ VerifyQueuesDelivery(s)
    \/ ExpireReadsOrder(s) \/ ExpireWritesById(s)
    \/ ReconcileReadsOrder(s) \/ ReconcileWritesById(s)
    \/ RetryReadsProduct(s)
    \/ GetLock(s) \/ GiveUpLock(s)
    \/ ReadOrder(s) \/ FindExecution(s) \/ CreateExecution(s) \/ ExecuteDelivery(s)
    \/ UpdateExecutionResult(s) \/ MarkOutcome(s)
    \/ ReleaseLock(s) \/ DeleteKey(s) \/ Finish(s)

Next ==
    \/ \E s \in Slots, j \in Jobs : TakeJob(s, j)
    \/ \E s \in Slots : Step(s) \/ Heartbeat(s)
    \/ \E o \in Orders : StartedElsewhere(o)
    \/ \E p \in Processes : Crash(p)
    \/ \E j \in Jobs : JobStalls(j)
    \/ TimePasses

Spec == Init /\ [][Next]_vars

\* A live slot runs on (its release may have to wait for a renewal again and
\* again), its timer fires, BullMQ hands out what is waiting.
FairSpec ==
    /\ Spec
    /\ \A s \in Slots :
         /\ SF_vars(Step(s))
         /\ WF_vars(Heartbeat(s))
         /\ WF_vars(\E j \in Jobs : TakeJob(s, j))

-----------------------------------------------------------------------------
(* Properties.                                                             *)

Delivering(s, steps) == work[s].pc \in steps

\* "Execution fingerprint prevents duplicate provider calls": even when locks
\* lapse under live workers and BullMQ runs one job twice, no two slots are
\* between the insert of their row and the end of the provider call for the
\* same order and provider.
OneExecutionAtATime ==
    \A s, t \in Slots :
        /\ Delivering(s, {"call", "record"}) /\ Delivering(t, {"call", "record"})
        /\ Ord(s) = Ord(t) /\ Job(s).provider = Job(t).provider
        => s = t

\* An order is only ever DELIVERED on the strength of a recorded success,
\* whatever wrote its status in between.
DeliveredWasExecuted ==
    \A o \in Orders : status[o] = "DELIVERED" => HasRow(o, "PROVIDER", {"SUCCESS"})
                                                 \/ HasRow(o, "MANUAL", {"SUCCESS"})

\* "Prevents multiple workers from processing same order": while processes
\* keep their heartbeats, crashes included, one slot at most is inside the
\* locked part for an order, although the heartbeat renews without looking
\* and the release deletes without looking.
OneWorkerPerOrder ==
    \A s, t \in Slots :
        /\ Delivering(s, DeliverySteps) /\ Delivering(t, DeliverySteps)
        /\ Ord(s) = Ord(t)
        => s = t

\* "Each delivery executed exactly once": a provider is not called again for
\* an order it delivered, although the look and the insert are two calls.
NoExecutionAfterSuccess ==
    \A s \in Slots :
        At(s, "call") => ~HasRow(Ord(s), Job(s).provider, {"SUCCESS"})

\* Every job that was taken comes to its end, whoever crashed with the lock.
JobsEnd ==
    \A j \in Jobs : (jobs[j].state = "active") ~> (jobs[j].state \in {"completed", "failed"})
=============================================================================
