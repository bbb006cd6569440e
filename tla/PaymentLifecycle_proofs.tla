------------------------ MODULE PaymentLifecycle_proofs ------------------------
(***************************************************************************)
(* Theorems about PaymentLifecycle, for any set of orders, of concurrent   *)
(* requests and of payment workers, with every handler and with crashes.   *)
(***************************************************************************)
EXTENDS PaymentLifecycle, SequenceTheorems, TLAPS

-----------------------------------------------------------------------------
(* Typing.  TypeOK alone is not inductive: the attempt a retry is about to *)
(* write must stay within MaxRetries, which the reading of the job         *)
(* guaranteed some steps earlier.  The lemmas about single steps let an    *)
(* order be REFUNDED, a state administrators write and the state machine   *)
(* does not know: so they also hold among the writes from outside.         *)

AnyState == PaymentState \cup {"REFUNDED"}

Typed ==
    /\ status \in [Orders -> AnyState]
    /\ md5 \in [Orders -> BOOLEAN]
    /\ expired \in [Orders -> BOOLEAN]
    /\ bakong \in [Orders -> BOOLEAN]
    /\ jobs \in [Orders -> Seq(Job)]
    /\ dispatched \in [Orders -> Nat]
    /\ credited \in [Orders -> BOOLEAN]
    /\ proc \in [Procs -> {Idle} \cup Activity]

RetryWithinBound ==
    \A p \in Procs :
        proc[p].pc = "scheduleRetry" => proc[p].attempt < MaxRetries

\* Replacing a job row, or its status, in the list of an order keeps a list of
\* job rows; an index beyond the list changes nothing.
LEMMA ReplaceJobType ==
    ASSUME NEW s \in Seq(Job), NEW i \in Nat, NEW e \in Job
    PROVE  [s EXCEPT ![i] = e] \in Seq(Job)
<1>1. CASE i \in 1..Len(s)
  BY <1>1, ExceptSeq
<1>2. CASE i \notin 1..Len(s)
  <2> DEFINE t == [s EXCEPT ![i] = e]
  <2>1. DOMAIN t = DOMAIN s /\ s = [j \in DOMAIN s |-> s[j]]
    OBVIOUS
  <2>2. t = [j \in DOMAIN s |-> s[j]]
    BY <1>2
  <2> QED BY <2>1, <2>2
<1> QED BY <1>1, <1>2

LEMMA SetJobType ==
    ASSUME NEW s \in Seq(Job), NEW i \in Nat, NEW st \in JobState
    PROVE  [s EXCEPT ![i].status = st] \in Seq(Job)
<1>1. CASE i \in 1..Len(s)
  <2>1. s[i] \in Job
    BY <1>1
  <2>2. [s[i] EXCEPT !.status = st] \in Job
    BY <2>1 DEF Job
  <2>3. [s EXCEPT ![i] = [s[i] EXCEPT !.status = st]] \in Seq(Job)
    BY <2>2, ReplaceJobType
  <2> QED BY <2>3
<1>2. CASE i \notin 1..Len(s)
  <2> DEFINE t == [s EXCEPT ![i].status = st]
  <2>1. DOMAIN t = DOMAIN s /\ s = [j \in DOMAIN s |-> s[j]]
    OBVIOUS
  <2>2. t = [j \in DOMAIN s |-> s[j]]
    BY <1>2
  <2> QED BY <2>1, <2>2
<1> QED BY <1>1, <1>2

\* The three ways a process moves on keep the type of proc.
LEMMA StartType ==
    ASSUME Typed, NEW p \in Procs, NEW h, NEW step \in Steps, NEW o \in Orders,
           NEW slot \in Nat, NEW attempt \in 0..MaxRetries,
           Start(p, h, step, o, slot, attempt)
    PROVE  proc' \in [Procs -> {Idle} \cup Activity]
<1>1. h \in AllHandlers
  BY ConstantsAssumption DEF Start
<1>2. [pc |-> step, handler |-> h, order |-> o, slot |-> slot, attempt |-> attempt]
        \in Activity
  BY <1>1 DEF Activity
<1> QED BY <1>2 DEF Start, Typed

LEMMA GotoType ==
    ASSUME Typed, NEW p \in Procs, NEW step \in Steps, proc[p].pc # "idle",
           Goto(p, step)
    PROVE  proc' \in [Procs -> {Idle} \cup Activity]
<1>1. proc[p] \in Activity
  BY DEF Typed, Idle
<1>2. [proc[p] EXCEPT !.pc = step] \in Activity
  BY <1>1 DEF Activity
<1> QED BY <1>2 DEF Goto, Typed

LEMMA ReturnType ==
    ASSUME Typed, NEW p \in Procs, Return(p)
    PROVE  proc' \in [Procs -> {Idle} \cup Activity]
BY DEF Return, Typed

\* The effect of a Goto and of a Return on the process and on the others.
LEMMA GotoEffect ==
    ASSUME Typed, NEW p \in Procs, NEW step, proc[p].pc # "idle", Goto(p, step)
    PROVE  /\ proc'[p].pc = step
           /\ proc'[p].order = proc[p].order
           /\ \A q \in Procs : q # p => proc'[q] = proc[q]
<1>1. proc[p] \in Activity
  BY DEF Typed, Idle
<1> QED BY <1>1 DEF Goto, Typed, Activity

LEMMA ReturnEffect ==
    ASSUME Typed, NEW p \in Procs, Return(p)
    PROVE  /\ proc'[p] = Idle
           /\ \A q \in Procs : q # p => proc'[q] = proc[q]
BY DEF Return, Typed

\* The shape of every step of a process: it returns, or it moves on with the
\* same order; in no case to the point where a retry is written.
LEMMA StepShape ==
    ASSUME Typed, NEW p \in Procs, Step(p) \/ Crash(p)
    PROVE  /\ proc[p].pc # "idle"
           /\ \A q \in Procs : q # p => proc'[q] = proc[q]
           /\ \/ proc'[p] = Idle
              \/ /\ proc'[p].order = proc[p].order
                 /\ proc'[p].pc # "scheduleRetry"
<1>0. proc[p].pc # "idle"
  BY DEF Step, Crash, At, Typed, Activity, Steps, CheckPoints, BakongConfirms,
     BakongDoesNotConfirm, RereadStatus, MarkOrderAsPaid, CancelOrder, ExpireOrder,
     CreateJob, ClaimJob, StartProcessing, CallProvider, MarkOrderAsDelivered,
     CompleteJob, UnknownJob, MarkOrderForManualReview, FailJob, MarkOrderAsFailed,
     ScheduleRetry
<1>1. CASE Return(p)
  BY <1>0, <1>1, ReturnEffect
<1>2. ASSUME NEW step, step # "scheduleRetry", Goto(p, step)
      PROVE  /\ \A q \in Procs : q # p => proc'[q] = proc[q]
             /\ proc'[p].order = proc[p].order
             /\ proc'[p].pc # "scheduleRetry"
  BY <1>0, <1>2, GotoEffect
<1>3. CASE BakongConfirms(p) \/ RereadStatus(p) \/ ClaimJob(p) \/ StartProcessing(p)
  BY <1>0, <1>1, <1>2, <1>3 DEF BakongConfirms, RereadStatus, ClaimJob, StartProcessing
<1>4. CASE CreateJob(p)
  <2>1. proc[p] \in Activity
    BY <1>0 DEF Typed, Idle
  <2> QED BY <1>0, <1>4, <2>1 DEF Typed, CreateJob, Activity
<1>5. CASE CallProvider(p)
  BY <1>0, <1>2, <1>5 DEF CallProvider, AfterAnswer
<1>6. CASE MarkOrderAsDelivered(p) \/ UnknownJob(p) \/ FailJob(p)
  BY <1>0, <1>2, <1>6 DEF MarkOrderAsDelivered, UnknownJob, FailJob
<1>7. CASE \/ BakongDoesNotConfirm(p) \/ MarkOrderAsPaid(p) \/ CancelOrder(p)
           \/ ExpireOrder(p) \/ CompleteJob(p) \/ MarkOrderForManualReview(p)
           \/ MarkOrderAsFailed(p) \/ ScheduleRetry(p) \/ Crash(p)
  BY <1>1, <1>7 DEF BakongDoesNotConfirm, MarkOrderAsPaid,
     CancelOrder, ExpireOrder, CompleteJob, MarkOrderForManualReview,
     MarkOrderAsFailed, ScheduleRetry, Crash
<1> QED BY <1>3, <1>4, <1>5, <1>6, <1>7 DEF Step

\* A compare-and-set, won or lost, keeps the order row in its type.
LEMMA TransitionType ==
    ASSUME Typed, NEW o \in Orders, NEW from \in PaymentState, NEW to \in PaymentState,
           TransitionOrderState(o, from, to)
    PROVE  /\ status' \in [Orders -> AnyState]
           /\ md5' \in [Orders -> BOOLEAN]
BY DEF Typed, TransitionOrderState, orderVars, AnyState

\* Every action keeps the types, given the bound on the attempt of a retry.
LEMMA TypeStep ==
    ASSUME Typed, RetryWithinBound, [Next]_vars
    PROVE  Typed'
<1>1. CASE UNCHANGED vars
  BY <1>1 DEF Typed, vars
<1>2. ASSUME NEW o \in Orders, CustomerPays(o) \/ PaymentWindowCloses(o)
      PROVE  Typed'
  BY <1>2 DEF CustomerPays, PaymentWindowCloses, Typed, orderVars, providerVars
<1>3. ASSUME NEW p \in Procs, NEW o \in Orders,
             Arrival(p, o) \/ WorkerRound(p, o) \/ CheckPendingPayments(p, o)
      PROVE  Typed'
  <2>1. /\ 0 \in Nat /\ 0 \in 0..MaxRetries
        /\ {"check", "expireOrder", "cancelOrder", "createJob", "claimJob", "scheduleRetry"}
              \subseteq Steps
    BY DEF Steps, CheckPoints, MaxRetries
  <2>2. UNCHANGED <<orderVars, worldVars, jobs, providerVars>>
    BY <1>3 DEF Arrival, WorkerRound, CheckPendingPayments, WebhookReceived,
                StatusRequested, VerifyRequested, CancelRequested,
                ListExpiredOrders, PickPaidOrder, ListFailedDeliveries
  <2>3. proc' \in [Procs -> {Idle} \cup Activity]
    <3>1. ASSUME NEW h, NEW step \in Steps, Start(p, h, step, o, 0, 0)
          PROVE  proc' \in [Procs -> {Idle} \cup Activity]
      BY <3>1, <2>1, StartType
    <3>2. CASE PickPaidOrder(p, o)
      <4>1. Len(jobs[o]) \in Nat
        BY DEF Typed
      <4> QED BY <3>2, <4>1, <2>1, StartType DEF PickPaidOrder
    <3>3. CASE ListFailedDeliveries(p, o)
      <4>1. PICK slot \in 1..Len(jobs[o]) :
              Start(p, "retry", "scheduleRetry", o, slot, jobs[o][slot].attempt)
        BY <3>3 DEF ListFailedDeliveries
      <4>2. jobs[o] \in Seq(Job)
        BY DEF Typed
      <4>3. jobs[o][slot] \in Job
        BY <4>2
      <4>4. slot \in Nat /\ jobs[o][slot].attempt \in 0..MaxRetries
        BY <4>2, <4>3 DEF Job
      <4> QED BY <4>1, <4>4, <2>1, StartType
    <3>4. CASE ListExpiredOrders(p, o)
      BY <3>4, <2>1, <3>1 DEF ListExpiredOrders
    <3>5. CASE CheckPendingPayments(p, o)
      BY <3>5, <2>1, <3>1 DEF CheckPendingPayments
    <3>6. CASE WebhookReceived(p, o)
      BY <3>6, <2>1, <3>1 DEF WebhookReceived
    <3>7. CASE StatusRequested(p, o)
      BY <3>7, <2>1, <3>1 DEF StatusRequested
    <3>8. CASE VerifyRequested(p, o)
      BY <3>8, <2>1, <3>1 DEF VerifyRequested
    <3>9. CASE CancelRequested(p, o)
      BY <3>9, <2>1, <3>1 DEF CancelRequested
    <3> QED BY <1>3, <3>2, <3>3, <3>4, <3>5, <3>6, <3>7, <3>8, <3>9 DEF WorkerRound, Arrival
  <2> QED BY <2>2, <2>3 DEF Typed, orderVars, worldVars, providerVars
<1>4. ASSUME NEW p \in Procs, Step(p) \/ Crash(p)
      PROVE  Typed'
  <2> DEFINE o == proc[p].order
             i == proc[p].slot
  <2> USE DEF orderVars, worldVars, providerVars
  <2>0. Steps = CheckPoints \cup
           {"expireOrder", "cancelOrder", "createJob", "claimJob", "startProcessing",
            "callProvider", "markDelivered", "completeJob", "unknownJob",
            "manualReview", "failJob", "failOrder", "scheduleRetry"}
    BY DEF Steps
  <2>1. CASE Crash(p)
    BY <2>1, ReturnType DEF Crash, Typed
  <2>2. ASSUME proc[p].pc # "idle"
        PROVE  proc[p] \in Activity /\ o \in Orders /\ i \in Nat
    BY <2>2 DEF Typed, Idle, Activity
  <2>3. CASE BakongConfirms(p) \/ BakongDoesNotConfirm(p) \/ RereadStatus(p)
    <3>1. proc' \in [Procs -> {Idle} \cup Activity]
      BY <2>3, <2>0, GotoType, ReturnType
         DEF BakongConfirms, BakongDoesNotConfirm, RereadStatus, At, CheckPoints
    <3> QED BY <2>3, <3>1 DEF BakongConfirms, BakongDoesNotConfirm, RereadStatus, Typed
  <2>4. CASE MarkOrderAsPaid(p) \/ MarkOrderForManualReview(p) \/ MarkOrderAsFailed(p)
    <3>1. o \in Orders
      BY <2>4, <2>2 DEF MarkOrderAsPaid, MarkOrderForManualReview, MarkOrderAsFailed, At
    <3>2. /\ status' \in [Orders -> AnyState]
          /\ md5' \in [Orders -> BOOLEAN]
      BY <2>4, <3>1, TransitionType
         DEF MarkOrderAsPaid, MarkOrderForManualReview, MarkOrderAsFailed, PaymentState
    <3> QED BY <2>4, <3>2, ReturnType
            DEF MarkOrderAsPaid, MarkOrderForManualReview, MarkOrderAsFailed, Typed
  <2>5. CASE CancelOrder(p) \/ ExpireOrder(p)
    <3>1. o \in Orders
      BY <2>5, <2>2 DEF CancelOrder, ExpireOrder, At
    <3> QED BY <2>5, <3>1, ReturnType
            DEF CancelOrder, ExpireOrder, OverwriteStatus, Typed, PaymentState, AnyState
  <2>6. CASE CreateJob(p)
    <3>1. o \in Orders /\ proc[p] \in Activity
      BY <2>6, <2>2 DEF CreateJob, At
    <3>2. [status |-> "PENDING", attempt |-> 0] \in Job
      BY DEF Job, JobState, MaxRetries
    <3>3. /\ Append(jobs[o], [status |-> "PENDING", attempt |-> 0]) \in Seq(Job)
          /\ Len(jobs[o]) + 1 \in Nat
      BY <3>1, <3>2 DEF Typed
    <3>4. jobs' \in [Orders -> Seq(Job)]
      BY <2>6, <3>1, <3>3 DEF CreateJob, Typed
    <3>5. [proc[p] EXCEPT !.pc = "claimJob", !.slot = Len(jobs[o]) + 1] \in Activity
      BY <3>1, <3>3, <2>0 DEF Activity
    <3>6. proc' \in [Procs -> {Idle} \cup Activity]
      BY <2>6, <3>5 DEF CreateJob, Typed
    <3> QED BY <2>6, <3>4, <3>6 DEF CreateJob, Typed
  <2>7. CASE ClaimJob(p) \/ CompleteJob(p) \/ UnknownJob(p) \/ FailJob(p)
    <3>1. o \in Orders /\ i \in Nat /\ proc[p].pc # "idle"
      BY <2>7, <2>2 DEF ClaimJob, CompleteJob, UnknownJob, FailJob, At
    <3>2. PICK st \in JobState : SetJob(o, i, st)
      BY <2>7 DEF ClaimJob, CompleteJob, UnknownJob, FailJob, JobState
    <3>3. jobs' \in [Orders -> Seq(Job)]
      BY <3>1, <3>2, SetJobType DEF SetJob, Typed
    <3>4. proc' \in [Procs -> {Idle} \cup Activity]
      BY <2>7, <3>1, <2>0, GotoType, ReturnType DEF ClaimJob, CompleteJob, UnknownJob, FailJob
    <3> QED BY <2>7, <3>3, <3>4 DEF ClaimJob, CompleteJob, UnknownJob, FailJob, Typed
  <2>8. CASE StartProcessing(p) \/ MarkOrderAsDelivered(p)
    <3>1. o \in Orders /\ proc[p].pc # "idle"
      BY <2>8, <2>2 DEF StartProcessing, MarkOrderAsDelivered, At
    <3>2. /\ status' \in [Orders -> AnyState]
          /\ md5' \in [Orders -> BOOLEAN]
      BY <2>8, <3>1, TransitionType DEF StartProcessing, MarkOrderAsDelivered, PaymentState
    <3>3. proc' \in [Procs -> {Idle} \cup Activity]
      BY <2>8, <3>1, <2>0, GotoType DEF StartProcessing, MarkOrderAsDelivered
    <3> QED BY <2>8, <3>2, <3>3 DEF StartProcessing, MarkOrderAsDelivered, Typed
  <2>9. CASE CallProvider(p)
    <3>1. o \in Orders /\ proc[p].pc # "idle"
      BY <2>9, <2>2 DEF CallProvider, At
    <3>2. PICK answer \in ProviderAnswers, c \in BOOLEAN :
            /\ dispatched' = [dispatched EXCEPT ![o] = @ + 1]
            /\ credited' = [credited EXCEPT ![o] = @ \/ c]
            /\ Goto(p, AfterAnswer(answer))
      BY <2>9 DEF CallProvider
    <3>3. AfterAnswer(answer) \in Steps
      BY <2>0 DEF AfterAnswer
    <3>4. proc' \in [Procs -> {Idle} \cup Activity]
      BY <3>1, <3>2, <3>3, GotoType
    <3>5. dispatched' \in [Orders -> Nat]
      BY <3>1, <3>2 DEF Typed
    <3>6. credited' \in [Orders -> BOOLEAN]
      BY <3>1, <3>2, <3>3 DEF Typed
    <3> QED BY <2>9, <3>4, <3>5, <3>6 DEF CallProvider, Typed
  <2>10. CASE ScheduleRetry(p)
    <3>1. o \in Orders /\ i \in Nat /\ proc[p].pc # "idle"
      BY <2>10, <2>2 DEF ScheduleRetry, At
    <3>2. proc[p].attempt < MaxRetries /\ proc[p].attempt \in 0..MaxRetries
      BY <2>10, <2>2 DEF RetryWithinBound, ScheduleRetry, At, Activity
    <3>3. [status |-> "RETRYING", attempt |-> proc[p].attempt + 1] \in Job
      BY <3>2 DEF Job, JobState, MaxRetries
    <3>4. [jobs[o] EXCEPT ![i] = [status |-> "RETRYING", attempt |-> proc[p].attempt + 1]]
             \in Seq(Job)
      BY <3>1, <3>3, ReplaceJobType DEF Typed
    <3>5. jobs' \in [Orders -> Seq(Job)]
      BY <2>10, <3>1, <3>4 DEF ScheduleRetry, Typed
    <3> QED BY <2>10, <3>5, ReturnType DEF ScheduleRetry, Typed
  <2> QED BY <1>4, <2>1, <2>3, <2>4, <2>5, <2>6, <2>7, <2>8, <2>9, <2>10 DEF Step
<1> QED BY <1>1, <1>2, <1>3, <1>4 DEF Next, Procs

\* Only the reading of a failed job leads to a retry, and it bounds the attempt.
LEMMA RetryStep ==
    ASSUME Typed, RetryWithinBound, [Next]_vars
    PROVE  RetryWithinBound'
<1> SUFFICES ASSUME NEW q \in Procs, proc'[q].pc = "scheduleRetry"
             PROVE  proc'[q].attempt < MaxRetries
  BY DEF RetryWithinBound
<1>1. CASE proc'[q] = proc[q]
  BY <1>1 DEF RetryWithinBound
<1>2. CASE proc'[q] # proc[q]
  <2>1. PICK o \in Orders : ListFailedDeliveries(q, o)
    <3>1. CASE \E p \in Procs : Step(p) \/ Crash(p)
      BY <1>2, <3>1, StepShape DEF Idle
    <3>2. CASE \E p \in Procs, o \in Orders :
                 Arrival(p, o) \/ WorkerRound(p, o) \/ CheckPendingPayments(p, o)
      BY <1>2, <3>2 DEF Typed, Arrival, WorkerRound, Start,
         WebhookReceived, StatusRequested, VerifyRequested, CancelRequested,
         ListExpiredOrders, PickPaidOrder, ListFailedDeliveries, CheckPendingPayments
    <3>3. CASE UNCHANGED proc
      BY <1>2, <3>3
    <3> QED BY <3>1, <3>2, <3>3 DEF Next, vars, Procs, CustomerPays, PaymentWindowCloses
  <2> QED BY <2>1 DEF ListFailedDeliveries, Start, Typed
<1> QED BY <1>1, <1>2

-----------------------------------------------------------------------------
(* What a step does, seen from the properties: which status moves it can   *)
(* make, and how a process comes to hold the right to mark or to dispatch. *)

\* A step moves the status of its own order only, and in one of four ways.
LEMMA StatusMoves ==
    ASSUME Typed, NEW p \in Procs, Step(p) \/ Crash(p), NEW x \in Orders,
           status'[x] # status[x]
    PROVE  /\ x = proc[p].order
           /\ \/ status'[x] \in {"EXPIRED", "CANCELLED"}
              \/ proc[p].pc = "markPaid" /\ status[x] = "PENDING" /\ status'[x] = "PAID"
              \/ /\ proc[p].pc = "startProcessing"
                 /\ status[x] = "PAID" /\ status'[x] = "PROCESSING"
              \/ /\ status[x] = "PROCESSING"
                 /\ status'[x] \in {"DELIVERED", "FAILED", "MANUAL_REVIEW"}
<1> USE DEF orderVars, Typed, TransitionOrderState, Applies, At
<1>1. CASE MarkOrderAsPaid(p)
  BY <1>1 DEF MarkOrderAsPaid
<1>2. CASE CancelOrder(p) \/ ExpireOrder(p)
  BY <1>2 DEF CancelOrder, ExpireOrder, OverwriteStatus
<1>3. CASE StartProcessing(p)
  BY <1>3 DEF StartProcessing
<1>4. CASE MarkOrderAsDelivered(p) \/ MarkOrderForManualReview(p) \/ MarkOrderAsFailed(p)
  BY <1>4 DEF MarkOrderAsDelivered, MarkOrderForManualReview, MarkOrderAsFailed
<1> QED BY <1>1, <1>2, <1>3, <1>4 DEF Step, Crash, BakongConfirms, BakongDoesNotConfirm,
       RereadStatus, CreateJob, ClaimJob, CallProvider, CompleteJob, UnknownJob,
       FailJob, ScheduleRetry

\* Only a confirmed check leads to marking, only a won compare-and-set to the
\* provider call, and only the provider call is counted.
LEMMA Permission ==
    ASSUME Typed, NEW p \in Procs, Step(p) \/ Crash(p)
    PROVE  LET o == proc[p].order IN
           /\ proc'[p].pc \in {"reread", "markPaid"} =>
                 \/ bakong[o]
                 \/ proc[p].pc \in {"reread", "markPaid"}
           /\ proc'[p].pc = "callProvider" =>
                 status[o] = "PAID" /\ status'[o] = "PROCESSING"
           /\ \/ UNCHANGED dispatched
              \/ /\ proc[p].pc = "callProvider"
                 /\ dispatched' = [dispatched EXCEPT ![o] = @ + 1]
           /\ UNCHANGED bakong
<1> DEFINE o == proc[p].order
<1>0. proc[p].pc # "idle" /\ proc[p] \in Activity
  BY StepShape DEF Typed, Idle
<1>1. CASE proc'[p] = Idle
  <2>1. proc'[p].pc \notin {"reread", "markPaid", "callProvider"}
    BY <1>1 DEF Idle
  <2>2. \/ UNCHANGED dispatched
        \/ CallProvider(p)
    BY DEF Step, Crash, BakongConfirms, BakongDoesNotConfirm, RereadStatus,
       MarkOrderAsPaid, CancelOrder, ExpireOrder, CreateJob, ClaimJob, StartProcessing,
       MarkOrderAsDelivered, CompleteJob, UnknownJob, MarkOrderForManualReview,
       FailJob, MarkOrderAsFailed, ScheduleRetry, providerVars
  <2>3. UNCHANGED bakong
    BY DEF Step, Crash, BakongConfirms, BakongDoesNotConfirm, RereadStatus,
       MarkOrderAsPaid, CancelOrder, ExpireOrder, CreateJob, ClaimJob, StartProcessing,
       CallProvider, MarkOrderAsDelivered, CompleteJob, UnknownJob,
       MarkOrderForManualReview, FailJob, MarkOrderAsFailed, ScheduleRetry, worldVars
  <2> QED BY <2>1, <2>2, <2>3 DEF CallProvider, At
<1>2. CASE BakongConfirms(p)
  <2>1. bakong[o] /\ UNCHANGED <<worldVars, providerVars>>
    BY <1>2 DEF BakongConfirms, CheckBakongPayment
  <2>2. proc'[p].pc \in {"reread", "markPaid"}
    BY <1>0, <1>2, GotoEffect DEF BakongConfirms
  <2> QED BY <2>1, <2>2 DEF worldVars, providerVars
<1>3. CASE RereadStatus(p) /\ proc'[p] # Idle
  BY <1>0, <1>3, GotoEffect, ReturnEffect DEF RereadStatus, At, worldVars, providerVars
<1>4. CASE ClaimJob(p) \/ MarkOrderAsDelivered(p) \/ UnknownJob(p) \/ FailJob(p)
  BY <1>0, <1>4, GotoEffect DEF ClaimJob, MarkOrderAsDelivered, UnknownJob, FailJob,
     worldVars, providerVars
<1>5. CASE CreateJob(p)
  BY <1>0, <1>5 DEF CreateJob, Typed, Activity, worldVars, providerVars
<1>6. CASE StartProcessing(p)
  <2>1. o \in Orders
    BY <1>0 DEF Activity
  <2>2. proc'[p].pc \in {"failJob", "markDelivered", "callProvider"}
    BY <1>0, <1>6, GotoEffect DEF StartProcessing
  <2>3. proc'[p].pc = "callProvider" => Applies(o, "PAID", "PROCESSING")
    BY <1>0, <1>6, GotoEffect DEF StartProcessing
  <2>4. Applies(o, "PAID", "PROCESSING") => status[o] = "PAID" /\ status'[o] = "PROCESSING"
    BY <1>6, <2>1 DEF StartProcessing, TransitionOrderState, Applies, Typed
  <2> QED BY <1>6, <2>2, <2>3, <2>4 DEF StartProcessing, worldVars, providerVars
<1>7. CASE CallProvider(p)
  BY <1>0, <1>7, GotoEffect DEF CallProvider, AfterAnswer, At, worldVars
<1> QED BY <1>1, <1>2, <1>3, <1>4, <1>5, <1>6, <1>7, ReturnEffect DEF Step, Crash,
       BakongDoesNotConfirm, MarkOrderAsPaid, CancelOrder, ExpireOrder, CompleteJob,
       MarkOrderForManualReview, MarkOrderAsFailed, ScheduleRetry

\* A process that starts holds no permission yet, and nothing else changes.
LEMMA StartShape ==
    ASSUME Typed, NEW p \in Procs, NEW o \in Orders,
           Arrival(p, o) \/ WorkerRound(p, o) \/ CheckPendingPayments(p, o)
    PROVE  /\ UNCHANGED <<orderVars, worldVars, jobs, providerVars>>
           /\ proc'[p].pc \notin {"reread", "markPaid", "callProvider"}
           /\ \A q \in Procs : q # p => proc'[q] = proc[q]
BY DEF Typed, Arrival, WorkerRound, Start, WebhookReceived, StatusRequested,
   VerifyRequested, CancelRequested, ListExpiredOrders, PickPaidOrder,
   ListFailedDeliveries, CheckPendingPayments

StatusTyped == status \in [Orders -> PaymentState]

\* Every order row, job row and process stays within its type, in particular a
\* retry never writes an attempt beyond MAX_RETRIES.
THEOREM TypeCorrect == Spec => []TypeOK
<1> DEFINE Inv == Typed /\ RetryWithinBound /\ StatusTyped
<1>1. Init => Inv
  BY DEF Init, Typed, RetryWithinBound, Idle, PaymentState, AnyState, StatusTyped
<1>2. ASSUME Inv, [Next]_vars PROVE Inv'
  <2>1. Typed' /\ RetryWithinBound'
    BY <1>2, TypeStep, RetryStep
  <2>2. ASSUME NEW x \in Orders PROVE status'[x] \in PaymentState
    <3>1. CASE \E p \in Procs : Step(p) \/ Crash(p)
      BY <1>2, <3>1, StatusMoves DEF StatusTyped, PaymentState
    <3>2. CASE UNCHANGED status
      BY <1>2, <3>2 DEF StatusTyped
    <3>3. CASE \E p \in Procs, o \in Orders :
                 Arrival(p, o) \/ WorkerRound(p, o) \/ CheckPendingPayments(p, o)
      BY <1>2, <3>2, <3>3, StartShape DEF orderVars
    <3> QED BY <1>2, <3>1, <3>2, <3>3 DEF Next, vars, Procs, CustomerPays,
               PaymentWindowCloses, orderVars
  <2>3. StatusTyped'
    BY <2>1, <2>2 DEF Typed, StatusTyped
  <2> QED BY <2>1, <2>3
<1>3. Inv => TypeOK
  BY DEF Typed, StatusTyped, TypeOK
<1> QED BY <1>1, <1>2, <1>3, PTL DEF Spec

-----------------------------------------------------------------------------
(* Evidence of the payment.  The compare-and-set does not look at Bakong:  *)
(* the evidence is carried by the process, from its confirmed check to its *)
(* mark, and by the status, from PAID to the provider call.                *)

NeedsEvidence == PaidStates \cup {"FAILED", "MANUAL_REVIEW"}

ConfirmedBeforeMarking ==
    \A p \in Procs :
        proc[p].pc \in {"reread", "markPaid", "callProvider"} => bakong[proc[p].order]

EvidenceInv ==
    Typed /\ RetryWithinBound /\ PaidOnBakongEvidence /\ ConfirmedBeforeMarking

\* A settled transfer stays settled.
LEMMA BakongStays ==
    ASSUME Typed, [Next]_vars, NEW o \in Orders, bakong[o]
    PROVE  bakong'[o]
<1>1. CASE UNCHANGED bakong
  BY <1>1
<1>2. CASE \E x \in Orders : CustomerPays(x)
  BY <1>2 DEF CustomerPays, Typed
<1>3. CASE \E x \in Orders : PaymentWindowCloses(x)
  BY <1>3 DEF PaymentWindowCloses
<1>4. CASE \E p \in Procs, x \in Orders :
             Arrival(p, x) \/ WorkerRound(p, x) \/ CheckPendingPayments(p, x)
  BY <1>4, StartShape DEF worldVars
<1>5. CASE \E p \in Procs : Step(p) \/ Crash(p)
  BY <1>5, Permission
<1> QED BY <1>1, <1>2, <1>3, <1>4, <1>5 DEF Next, vars, Procs

\* Every action keeps the two halves of the evidence invariant.
LEMMA EvidenceStep ==
    ASSUME EvidenceInv, [Next]_vars
    PROVE  PaidOnBakongEvidence' /\ ConfirmedBeforeMarking'
<1> USE DEF EvidenceInv
<1>0. Typed'
  BY TypeStep
<1>1. CASE UNCHANGED <<status, dispatched, proc>>
  <2>1. \A p \in Procs : proc[p].pc # "idle" => proc[p].order \in Orders
    BY DEF Typed, Idle, Activity
  <2> QED BY <1>1, <2>1, BakongStays DEF PaidOnBakongEvidence, ConfirmedBeforeMarking
<1>2. ASSUME NEW p \in Procs, NEW o \in Orders,
             Arrival(p, o) \/ WorkerRound(p, o) \/ CheckPendingPayments(p, o)
      PROVE  PaidOnBakongEvidence' /\ ConfirmedBeforeMarking'
  BY <1>2, StartShape
     DEF PaidOnBakongEvidence, ConfirmedBeforeMarking, orderVars, worldVars, providerVars
<1>3. ASSUME NEW p \in Procs, Step(p) \/ Crash(p)
      PROVE  PaidOnBakongEvidence' /\ ConfirmedBeforeMarking'
  <2> DEFINE o == proc[p].order
  <2>1. proc[p].pc # "idle" /\ o \in Orders
    BY <1>3, StepShape DEF Typed, Idle, Activity
  <2>2. UNCHANGED bakong
    BY <1>3, Permission
  <2>3. ASSUME NEW x \in Orders, status'[x] \in NeedsEvidence
        PROVE  bakong[x]
    <3>1. CASE status'[x] = status[x]
      BY <2>3, <3>1 DEF PaidOnBakongEvidence, NeedsEvidence
    <3>2. CASE status'[x] # status[x]
      BY <1>3, <2>3, <3>2, StatusMoves
         DEF PaidOnBakongEvidence, ConfirmedBeforeMarking, NeedsEvidence, PaidStates
    <3> QED BY <3>1, <3>2
  <2>4. ASSUME NEW x \in Orders, dispatched'[x] > 0
        PROVE  bakong[x]
    <3>1. CASE dispatched'[x] = dispatched[x]
      BY <2>4, <3>1 DEF PaidOnBakongEvidence
    <3>2. CASE dispatched'[x] # dispatched[x]
      <4>1. x = o /\ proc[p].pc = "callProvider"
        BY <1>3, <2>1, <3>2, Permission DEF Typed
      <4> QED BY <4>1 DEF ConfirmedBeforeMarking
    <3> QED BY <3>1, <3>2
  <2>5. PaidOnBakongEvidence'
    BY <2>2, <2>3, <2>4 DEF PaidOnBakongEvidence, NeedsEvidence
  <2>6. ASSUME NEW q \in Procs, proc'[q].pc \in {"reread", "markPaid", "callProvider"}
        PROVE  bakong[proc'[q].order]
    <3>1. CASE q # p
      BY <1>3, <2>6, <3>1, StepShape DEF ConfirmedBeforeMarking
    <3>2. CASE q = p
      <4>1. proc'[p].order = o
        BY <1>3, <2>6, <3>2, StepShape DEF Idle
      <4>2. CASE proc'[p].pc = "callProvider"
        BY <1>3, <2>1, <4>1, <4>2, <3>2, Permission DEF PaidOnBakongEvidence, PaidStates
      <4>3. CASE proc'[p].pc \in {"reread", "markPaid"}
        BY <1>3, <4>1, <4>3, <3>2, Permission DEF ConfirmedBeforeMarking
      <4> QED BY <2>6, <3>2, <4>2, <4>3
    <3> QED BY <3>1, <3>2
  <2>7. ConfirmedBeforeMarking'
    BY <2>2, <2>6 DEF ConfirmedBeforeMarking
  <2> QED BY <2>5, <2>7
<1>4. CASE \E o \in Orders : CustomerPays(o) \/ PaymentWindowCloses(o)
  BY <1>1, <1>4 DEF CustomerPays, PaymentWindowCloses, orderVars, providerVars
<1> QED BY <1>1, <1>2, <1>3, <1>4 DEF Next, vars, Procs

\* Whatever the routes, workers and crashes do, an order that counts as paid,
\* failed or in review, or was sent to a provider, is settled at Bakong.
THEOREM EvidenceCorrect == Spec => []PaidOnBakongEvidence
<1>1. Init => EvidenceInv
  BY DEF Init, EvidenceInv, Typed, RetryWithinBound, Idle, PaymentState, AnyState,
     PaidOnBakongEvidence, PaidStates, ConfirmedBeforeMarking
<1>2. EvidenceInv /\ [Next]_vars => EvidenceInv'
  BY TypeStep, RetryStep, EvidenceStep DEF EvidenceInv
<1>3. EvidenceInv => PaidOnBakongEvidence
  BY DEF EvidenceInv
<1> QED BY <1>1, <1>2, <1>3, PTL DEF Spec

-----------------------------------------------------------------------------
(* One dispatch.  Once PROCESSING is entered no write of the code leads    *)
(* back to PENDING or PAID, so the compare-and-set can be won only once;   *)
(* its winner alone stands before the provider call, and has not made it.  *)

DispatchedLeavesPaid ==
    \A o \in Orders : dispatched[o] > 0 => status[o] \notin {"PENDING", "PAID"}

CallerHasWon ==
    \A p \in Procs : proc[p].pc = "callProvider" =>
        /\ status[proc[p].order] \notin {"PENDING", "PAID"}
        /\ dispatched[proc[p].order] = 0

CallerIsAlone ==
    \A p, q \in Procs :
        /\ proc[p].pc = "callProvider"
        /\ proc[q].pc = "callProvider"
        /\ proc[p].order = proc[q].order
        => p = q

DispatchFacts ==
    DispatchedAtMostOnce /\ DispatchedLeavesPaid /\ CallerHasWon /\ CallerIsAlone

DispatchInv == Typed /\ RetryWithinBound /\ DispatchFacts

\* Every action keeps the dispatch invariant.
LEMMA DispatchStep ==
    ASSUME DispatchInv, [Next]_vars
    PROVE  DispatchFacts'
<1> USE DEF DispatchInv, DispatchFacts
<1>1. CASE UNCHANGED <<status, dispatched, proc>>
  BY <1>1 DEF DispatchedAtMostOnce, DispatchedLeavesPaid, CallerHasWon,
     CallerIsAlone
<1>2. ASSUME NEW p \in Procs, NEW o \in Orders,
             Arrival(p, o) \/ WorkerRound(p, o) \/ CheckPendingPayments(p, o)
      PROVE  DispatchFacts'
  BY <1>2, StartShape
     DEF DispatchedAtMostOnce, DispatchedLeavesPaid, CallerHasWon,
         CallerIsAlone, orderVars, providerVars
<1>3. ASSUME NEW p \in Procs, Step(p) \/ Crash(p)
      PROVE  DispatchFacts'
  <2> DEFINE o == proc[p].order
  <2>1. proc[p].pc # "idle" /\ o \in Orders
    BY <1>3, StepShape DEF Typed, Idle, Activity
  <2>2. ASSUME NEW q \in Procs, proc[q].pc = "callProvider"
        PROVE  proc[q].order \in Orders
    BY <2>2 DEF Typed, Idle, Activity
  \* past PAID an order stays past PAID
  <2>3. ASSUME NEW x \in Orders, status[x] \notin {"PENDING", "PAID"}
        PROVE  status'[x] \notin {"PENDING", "PAID"}
    BY <1>3, <2>3, StatusMoves
  <2>4. CASE proc[p].pc = "callProvider" /\ dispatched' = [dispatched EXCEPT ![o] = @ + 1]
    <3>1. proc'[p].pc # "callProvider"
      BY <1>3, <2>1, <2>4, Permission DEF CallerHasWon
    <3>2. dispatched[o] = 0 /\ dispatched'[o] = 1 /\ status[o] \notin {"PENDING", "PAID"}
      BY <2>1, <2>4 DEF CallerHasWon, Typed
    <3>3. \A x \in Orders : x # o => dispatched'[x] = dispatched[x]
      BY <2>4 DEF Typed
    <3>4. DispatchedAtMostOnce' /\ DispatchedLeavesPaid'
      BY <2>3, <3>2, <3>3 DEF DispatchedAtMostOnce, DispatchedLeavesPaid
    <3>5. ASSUME NEW q \in Procs, proc'[q].pc = "callProvider"
          PROVE  q # p /\ proc'[q] = proc[q] /\ proc[q].order # o
      BY <1>3, <2>4, <3>1, <3>5, StepShape DEF CallerIsAlone
    <3>6. CallerHasWon'
      BY <2>2, <2>3, <3>3, <3>5 DEF CallerHasWon
    <3>7. CallerIsAlone'
      BY <3>5 DEF CallerIsAlone
    <3> QED BY <3>4, <3>6, <3>7
  <2>5. CASE UNCHANGED dispatched
    <3>1. DispatchedAtMostOnce' /\ DispatchedLeavesPaid'
      BY <2>3, <2>5 DEF DispatchedAtMostOnce, DispatchedLeavesPaid
    <3>2. ASSUME proc'[p].pc = "callProvider"
          PROVE  /\ proc'[p].order = o
                 /\ status[o] = "PAID" /\ status'[o] = "PROCESSING"
                 /\ dispatched[o] = 0
                 /\ \A q \in Procs : proc[q].pc = "callProvider" => proc[q].order # o
      <4>1. proc'[p].order = o /\ status[o] = "PAID" /\ status'[o] = "PROCESSING"
        BY <1>3, <3>2, StepShape, Permission DEF Idle
      <4>2. dispatched[o] = 0
        BY <2>1, <4>1 DEF DispatchedLeavesPaid, Typed
      <4> QED BY <4>1, <4>2 DEF CallerHasWon
    <3>3. ASSUME NEW q \in Procs, q # p
          PROVE  proc'[q] = proc[q]
      BY <1>3, <3>3, StepShape
    <3>4. CallerHasWon'
      BY <2>2, <2>3, <2>5, <3>2, <3>3 DEF CallerHasWon
    <3>5. CallerIsAlone'
      BY <3>2, <3>3 DEF CallerIsAlone
    <3> QED BY <3>1, <3>4, <3>5
  <2> QED BY <1>3, <2>4, <2>5, Permission
<1>4. CASE \E o \in Orders : CustomerPays(o) \/ PaymentWindowCloses(o)
  BY <1>1, <1>4 DEF CustomerPays, PaymentWindowCloses, orderVars, providerVars
<1> QED BY <1>1, <1>2, <1>3, <1>4 DEF Next, vars, Procs

\* However many workers race for a PAID order, and wherever they crash, at most
\* one provider order is placed for it.
THEOREM DispatchCorrect == Spec => []DispatchedAtMostOnce
<1>1. Init => DispatchInv
  BY DEF Init, DispatchInv, DispatchFacts, Typed, RetryWithinBound, Idle, PaymentState, AnyState,
     DispatchedAtMostOnce, DispatchedLeavesPaid, CallerHasWon, CallerIsAlone
<1>2. DispatchInv /\ [Next]_vars => DispatchInv'
  BY TypeStep, RetryStep, DispatchStep DEF DispatchInv
<1>3. DispatchInv => DispatchedAtMostOnce
  BY DEF DispatchInv, DispatchFacts
<1> QED BY <1>1, <1>2, <1>3, PTL DEF Spec

-----------------------------------------------------------------------------
(* The writes by id are the only ones off the transition table.  Without   *)
(* the three entry points that make them no process ever stands before     *)
(* such a write, and every other write passes CanTransition.               *)

Overwriters == {"status", "cancel", "expire"}

NobodyOverwrites ==
    \A p \in Procs : proc[p].pc \notin {"expireOrder", "cancelOrder"}

GuardedInv == Typed /\ RetryWithinBound /\ NobodyOverwrites

\* No step of a process that is running leads to a write by id.
LEMMA NoWayToOverwrite ==
    ASSUME Typed, NEW p \in Procs, Step(p) \/ Crash(p)
    PROVE  proc'[p].pc \notin {"expireOrder", "cancelOrder"}
<1>1. proc[p].pc # "idle" /\ proc[p] \in Activity
  BY StepShape DEF Typed, Idle
<1>2. CASE Return(p)
  BY <1>2, ReturnEffect DEF Idle
<1>3. CASE CreateJob(p)
  BY <1>1, <1>3 DEF CreateJob, Typed, Activity
<1>4. CASE StartProcessing(p)
  <2>1. PICK step \in {"failJob", "markDelivered", "callProvider"} : Goto(p, step)
    BY <1>4 DEF StartProcessing
  <2> QED BY <1>1, <2>1, GotoEffect
<1>5. CASE CallProvider(p)
  <2>1. PICK step \in {"failJob", "markDelivered", "unknownJob"} : Goto(p, step)
    BY <1>5 DEF CallProvider, AfterAnswer
  <2> QED BY <1>1, <2>1, GotoEffect
<1>6. CASE BakongConfirms(p) \/ (RereadStatus(p) /\ ~Return(p))
  <2>1. PICK step \in {"reread", "markPaid"} : Goto(p, step)
    BY <1>6 DEF BakongConfirms, RereadStatus
  <2> QED BY <1>1, <2>1, GotoEffect
<1>7. CASE ClaimJob(p) \/ MarkOrderAsDelivered(p) \/ UnknownJob(p) \/ FailJob(p)
  <2>1. PICK step \in {"startProcessing", "completeJob", "manualReview", "failOrder"} :
          Goto(p, step)
    BY <1>7 DEF ClaimJob, MarkOrderAsDelivered, UnknownJob, FailJob
  <2> QED BY <1>1, <2>1, GotoEffect
<1> QED BY <1>2, <1>3, <1>4, <1>5, <1>6, <1>7 DEF Step, Crash, BakongDoesNotConfirm,
       MarkOrderAsPaid, CancelOrder, ExpireOrder, CompleteJob, MarkOrderForManualReview,
       MarkOrderAsFailed, ScheduleRetry

\* Without writes by id a step that changes a status is a permitted transition.
LEMMA GuardedWrite ==
    ASSUME GuardedInv, NEW p \in Procs, Step(p) \/ Crash(p), status' # status
    PROVE  \E x \in Orders, from \in PaymentState, to \in PaymentState :
              /\ CanTransition(from, to)
              /\ status[x] = from
              /\ status' = [status EXCEPT ![x] = to]
<1> DEFINE o == proc[p].order
<1>1. o \in Orders
  BY StepShape DEF GuardedInv, Typed, Idle, Activity
<1>2. ASSUME NEW from \in PaymentState, NEW to \in PaymentState,
             TransitionOrderState(o, from, to)
      PROVE  CanTransition(from, to) /\ status[o] = from
             /\ status' = [status EXCEPT ![o] = to]
  BY <1>2 DEF TransitionOrderState, Applies, orderVars
<1>3. ~CancelOrder(p) /\ ~ExpireOrder(p)
  BY DEF CancelOrder, ExpireOrder, At, GuardedInv, NobodyOverwrites
<1>4. PICK from \in PaymentState, to \in PaymentState : TransitionOrderState(o, from, to)
  BY <1>3 DEF Step, Crash, orderVars, PaymentState, BakongConfirms, BakongDoesNotConfirm,
     RereadStatus, MarkOrderAsPaid, CreateJob, ClaimJob, StartProcessing, CallProvider,
     MarkOrderAsDelivered, CompleteJob, UnknownJob, MarkOrderForManualReview, FailJob,
     MarkOrderAsFailed, ScheduleRetry
<1> QED BY <1>1, <1>2, <1>4

\* With the three entry points closed nobody comes to stand before a write by id.
LEMMA NobodyStep ==
    ASSUME Handlers \cap Overwriters = {}, GuardedInv, [Next]_vars
    PROVE  NobodyOverwrites'
<1> USE DEF GuardedInv
<1>1. CASE UNCHANGED proc
  BY <1>1 DEF NobodyOverwrites
<1>2. ASSUME NEW p \in Procs, NEW o \in Orders,
             Arrival(p, o) \/ WorkerRound(p, o) \/ CheckPendingPayments(p, o)
      PROVE  NobodyOverwrites'
  <2>1. /\ ~StatusRequested(p, o)
        /\ ~CancelRequested(p, o)
        /\ ~ListExpiredOrders(p, o)
    BY DEF StatusRequested, CancelRequested, ListExpiredOrders, Start, Overwriters
  <2>2. proc'[p].pc \notin {"expireOrder", "cancelOrder"}
    BY <1>2, <2>1 DEF Typed, Arrival, WorkerRound, Start, WebhookReceived,
       VerifyRequested, PickPaidOrder, ListFailedDeliveries, CheckPendingPayments
  <2> QED BY <1>2, <2>2, StartShape DEF NobodyOverwrites
<1>3. ASSUME NEW p \in Procs, Step(p) \/ Crash(p)
      PROVE  NobodyOverwrites'
  <2>1. proc'[p].pc \notin {"expireOrder", "cancelOrder"}
    BY <1>3, NoWayToOverwrite
  <2> QED BY <1>3, <2>1, StepShape DEF NobodyOverwrites
<1>4. CASE \E o \in Orders : CustomerPays(o) \/ PaymentWindowCloses(o)
  BY <1>1, <1>4 DEF CustomerPays, PaymentWindowCloses
<1> QED BY <1>1, <1>2, <1>3, <1>4 DEF Next, vars, Procs

\* Every step of the guarded system is a step or a stutter of StatusPath.
LEMMA GuardedMoves ==
    ASSUME GuardedInv, [Next]_vars
    PROVE  [StatusPath!Next]_status
<1> USE DEF GuardedInv
<1>1. CASE UNCHANGED status
  BY <1>1
<1>2. ASSUME NEW p \in Procs, Step(p) \/ Crash(p), status' # status
      PROVE  StatusPath!Next
  <2>1. PICK x \in Orders, from \in PaymentState, to \in PaymentState :
          /\ CanTransition(from, to)
          /\ status[x] = from
          /\ status' = [status EXCEPT ![x] = to]
    BY <1>2, GuardedWrite
  <2>2. StatusPath!CanTransition(from, to) /\ to \in StatusPath!PaymentState
    BY <2>1 DEF CanTransition, StateTransitions, PaymentState,
       StatusPath!CanTransition, StatusPath!StateTransitions, StatusPath!PaymentState
  <2> QED BY <2>1, <2>2 DEF StatusPath!Next, StatusPath!Move
<1>3. CASE \E p \in Procs, x \in Orders :
             Arrival(p, x) \/ WorkerRound(p, x) \/ CheckPendingPayments(p, x)
  BY <1>3, StartShape DEF orderVars
<1>4. CASE \E o \in Orders : CustomerPays(o) \/ PaymentWindowCloses(o)
  BY <1>4 DEF CustomerPays, PaymentWindowCloses, orderVars
<1> QED BY <1>1, <1>2, <1>3, <1>4 DEF Next, vars, Procs

\* With the routes that write by id switched off, the whole system implements
\* the transition table: every behaviour is one of StatusPath.
THEOREM GuardedRefines ==
    ASSUME Handlers \cap Overwriters = {}
    PROVE  Spec => FollowsStateTransitions
<1>1. Init => GuardedInv
  BY DEF Init, GuardedInv, Typed, RetryWithinBound, Idle, PaymentState, AnyState, NobodyOverwrites
<1>2. GuardedInv /\ [Next]_vars => GuardedInv'
  BY TypeStep, RetryStep, NobodyStep DEF GuardedInv
<1>3. Init => StatusPath!Init
  BY DEF Init, StatusPath!Init
<1>4. GuardedInv /\ [Next]_vars => [StatusPath!Next]_status
  BY GuardedMoves
<1> QED BY <1>1, <1>2, <1>3, <1>4, PTL DEF Spec, FollowsStateTransitions, StatusPath!Spec

\* The same three entry points are all that stands between the code and its "no
\* rollback": without them no paid order is given up as expired or cancelled.
THEOREM NoRollback ==
    ASSUME Handlers \cap Overwriters = {}
    PROVE  Spec => NoPaidOrderGivenUp
<1>1. Init => GuardedInv
  BY DEF Init, GuardedInv, Typed, RetryWithinBound, Idle, PaymentState, AnyState, NobodyOverwrites
<1>2. GuardedInv /\ [Next]_vars => GuardedInv'
  BY TypeStep, RetryStep, NobodyStep DEF GuardedInv
<1>3. ASSUME GuardedInv, [Next]_vars
      PROVE  [\A o \in Orders :
                 status[o] \in PaidStates => status'[o] \notin {"EXPIRED", "CANCELLED"}]_status
  <2> SUFFICES ASSUME status' # status, NEW o \in Orders, status[o] \in PaidStates
               PROVE  status'[o] \notin {"EXPIRED", "CANCELLED"}
    OBVIOUS
  <2>1. StatusPath!Next
    BY <1>3, GuardedMoves
  <2>2. PICK x \in Orders, to \in StatusPath!PaymentState :
              /\ StatusPath!CanTransition(status[x], to)
              /\ status' = [status EXCEPT ![x] = to]
    BY <2>1 DEF StatusPath!Next, StatusPath!Move
  <2>3. CASE o = x
    <3>1. status[o] \in {"PAID", "PROCESSING", "DELIVERED"}
      BY DEF PaidStates
    <3>2. to \notin {"EXPIRED", "CANCELLED"}
      BY <2>2, <2>3, <3>1 DEF StatusPath!CanTransition, StatusPath!StateTransitions
    <3>3. status'[o] = to
      BY <1>3, <2>2, <2>3 DEF GuardedInv, Typed
    <3> QED BY <3>2, <3>3
  <2>4. CASE o # x
    <3>1. status'[o] = status[o]
      BY <1>3, <2>2, <2>4 DEF GuardedInv, Typed
    <3> QED BY <3>1 DEF PaidStates
  <2> QED BY <2>3, <2>4
<1> QED BY <1>1, <1>2, <1>3, PTL DEF Spec, NoPaidOrderGivenUp
-----------------------------------------------------------------------------
(* Job row and order row.  With one worker, no crash and the writes by id  *)
(* switched off, the worker that took an order is alone with it: the       *)
(* compare-and-sets before and after the provider call cannot be lost, and *)
(* at every step of the worker both rows are known.                        *)

OneWorker == \A p, q \in Workers : p = q

DeliverySteps ==
    {"createJob", "claimJob", "startProcessing", "callProvider", "markDelivered",
     "completeJob", "unknownJob", "manualReview", "failJob", "failOrder"}
JobSteps == DeliverySteps \cup {"scheduleRetry"}

\* Only a worker stands at the steps that write a job, and the handler tells
\* the delivery from everything else.
HandlersAtWork ==
    \A p \in Procs :
        /\ proc[p].pc \in DeliverySteps <=> proc[p].handler = "deliver"
        /\ proc[p].pc \in JobSteps => p \in Workers

\* the outcomes, as the two rows tell them
ToldOutcomes ==
    {<<"DELIVERED", "SUCCESS">>, <<"MANUAL_REVIEW", "UNKNOWN_EXTERNAL_STATE">>,
     <<"FAILED", "FAILED">>, <<"FAILED", "RETRYING">>}

OneJob(o) == Len(jobs[o]) = 1
Settled(o) == OneJob(o) /\ <<status[o], jobs[o][1].status>> \in ToldOutcomes
Resting(o) == (status[o] \in {"PENDING", "PAID"} /\ jobs[o] = <<>>) \/ Settled(o)

\* What the rows of the order hold while its worker stands at a step.
Stage(pc, slot, o) ==
    /\ pc = "createJob" => status[o] = "PAID" /\ jobs[o] = <<>>
    /\ pc \in {"claimJob", "startProcessing"} => status[o] = "PAID"
    /\ pc \in {"callProvider", "markDelivered", "unknownJob", "manualReview",
               "failJob", "failOrder"} => status[o] = "PROCESSING"
    /\ pc = "completeJob" => status[o] = "DELIVERED"
    /\ pc = "scheduleRetry" => status[o] = "FAILED"
    /\ pc \in JobSteps \ {"createJob"} => OneJob(o) /\ slot = 1
    /\ pc = "manualReview" => jobs[o][1].status = "UNKNOWN_EXTERNAL_STATE"
    /\ pc = "failOrder" => jobs[o][1].status = "FAILED"

Quiet(o) == \A p \in Workers : ~(proc[p].order = o /\ proc[p].handler = "deliver")

OutcomeFacts ==
    /\ HandlersAtWork
    /\ \A o \in Orders : Quiet(o) => Resting(o)
    /\ \A p \in Workers : Stage(proc[p].pc, proc[p].slot, proc[p].order)

OutcomeInv == GuardedInv /\ OutcomeFacts

\* Writing the status of the only job of an order.
LEMMA OnlyJob ==
    ASSUME Typed, NEW o \in Orders, OneJob(o), NEW st \in JobState, SetJob(o, 1, st)
    PROVE  /\ OneJob(o)' /\ jobs'[o][1].status = st
           /\ \A x \in Orders : x # o => jobs'[x] = jobs[x]
<1>1. jobs[o] \in Seq(Job) /\ jobs'[o] = [jobs[o] EXCEPT ![1].status = st]
  BY DEF Typed, SetJob
<1>2. 1 \in 1..Len(jobs[o]) /\ jobs[o][1] \in Job
  BY <1>1 DEF OneJob
<1>3. [jobs[o][1] EXCEPT !.status = st] \in Job /\ [jobs[o][1] EXCEPT !.status = st].status = st
  BY <1>2 DEF Job
<1>4. jobs'[o] = [jobs[o] EXCEPT ![1] = [jobs[o][1] EXCEPT !.status = st]]
  BY <1>1
<1>5. Len(jobs'[o]) = 1 /\ jobs'[o][1] = [jobs[o][1] EXCEPT !.status = st]
  BY <1>1, <1>2, <1>3, <1>4, ExceptSeq DEF OneJob
<1>6. \A x \in Orders : x # o => jobs'[x] = jobs[x]
  BY DEF Typed, SetJob
<1> QED BY <1>3, <1>5, <1>6 DEF OneJob

\* What one step of the worker makes of the order it is at.
Told(p, o) ==
    \/ proc'[p] = Idle /\ Resting(o)'
    \/ /\ proc'[p].handler = "deliver" /\ proc'[p].order = o
       /\ proc'[p].pc \in DeliverySteps
       /\ Stage(proc[p].pc, proc[p].slot, o)'

\* A delivery or a retry keeps its order's rows in step, and touches no other.
LEMMA JobStepTold ==
    ASSUME OutcomeInv, NEW p \in Workers, proc[p].pc \in JobSteps, Step(p),
           NEW o \in Orders, o = proc[p].order
    PROVE  /\ Told(p, o)
           /\ \A x \in Orders : x # o => status'[x] = status[x] /\ jobs'[x] = jobs[x]
<1> DEFINE others == \A x \in Orders : x # o => status'[x] = status[x] /\ jobs'[x] = jobs[x]
<1> USE DEF OutcomeInv, GuardedInv, DeliverySteps, JobSteps
<1>1. p \in Procs /\ proc[p] \in Activity /\ proc[p].pc # "idle"
  BY DEF Procs, Typed, Idle, Activity
<1>2. Stage(proc[p].pc, proc[p].slot, o)
  BY DEF OutcomeFacts
<1>3. proc[p].pc \in DeliverySteps => proc[p].handler = "deliver"
  BY <1>1 DEF OutcomeFacts, HandlersAtWork
<1>4. ASSUME NEW step, proc[p].pc \in DeliverySteps, Goto(p, step)
      PROVE  /\ proc'[p].handler = "deliver" /\ proc'[p].order = o
             /\ proc'[p].pc = step /\ proc'[p].slot = proc[p].slot
  BY <1>1, <1>3, <1>4 DEF Goto, Typed, Activity
<1>5. Return(p) => proc'[p] = Idle
  BY <1>1, ReturnEffect
<1>6. ASSUME NEW from \in PaymentState, NEW to \in PaymentState, CanTransition(from, to),
             status[o] = from, TransitionOrderState(o, from, to)
      PROVE  status'[o] = to /\ \A x \in Orders : x # o => status'[x] = status[x]
  BY <1>1, <1>6 DEF TransitionOrderState, Applies, Typed
<1>7. /\ CanTransition("PAID", "PROCESSING") /\ CanTransition("PROCESSING", "DELIVERED")
      /\ CanTransition("PROCESSING", "FAILED") /\ CanTransition("PROCESSING", "MANUAL_REVIEW")
  BY DEF CanTransition, StateTransitions
<1>8. ASSUME NEW st \in JobState, proc[p].pc \in JobSteps \ {"createJob"},
             SetJob(o, proc[p].slot, st)
      PROVE  /\ OneJob(o)' /\ jobs'[o][1].status = st
             /\ \A x \in Orders : x # o => jobs'[x] = jobs[x]
  BY <1>1, <1>2, <1>8, OnlyJob DEF Stage
<1>10. CASE CreateJob(p)
  <2>1. jobs[o] = <<>> /\ status[o] = "PAID"
    BY <1>2, <1>10 DEF CreateJob, At, Stage
  <2>2. jobs'[o] = <<[status |-> "PENDING", attempt |-> 0]>>
    BY <1>1, <1>10, <2>1 DEF CreateJob, Typed
  <2>3. OneJob(o)'
    BY <2>2 DEF OneJob
  <2>4. others /\ status'[o] = "PAID"
    BY <1>1, <1>10, <2>1 DEF CreateJob, Typed, orderVars
  <2>5. /\ proc'[p].pc = "claimJob" /\ proc'[p].slot = 1
        /\ proc'[p].handler = "deliver" /\ proc'[p].order = o
    BY <1>1, <1>3, <1>10, <2>1 DEF CreateJob, At, Typed, Activity
  <2> QED BY <2>3, <2>4, <2>5 DEF Told, Stage
<1>11. CASE ClaimJob(p)
  <2>1. SetJob(o, proc[p].slot, "PROCESSING") /\ Goto(p, "startProcessing")
        /\ proc[p].pc = "claimJob" /\ UNCHANGED status
    BY <1>11 DEF ClaimJob, At, orderVars
  <2>2. status[o] = "PAID" /\ proc[p].slot = 1
    BY <1>2, <2>1 DEF Stage
  <2>3. OneJob(o)' /\ others
    BY <1>8, <2>1 DEF JobState
  <2> QED BY <1>4, <2>1, <2>2, <2>3 DEF Told, Stage
<1>12. CASE StartProcessing(p)
  <2>1. proc[p].pc = "startProcessing" /\ status[o] = "PAID" /\ OneJob(o) /\ proc[p].slot = 1
    BY <1>2, <1>12 DEF StartProcessing, At, Stage
  <2>2. TransitionOrderState(o, "PAID", "PROCESSING") /\ UNCHANGED jobs
        /\ \/ Goto(p, "markDelivered")
           \/ Goto(p, "callProvider")
    BY <1>7, <1>12, <2>1 DEF StartProcessing, Applies
  <2>3. status'[o] = "PROCESSING" /\ others
    BY <1>6, <1>7, <2>1, <2>2 DEF PaymentState
  <2>4. OneJob(o)'
    BY <2>1, <2>2 DEF OneJob
  <2>5. proc'[p].pc \in {"markDelivered", "callProvider"} /\ proc'[p].slot = 1
        /\ proc'[p].handler = "deliver" /\ proc'[p].order = o
    BY <1>4, <2>1, <2>2
  <2> QED BY <2>3, <2>4, <2>5 DEF Told, Stage
<1>13. CASE CallProvider(p)
  <2>1. proc[p].pc = "callProvider" /\ status[o] = "PROCESSING" /\ OneJob(o) /\ proc[p].slot = 1
    BY <1>2, <1>13 DEF CallProvider, At, Stage
  <2>2. PICK step \in {"markDelivered", "unknownJob", "failJob"} : Goto(p, step)
    BY <1>13 DEF CallProvider, AfterAnswer
  <2>3. UNCHANGED <<status, jobs>>
    BY <1>13 DEF CallProvider, orderVars
  <2>4. OneJob(o)' /\ status'[o] = "PROCESSING" /\ others
    BY <2>1, <2>3 DEF OneJob
  <2>5. proc'[p].pc \in {"markDelivered", "unknownJob", "failJob"} /\ proc'[p].slot = 1
        /\ proc'[p].handler = "deliver" /\ proc'[p].order = o
    BY <1>4, <2>1, <2>2
  <2> QED BY <2>4, <2>5 DEF Told, Stage
<1>14. CASE MarkOrderAsDelivered(p)
  <2>1. proc[p].pc = "markDelivered" /\ status[o] = "PROCESSING" /\ OneJob(o) /\ proc[p].slot = 1
    BY <1>2, <1>14 DEF MarkOrderAsDelivered, At, Stage
  <2>2. TransitionOrderState(o, "PROCESSING", "DELIVERED") /\ Goto(p, "completeJob")
        /\ UNCHANGED jobs
    BY <1>14 DEF MarkOrderAsDelivered
  <2>3. status'[o] = "DELIVERED" /\ others
    BY <1>6, <1>7, <2>1, <2>2 DEF PaymentState
  <2>4. OneJob(o)'
    BY <2>1, <2>2 DEF OneJob
  <2> QED BY <1>4, <2>1, <2>2, <2>3, <2>4 DEF Told, Stage
<1>15. CASE CompleteJob(p)
  <2>1. proc[p].pc = "completeJob" /\ status[o] = "DELIVERED"
    BY <1>2, <1>15 DEF CompleteJob, At, Stage
  <2>2. SetJob(o, proc[p].slot, "SUCCESS") /\ Return(p) /\ UNCHANGED status
    BY <1>15 DEF CompleteJob, orderVars
  <2>3. OneJob(o)' /\ jobs'[o][1].status = "SUCCESS" /\ others
    BY <1>8, <2>1, <2>2 DEF JobState
  <2> QED BY <1>5, <2>1, <2>2, <2>3 DEF Told, Resting, Settled, ToldOutcomes
<1>16. CASE UnknownJob(p)
  <2>1. proc[p].pc = "unknownJob" /\ status[o] = "PROCESSING" /\ proc[p].slot = 1
    BY <1>2, <1>16 DEF UnknownJob, At, Stage
  <2>2. SetJob(o, proc[p].slot, "UNKNOWN_EXTERNAL_STATE") /\ Goto(p, "manualReview")
        /\ UNCHANGED status
    BY <1>16 DEF UnknownJob, orderVars
  <2>3. OneJob(o)' /\ jobs'[o][1].status = "UNKNOWN_EXTERNAL_STATE" /\ others
    BY <1>8, <2>1, <2>2 DEF JobState
  <2> QED BY <1>4, <2>1, <2>2, <2>3 DEF Told, Stage
<1>17. CASE MarkOrderForManualReview(p)
  <2>1. /\ proc[p].pc = "manualReview" /\ status[o] = "PROCESSING" /\ OneJob(o)
        /\ jobs[o][1].status = "UNKNOWN_EXTERNAL_STATE"
    BY <1>2, <1>17 DEF MarkOrderForManualReview, At, Stage
  <2>2. TransitionOrderState(o, "PROCESSING", "MANUAL_REVIEW") /\ Return(p) /\ UNCHANGED jobs
    BY <1>17 DEF MarkOrderForManualReview
  <2>3. status'[o] = "MANUAL_REVIEW" /\ others
    BY <1>6, <1>7, <2>1, <2>2 DEF PaymentState
  <2>4. OneJob(o)'
    BY <2>1, <2>2 DEF OneJob
  <2> QED BY <1>5, <2>1, <2>2, <2>3, <2>4 DEF Told, Resting, Settled, ToldOutcomes
<1>18. CASE FailJob(p)
  <2>1. proc[p].pc = "failJob" /\ status[o] = "PROCESSING" /\ proc[p].slot = 1
    BY <1>2, <1>18 DEF FailJob, At, Stage
  <2>2. SetJob(o, proc[p].slot, "FAILED") /\ Goto(p, "failOrder") /\ UNCHANGED status
    BY <1>18 DEF FailJob, orderVars
  <2>3. OneJob(o)' /\ jobs'[o][1].status = "FAILED" /\ others
    BY <1>8, <2>1, <2>2 DEF JobState
  <2> QED BY <1>4, <2>1, <2>2, <2>3 DEF Told, Stage
<1>19. CASE MarkOrderAsFailed(p)
  <2>1. /\ proc[p].pc = "failOrder" /\ status[o] = "PROCESSING" /\ OneJob(o)
        /\ jobs[o][1].status = "FAILED"
    BY <1>2, <1>19 DEF MarkOrderAsFailed, At, Stage
  <2>2. TransitionOrderState(o, "PROCESSING", "FAILED") /\ Return(p) /\ UNCHANGED jobs
    BY <1>19 DEF MarkOrderAsFailed
  <2>3. status'[o] = "FAILED" /\ others
    BY <1>6, <1>7, <2>1, <2>2 DEF PaymentState
  <2>4. OneJob(o)'
    BY <2>1, <2>2 DEF OneJob
  <2> QED BY <1>5, <2>1, <2>2, <2>3, <2>4 DEF Told, Resting, Settled, ToldOutcomes
<1>20. CASE ScheduleRetry(p)
  <2>1. proc[p].pc = "scheduleRetry" /\ status[o] = "FAILED" /\ OneJob(o) /\ proc[p].slot = 1
    BY <1>2, <1>20 DEF ScheduleRetry, At, Stage
  <2> DEFINE e == [status |-> "RETRYING", attempt |-> proc[p].attempt + 1]
  <2>2. proc[p].attempt \in 0..MaxRetries /\ proc[p].attempt < MaxRetries
    BY <1>1, <2>1 DEF Activity, RetryWithinBound
  <2>3. e \in Job /\ e.status = "RETRYING"
    BY <2>2 DEF Job, JobState, MaxRetries
  <2>4. jobs[o] \in Seq(Job) /\ jobs'[o] = [jobs[o] EXCEPT ![1] = e]
    BY <1>1, <1>20, <2>1 DEF ScheduleRetry, Typed
  <2> HIDE DEF e
  <2>5. Len(jobs'[o]) = 1 /\ jobs'[o][1] = e
    BY <2>1, <2>3, <2>4, ExceptSeq DEF OneJob
  <2>6. status'[o] = "FAILED" /\ others
    BY <1>1, <1>20, <2>1 DEF ScheduleRetry, Typed, orderVars
  <2>7. Return(p)
    BY <1>20 DEF ScheduleRetry
  <2> QED BY <1>5, <2>3, <2>5, <2>6, <2>7 DEF Told, Resting, Settled, ToldOutcomes, OneJob
<1> QED BY <1>10, <1>11, <1>12, <1>13, <1>14, <1>15, <1>16, <1>17, <1>18, <1>19, <1>20
        DEF Step, At, BakongConfirms, BakongDoesNotConfirm, RereadStatus, MarkOrderAsPaid,
            CancelOrder, ExpireOrder
\* Every other step of a process leaves the jobs alone, stays away from them,
\* and at most makes an unpaid order paid.
LEMMA OtherStepTold ==
    ASSUME OutcomeInv, NEW p \in Procs, proc[p].pc \notin JobSteps, Step(p),
           NEW o \in Orders, o = proc[p].order
    PROVE  /\ UNCHANGED jobs
           /\ proc'[p].pc \notin JobSteps /\ proc'[p].handler # "deliver"
           /\ \A x \in Orders : status'[x] = status[x]
                                \/ (status[x] = "PENDING" /\ status'[x] = "PAID")
<1> USE DEF OutcomeInv, GuardedInv, DeliverySteps, JobSteps
<1>1. proc[p].pc # "idle" /\ proc[p] \in Activity
  BY StepShape DEF Typed, Idle
<1>2. proc[p].handler # "deliver"
  BY DEF OutcomeFacts, HandlersAtWork
<1>3. CASE Return(p) /\ UNCHANGED <<status, jobs>>
  BY <1>3, ReturnEffect DEF Idle
<1>4. CASE \E step \in {"reread", "markPaid"} : Goto(p, step) /\ UNCHANGED <<status, jobs>>
  BY <1>1, <1>2, <1>4 DEF Goto, Typed, Activity
<1>5. CASE MarkOrderAsPaid(p)
  <2>1. UNCHANGED jobs /\ proc'[p] = Idle
    BY <1>5, ReturnEffect DEF MarkOrderAsPaid
  <2>2. ASSUME NEW x \in Orders
        PROVE  status'[x] = status[x] \/ (status[x] = "PENDING" /\ status'[x] = "PAID")
    BY <1>5 DEF MarkOrderAsPaid, TransitionOrderState, Applies, Typed, orderVars
  <2> QED BY <2>1, <2>2 DEF Idle
<1>6. CASE BakongConfirms(p) \/ BakongDoesNotConfirm(p) \/ RereadStatus(p)
  BY <1>3, <1>4, <1>6 DEF BakongConfirms, BakongDoesNotConfirm, RereadStatus, orderVars
<1> QED BY <1>5, <1>6 DEF Step, At, NobodyOverwrites, CreateJob, ClaimJob, StartProcessing,
       CallProvider, MarkOrderAsDelivered, CompleteJob, UnknownJob, MarkOrderForManualReview,
       FailJob, MarkOrderAsFailed, ScheduleRetry, CancelOrder, ExpireOrder

\* What a process takes up when it starts, and what the rows then hold.
LEMMA StartTold ==
    ASSUME OutcomeInv, NEW p \in Procs, NEW o \in Orders,
           \/ Arrival(p, o) /\ p \in Requests
           \/ WorkerRound(p, o) /\ p \in Workers
           \/ CheckPendingPayments(p, o)
    PROVE  /\ UNCHANGED <<status, jobs>>
           /\ proc[p] = Idle
           /\ proc'[p].order = o
           /\ proc'[p].pc \in DeliverySteps <=> proc'[p].handler = "deliver"
           /\ proc'[p].pc \in JobSteps => p \in Workers
           /\ OneWorker => Stage(proc[p].pc, proc[p].slot, o)'
<1> USE DEF OutcomeInv, GuardedInv, DeliverySteps, JobSteps
<1>1. UNCHANGED <<status, jobs>>
  BY StartShape DEF orderVars
<1>2. ASSUME NEW h, NEW step, NEW slot, NEW attempt, Start(p, h, step, o, slot, attempt)
      PROVE  /\ proc[p] = Idle /\ proc'[p].order = o
             /\ proc'[p].pc = step /\ proc'[p].slot = slot /\ proc'[p].handler = h
  BY <1>2 DEF Start, Typed
<1>3. CASE WebhookReceived(p, o) \/ StatusRequested(p, o) \/ VerifyRequested(p, o)
           \/ CancelRequested(p, o) \/ ListExpiredOrders(p, o) \/ CheckPendingPayments(p, o)
  <2>1. PICK h \in AllHandlers \ {"deliver"}, step \in {"check", "expireOrder", "cancelOrder"} :
          Start(p, h, step, o, 0, 0)
    BY <1>3 DEF AllHandlers, WebhookReceived, StatusRequested, VerifyRequested,
       CancelRequested, ListExpiredOrders, CheckPendingPayments
  <2> QED BY <1>1, <1>2, <2>1 DEF Stage
\* the idle worker is the only one: nobody works on the order, its rows rest
<1>4. ASSUME p \in Workers, OneWorker, proc[p] = Idle
      PROVE  Resting(o)
  BY <1>4 DEF OutcomeFacts, OneWorker, Quiet, Idle
<1>5. CASE PickPaidOrder(p, o) /\ p \in Workers
  <2>1. status[o] = "PAID" /\ jobs[o] \in Seq(Job)
    BY <1>5 DEF PickPaidOrder, Typed
  <2>2. \/ Len(jobs[o]) = 0 /\ Start(p, "deliver", "createJob", o, 0, 0)
        \/ Len(jobs[o]) > 0 /\ Start(p, "deliver", "claimJob", o, Len(jobs[o]), 0)
    BY <1>5 DEF PickPaidOrder
  <2>3. ASSUME OneWorker
        PROVE  jobs[o] = <<>>
    BY <1>2, <1>4, <1>5, <2>1, <2>2, <2>3 DEF Resting, Settled, ToldOutcomes
  <2>4. OneWorker => proc'[p].pc = "createJob"
    BY <1>2, <2>1, <2>2, <2>3
  <2>5. OneWorker => Stage(proc[p].pc, proc[p].slot, o)'
    BY <1>1, <2>1, <2>3, <2>4 DEF Stage
  <2> QED BY <1>1, <1>2, <1>5, <2>2, <2>5
<1>6. CASE ListFailedDeliveries(p, o) /\ p \in Workers
  <2>1. PICK i \in 1..Len(jobs[o]) :
          /\ jobs[o][i].status = "FAILED"
          /\ Start(p, "retry", "scheduleRetry", o, i, jobs[o][i].attempt)
    BY <1>6 DEF ListFailedDeliveries
  <2>2. proc'[p].pc = "scheduleRetry" /\ proc'[p].slot = i /\ proc'[p].handler = "retry"
        /\ proc'[p].order = o /\ proc[p] = Idle
    BY <1>2, <2>1
  <2>3. ASSUME OneWorker
        PROVE  OneJob(o) /\ i = 1 /\ status[o] = "FAILED"
    <3>1. Resting(o) /\ jobs[o] # <<>>
      BY <1>4, <1>6, <2>1, <2>2, <2>3
    <3>2. OneJob(o) /\ <<status[o], jobs[o][1].status>> \in ToldOutcomes
      BY <3>1 DEF Resting, Settled
    <3>3. i = 1
      BY <2>1, <3>2 DEF OneJob
    <3> QED BY <2>1, <3>2, <3>3 DEF ToldOutcomes
  <2>4. OneWorker => Stage(proc[p].pc, proc[p].slot, o)'
    BY <1>1, <2>2, <2>3 DEF Stage, OneJob
  <2> QED BY <1>1, <1>6, <2>2, <2>4
<1> QED BY <1>3, <1>5, <1>6 DEF Arrival, WorkerRound
\* A stage of one process, and the rest of an order, survive what does not
\* touch their rows, or only makes a pending order paid.
LEMMA RowsKept ==
    ASSUME NEW o \in Orders, jobs'[o] = jobs[o],
           status'[o] = status[o] \/ (status[o] = "PENDING" /\ status'[o] = "PAID")
    PROVE  /\ Resting(o) => Resting(o)'
           /\ \A pc, slot : Stage(pc, slot, o) => Stage(pc, slot, o)'
<1>1. Resting(o) => Resting(o)'
  BY DEF Resting, Settled, OneJob, ToldOutcomes
<1>2. ASSUME NEW pc, NEW slot, Stage(pc, slot, o)
      PROVE  Stage(pc, slot, o)'
  BY <1>2 DEF Stage, OneJob, JobSteps, DeliverySteps
<1> QED BY <1>1, <1>2

\* With one worker that does not crash, every action keeps the two rows of
\* every order in step.
LEMMA OutcomeStep ==
    ASSUME OneWorker, ~MayCrash, OutcomeInv, [Next]_vars
    PROVE  OutcomeFacts'
<1> USE DEF OutcomeInv, GuardedInv
<1> DEFINE stage(q) == Stage(proc[q].pc, proc[q].slot, proc[q].order)
<1>0. /\ \A q \in Procs : proc[q].order \in Orders \/ proc[q] = Idle
      /\ Workers \subseteq Procs
  BY DEF Typed, Activity, Procs
\* it is enough to look at one process
<1>1. ASSUME NEW p \in Procs, \A q \in Procs : q # p => proc'[q] = proc[q],
             /\ proc'[p].pc \in DeliverySteps <=> proc'[p].handler = "deliver"
             /\ proc'[p].pc \in JobSteps => p \in Workers
      PROVE  HandlersAtWork'
  BY <1>1 DEF OutcomeFacts, HandlersAtWork
<1>2. ASSUME UNCHANGED <<status, jobs, proc>>
      PROVE  OutcomeFacts'
  BY <1>2 DEF OutcomeFacts, HandlersAtWork, Quiet, Resting, Settled, OneJob, Stage
<1>3. ASSUME NEW p \in Procs, NEW o \in Orders,
             \/ Arrival(p, o) /\ p \in Requests
             \/ WorkerRound(p, o) /\ p \in Workers
             \/ CheckPendingPayments(p, o)
      PROVE  OutcomeFacts'
  <2>1. \A q \in Procs : q # p => proc'[q] = proc[q]
    BY <1>3, StartShape
  <2>2. /\ UNCHANGED <<status, jobs>>
        /\ proc[p] = Idle
        /\ proc'[p].order = o
        /\ proc'[p].pc \in DeliverySteps <=> proc'[p].handler = "deliver"
        /\ proc'[p].pc \in JobSteps => p \in Workers
        /\ Stage(proc[p].pc, proc[p].slot, o)'
    BY <1>3, StartTold
  <2>3. HandlersAtWork'
    BY <1>1, <2>1, <2>2
  <2>4. ASSUME NEW x \in Orders, Quiet(x)'
        PROVE  Resting(x)'
    <3>1. Quiet(x)
      BY <1>0, <2>1, <2>2, <2>4 DEF Quiet, Idle
    <3> QED BY <2>2, <3>1, RowsKept DEF OutcomeFacts
  <2>5. ASSUME NEW q \in Workers
        PROVE  stage(q)'
    <3>1. CASE q = p
      BY <2>2, <3>1
    <3>2. CASE q # p
      <4>1. proc'[q] = proc[q] /\ stage(q)
        BY <1>0, <2>1, <2>5, <3>2 DEF OutcomeFacts
      <4> QED BY <2>2, <4>1 DEF Stage, OneJob
    <3> QED BY <3>1, <3>2
  <2> QED BY <2>3, <2>4, <2>5 DEF OutcomeFacts
<1>4. ASSUME NEW p \in Procs, proc[p].pc \notin JobSteps, Step(p)
      PROVE  OutcomeFacts'
  <2>1. /\ proc[p].pc # "idle"
        /\ \A q \in Procs : q # p => proc'[q] = proc[q]
    BY <1>4, StepShape
  <2>2. PICK o \in Orders : o = proc[p].order
    BY <1>0, <2>1 DEF Idle
  <2>3. /\ UNCHANGED jobs
        /\ proc'[p].pc \notin JobSteps /\ proc'[p].handler # "deliver"
        /\ \A x \in Orders : status'[x] = status[x]
                             \/ (status[x] = "PENDING" /\ status'[x] = "PAID")
    BY <1>4, <2>2, OtherStepTold
  <2>4. HandlersAtWork'
    BY <1>1, <2>1, <2>3 DEF JobSteps
  <2>5. proc[p].handler # "deliver"
    BY <1>4 DEF OutcomeFacts, HandlersAtWork, JobSteps
  <2>6. ASSUME NEW x \in Orders, Quiet(x)'
        PROVE  Resting(x)'
    <3>1. Quiet(x)
      BY <1>0, <2>1, <2>5, <2>6 DEF Quiet
    <3> QED BY <2>3, <3>1, RowsKept DEF OutcomeFacts
  <2>7. ASSUME NEW q \in Workers
        PROVE  stage(q)'
    <3>1. CASE q = p
      BY <2>3, <3>1 DEF Stage, JobSteps, DeliverySteps
    <3>2. CASE q # p /\ proc[q] # Idle
      <4>1. proc'[q] = proc[q] /\ stage(q)
        BY <1>0, <2>1, <2>7, <3>2 DEF OutcomeFacts
      <4>2. PICK x \in Orders : x = proc[q].order
        BY <1>0, <2>7, <3>2
      <4>3. Stage(proc[q].pc, proc[q].slot, x)
        BY <4>1, <4>2
      <4>4. jobs'[x] = jobs[x]
            /\ (status'[x] = status[x] \/ (status[x] = "PENDING" /\ status'[x] = "PAID"))
        BY <2>3
      <4>5. PICK pc, slot : pc = proc[q].pc /\ slot = proc[q].slot
        OBVIOUS
      <4>6. Stage(pc, slot, x)'
        BY <4>3, <4>4, <4>5, RowsKept
      <4> QED BY <4>1, <4>2, <4>5, <4>6
    <3>3. CASE q # p /\ proc[q] = Idle
      BY <1>0, <2>1, <2>7, <3>3 DEF Stage, Idle, JobSteps, DeliverySteps
    <3> QED BY <3>1, <3>2, <3>3
  <2> QED BY <2>4, <2>6, <2>7 DEF OutcomeFacts
<1>5. ASSUME NEW p \in Procs, proc[p].pc \in JobSteps, Step(p)
      PROVE  OutcomeFacts'
  <2>1. p \in Workers
    BY <1>5 DEF OutcomeFacts, HandlersAtWork
  <2>2. /\ proc[p].pc # "idle"
        /\ \A q \in Procs : q # p => proc'[q] = proc[q]
    BY <1>5, StepShape
  <2>3. PICK o \in Orders : o = proc[p].order
    BY <1>0, <2>2 DEF Idle
  <2>4. /\ Told(p, o)
        /\ \A x \in Orders : x # o => status'[x] = status[x] /\ jobs'[x] = jobs[x]
    BY <1>5, <2>1, <2>3, JobStepTold
  <2>5. HandlersAtWork'
    BY <1>1, <2>1, <2>2, <2>4 DEF Told, Idle, DeliverySteps, JobSteps
  <2>6. ASSUME NEW x \in Orders, Quiet(x)'
        PROVE  Resting(x)'
    <3>1. CASE x = o
      BY <2>1, <2>4, <2>6, <3>1 DEF Told, Quiet
    <3>2. CASE x # o
      <4>1. Quiet(x)
        BY <2>1, <2>3, <3>2 DEF Quiet, OneWorker
      <4> QED BY <2>4, <3>2, <4>1, RowsKept DEF OutcomeFacts
    <3> QED BY <3>1, <3>2
  <2>7. ASSUME NEW q \in Workers
        PROVE  stage(q)'
    <3>1. q = p
      BY <2>1, <2>7 DEF OneWorker
    <3>2. CASE proc'[p] = Idle
      BY <3>1, <3>2 DEF Stage, Idle, JobSteps, DeliverySteps
    <3>3. CASE proc'[p].order = o /\ Stage(proc[p].pc, proc[p].slot, o)'
      BY <3>1, <3>3
    <3> QED BY <2>4, <3>2, <3>3 DEF Told
  <2> QED BY <2>5, <2>6, <2>7 DEF OutcomeFacts
<1>6. CASE \E o \in Orders : CustomerPays(o) \/ PaymentWindowCloses(o)
  BY <1>2, <1>6 DEF CustomerPays, PaymentWindowCloses, orderVars
<1>7. CASE UNCHANGED vars
  BY <1>2, <1>7 DEF vars
<1> QED BY <1>3, <1>4, <1>5, <1>6, <1>7 DEF Next, Crash, Procs

LEMMA OutcomeInductive ==
    ASSUME Handlers \cap Overwriters = {}, OneWorker, ~MayCrash
    PROVE  Spec => []OutcomeInv
<1>1. Init => OutcomeInv
  <2> SUFFICES ASSUME Init PROVE OutcomeInv
    OBVIOUS
  <2>1. GuardedInv
    BY DEF Init, GuardedInv, Typed, RetryWithinBound, Idle, PaymentState, AnyState, NobodyOverwrites
  <2>2. \A p \in Procs : proc[p] = Idle
    BY DEF Init
  <2>3. \A o \in Orders : status[o] = "PENDING" /\ jobs[o] = <<>>
    BY DEF Init
  <2>4. HandlersAtWork /\ \A p \in Workers : Stage(proc[p].pc, proc[p].slot, proc[p].order)
    BY <2>2 DEF HandlersAtWork, Stage, Idle, JobSteps, DeliverySteps, Procs
  <2> QED BY <2>1, <2>3, <2>4 DEF OutcomeInv, OutcomeFacts, Resting
<1>2. OutcomeInv /\ [Next]_vars => OutcomeInv'
  BY TypeStep, RetryStep, NobodyStep, OutcomeStep DEF OutcomeInv, GuardedInv
<1> QED BY <1>1, <1>2, PTL DEF Spec

\* One worker that does not crash, the writes by id switched off: when the
\* worker is through with an order, the job and the order tell the same story,
\* for any number of orders and of requests that confirm payments meanwhile.
THEOREM JobOutcomeCorrect ==
    ASSUME Handlers \cap Overwriters = {}, OneWorker, ~MayCrash
    PROVE  Spec => []JobTellsOutcome
<1>1. ASSUME OutcomeInv PROVE JobTellsOutcome
  <2> SUFFICES ASSUME NEW o \in Orders, WorkingOn(o) = {}
               PROVE  LET last == jobs[o][Len(jobs[o])].status IN
                      /\ status[o] = "DELIVERED" => last = "SUCCESS"
                      /\ status[o] = "MANUAL_REVIEW" => last = "UNKNOWN_EXTERNAL_STATE"
                      /\ status[o] = "FAILED" => last \in {"FAILED", "RETRYING"}
                      /\ status[o] # "PROCESSING"
    BY DEF JobTellsOutcome
  <2>1. Resting(o)
    BY <1>1 DEF OutcomeInv, OutcomeFacts, Quiet, WorkingOn
  <2> QED BY <2>1 DEF Resting, Settled, OneJob, ToldOutcomes
<1> QED BY <1>1, OutcomeInductive, PTL

\* Under the same conditions nobody takes an order away from the worker that
\* placed its provider order before the outcome is written.
THEOREM OutcomeFindsCorrect ==
    ASSUME Handlers \cap Overwriters = {}, OneWorker, ~MayCrash
    PROVE  Spec => []OutcomeFindsItsOrder
<1>1. OutcomeInv => OutcomeFindsItsOrder
  BY DEF OutcomeInv, OutcomeFacts, OutcomeFindsItsOrder, Stage
<1> QED BY <1>1, OutcomeInductive, PTL

\* "FAILED | Delivery failed" is true of a single worker: no order is FAILED while
\* the worker that dispatched it has yet to record the delivery.
THEOREM SoleWorkerCorrect ==
    ASSUME Handlers \cap Overwriters = {}, OneWorker, ~MayCrash
    PROVE  Spec => []FailedOnlyAfterDelivery
<1>1. OutcomeInv => FailedOnlyAfterDelivery
  BY DEF OutcomeInv, OutcomeFacts, FailedOnlyAfterDelivery, Stage
<1> QED BY <1>1, OutcomeInductive, PTL
=============================================================================
