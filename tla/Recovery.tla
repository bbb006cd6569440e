------------------------------- MODULE Recovery -------------------------------
(***************************************************************************)
(* What becomes of a delivery whose outcome is not known: lib/reconciler.ts *)
(* asks the provider, with the back-off of lib/reconciler-backoff.ts;      *)
(* lib/unknown-escalation.ts hands old ones to lib/dead-letter-queue.ts;   *)
(* lib/audit-consistency.ts does so with contradictory ones; operators     *)
(* settle the rest, also in the review queue of lib/provider-ledger.ts.    *)
(* Jobs do not depend on each other: this is one of them.  Its rows are    *)
(* written by id, without a condition, in transactions only where an       *)
(* action here writes several of them.                                     *)
(***************************************************************************)
EXTENDS Naturals

CONSTANTS
    Runs,         \* reconciliation runs that may overlap
    MaxAttempts,  \* MAX_RECONCILE_ATTEMPTS, 5 in the code
    MaxReplays,   \* maxReplays of a dead letter, 3 in the code
    MaxVerdicts,  \* bound: interventions of operators, one at a time
    CronReturns   \* whether processDeliveryQueue returns to the cron that
                  \* awaits it before it reconciles; as written it throws

ASSUME RecoveryAssumption ==
    /\ MaxAttempts \in Nat /\ MaxReplays \in Nat /\ MaxVerdicts \in Nat
    /\ CronReturns \in BOOLEAN

VARIABLES
    job,       \* the DeliveryJob: status, attempt, whether its time has come
    ledger,    \* externalState of its ProviderLedger, or "none"
    review,    \* status of its ManualReviewQueue row, or "none"
    dlq,       \* its DeadLetterQueue row; status "none" before there is one
    order,     \* status of its order
    stage,     \* how long the job has been unknown
    truth,     \* what has really happened to the top-up
    run,       \* what each reconciliation run is doing
    audit,     \* where the consistency check is
    operator,  \* where an operator's call is, and its verdict
    verdicts,  \* interventions so far
    mayCrash   \* whether processes die in this behaviour

settled == <<ledger, order>>
queues == <<review, dlq>>
outside == <<stage, truth, mayCrash>>
recoveryVars == <<job, settled, queues, outside, run, audit, operator, verdicts>>

\* INITIAL, STATUS_LOOKUP and MANUAL_PENDING, which do nothing, are one stage:
\* the update of STATUS_LOOKUP names a ledger entry by a field the job has not
\* got, and canEscalate is false throughout MANUAL_PENDING.
Stages == {"MANUAL_PENDING", "MANUAL_FINAL"}
Answers == {"SUCCESS", "FAILED", "STILL_AMBIGUOUS"}
Outcomes == {"SUCCESS", "FAILED"}
Unknown == "UNKNOWN_EXTERNAL_STATE"

RecoveryTypeOK ==
    /\ job \in [status : {Unknown, "SUCCESS", "FAILED", "FAILED_FINAL", "MANUAL_REVIEW",
                          "DEAD_LETTER", "PENDING"},
                attempt : 0..MaxAttempts, next : {"null", "ahead", "past"}]
    /\ ledger \in {"none", "AMBIGUOUS", "UNKNOWN"} \cup Outcomes
    /\ review \in {"none", "PENDING", "RESOLVED"}
    /\ dlq \in [status : {"none", "PENDING", "INVESTIGATING", "RESOLVED", "ARCHIVED"},
                canReplay : BOOLEAN, replays : 0..MaxReplays]
    /\ order \in {"PROCESSING", "DELIVERED", "FAILED_FINAL"}
    /\ stage \in Stages
    /\ truth \in {"PENDING"} \cup Outcomes
    /\ run \in [Runs -> [pc : {"idle", "ask", "settle", "escalate", "bury", "mark"},
                         attempt : 0..MaxAttempts, answer : Answers]]
    /\ audit \in {"idle", "bury", "mark"}
    /\ operator \in [pc : {"idle", "escalate", "resolve", "settleJob", "settleOrder"},
                     verdict : Outcomes]
    /\ verdicts \in 0..MaxVerdicts
    /\ mayCrash \in BOOLEAN

IdleRun == [pc |-> "idle", attempt |-> 0, answer |-> "STILL_AMBIGUOUS"]
IdleOperator == [pc |-> "idle", verdict |-> "FAILED"]

\* A job becomes unknown with an ambiguous ledger entry, or without one when
\* its circuit was open; some writers set no time for the next attempt.
RecoveryInit ==
    /\ job \in [status : {Unknown}, attempt : {0}, next : {"null", "ahead"}]
    /\ ledger \in {"none", "AMBIGUOUS"}
    /\ review = "none"
    /\ dlq = [status |-> "none", canReplay |-> FALSE, replays |-> 0]
    /\ order = "PROCESSING"
    /\ stage = "MANUAL_PENDING"
    /\ truth \in {"PENDING"} \cup Outcomes
    /\ run = [r \in Runs |-> IdleRun]
    /\ audit = "idle"
    /\ operator = IdleOperator
    /\ verdicts = 0
    /\ mayCrash \in BOOLEAN

-----------------------------------------------------------------------------
(* A reconciliation run.                                                   *)

RunAt(r, pc) == run[r].pc = pc
RunGoes(r, pc) == run' = [run EXCEPT ![r] = [IdleRun EXCEPT !.pc = pc]]
End(r) == run' = [run EXCEPT ![r] = IdleRun]

\* without the limit on attempts
GetAnyReady(r) ==
    /\ CronReturns /\ RunAt(r, "idle")
    /\ \/ /\ job.status = Unknown /\ job.next = "past" /\ ledger # "none"
          /\ run' = [run EXCEPT ![r].pc = "ask", ![r].attempt = job.attempt]
       \/ RunGoes(r, "escalate")
    /\ UNCHANGED <<job, settled, queues, outside, audit, operator, verdicts>>

\* The delivery cron is the only caller.  A job without nextAttemptAt is never
\* ready; the circuit breaker and the provider's health may refuse one that is.
GetJobsReady(r) ==
    /\ CronReturns /\ RunAt(r, "idle")
    /\ \/ /\ job.status = Unknown /\ job.next = "past" /\ job.attempt < MaxAttempts
          /\ ledger # "none"
          /\ run' = [run EXCEPT ![r].pc = "ask", ![r].attempt = job.attempt]
       \/ RunGoes(r, "escalate")
    /\ UNCHANGED <<job, settled, queues, outside, audit, operator, verdicts>>

\* GameDrop has no status API and G2Bulk is asked by transaction id only; a
\* refusal, an error or a rate-limit timeout is as good as no answer
ReconcileLedgerEntry(r) ==
    /\ RunAt(r, "ask")
    /\ \E answer \in {truth, "STILL_AMBIGUOUS"} \cap Answers :
          run' = [run EXCEPT ![r].pc = "settle", ![r].answer = answer]
    /\ UNCHANGED <<job, settled, queues, outside, audit, operator, verdicts>>

SettleJob(outcome) == job' = [job EXCEPT !.status = outcome]

\* what resolves a delivery must be an answer; here any will do
SettleAny(r) ==
    /\ RunAt(r, "settle")
    /\ SettleJob("SUCCESS") /\ ledger' = "SUCCESS" /\ order' = "DELIVERED"
    /\ RunGoes(r, "escalate")
    /\ UNCHANGED <<queues, outside, audit, operator, verdicts>>

Resolve(r) ==
    /\ RunAt(r, "settle") /\ run[r].answer \in Outcomes
    /\ SettleJob(run[r].answer)
    /\ ledger' = run[r].answer
    /\ order' = IF run[r].answer = "SUCCESS" THEN "DELIVERED" ELSE order
    /\ RunGoes(r, "escalate")
    /\ UNCHANGED <<queues, outside, audit, operator, verdicts>>

\* createManualReview is called without its transaction argument: at the
\* last attempt it throws before it writes, and the run goes on
ScheduleNextAttempt(r) ==
    /\ RunAt(r, "settle") /\ run[r].answer = "STILL_AMBIGUOUS"
    /\ job' = [job EXCEPT !.attempt = run[r].attempt + 1, !.next = "ahead"]
    /\ RunGoes(r, "escalate")
    /\ UNCHANGED <<settled, queues, outside, audit, operator, verdicts>>

ProcessEscalation(r) ==
    /\ RunAt(r, "escalate")
    /\ IF job.status = Unknown /\ stage = "MANUAL_FINAL" /\ dlq.status = "none"
       THEN RunGoes(r, "bury") ELSE End(r)
    /\ UNCHANGED <<job, settled, queues, outside, audit, operator, verdicts>>

NewDeadLetter == [status |-> "PENDING", canReplay |-> FALSE, replays |-> 0]

\* moveToDeadLetterQueue: the row first (there is one per job), then the job
CreateDeadLetter == dlq.status = "none" /\ dlq' = NewDeadLetter /\ UNCHANGED <<job, review>>
DeadLetterExists == dlq.status # "none" /\ UNCHANGED <<job, queues>>
MarkDeadLetter == SettleJob("DEAD_LETTER") /\ UNCHANGED queues

\* the job first, then the row
BuryJobFirst(r) ==
    /\ RunAt(r, "bury")
    /\ SettleJob("DEAD_LETTER") /\ RunGoes(r, "mark")
    /\ UNCHANGED <<settled, queues, outside, audit, operator, verdicts>>

Bury(r) ==
    /\ RunAt(r, "bury")
    /\ \/ CreateDeadLetter /\ RunGoes(r, "mark")
       \/ DeadLetterExists /\ End(r)
    /\ UNCHANGED <<settled, outside, audit, operator, verdicts>>

MarkBuried(r) ==
    /\ RunAt(r, "mark")
    /\ MarkDeadLetter
    /\ End(r)
    /\ UNCHANGED <<settled, outside, audit, operator, verdicts>>

Reconcile(r) ==
    \/ GetJobsReady(r) \/ ReconcileLedgerEntry(r) \/ Resolve(r) \/ ScheduleNextAttempt(r)
    \/ ProcessEscalation(r) \/ Bury(r) \/ MarkBuried(r)

-----------------------------------------------------------------------------
(* The consistency check, of jobs less than a day old.                     *)

Contradictory ==
    \/ job.status = "SUCCESS" /\ (ledger = "none" \/ order # "DELIVERED")
    \/ job.status # "SUCCESS" /\ ledger = "SUCCESS"

AuditReads ==
    /\ audit = "idle" /\ Contradictory /\ stage # "MANUAL_FINAL"
    /\ audit' = "bury"
    /\ UNCHANGED <<job, settled, queues, outside, run, operator, verdicts>>

AuditBuries ==
    /\ audit = "bury"
    /\ \/ CreateDeadLetter /\ audit' = "mark"
       \/ DeadLetterExists /\ audit' = "idle"
    /\ UNCHANGED <<settled, outside, run, operator, verdicts>>

AuditMarks ==
    /\ audit = "mark" /\ MarkDeadLetter /\ audit' = "idle"
    /\ UNCHANGED <<settled, outside, run, operator, verdicts>>

-----------------------------------------------------------------------------
(* Operators: calls that nothing in the repository makes yet.              *)

Intervene == operator.pc = "idle" /\ verdicts < MaxVerdicts /\ verdicts' = verdicts + 1
OperatorAt(pc) == operator.pc = pc
OperatorGoes(pc, verdict) == operator' = [pc |-> pc, verdict |-> verdict]

\* forceEscalateToManual and resolveUnknownState look at the status first
DecideUnknown ==
    /\ Intervene /\ job.status = Unknown
    /\ \/ \E verdict \in Outcomes : OperatorGoes("resolve", verdict) /\ UNCHANGED review
       \/ /\ review = "none" /\ review' = "PENDING"
          /\ OperatorGoes("escalate", "FAILED")
    /\ UNCHANGED <<job, settled, dlq, outside, run, audit>>

ForceEscalate ==
    /\ OperatorAt("escalate")
    /\ SettleJob("MANUAL_REVIEW")
    /\ operator' = IdleOperator
    /\ UNCHANGED <<settled, queues, outside, run, audit, verdicts>>

\* the ledger entry is named by a field the job has not got: it stays
ResolveUnknown ==
    /\ OperatorAt("resolve")
    /\ SettleJob(operator.verdict)
    /\ order' = IF operator.verdict = "SUCCESS" THEN "DELIVERED" ELSE order
    /\ operator' = IdleOperator
    /\ UNCHANGED <<ledger, queues, outside, run, audit, verdicts>>

\* leaves the order alone, and for the same reason the ledger
ResolveManualReview ==
    /\ Intervene /\ review # "none"
    /\ review' = "RESOLVED"
    /\ \E outcome \in Outcomes : SettleJob(outcome)
    /\ UNCHANGED <<settled, dlq, outside, run, audit, operator>>

\* REFUNDED leaves the job and the order alone
ResolveDeadLetter ==
    /\ Intervene /\ dlq.status # "none"
    /\ dlq' = [dlq EXCEPT !.status = "RESOLVED"]
    /\ \/ \E verdict \in Outcomes : OperatorGoes("settleJob", verdict)
       \/ UNCHANGED operator
    /\ UNCHANGED <<job, settled, review, outside, run, audit>>

DeadLetterSettlesJob ==
    /\ OperatorAt("settleJob")
    /\ SettleJob(IF operator.verdict = "SUCCESS" THEN "SUCCESS" ELSE "FAILED_FINAL")
    /\ OperatorGoes("settleOrder", operator.verdict)
    /\ UNCHANGED <<settled, queues, outside, run, audit, verdicts>>

DeadLetterSettlesOrder ==
    /\ OperatorAt("settleOrder")
    /\ order' = IF operator.verdict = "SUCCESS" THEN "DELIVERED" ELSE "FAILED_FINAL"
    /\ operator' = IdleOperator
    /\ UNCHANGED <<job, ledger, queues, outside, run, audit, verdicts>>

Replayable ==
    /\ dlq.replays < MaxReplays
    /\ dlq.status \in {"PENDING", "RESOLVED"}

ReplayJob ==
    /\ dlq' = [dlq EXCEPT !.status = "INVESTIGATING", !.replays = @ + 1]
    /\ job' = [job EXCEPT !.status = "PENDING", !.attempt = 0]
    /\ ledger' = IF ledger = "none" THEN ledger ELSE "UNKNOWN"

\* no caller of moveToDeadLetterQueue allows it, so this is a refusal
ReplayDeadLetter ==
    /\ Intervene /\ dlq.status # "none"
    /\ IF dlq.canReplay /\ Replayable
       THEN ReplayJob
       ELSE UNCHANGED <<dlq, job, ledger>>
    /\ UNCHANGED <<order, review, outside, run, audit, operator>>

ArchiveDeadLetter ==
    /\ dlq.status = "RESOLVED"
    /\ dlq' = [dlq EXCEPT !.status = "ARCHIVED"]
    /\ UNCHANGED <<job, settled, review, outside, run, audit, operator, verdicts>>

-----------------------------------------------------------------------------
(* The world.                                                              *)

NextAttemptComes ==
    /\ job.next = "ahead"
    /\ job' = [job EXCEPT !.next = "past"]
    /\ UNCHANGED <<settled, queues, outside, run, audit, operator, verdicts>>

TimePasses ==
    /\ stage = "MANUAL_PENDING"
    /\ stage' = "MANUAL_FINAL"
    /\ UNCHANGED <<job, settled, queues, truth, mayCrash, run, audit, operator, verdicts>>

ProviderFinishes ==
    /\ truth = "PENDING"
    /\ truth' \in Outcomes
    /\ UNCHANGED <<job, settled, queues, stage, mayCrash, run, audit, operator, verdicts>>

ProcessDies ==
    /\ mayCrash
    /\ \/ \E r \in Runs : run[r] # IdleRun /\ End(r) /\ UNCHANGED <<audit, operator>>
       \/ audit # "idle" /\ audit' = "idle" /\ UNCHANGED <<run, operator>>
       \/ operator.pc # "idle" /\ operator' = IdleOperator /\ UNCHANGED <<run, audit>>
    /\ UNCHANGED <<job, settled, queues, outside, verdicts>>

RecoveryNext ==
    \/ \E r \in Runs : Reconcile(r)
    \/ AuditReads \/ AuditBuries \/ AuditMarks
    \/ DecideUnknown \/ ForceEscalate \/ ResolveUnknown \/ ResolveManualReview
    \/ ResolveDeadLetter \/ DeadLetterSettlesJob \/ DeadLetterSettlesOrder
    \/ ReplayDeadLetter \/ ArchiveDeadLetter
    \/ NextAttemptComes \/ TimePasses \/ ProviderFinishes \/ ProcessDies

RecoverySpec == RecoveryInit /\ [][RecoveryNext]_recoveryVars

\* The cron is called again and again, and time passes.
RecoveryFairness == WF_recoveryVars(TimePasses) /\ \A r \in Runs : WF_recoveryVars(Reconcile(r))

RecoveryFairSpec == RecoverySpec /\ RecoveryFairness

-----------------------------------------------------------------------------
(* Properties.                                                             *)

\* An order is never delivered by the recovery on a guess: the provider did
\* deliver, or an operator has intervened.
DeliveredOnEvidence ==
    order = "DELIVERED" => truth = "SUCCESS" \/ verdicts > 0

\* in getPendingDLQEntries, or taken out of it by an operator's call
LetterStands == dlq.status = "PENDING" \/ (dlq.status # "none" /\ verdicts > 0)

\* Whoever crashes where, and whatever runs overlap: a job put aside for review
\* is in the PENDING list the reviewer reads, and one put aside as a dead letter
\* in the PENDING list of dead letters until an operator has intervened.  (An
\* operator who resolves the letter between the two writes of
\* moveToDeadLetterQueue does leave a DEAD_LETTER job behind a closed letter.)
EscalatedIsListed ==
    /\ job.status = "DEAD_LETTER" => LetterStands
    /\ job.status = "MANUAL_REVIEW" => review = "PENDING"

\* "Ensures UNKNOWN_EXTERNAL_STATE never remains infinite": as long as no
\* process dies, a job does not stay unknown for ever.  As written it does, for
\* the cron throws before it reaches the reconciler that escalates.
UnknownIsNotForever == (job.status = Unknown /\ ~mayCrash) ~> job.status # Unknown
=============================================================================
