--------------------------- MODULE Recovery_proofs ---------------------------
(***************************************************************************)
(* Proofs about Recovery, for any number of overlapping reconciliation     *)
(* runs and any limits.  The rows are written by id on what was read       *)
(* before, so the invariant says what each process in flight may still     *)
(* rely on: an answer of the provider stays true, a dead letter is open    *)
(* until an operator closes it, and nobody closes the review row of a job  *)
(* that is about to be put up for review.                                  *)
(***************************************************************************)
EXTENDS Recovery, TLAPS

JobStates == {Unknown, "SUCCESS", "FAILED", "FAILED_FINAL", "MANUAL_REVIEW",
              "DEAD_LETTER", "PENDING"}
JobRows(A) == [status : JobStates, attempt : A, next : {"null", "ahead", "past"}]
DeadLetters(R) == [status : {"none", "PENDING", "INVESTIGATING", "RESOLVED", "ARCHIVED"},
                   canReplay : BOOLEAN, replays : R]
RunSteps == {"idle", "ask", "settle", "escalate", "bury", "mark"}
RunRows(A) == [pc : RunSteps, attempt : A, answer : Answers]
OperatorRows == [pc : {"idle", "escalate", "resolve", "settleJob", "settleOrder"},
                 verdict : Outcomes]

JobType == job \in JobRows(0..MaxAttempts)
RunType == run \in [Runs -> RunRows(0..MaxAttempts)]
QueueType == review \in {"none", "PENDING", "RESOLVED"} /\ dlq \in DeadLetters(0..MaxReplays)
SettledType ==
    /\ ledger \in {"none", "AMBIGUOUS", "UNKNOWN"} \cup Outcomes
    /\ order \in {"PROCESSING", "DELIVERED", "FAILED_FINAL"}
OutsideType ==
    /\ stage \in Stages
    /\ truth \in {"PENDING"} \cup Outcomes
    /\ mayCrash \in BOOLEAN
AuditType == audit \in {"idle", "bury", "mark"}
OperatorType == operator \in OperatorRows
VerdictType == verdicts \in 0..MaxVerdicts

Types ==
    /\ JobType /\ RunType /\ QueueType /\ SettledType
    /\ OutsideType /\ AuditType /\ OperatorType /\ VerdictType

\* what a run read before it asked
AttemptsLeft == \A r \in Runs : run[r].pc \in {"ask", "settle"} => run[r].attempt < MaxAttempts
AnswersTrue == \A r \in Runs : run[r].answer = "SUCCESS" => truth = "SUCCESS"
OperatorCalled == operator.pc # "idle" => verdicts > 0
LetterWritten ==
    /\ \A r \in Runs : run[r].pc = "mark" => LetterStands
    /\ audit = "mark" => LetterStands
ReviewWritten == operator.pc = "escalate" => review = "PENDING"

IInv ==
    /\ Types
    /\ AttemptsLeft /\ AnswersTrue /\ OperatorCalled /\ LetterWritten /\ ReviewWritten
    /\ DeliveredOnEvidence /\ EscalatedIsListed

USE RecoveryAssumption DEF LetterStands

-----------------------------------------------------------------------------
(* Lemmas about the rows; the ranges of the counters are parameters, for   *)
(* none of these facts depends on them.                                    *)

LEMMA TypesAreTypeOK == Types <=> RecoveryTypeOK
  BY DEF Types, JobType, RunType, QueueType, SettledType, OutsideType, AuditType,
     OperatorType, VerdictType, RecoveryTypeOK, JobRows, JobStates, RunRows, RunSteps,
     DeadLetters, OperatorRows

LEMMA StatusOfJob ==
    ASSUME NEW A, NEW j \in JobRows(A), NEW s \in JobStates
    PROVE  /\ [j EXCEPT !.status = s] \in JobRows(A)
           /\ [j EXCEPT !.status = s].status = s
  BY DEF JobRows

\* SettleJob writes a status and nothing else.
LEMMA SettleJobEffect ==
    ASSUME NEW s \in JobStates, JobType, SettleJob(s)
    PROVE  JobType' /\ job'.status = s
  BY StatusOfJob DEF JobType, SettleJob

LEMMA RowOfRuns ==
    ASSUME NEW A, NEW f \in [Runs -> RunRows(A)], NEW r \in Runs, NEW row \in RunRows(A)
    PROVE  /\ [f EXCEPT ![r] = row] \in [Runs -> RunRows(A)]
           /\ [f EXCEPT ![r] = row][r] = row
           /\ \A q \in Runs : q # r => [f EXCEPT ![r] = row][q] = f[q]
  OBVIOUS

\* RunGoes and End forget what the run had read.
LEMMA RunGoesEffect ==
    ASSUME NEW r \in Runs, NEW pc \in RunSteps, RunType,
           run' = [run EXCEPT ![r] = [IdleRun EXCEPT !.pc = pc]]
    PROVE  /\ RunType'
           /\ run'[r].pc = pc /\ run'[r].answer = "STILL_AMBIGUOUS"
           /\ \A q \in Runs : q # r => run'[q] = run[q]
<1> DEFINE row == [IdleRun EXCEPT !.pc = pc]
<1>1. row = [pc |-> pc, attempt |-> 0, answer |-> "STILL_AMBIGUOUS"]
  BY DEF IdleRun
<1>2. 0 \in 0..MaxAttempts
  OBVIOUS
<1>3. row \in RunRows(0..MaxAttempts)
  BY <1>1, <1>2 DEF RunRows, Answers
<1>. QED  BY <1>1, <1>3, RowOfRuns DEF RunType

LEMMA EndEffect ==
    ASSUME NEW r \in Runs, RunType, End(r)
    PROVE  /\ RunType'
           /\ run'[r].pc = "idle" /\ run'[r].answer = "STILL_AMBIGUOUS"
           /\ \A q \in Runs : q # r => run'[q] = run[q]
<1>1. IdleRun = [IdleRun EXCEPT !.pc = "idle"]
  BY DEF IdleRun
<1>2. "idle" \in RunSteps
  BY DEF RunSteps
<1>. QED  BY <1>1, <1>2, RunGoesEffect DEF End

-----------------------------------------------------------------------------
(* The initial states.                                                     *)

LEMMA InitEstablishes == RecoveryInit => IInv
<1> SUFFICES ASSUME RecoveryInit PROVE IInv
  OBVIOUS
<1> USE DEF RecoveryInit
<1>1. 0 \in 0..MaxAttempts /\ 0 \in 0..MaxReplays /\ 0 \in 0..MaxVerdicts
  OBVIOUS
<1>2. JobType
  BY <1>1 DEF JobType, JobRows, JobStates
<1>3. IdleRun \in RunRows(0..MaxAttempts)
  BY <1>1 DEF IdleRun, RunRows, RunSteps, Answers
<1>4. RunType
  BY <1>3 DEF RunType
<1>5. QueueType
  BY <1>1 DEF QueueType, DeadLetters
<1>6. SettledType /\ OutsideType /\ AuditType /\ OperatorType /\ VerdictType
  BY <1>1 DEF SettledType, OutsideType, AuditType, OperatorType, VerdictType,
     OperatorRows, IdleOperator, Outcomes, Stages
<1>7. AttemptsLeft /\ AnswersTrue /\ OperatorCalled /\ LetterWritten /\ ReviewWritten
  BY DEF AttemptsLeft, AnswersTrue, OperatorCalled, LetterWritten, ReviewWritten,
     IdleRun, IdleOperator
<1>8. DeliveredOnEvidence /\ EscalatedIsListed
  BY DEF DeliveredOnEvidence, EscalatedIsListed, Unknown
<1>. QED  BY <1>2, <1>4, <1>5, <1>6, <1>7, <1>8 DEF IInv, Types

-----------------------------------------------------------------------------
(* Steps of a reconciliation run.                                          *)

\* What a step of a run has to show when it touches the run's own row only.
LEMMA RunStepPreserves ==
    ASSUME IInv, NEW r \in Runs, RunType',
           \A q \in Runs : q # r => run'[q] = run[q],
           run'[r].pc \in {"ask", "settle"} => run'[r].attempt < MaxAttempts,
           run'[r].answer = "SUCCESS" => truth = "SUCCESS",
           run'[r].pc = "mark" => LetterStands,
           UNCHANGED <<job, settled, queues, outside, audit, operator, verdicts>>
    PROVE  IInv'
<1> USE DEF IInv, settled, queues, outside
<1>1. Types'
  BY DEF Types, JobType, QueueType, SettledType, OutsideType, AuditType, OperatorType,
     VerdictType
<1>2. AttemptsLeft'
  BY DEF AttemptsLeft
<1>3. AnswersTrue'
  BY DEF AnswersTrue
<1>4. LetterWritten'
  BY DEF LetterWritten, LetterStands
<1>5. OperatorCalled' /\ ReviewWritten' /\ DeliveredOnEvidence' /\ EscalatedIsListed'
  BY DEF OperatorCalled, ReviewWritten, DeliveredOnEvidence, EscalatedIsListed, LetterStands
<1>. QED  BY <1>1, <1>2, <1>3, <1>4, <1>5

LEMMA GetJobsReadyPreserves ==
    ASSUME IInv, NEW r \in Runs, GetJobsReady(r)
    PROVE  IInv'
<1>1. CASE /\ job.attempt < MaxAttempts
           /\ run' = [run EXCEPT ![r].pc = "ask", ![r].attempt = job.attempt]
  <2>1. job.attempt \in 0..MaxAttempts
    BY DEF IInv, Types, JobType, JobRows
  <2>2. run[r] \in RunRows(0..MaxAttempts)
    BY DEF IInv, Types, RunType
  <2> DEFINE row == [run[r] EXCEPT !.pc = "ask", !.attempt = job.attempt]
  <2>3. /\ row \in RunRows(0..MaxAttempts)
        /\ row.pc = "ask" /\ row.attempt = job.attempt /\ row.answer = run[r].answer
    BY <2>1, <2>2 DEF RunRows, RunSteps
  <2>4. run' = [run EXCEPT ![r] = row]
    BY <1>1
  <2> HIDE DEF row
  <2>5. RunType' /\ run'[r] = row /\ \A q \in Runs : q # r => run'[q] = run[q]
    BY <2>3, <2>4, RowOfRuns DEF IInv, Types, RunType
  <2>6. row.answer = "SUCCESS" => truth = "SUCCESS"
    BY <2>3 DEF IInv, AnswersTrue
  <2>. QED  BY <1>1, <2>3, <2>5, <2>6, RunStepPreserves DEF GetJobsReady
<1>2. CASE RunGoes(r, "escalate")
  BY <1>2, RunGoesEffect, RunStepPreserves DEF RunGoes, GetJobsReady, IInv, Types, RunSteps
<1>. QED  BY <1>1, <1>2 DEF GetJobsReady

\* The answer is what has happened or STILL_AMBIGUOUS, and what has happened
\* does not change any more.
LEMMA ReconcileLedgerEntryPreserves ==
    ASSUME IInv, NEW r \in Runs, ReconcileLedgerEntry(r)
    PROVE  IInv'
<1>1. PICK answer \in {truth, "STILL_AMBIGUOUS"} \cap Answers :
          run' = [run EXCEPT ![r].pc = "settle", ![r].answer = answer]
  BY DEF ReconcileLedgerEntry
<1>2. run[r] \in RunRows(0..MaxAttempts) /\ run[r].pc = "ask"
  BY DEF IInv, Types, RunType, ReconcileLedgerEntry, RunAt
<1> DEFINE row == [run[r] EXCEPT !.pc = "settle", !.answer = answer]
<1>3. /\ row \in RunRows(0..MaxAttempts)
      /\ row.pc = "settle" /\ row.attempt = run[r].attempt /\ row.answer = answer
  BY <1>2 DEF RunRows, RunSteps
<1>4. run' = [run EXCEPT ![r] = row]
  BY <1>1
<1> HIDE DEF row
<1>5. RunType' /\ run'[r] = row /\ \A q \in Runs : q # r => run'[q] = run[q]
  BY <1>3, <1>4, RowOfRuns DEF IInv, Types, RunType
<1>6. run[r].attempt < MaxAttempts
  BY <1>2 DEF IInv, AttemptsLeft
<1>7. answer = "SUCCESS" => truth = "SUCCESS"
  OBVIOUS
<1>. QED  BY <1>3, <1>5, <1>6, <1>7, RunStepPreserves DEF ReconcileLedgerEntry

\* A settled job waits for nobody; the order is delivered on the answer.
LEMMA ResolvePreserves ==
    ASSUME IInv, NEW r \in Runs, Resolve(r)
    PROVE  IInv'
<1> USE DEF Resolve, queues, outside
<1>1. /\ RunType' /\ run'[r].pc = "escalate" /\ run'[r].answer = "STILL_AMBIGUOUS"
      /\ \A q \in Runs : q # r => run'[q] = run[q]
  BY RunGoesEffect DEF RunGoes, IInv, Types, RunSteps
<1>2. run[r].answer \in {"SUCCESS", "FAILED"}
  BY DEF Outcomes
<1>3. JobType' /\ job'.status = run[r].answer
  BY <1>2, SettleJobEffect DEF IInv, Types, JobStates
<1>4. SettledType'
  BY <1>2 DEF IInv, Types, SettledType, Outcomes
<1>5. Types'
  BY <1>1, <1>3, <1>4 DEF IInv, Types, QueueType, OutsideType, AuditType, OperatorType,
     VerdictType
<1>6. AttemptsLeft' /\ AnswersTrue' /\ LetterWritten'
  BY <1>1 DEF IInv, AttemptsLeft, AnswersTrue, LetterWritten
<1>7. OperatorCalled' /\ ReviewWritten'
  BY DEF IInv, OperatorCalled, ReviewWritten
<1>8. DeliveredOnEvidence'
  BY DEF IInv, AnswersTrue, DeliveredOnEvidence
<1>9. EscalatedIsListed'
  BY <1>2, <1>3 DEF EscalatedIsListed
<1>. QED  BY <1>5, <1>6, <1>7, <1>8, <1>9 DEF IInv

LEMMA ScheduleNextAttemptPreserves ==
    ASSUME IInv, NEW r \in Runs, ScheduleNextAttempt(r)
    PROVE  IInv'
<1> USE DEF ScheduleNextAttempt, queues, outside, settled
<1>1. /\ RunType' /\ run'[r].pc = "escalate" /\ run'[r].answer = "STILL_AMBIGUOUS"
      /\ \A q \in Runs : q # r => run'[q] = run[q]
  BY RunGoesEffect DEF RunGoes, IInv, Types, RunSteps
<1>2. run[r].attempt \in 0..MaxAttempts /\ run[r].attempt < MaxAttempts
  BY DEF IInv, Types, RunType, RunRows, AttemptsLeft, RunAt
<1>3. run[r].attempt + 1 \in 0..MaxAttempts
  BY <1>2
<1>4. JobType' /\ job'.status = job.status
  <2> DEFINE A == 0..MaxAttempts
             n == run[r].attempt + 1
  <2>1. n \in A /\ job \in JobRows(A) /\ job' = [job EXCEPT !.attempt = n, !.next = "ahead"]
    BY <1>3 DEF IInv, Types, JobType
  <2> HIDE DEF A, n
  <2>2. job' \in JobRows(A) /\ job'.status = job.status
    BY <2>1 DEF JobRows
  <2>. QED  BY <2>2 DEF A, JobType
<1>5. Types'
  BY <1>1, <1>4 DEF IInv, Types, QueueType, SettledType, OutsideType, AuditType,
     OperatorType, VerdictType
<1>6. AttemptsLeft' /\ AnswersTrue' /\ LetterWritten'
  BY <1>1 DEF IInv, AttemptsLeft, AnswersTrue, LetterWritten
<1>7. OperatorCalled' /\ ReviewWritten' /\ DeliveredOnEvidence'
  BY DEF IInv, OperatorCalled, ReviewWritten, DeliveredOnEvidence
<1>8. EscalatedIsListed'
  BY <1>4 DEF IInv, EscalatedIsListed
<1>. QED  BY <1>5, <1>6, <1>7, <1>8 DEF IInv

LEMMA ProcessEscalationPreserves ==
    ASSUME IInv, NEW r \in Runs, ProcessEscalation(r)
    PROVE  IInv'
<1>1. CASE RunGoes(r, "bury")
  BY <1>1, RunGoesEffect, RunStepPreserves DEF RunGoes, ProcessEscalation, IInv, Types, RunSteps
<1>2. CASE End(r)
  BY <1>2, EndEffect, RunStepPreserves DEF ProcessEscalation, IInv, Types
<1>. QED  BY <1>1, <1>2 DEF ProcessEscalation

\* A new dead letter has a type, and is there.
LEMMA CreateDeadLetterEffect ==
    ASSUME QueueType, CreateDeadLetter
    PROVE  QueueType' /\ dlq'.status = "PENDING"
<1> DEFINE R == 0..MaxReplays
<1>1. 0 \in R
  OBVIOUS
<1> HIDE DEF R
<1>2. NewDeadLetter \in DeadLetters(R) /\ NewDeadLetter.status = "PENDING"
  BY <1>1 DEF NewDeadLetter, DeadLetters
<1>. QED  BY <1>2 DEF R, QueueType, CreateDeadLetter

\* The row before the job: whoever marks the job has seen the row written.
LEMMA BuryPreserves ==
    ASSUME IInv, NEW r \in Runs, Bury(r)
    PROVE  IInv'
<1>1. CASE CreateDeadLetter /\ RunGoes(r, "mark")
  <2>1. QueueType' /\ LetterStands'
    BY <1>1, CreateDeadLetterEffect DEF IInv, Types, LetterStands
  <2>2. /\ RunType' /\ run'[r].pc = "mark" /\ run'[r].answer = "STILL_AMBIGUOUS"
        /\ \A q \in Runs : q # r => run'[q] = run[q]
    BY <1>1, RunGoesEffect DEF RunGoes, IInv, Types, RunSteps
  <2>3. Types'
    BY <1>1, <2>1, <2>2 DEF Bury, CreateDeadLetter, settled, outside, IInv, Types, JobType,
       SettledType, OutsideType, AuditType, OperatorType, VerdictType
  <2>4. AttemptsLeft' /\ AnswersTrue' /\ LetterWritten'
    BY <2>1, <2>2 DEF Bury, outside, IInv, AttemptsLeft, AnswersTrue, LetterWritten
  <2>5. OperatorCalled' /\ ReviewWritten' /\ DeliveredOnEvidence' /\ EscalatedIsListed'
    BY <1>1, <2>1 DEF Bury, CreateDeadLetter, settled, outside, IInv, OperatorCalled,
       ReviewWritten, DeliveredOnEvidence, EscalatedIsListed
  <2>. QED  BY <2>3, <2>4, <2>5 DEF IInv
<1>2. CASE DeadLetterExists /\ End(r)
  BY <1>2, EndEffect, RunStepPreserves DEF Bury, DeadLetterExists, queues, IInv, Types
<1>. QED  BY <1>1, <1>2 DEF Bury

LEMMA MarkBuriedPreserves ==
    ASSUME IInv, NEW r \in Runs, MarkBuried(r)
    PROVE  IInv'
<1> USE DEF MarkBuried, MarkDeadLetter, queues, outside, settled
<1>1. /\ RunType' /\ run'[r].pc = "idle" /\ run'[r].answer = "STILL_AMBIGUOUS"
      /\ \A q \in Runs : q # r => run'[q] = run[q]
  BY EndEffect DEF IInv, Types
<1>2. JobType' /\ job'.status = "DEAD_LETTER"
  BY SettleJobEffect DEF IInv, Types, JobStates
<1>3. LetterStands
  BY DEF RunAt, IInv, LetterWritten
<1>4. Types'
  BY <1>1, <1>2 DEF IInv, Types, QueueType, SettledType, OutsideType, AuditType,
     OperatorType, VerdictType
<1>5. AttemptsLeft' /\ AnswersTrue' /\ LetterWritten'
  BY <1>1 DEF IInv, AttemptsLeft, AnswersTrue, LetterWritten
<1>6. OperatorCalled' /\ ReviewWritten' /\ DeliveredOnEvidence'
  BY DEF IInv, OperatorCalled, ReviewWritten, DeliveredOnEvidence
<1>7. EscalatedIsListed'
  BY <1>2, <1>3 DEF EscalatedIsListed
<1>. QED  BY <1>4, <1>5, <1>6, <1>7 DEF IInv

-----------------------------------------------------------------------------
(* The consistency check and the operators, which leave the runs alone.    *)

\* With the runs and the truth as they were, what is left to show.
LEMMA OtherStepPreserves ==
    ASSUME IInv, run' = run, truth' = truth, stage' = stage, mayCrash' = mayCrash,
           JobType', QueueType', SettledType', AuditType', OperatorType', VerdictType',
           LetterStands => LetterStands',
           audit' = "mark" => LetterStands',
           OperatorCalled', ReviewWritten', DeliveredOnEvidence', EscalatedIsListed'
    PROVE  IInv'
<1>1. Types'
  BY DEF IInv, Types, RunType, OutsideType
<1>2. AttemptsLeft' /\ AnswersTrue' /\ LetterWritten'
  BY DEF IInv, AttemptsLeft, AnswersTrue, LetterWritten
<1>. QED  BY <1>1, <1>2 DEF IInv

LEMMA AuditReadsPreserves == ASSUME IInv, AuditReads PROVE IInv'
  BY OtherStepPreserves DEF AuditReads, IInv, Types, JobType, QueueType, SettledType, AuditType,
     OperatorType, VerdictType, OperatorCalled, ReviewWritten, DeliveredOnEvidence,
     EscalatedIsListed, settled, queues, outside

LEMMA AuditBuriesPreserves ==
    ASSUME IInv, AuditBuries
    PROVE  IInv'
<1> USE DEF AuditBuries, settled, outside
<1>1. CASE CreateDeadLetter /\ audit' = "mark"
  <2>1. QueueType' /\ LetterStands'
    BY <1>1, CreateDeadLetterEffect DEF IInv, Types, LetterStands
  <2>2. JobType' /\ SettledType' /\ AuditType' /\ OperatorType' /\ VerdictType'
    BY <1>1 DEF CreateDeadLetter, IInv, Types, JobType, SettledType, AuditType, OperatorType,
       VerdictType
  <2>3. OperatorCalled' /\ ReviewWritten' /\ DeliveredOnEvidence' /\ EscalatedIsListed'
    BY <1>1, <2>1 DEF CreateDeadLetter, IInv, OperatorCalled, ReviewWritten,
       DeliveredOnEvidence, EscalatedIsListed
  <2>. QED  BY <2>1, <2>2, <2>3, OtherStepPreserves
<1>2. CASE DeadLetterExists /\ audit' = "idle"
  BY <1>2, OtherStepPreserves DEF DeadLetterExists, IInv, Types, JobType, QueueType,
     SettledType, AuditType, OperatorType, VerdictType, OperatorCalled, ReviewWritten,
     DeliveredOnEvidence, EscalatedIsListed, queues
<1>. QED  BY <1>1, <1>2

LEMMA AuditMarksPreserves ==
    ASSUME IInv, AuditMarks
    PROVE  IInv'
<1> USE DEF AuditMarks, MarkDeadLetter, settled, outside, queues
<1>1. JobType' /\ job'.status = "DEAD_LETTER"
  BY SettleJobEffect DEF IInv, Types, JobStates
<1>2. QueueType' /\ SettledType' /\ AuditType' /\ OperatorType' /\ VerdictType'
  BY DEF IInv, Types, QueueType, SettledType, AuditType, OperatorType, VerdictType
<1>3. LetterStands
  BY DEF IInv, LetterWritten
<1>4. OperatorCalled' /\ ReviewWritten' /\ DeliveredOnEvidence' /\ EscalatedIsListed'
  BY <1>1, <1>3 DEF IInv, OperatorCalled, ReviewWritten, DeliveredOnEvidence, EscalatedIsListed
<1>. QED  BY <1>1, <1>2, <1>3, <1>4, OtherStepPreserves

\* An intervention is counted, and stays counted.
LEMMA InterveneEffect ==
    ASSUME VerdictType, Intervene
    PROVE  VerdictType' /\ verdicts' > 0
  BY DEF VerdictType, Intervene

LEMMA OperatorGoesEffect ==
    ASSUME NEW pc \in {"idle", "escalate", "resolve", "settleJob", "settleOrder"},
           NEW verdict \in Outcomes, OperatorGoes(pc, verdict)
    PROVE  OperatorType' /\ operator'.pc = pc
  BY DEF OperatorGoes, OperatorType, OperatorRows

LEMMA OperatorIdleEffect ==
    ASSUME operator' = IdleOperator
    PROVE  OperatorType' /\ operator'.pc = "idle"
  BY DEF IdleOperator, OperatorType, OperatorRows, Outcomes

LEMMA DecideUnknownPreserves ==
    ASSUME IInv, DecideUnknown
    PROVE  IInv'
<1> USE DEF DecideUnknown, settled, outside
<1>1. VerdictType' /\ verdicts' > 0
  BY InterveneEffect DEF IInv, Types
<1>2. OperatorType' /\ operator'.pc \in {"resolve", "escalate"}
  BY OperatorGoesEffect DEF Outcomes
<1>3. review' = "PENDING" \/ (review' = review /\ operator'.pc = "resolve")
  BY OperatorGoesEffect DEF Outcomes
<1>4. JobType' /\ SettledType' /\ AuditType'
  BY DEF IInv, Types, JobType, SettledType, AuditType
<1>5. QueueType'
  BY DEF IInv, Types, QueueType
<1>6. OperatorCalled' /\ ReviewWritten' /\ DeliveredOnEvidence'
  BY <1>1, <1>2, <1>3 DEF OperatorCalled, ReviewWritten, DeliveredOnEvidence
<1>7. EscalatedIsListed'
  BY DEF EscalatedIsListed, Unknown
<1>. QED  BY <1>1, <1>2, <1>4, <1>5, <1>6, <1>7, OtherStepPreserves DEF IInv, LetterWritten

LEMMA ForceEscalatePreserves ==
    ASSUME IInv, ForceEscalate
    PROVE  IInv'
<1> USE DEF ForceEscalate, settled, outside, queues
<1>1. JobType' /\ job'.status = "MANUAL_REVIEW"
  BY SettleJobEffect DEF IInv, Types, JobStates
<1>2. OperatorType' /\ operator'.pc = "idle"
  BY OperatorIdleEffect
<1>3. QueueType' /\ SettledType' /\ AuditType' /\ VerdictType'
  BY DEF IInv, Types, QueueType, SettledType, AuditType, VerdictType
<1>4. review = "PENDING"
  BY DEF IInv, ReviewWritten, OperatorAt
<1>5. OperatorCalled' /\ ReviewWritten' /\ DeliveredOnEvidence' /\ EscalatedIsListed'
  BY <1>1, <1>2, <1>4 DEF IInv, OperatorCalled, ReviewWritten, DeliveredOnEvidence,
     EscalatedIsListed
<1>. QED  BY <1>1, <1>2, <1>3, <1>5, OtherStepPreserves DEF IInv, LetterWritten

LEMMA ResolveUnknownPreserves ==
    ASSUME IInv, ResolveUnknown
    PROVE  IInv'
<1> USE DEF ResolveUnknown, outside, queues
<1>1. operator.verdict \in {"SUCCESS", "FAILED"} /\ verdicts > 0
  BY DEF IInv, Types, OperatorType, OperatorRows, Outcomes, OperatorCalled, OperatorAt
<1>2. JobType' /\ job'.status = operator.verdict
  BY <1>1, SettleJobEffect DEF IInv, Types, JobStates
<1>3. OperatorType' /\ operator'.pc = "idle"
  BY OperatorIdleEffect
<1>4. QueueType' /\ SettledType' /\ AuditType' /\ VerdictType'
  BY DEF IInv, Types, QueueType, SettledType, AuditType, VerdictType
<1>5. OperatorCalled' /\ ReviewWritten' /\ DeliveredOnEvidence' /\ EscalatedIsListed'
  BY <1>1, <1>2, <1>3 DEF OperatorCalled, ReviewWritten, DeliveredOnEvidence, EscalatedIsListed
<1>. QED  BY <1>2, <1>3, <1>4, <1>5, OtherStepPreserves DEF IInv, LetterWritten

LEMMA ResolveManualReviewPreserves ==
    ASSUME IInv, ResolveManualReview
    PROVE  IInv'
<1> USE DEF ResolveManualReview, outside, settled
<1>1. PICK outcome \in {"SUCCESS", "FAILED"} : SettleJob(outcome)
  BY DEF Outcomes
<1>2. JobType' /\ job'.status = outcome
  BY <1>1, SettleJobEffect DEF IInv, Types, JobStates
<1>3. VerdictType' /\ verdicts' > 0
  BY InterveneEffect DEF IInv, Types
<1>4. QueueType' /\ SettledType' /\ AuditType' /\ OperatorType'
  BY DEF IInv, Types, QueueType, SettledType, AuditType, OperatorType
<1>5. OperatorCalled' /\ ReviewWritten' /\ DeliveredOnEvidence' /\ EscalatedIsListed'
  BY <1>2, <1>3 DEF IInv, Intervene, OperatorCalled, ReviewWritten, DeliveredOnEvidence,
     EscalatedIsListed
<1>. QED  BY <1>2, <1>3, <1>4, <1>5, OtherStepPreserves DEF IInv, LetterWritten

\* What changes of a dead letter once it is there: never that it is there.
LEMMA DeadLetterRow ==
    ASSUME NEW R, NEW d \in DeadLetters(R),
           NEW st \in {"INVESTIGATING", "RESOLVED", "ARCHIVED"}
    PROVE  /\ [d EXCEPT !.status = st] \in DeadLetters(R)
           /\ [d EXCEPT !.status = st].status # "none"
  BY DEF DeadLetters

LEMMA DeadLetterReplay ==
    ASSUME NEW R, NEW d \in DeadLetters(R), NEW n \in R
    PROVE  /\ [d EXCEPT !.status = "INVESTIGATING", !.replays = n] \in DeadLetters(R)
           /\ [d EXCEPT !.status = "INVESTIGATING", !.replays = n].status # "none"
  BY DEF DeadLetters

LEMMA ResolveDeadLetterPreserves ==
    ASSUME IInv, ResolveDeadLetter
    PROVE  IInv'
<1> USE DEF ResolveDeadLetter, settled, outside
<1>1. QueueType' /\ dlq'.status # "none"
  BY DeadLetterRow DEF IInv, Types, QueueType
<1>2. VerdictType' /\ verdicts' > 0
  BY InterveneEffect DEF IInv, Types
<1>3. OperatorType' /\ operator'.pc # "escalate"
  <2>1. CASE \E verdict \in Outcomes : OperatorGoes("settleJob", verdict)
    BY <2>1, OperatorGoesEffect
  <2>2. CASE UNCHANGED operator
    BY <2>2 DEF IInv, Types, OperatorType, Intervene
  <2>. QED  BY <2>1, <2>2
<1>4. JobType' /\ SettledType' /\ AuditType'
  BY DEF IInv, Types, JobType, SettledType, AuditType
<1>5. OperatorCalled' /\ ReviewWritten' /\ DeliveredOnEvidence' /\ EscalatedIsListed'
  BY <1>1, <1>2, <1>3 DEF IInv, OperatorCalled, ReviewWritten, DeliveredOnEvidence,
     EscalatedIsListed
<1>. QED  BY <1>1, <1>2, <1>3, <1>4, <1>5, OtherStepPreserves

LEMMA DeadLetterSettlesJobPreserves ==
    ASSUME IInv, DeadLetterSettlesJob
    PROVE  IInv'
<1> USE DEF DeadLetterSettlesJob, settled, outside, queues
<1>1. operator.verdict \in Outcomes /\ verdicts > 0
  BY DEF IInv, Types, OperatorType, OperatorRows, OperatorCalled, OperatorAt
<1>2. JobType' /\ job'.status \in {"SUCCESS", "FAILED_FINAL"}
  BY SettleJobEffect DEF IInv, Types, JobStates
<1>3. OperatorType' /\ operator'.pc = "settleOrder"
  BY <1>1, OperatorGoesEffect
<1>4. QueueType' /\ SettledType' /\ AuditType' /\ VerdictType'
  BY DEF IInv, Types, QueueType, SettledType, AuditType, VerdictType
<1>5. OperatorCalled' /\ ReviewWritten' /\ DeliveredOnEvidence' /\ EscalatedIsListed'
  BY <1>1, <1>2, <1>3 DEF IInv, OperatorCalled, ReviewWritten, DeliveredOnEvidence,
     EscalatedIsListed
<1>. QED  BY <1>2, <1>3, <1>4, <1>5, OtherStepPreserves DEF IInv, LetterWritten

LEMMA DeadLetterSettlesOrderPreserves ==
    ASSUME IInv, DeadLetterSettlesOrder
    PROVE  IInv'
<1> USE DEF DeadLetterSettlesOrder, outside, queues
<1>1. verdicts > 0
  BY DEF IInv, OperatorCalled, OperatorAt
<1>2. OperatorType' /\ operator'.pc = "idle"
  BY OperatorIdleEffect
<1>3. JobType' /\ QueueType' /\ SettledType' /\ AuditType' /\ VerdictType'
  BY DEF IInv, Types, JobType, QueueType, SettledType, AuditType, VerdictType
<1>4. OperatorCalled' /\ ReviewWritten' /\ DeliveredOnEvidence' /\ EscalatedIsListed'
  BY <1>1, <1>2 DEF IInv, OperatorCalled, ReviewWritten, DeliveredOnEvidence, EscalatedIsListed
<1>. QED  BY <1>2, <1>3, <1>4, OtherStepPreserves DEF IInv, LetterWritten

\* A replayed job waits for nobody.
LEMMA ReplayJobEffect ==
    ASSUME IInv, Replayable, ReplayJob, order' = order, review' = review
    PROVE  /\ JobType' /\ job'.status = "PENDING"
           /\ QueueType' /\ dlq'.status # "none"
           /\ SettledType'
<1>1. JobType' /\ job'.status = "PENDING"
  <2> DEFINE A == 0..MaxAttempts
  <2>1. 0 \in A /\ job \in JobRows(A)
    BY DEF IInv, Types, JobType
  <2> HIDE DEF A
  <2>2. job' \in JobRows(A) /\ job'.status = "PENDING"
    BY <2>1 DEF JobRows, JobStates, ReplayJob
  <2>. QED  BY <2>2 DEF A, JobType
<1>2. dlq.replays \in 0..MaxReplays /\ dlq \in DeadLetters(0..MaxReplays)
  BY DEF IInv, Types, QueueType, DeadLetters
<1>3. dlq.replays + 1 \in 0..MaxReplays
  BY <1>2 DEF Replayable
<1>4. QueueType' /\ dlq'.status # "none"
  BY <1>2, <1>3, DeadLetterReplay DEF IInv, Types, QueueType, ReplayJob
<1>5. SettledType'
  BY DEF IInv, Types, SettledType, ReplayJob
<1>. QED  BY <1>1, <1>4, <1>5

LEMMA ReplayDeadLetterPreserves ==
    ASSUME IInv, ReplayDeadLetter
    PROVE  IInv'
<1> USE DEF ReplayDeadLetter, outside
<1>1. VerdictType' /\ verdicts' > 0
  BY InterveneEffect DEF IInv, Types
<1>2. /\ JobType' /\ QueueType' /\ SettledType'
      /\ dlq'.status # "none"
      /\ job'.status = job.status \/ job'.status = "PENDING"
  <2>1. CASE dlq.canReplay /\ Replayable
    BY <2>1, ReplayJobEffect
  <2>2. CASE UNCHANGED <<dlq, job, ledger>>
    BY <2>2 DEF IInv, Types, JobType, QueueType, SettledType
  <2>. QED  BY <2>1, <2>2
<1>3. OperatorType' /\ AuditType'
  BY DEF IInv, Types, OperatorType, AuditType
<1>4. OperatorCalled' /\ ReviewWritten' /\ DeliveredOnEvidence' /\ EscalatedIsListed'
  BY <1>1, <1>2 DEF IInv, OperatorCalled, ReviewWritten, DeliveredOnEvidence, EscalatedIsListed
<1>. QED  BY <1>1, <1>2, <1>3, <1>4, OtherStepPreserves

LEMMA ArchiveDeadLetterPreserves ==
    ASSUME IInv, ArchiveDeadLetter
    PROVE  IInv'
<1> USE DEF ArchiveDeadLetter, settled, outside
<1>1. QueueType' /\ dlq'.status # "none"
  BY DeadLetterRow DEF IInv, Types, QueueType
<1>2. JobType' /\ SettledType' /\ AuditType' /\ OperatorType' /\ VerdictType'
  BY DEF IInv, Types, JobType, SettledType, AuditType, OperatorType, VerdictType
<1>3. OperatorCalled' /\ ReviewWritten' /\ DeliveredOnEvidence' /\ EscalatedIsListed'
  BY <1>1 DEF IInv, OperatorCalled, ReviewWritten, DeliveredOnEvidence, EscalatedIsListed
<1>4. LetterStands => LetterStands'
  BY <1>1
<1>. QED  BY <1>1, <1>2, <1>3, <1>4, OtherStepPreserves DEF IInv, LetterWritten

-----------------------------------------------------------------------------
(* The world, and the whole.                                               *)

LEMMA NextAttemptComesPreserves ==
    ASSUME IInv, NextAttemptComes
    PROVE  IInv'
<1> USE DEF NextAttemptComes, settled, outside, queues
<1>1. JobType' /\ job'.status = job.status
  <2> DEFINE A == 0..MaxAttempts
  <2>1. job \in JobRows(A)
    BY DEF IInv, Types, JobType
  <2> HIDE DEF A
  <2>2. job' \in JobRows(A) /\ job'.status = job.status
    BY <2>1 DEF JobRows
  <2>. QED  BY <2>2 DEF A, JobType
<1>2. QueueType' /\ SettledType' /\ AuditType' /\ OperatorType' /\ VerdictType'
  BY DEF IInv, Types, QueueType, SettledType, AuditType, OperatorType, VerdictType
<1>3. OperatorCalled' /\ ReviewWritten' /\ DeliveredOnEvidence' /\ EscalatedIsListed'
  BY <1>1 DEF IInv, OperatorCalled, ReviewWritten, DeliveredOnEvidence, EscalatedIsListed
<1>. QED  BY <1>1, <1>2, <1>3, OtherStepPreserves DEF IInv, LetterWritten

\* What has happened at the provider does not change any more.
LEMMA WorldPreserves ==
    ASSUME IInv, TimePasses \/ ProviderFinishes
    PROVE  IInv'
<1> USE DEF TimePasses, ProviderFinishes, settled, queues
<1>1. /\ UNCHANGED <<job, settled, queues, run, audit, operator, verdicts>>
      /\ truth' = truth \/ truth = "PENDING"
  OBVIOUS
<1>2. OutsideType'
  BY DEF IInv, Types, OutsideType, Stages
<1>3. Types'
  BY <1>1, <1>2 DEF IInv, Types, JobType, RunType, QueueType, SettledType, AuditType,
     OperatorType, VerdictType
<1>4. AttemptsLeft' /\ AnswersTrue' /\ OperatorCalled' /\ LetterWritten' /\ ReviewWritten'
  BY <1>1 DEF IInv, AttemptsLeft, AnswersTrue, OperatorCalled, LetterWritten, ReviewWritten
<1>5. DeliveredOnEvidence' /\ EscalatedIsListed'
  BY <1>1 DEF IInv, DeliveredOnEvidence, EscalatedIsListed
<1>. QED  BY <1>3, <1>4, <1>5 DEF IInv

\* A process that dies forgets; the rows stay as they are.
LEMMA CrashPreserves ==
    ASSUME IInv, ProcessDies
    PROVE  IInv'
<1>1. CASE \E r \in Runs : End(r) /\ UNCHANGED <<audit, operator>>
  BY <1>1, EndEffect, RunStepPreserves DEF ProcessDies, IInv, Types
<1>2. CASE audit' = "idle" /\ UNCHANGED <<run, operator>>
  BY <1>2, OtherStepPreserves DEF ProcessDies, settled, queues, outside, IInv, Types, JobType,
     QueueType, SettledType, AuditType, OperatorType, VerdictType, OperatorCalled,
     ReviewWritten, DeliveredOnEvidence, EscalatedIsListed
<1>3. CASE operator' = IdleOperator /\ UNCHANGED <<run, audit>>
  <2>1. OperatorType' /\ operator'.pc = "idle"
    BY <1>3, OperatorIdleEffect
  <2>2. OperatorCalled' /\ ReviewWritten'
    BY <2>1 DEF OperatorCalled, ReviewWritten
  <2>. QED  BY <1>3, <2>1, <2>2, OtherStepPreserves DEF ProcessDies, settled, queues, outside, IInv,
     Types, JobType, QueueType, SettledType, AuditType, VerdictType, LetterWritten,
     DeliveredOnEvidence, EscalatedIsListed
<1>. QED  BY <1>1, <1>2, <1>3 DEF ProcessDies

LEMMA NextPreserves == IInv /\ [RecoveryNext]_recoveryVars => IInv'
<1> SUFFICES ASSUME IInv, [RecoveryNext]_recoveryVars PROVE IInv'
  OBVIOUS
<1>1. CASE UNCHANGED recoveryVars
  BY <1>1, OtherStepPreserves DEF recoveryVars, settled, queues, outside, IInv, Types, JobType,
     QueueType, SettledType, AuditType, OperatorType, VerdictType, OperatorCalled,
     LetterWritten, ReviewWritten, DeliveredOnEvidence, EscalatedIsListed
<1>2. ASSUME NEW r \in Runs, Reconcile(r) PROVE IInv'
  BY <1>2, GetJobsReadyPreserves, ReconcileLedgerEntryPreserves, ResolvePreserves,
     ScheduleNextAttemptPreserves, ProcessEscalationPreserves, BuryPreserves,
     MarkBuriedPreserves DEF Reconcile
<1>3. CASE RecoveryNext
  BY <1>2, <1>3, AuditReadsPreserves, AuditBuriesPreserves, AuditMarksPreserves,
     DecideUnknownPreserves, ForceEscalatePreserves, ResolveUnknownPreserves,
     ResolveManualReviewPreserves, ResolveDeadLetterPreserves, DeadLetterSettlesJobPreserves,
     DeadLetterSettlesOrderPreserves, ReplayDeadLetterPreserves, ArchiveDeadLetterPreserves,
     NextAttemptComesPreserves, WorldPreserves, CrashPreserves DEF RecoveryNext
<1>. QED  BY <1>1, <1>3

LEMMA Inductive == RecoverySpec => []IInv
  BY InitEstablishes, NextPreserves, PTL DEF RecoverySpec

\* Every row and every process keeps its type; no run raises an attempt past
\* MAX_RECONCILE_ATTEMPTS.
THEOREM RecoveryTypeCorrect == RecoverySpec => []RecoveryTypeOK
<1>1. IInv => RecoveryTypeOK
  BY TypesAreTypeOK DEF IInv
<1>. QED  BY <1>1, Inductive, PTL

\* However many reconciliation runs overlap with the audit and with operators,
\* the recovery never delivers an order on a guess.
THEOREM DeliveryCorrect == RecoverySpec => []DeliveredOnEvidence
<1>1. IInv => DeliveredOnEvidence
  BY DEF IInv
<1>. QED  BY <1>1, Inductive, PTL

\* Whoever dies between which two calls: a job put aside for review is in the
\* reviewer's PENDING list, and a dead letter is PENDING until an operator has
\* intervened.
THEOREM EscalationCorrect == RecoverySpec => []EscalatedIsListed
<1>1. IInv => EscalatedIsListed
  BY DEF IInv
<1>. QED  BY <1>1, Inductive, PTL
=============================================================================
