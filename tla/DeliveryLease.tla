----------------------------- MODULE DeliveryLease -----------------------------
(***************************************************************************)
(* lib/delivery-worker-final.ts: workers claim a DeliveryState row for two *)
(* minutes, fenced by a version, and a scanner frees the rows of workers   *)
(* that died.  transitionState binds the text 'attempt' to an integer      *)
(* column when no attempt is given, so persisting SENDING throws before    *)
(* the provider is called: no row gets beyond IN_PROGRESS.                 *)
(***************************************************************************)
EXTENDS Naturals

CONSTANTS
    Workers,
    NoWorker,    \* null in lockedBy
    LockTerm,    \* LOCK_DURATION_MS in ticks
    MaxVersions  \* bound: versions of the row

ASSUME DeliveryLeaseAssumption ==
    LockTerm \in Nat \ {0} /\ MaxVersions \in Nat /\ NoWorker \notin Workers

VARIABLES
    job,     \* the DeliveryState row
    worker,  \* what each worker knows and does
    paused   \* pauseDispatches of the backpressure row

jobVars == <<job, worker, paused>>

JobTypeOK ==
    /\ job \in [status : {"PENDING", "IN_PROGRESS"}, lockedBy : Workers \cup {NoWorker},
                left : 0..LockTerm, lockVersion : 0..MaxVersions, due : BOOLEAN]
    /\ worker \in [Workers -> [pc : {"idle", "validate", "send", "release"},
                               lockVersion : 0..MaxVersions]]
    /\ paused \in BOOLEAN

JobInit ==
    /\ job = [status |-> "PENDING", lockedBy |-> NoWorker, left |-> 0,
              lockVersion |-> 0, due |-> TRUE]
    /\ worker = [w \in Workers |-> [pc |-> "idle", lockVersion |-> 0]]
    /\ paused \in BOOLEAN

Freed == [job EXCEPT !.status = "PENDING", !.lockedBy = NoWorker, !.left = 0, !.due = FALSE]
Goto(w, pc) == worker' = [worker EXCEPT ![w].pc = pc]
Claimable ==
    /\ ~paused /\ job.status = "PENDING" /\ job.due /\ job.left = 0
    /\ job.lockVersion < MaxVersions

\* one transaction, with the circuit breaker inside
ClaimDeliveryJob(w) ==
    /\ worker[w].pc = "idle" /\ Claimable
    /\ job' = [job EXCEPT !.status = "IN_PROGRESS", !.lockedBy = w, !.left = LockTerm,
                          !.lockVersion = @ + 1]
    /\ worker' = [worker EXCEPT ![w] = [pc |-> "validate", lockVersion |-> job.lockVersion + 1]]
    /\ UNCHANGED paused

CircuitOpen(w) ==
    /\ worker[w].pc = "idle" /\ Claimable
    /\ job' = [Freed EXCEPT !.lockVersion = @ + 1]
    /\ UNCHANGED <<worker, paused>>

\* a zombie stops here; a read that fails ends in the catch of the loop
ValidateLease(w) ==
    /\ worker[w].pc = "validate"
    /\ \/ /\ job.lockedBy = w /\ job.left > 0 /\ job.lockVersion = worker[w].lockVersion
          /\ Goto(w, "send")
       \/ /\ ~(job.lockedBy = w /\ job.left > 0 /\ job.lockVersion = worker[w].lockVersion)
          /\ Goto(w, "idle")
       \/ Goto(w, "release")
    /\ UNCHANGED <<job, paused>>

TransitionState(w) ==
    /\ worker[w].pc = "send"
    /\ Goto(w, "release")
    /\ UNCHANGED <<job, paused>>

\* by id alone, as in lib/delivery-worker-sot.ts
ReleaseUnfenced(w) ==
    /\ worker[w].pc = "release"
    /\ job' = Freed
    /\ Goto(w, "idle")
    /\ UNCHANGED paused

\* the catch of runDeliveryWorker
ReleaseFenced(w) ==
    /\ worker[w].pc = "release"
    /\ job' = IF job.lockedBy = w /\ job.lockVersion = worker[w].lockVersion THEN Freed ELSE job
    /\ Goto(w, "idle")
    /\ UNCHANGED paused

RecoverStuckJobs ==
    /\ job.status = "IN_PROGRESS" /\ job.left = 0 /\ job.lockVersion < MaxVersions
    /\ job' = [Freed EXCEPT !.lockVersion = @ + 1]
    /\ UNCHANGED <<worker, paused>>

LockLapses ==
    /\ job.left > 0
    /\ job' = [job EXCEPT !.left = @ - 1]
    /\ UNCHANGED <<worker, paused>>

NextAttemptComes ==
    /\ ~job.due
    /\ job' = [job EXCEPT !.due = TRUE]
    /\ UNCHANGED <<worker, paused>>

PauseOrResume ==
    /\ paused' = ~paused
    /\ UNCHANGED <<job, worker>>

WorkerDies(w) ==
    /\ worker[w].pc # "idle"
    /\ Goto(w, "idle")
    /\ UNCHANGED <<job, paused>>

RunDeliveryWorker(w) ==
    \/ ClaimDeliveryJob(w) \/ CircuitOpen(w) \/ ValidateLease(w) \/ TransitionState(w)
    \/ ReleaseFenced(w) \/ WorkerDies(w)

JobNext ==
    \/ \E w \in Workers : RunDeliveryWorker(w)
    \/ RecoverStuckJobs \/ LockLapses \/ NextAttemptComes \/ PauseOrResume

JobSpec == JobInit /\ [][JobNext]_jobVars

-----------------------------------------------------------------------------

Busy == {w \in Workers : worker[w].pc # "idle"}

JobLease == INSTANCE Lease WITH
    Holders <- Workers, NoHolder <- NoWorker, Term <- LockTerm,
    holder <- job.lockedBy, term <- job.left, users <- Busy, revocations <- 0

\* A worker that wakes up after the recovery scan has freed its row and
\* another worker has claimed it never frees it under the other's hands, and
\* no worker claims a row before its claimant's time is over: the claim of a
\* row is a lease.
JobIsALease == JobLease!LeaseSpec
=============================================================================
