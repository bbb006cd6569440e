-------------------------------- MODULE RunFlag --------------------------------
(***************************************************************************)
(* The run lock in memory of app/api/cron/process-deliveries and of        *)
(* app/api/cron/reconcile-payments: a flag that a call takes over when its *)
(* holder has had it for too long, and that every run clears at its end,   *)
(* also a run that has been overtaken.                                     *)
(***************************************************************************)
EXTENDS Integers

CONSTANTS
    Crons,   \* calls of the route that may be in progress at once
    Timeout  \* LOCK_TIMEOUT_MS in ticks: 5 minutes, or 1 minute

ASSUME RunFlagAssumption == Timeout \in Nat \ {0}

VARIABLES
    isRunning,
    sinceLast,  \* time since lastRunTime, up to Timeout
    run,        \* the age of each run in progress, up to Timeout, or NoRun
    overdue     \* whether a run has ever taken as long as Timeout

flagVars == <<isRunning, sinceLast, run, overdue>>

NoRun == -1
Active(c) == run[c] # NoRun

FlagTypeOK ==
    /\ isRunning \in BOOLEAN
    /\ sinceLast \in 0..Timeout
    /\ run \in [Crons -> {NoRun} \cup 0..Timeout]
    /\ overdue \in BOOLEAN

FlagInit ==
    /\ isRunning = FALSE
    /\ sinceLast = Timeout
    /\ run = [c \in Crons |-> NoRun]
    /\ overdue = FALSE

Skipped == isRunning /\ sinceLast < Timeout

\* taking the flag without the time
StartKeepingTime(c) ==
    /\ ~Active(c) /\ ~Skipped
    /\ isRunning' = TRUE
    /\ run' = [run EXCEPT ![c] = 0]
    /\ UNCHANGED <<sinceLast, overdue>>

Start(c) ==
    /\ ~Active(c) /\ ~Skipped
    /\ isRunning' = TRUE
    /\ sinceLast' = 0
    /\ run' = [run EXCEPT ![c] = 0]
    /\ UNCHANGED overdue

Finish(c) ==
    /\ Active(c)
    /\ isRunning' = FALSE
    /\ run' = [run EXCEPT ![c] = NoRun]
    /\ UNCHANGED <<sinceLast, overdue>>

Crash ==
    /\ isRunning' = FALSE
    /\ sinceLast' = Timeout
    /\ run' = [c \in Crons |-> NoRun]
    /\ UNCHANGED overdue

Older(age) == IF age = NoRun \/ age = Timeout THEN age ELSE age + 1

TimePasses ==
    /\ sinceLast' = Older(sinceLast)
    /\ run' = [c \in Crons |-> Older(run[c])]
    /\ overdue' = (overdue \/ \E c \in Crons : run'[c] = Timeout)
    /\ UNCHANGED isRunning

FlagNext == (\E c \in Crons : Start(c) \/ Finish(c)) \/ Crash \/ TimePasses

FlagSpec == FlagInit /\ [][FlagNext]_flagVars

\* "Uses execution lock to prevent overlapping runs": as long as no run has
\* taken longer than the time-out, no two have been in progress together,
\* whoever cleared the flag and whatever restarts there were.  (After one
\* has, its end clears the flag of the run that overtook it.)
OverlapNeedsOverdue ==
    (\E c, d \in Crons : c # d /\ Active(c) /\ Active(d)) => overdue
=============================================================================
