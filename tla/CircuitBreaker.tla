---------------------------- MODULE CircuitBreaker ----------------------------
(***************************************************************************)
(* lib/circuit-breaker.ts for one provider: a database row that every      *)
(* caller of the provider reads and writes back without a condition.  A    *)
(* caller asks isRequestAllowed, calls the provider, and records what came *)
(* of it; between a read and its write other callers may change the row.   *)
(* The row is there from the start (the first reader creates it).          *)
(* SotCallers go by lib/circuit-breaker-sot.ts, which keeps the same row:  *)
(* it looks at no health, and leaves other columns alone.                  *)
(***************************************************************************)
EXTENDS Naturals

CONSTANTS
    Callers,              \* runs of the reconciler and workers that use the provider
    SotCallers,           \* those that use circuit-breaker-sot.ts
    FailureThreshold,     \* 5 in DEFAULT_CONFIG
    SuccessThreshold,     \* 2; with 3 stale counts could use up the test requests
    HalfOpenMaxRequests,  \* 3
    MaxOverrides          \* bound: manual overrides

ASSUME CircuitAssumption ==
    /\ FailureThreshold \in Nat \ {0}
    /\ SuccessThreshold \in 1..2
    /\ HalfOpenMaxRequests \in Nat /\ HalfOpenMaxRequests >= 2
    /\ MaxOverrides \in Nat
    /\ SotCallers \subseteq Callers

VARIABLES
    circuit,    \* the CircuitBreaker row
    retryTime,  \* its nextRetryTime: null, ahead or past
    caller,     \* what each caller is doing, with the row it has read
    overrides   \* manual overrides so far

circuitVars == <<circuit, retryTime, caller, overrides>>

CircuitState == {"CLOSED", "OPEN", "HALF_OPEN"}

\* successCount goes on counting in CLOSED; beyond the threshold its value
\* makes no difference
Circuit == [state : CircuitState,
            failureCount : 0..FailureThreshold, successCount : 0..SuccessThreshold,
            testRequestsAllowed : {0, HalfOpenMaxRequests},
            testRequestsUsed : 0..HalfOpenMaxRequests]

NewCircuit == [state |-> "CLOSED", failureCount |-> 0, successCount |-> 0,
               testRequestsAllowed |-> 0, testRequestsUsed |-> 0]

Steps == {"idle", "toHalfOpen", "calling", "succeeded", "failed", "writeSuccess", "writeFailure"}

CircuitTypeOK ==
    /\ circuit \in Circuit
    /\ retryTime \in {"null", "ahead", "past"}
    /\ caller \in [Callers -> [pc : Steps, seen : Circuit]]
    /\ overrides \in 0..MaxOverrides

Idle == [pc |-> "idle", seen |-> NewCircuit]

CircuitInit ==
    /\ circuit = NewCircuit
    /\ retryTime = "null"
    /\ caller = [c \in Callers |-> Idle]
    /\ overrides = 0

-----------------------------------------------------------------------------

At(c, pc) == caller[c].pc = pc
CallerGoes(c, pc) == caller' = [caller EXCEPT ![c] = [Idle EXCEPT !.pc = pc]]
CallerGoesWith(c, pc, row) == caller' = [caller EXCEPT ![c] = [pc |-> pc, seen |-> row]]

\* a call made to test whether the provider has recovered
Test(c) == CallerGoesWith(c, "calling", [NewCircuit EXCEPT !.state = "HALF_OPEN"])

\* isRequestAllowed; a refusal is not recorded, the caller may ask again, and
\* a test request is not counted before its success is recorded
RequestAllowed(c) ==
    /\ At(c, "idle")
    /\ \/ circuit.state = "CLOSED" /\ CallerGoes(c, "calling")
       \/ circuit.state = "OPEN" /\ retryTime = "past" /\ CallerGoes(c, "toHalfOpen")
       \/ /\ circuit.state = "HALF_OPEN"
          /\ circuit.testRequestsUsed < circuit.testRequestsAllowed
          /\ Test(c)
    /\ UNCHANGED <<circuit, retryTime, overrides>>

HalfOpen(allowed, used) ==
    [NewCircuit EXCEPT !.state = "HALF_OPEN",
                       !.testRequestsAllowed = allowed, !.testRequestsUsed = used]

\* the transition keeps count of the test requests of the last time
TransitionToHalfOpenKeepingUsed(c) ==
    /\ At(c, "toHalfOpen")
    /\ circuit' = HalfOpen(HalfOpenMaxRequests, circuit.testRequestsUsed)
    /\ Test(c)
    /\ UNCHANGED <<retryTime, overrides>>

TransitionToHalfOpen(c) ==
    /\ At(c, "toHalfOpen")
    /\ circuit' = HalfOpen(HalfOpenMaxRequests, 0)
    /\ Test(c)
    /\ UNCHANGED <<retryTime, overrides>>

ProviderAnswers(c) ==
    /\ At(c, "calling")
    /\ CallerGoes(c, "succeeded") \/ CallerGoes(c, "failed")
    /\ UNCHANGED <<circuit, retryTime, overrides>>

\* recordCircuitSuccess and recordCircuitFailure read the row (seen keeps the
\* columns they use) ...
ReadsCircuit(c, before, after, seen) ==
    /\ At(c, before)
    /\ IF circuit.state # "OPEN" THEN CallerGoesWith(c, after, seen) ELSE CallerGoes(c, "idle")
    /\ UNCHANGED <<circuit, retryTime, overrides>>

SuccessReadsCircuit(c) == ReadsCircuit(c, "succeeded", "writeSuccess",
    [circuit EXCEPT !.failureCount = 0, !.testRequestsAllowed = 0,
                    !.testRequestsUsed = IF circuit.state = "HALF_OPEN" THEN @ ELSE 0])

FailureReadsCircuit(c) == ReadsCircuit(c, "failed", "writeFailure",
    [NewCircuit EXCEPT !.state = circuit.state, !.failureCount = circuit.failureCount])

OneMore(n, limit) == IF n < limit THEN n + 1 ELSE limit

\* ... and write what follows from it over the columns they name
CountSuccess(seen) ==
    LET more == OneMore(seen.successCount, SuccessThreshold) IN
    \/ /\ seen.state = "CLOSED"
       /\ circuit' = [circuit EXCEPT !.failureCount = 0, !.successCount = more]
       /\ UNCHANGED retryTime
    \/ /\ seen.state = "HALF_OPEN" /\ more < SuccessThreshold
       /\ circuit' = [circuit EXCEPT !.successCount = more,
                                     !.testRequestsUsed = seen.testRequestsUsed + 1]
       /\ UNCHANGED retryTime

Recovers(seen) ==
    seen.state = "HALF_OPEN" /\ OneMore(seen.successCount, SuccessThreshold) = SuccessThreshold

RecordCircuitSuccess(c) ==
    /\ c \notin SotCallers /\ At(c, "writeSuccess")
    /\ \/ CountSuccess(caller[c].seen)
       \/ Recovers(caller[c].seen) /\ circuit' = NewCircuit /\ retryTime' = "null"
    /\ CallerGoes(c, "idle")
    /\ UNCHANGED overrides

\* the retry time is left as it was
WorkerRecordsSuccess(c) ==
    /\ c \in SotCallers /\ At(c, "writeSuccess")
    /\ \/ CountSuccess(caller[c].seen)
       \/ Recovers(caller[c].seen) /\ circuit' = NewCircuit /\ UNCHANGED retryTime
    /\ CallerGoes(c, "idle")
    /\ UNCHANGED overrides

Opened(failures) ==
    /\ circuit' = [circuit EXCEPT !.state = "OPEN", !.failureCount = failures,
                                  !.testRequestsAllowed = 0, !.testRequestsUsed = 0]
    /\ retryTime' = "ahead"

CountFailure(seen, failures) ==
    /\ seen.state = "CLOSED" /\ failures < FailureThreshold
    /\ circuit' = [circuit EXCEPT !.failureCount = failures]
    /\ UNCHANGED retryTime

\* The health of the provider is read in between: it may open the circuit at
\* the first failure.  Of a call said to have timed out the time-out rate is
\* looked up in metrics that getProviderStatus does not return: unless another
\* condition opens the circuit, this throws and the failure is not counted.
\* (Of the callers only processDeliveryQueue says so.)
RecordCircuitFailure(c) ==
    LET more == OneMore(caller[c].seen.failureCount, FailureThreshold)
    IN /\ c \notin SotCallers /\ At(c, "writeFailure")
       /\ \/ Opened(more) \/ CountFailure(caller[c].seen, more)
          \/ /\ caller[c].seen.state = "CLOSED" /\ more < FailureThreshold
             /\ UNCHANGED <<circuit, retryTime>>
       /\ CallerGoes(c, "idle")
       /\ UNCHANGED overrides

\* the columns of the test requests are not among those it writes
WorkerRecordsFailure(c) ==
    LET seen == caller[c].seen
        more == OneMore(seen.failureCount, FailureThreshold)
    IN /\ c \in SotCallers /\ At(c, "writeFailure")
       /\ \/ CountFailure(seen, more)
          \/ /\ seen.state = "HALF_OPEN" \/ more = FailureThreshold
             /\ circuit' = [circuit EXCEPT !.state = "OPEN", !.failureCount = more]
             /\ retryTime' = "ahead"
       /\ CallerGoes(c, "idle")
       /\ UNCHANGED overrides

\* an override that sets no retry time
ForceOpenUntimed ==
    /\ overrides < MaxOverrides
    /\ circuit' = [circuit EXCEPT !.state = "OPEN"]
    /\ overrides' = overrides + 1
    /\ UNCHANGED <<retryTime, caller>>

ForceOpenCircuit ==
    /\ overrides < MaxOverrides
    /\ circuit' = [circuit EXCEPT !.state = "OPEN"]
    /\ retryTime' = "ahead"
    /\ overrides' = overrides + 1
    /\ UNCHANGED <<caller>>

\* the columns of the test requests are not among those it resets
ForceCloseCircuit ==
    /\ overrides < MaxOverrides
    /\ circuit' = [circuit EXCEPT !.state = "CLOSED", !.failureCount = 0, !.successCount = 0]
    /\ retryTime' = "null"
    /\ overrides' = overrides + 1
    /\ UNCHANGED <<caller>>

RetryTimeComes ==
    /\ retryTime = "ahead"
    /\ retryTime' = "past"
    /\ UNCHANGED <<circuit, caller, overrides>>

Call(c) ==
    \/ RequestAllowed(c) \/ TransitionToHalfOpen(c) \/ ProviderAnswers(c)
    \/ SuccessReadsCircuit(c) \/ FailureReadsCircuit(c)
    \/ RecordCircuitSuccess(c) \/ RecordCircuitFailure(c)
    \/ WorkerRecordsSuccess(c) \/ WorkerRecordsFailure(c)

CircuitNext ==
    \/ \E c \in Callers : Call(c)
    \/ ForceOpenCircuit \/ ForceCloseCircuit \/ RetryTimeComes

CircuitSpec == CircuitInit /\ [][CircuitNext]_circuitVars

-----------------------------------------------------------------------------
(* Properties.                                                             *)

\* Whatever stale counts are written back, the breaker can always get out of
\* a state that refuses requests: HALF_OPEN has a test request left (there is
\* no timer to leave it) and OPEN has a retry time.
NeverStuck ==
    /\ circuit.state = "HALF_OPEN" => circuit.testRequestsUsed < circuit.testRequestsAllowed
    /\ circuit.state = "OPEN" => retryTime # "null"
=============================================================================
