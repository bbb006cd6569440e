--------------------------- MODULE Protection_proofs ---------------------------
(***************************************************************************)
(* Proofs about what keeps the load off a failing provider.  The breaker   *)
(* can always get out of a state that refuses requests, for any number of  *)
(* callers and for every setting that CircuitAssumption allows; and a      *)
(* provider is never called critical for less than an outage, for any      *)
(* window and any latencies.                                               *)
(***************************************************************************)
EXTENDS MCProtection, Sequences, FiniteSetTheorems, WellFoundedInduction, TLAPS

-----------------------------------------------------------------------------
(* The circuit breaker.                                                    *)

\* In HALF_OPEN a test request has been used up only after a success was
\* counted; with a threshold of at most 2 there is never a second one.
Fits(row) ==
    row.state = "HALF_OPEN" =>
        /\ row.testRequestsUsed <= 1
        /\ row.successCount = 0 => row.testRequestsUsed = 0

\* The row fits, and so does every copy a caller is about to write from.
BreakerInv ==
    /\ CircuitTypeOK
    /\ Fits(circuit)
    /\ \A c \in Callers : Fits(caller[c].seen)
    /\ circuit.state = "HALF_OPEN" => circuit.testRequestsAllowed = HalfOpenMaxRequests
    /\ circuit.state = "OPEN" => retryTime # "null"

\* What BreakerInv says of the row, without the callers.
RowInv ==
    /\ circuit \in Circuit
    /\ retryTime \in {"null", "ahead", "past"}
    /\ Fits(circuit)
    /\ circuit.state = "HALF_OPEN" => circuit.testRequestsAllowed = HalfOpenMaxRequests
    /\ circuit.state = "OPEN" => retryTime # "null"

-----------------------------------------------------------------------------

LEMMA NewCircuitFits == NewCircuit \in Circuit /\ Fits(NewCircuit)
  BY CircuitAssumption DEF NewCircuit, Circuit, CircuitState, Fits

LEMMA OneMoreBounds ==
    ASSUME NEW limit \in Nat \ {0}, NEW n \in 0..limit
    PROVE  OneMore(n, limit) \in 1..limit
  BY DEF OneMore

\* The sets of columns that the updates write keep a row in Circuit.  Its
\* ranges are of no concern here, so they are parameters.
Columns(F, S, A, U) ==
    [state : CircuitState, failureCount : F, successCount : S,
     testRequestsAllowed : A, testRequestsUsed : U]

LEMMA CountsKeepColumns ==
    ASSUME NEW F, NEW S, NEW A, NEW U, NEW row \in Columns(F, S, A, U),
           NEW failures \in F, NEW successes \in S
    PROVE  /\ [row EXCEPT !.failureCount = failures] \in Columns(F, S, A, U)
           /\ [row EXCEPT !.failureCount = failures,
                          !.successCount = successes] \in Columns(F, S, A, U)
  BY DEF Columns

LEMMA TestsKeepColumns ==
    ASSUME NEW F, NEW S, NEW A, NEW U, NEW row \in Columns(F, S, A, U),
           NEW successes \in S, NEW used \in U
    PROVE  [row EXCEPT !.successCount = successes,
                       !.testRequestsUsed = used] \in Columns(F, S, A, U)
  BY DEF Columns

LEMMA StateKeepsColumns ==
    ASSUME NEW F, NEW S, NEW A, NEW U, NEW row \in Columns(F, S, A, U),
           NEW state \in CircuitState, NEW failures \in F, NEW successes \in S
    PROVE  /\ [row EXCEPT !.state = state] \in Columns(F, S, A, U)
           /\ [row EXCEPT !.state = state,
                          !.failureCount = failures] \in Columns(F, S, A, U)
           /\ [row EXCEPT !.state = state, !.failureCount = failures,
                          !.successCount = successes] \in Columns(F, S, A, U)
  BY DEF Columns

LEMMA ResetKeepsColumns ==
    ASSUME NEW F, NEW S, NEW A, NEW U, NEW row \in Columns(F, S, A, U),
           NEW state \in CircuitState, NEW failures \in F, NEW allowed \in A, NEW used \in U
    PROVE  /\ [row EXCEPT !.failureCount = failures, !.testRequestsAllowed = allowed,
                          !.testRequestsUsed = used] \in Columns(F, S, A, U)
           /\ [row EXCEPT !.state = state, !.testRequestsAllowed = allowed,
                          !.testRequestsUsed = used] \in Columns(F, S, A, U)
           /\ [row EXCEPT !.state = state, !.failureCount = failures,
                          !.testRequestsAllowed = allowed,
                          !.testRequestsUsed = used] \in Columns(F, S, A, U)
  BY DEF Columns

LEMMA CircuitIsColumns ==
    Circuit = Columns(0..FailureThreshold, 0..SuccessThreshold,
                      {0, HalfOpenMaxRequests}, 0..HalfOpenMaxRequests)
  BY DEF Circuit, Columns

LEMMA StatesOfRow == {"CLOSED", "OPEN", "HALF_OPEN"} \subseteq CircuitState
  BY DEF CircuitState

LEMMA ZeroFits ==
    /\ 0 \in {0, HalfOpenMaxRequests} /\ HalfOpenMaxRequests \in {0, HalfOpenMaxRequests}
    /\ 0 \in 0..FailureThreshold /\ 0 \in 0..SuccessThreshold
    /\ 0 \in 0..HalfOpenMaxRequests /\ 1 \in 0..HalfOpenMaxRequests
    /\ 1 \in 0..FailureThreshold
  BY CircuitAssumption

\* A caller that moves on with a row that fits keeps its part of the invariant.
LEMMA CallerMoves ==
    ASSUME BreakerInv, NEW c \in Callers, NEW pc \in Steps, NEW row \in Circuit,
           Fits(row), CallerGoesWith(c, pc, row)
    PROVE  /\ caller' \in [Callers -> [pc : Steps, seen : Circuit]]
           /\ \A d \in Callers : Fits(caller'[d].seen)
  <1> DEFINE act == [pc |-> pc, seen |-> row]
  <1>1. act \in [pc : Steps, seen : Circuit] /\ act.seen = row
    OBVIOUS
  <1>2. caller' = [caller EXCEPT ![c] = act]
    BY DEF CallerGoesWith
  <1> HIDE DEF act
  <1> QED BY <1>1, <1>2 DEF BreakerInv, CircuitTypeOK

LEMMA CallerGoesBare ==
    ASSUME BreakerInv, NEW c \in Callers, NEW pc \in Steps, CallerGoes(c, pc)
    PROVE  /\ caller' \in [Callers -> [pc : Steps, seen : Circuit]]
           /\ \A d \in Callers : Fits(caller'[d].seen)
  <1>1. [Idle EXCEPT !.pc = pc] = [pc |-> pc, seen |-> NewCircuit]
    BY DEF Idle
  <1>2. CallerGoesWith(c, pc, NewCircuit)
    BY <1>1 DEF CallerGoes, CallerGoesWith
  <1> QED BY <1>2, NewCircuitFits, CallerMoves

-----------------------------------------------------------------------------
(* What each write leaves in the row.                                      *)

LEMMA CountSuccessKeepsRow ==
    ASSUME RowInv, NEW seen \in Circuit, Fits(seen), CountSuccess(seen)
    PROVE  RowInv'
  <1> DEFINE more == OneMore(seen.successCount, SuccessThreshold)
  <1>1. more \in 1..SuccessThreshold /\ SuccessThreshold \in 1..2
    BY CircuitAssumption, OneMoreBounds DEF Circuit
  <1>2. more < SuccessThreshold => seen.successCount = 0
    BY <1>1, CircuitAssumption DEF Circuit, OneMore
  <1>3. CASE /\ seen.state = "CLOSED"
             /\ circuit' = [circuit EXCEPT !.failureCount = 0, !.successCount = more]
             /\ UNCHANGED retryTime
    <2> HIDE DEF more
    <2>1. circuit' \in Circuit
      <3>1. more \in 0..SuccessThreshold
        BY <1>1
      <3> QED BY <1>3, <3>1, ZeroFits, CircuitIsColumns, CountsKeepColumns DEF RowInv
    <2>2. /\ circuit'.state = circuit.state
          /\ circuit'.testRequestsAllowed = circuit.testRequestsAllowed
          /\ circuit'.testRequestsUsed = circuit.testRequestsUsed
          /\ circuit'.successCount = more
      BY <1>3 DEF RowInv, Circuit
    <2> QED BY <1>1, <1>3, <2>1, <2>2 DEF RowInv, Fits
  <1>4. CASE /\ seen.state = "HALF_OPEN" /\ more < SuccessThreshold
             /\ circuit' = [circuit EXCEPT !.successCount = more,
                                           !.testRequestsUsed = seen.testRequestsUsed + 1]
             /\ UNCHANGED retryTime
    <2>1. seen.testRequestsUsed = 0
      BY <1>2, <1>4 DEF Fits
    <2> HIDE DEF more
    <2>2. circuit' = [circuit EXCEPT !.successCount = more, !.testRequestsUsed = 1]
      BY <1>4, <2>1
    <2>3. circuit' \in Circuit
      <3>1. more \in 0..SuccessThreshold
        BY <1>1
      <3> QED BY <2>2, <3>1, ZeroFits, CircuitIsColumns, TestsKeepColumns DEF RowInv
    <2>4. /\ circuit'.state = circuit.state
          /\ circuit'.testRequestsAllowed = circuit.testRequestsAllowed
          /\ circuit'.testRequestsUsed = 1
          /\ circuit'.successCount = more
      BY <2>2 DEF RowInv, Circuit
    <2> QED BY <1>1, <1>4, <2>3, <2>4 DEF RowInv, Fits
  <1> QED BY <1>3, <1>4 DEF CountSuccess

LEMMA CountFailureKeepsRow ==
    ASSUME RowInv, NEW seen \in Circuit, NEW failures \in 0..FailureThreshold,
           CountFailure(seen, failures)
    PROVE  RowInv'
  <1>1. circuit' \in Circuit
    BY CircuitIsColumns, CountsKeepColumns, ZeroFits DEF RowInv, CountFailure
  <1>2. /\ circuit'.state = circuit.state
        /\ circuit'.testRequestsAllowed = circuit.testRequestsAllowed
        /\ circuit'.testRequestsUsed = circuit.testRequestsUsed
        /\ circuit'.successCount = circuit.successCount
    BY DEF RowInv, CountFailure, Circuit
  <1> QED BY <1>1, <1>2 DEF RowInv, CountFailure, Fits

LEMMA OpenedKeepsRow ==
    ASSUME RowInv, NEW failures \in 0..FailureThreshold, Opened(failures)
    PROVE  RowInv'
  <1>1. circuit' \in Circuit
    BY CircuitIsColumns, ResetKeepsColumns, ZeroFits, StatesOfRow DEF RowInv, Opened
  <1>2. circuit'.state = "OPEN"
    BY DEF RowInv, Opened, Circuit
  <1> QED BY <1>1, <1>2 DEF RowInv, Opened, Fits

LEMMA RecoveredKeepsRow ==
    ASSUME RowInv, circuit' = NewCircuit, retryTime' \in {"null", retryTime}
    PROVE  RowInv'
  BY NewCircuitFits DEF RowInv, NewCircuit

LEMMA HalfOpenKeepsRow ==
    ASSUME RowInv, circuit' = HalfOpen(HalfOpenMaxRequests, 0), UNCHANGED retryTime
    PROVE  RowInv'
  <1>1. circuit' \in Circuit
    BY NewCircuitFits, ZeroFits, StatesOfRow, CircuitIsColumns, ResetKeepsColumns DEF HalfOpen
  <1>2. /\ circuit'.state = "HALF_OPEN" /\ circuit'.testRequestsUsed = 0
        /\ circuit'.testRequestsAllowed = HalfOpenMaxRequests
    BY DEF HalfOpen, NewCircuit
  <1> QED BY <1>1, <1>2 DEF RowInv, Fits

-----------------------------------------------------------------------------

LEMMA CallKeepsRow ==
    ASSUME BreakerInv, NEW c \in Callers, Call(c)
    PROVE  RowInv'
  <1> DEFINE seen == caller[c].seen
  <1>1. RowInv
    BY DEF BreakerInv, CircuitTypeOK, RowInv
  <1>2. seen \in Circuit /\ Fits(seen)
    BY DEF BreakerInv, CircuitTypeOK
  <1>3. OneMore(seen.failureCount, FailureThreshold) \in 0..FailureThreshold
    <2>1. OneMore(seen.failureCount, FailureThreshold) \in 1..FailureThreshold
      BY <1>2, OneMoreBounds, CircuitAssumption DEF Circuit
    <2> QED BY <2>1
  <1>4. ASSUME UNCHANGED <<circuit, retryTime>> PROVE RowInv'
    BY <1>1, <1>4 DEF RowInv, Fits
  <1> HIDE DEF seen
  <1>5. CASE RequestAllowed(c) \/ ProviderAnswers(c) \/ SuccessReadsCircuit(c)
             \/ FailureReadsCircuit(c)
    BY <1>4, <1>5 DEF RequestAllowed, ProviderAnswers, SuccessReadsCircuit,
                      FailureReadsCircuit, ReadsCircuit
  <1>6. CASE TransitionToHalfOpen(c)
    BY <1>1, <1>6, HalfOpenKeepsRow DEF TransitionToHalfOpen
  <1>7. CASE RecordCircuitSuccess(c) \/ WorkerRecordsSuccess(c)
    BY <1>1, <1>2, <1>7, CountSuccessKeepsRow, RecoveredKeepsRow
       DEF RecordCircuitSuccess, WorkerRecordsSuccess, seen
  <1>8. CASE RecordCircuitFailure(c)
    BY <1>1, <1>2, <1>3, <1>4, <1>8, OpenedKeepsRow, CountFailureKeepsRow
       DEF RecordCircuitFailure, seen
  <1>9. CASE WorkerRecordsFailure(c)
    <2> DEFINE more == OneMore(seen.failureCount, FailureThreshold)
    <2>1. CASE CountFailure(seen, more)
      BY <1>1, <1>2, <1>3, <2>1, CountFailureKeepsRow
    <2>2. CASE /\ circuit' = [circuit EXCEPT !.state = "OPEN", !.failureCount = more]
               /\ retryTime' = "ahead"
      <3> HIDE DEF more
      <3>1. more \in 0..FailureThreshold
        BY <1>3 DEF more
      <3>2. circuit' \in Circuit
        BY <1>1, <2>2, <3>1, ZeroFits, StatesOfRow, CircuitIsColumns, StateKeepsColumns DEF RowInv
      <3>3. circuit'.state = "OPEN"
        BY <1>1, <2>2 DEF RowInv, Circuit
      <3> QED BY <2>2, <3>2, <3>3 DEF RowInv, Fits
    <2> QED BY <1>9, <2>1, <2>2 DEF WorkerRecordsFailure, seen
  <1> QED BY <1>5, <1>6, <1>7, <1>8, <1>9 DEF Call

\* What a caller has read fits as well as the row it read.
LEMMA CallKeepsCallers ==
    ASSUME BreakerInv, NEW c \in Callers, Call(c)
    PROVE  /\ caller' \in [Callers -> [pc : Steps, seen : Circuit]]
           /\ \A d \in Callers : Fits(caller'[d].seen)
  <1>1. circuit \in Circuit /\ Fits(circuit)
    BY DEF BreakerInv, CircuitTypeOK
  <1>2. ASSUME NEW pc \in Steps, CallerGoes(c, pc)
        PROVE  /\ caller' \in [Callers -> [pc : Steps, seen : Circuit]]
               /\ \A d \in Callers : Fits(caller'[d].seen)
    BY <1>2, CallerGoesBare
  <1>3. CASE SuccessReadsCircuit(c)
    <2> DEFINE row == [circuit EXCEPT !.failureCount = 0, !.testRequestsAllowed = 0,
                       !.testRequestsUsed = IF circuit.state = "HALF_OPEN" THEN @ ELSE 0]
    <2>1. row \in Circuit
      <3>1. (IF circuit.state = "HALF_OPEN" THEN circuit.testRequestsUsed ELSE 0)
               \in 0..HalfOpenMaxRequests
        BY <1>1, ZeroFits DEF Circuit
      <3> QED BY <1>1, <3>1, ZeroFits, StatesOfRow, CircuitIsColumns, ResetKeepsColumns
    <2>3. Fits(row)
      BY <1>1 DEF Circuit, Fits
    <2>2. CallerGoesWith(c, "writeSuccess", row) \/ CallerGoes(c, "idle")
      BY <1>3 DEF SuccessReadsCircuit, ReadsCircuit
    <2> HIDE DEF row
    <2> QED BY <1>2, <2>1, <2>2, <2>3, CallerMoves DEF Steps
  <1>4. CASE FailureReadsCircuit(c)
    <2> DEFINE row == [NewCircuit EXCEPT !.state = circuit.state,
                                         !.failureCount = circuit.failureCount]
    <2>1. row \in Circuit
      <3>1. circuit.state \in CircuitState /\ circuit.failureCount \in 0..FailureThreshold
        BY <1>1 DEF Circuit
      <3> QED BY <3>1, NewCircuitFits, ZeroFits, CircuitIsColumns, StateKeepsColumns
    <2>3. Fits(row)
      BY DEF NewCircuit, Fits
    <2>2. CallerGoesWith(c, "writeFailure", row) \/ CallerGoes(c, "idle")
      BY <1>4 DEF FailureReadsCircuit, ReadsCircuit
    <2> HIDE DEF row
    <2> QED BY <1>2, <2>1, <2>2, <2>3, CallerMoves DEF Steps
  <1>5. CASE RequestAllowed(c) \/ TransitionToHalfOpen(c) \/ ProviderAnswers(c)
    <2> DEFINE row == [NewCircuit EXCEPT !.state = "HALF_OPEN"]
    <2>1. row \in Circuit
      BY NewCircuitFits, ZeroFits, StatesOfRow, CircuitIsColumns, StateKeepsColumns
    <2>2. Fits(row)
      BY DEF NewCircuit, Fits
    <2>3. CASE CallerGoesWith(c, "calling", row)
      <3> HIDE DEF row
      <3> QED BY <2>1, <2>2, <2>3, CallerMoves DEF Steps
    <2>4. CASE \E pc \in Steps : CallerGoes(c, pc)
      BY <1>2, <2>4
    <2> QED BY <1>5, <2>3, <2>4 DEF RequestAllowed, TransitionToHalfOpen, ProviderAnswers,
                                    Test, Steps
  <1>6. CASE \/ RecordCircuitSuccess(c) \/ RecordCircuitFailure(c)
             \/ WorkerRecordsSuccess(c) \/ WorkerRecordsFailure(c)
    <2>1. CallerGoes(c, "idle")
      BY <1>6 DEF RecordCircuitSuccess, RecordCircuitFailure, WorkerRecordsSuccess,
                  WorkerRecordsFailure
    <2> QED BY <1>2, <2>1 DEF Steps
  <1> QED BY <1>3, <1>4, <1>5, <1>6 DEF Call

LEMMA CallKeepsRest ==
    ASSUME BreakerInv, NEW c \in Callers, Call(c)
    PROVE  UNCHANGED overrides
  BY DEF Call, RequestAllowed, TransitionToHalfOpen, ProviderAnswers, SuccessReadsCircuit,
         FailureReadsCircuit, ReadsCircuit, RecordCircuitSuccess, RecordCircuitFailure,
         WorkerRecordsSuccess, WorkerRecordsFailure

LEMMA CallKeeps ==
    ASSUME BreakerInv, NEW c \in Callers, Call(c)
    PROVE  BreakerInv'
  <1>1. overrides' \in 0..MaxOverrides
    BY CallKeepsRest DEF BreakerInv, CircuitTypeOK
  <1> QED BY <1>1, CallKeepsRow, CallKeepsCallers DEF BreakerInv, CircuitTypeOK, RowInv

\* An operator and the clock change no caller.
LEMMA EnvironmentKeeps ==
    ASSUME BreakerInv,
           ForceOpenCircuit \/ ForceCloseCircuit \/ RetryTimeComes
    PROVE  BreakerInv'
  <1> USE CircuitAssumption DEF BreakerInv, CircuitTypeOK
  <1>1. caller' = caller
    BY DEF ForceOpenCircuit, ForceCloseCircuit, RetryTimeComes
  <1>2. overrides' \in 0..MaxOverrides
    BY DEF ForceOpenCircuit, ForceCloseCircuit, RetryTimeComes
  <1>4. RowInv'
    <2>0. RowInv
      BY DEF RowInv
    <2>1. CASE ForceOpenCircuit
      <3>1. circuit' \in Circuit
        BY <2>1, ZeroFits, StatesOfRow, CircuitIsColumns, StateKeepsColumns DEF ForceOpenCircuit
      <3>2. circuit'.state = "OPEN"
        BY <2>1 DEF ForceOpenCircuit, Circuit
      <3> QED BY <2>1, <3>1, <3>2 DEF ForceOpenCircuit, RowInv, Fits
    <2>2. CASE ForceCloseCircuit
      <3>1. circuit' \in Circuit
        BY <2>2, ZeroFits, StatesOfRow, CircuitIsColumns, StateKeepsColumns DEF ForceCloseCircuit
      <3>2. circuit'.state = "CLOSED"
        BY <2>2 DEF ForceCloseCircuit, Circuit
      <3> QED BY <2>2, <3>1, <3>2 DEF ForceCloseCircuit, RowInv, Fits
    <2>3. CASE RetryTimeComes
      BY <2>0, <2>3 DEF RetryTimeComes, RowInv, Fits
    <2> QED BY <2>1, <2>2, <2>3
  <1>5. caller' \in [Callers -> [pc : Steps, seen : Circuit]]
    BY <1>1
  <1>6. \A d \in Callers : Fits(caller'[d].seen)
    BY <1>1
  <1> QED BY <1>2, <1>4, <1>5, <1>6 DEF RowInv

LEMMA BreakerInitially == CircuitInit => BreakerInv
  <1> SUFFICES ASSUME CircuitInit PROVE BreakerInv
    OBVIOUS
  <1> USE CircuitAssumption DEF CircuitInit
  <1>1. Idle \in [pc : Steps, seen : Circuit] /\ Fits(Idle.seen)
    BY NewCircuitFits DEF Idle, Steps
  <1>2. caller \in [Callers -> [pc : Steps, seen : Circuit]]
    BY <1>1
  <1>3. \A c \in Callers : Fits(caller[c].seen)
    BY <1>1
  <1>4. circuit.state = "CLOSED"
    BY DEF NewCircuit
  <1> QED BY <1>2, <1>3, <1>4, NewCircuitFits DEF BreakerInv, CircuitTypeOK

LEMMA BreakerKept == BreakerInv /\ [CircuitNext]_circuitVars => BreakerInv'
  <1> SUFFICES ASSUME BreakerInv, [CircuitNext]_circuitVars PROVE BreakerInv'
    OBVIOUS
  <1>1. CASE CircuitNext
    BY <1>1, CallKeeps, EnvironmentKeeps DEF CircuitNext
  <1>2. CASE UNCHANGED circuitVars
    BY <1>2 DEF circuitVars, BreakerInv, CircuitTypeOK, Fits
  <1> QED BY <1>1, <1>2

LEMMA BreakerInvariant == CircuitSpec => []BreakerInv
  BY BreakerInitially, BreakerKept, PTL DEF CircuitSpec

\* The row and every copy of it keep their types (ProtectionTypeOK of the run has
\* this as its part for the breaker): no stale count that is written back
\* exceeds its threshold or the number of test requests.
THEOREM BreakerTypeCorrect == CircuitSpec => []CircuitTypeOK
  <1>1. BreakerInv => CircuitTypeOK
    BY DEF BreakerInv
  <1> QED BY <1>1, BreakerInvariant, PTL

\* However the counts of concurrent callers overwrite each other, HALF_OPEN
\* has a test request left and OPEN a retry time (NeverStuck).
THEOREM BreakerNeverStuck == CircuitSpec => []NeverStuck
  <1>1. BreakerInv => NeverStuck
    BY CircuitAssumption DEF BreakerInv, CircuitTypeOK, Circuit, Fits, NeverStuck
  <1> QED BY <1>1, BreakerInvariant, PTL

-----------------------------------------------------------------------------
(* The health of a provider, for any window.                               *)

\* A window and what is added to it, or what is left when the oldest goes.
LEMMA WindowsBounded ==
    ASSUME NEW n \in Nat, NEW w
    PROVE  w \in Health!BoundedSeq(Health!Call, n) <=> w \in Seq(Health!Call) /\ Len(w) <= n
  <1>1. w \in Health!BoundedSeq(Health!Call, n) <=> \E m \in 0..n : w \in [1..m -> Health!Call]
    BY DEF Health!BoundedSeq, Health!SeqOf
  <1>2. ASSUME NEW m \in 0..n, w \in [1..m -> Health!Call]
        PROVE  w \in Seq(Health!Call) /\ Len(w) <= n
    BY <1>2
  <1>3. ASSUME w \in Seq(Health!Call), Len(w) <= n
        PROVE  \E m \in 0..n : w \in [1..m -> Health!Call]
    BY <1>3
  <1> QED BY <1>1, <1>2, <1>3

LEMMA WindowInitially == Health!Init => Health!TypeOK
  <1>1. <<>> \in Seq(Health!Call) /\ Len(<<>>) <= MaxCalls
    BY ProtectionAssumption
  <1> QED BY <1>1, WindowsBounded, ProtectionAssumption DEF Health!Init, Health!TypeOK

LEMMA WindowKept == Health!TypeOK /\ [Health!Next]_window => Health!TypeOK'
  <1> SUFFICES ASSUME Health!TypeOK, [Health!Next]_window PROVE Health!TypeOK'
    OBVIOUS
  <1> USE ProtectionAssumption
  <1>1. window \in Seq(Health!Call) /\ Len(window) <= MaxCalls
    BY WindowsBounded DEF Health!TypeOK
  <1>2. window' \in Seq(Health!Call) /\ Len(window') <= MaxCalls
    <2>1. CASE Health!RecordProviderCall
      <3>1. PICK call \in Health!Call : window' = Append(window, call)
        BY <2>1 DEF Health!RecordProviderCall
      <3>2. Len(window) < MaxCalls
        BY <2>1 DEF Health!RecordProviderCall
      <3> QED BY <1>1, <3>1, <3>2
    <2>2. CASE Health!OldestLeavesWindow
      BY <1>1, <2>2 DEF Health!OldestLeavesWindow
    <2> QED BY <1>1, <2>1, <2>2 DEF Health!Next
  <1>3. \A w : w \in Seq(Health!Call) /\ Len(w) <= MaxCalls
                 => w \in Health!BoundedSeq(Health!Call, MaxCalls)
    BY WindowsBounded
  <1> QED BY <1>2, <1>3 DEF Health!TypeOK

\* The instance counts as FiniteSets does.
LEMMA InstanceCounts == \A S : Health!Cardinality(S) = Cardinality(S)
  BY DEF Health!Cardinality, Cardinality

\* A count of calls lies between none and all of them.
LEMMA CountBounds ==
    ASSUME NEW field, window \in Seq(Health!Call)
    PROVE  Health!Count(field) \in 0..Health!Total
  <1> DEFINE counted == {i \in DOMAIN window : window[i][field]}
  <1>1. Len(window) \in Nat /\ DOMAIN window = 1..Len(window)
    OBVIOUS
  <1>2. IsFiniteSet(1..Len(window)) /\ Cardinality(1..Len(window)) = Len(window)
    BY <1>1, FS_Interval
  <1>3. counted \in SUBSET (1..Len(window))
    BY <1>1
  <1>4. Health!Count(field) = Cardinality(counted) /\ Health!Total = Len(window)
    BY InstanceCounts DEF Health!Count, Health!Total
  <1> HIDE DEF counted
  <1>5. Cardinality(counted) <= Len(window) /\ Cardinality(counted) \in Nat
    <2>1. IsFiniteSet(counted) /\ Cardinality(counted) <= Cardinality(1..Len(window))
      BY <1>2, <1>3, FS_Subset
    <2> QED BY <1>2, <2>1, FS_CardinalityType
  <1> QED BY <1>1, <1>4, <1>5

\* A window that is not empty has a slowest call, so the latency that
\* LatencyP99 picks exists: the smallest bound of the latencies is one of them.
LEMMA SlowestCall ==
    ASSUME window \in Seq(Health!Call), window # <<>>
    PROVE  Health!LatencyP99 \in Nat
  <1> DEFINE latency(i) == window[i].latency
             bounds == {b \in Nat : \A i \in DOMAIN window : latency(i) <= b}
             slowest(l) == /\ \E i \in DOMAIN window : window[i].latency = l
                           /\ \A i \in DOMAIN window : window[i].latency <= l
  <1>1. \A i \in DOMAIN window : latency(i) \in Latencies /\ latency(i) \in Nat
    <2>1. \A i \in DOMAIN window : window[i] \in Health!Call
      OBVIOUS
    <2> QED BY <2>1, ProtectionAssumption DEF Health!Call
  <1>2. DOMAIN window # {}
    <2>1. DOMAIN window = 1..Len(window) /\ Len(window) \in Nat /\ Len(window) # 0
      OBVIOUS
    <2>2. 1 \in 1..Len(window)
      BY <2>1
    <2> QED BY <2>1, <2>2
  <1>3. bounds # {}
    <2>1. PICK longest \in Latencies : \A l \in Latencies : l <= longest
      BY ProtectionAssumption
    <2>2. longest \in Nat
      BY ProtectionAssumption
    <2>3. longest \in bounds
      BY <1>1, <2>1, <2>2
    <2> QED BY <2>3
  <1>4. PICK b \in bounds : \A y \in bounds : ~(<<y, b>> \in OpToRel(<, Nat))
    <2>1. bounds \subseteq Nat
      OBVIOUS
    <2> HIDE DEF bounds
    <2> QED BY <1>3, <2>1, NatLessThanWellFounded, WFMin
  <1>5. \A y \in bounds : b <= y
    <2> SUFFICES ASSUME NEW y \in bounds, y < b PROVE FALSE
      OBVIOUS
    <2>1. <<y, b>> \in OpToRel(<, Nat)
      BY DEF OpToRel
    <2> QED BY <1>4, <2>1
  <1>6. \E i \in DOMAIN window : latency(i) = b
    <2> SUFFICES ASSUME \A i \in DOMAIN window : latency(i) # b PROVE FALSE
      OBVIOUS
    <2>1. \A i \in DOMAIN window : latency(i) < b
      BY <1>1
    <2>2. b - 1 \in bounds
      BY <1>1, <1>2, <2>1
    <2> QED BY <1>5, <2>2
  <1>7. b \in Latencies /\ slowest(b)
    BY <1>1, <1>6
  <1> QED BY <1>7, ProtectionAssumption DEF Health!LatencyP99

LEMMA ProductIsNat == \A a, b \in Nat : a * b \in Nat
  OBVIOUS

LEMMA CriticalFollows == Health!TypeOK => Health!CriticalMeansOutage
  <1> SUFFICES ASSUME Health!TypeOK, Health!HealthStatus = "CRITICAL"
               PROVE  2 * Health!Count("success") < Health!Total /\ Health!Count("timeout") > 0
    BY DEF Health!CriticalMeansOutage
  <1> DEFINE n == Health!Total
             successes == Health!Count("success")
             timeouts == Health!Count("timeout")
             conflicts == Health!Count("conflict")
             speed == IF Health!LatencyP99 < 15
                      THEN 4 * Health!Total * (15 - Health!LatencyP99) ELSE 0
  <1>1. window \in Seq(Health!Call)
    BY WindowsBounded, ProtectionAssumption DEF Health!TypeOK
  <1>2. n \in Nat /\ n # 0 /\ window # <<>>
    BY <1>1 DEF Health!HealthStatus, Health!Total
  <1>3. speed \in Nat
    <2>1. Health!LatencyP99 \in Nat
      BY <1>1, <1>2, SlowestCall
    <2>2. 4 * n \in Nat
      BY <1>2
    <2>3. CASE Health!LatencyP99 < 15
      <3>1. 15 - Health!LatencyP99 \in Nat
        BY <2>1, <2>3
      <3>2. speed = (4 * n) * (15 - Health!LatencyP99)
        BY <2>3
      <3> QED BY <2>2, <3>1, <3>2, ProductIsNat
    <2> QED BY <2>3
  <1>4. successes \in 0..n /\ timeouts \in 0..n /\ conflicts \in 0..n
    BY <1>1, CountBounds
  <1>5. ~(120 * successes + 75 * (n - timeouts) + 45 * (n - conflicts) + speed >= 20 * 3 * n)
    BY <1>2 DEF Health!HealthStatus, Health!ScaledScore, Health!Scale
  <1> HIDE DEF n, successes, timeouts, conflicts, speed
  <1>6. 2 * successes < n /\ timeouts > 0
    BY <1>2, <1>3, <1>4, <1>5
  <1> QED BY <1>6 DEF n, successes, timeouts

-----------------------------------------------------------------------------
(* Both parts together.                                                    *)

AllInv == BreakerInv /\ Health!TypeOK

LEMMA AllInvariant == ProtectionSpec => []AllInv
  <1>1. ProtectionStart => AllInv
    BY BreakerInitially, WindowInitially DEF ProtectionStart, AllInv
  <1>2. AllInv /\ [ProtectionNext]_protectionVars => AllInv'
    <2> SUFFICES ASSUME AllInv, [ProtectionNext]_protectionVars PROVE AllInv'
      OBVIOUS
    <2>1. [CircuitNext]_circuitVars /\ [Health!Next]_window
      BY DEF ProtectionNext, Of, protectionVars, protectionRows
    <2> QED BY <2>1, BreakerKept, WindowKept DEF AllInv
  <1> QED BY <1>1, <1>2, PTL DEF ProtectionSpec

\* The row with its copies and the window of calls keep their types
\* (ProtectionTypeOK).
THEOREM ProtectionTypeCorrect == ProtectionSpec => []ProtectionTypeOK
  <1>1. AllInv => ProtectionTypeOK
    BY DEF AllInv, BreakerInv, ProtectionTypeOK
  <1> QED BY <1>1, AllInvariant, PTL

\* In every window, whatever its length and its latencies, a provider is
\* critical only when most calls failed and some timed out
\* (CriticalMeansOutage): no slow call among successes opens its circuit.
THEOREM CriticalCorrect == ProtectionSpec => []CriticalMeansOutage
  <1>1. AllInv => CriticalMeansOutage
    BY CriticalFollows DEF AllInv, CriticalMeansOutage
  <1> QED BY <1>1, AllInvariant, PTL
=============================================================================
