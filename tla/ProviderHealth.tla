---------------------------- MODULE ProviderHealth ----------------------------
(***************************************************************************)
(* lib/provider-health.ts: the health score of one provider, computed from *)
(* the calls recorded in a rolling window.  Rates are fractions of the     *)
(* calls in the window, so the score is scaled by 300 * (number of calls); *)
(* the latency counts in seconds.                                          *)
(***************************************************************************)
EXTENDS Integers, SequencesExt

CONSTANTS
    Latencies,  \* the seconds a call may take
    MaxCalls    \* bound: calls in the window

VARIABLE window  \* the ProviderHealthMetric rows of the last ten minutes, oldest first

Call == [success : BOOLEAN, timeout : BOOLEAN, conflict : BOOLEAN, latency : Latencies]

TypeOK == window \in BoundedSeq(Call, MaxCalls)

Init == window = <<>>

\* lib/reconciler.ts calls a call of more than 10 s timed out, and the
\* workers one with that error; a conflict is an error too
RecordProviderCall ==
    /\ Len(window) < MaxCalls
    /\ \E call \in Call :
         /\ call.conflict => ~call.success /\ ~call.timeout
         /\ call.timeout \/ call.latency <= 10
         /\ window' = Append(window, call)

OldestLeavesWindow == window # <<>> /\ window' = Tail(window)

\* getAllCircuitStates and the cleanup of rows older than a day change no window
Next == RecordProviderCall \/ OldestLeavesWindow

Spec == Init /\ [][Next]_window

-----------------------------------------------------------------------------

Total == Len(window)
Count(field) == Cardinality({i \in DOMAIN window : window[i][field]})

\* latencies[floor(0.99 n)] of the sorted latencies; below 100 calls the largest
LatencyP99 == CHOOSE l \in Latencies :
    /\ \E i \in DOMAIN window : window[i].latency = l
    /\ \A i \in DOMAIN window : window[i].latency <= l

Scale(part) == part * 3 * Total  \* part per cent of a full score

\* successes weigh nothing
ScoreOfErrors ==
    IF Total = 0 THEN 300
    ELSE 75 * (Total - Count("timeout")) + 45 * (Total - Count("conflict"))
         + (IF LatencyP99 < 15 THEN 4 * Total * (15 - LatencyP99) ELSE 0)

\* 40 % successes, 25 % timeouts, 15 % conflicts, 20 % latency up to 15 s
ScaledScore ==
    IF Total = 0 THEN 300
    ELSE 120 * Count("success") + 75 * (Total - Count("timeout"))
         + 45 * (Total - Count("conflict"))
         + (IF LatencyP99 < 15 THEN 4 * Total * (15 - LatencyP99) ELSE 0)

HealthStatus ==
    IF Total = 0 \/ ScaledScore >= Scale(80) THEN "HEALTHY"
    ELSE IF ScaledScore >= Scale(50) THEN "DEGRADED"
    ELSE IF ScaledScore >= Scale(20) THEN "UNHEALTHY"
    ELSE "CRITICAL"

-----------------------------------------------------------------------------
(* Properties.                                                             *)

\* The status that opens a circuit at the first failure is kept for outages:
\* one slow call, or a few errors, among successes never make it.
CriticalMeansOutage ==
    HealthStatus = "CRITICAL" => 2 * Count("success") < Total /\ Count("timeout") > 0
=============================================================================
