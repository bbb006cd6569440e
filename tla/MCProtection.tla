----------------------------- MODULE MCProtection -----------------------------
(* What keeps the load off a failing provider: the circuit breaker and the   *)
(* score of the provider's health.                                           *)
EXTENDS CircuitBreaker, Parts

CONSTANTS Latencies, MaxCalls

\* a request is aborted after 15 s at the latest: no call takes for ever
ASSUME ProtectionAssumption ==
    /\ MaxCalls \in Nat
    /\ Latencies \subseteq Nat
    /\ \E longest \in Latencies : \A l \in Latencies : l <= longest

VARIABLE window

Health == INSTANCE ProviderHealth

protectionRows == <<circuitVars, window>>
protectionVars == <<checked, protectionRows>>
ProtectionParts == {"circuit", "health"}
ProtectionStart == CircuitInit /\ Health!Init

ProtectionNext ==
    \/ Of("circuit", CircuitNext, window)
    \/ Of("health", Health!Next, circuitVars)

ProtectionSpec ==
    checked \in ProtectionParts /\ ProtectionStart /\ [][ProtectionNext]_protectionVars

\* Row, copies and window keep their types.
ProtectionTypeOK == CircuitTypeOK /\ Health!TypeOK

\* The property of ProviderHealth, stated there.
CriticalMeansOutage == Health!CriticalMeansOutage
=============================================================================
