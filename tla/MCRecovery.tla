------------------------------ MODULE MCRecovery ------------------------------
(* What people and sweeps do to orders and jobs from outside: the recovery   *)
(* of unknown deliveries and the administrators' routes write different      *)
(* rows, so one run checks each part by itself.                              *)
EXTENDS Recovery, AdminOrders, Parts

ASSUME AdminAssumption == MaxCalls \in Nat

allVars == <<checked, recoveryVars, adminVars>>

AllInit ==
    /\ checked \in {"recovery", "admin"}
    /\ RecoveryInit /\ AdminInit
    /\ checked = "admin" =>
          /\ job.next = "null" /\ ledger = "none" /\ truth = "PENDING" /\ ~mayCrash

OfRecovery(step) == Of("recovery", step, adminVars)

AllNext == OfRecovery(RecoveryNext) \/ Of("admin", AdminNext, recoveryVars)

AllSpec == AllInit /\ [][AllNext]_allVars

\* Every row and every process of both parts keeps its type.
PartsTypeOK == RecoveryTypeOK /\ AdminTypeOK
===============================================================================
