-------------------------- MODULE MCPaymentLifecycle --------------------------
(* Values for model-checking PaymentLifecycle: see the .cfg files. *)
EXTENDS PaymentLifecycle, TLC

AnyHandler == AllHandlers
GuardedHandlers == AllHandlers \ {"status", "cancel", "expire"}
WorkerHandlers == {"poll", "deliver", "retry"}
WebhookAndStatus == {"webhook", "status", "deliver"}

ProcSymmetry == Permutations(Requests) \cup Permutations(Workers)
===============================================================================
