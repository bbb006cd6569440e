------------------------- MODULE MCDeliveryPipeline -------------------------
(* Small instances of DeliveryPipeline. *)
EXTENDS DeliveryPipeline, TLC

CONSTANTS s1, s2, p1, p2, j1, j2, o1

TwoProcesses == s1 :> p1 @@ s2 :> p2

JobSymmetry == Permutations(Jobs)
=============================================================================
