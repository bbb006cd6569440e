------------------------------- MODULE MCLocks -------------------------------
(* What keeps two processes apart: the Redis lock, the claimed row and the   *)
(* run flag of the cron routes.                                              *)
EXTENDS DistributedLock, DeliveryLease, RunFlag, Parts

locksRows == <<lockVars, jobVars, flagVars>>
locksVars == <<checked, locksRows>>
LocksParts == {"lock", "claim", "cron"}
LocksStart == LockInit /\ JobInit /\ FlagInit

LocksNext ==
    \/ Of("lock", LockNext, <<jobVars, flagVars>>)
    \/ Of("claim", JobNext, <<lockVars, flagVars>>)
    \/ Of("cron", FlagNext, <<lockVars, jobVars>>)

LocksSpec == checked \in LocksParts /\ LocksStart /\ [][LocksNext]_locksVars

\* Every row, key and process of the three parts keeps its type.
LocksTypeOK == LockTypeOK /\ JobTypeOK /\ FlagTypeOK
=============================================================================
