------------------------------- MODULE MCParts -------------------------------
(* The parts of the system that neither write the rows of orders nor share a *)
(* variable with each other, each explored by itself.                        *)
EXTENDS MCProtection, MCLocks, MCStorefront

PartsInit ==
    /\ checked \in ProtectionParts \cup LocksParts \cup StoreParts
    /\ ProtectionStart /\ LocksStart /\ StoreStart
    /\ checked # "claim" => ~paused

PartsNext ==
    \/ ProtectionNext /\ UNCHANGED <<locksRows, storeRows>>
    \/ LocksNext /\ UNCHANGED <<protectionRows, storeRows>>
    \/ StoreNext /\ UNCHANGED <<protectionRows, locksRows>>

partsVars == <<checked, protectionRows, locksRows, storeRows>>

PartsSpec == PartsInit /\ [][PartsNext]_partsVars /\ StoreFairness
=============================================================================
