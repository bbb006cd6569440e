--------------------------------- MODULE Lease ---------------------------------
(***************************************************************************)
(* What lib/distributed-lock.ts and the rows claimed by                    *)
(* lib/delivery-worker-final.ts both promise: "only the owner can release  *)
(* the lock" or prolong it, and nobody else has it before its time is      *)
(* over.  A user is somebody who acts as if the lease were his; he may be  *)
(* wrong, when his time was over before he noticed, but then he cannot     *)
(* harm the one who has it now.                                            *)
(***************************************************************************)
EXTENDS Naturals

CONSTANTS Holders, NoHolder, Term

VARIABLES
    holder,      \* who has the lease
    term,        \* how long it still lasts
    users,       \* those who act as if they had it
    revocations  \* times an administrator has taken it away

leaseVars == <<holder, term, users, revocations>>

LeaseInit == holder = NoHolder /\ term = 0 /\ users = {} /\ revocations = 0

\* One may get the lease and never learn of it.
Acquire(h) ==
    /\ holder = NoHolder
    /\ holder' = h /\ term' = Term
    /\ users' = users \cup {h} \/ UNCHANGED users
    /\ UNCHANGED revocations

Renew ==
    /\ holder \in users
    /\ term' = Term
    /\ UNCHANGED <<holder, users, revocations>>

Release(h) ==
    /\ holder = h /\ h \in users
    /\ holder' = NoHolder /\ term' = 0
    /\ users' = users \ {h}
    /\ UNCHANGED revocations

\* A user stops, dies, or finds that the lease is not his any more.
Leave(h) ==
    /\ users' = users \ {h}
    /\ UNCHANGED <<holder, term, revocations>>

\* At the end of the term the lease is free, or waits to be freed.
TermPasses ==
    /\ term > 0
    /\ term' = term - 1
    /\ holder' = holder \/ (term' = 0 /\ holder' = NoHolder)
    /\ UNCHANGED <<users, revocations>>

Lapse ==
    /\ term = 0
    /\ holder' = NoHolder
    /\ UNCHANGED <<term, users, revocations>>

Revoke ==
    /\ holder' = NoHolder /\ term' = 0
    /\ revocations' = revocations + 1
    /\ UNCHANGED users

LeaseNext ==
    \/ \E h \in Holders : Acquire(h) \/ Release(h) \/ Leave(h)
    \/ Renew \/ TermPasses \/ Lapse \/ Revoke

LeaseSpec == LeaseInit /\ [][LeaseNext]_leaseVars
=============================================================================
