---------------------------- MODULE DistributedLock ----------------------------
(***************************************************************************)
(* lib/distributed-lock.ts: a Redis key with a time to live, set if absent *)
(* and released or extended by scripts that look at its value first.  Each *)
(* call of acquireLock makes a value of its own and tries it several times.*)
(* One tick is the renewal interval; replies of Redis may get lost.        *)
(* As written acquireLock ends before its first SET: the v4 it imports from *)
(* crypto does not exist.  The module has the lock the file describes,     *)
(* whose behaviours include those of a key nobody ever takes.              *)
(***************************************************************************)
EXTENDS Naturals

CONSTANTS
    Clients,     \* callers of withLock
    Sessions,    \* what tells a client's lock values apart
    NoValue,     \* an absent key
    Ttl,         \* time to live in ticks, DEFAULT_LOCK_TTL_MS
    MaxRetries,  \* MAX_LOCK_RETRIES
    MaxRevokes   \* bound: administrators' forced releases

ASSUME LockAssumption ==
    /\ Ttl \in Nat \ {0} /\ MaxRetries \in Nat \ {0} /\ MaxRevokes \in Nat
    /\ Sessions \subseteq Nat /\ 0 \in Sessions
    /\ NoValue \notin Clients \X Sessions

VARIABLES
    key,     \* the Redis key: its value and its remaining time
    lock,    \* what each client is doing with its Lock
    revoked  \* forced releases so far

lockVars == <<key, lock, revoked>>

Values == Clients \X Sessions
Absent == [value |-> NoValue, ttl |-> 0]

LockTypeOK ==
    /\ key \in [value : Values, ttl : 1..Ttl] \cup {Absent}
    /\ lock \in [Clients -> [pc : {"idle", "trying", "working"}, session : Sessions,
                             retries : 0..(MaxRetries - 1), remaining : 0..Ttl,
                             renewing : BOOLEAN]]
    /\ revoked \in 0..MaxRevokes

LockInit ==
    /\ key = Absent
    /\ lock = [c \in Clients |-> [pc |-> "idle", session |-> 0, retries |-> 0,
                                  remaining |-> 0, renewing |-> FALSE]]
    /\ revoked = 0

Mine(c) == <<c, lock[c].session>>
EndSession(c) == [lock EXCEPT ![c] = [@ EXCEPT !.pc = "idle", !.retries = 0,
                                               !.remaining = 0, !.renewing = FALSE]]

\* with a value of its own: time, random text and process
CallAcquire(c) ==
    /\ lock[c].pc = "idle"
    /\ \E s \in Sessions :
          /\ key.value # <<c, s>>
          /\ lock' = [lock EXCEPT ![c] = [@ EXCEPT !.pc = "trying", !.session = s]]
    /\ UNCHANGED <<key, revoked>>

\* SET NX PX, and withLock starts the renewal
SetKey(c) ==
    /\ lock[c].pc = "trying" /\ key = Absent
    /\ key' = [value |-> Mine(c), ttl |-> Ttl]
    /\ lock' = [lock EXCEPT ![c] = [@ EXCEPT !.pc = "working", !.retries = 0,
                                             !.remaining = Ttl, !.renewing = TRUE]]
    /\ UNCHANGED revoked

\* without the bound of the loop
RetryForEver(c) == lock' = [lock EXCEPT ![c].retries = @ + 1]

RetryAcquire(c) ==
    lock' = IF lock[c].retries + 1 < MaxRetries
            THEN [lock EXCEPT ![c].retries = @ + 1] ELSE EndSession(c)

\* the key is there, or the call failed
AcquireFails(c) ==
    /\ lock[c].pc = "trying"
    /\ RetryAcquire(c)
    /\ UNCHANGED <<key, revoked>>

\* the key was set but the client learns of an error: it tries the same value
\* again, and nobody will release the key
ReplyLost(c) ==
    /\ lock[c].pc = "trying" /\ key = Absent
    /\ key' = [value |-> Mine(c), ttl |-> Ttl]
    /\ RetryAcquire(c)
    /\ UNCHANGED revoked

\* the timer extends the key only when less than half of its time is left, by
\* the client's clock, which it sets when it learns that it did; if the key is
\* not its own any more, it stops
RenewLock(c) ==
    /\ lock[c].renewing /\ 2 * lock[c].remaining < Ttl
    /\ \/ /\ key.value = Mine(c)
          /\ key' = [key EXCEPT !.ttl = Ttl]
          /\ lock' \in {lock, [lock EXCEPT ![c].remaining = Ttl]}
       \/ /\ key.value # Mine(c)
          /\ lock' = [lock EXCEPT ![c].renewing = FALSE]
          /\ UNCHANGED key
    /\ UNCHANGED revoked

\* without a look at the value
DeleteAny(c) ==
    /\ lock[c].pc = "working"
    /\ key' = Absent
    /\ lock' = EndSession(c)
    /\ UNCHANGED revoked

ReleaseLock(c) ==
    /\ lock[c].pc = "working"
    /\ key' = IF key.value = Mine(c) THEN Absent ELSE key
    /\ lock' = EndSession(c)
    /\ UNCHANGED revoked

\* the script never ran, or the process died: the key stays until it expires
LeaveKey(c) ==
    /\ lock[c].pc # "idle"
    /\ lock' = EndSession(c)
    /\ UNCHANGED <<key, revoked>>

ForceReleaseLock ==
    /\ revoked < MaxRevokes /\ key # Absent
    /\ key' = Absent
    /\ revoked' = revoked + 1
    /\ UNCHANGED lock

Tick ==
    /\ key # Absent \/ \E c \in Clients : lock[c].remaining > 0
    /\ key' = IF key.ttl > 1 THEN [key EXCEPT !.ttl = @ - 1] ELSE Absent
    /\ lock' = [c \in Clients |->
                  [lock[c] EXCEPT !.remaining = IF @ > 0 THEN @ - 1 ELSE 0]]
    /\ UNCHANGED revoked

WithLock(c) ==
    \/ CallAcquire(c) \/ SetKey(c) \/ AcquireFails(c) \/ ReplyLost(c)
    \/ RenewLock(c) \/ ReleaseLock(c) \/ LeaveKey(c)

LockNext == (\E c \in Clients : WithLock(c)) \/ ForceReleaseLock \/ Tick

LockSpec == LockInit /\ [][LockNext]_lockVars

-----------------------------------------------------------------------------

Working == {c \in Clients : lock[c].pc = "working"}

LockLease == INSTANCE Lease WITH
    Holders <- Values, NoHolder <- NoValue, Term <- Ttl,
    holder <- key.value, term <- key.ttl,
    users <- {Mine(c) : c \in Working}, revocations <- revoked

\* A client whose key has expired or was removed, whose replies get lost or
\* whose timer fires late never releases or prolongs the key of the client
\* that has it now, and gets it only when it is free: the lock is a lease.
LockIsALease == LockLease!LeaseSpec
=============================================================================
