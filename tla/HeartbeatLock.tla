---------------------------- MODULE HeartbeatLock ----------------------------
(***************************************************************************)
(* lib/heartbeat-lock.ts: one Redis key per order, set with NX and a time  *)
(* to live, kept alive by an interval timer of its holder.  A session is   *)
(* the LockSession object of one job slot; the worker process it runs in   *)
(* is its ownerId, which the slots of one process share.  Fencing tokens   *)
(* are compared for equality only, and INCR makes every one new: the token *)
(* of a lock stands for the slot whose session took it, until that session *)
(* is gone.  The operators are the Redis calls; DeliveryPipeline puts them *)
(* in sequence.                                                            *)
(***************************************************************************)
EXTENDS Naturals

CONSTANTS
    Orders,    \* one lock per order
    Slots,     \* job slots of all worker processes
    Owner,     \* the process of a slot: WORKER_ID
    Ttl,       \* time to live of the key, in heartbeat intervals
    MaxTries,  \* tries to get the key: 3 in the code
    MayStall,  \* whether live processes may stall, their timers with them
    Nobody     \* no owner, no session

ASSUME LockAssumption ==
    /\ DOMAIN Owner = Slots
    /\ Ttl \in Nat \ {0} /\ MaxTries \in Nat \ {0}
    /\ MayStall \in BOOLEAN
    /\ Nobody \notin Slots /\ \A s \in Slots : Owner[s] # Nobody

VARIABLES
    lock,      \* lock:order:<id>, with the remaining life of the key
    session    \* what a slot knows of its lock

lockVars == <<lock, session>>

Processes == {Owner[s] : s \in Slots}

Free == [owner |-> Nobody, token |-> Nobody, left |-> 0]

\* beat: the timer is off, waits for its interval, or has read the key and is
\* about to extend it; or the session has read the key to delete it
NoSession == [tries |-> 0, beat |-> "off", due |-> FALSE]

LockTypeOK ==
    /\ lock \in [Orders -> {Free} \cup
                   [owner : Processes, token : Slots \cup {Nobody}, left : 1..Ttl]]
    /\ session \in [Slots -> [tries : 0..MaxTries, due : BOOLEAN,
                              beat : {"off", "on", "renew", "closing"}]]

LockInit ==
    /\ lock = [o \in Orders |-> Free]
    /\ session = [s \in Slots |-> NoSession]

Held(s) == [owner |-> Owner[s], token |-> s, left |-> Ttl]

\* SET PX NX answered OK: the session starts its heartbeat
AcquireLock(s, o) ==
    /\ lock[o] = Free
    /\ lock' = [lock EXCEPT ![o] = Held(s)]
    /\ session' = [session EXCEPT ![s].beat = "on"]

\* SET without NX
AcquireTakenLock(s, o) ==
    /\ lock' = [lock EXCEPT ![o] = Held(s)]
    /\ session' = [session EXCEPT ![s].beat = "on"]

\* the loop forgets to count
LockBusyUncounted(s, o) ==
    /\ lock[o] # Free
    /\ UNCHANGED lockVars

LockBusy(s, o) ==
    /\ lock[o] # Free
    /\ session' = [session EXCEPT ![s].tries = @ + 1]
    /\ UNCHANGED lock

\* the last try in vain: null instead of a session
AbandonLock(s, o) ==
    /\ lock[o] # Free
    /\ session' = [session EXCEPT ![s] = NoSession]
    /\ UNCHANGED lock

\* the interval callback looks at the owner of the key only ...
HeartbeatReads(s, o) ==
    /\ session[s].beat = "on" /\ session[s].due
    /\ session' = [session EXCEPT ![s].due = FALSE,
          ![s].beat = IF lock[o].owner = Owner[s] THEN "renew" ELSE "off"]
    /\ UNCHANGED lock

\* the interval callback forgets to extend the key
HeartbeatRenewsNothing(s, o) ==
    /\ session[s].beat = "renew"
    /\ session' = [session EXCEPT ![s].beat = "on"]
    /\ UNCHANGED lock

\* ... and extends whatever key is there by then
HeartbeatRenews(s, o) ==
    /\ session[s].beat = "renew"
    /\ lock' = [lock EXCEPT ![o].left = IF lock[o] = Free THEN 0 ELSE Ttl]
    /\ session' = [session EXCEPT ![s].beat = "on"]

StillHolds(s, o) == lock[o].owner = Owner[s] /\ lock[o].token = s

\* releaseLock stops the timer and reads the key ...  All calls of a process
\* go through one connection, so a renewal under way reaches Redis before.
CloseSession(s, o) ==
    /\ session[s].beat # "renew"
    /\ session' = [session EXCEPT ![s] =
          IF StillHolds(s, o) THEN [NoSession EXCEPT !.beat = "closing"] ELSE NoSession]
    /\ UNCHANGED lock

\* ... and deletes it, whoever holds it by then
DeleteLock(s, o) ==
    /\ session[s].beat = "closing"
    /\ lock' = [lock EXCEPT ![o] = Free]
    /\ session' = [session EXCEPT ![s] = NoSession]

\* One heartbeat interval passes: keys age, and every timer is due.  While
\* processes keep their pace each timer has fired since the last time, and
\* no call to Redis takes that long; of stalled ones no timer fires.
Tick ==
    /\ \E o \in Orders : lock[o] # Free
    /\ \/ MayStall
       \/ \A s \in Slots : session[s].beat \in {"on", "off"} /\ ~session[s].due
    /\ lock' = [o \in Orders |->
                  IF lock[o].left <= 1 THEN Free ELSE [lock[o] EXCEPT !.left = @ - 1]]
    /\ session' = [s \in Slots |-> [session[s] EXCEPT !.due = session[s].beat = "on" /\ ~MayStall]]

\* The process of the slots dies, and its timers with it; its keys stay.
ForgetSessions(dead) ==
    /\ session' = [s \in Slots |-> IF s \in dead THEN NoSession ELSE session[s]]
    /\ lock' = [o \in Orders |->
                  IF lock[o].token \in dead THEN [lock[o] EXCEPT !.token = Nobody] ELSE lock[o]]
=============================================================================
