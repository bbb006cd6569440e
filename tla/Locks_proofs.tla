----------------------------- MODULE Locks_proofs -----------------------------
(* What keeps two processes apart, for any number of processes: the lock of  *)
(* lib/distributed-lock.ts and the claim of a DeliveryState row are leases,  *)
(* the run flag of a cron lets runs overlap only when one is overdue, and    *)
(* every row, key and process keeps its type.                                *)
EXTENDS MCLocks, TLAPS

-----------------------------------------------------------------------------
(* The run flag.                                                           *)

\* As long as no run has been overdue the one run in progress has the flag,
\* and its age is the time since the flag was taken.
FlagIsHeld ==
    ~overdue =>
        \A c \in Crons : Active(c) =>
            /\ isRunning /\ sinceLast = run[c] /\ run[c] < Timeout
            /\ \A d \in Crons \ {c} : ~Active(d)

FlagInv == FlagTypeOK /\ FlagIsHeld

-----------------------------------------------------------------------------

LEMMA StartKeeps ==
    ASSUME FlagInv, NEW c \in Crons, Start(c)
    PROVE  FlagInv'
  <1> USE RunFlagAssumption DEF FlagInv, FlagTypeOK, Start, Active, NoRun
  <1>1. ~overdue => \A d \in Crons : ~Active(d)
    BY DEF FlagIsHeld, Skipped
  <1>2. FlagIsHeld'
    BY <1>1 DEF FlagIsHeld
  <1> QED BY <1>2

LEMMA FinishKeeps ==
    ASSUME FlagInv, NEW c \in Crons, Finish(c)
    PROVE  FlagInv'
  BY RunFlagAssumption DEF FlagInv, FlagTypeOK, FlagIsHeld, Finish, Active, NoRun

LEMMA CrashKeeps ==
    ASSUME FlagInv, Crash
    PROVE  FlagInv'
  <1> USE RunFlagAssumption DEF FlagInv, FlagTypeOK, Crash
  <1>1. FlagTypeOK'
    <2>1. run' \in [Crons -> {NoRun} \cup 0..Timeout]
      OBVIOUS
    <2>2. sinceLast' \in 0..Timeout
      OBVIOUS
    <2>3. isRunning' \in BOOLEAN /\ overdue' \in BOOLEAN
      BY Zenon
    <2> QED BY <2>1, <2>2, <2>3
  <1>2. FlagIsHeld'
    BY DEF FlagIsHeld, Active
  <1> QED BY <1>1, <1>2

LEMMA TimeKeeps ==
    ASSUME FlagInv, TimePasses
    PROVE  FlagInv'
  <1> USE RunFlagAssumption DEF FlagInv, FlagTypeOK, TimePasses, Active, NoRun
  <1>1. \A c \in Crons : (run'[c] = NoRun <=> run[c] = NoRun) /\ run'[c] = Older(run[c])
    BY DEF Older
  <1>2. FlagTypeOK'
    BY DEF Older
  <1>3. FlagIsHeld'
    <2> SUFFICES ASSUME ~overdue', NEW c \in Crons, Active(c)'
                 PROVE  /\ isRunning' /\ sinceLast' = run'[c] /\ run'[c] < Timeout
                        /\ \A d \in Crons \ {c} : ~Active(d)'
      BY DEF FlagIsHeld
    <2>1. ~overdue /\ run'[c] # Timeout
      OBVIOUS
    <2>2. isRunning /\ sinceLast = run[c] /\ \A d \in Crons \ {c} : ~Active(d)
      BY <1>1, <2>1 DEF FlagIsHeld
    <2>3. run'[c] \in 0..Timeout /\ sinceLast' = run'[c]
      BY <1>1, <1>2, <2>2
    <2> QED BY <1>1, <2>1, <2>2, <2>3
  <1> QED BY <1>2, <1>3

LEMMA FlagInitially ==
    ASSUME FlagInit
    PROVE  FlagInv
  <1> USE RunFlagAssumption DEF FlagInit
  <1>1. run \in [Crons -> {NoRun} \cup 0..Timeout]
    OBVIOUS
  <1>2. sinceLast \in 0..Timeout
    OBVIOUS
  <1>3. FlagIsHeld
    BY DEF FlagIsHeld, Active
  <1> QED BY <1>1, <1>2, <1>3 DEF FlagInv, FlagTypeOK

LEMMA FlagStepKeeps ==
    ASSUME FlagInv, [FlagNext]_flagVars
    PROVE  FlagInv'
  <1>1. CASE UNCHANGED flagVars
    BY <1>1 DEF flagVars, FlagInv, FlagTypeOK, FlagIsHeld, Active
  <1>2. CASE FlagNext
    BY <1>2, StartKeeps, FinishKeeps, CrashKeeps, TimeKeeps DEF FlagNext
  <1> QED BY <1>1, <1>2

\* Two runs of the delivery or of the reconcile cron are in progress together
\* only after a run has taken as long as the time-out (OverlapNeedsOverdue).
THEOREM OverlapCorrect == FlagSpec => []OverlapNeedsOverdue
  <1>1. FlagInit => FlagInv
    BY FlagInitially
  <1>2. FlagInv /\ [FlagNext]_flagVars => FlagInv'
    BY FlagStepKeeps
  <1>3. FlagInv => OverlapNeedsOverdue
    BY DEF FlagInv, FlagIsHeld, OverlapNeedsOverdue
  <1> QED BY <1>1, <1>2, <1>3, PTL DEF FlagSpec

-----------------------------------------------------------------------------
(* The lock of lib/distributed-lock.ts.                                    *)

Holding == [pc : {"idle", "trying", "working"}, session : Sessions,
            retries : 0..(MaxRetries - 1), remaining : 0..Ttl, renewing : BOOLEAN]

\* The renewal timer of a client runs only while it works under the lock.
LockInv ==
    /\ LockTypeOK
    /\ \A c \in Clients : lock[c].renewing => c \in Working

Users == {Mine(c) : c \in Working}

-----------------------------------------------------------------------------
(* What a client's step does to its entry.                                 *)

LEMMA HoldingShape ==
    LockTypeOK => lock \in [Clients -> Holding]
  BY DEF LockTypeOK, Holding

\* The updates of an entry, with parameters in place of the ranges, which are
\* of no concern.
Entries(P, S, R, T) == [pc : P, session : S, retries : R, remaining : T, renewing : BOOLEAN]

LEMMA EntriesChange ==
    ASSUME NEW P, NEW S, NEW R, NEW T, NEW e \in Entries(P, S, R, T),
           NEW pc \in P, NEW n \in R, NEW t \in T, NEW b \in BOOLEAN
    PROVE  [e EXCEPT !.pc = pc, !.retries = n, !.remaining = t,
                     !.renewing = b] \in Entries(P, S, R, T)
  BY DEF Entries

LEMMA RetriesChange ==
    ASSUME NEW P, NEW S, NEW R, NEW T, NEW e \in Entries(P, S, R, T), NEW n \in R
    PROVE  [e EXCEPT !.retries = n] \in Entries(P, S, R, T)
  BY DEF Entries

LEMMA RemainingChanges ==
    ASSUME NEW P, NEW S, NEW R, NEW T, NEW e \in Entries(P, S, R, T), NEW t \in T
    PROVE  [e EXCEPT !.remaining = t] \in Entries(P, S, R, T)
  BY DEF Entries

LEMMA HoldingIsEntries ==
    Holding = Entries({"idle", "trying", "working"}, Sessions, 0..(MaxRetries - 1), 0..Ttl)
  BY DEF Holding, Entries

\* A step of c that changes its entry to `new' and keeps the session of a
\* client at work keeps what is said of all clients, and the others' users.
LEMMA EntryMoves ==
    ASSUME LockInv, NEW c \in Clients, NEW new \in Holding,
           new.renewing => new.pc = "working",
           lock' = [lock EXCEPT ![c] = new]
    PROVE  /\ lock' \in [Clients -> Holding] /\ lock'[c] = new
           /\ \A d \in Clients \ {c} : lock'[d] = lock[d]
           /\ \A d \in Clients : lock'[d].renewing => d \in Working'
           /\ new.pc # "working" /\ c \notin Working => Users' = Users
           /\ new.pc # "working" /\ c \in Working => Users' = Users \ {Mine(c)}
           /\ new.pc = "working" /\ new.session = lock[c].session
                 => Users' = Users \cup {Mine(c)}
  <1>1. lock \in [Clients -> Holding]
    BY HoldingShape DEF LockInv
  <1>2. /\ lock' \in [Clients -> Holding] /\ lock'[c] = new
        /\ \A d \in Clients \ {c} : lock'[d] = lock[d]
    BY <1>1
  <1>3. \A d \in Clients : lock'[d].renewing => d \in Working'
    BY <1>2 DEF LockInv, Working
  <1>4. ASSUME new.pc # "working"
        PROVE  /\ c \notin Working => Users' = Users
               /\ c \in Working => Users' = Users \ {Mine(c)}
    <2>1. Working' = Working \ {c}
      BY <1>2, <1>4 DEF Working
    <2>2. \A d \in Working' : Mine(d)' = Mine(d) /\ Mine(d) # Mine(c)
      BY <1>2, <2>1 DEF Working, Mine
    <2> QED BY <2>1, <2>2 DEF Users
  <1>5. ASSUME new.pc = "working", new.session = lock[c].session
        PROVE  Users' = Users \cup {Mine(c)}
    <2>1. Working' = Working \cup {c}
      BY <1>2, <1>5 DEF Working
    <2>2. \A d \in Working' : Mine(d)' = Mine(d)
      BY <1>2, <1>5, <2>1 DEF Working, Mine
    <2> QED BY <2>1, <2>2 DEF Users
  <1> QED BY <1>2, <1>3, <1>4, <1>5

\* The end of a session makes a client idle.
LEMMA SessionEnds ==
    ASSUME LockInv, NEW c \in Clients, lock' = EndSession(c)
    PROVE  /\ lock' \in [Clients -> Holding]
           /\ \A d \in Clients : lock'[d].renewing => d \in Working'
           /\ c \notin Working => Users' = Users
           /\ c \in Working => Users' = Users \ {Mine(c)}
  <1> DEFINE new == [lock[c] EXCEPT !.pc = "idle", !.retries = 0,
                                    !.remaining = 0, !.renewing = FALSE]
  <1>1. lock \in [Clients -> Holding]
    BY HoldingShape DEF LockInv
  <1>2. new \in Holding
    <2>1. 0 \in 0..(MaxRetries - 1) /\ 0 \in 0..Ttl
      BY LockAssumption
    <2> QED BY <1>1, <2>1, HoldingIsEntries, EntriesChange
  <1>4. new.pc = "idle" /\ ~new.renewing
    BY <1>1 DEF Holding
  <1>3. lock' = [lock EXCEPT ![c] = new]
    BY <1>1 DEF EndSession
  <1> HIDE DEF new
  <1> QED BY <1>2, <1>3, <1>4, EntryMoves

-----------------------------------------------------------------------------
(* Every step keeps the invariant and is a step of the lease or a stutter. *)

LeaseStep == [LockLease!LeaseNext]_(<<key.value, key.ttl, Users, revoked>>)

\* What a step has to show when the key and the forced releases keep types.
LEMMA InvKept ==
    ASSUME LockInv,
           key' \in [value : Values, ttl : 1..Ttl] \cup {Absent}, revoked' \in 0..MaxRevokes,
           lock' \in [Clients -> Holding],
           \A d \in Clients : lock'[d].renewing => d \in Working'
    PROVE  LockInv'
  BY DEF LockInv, LockTypeOK, Holding

LEMMA KeyTyped ==
    ASSUME LockInv
    PROVE  /\ key \in [value : Values, ttl : 1..Ttl] \cup {Absent}
           /\ revoked \in 0..MaxRevokes
           /\ key # Absent => key.value \in Values /\ key.ttl \in 1..Ttl
           /\ key = Absent => key.value = NoValue /\ key.ttl = 0
           /\ key.value = NoValue => key = Absent
           /\ \A c \in Clients : Mine(c) \in Values
  <1>1. \A c \in Clients : Mine(c) \in Values
    BY DEF LockInv, LockTypeOK, Mine, Values
  <1>2. NoValue \notin Values
    BY LockAssumption DEF Values
  <1> QED BY <1>1, <1>2 DEF LockInv, LockTypeOK, Absent

LEMMA CallAcquireKeeps ==
    ASSUME LockInv, NEW c \in Clients, CallAcquire(c)
    PROVE  LockInv' /\ LeaseStep
  <1>1. PICK s \in Sessions : lock' = [lock EXCEPT ![c] = [@ EXCEPT !.pc = "trying", !.session = s]]
    BY DEF CallAcquire
  <1> DEFINE new == [lock[c] EXCEPT !.pc = "trying", !.session = s]
  <1>2. lock \in [Clients -> Holding] /\ ~lock[c].renewing /\ c \notin Working
    BY HoldingShape DEF LockInv, Working, CallAcquire
  <1>3. new \in Holding /\ new.pc = "trying" /\ ~new.renewing
    BY <1>2 DEF Holding
  <1>4. lock' = [lock EXCEPT ![c] = new]
    BY <1>1
  <1> HIDE DEF new
  <1>5. Users' = Users
    BY <1>2, <1>3, <1>4, EntryMoves
  <1>6. UNCHANGED <<key, revoked>>
    BY DEF CallAcquire
  <1> QED BY <1>2, <1>3, <1>4, <1>5, <1>6, EntryMoves, KeyTyped, InvKept DEF LeaseStep

LEMMA SetKeyKeeps ==
    ASSUME LockInv, NEW c \in Clients, SetKey(c)
    PROVE  LockInv' /\ LeaseStep
  <1> DEFINE new == [lock[c] EXCEPT !.pc = "working", !.retries = 0,
                                    !.remaining = Ttl, !.renewing = TRUE]
  <1>1. lock \in [Clients -> Holding]
    BY HoldingShape DEF LockInv
  <1>2. new \in Holding
    <2>1. 0 \in 0..(MaxRetries - 1) /\ Ttl \in 0..Ttl
      BY LockAssumption
    <2> QED BY <1>1, <2>1, HoldingIsEntries, EntriesChange
  <1>3. new.pc = "working" /\ new.session = lock[c].session
    BY <1>1 DEF Holding
  <1>4. lock' = [lock EXCEPT ![c] = new]
    BY DEF SetKey
  <1> HIDE DEF new
  <1>5. key = Absent /\ key' = [value |-> Mine(c), ttl |-> Ttl] /\ UNCHANGED revoked
    BY DEF SetKey
  <1>6. Users' = Users \cup {Mine(c)}
    BY <1>2, <1>3, <1>4, EntryMoves
  <1>7. LockLease!Acquire(Mine(c))
    BY <1>5, <1>6 DEF LockLease!Acquire, Users, Absent
  <1>8. LeaseStep
    BY <1>7, KeyTyped DEF LeaseStep, LockLease!LeaseNext
  <1>9. key' \in [value : Values, ttl : 1..Ttl]
    BY <1>5, KeyTyped, LockAssumption
  <1> QED BY <1>2, <1>3, <1>4, <1>5, <1>8, <1>9, EntryMoves, KeyTyped, InvKept

\* Another try, or the end of the session of a client that is not at work.
LEMMA RetryKeeps ==
    ASSUME LockInv, NEW c \in Clients, lock[c].pc = "trying", RetryAcquire(c)
    PROVE  /\ lock' \in [Clients -> Holding]
           /\ \A d \in Clients : lock'[d].renewing => d \in Working'
           /\ Users' = Users
  <1>1. lock \in [Clients -> Holding] /\ c \notin Working /\ ~lock[c].renewing
    BY HoldingShape DEF LockInv, Working
  <1>2. CASE lock[c].retries + 1 < MaxRetries
    <2> DEFINE new == [lock[c] EXCEPT !.retries = lock[c].retries + 1]
    <2>1. lock[c].retries + 1 \in 0..(MaxRetries - 1)
      BY <1>1, <1>2, LockAssumption DEF Holding
    <2>2. new \in Holding
      BY <1>1, <2>1, HoldingIsEntries, RetriesChange
    <2>3. new.pc = "trying" /\ ~new.renewing
      BY <1>1 DEF Holding
    <2>4. lock' = [lock EXCEPT ![c] = new]
      BY <1>2 DEF RetryAcquire
    <2> HIDE DEF new
    <2> QED BY <1>1, <2>2, <2>3, <2>4, EntryMoves
  <1>3. CASE ~(lock[c].retries + 1 < MaxRetries)
    <2>1. lock' = EndSession(c)
      BY <1>3 DEF RetryAcquire
    <2> QED BY <1>1, <2>1, SessionEnds
  <1> QED BY <1>2, <1>3

LEMMA AcquireFailsKeeps ==
    ASSUME LockInv, NEW c \in Clients, AcquireFails(c)
    PROVE  LockInv' /\ LeaseStep
  BY RetryKeeps, KeyTyped, InvKept DEF AcquireFails, LeaseStep

\* The lease is taken by somebody who does not know.
LEMMA ReplyLostKeeps ==
    ASSUME LockInv, NEW c \in Clients, ReplyLost(c)
    PROVE  LockInv' /\ LeaseStep
  <1>1. key = Absent /\ key' = [value |-> Mine(c), ttl |-> Ttl] /\ UNCHANGED revoked
    BY DEF ReplyLost
  <1>2. Users' = Users
    BY RetryKeeps DEF ReplyLost
  <1>3. LockLease!Acquire(Mine(c))
    BY <1>1, <1>2 DEF LockLease!Acquire, Users, Absent
  <1>4. LeaseStep
    BY <1>3, KeyTyped DEF LeaseStep, LockLease!LeaseNext
  <1>5. key' \in [value : Values, ttl : 1..Ttl]
    BY <1>1, KeyTyped, LockAssumption
  <1> QED BY <1>1, <1>4, <1>5, RetryKeeps, KeyTyped, InvKept DEF ReplyLost

-----------------------------------------------------------------------------

\* The timer writes the time that the client believes is left, or stops.
LEMMA TimerMoves ==
    ASSUME LockInv, NEW c \in Clients, RenewLock(c)
    PROVE  /\ lock' \in [Clients -> Holding]
           /\ \A d \in Clients : lock'[d].renewing => d \in Working'
           /\ Users' = Users
  <1>1. lock \in [Clients -> Holding] /\ c \in Working /\ lock[c].pc = "working"
    BY HoldingShape DEF LockInv, RenewLock, Working
  <1>2. CASE lock' = lock
    BY <1>1, <1>2 DEF Users, Working, Mine, LockInv
  <1>3. CASE lock' = [lock EXCEPT ![c].remaining = Ttl]
    <2> DEFINE new == [lock[c] EXCEPT !.remaining = Ttl]
    <2>1. new \in Holding
      <3>1. Ttl \in 0..Ttl
        BY LockAssumption
      <3> QED BY <1>1, <3>1, HoldingIsEntries, RemainingChanges
    <2>2. new.pc = "working" /\ new.session = lock[c].session
      BY <1>1 DEF Holding
    <2>3. lock' = [lock EXCEPT ![c] = new]
      BY <1>3
    <2> HIDE DEF new
    <2> QED BY <1>1, <2>1, <2>2, <2>3, EntryMoves DEF Users
  <1>4. CASE lock' = [lock EXCEPT ![c].renewing = FALSE]
    <2> DEFINE new == [lock[c] EXCEPT !.renewing = FALSE]
    <2>1. new \in Holding /\ new.pc = "working" /\ new.session = lock[c].session
      BY <1>1 DEF Holding
    <2>2. lock' = [lock EXCEPT ![c] = new]
      BY <1>4
    <2> HIDE DEF new
    <2> QED BY <1>1, <2>1, <2>2, EntryMoves DEF Users
  <1> QED BY <1>2, <1>3, <1>4 DEF RenewLock

LEMMA RenewLockKeeps ==
    ASSUME LockInv, NEW c \in Clients, RenewLock(c)
    PROVE  LockInv' /\ LeaseStep
  <1>1. CASE key.value = Mine(c) /\ key' = [key EXCEPT !.ttl = Ttl]
    <2>1. key \in [value : Values, ttl : 1..Ttl] /\ UNCHANGED revoked
      BY <1>1, KeyTyped, LockAssumption DEF RenewLock, Absent, Values
    <2>2. key' \in [value : Values, ttl : 1..Ttl] /\ key'.ttl = Ttl /\ key'.value = key.value
      BY <1>1, <2>1, LockAssumption
    <2>3. key.value \in Users
      BY <1>1 DEF RenewLock, LockInv, Users
    <2>4. LockLease!Renew
      BY <2>1, <2>2, <2>3, TimerMoves DEF LockLease!Renew, Users
    <2>5. LeaseStep
      BY <2>4 DEF LeaseStep, LockLease!LeaseNext
    <2> QED BY <2>1, <2>2, <2>5, KeyTyped, TimerMoves, InvKept
  <1>2. CASE UNCHANGED key
    BY <1>2, KeyTyped, TimerMoves, InvKept DEF RenewLock, LeaseStep
  <1> QED BY <1>1, <1>2 DEF RenewLock

LEMMA ReleaseLockKeeps ==
    ASSUME LockInv, NEW c \in Clients, ReleaseLock(c)
    PROVE  LockInv' /\ LeaseStep
  <1>1. lock' = EndSession(c) /\ UNCHANGED revoked /\ c \in Working /\ Mine(c) \in Values
    BY KeyTyped DEF ReleaseLock, Working
  <1>2. Users' = Users \ {Mine(c)} /\ Mine(c) \in Users
    BY <1>1, SessionEnds DEF Users
  <1>3. CASE key.value = Mine(c) /\ key' = Absent
    <2>1. LockLease!Release(Mine(c))
      BY <1>1, <1>2, <1>3 DEF LockLease!Release, Users, Absent
    <2>2. LeaseStep
      BY <1>1, <2>1 DEF LeaseStep, LockLease!LeaseNext
    <2> QED BY <1>1, <1>3, <2>2, KeyTyped, SessionEnds, InvKept
  <1>4. CASE key' = key
    <2>1. LockLease!Leave(Mine(c))
      BY <1>1, <1>2, <1>4 DEF LockLease!Leave, Users
    <2>2. LeaseStep
      BY <1>1, <2>1 DEF LeaseStep, LockLease!LeaseNext
    <2> QED BY <1>1, <1>4, <2>2, KeyTyped, SessionEnds, InvKept
  <1> QED BY <1>3, <1>4 DEF ReleaseLock

LEMMA LeaveKeyKeeps ==
    ASSUME LockInv, NEW c \in Clients, LeaveKey(c)
    PROVE  LockInv' /\ LeaseStep
  <1>1. lock' = EndSession(c) /\ UNCHANGED <<key, revoked>> /\ Mine(c) \in Values
    BY KeyTyped DEF LeaveKey
  <1>2. LockInv'
    BY <1>1, KeyTyped, SessionEnds, InvKept
  <1>3. CASE c \in Working
    <2>1. Users' = Users \ {Mine(c)}
      BY <1>1, <1>3, SessionEnds
    <2>2. LockLease!Leave(Mine(c))
      BY <1>1, <2>1 DEF LockLease!Leave, Users
    <2> QED BY <1>1, <1>2, <2>2 DEF LeaseStep, LockLease!LeaseNext
  <1>4. CASE c \notin Working
    BY <1>1, <1>2, <1>4, SessionEnds DEF LeaseStep
  <1> QED BY <1>3, <1>4

LEMMA ForceReleaseKeeps ==
    ASSUME LockInv, ForceReleaseLock
    PROVE  LockInv' /\ LeaseStep
  <1>1. key' = Absent /\ lock' = lock /\ revoked' = revoked + 1 /\ revoked' \in 0..MaxRevokes
    BY KeyTyped, LockAssumption DEF ForceReleaseLock
  <1>2. Users' = Users /\ Working' = Working
    BY <1>1 DEF Users, Working, Mine
  <1>3. LockLease!Revoke
    BY <1>1, <1>2 DEF LockLease!Revoke, Users, Absent
  <1>4. LeaseStep
    BY <1>3 DEF LeaseStep, LockLease!LeaseNext
  <1> QED BY <1>1, <1>2, <1>4, HoldingShape, InvKept DEF LockInv

\* Time passes for the key and for what the clients believe is left.
LEMMA TickKeeps ==
    ASSUME LockInv, Tick
    PROVE  LockInv' /\ LeaseStep
  <1> DEFINE older(c) == [lock[c] EXCEPT !.remaining = IF @ > 0 THEN @ - 1 ELSE 0]
  <1>1. lock \in [Clients -> Holding] /\ UNCHANGED revoked
    BY HoldingShape DEF LockInv, Tick
  <1>2. \A c \in Clients : /\ older(c) \in Holding /\ older(c).pc = lock[c].pc
                           /\ older(c).session = lock[c].session
                           /\ older(c).renewing = lock[c].renewing
    <2> SUFFICES ASSUME NEW c \in Clients
                 PROVE  /\ older(c) \in Holding /\ older(c).pc = lock[c].pc
                        /\ older(c).session = lock[c].session
                        /\ older(c).renewing = lock[c].renewing
      OBVIOUS
    <2>1. (IF lock[c].remaining > 0 THEN lock[c].remaining - 1 ELSE 0) \in 0..Ttl
      BY <1>1, LockAssumption DEF Holding
    <2>2. older(c) \in Holding
      BY <1>1, <2>1, HoldingIsEntries, RemainingChanges
    <2> QED BY <1>1, <2>2 DEF Holding
  <1>3. lock' = [c \in Clients |-> older(c)]
    BY DEF Tick
  <1> HIDE DEF older
  <1>4. lock' \in [Clients -> Holding] /\ Working' = Working /\ Users' = Users
    BY <1>2, <1>3 DEF Users, Working, Mine
  <1>5. \A d \in Clients : lock'[d].renewing => d \in Working'
    BY <1>2, <1>3, <1>4 DEF LockInv
  <1>6. CASE key # Absent /\ key.ttl > 1
    <2>1. key \in [value : Values, ttl : 1..Ttl] /\ key' = [key EXCEPT !.ttl = key.ttl - 1]
      BY <1>6, KeyTyped DEF Tick
    <2>2. /\ key' \in [value : Values, ttl : 1..Ttl]
          /\ key'.ttl = key.ttl - 1 /\ key'.value = key.value
      BY <1>6, <2>1, LockAssumption
    <2>3. key.ttl > 0 /\ UNCHANGED <<Users, revoked>>
      BY <1>1, <1>4, <1>6, <2>1
    <2>4. LockLease!TermPasses
      BY <2>2, <2>3 DEF LockLease!TermPasses, Users
    <2>5. LeaseStep
      BY <2>4 DEF LeaseStep, LockLease!LeaseNext
    <2> QED BY <1>1, <1>4, <1>5, <2>2, <2>5, KeyTyped, InvKept
  <1>7. CASE key # Absent /\ ~(key.ttl > 1)
    <2>1. key' = Absent /\ key.ttl = 1
      BY <1>7, KeyTyped, LockAssumption DEF Tick
    <2>2. LockLease!TermPasses
      BY <1>1, <1>4, <2>1 DEF LockLease!TermPasses, Users, Absent
    <2>3. LeaseStep
      BY <2>2 DEF LeaseStep, LockLease!LeaseNext
    <2> QED BY <1>1, <1>4, <1>5, <2>1, <2>3, KeyTyped, InvKept
  <1>8. CASE key = Absent
    <2>1. key' = key
      BY <1>8, KeyTyped DEF Tick
    <2> QED BY <1>1, <1>4, <1>5, <2>1, KeyTyped, InvKept DEF LeaseStep
  <1> QED BY <1>6, <1>7, <1>8

-----------------------------------------------------------------------------

LEMMA LockStepKeeps ==
    ASSUME LockInv, [LockNext]_lockVars
    PROVE  LockInv' /\ LeaseStep
  <1>1. CASE LockNext
    BY <1>1, CallAcquireKeeps, SetKeyKeeps, AcquireFailsKeeps, ReplyLostKeeps, RenewLockKeeps,
       ReleaseLockKeeps, LeaveKeyKeeps, ForceReleaseKeeps, TickKeeps
       DEF LockNext, WithLock
  <1>2. CASE UNCHANGED lockVars
    <2>1. Users' = Users /\ Working' = Working
      BY <1>2 DEF lockVars, Users, Working, Mine
    <2> QED BY <1>2, <2>1, HoldingShape, KeyTyped, InvKept DEF lockVars, LeaseStep, LockInv
  <1> QED BY <1>1, <1>2

LEMMA LockInitially ==
    ASSUME LockInit
    PROVE  LockInv /\ LockLease!LeaseInit
  <1> DEFINE idle == [pc |-> "idle", session |-> 0, retries |-> 0,
                      remaining |-> 0, renewing |-> FALSE]
  <1>1. idle \in Holding /\ idle.pc = "idle" /\ ~idle.renewing
    <2>1. 0 \in Sessions /\ 0 \in 0..(MaxRetries - 1) /\ 0 \in 0..Ttl
      BY LockAssumption
    <2> QED BY <2>1 DEF Holding
  <1>2. lock = [c \in Clients |-> idle]
    BY DEF LockInit
  <1> HIDE DEF idle
  <1>3. lock \in [Clients -> Holding] /\ Working = {} /\ \A c \in Clients : ~lock[c].renewing
    BY <1>1, <1>2 DEF Working
  <1>4. key = Absent /\ revoked = 0 /\ 0 \in 0..MaxRevokes
    BY LockAssumption DEF LockInit
  <1>5. LockInv
    BY <1>3, <1>4 DEF LockInv, LockTypeOK, Holding
  <1>6. LockLease!LeaseInit
    BY <1>3, <1>4 DEF LockLease!LeaseInit, Absent
  <1> QED BY <1>5, <1>6

\* The key, every client and the count of forced releases keep their types
\* (LocksTypeOK of the run has this as its part for the lock).
THEOREM LockTypeCorrect == LockSpec => []LockTypeOK
  <1>1. LockInit => LockInv
    BY LockInitially
  <1>2. LockInv /\ [LockNext]_lockVars => LockInv'
    BY LockStepKeeps
  <1>3. LockInv => LockTypeOK
    BY DEF LockInv
  <1> QED BY <1>1, <1>2, <1>3, PTL DEF LockSpec

\* Whatever replies are lost and however late timers fire and clients notice,
\* the key is a lease: only who has it prolongs or releases it (LockIsALease).
THEOREM LockImplementsLease == LockSpec => LockIsALease
  <1>1. LockInit => LockInv /\ LockLease!LeaseInit
    BY LockInitially
  <1>2. LockInv /\ [LockNext]_lockVars
           => LockInv' /\ [LockLease!LeaseNext]_(LockLease!leaseVars)
    BY LockStepKeeps DEF LeaseStep, LockLease!leaseVars, Users
  <1> QED BY <1>1, <1>2, PTL DEF LockSpec, LockIsALease, LockLease!LeaseSpec

-----------------------------------------------------------------------------
(* The claim of a DeliveryState row.                                       *)

Row == [status : {"PENDING", "IN_PROGRESS"}, lockedBy : Workers \cup {NoWorker},
        left : 0..LockTerm, lockVersion : 0..MaxVersions, due : BOOLEAN]

Known == [pc : {"idle", "validate", "send", "release"}, lockVersion : 0..MaxVersions]

\* A row that waits is nobody's.
JobInv ==
    /\ JobTypeOK
    /\ job.status = "PENDING" => job.lockedBy = NoWorker /\ job.left = 0

ClaimStep == [JobLease!LeaseNext]_(<<job.lockedBy, job.left, Busy, 0>>)

-----------------------------------------------------------------------------

LEMMA ClaimInvKept ==
    ASSUME JobInv, job' \in Row, worker' \in [Workers -> Known], paused' \in BOOLEAN,
           job'.status = "PENDING" => job'.lockedBy = NoWorker /\ job'.left = 0
    PROVE  JobInv'
  BY DEF JobInv, JobTypeOK, Row, Known

LEMMA Typed ==
    ASSUME JobInv
    PROVE  job \in Row /\ worker \in [Workers -> Known] /\ paused \in BOOLEAN
  BY DEF JobInv, JobTypeOK, Row, Known

\* What freeing the row leaves, with or without a new version.
LEMMA FreedRow ==
    ASSUME JobInv
    PROVE  /\ Freed \in Row
           /\ Freed.status = "PENDING" /\ Freed.lockedBy = NoWorker /\ Freed.left = 0
           /\ job.lockVersion < MaxVersions =>
                 /\ [Freed EXCEPT !.lockVersion = @ + 1] \in Row
                 /\ [Freed EXCEPT !.lockVersion = @ + 1].status = "PENDING"
                 /\ [Freed EXCEPT !.lockVersion = @ + 1].lockedBy = NoWorker
                 /\ [Freed EXCEPT !.lockVersion = @ + 1].left = 0
  <1>1. /\ Freed \in Row
        /\ Freed.status = "PENDING" /\ Freed.lockedBy = NoWorker /\ Freed.left = 0
        /\ Freed.lockVersion = job.lockVersion
    <2>1. 0 \in 0..LockTerm
      BY DeliveryLeaseAssumption
    <2> DEFINE L == 0..LockTerm
               V == 0..MaxVersions
    <2>2. Row = [status : {"PENDING", "IN_PROGRESS"}, lockedBy : Workers \cup {NoWorker},
                 left : L, lockVersion : V, due : BOOLEAN]
      BY DEF Row
    <2>3. job \in Row
      BY Typed
    <2> HIDE DEF L, V
    <2> QED BY <2>1, <2>2, <2>3 DEF Freed, L
  <1>2. ASSUME job.lockVersion < MaxVersions
        PROVE  job.lockVersion + 1 \in 0..MaxVersions
    BY <1>2, Typed, DeliveryLeaseAssumption DEF Row
  <1> HIDE DEF Freed
  <1> QED BY <1>1, <1>2 DEF Row

\* A step of a worker to another point of its loop.
LEMMA WorkerGoes ==
    ASSUME JobInv, NEW w \in Workers, NEW pc \in {"idle", "validate", "send", "release"},
           Goto(w, pc)
    PROVE  /\ worker' \in [Workers -> Known]
           /\ pc = "idle" => Busy' = Busy \ {w}
           /\ pc # "idle" /\ w \in Busy => Busy' = Busy
  <1> DEFINE new == [worker[w] EXCEPT !.pc = pc]
  <1>1. new \in Known /\ new.pc = pc
    BY Typed DEF Known
  <1>2. worker' = [worker EXCEPT ![w] = new]
    BY DEF Goto
  <1> HIDE DEF new
  <1> QED BY <1>1, <1>2, Typed DEF Busy

-----------------------------------------------------------------------------

LEMMA ClaimKeeps ==
    ASSUME JobInv, NEW w \in Workers, ClaimDeliveryJob(w)
    PROVE  JobInv' /\ ClaimStep
  <1> DEFINE v == job.lockVersion + 1
             new == [pc |-> "validate", lockVersion |-> v]
             row == [job EXCEPT !.status = "IN_PROGRESS", !.lockedBy = w, !.left = LockTerm,
                                !.lockVersion = v]
  <1>1. job \in Row /\ job.lockedBy = NoWorker /\ job.lockVersion < MaxVersions
        /\ UNCHANGED paused
    BY Typed DEF ClaimDeliveryJob, Claimable, JobInv
  <1>2. v \in 0..MaxVersions /\ LockTerm \in 0..LockTerm
    BY <1>1, DeliveryLeaseAssumption DEF Row
  <1>3. worker' = [worker EXCEPT ![w] = new] /\ job' = row
    BY DEF ClaimDeliveryJob
  <1> HIDE DEF v
  <1>4. new \in Known /\ new.pc = "validate"
    BY <1>2 DEF Known
  <1>5. row \in Row
    <2> DEFINE L == 0..LockTerm
               V == 0..MaxVersions
    <2>1. Row = [status : {"PENDING", "IN_PROGRESS"}, lockedBy : Workers \cup {NoWorker},
                 left : L, lockVersion : V, due : BOOLEAN]
      BY DEF Row
    <2>2. v \in V /\ LockTerm \in L
      BY <1>2
    <2> HIDE DEF L, V
    <2> QED BY <1>1, <2>1, <2>2
  <1>6. row.status = "IN_PROGRESS" /\ row.lockedBy = w /\ row.left = LockTerm
    BY <1>1 DEF Row
  <1> HIDE DEF new, row
  <1>7. worker' \in [Workers -> Known] /\ Busy' = Busy \cup {w}
    BY <1>3, <1>4, Typed DEF Busy
  <1>8. JobLease!Acquire(w)
    BY <1>1, <1>3, <1>6, <1>7 DEF JobLease!Acquire
  <1>9. ClaimStep
    BY <1>8 DEF ClaimStep, JobLease!LeaseNext
  <1> QED BY <1>1, <1>3, <1>5, <1>6, <1>7, <1>9, Typed, ClaimInvKept

LEMMA CircuitOpenKeeps ==
    ASSUME JobInv, NEW w \in Workers, CircuitOpen(w)
    PROVE  JobInv' /\ ClaimStep
  <1>1. /\ job.lockedBy = NoWorker /\ job.left = 0 /\ job.lockVersion < MaxVersions
        /\ job' = [Freed EXCEPT !.lockVersion = @ + 1] /\ UNCHANGED <<worker, paused>>
    BY DEF CircuitOpen, Claimable, JobInv
  <1>2. Busy' = Busy
    BY <1>1 DEF Busy
  <1> QED BY <1>1, <1>2, FreedRow, Typed, ClaimInvKept DEF ClaimStep

\* The steps of a worker that leave the row alone.
LEMMA WorkerStepKeeps ==
    ASSUME JobInv, NEW w \in Workers, w \in Busy, UNCHANGED <<job, paused>>,
           NEW pc \in {"idle", "validate", "send", "release"}, Goto(w, pc)
    PROVE  JobInv' /\ ClaimStep
  <1>1. JobInv'
    BY WorkerGoes, Typed, ClaimInvKept DEF JobInv
  <1>2. CASE pc = "idle"
    <2>1. JobLease!Leave(w)
      BY <1>2, WorkerGoes DEF JobLease!Leave
    <2> QED BY <1>1, <2>1 DEF ClaimStep, JobLease!LeaseNext
  <1>3. CASE pc # "idle"
    BY <1>1, <1>3, WorkerGoes DEF ClaimStep
  <1> QED BY <1>2, <1>3

LEMMA ReleaseFencedKeeps ==
    ASSUME JobInv, NEW w \in Workers, ReleaseFenced(w)
    PROVE  JobInv' /\ ClaimStep
  <1>1. w \in Busy /\ Goto(w, "idle") /\ UNCHANGED paused
    BY DEF ReleaseFenced, Busy
  <1>2. CASE job.lockedBy = w /\ job' = Freed
    <2>1. JobLease!Release(w)
      BY <1>1, <1>2, FreedRow, WorkerGoes DEF JobLease!Release
    <2>2. ClaimStep
      BY <2>1 DEF ClaimStep, JobLease!LeaseNext
    <2> QED BY <1>1, <1>2, <2>2, FreedRow, WorkerGoes, Typed, ClaimInvKept
  <1>3. CASE job' = job
    BY <1>1, <1>3, WorkerStepKeeps
  <1> QED BY <1>2, <1>3 DEF ReleaseFenced

LEMMA RecoverKeeps ==
    ASSUME JobInv, RecoverStuckJobs
    PROVE  JobInv' /\ ClaimStep
  <1>1. /\ job.left = 0 /\ job.lockVersion < MaxVersions
        /\ job' = [Freed EXCEPT !.lockVersion = @ + 1] /\ UNCHANGED <<worker, paused>>
    BY DEF RecoverStuckJobs
  <1>2. Busy' = Busy
    BY <1>1 DEF Busy
  <1>3. JobLease!Lapse
    BY <1>1, <1>2, FreedRow DEF JobLease!Lapse
  <1>4. ClaimStep
    BY <1>3 DEF ClaimStep, JobLease!LeaseNext
  <1> QED BY <1>1, <1>4, FreedRow, Typed, ClaimInvKept

LEMMA LockLapsesKeeps ==
    ASSUME JobInv, LockLapses
    PROVE  JobInv' /\ ClaimStep
  <1>1. /\ job \in Row /\ job.left > 0 /\ job.status # "PENDING"
        /\ job' = [job EXCEPT !.left = job.left - 1] /\ UNCHANGED <<worker, paused>>
    BY Typed DEF LockLapses, JobInv
  <1>2. job.left - 1 \in 0..LockTerm
    BY <1>1, DeliveryLeaseAssumption DEF Row
  <1>3. job' \in Row /\ job'.status = job.status /\ job'.lockedBy = job.lockedBy
        /\ job'.left = job.left - 1
    BY <1>1, <1>2 DEF Row
  <1>4. Busy' = Busy
    BY <1>1 DEF Busy
  <1>5. JobLease!TermPasses
    BY <1>1, <1>3, <1>4 DEF JobLease!TermPasses
  <1>6. ClaimStep
    BY <1>5 DEF ClaimStep, JobLease!LeaseNext
  <1> QED BY <1>1, <1>3, <1>6, Typed, ClaimInvKept

\* The clock and the pause concern no one's claim.
LEMMA EnvironmentKeeps ==
    ASSUME JobInv, NextAttemptComes \/ PauseOrResume
    PROVE  JobInv' /\ ClaimStep
  <1>1. worker' = worker /\ Busy' = Busy
    BY DEF NextAttemptComes, PauseOrResume, Busy
  <1>2. CASE NextAttemptComes
    <2>1. /\ job' \in Row /\ job'.status = job.status
          /\ job'.lockedBy = job.lockedBy /\ job'.left = job.left
      BY <1>2, Typed DEF NextAttemptComes, Row
    <2>2. paused' = paused
      BY <1>2 DEF NextAttemptComes
    <2> QED BY <1>1, <2>1, <2>2, Typed, ClaimInvKept DEF ClaimStep, JobInv
  <1>3. CASE PauseOrResume
    <2>1. paused' \in BOOLEAN
      BY <1>3, Zenon DEF PauseOrResume
    <2>2. job' = job
      BY <1>3 DEF PauseOrResume
    <2> QED BY <1>1, <2>1, <2>2, Typed, ClaimInvKept DEF ClaimStep, JobInv
  <1> QED BY <1>2, <1>3

-----------------------------------------------------------------------------

LEMMA JobStepKeeps ==
    ASSUME JobInv, [JobNext]_jobVars
    PROVE  JobInv' /\ ClaimStep
  <1>1. ASSUME NEW w \in Workers, ValidateLease(w) \/ TransitionState(w) \/ WorkerDies(w)
        PROVE  JobInv' /\ ClaimStep
    <2>1. w \in Busy /\ UNCHANGED <<job, paused>>
      BY <1>1 DEF ValidateLease, TransitionState, WorkerDies, Busy
    <2>2. Goto(w, "send") \/ Goto(w, "idle") \/ Goto(w, "release")
      BY <1>1 DEF ValidateLease, TransitionState, WorkerDies
    <2> QED BY <2>1, <2>2, WorkerStepKeeps
  <1>2. CASE JobNext
    BY <1>1, <1>2, ClaimKeeps, CircuitOpenKeeps, ReleaseFencedKeeps, RecoverKeeps,
       LockLapsesKeeps, EnvironmentKeeps DEF JobNext, RunDeliveryWorker
  <1>3. CASE UNCHANGED jobVars
    <2>1. Busy' = Busy
      BY <1>3 DEF jobVars, Busy
    <2> QED BY <1>3, <2>1, Typed, ClaimInvKept DEF jobVars, ClaimStep, JobInv
  <1> QED BY <1>2, <1>3

LEMMA JobInitially ==
    ASSUME JobInit
    PROVE  JobInv /\ JobLease!LeaseInit
  <1>1. 0 \in 0..LockTerm /\ 0 \in 0..MaxVersions
    BY DeliveryLeaseAssumption
  <1>2. job \in Row /\ job.status = "PENDING" /\ job.lockedBy = NoWorker /\ job.left = 0
    BY <1>1 DEF JobInit, Row
  <1>3. worker \in [Workers -> Known] /\ Busy = {}
    BY <1>1 DEF JobInit, Known, Busy
  <1>4. paused \in BOOLEAN
    BY DEF JobInit
  <1> QED BY <1>2, <1>3, <1>4 DEF JobInv, JobTypeOK, Row, Known, JobLease!LeaseInit

\* The row and every worker keep their types, the version within its bound
\* (LocksTypeOK of the run has this as its part for the claims).
THEOREM JobTypeCorrect == JobSpec => []JobTypeOK
  <1>1. JobInit => JobInv
    BY JobInitially
  <1>2. JobInv /\ [JobNext]_jobVars => JobInv'
    BY JobStepKeeps
  <1>3. JobInv => JobTypeOK
    BY DEF JobInv
  <1> QED BY <1>1, <1>2, <1>3, PTL DEF JobSpec

\* A worker frees only the row it has claimed, and nobody claims it before its
\* time is over, whoever dies or oversleeps (JobIsALease).
THEOREM JobImplementsLease == JobSpec => JobIsALease
  <1>1. JobInit => JobInv /\ JobLease!LeaseInit
    BY JobInitially
  <1>2. JobInv /\ [JobNext]_jobVars
           => JobInv' /\ [JobLease!LeaseNext]_(JobLease!leaseVars)
    BY JobStepKeeps DEF ClaimStep, JobLease!leaseVars
  <1> QED BY <1>1, <1>2, PTL DEF JobSpec, JobIsALease, JobLease!LeaseSpec

-----------------------------------------------------------------------------
(* The three parts side by side.                                           *)

PartsInv == LockInv /\ JobInv /\ FlagInv

LEMMA PartsInitially ==
    ASSUME LocksStart
    PROVE  PartsInv
  BY LockInitially, JobInitially, FlagInitially DEF LocksStart, PartsInv

LEMMA PartsStep ==
    ASSUME PartsInv, [LocksNext]_locksVars
    PROVE  PartsInv'
  <1>1. /\ [LockNext]_lockVars /\ [JobNext]_jobVars /\ [FlagNext]_flagVars
    BY DEF LocksNext, locksVars, locksRows, Of
  <1> QED BY <1>1, LockStepKeeps, JobStepKeeps, FlagStepKeeps DEF PartsInv

\* Every row, key and process of the lock, the claim and the run flag keeps its
\* type, for any number of processes and any bounds (LocksTypeOK).
THEOREM PartsTypeCorrect == LocksSpec => []LocksTypeOK
  <1>1. LocksStart => PartsInv
    BY PartsInitially
  <1>2. PartsInv /\ [LocksNext]_locksVars => PartsInv'
    BY PartsStep
  <1>3. PartsInv => LocksTypeOK
    BY DEF PartsInv, LocksTypeOK, LockInv, JobInv, FlagInv
  <1> QED BY <1>1, <1>2, <1>3, PTL DEF LocksSpec

=============================================================================
