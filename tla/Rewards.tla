-------------------------------- MODULE Rewards --------------------------------
(***************************************************************************)
(* What the routes hand out after a look: to a customer once, the daily    *)
(* check-in, the daily spin, its prize and the draw of a mystery box; to   *)
(* everybody but its leader, and as often as they ask (no row says who     *)
(* joined), the places of a squad pool.  Every route reads what was given  *)
(* and then writes; between the two another call may run.  A check-in and  *)
(* a prize count as one point.                                             *)
(***************************************************************************)
EXTENDS FiniteSets, Integers

CONSTANTS
    Calls,       \* requests in progress at a time
    Spins,       \* bound: SpinWin rows
    TargetSize,  \* 5 in lib/squad.ts
    MaxPoints    \* bound: points a customer may come to have

VARIABLES
    checkins,    \* DAILY_CHECKIN rows of today
    spin,        \* the SpinWin rows, with the times their prize was credited
    balance,     \* User.pointsBalance
    recorded,    \* the sum of the PointTransaction rows
    pool,        \* a SquadPool row, with the joins it was told of
    box,         \* a mystery order: whether its note says so, and its draws
    call,        \* what each request is about to write
    died,        \* claims that died between the credit and its record
    disturbed    \* the things of which two requests overlapped, or whose mark was lost

vars == <<checkins, spin, balance, recorded, pool, box, call, died, disturbed>>
pointVars == <<checkins, spin, balance, recorded, died>>

\* what is handed out, and where a request for it stands after its look
Steps == [checkin |-> {"checkin"}, spin |-> {"spin"}, prize |-> {"credit", "record", "mark"},
          pool |-> {"expire", "complete", "join", "cancel"}, box |-> {"open"}]
Things == DOMAIN Steps

Idle == [pc |-> "idle", spin |-> 0, size |-> 0]
PoolStatus == {"OPEN", "COMPLETED", "EXPIRED"}
Prizes == {"points", "other"}
NoSpin == [prize |-> "none", today |-> FALSE, claimed |-> FALSE, credits |-> 0]

TypeOK ==
    /\ checkins \in 0..MaxPoints /\ balance \in 0..MaxPoints /\ recorded \in 0..MaxPoints
    /\ spin \in [Spins -> [prize : {"none"} \cup Prizes, today : BOOLEAN, claimed : BOOLEAN,
                           credits : 0..MaxPoints]]
    /\ pool \in [currentSize : 1..TargetSize, status : PoolStatus, late : BOOLEAN,
                 joins : 0..TargetSize, ended : BOOLEAN]
    /\ box \in [opened : BOOLEAN, draws : 0..2]
    /\ call \in [Calls -> [pc : {"idle"} \cup UNION {Steps[thing] : thing \in Things},
                           spin : {0} \cup Spins, size : 0..TargetSize]]
    /\ died \in 0..MaxPoints
    /\ disturbed \subseteq Things

Init ==
    /\ checkins = 0
    /\ spin = [s \in Spins |-> NoSpin]
    /\ balance = 0 /\ recorded = 0
    /\ pool = [currentSize |-> 1, status |-> "OPEN", late |-> FALSE, joins |-> 0, ended |-> FALSE]
    /\ box = [opened |-> FALSE, draws |-> 0]
    /\ call = [c \in Calls |-> Idle]
    /\ died = 0
    /\ disturbed = {}

-----------------------------------------------------------------------------

\* counters that only say whether something happened too often
OneMore(n, limit) == IF n < limit THEN n + 1 ELSE n

Asking(thing) == {c \in Calls : call[c].pc \in Steps[thing]}

\* a request has read what it needs and goes on to write
Begin(c, thing, step) ==
    /\ call[c].pc = "idle"
    /\ call' = [call EXCEPT ![c] = step]
    /\ disturbed' = IF Asking(thing) = {} THEN disturbed ELSE disturbed \cup {thing}
At(c, pc) == call[c].pc = pc
Ends(c) == call' = [call EXCEPT ![c] = Idle] /\ UNCHANGED disturbed
GoesOn(c, pc) == call' = [call EXCEPT ![c].pc = pc] /\ UNCHANGED disturbed

CheckinReads(c) ==
    /\ checkins = 0
    /\ Begin(c, "checkin", [Idle EXCEPT !.pc = "checkin"])
    /\ UNCHANGED <<pointVars, pool, box>>

\* one transaction
CheckinWrites(c) ==
    /\ At(c, "checkin") /\ balance < MaxPoints
    /\ checkins' = checkins + 1
    /\ balance' = balance + 1 /\ recorded' = recorded + 1
    /\ Ends(c)
    /\ UNCHANGED <<spin, died, pool, box>>

SpinReads(c) ==
    /\ \A s \in Spins : ~spin[s].today
    /\ Begin(c, "spin", [Idle EXCEPT !.pc = "spin"])
    /\ UNCHANGED <<pointVars, pool, box>>

SpinWrites(c) ==
    /\ At(c, "spin")
    /\ \E s \in Spins, prize \in Prizes :
          /\ spin[s].prize = "none"
          /\ spin' = [spin EXCEPT ![s] = [NoSpin EXCEPT !.prize = prize, !.today = TRUE]]
    /\ Ends(c)
    /\ UNCHANGED <<checkins, balance, recorded, died, pool, box>>

\* whether the prize was claimed is not looked at
ClaimReadsMarked(c) ==
    /\ \E s \in Spins :
          /\ spin[s].prize # "none"
          /\ Begin(c, "prize", [Idle EXCEPT !.pc = IF spin[s].prize = "points" THEN "credit" ELSE "mark",
                                            !.spin = s])
    /\ UNCHANGED <<pointVars, pool, box>>

\* only points are credited; any other prize is only marked
ClaimReads(c) ==
    /\ \E s \in Spins :
          /\ spin[s].prize # "none" /\ ~spin[s].claimed
          /\ Begin(c, "prize", [Idle EXCEPT !.pc = IF spin[s].prize = "points" THEN "credit" ELSE "mark",
                                            !.spin = s])
    /\ UNCHANGED <<pointVars, pool, box>>

\* the balance the request had read, raised and written back
ClaimSetsBalance(c) ==
    /\ At(c, "credit") /\ balance < MaxPoints
    /\ balance' = recorded + 1
    /\ spin' = [spin EXCEPT ![call[c].spin].credits = @ + 1]
    /\ GoesOn(c, "record")
    /\ UNCHANGED <<checkins, recorded, died, pool, box>>

ClaimCredits(c) ==
    /\ At(c, "credit") /\ balance < MaxPoints
    /\ balance' = balance + 1
    /\ spin' = [spin EXCEPT ![call[c].spin].credits = @ + 1]
    /\ GoesOn(c, "record")
    /\ UNCHANGED <<checkins, recorded, died, pool, box>>

ClaimRecords(c) ==
    /\ At(c, "record")
    /\ recorded' = recorded + 1
    /\ GoesOn(c, "mark")
    /\ UNCHANGED <<checkins, spin, balance, died, pool, box>>

ClaimMarks(c) ==
    /\ At(c, "mark")
    /\ spin' = [spin EXCEPT ![call[c].spin].claimed = TRUE]
    /\ Ends(c)
    /\ UNCHANGED <<checkins, balance, recorded, died, pool, box>>

-----------------------------------------------------------------------------

\* of somebody who is not the leader, and may have joined before
JoinReads(c) ==
    /\ pool.status = "OPEN"
    /\ Begin(c, "pool", [Idle EXCEPT !.pc = IF pool.late THEN "expire"
                                            ELSE IF pool.currentSize >= TargetSize THEN "complete" ELSE "join",
                                     !.size = pool.currentSize])
    /\ UNCHANGED <<pointVars, pool, box>>

\* the pool stays open when the last place is taken
JoinLeavesOpen(c) ==
    /\ At(c, "join")
    /\ pool' = [pool EXCEPT !.currentSize = call[c].size + 1, !.joins = OneMore(@, TargetSize), !.status = "OPEN"]
    /\ Ends(c)
    /\ UNCHANGED <<pointVars, box>>

\* the size that was read, raised; and the status with it
JoinWrites(c) ==
    LET nextSize == call[c].size + 1 IN
    /\ At(c, "join")
    /\ pool' = [pool EXCEPT !.currentSize = nextSize, !.joins = OneMore(@, TargetSize),
                            !.status = IF nextSize >= TargetSize THEN "COMPLETED" ELSE "OPEN"]
    /\ Ends(c)
    /\ UNCHANGED <<pointVars, box>>

JoinEndsPool(c) ==
    /\ \/ At(c, "expire") /\ pool' = [pool EXCEPT !.status = "EXPIRED", !.ended = TRUE]
       \/ At(c, "complete") /\ pool' = [pool EXCEPT !.status = "COMPLETED"]
    /\ Ends(c)
    /\ UNCHANGED <<pointVars, box>>

\* whatever the status is
CancelReads(c) ==
    /\ Begin(c, "pool", [Idle EXCEPT !.pc = "cancel"])
    /\ UNCHANGED <<pointVars, pool, box>>

CancelWrites(c) ==
    /\ At(c, "cancel")
    /\ pool' = [pool EXCEPT !.status = "EXPIRED", !.ended = TRUE]
    /\ Ends(c)
    /\ UNCHANGED <<pointVars, box>>

OpenReads(c) ==
    /\ ~box.opened
    /\ Begin(c, "box", [Idle EXCEPT !.pc = "open"])
    /\ UNCHANGED <<pointVars, pool, box>>

OpenWrites(c) ==
    /\ At(c, "open")
    /\ box' = [opened |-> TRUE, draws |-> OneMore(box.draws, 2)]
    /\ Ends(c)
    /\ UNCHANGED <<pointVars, pool>>

-----------------------------------------------------------------------------

\* an administrator writes another deliveryNote over the mark of the opening
NoteReplaced ==
    /\ box.opened
    /\ box' = [box EXCEPT !.opened = FALSE]
    /\ disturbed' = disturbed \cup {"box"}
    /\ UNCHANGED <<pointVars, pool, call>>

\* midnight; a request that looked before it counts for the new day
DayEnds ==
    /\ checkins' = 0
    /\ spin' = [s \in Spins |-> [spin[s] EXCEPT !.today = FALSE]]
    /\ UNCHANGED <<balance, recorded, died, pool, box, call, disturbed>>

PoolTimesOut ==
    /\ ~pool.late
    /\ pool' = [pool EXCEPT !.late = TRUE]
    /\ UNCHANGED <<pointVars, box, call, disturbed>>

\* a claim that was credited leaves no mark
CallDies(c) ==
    /\ call[c].pc # "idle"
    /\ call' = [call EXCEPT ![c] = Idle]
    /\ died' = IF At(c, "record") THEN died + 1 ELSE died
    /\ disturbed' = IF At(c, "record") \/ At(c, "mark") THEN disturbed \cup {"prize"} ELSE disturbed
    /\ UNCHANGED <<checkins, spin, balance, recorded, pool, box>>

DailyCheckin(c) == CheckinReads(c) \/ CheckinWrites(c)
SpinWin(c) ==
    \/ SpinReads(c) \/ SpinWrites(c)
    \/ ClaimReads(c) \/ ClaimCredits(c) \/ ClaimRecords(c) \/ ClaimMarks(c)
Squad(c) == JoinReads(c) \/ JoinWrites(c) \/ JoinEndsPool(c) \/ CancelReads(c) \/ CancelWrites(c)
MysteryBox(c) == OpenReads(c) \/ OpenWrites(c)

Points == (\E c \in Calls : DailyCheckin(c) \/ SpinWin(c) \/ CallDies(c)) \/ DayEnds
Squads == (\E c \in Calls : Squad(c) \/ CallDies(c)) \/ PoolTimesOut
Boxes == (\E c \in Calls : MysteryBox(c) \/ CallDies(c)) \/ NoteReplaced

Next == Points \/ Squads \/ Boxes

Spec == Init /\ [][Next]_vars

-----------------------------------------------------------------------------

\* However check-ins and claims overlap and die, the balance is the sum of the
\* recorded transactions and of the claims that are, or died, between the two
\* writes.
PointsAreAccounted ==
    balance = recorded + died + Cardinality({c \in Calls : At(c, "record")})

\* "Already checked in today!", "Already spun today", the prize looked up
\* unclaimed, "Box already opened": whatever else runs and dies, and whatever
\* days pass in between, a check-in, a spin, a prize or a draw is given twice
\* only after two requests for that same thing overlapped, a claim died
\* between its credit and its mark, or the note that marks the opening was
\* replaced.
TwiceNeedsDisturbance ==
    /\ checkins > 1 => "checkin" \in disturbed
    /\ Cardinality({s \in Spins : spin[s].today}) > 1 => "spin" \in disturbed
    /\ (\E s \in Spins : spin[s].credits > 1) => "prize" \in disturbed
    /\ box.draws > 1 => "box" \in disturbed

\* "Squad is no longer open", "Squad is already full": until two of its joins
\* and cancellations overlap, and however many requests die, every join of a
\* pool took a place of its own, a full pool is not open, and one that expired
\* or was cancelled is not opened again.  It does not say whose the places are.
PoolAddsUp ==
    \/ "pool" \in disturbed
    \/ /\ pool.currentSize = 1 + pool.joins
       /\ pool.currentSize = TargetSize => pool.status # "OPEN"
       /\ pool.ended => pool.status = "EXPIRED"
=============================================================================
