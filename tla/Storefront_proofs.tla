---------------------------- MODULE Storefront_proofs ----------------------------
(***************************************************************************)
(* Proofs about what a customer does beside buying: the rewards, the       *)
(* checkout page and the top-up form, for any number of requests, account  *)
(* ids and lookups.                                                        *)
(***************************************************************************)
EXTENDS MCStorefront, FiniteSetTheorems, TLAPS

-----------------------------------------------------------------------------
(* The form.  A nickname is only ever set by the answer of a lookup, so    *)
(* the invariant says what is asked: unless what is typed still waits for  *)
(* the next render, a call that was not aborted asks for it.               *)

LookupsAskForUid ==
    refresh # "set" => \A l \in Lookups : l \in Pending /\ ~lookup[l].aborted => lookup[l].uid = uid

TimerIsRendered == debounce => refresh = "rendered"

FormInvariant == FormTypeOK /\ LookupsAskForUid /\ TimerIsRendered /\ NicknameBelongsToUid

LEMMA InitEstablishes == FormInit => FormInvariant
<1> SUFFICES ASSUME FormInit PROVE FormInvariant
  OBVIOUS
<1> USE DEF FormInit, NoLookup
<1>1. FormTypeOK
  BY DEF FormTypeOK
<1>2. LookupsAskForUid /\ TimerIsRendered /\ NicknameBelongsToUid
  BY DEF LookupsAskForUid, TimerIsRendered, NicknameBelongsToUid, Pending
<1>. QED  BY <1>1, <1>2 DEF FormInvariant

\* The effect aborts every call under way and, unless the field is now
\* invalid, starts the timer.
LEMMA RefreshAborts ==
    ASSUME NEW u \in Uids \cup {None}, FormTypeOK, Refresh(u)
    PROVE  /\ lookup' \in [Lookups -> [uid : Uids \cup {None}, aborted : BOOLEAN]]
           /\ \A l \in Lookups : lookup'[l].uid # None => lookup'[l].aborted
           /\ debounce' = (u # None) /\ debounce' \in BOOLEAN
           /\ nickname' \in Uids \cup {None}
           /\ nicknameStatus' \in {"idle", "checking", "verified", "not_found"}
           /\ u = None => nickname' = None
<1> USE DEF Refresh
<1>1. ASSUME NEW l \in Lookups
      PROVE  /\ lookup'[l] \in [uid : Uids \cup {None}, aborted : BOOLEAN]
             /\ lookup'[l].uid # None => lookup'[l].aborted
  <2>1. lookup[l] \in [uid : Uids \cup {None}, aborted : BOOLEAN]
    BY DEF FormTypeOK
  <2>2. lookup'[l] = [lookup[l] EXCEPT !.aborted = l \in Pending]
    BY DEF AbortAll
  <2>3. (l \in Pending) = (lookup[l].uid # None) /\ (l \in Pending) \in BOOLEAN
    BY DEF Pending
  <2>. QED  BY <2>1, <2>2, <2>3
<1>2. lookup' \in [Lookups -> [uid : Uids \cup {None}, aborted : BOOLEAN]]
  BY <1>1 DEF AbortAll
<1>. QED  BY <1>1, <1>2 DEF FormTypeOK

LEMMA TypePreserves ==
    ASSUME NEW u \in Uids \cup {None}, FormInvariant, Type(u)
    PROVE  FormInvariant'
<1> USE DEF FormInvariant, Type
<1>1. CASE refresh = "rendered"
  <2>1. Refresh(u) /\ refresh' = refresh /\ uid' = u /\ sent' = sent
    BY <1>1
  <2>2. /\ lookup' \in [Lookups -> [uid : Uids \cup {None}, aborted : BOOLEAN]]
        /\ \A l \in Lookups : lookup'[l].uid # None => lookup'[l].aborted
        /\ debounce' = (u # None) /\ debounce' \in BOOLEAN
        /\ nickname' \in Uids \cup {None}
        /\ nicknameStatus' \in {"idle", "checking", "verified", "not_found"}
        /\ u = None => nickname' = None
    BY <2>1, RefreshAborts
  <2>. QED  BY <2>1, <2>2 DEF FormTypeOK, LookupsAskForUid, TimerIsRendered,
                           NicknameBelongsToUid, Pending
<1>2. CASE refresh # "rendered"
  BY <1>2 DEF FormTypeOK, LookupsAskForUid, TimerIsRendered, NicknameBelongsToUid
<1>. QED  BY <1>1, <1>2

LEMMA RerenderPreserves ==
    ASSUME FormInvariant, Rerender
    PROVE  FormInvariant'
<1> USE DEF FormInvariant, Rerender
<1>1. uid \in Uids \cup {None} /\ uid' = uid
  BY DEF FormTypeOK
<1>2. /\ lookup' \in [Lookups -> [uid : Uids \cup {None}, aborted : BOOLEAN]]
      /\ \A l \in Lookups : lookup'[l].uid # None => lookup'[l].aborted
      /\ debounce' = (uid # None) /\ debounce' \in BOOLEAN
      /\ nickname' \in Uids \cup {None}
      /\ nicknameStatus' \in {"idle", "checking", "verified", "not_found"}
      /\ uid = None => nickname' = None
  BY <1>1, RefreshAborts
<1>. QED  BY <1>1, <1>2 DEF FormTypeOK, LookupsAskForUid, TimerIsRendered,
                           NicknameBelongsToUid, Pending

LEMMA DebounceEndsPreserves ==
    ASSUME FormInvariant, DebounceEnds
    PROVE  FormInvariant'
<1> USE DEF FormInvariant, DebounceEnds
<1>1. PICK l \in Lookups : lookup' = [lookup EXCEPT ![l] = [NoLookup EXCEPT !.uid = uid]]
  OBVIOUS
<1>2. FormTypeOK'
  BY <1>1 DEF FormTypeOK, NoLookup
<1>3. LookupsAskForUid'
  BY <1>1 DEF FormTypeOK, LookupsAskForUid, TimerIsRendered, NoLookup, Pending
<1>4. NicknameBelongsToUid' /\ TimerIsRendered'
  BY DEF NicknameBelongsToUid, TimerIsRendered
<1>. QED  BY <1>2, <1>3, <1>4

\* The one step that sets a nickname: what answers is what was asked.
LEMMA LookupAnswersPreserves ==
    ASSUME NEW l \in Lookups, FormInvariant, LookupAnswers(l)
    PROVE  FormInvariant'
<1> USE DEF FormInvariant, LookupAnswers
<1>1. FormTypeOK'
  BY DEF FormTypeOK, NoLookup, Pending
<1>2. LookupsAskForUid' /\ TimerIsRendered'
  BY DEF FormTypeOK, LookupsAskForUid, TimerIsRendered, NoLookup, Pending
<1>3. refresh # "set" => nickname' = nickname \/ nickname' = uid
  BY DEF LookupsAskForUid
<1>4. NicknameBelongsToUid'
  BY <1>3 DEF NicknameBelongsToUid
<1>. QED  BY <1>1, <1>2, <1>4

LEMMA HandleSubmitPreserves ==
    ASSUME FormInvariant, HandleSubmit
    PROVE  FormInvariant'
<1> USE DEF FormInvariant, HandleSubmit, lookupVars
<1>1. FormTypeOK' /\ LookupsAskForUid' /\ TimerIsRendered'
  BY DEF FormTypeOK, LookupsAskForUid, TimerIsRendered, Pending
<1>2. NicknameBelongsToUid'
  BY DEF NicknameBelongsToUid
<1>. QED  BY <1>1, <1>2

LEMMA NextPreserves == FormInvariant /\ [FormNext]_formVars => FormInvariant'
<1> SUFFICES ASSUME FormInvariant, [FormNext]_formVars PROVE FormInvariant'
  OBVIOUS
<1>1. CASE UNCHANGED formVars
  BY <1>1 DEF formVars, FormInvariant, FormTypeOK, LookupsAskForUid, TimerIsRendered, NicknameBelongsToUid, Pending
<1>2. CASE FormNext
  BY <1>2, TypePreserves, RerenderPreserves, DebounceEndsPreserves,
     LookupAnswersPreserves, HandleSubmitPreserves DEF FormNext
<1>. QED  BY <1>1, <1>2

\* Whatever is typed while however many answers of check-id are on their way,
\* the nickname of another account is neither shown nor sent once the form has
\* come to rest.
THEOREM NicknameCorrect == FormSpec => []NicknameBelongsToUid
<1>1. FormInvariant => NicknameBelongsToUid
  BY DEF FormInvariant
<1>. QED  BY <1>1, InitEstablishes, NextPreserves, PTL DEF FormSpec

-----------------------------------------------------------------------------
(* The page: only the types, in whatever order its calls are answered.     *)

LEMMA OrderStaysKnown == \A s \in Page!PaymentState : Page!StateTransitions[s] \subseteq Page!PaymentState
  BY DEF Page!StateTransitions, Page!PaymentState

PageRequest == [pc : {"none", "verify", "verified", "fetch", "fetched"},
                status : Page!PaymentState \cup {None}, load : BOOLEAN]

LEMMA PageInitially == Page!Init => Page!TypeOK
<1> SUFFICES ASSUME Page!Init PROVE Page!TypeOK
  OBVIOUS
<1> USE DEF Page!Init
<1>1. Page!NoRequest \in PageRequest /\ [Page!NoRequest EXCEPT !.pc = "fetch", !.load = TRUE] \in PageRequest
  BY DEF Page!NoRequest, PageRequest
<1>2. request \in [Requests -> PageRequest]
  BY <1>1
<1>3. loading \in BOOLEAN /\ error \in BOOLEAN /\ failed \in BOOLEAN
  BY Zenon
<1>4. attempts \in 0..MaxPollAttempts /\ polling \in {"off", "first", "on"}
  BY StoreAssumption
<1>. QED  BY <1>2, <1>3, <1>4 DEF Page!TypeOK, PageRequest

LEMMA RequestMoves ==
    ASSUME NEW r \in Requests, NEW next \in PageRequest,
           request \in [Requests -> PageRequest], Page!Becomes(r, next)
    PROVE  request' \in [Requests -> PageRequest]
  BY DEF Page!Becomes

LEMMA RequestValues ==
    ASSUME NEW row \in PageRequest, NEW s \in Page!PaymentState
    PROVE  /\ [row EXCEPT !.pc = "verified", !.status = s] \in PageRequest
           /\ [row EXCEPT !.pc = "fetched", !.status = s] \in PageRequest
           /\ Page!NoRequest \in PageRequest
           /\ [Page!NoRequest EXCEPT !.pc = "fetch"] \in PageRequest
           /\ [Page!NoRequest EXCEPT !.pc = "verify"] \in PageRequest
           /\ [Page!NoRequest EXCEPT !.pc = "fetch", !.load = TRUE] \in PageRequest
  BY DEF PageRequest, Page!NoRequest

LEMMA PageKept == Page!TypeOK /\ [Page!Next]_pageVars => Page!TypeOK'
<1> SUFFICES ASSUME Page!TypeOK, [Page!Next]_pageVars PROVE Page!TypeOK'
  OBVIOUS
<1>1. CASE UNCHANGED pageVars
  BY <1>1 DEF pageVars, Page!TypeOK
<1>2. CASE Page!OrderMoves
  BY <1>2, OrderStaysKnown DEF Page!OrderMoves, Page!TypeOK
<1>3. ASSUME NEW r \in Requests,
             Page!Answers(r) \/ Page!Timers(r) \/ Page!FetchFails(r) \/ Page!VerifyFails(r)
      PROVE  Page!TypeOK'
  <2> USE DEF Page!TypeOK
  <2>1. request \in [Requests -> PageRequest] /\ request[r] \in PageRequest
    BY DEF PageRequest
  <2>2. request[r].status \in Page!PaymentState \cup {None}
    BY <2>1 DEF PageRequest
  <2>3. /\ \A s \in Page!PaymentState :
              /\ [request[r] EXCEPT !.pc = "verified", !.status = s] \in PageRequest
              /\ [request[r] EXCEPT !.pc = "fetched", !.status = s] \in PageRequest
        /\ Page!NoRequest \in PageRequest
        /\ [Page!NoRequest EXCEPT !.pc = "fetch"] \in PageRequest
        /\ [Page!NoRequest EXCEPT !.pc = "verify"] \in PageRequest
        /\ [Page!NoRequest EXCEPT !.pc = "fetch", !.load = TRUE] \in PageRequest
    BY <2>1, RequestValues
  <2>4. CASE Page!ServerAnswers(r)
    <3>1. request' \in [Requests -> PageRequest]
      BY <2>1, <2>3, <2>4, RequestMoves DEF Page!ServerAnswers
    <3>. QED  BY <2>4, <3>1 DEF Page!ServerAnswers, PageRequest
  <2>5. CASE Page!FetchOrder(r)
    <3>1. request' \in [Requests -> PageRequest]
      BY <2>1, <2>3, <2>5, RequestMoves DEF Page!FetchOrder
    <3>2. loading' \in BOOLEAN
      BY <2>5, Zenon DEF Page!FetchOrder
    <3>3. polling' \in {"off", "first", "on"}
      BY <2>5 DEF Page!FetchOrder, Page!PollEffect
    <3>4. order' \in Page!PaymentState \cup {None}
      BY <2>2, <2>5 DEF Page!FetchOrder
    <3>. QED  BY <2>5, <3>1, <3>2, <3>3, <3>4 DEF Page!FetchOrder, PageRequest
  <2>6. CASE Page!FetchFails(r) \/ Page!VerifyFails(r)
    <3>1. request' \in [Requests -> PageRequest]
      BY <2>1, <2>3, <2>6, RequestMoves DEF Page!FetchFails, Page!VerifyFails
    <3>2. loading' \in BOOLEAN /\ error' \in BOOLEAN /\ failed' \in BOOLEAN
      BY <2>6, Zenon DEF Page!FetchFails, Page!VerifyFails
    <3>. QED  BY <2>6, <3>1, <3>2 DEF Page!FetchFails, Page!VerifyFails, PageRequest
  <2>7. CASE Page!VerifyPaymentStatus(r)
    <3>1. request' \in [Requests -> PageRequest]
      BY <2>1, <2>3, <2>7, RequestMoves DEF Page!VerifyPaymentStatus
    <3>. QED  BY <2>7, <3>1 DEF Page!VerifyPaymentStatus, PageRequest
  <2>8. CASE Page!StartsPolling(r)
    <3>1. request' \in [Requests -> PageRequest]
      BY <2>1, <2>3, <2>8, RequestMoves DEF Page!StartsPolling
    <3>. QED  BY <2>8, <3>1 DEF Page!StartsPolling, PageRequest
  <2>9. CASE Page!Poll(r)
    <3>1. request' \in [Requests -> PageRequest]
      BY <2>1, <2>3, <2>9, RequestMoves DEF Page!Poll
    <3>2. attempts' \in 0..MaxPollAttempts
      BY <2>9, StoreAssumption DEF Page!Poll
    <3>3. polling' \in {"off", "first", "on"}
      BY <2>9 DEF Page!Poll
    <3>. QED  BY <2>9, <3>1, <3>2, <3>3 DEF Page!Poll, PageRequest
  <2>. QED  BY <1>3, <2>4, <2>5, <2>6, <2>7, <2>8, <2>9 DEF Page!Answers, Page!Timers
<1>. QED  BY <1>1, <1>2, <1>3 DEF Page!Next

-----------------------------------------------------------------------------
(* The rewards.  The balance, and the bounds that follow from it: a        *)
(* check-in and a prize are worth a point, and no step takes one away.     *)

CallRow == [pc : {"idle", "checkin", "spin", "credit", "record", "mark",
                  "expire", "complete", "join", "cancel", "open"},
            spin : {0} \cup Spins, size : 0..TargetSize]
SpinRow == [prize : {"none"} \cup Customer!Prizes, today : BOOLEAN, claimed : BOOLEAN,
            credits : 0..MaxPoints]
PoolRow == [currentSize : 1..TargetSize, status : Customer!PoolStatus, late : BOOLEAN,
            joins : 0..TargetSize, ended : BOOLEAN]

\* the claims between the credit and its record
Recording == {c \in Calls : Customer!At(c, "record")}

Accounted ==
    /\ IsFiniteSet(Recording)
    /\ balance = recorded + died + Cardinality(Recording)
    /\ checkins <= balance
    /\ \A s \in Spins : spin[s].credits <= balance

\* who joins has read a pool with a place left
JoinsFit == \A c \in Calls : Customer!At(c, "join") => call[c].size \in 1..(TargetSize - 1)

RewardsInv == Customer!TypeOK /\ Accounted /\ JoinsFit

\* One thing at a time: what a call is about to give has not been given; and
\* what was given, was given once.  A credit stands for a claim that is
\* recorded or marked next, or marked already.
CreditOnce(s) ==
    \/ spin[s].credits = 0
    \/ /\ spin[s].credits = 1
       /\ \/ spin[s].claimed
          \/ \E c \in Calls : call[c].pc \in {"record", "mark"} /\ call[c].spin = s
CheckinOnce ==
    /\ checkins <= 1
    /\ \A c \in Calls : call[c].pc = "checkin" => checkins = 0
SpinOnce ==
    /\ \A s, t \in Spins : spin[s].today /\ spin[t].today => s = t
    /\ \A c \in Calls : call[c].pc = "spin" => \A s \in Spins : ~spin[s].today
PrizeOnce ==
    /\ \A s \in Spins : CreditOnce(s)
    /\ \A c \in Calls : call[c].pc = "credit" => \A s \in Spins : call[c].spin = s => spin[s].credits = 0
PoolOnce ==
    /\ pool.currentSize = 1 + pool.joins
    /\ pool.status = "OPEN" => pool.currentSize < TargetSize
    /\ pool.ended => pool.status = "EXPIRED"
    /\ \A c \in Calls : /\ call[c].pc = "join" => pool.status = "OPEN" /\ call[c].size = pool.currentSize
                       /\ call[c].pc # "complete"
BoxOnce ==
    /\ box.draws = IF box.opened THEN 1 ELSE 0
    /\ \A c \in Calls : call[c].pc = "open" => ~box.opened

Once(thing) ==
    /\ thing = "checkin" => CheckinOnce
    /\ thing = "spin" => SpinOnce
    /\ thing = "prize" => PrizeOnce
    /\ thing = "pool" => PoolOnce
    /\ thing = "box" => BoxOnce

Asks(thing, c) == call[c].pc \in Customer!Steps[thing]
Alone(thing) == \A c, d \in Calls : Asks(thing, c) /\ Asks(thing, d) => c = d

OnceInv == \A thing \in Customer!Things : thing \in disturbed \/ (Alone(thing) /\ Once(thing))

LEMMA StepsOfThings ==
    /\ Customer!Things = {"checkin", "spin", "prize", "pool", "box"}
    /\ Customer!Steps["checkin"] = {"checkin"} /\ Customer!Steps["spin"] = {"spin"}
    /\ Customer!Steps["prize"] = {"credit", "record", "mark"}
    /\ Customer!Steps["pool"] = {"expire", "complete", "join", "cancel"}
    /\ Customer!Steps["box"] = {"open"}
    /\ {"idle"} \cup UNION {Customer!Steps[thing] : thing \in Customer!Things} =
          {"idle", "checkin", "spin", "credit", "record", "mark",
           "expire", "complete", "join", "cancel", "open"}
<1>1. /\ Customer!Things = {"checkin", "spin", "prize", "pool", "box"}
      /\ Customer!Steps["checkin"] = {"checkin"} /\ Customer!Steps["spin"] = {"spin"}
      /\ Customer!Steps["prize"] = {"credit", "record", "mark"}
      /\ Customer!Steps["pool"] = {"expire", "complete", "join", "cancel"}
      /\ Customer!Steps["box"] = {"open"}
  BY DEF Customer!Things, Customer!Steps
<1>. QED  BY <1>1

LEMMA Instances == /\ \A S : Customer!Cardinality(S) = Cardinality(S)
                   /\ Customer!Idle \in CallRow
                   /\ Customer!Idle = [pc |-> "idle", spin |-> 0, size |-> 0]
  BY StoreAssumption DEF Customer!Cardinality, Cardinality, Customer!Idle, CallRow

LEMMA TypedParts ==
    Customer!TypeOK <=>
        /\ checkins \in 0..MaxPoints /\ balance \in 0..MaxPoints /\ recorded \in 0..MaxPoints
        /\ spin \in [Spins -> SpinRow]
        /\ pool \in PoolRow
        /\ box \in [opened : BOOLEAN, draws : 0..2]
        /\ call \in [Calls -> CallRow]
        /\ died \in 0..MaxPoints
        /\ disturbed \subseteq Customer!Things
  BY StepsOfThings DEF Customer!TypeOK, SpinRow, PoolRow, CallRow

LEMMA TypedNext ==
    ASSUME checkins' \in 0..MaxPoints, balance' \in 0..MaxPoints, recorded' \in 0..MaxPoints,
           spin' \in [Spins -> SpinRow], pool' \in PoolRow,
           box' \in [opened : BOOLEAN, draws : 0..2], call' \in [Calls -> CallRow],
           died' \in 0..MaxPoints, disturbed' \subseteq Customer!Things
    PROVE  Customer!TypeOK'
  BY StepsOfThings DEF Customer!TypeOK, SpinRow, PoolRow, CallRow

-----------------------------------------------------------------------------
(* How a call moves.                                                       *)

Stays(c) == \A d \in Calls \ {c} : call'[d] = call[d]

LEMMA Begins ==
    ASSUME NEW c \in Calls, NEW thing \in Customer!Things, NEW step \in CallRow,
           Customer!TypeOK, Customer!Begin(c, thing, step)
    PROVE  /\ call' \in [Calls -> CallRow] /\ disturbed' \subseteq Customer!Things
           /\ call[c].pc = "idle" /\ call'[c] = step /\ Stays(c)
           /\ disturbed \subseteq disturbed'
           /\ thing \notin disturbed' => \A d \in Calls : ~Asks(thing, d)
<1>1. call \in [Calls -> CallRow] /\ disturbed \subseteq Customer!Things
  BY TypedParts
<1>2. call' \in [Calls -> CallRow] /\ call[c].pc = "idle" /\ call'[c] = step /\ Stays(c)
  BY <1>1 DEF Customer!Begin, Stays
<1>3. disturbed' = IF Customer!Asking(thing) = {} THEN disturbed ELSE disturbed \cup {thing}
  BY DEF Customer!Begin
<1>4. Customer!Asking(thing) = {} => \A d \in Calls : ~Asks(thing, d)
  BY DEF Customer!Asking, Asks
<1>. QED  BY <1>1, <1>2, <1>3, <1>4

LEMMA Ended ==
    ASSUME NEW c \in Calls, Customer!TypeOK, Customer!Ends(c)
    PROVE  /\ call' \in [Calls -> CallRow] /\ disturbed' = disturbed
           /\ call'[c].pc = "idle" /\ Stays(c)
  BY TypedParts, Instances DEF Customer!Ends, Stays

LEMMA WentOn ==
    ASSUME NEW c \in Calls, NEW pc \in {"record", "mark"}, Customer!TypeOK, Customer!GoesOn(c, pc)
    PROVE  /\ call' \in [Calls -> CallRow] /\ disturbed' = disturbed
           /\ call'[c].pc = pc /\ call'[c].spin = call[c].spin /\ Stays(c)
<1>1. call \in [Calls -> CallRow]
  BY TypedParts
<1>2. \A row \in CallRow : /\ [row EXCEPT !.pc = pc] \in CallRow
                           /\ [row EXCEPT !.pc = pc].pc = pc
                           /\ [row EXCEPT !.pc = pc].spin = row.spin
  BY DEF CallRow
<1>3. call' = [call EXCEPT ![c] = [call[c] EXCEPT !.pc = pc]] /\ disturbed' = disturbed
  BY DEF Customer!GoesOn
<1>. QED  BY <1>1, <1>2, <1>3 DEF Stays

\* No claim comes to stand between its writes, or leaves that place.
LEMMA RecordingStays ==
    ASSUME NEW c \in Calls, Stays(c), call[c].pc # "record", call'[c].pc # "record"
    PROVE  Recording' = Recording
  BY DEF Recording, Stays, Customer!At

LEMMA RecordingEntered ==
    ASSUME NEW c \in Calls, Stays(c), IsFiniteSet(Recording),
           call[c].pc # "record", call'[c].pc = "record"
    PROVE  IsFiniteSet(Recording') /\ Cardinality(Recording') = Cardinality(Recording) + 1
<1>1. Recording' = Recording \cup {c} /\ c \notin Recording
  BY DEF Recording, Stays, Customer!At
<1>. QED  BY <1>1, FS_AddElement

LEMMA RecordingLeft ==
    ASSUME NEW c \in Calls, Stays(c), IsFiniteSet(Recording),
           call[c].pc = "record", call'[c].pc # "record"
    PROVE  /\ IsFiniteSet(Recording') /\ Cardinality(Recording) \in Nat \ {0}
           /\ Cardinality(Recording') = Cardinality(Recording) - 1
<1>1. Recording' = Recording \ {c} /\ c \in Recording
  BY DEF Recording, Stays, Customer!At
<1>2. Cardinality(Recording) \in Nat /\ Cardinality(Recording) # 0
  BY <1>1, FS_CardinalityType, FS_EmptySet
<1>. QED  BY <1>1, <1>2, FS_RemoveElement

-----------------------------------------------------------------------------
(* Every step keeps the account, the types and the bounds.                 *)

\* the steps that start a call write nothing else
Reads(c) ==
    \/ Customer!CheckinReads(c) \/ Customer!SpinReads(c) \/ Customer!ClaimReads(c)
    \/ Customer!JoinReads(c) \/ Customer!CancelReads(c) \/ Customer!OpenReads(c)

\* what a call starts with
Started(c, thing, step) ==
    /\ thing \in Customer!Things /\ step \in CallRow /\ Customer!Begin(c, thing, step)
    /\ UNCHANGED <<checkins, spin, balance, recorded, died, pool, box>>
    /\ \/ thing = "checkin" /\ step.pc = "checkin" /\ checkins = 0
       \/ thing = "spin" /\ step.pc = "spin" /\ \A s \in Spins : ~spin[s].today
       \/ /\ thing = "prize" /\ step.pc \in {"credit", "mark"}
          /\ \E s \in Spins : step.spin = s /\ ~spin[s].claimed
       \/ /\ thing = "pool"
          /\ \/ step.pc \in {"expire", "cancel"}
             \/ step.pc = "complete" /\ pool.status = "OPEN" /\ pool.currentSize >= TargetSize
             \/ step.pc = "join" /\ pool.status = "OPEN" /\ step.size = pool.currentSize /\ step.size < TargetSize
       \/ thing = "box" /\ step.pc = "open" /\ ~box.opened

LEMMA ReadsStart ==
    ASSUME NEW c \in Calls, Customer!TypeOK, Reads(c)
    PROVE  \E thing, step : Started(c, thing, step)
<1> USE StepsOfThings DEF Customer!pointVars
<1>1. CASE Customer!CheckinReads(c)
  <2> DEFINE step == [Customer!Idle EXCEPT !.pc = "checkin"]
  <2>1. step \in CallRow /\ step.pc = "checkin"
    BY Instances DEF CallRow
  <2>2. Started(c, "checkin", step)
    BY <1>1, <2>1 DEF Customer!CheckinReads, Started
  <2>. QED  BY <2>2
<1>2. CASE Customer!SpinReads(c)
  <2> DEFINE step == [Customer!Idle EXCEPT !.pc = "spin"]
  <2>1. step \in CallRow /\ step.pc = "spin"
    BY Instances DEF CallRow
  <2>2. Started(c, "spin", step)
    BY <1>2, <2>1 DEF Customer!SpinReads, Started
  <2>. QED  BY <2>2
<1>3. CASE Customer!ClaimReads(c)
  <2>1. PICK s \in Spins :
            /\ ~spin[s].claimed
            /\ Customer!Begin(c, "prize", [Customer!Idle EXCEPT !.pc = IF spin[s].prize = "points" THEN "credit" ELSE "mark",
                                                                !.spin = s])
    BY <1>3 DEF Customer!ClaimReads
  <2> DEFINE step == [Customer!Idle EXCEPT !.pc = IF spin[s].prize = "points" THEN "credit" ELSE "mark",
                                           !.spin = s]
  <2>2. step \in CallRow /\ step.pc \in {"credit", "mark"} /\ step.spin = s
    BY Instances DEF CallRow
  <2>3. Customer!Begin(c, "prize", step)
    BY <2>1
  <2> HIDE DEF step
  <2>4. Started(c, "prize", step)
    BY <1>3, <2>1, <2>2, <2>3 DEF Customer!ClaimReads, Started
  <2>. QED  BY <2>4
<1>4. CASE Customer!JoinReads(c)
  <2> DEFINE next == IF pool.late THEN "expire"
                     ELSE IF pool.currentSize >= TargetSize THEN "complete" ELSE "join"
             step == [Customer!Idle EXCEPT !.pc = next, !.size = pool.currentSize]
  <2>0. pool.currentSize \in 0..TargetSize /\ pool.currentSize \in Nat /\ TargetSize \in Nat
    BY TypedParts, StoreAssumption DEF PoolRow
  <2>1. /\ step \in CallRow /\ step.size = pool.currentSize
        /\ \/ step.pc = "expire"
           \/ step.pc = "complete" /\ pool.currentSize >= TargetSize
           \/ step.pc = "join" /\ pool.currentSize < TargetSize
    <3>1. \/ next = "expire"
          \/ next = "complete" /\ pool.currentSize >= TargetSize
          \/ next = "join" /\ pool.currentSize < TargetSize
      BY <2>0
    <3> HIDE DEF next
    <3>2. \A row \in CallRow : LET new == [row EXCEPT !.pc = next, !.size = pool.currentSize] IN
              new \in CallRow /\ new.pc = next /\ new.size = pool.currentSize
      BY <2>0, <3>1 DEF CallRow
    <3>. QED  BY <3>1, <3>2, Instances
  <2>2. Customer!Begin(c, "pool", step) /\ pool.status = "OPEN"
    BY <1>4 DEF Customer!JoinReads
  <2> HIDE DEF step
  <2>3. Started(c, "pool", step)
    BY <1>4, <2>1, <2>2 DEF Customer!JoinReads, Started
  <2>. QED  BY <2>3
<1>5. CASE Customer!CancelReads(c)
  <2> DEFINE step == [Customer!Idle EXCEPT !.pc = "cancel"]
  <2>1. step \in CallRow /\ step.pc = "cancel"
    BY Instances DEF CallRow
  <2>2. Started(c, "pool", step)
    BY <1>5, <2>1 DEF Customer!CancelReads, Started
  <2>. QED  BY <2>2
<1>6. CASE Customer!OpenReads(c)
  <2> DEFINE step == [Customer!Idle EXCEPT !.pc = "open"]
  <2>1. step \in CallRow /\ step.pc = "open"
    BY Instances DEF CallRow
  <2>2. Started(c, "box", step)
    BY <1>6, <2>1 DEF Customer!OpenReads, Started
  <2>. QED  BY <2>2
<1>. QED  BY <1>1, <1>2, <1>3, <1>4, <1>5, <1>6 DEF Reads

\* A step of a call for one thing leaves what was given of the others.
LEMMA OthersStay ==
    ASSUME NEW thing \in Customer!Things, OnceInv, disturbed \subseteq disturbed',
           \A d \in Calls, t \in Customer!Things \ {thing} : Asks(t, d) \/ Asks(t, d)' => call'[d] = call[d],
           thing # "checkin" => checkins' = checkins,
           thing # "spin" => \A s \in Spins : spin'[s].today => spin[s].today,
           thing # "prize" => \A s \in Spins : \/ spin'[s].credits = 0
                                               \/ /\ spin'[s].credits = spin[s].credits
                                                  /\ spin'[s].claimed = spin[s].claimed,
           thing # "pool" => pool'.currentSize = pool.currentSize /\ pool'.joins = pool.joins
                             /\ pool'.status = pool.status /\ pool'.ended = pool.ended,
           thing # "box" => box' = box
    PROVE  \A t \in Customer!Things \ {thing} : t \in disturbed' \/ (Alone(t)' /\ Once(t)')
<1> SUFFICES ASSUME NEW t \in Customer!Things \ {thing}, t \notin disturbed' PROVE Alone(t)' /\ Once(t)'
  OBVIOUS
<1>1. Alone(t) /\ Once(t)
  BY DEF OnceInv
<1>2. \A d \in Calls : Asks(t, d) \/ Asks(t, d)' => call'[d] = call[d]
  OBVIOUS
<1>3. Alone(t)'
  BY <1>1, <1>2 DEF Alone, Asks
<1>4. ASSUME t = "checkin" PROVE CheckinOnce'
  BY <1>1, <1>2, <1>4, StepsOfThings DEF Once, CheckinOnce, Asks
<1>5. ASSUME t = "spin" PROVE SpinOnce'
  BY <1>1, <1>2, <1>5, StepsOfThings DEF Once, SpinOnce, Asks
<1>6. ASSUME t = "prize" PROVE PrizeOnce'
  <2>1. \A d \in Calls : call[d].pc \in {"credit", "record", "mark"} \/ call'[d].pc \in {"credit", "record", "mark"}
                             => call'[d] = call[d]
    BY <1>2, <1>6, StepsOfThings DEF Asks
  <2>2. PrizeOnce /\ \A s \in Spins : \/ spin'[s].credits = 0
                                      \/ /\ spin'[s].credits = spin[s].credits
                                         /\ spin'[s].claimed = spin[s].claimed
    BY <1>1, <1>6 DEF Once
  <2>3. ASSUME NEW s \in Spins PROVE CreditOnce(s)'
    BY <2>1, <2>2 DEF PrizeOnce, CreditOnce
  <2>4. ASSUME NEW c \in Calls, call'[c].pc = "credit", NEW s \in Spins, call'[c].spin = s
        PROVE  spin'[s].credits = 0
    BY <2>1, <2>2, <2>4 DEF PrizeOnce
  <2>. QED  BY <2>3, <2>4 DEF PrizeOnce
<1>7. ASSUME t = "pool" PROVE PoolOnce'
  BY <1>1, <1>2, <1>7, StepsOfThings DEF Once, PoolOnce, Asks
<1>8. ASSUME t = "box" PROVE BoxOnce'
  BY <1>1, <1>2, <1>8, StepsOfThings DEF Once, BoxOnce, Asks
<1>. QED  BY <1>3, <1>4, <1>5, <1>6, <1>7, <1>8 DEF Once

\* A call stands at the steps of one thing only.
LEMMA OthersUntouched ==
    ASSUME NEW c \in Calls, NEW thing \in Customer!Things, Stays(c),
           Asks(thing, c) \/ call[c].pc = "idle", Asks(thing, c)' \/ call'[c].pc = "idle"
    PROVE  \A d \in Calls, t \in Customer!Things \ {thing} : Asks(t, d) \/ Asks(t, d)' => call'[d] = call[d]
<1>1. \A t \in Customer!Things \ {thing} : ~Asks(t, c) /\ ~Asks(t, c)'
  BY StepsOfThings DEF Asks
<1>. QED  BY <1>1 DEF Stays

\* The one call for a thing leaves no other when it moves on or ends.
LEMMA OneLeft ==
    ASSUME NEW c \in Calls, NEW thing \in Customer!Things, Stays(c), Alone(thing), Asks(thing, c)
    PROVE  Alone(thing)' /\ \A d \in Calls : d # c => ~Asks(thing, d) /\ ~Asks(thing, d)'
<1>1. \A d \in Calls : d # c => call'[d] = call[d] /\ ~Asks(thing, d)
  BY DEF Alone, Stays
<1>. QED  BY <1>1 DEF Alone, Asks

LEMMA ReadsKeep ==
    ASSUME NEW c \in Calls, RewardsInv, Reads(c)
    PROVE  RewardsInv' /\ (OnceInv => OnceInv')
<1>1. PICK thing, step : Started(c, thing, step)
  BY ReadsStart DEF RewardsInv
<1>2. /\ call' \in [Calls -> CallRow] /\ disturbed' \subseteq Customer!Things
      /\ call[c].pc = "idle" /\ call'[c] = step /\ Stays(c)
      /\ disturbed \subseteq disturbed'
      /\ thing \notin disturbed' => \A d \in Calls : ~Asks(thing, d)
  BY <1>1, Begins DEF Started, RewardsInv
<1>3. step.pc # "record" /\ step.pc # "idle" /\ thing \in Customer!Things
  BY <1>1 DEF Started
<1>4. Customer!TypeOK'
  BY <1>1, <1>2, TypedParts, TypedNext DEF Started, RewardsInv
<1>5. Accounted'
  BY <1>1, <1>2, <1>3, RecordingStays DEF Started, RewardsInv, Accounted
<1>6. JoinsFit'
  <2>1. step.pc = "join" => step.size \in 1..(TargetSize - 1)
    BY <1>1, TypedParts, StoreAssumption DEF Started, RewardsInv, PoolRow
  <2>. QED  BY <1>2, <2>1 DEF RewardsInv, JoinsFit, Stays, Customer!At
<1>7. ASSUME OnceInv PROVE OnceInv'
  <2>1. Asks(thing, c)'
    BY <1>1, <1>2, StepsOfThings DEF Started, Asks
  <2>2. \A t \in Customer!Things \ {thing} : t \in disturbed' \/ (Alone(t)' /\ Once(t)')
    BY <1>1, <1>2, <1>3, <1>7, <2>1, OthersUntouched, OthersStay DEF Started
  <2>3. ASSUME thing \notin disturbed' PROVE Alone(thing)' /\ Once(thing)'
    <3>1. \A d \in Calls : d # c => ~Asks(thing, d)'
      BY <1>2, <2>3 DEF Stays, Asks
    <3>2. Alone(thing)'
      BY <3>1 DEF Alone
    <3>3. Once(thing)
      BY <1>2, <1>3, <1>7, <2>3 DEF OnceInv
    <3>4. CASE thing = "checkin"
      <4>1. checkins' = checkins /\ checkins = 0
        BY <1>1, <3>4 DEF Started
      <4>. QED  BY <3>2, <3>4, <4>1 DEF Once, CheckinOnce
    <3>5. CASE thing = "spin"
      <4>1. spin' = spin /\ \A s \in Spins : ~spin[s].today
        BY <1>1, <3>5 DEF Started
      <4>. QED  BY <3>2, <3>5, <4>1 DEF Once, SpinOnce
    <3>6. CASE thing = "prize"
      <4>1. \A d \in Calls : call[d].pc \notin {"record", "mark"}
        BY <1>2, <2>3, <3>6, StepsOfThings DEF Asks
      <4>2. \A s \in Spins : spin[s].credits = 0 \/ (spin[s].credits = 1 /\ spin[s].claimed)
        BY <3>3, <3>6, <4>1 DEF Once, PrizeOnce, CreditOnce
      <4>3. spin' = spin /\ \E s \in Spins : step.spin = s /\ ~spin[s].claimed
        BY <1>1, <3>6 DEF Started
      <4>4. \A d \in Calls : call'[d].pc = "credit" => d = c
        BY <3>1, <3>6, StepsOfThings DEF Asks
      <4>5. \A s \in Spins : CreditOnce(s)'
        BY <4>2, <4>3 DEF CreditOnce
      <4>6. ASSUME NEW d \in Calls, call'[d].pc = "credit", NEW s \in Spins, call'[d].spin = s
            PROVE  spin'[s].credits = 0
        <5>1. step.spin = s /\ ~spin[s].claimed
          BY <1>2, <4>3, <4>4, <4>6
        <5>. QED  BY <4>2, <4>3, <5>1
      <4>. QED  BY <3>2, <3>6, <4>5, <4>6 DEF Once, PrizeOnce
    <3>7. CASE thing = "pool"
      <4>1. pool.currentSize \in Nat /\ TargetSize \in Nat
        BY TypedParts, StoreAssumption DEF RewardsInv, PoolRow
      <4>2. step.pc # "complete" /\ pool' = pool
        BY <1>1, <3>3, <3>7, <4>1 DEF Started, Once, PoolOnce
      <4>3. step.pc = "join" => pool.status = "OPEN" /\ step.size = pool.currentSize
        BY <1>1, <3>7 DEF Started
      <4>4. \A d \in Calls : d # c => call'[d].pc \notin {"join", "complete"}
        BY <3>1, <3>7, StepsOfThings DEF Asks
      <4>. QED  BY <1>2, <3>2, <3>3, <3>7, <4>2, <4>3, <4>4 DEF Once, PoolOnce
    <3>8. CASE thing = "box"
      <4>1. box' = box /\ ~box.opened
        BY <1>1, <3>8 DEF Started
      <4>. QED  BY <3>2, <3>3, <3>8, <4>1 DEF Once, BoxOnce
    <3>. QED  BY <1>3, <3>2, <3>4, <3>5, <3>6, <3>7, <3>8, StepsOfThings
  <2>. QED  BY <2>2, <2>3 DEF OnceInv
<1>. QED  BY <1>2, <1>4, <1>5, <1>6, <1>7 DEF RewardsInv

\* What a step of a call for one thing has to show.
LEMMA OnceOfCall ==
    ASSUME NEW c \in Calls, NEW thing \in Customer!Things, OnceInv, disturbed' = disturbed, Stays(c),
           Asks(thing, c), Asks(thing, c)' \/ call'[c].pc = "idle",
           thing # "checkin" => checkins' = checkins,
           thing # "spin" => \A s \in Spins : spin'[s].today => spin[s].today,
           thing # "prize" => \A s \in Spins : \/ spin'[s].credits = 0
                                               \/ /\ spin'[s].credits = spin[s].credits
                                                  /\ spin'[s].claimed = spin[s].claimed,
           thing # "pool" => pool' = pool,
           thing # "box" => box' = box,
           Once(thing) /\ (\A d \in Calls : d # c => ~Asks(thing, d) /\ ~Asks(thing, d)') => Once(thing)'
    PROVE  OnceInv'
<1>1. \A t \in Customer!Things \ {thing} : t \in disturbed' \/ (Alone(t)' /\ Once(t)')
  BY OthersUntouched, OthersStay
<1>2. thing \in disturbed' \/ (Alone(thing)' /\ Once(thing)')
  BY OneLeft DEF OnceInv
<1>. QED  BY <1>1, <1>2 DEF OnceInv

LEMMA CheckinKeeps ==
    ASSUME NEW c \in Calls, RewardsInv, Customer!CheckinWrites(c)
    PROVE  RewardsInv' /\ (OnceInv => OnceInv')
<1> USE DEF Customer!CheckinWrites
<1>1. /\ call' \in [Calls -> CallRow] /\ disturbed' = disturbed
      /\ call'[c].pc = "idle" /\ Stays(c) /\ call[c].pc = "checkin"
  BY Ended DEF RewardsInv, Customer!At
<1>2. Recording' = Recording
  BY <1>1, RecordingStays
<1>3. /\ checkins \in 0..MaxPoints /\ balance \in 0..MaxPoints /\ recorded \in 0..MaxPoints
      /\ died \in 0..MaxPoints /\ MaxPoints \in Nat /\ Cardinality(Recording) \in Nat
      /\ spin \in [Spins -> SpinRow]
  BY TypedParts, StoreAssumption, FS_CardinalityType DEF RewardsInv, Accounted
<1>4. checkins' \in 0..MaxPoints /\ balance' \in 0..MaxPoints /\ recorded' \in 0..MaxPoints
  BY <1>3 DEF RewardsInv, Accounted
<1>5. Customer!TypeOK'
  BY <1>1, <1>4, TypedParts, TypedNext DEF RewardsInv
<1>6. Accounted'
  <2>1. \A s \in Spins : spin[s].credits \in Nat
    BY <1>3 DEF SpinRow
  <2>. QED  BY <1>2, <1>3, <2>1 DEF RewardsInv, Accounted
<1>7. JoinsFit'
  BY <1>1 DEF RewardsInv, JoinsFit, Stays, Customer!At
<1>8. ASSUME OnceInv PROVE OnceInv'
  <2>1. Asks("checkin", c)
    BY <1>1, StepsOfThings DEF Asks
  <2>2. ASSUME Once("checkin"), \A d \in Calls : d # c => ~Asks("checkin", d)'
        PROVE  Once("checkin")'
    BY <1>1, <2>2, StepsOfThings DEF Once, CheckinOnce, Asks
  <2>. QED  BY <1>1, <1>8, <2>1, <2>2, StepsOfThings, OnceOfCall
<1>. QED  BY <1>1, <1>5, <1>6, <1>7, <1>8 DEF RewardsInv

LEMMA SpinKeeps ==
    ASSUME NEW c \in Calls, RewardsInv, Customer!SpinWrites(c)
    PROVE  RewardsInv' /\ (OnceInv => OnceInv')
<1> USE DEF Customer!SpinWrites
<1>1. /\ call' \in [Calls -> CallRow] /\ disturbed' = disturbed
      /\ call'[c].pc = "idle" /\ Stays(c) /\ call[c].pc = "spin"
  BY Ended DEF RewardsInv, Customer!At
<1>2. Recording' = Recording
  BY <1>1, RecordingStays
<1>3. PICK t \in Spins, prize \in Customer!Prizes :
          spin' = [spin EXCEPT ![t] = [Customer!NoSpin EXCEPT !.prize = prize, !.today = TRUE]]
  OBVIOUS
<1>4. /\ spin \in [Spins -> SpinRow] /\ spin' \in [Spins -> SpinRow]
      /\ spin'[t].credits = 0
      /\ \A s \in Spins : s # t => spin'[s] = spin[s]
  <2> DEFINE row == [Customer!NoSpin EXCEPT !.prize = prize, !.today = TRUE]
  <2>1. row \in SpinRow /\ row.credits = 0
    <3>1. Customer!NoSpin \in SpinRow /\ Customer!NoSpin.credits = 0
      BY StoreAssumption DEF Customer!NoSpin, SpinRow
    <3>2. \A old \in SpinRow : LET new == [old EXCEPT !.prize = prize, !.today = TRUE] IN
              new \in SpinRow /\ new.credits = old.credits
      BY DEF SpinRow
    <3>. QED  BY <3>1, <3>2
  <2>2. spin \in [Spins -> SpinRow] /\ spin' = [spin EXCEPT ![t] = row]
    BY <1>3, TypedParts DEF RewardsInv
  <2> HIDE DEF row
  <2>. QED  BY <2>1, <2>2
<1>5. Customer!TypeOK'
  BY <1>1, <1>4, TypedParts, TypedNext DEF RewardsInv
<1>6. Accounted'
  <2>1. ASSUME NEW s \in Spins PROVE spin'[s].credits <= balance
    <3>1. balance \in Nat
      BY TypedParts, StoreAssumption DEF RewardsInv
    <3>2. spin[s].credits <= balance
      BY DEF RewardsInv, Accounted
    <3>3. CASE s = t
      BY <1>4, <3>1, <3>3
    <3>4. CASE s # t
      <4>1. spin'[s] = spin[s]
        BY <1>4, <3>4
      <4>. QED  BY <3>2, <4>1
    <3>. QED  BY <3>3, <3>4
  <2>. QED  BY <1>2, <2>1 DEF RewardsInv, Accounted
<1>7. JoinsFit'
  BY <1>1 DEF RewardsInv, JoinsFit, Stays, Customer!At
<1>8. ASSUME OnceInv PROVE OnceInv'
  <2>1. Asks("spin", c)
    BY <1>1, StepsOfThings DEF Asks
  <2>2. ASSUME Once("spin"), \A d \in Calls : d # c => ~Asks("spin", d)'
        PROVE  Once("spin")'
    <3>1. \A s \in Spins : ~spin[s].today
      BY <1>1, <2>2 DEF Once, SpinOnce
    <3>2. \A s \in Spins : spin'[s].today => s = t
      BY <1>4, <3>1
    <3>3. \A d \in Calls : call'[d].pc # "spin"
      BY <1>1, <2>2, StepsOfThings DEF Asks
    <3>. QED  BY <3>2, <3>3 DEF Once, SpinOnce
  <2>3. \A s \in Spins : \/ spin'[s].credits = 0
                         \/ spin'[s].credits = spin[s].credits /\ spin'[s].claimed = spin[s].claimed
    <3>1. \A s \in Spins : s = t \/ spin'[s] = spin[s]
      BY <1>4
    <3>. QED  BY <1>4, <3>1
  <2>. QED  BY <1>1, <1>8, <2>1, <2>2, <2>3, StepsOfThings, OnceOfCall
<1>. QED  BY <1>1, <1>5, <1>6, <1>7, <1>8 DEF RewardsInv

\* A credit raises the balance and is left to be recorded.
LEMMA CreditKeeps ==
    ASSUME NEW c \in Calls, RewardsInv, Customer!ClaimCredits(c)
    PROVE  RewardsInv' /\ (OnceInv => OnceInv')
<1> USE DEF Customer!ClaimCredits
<1>1. /\ call' \in [Calls -> CallRow] /\ disturbed' = disturbed
      /\ call'[c].pc = "record" /\ call'[c].spin = call[c].spin
      /\ Stays(c) /\ call[c].pc = "credit"
  BY WentOn DEF RewardsInv, Customer!At
<1>2. IsFiniteSet(Recording') /\ Cardinality(Recording') = Cardinality(Recording) + 1
  BY <1>1, RecordingEntered DEF RewardsInv, Accounted
<1>3. /\ balance \in 0..MaxPoints /\ recorded \in 0..MaxPoints /\ checkins \in 0..MaxPoints
      /\ died \in 0..MaxPoints /\ MaxPoints \in Nat /\ Cardinality(Recording) \in Nat
      /\ spin \in [Spins -> SpinRow] /\ \A s \in Spins : spin[s].credits \in Nat
  BY TypedParts, StoreAssumption, FS_CardinalityType DEF RewardsInv, Accounted, SpinRow
<1>4. /\ \A s \in Spins : spin'[s] = IF s = call[c].spin
                                     THEN [spin[s] EXCEPT !.credits = @ + 1] ELSE spin[s]
      /\ DOMAIN spin' = Spins /\ spin' = [s \in Spins |-> spin'[s]]
  BY <1>3
<1>5. ASSUME NEW s \in Spins
      PROVE  /\ spin'[s].credits = IF s = call[c].spin THEN spin[s].credits + 1 ELSE spin[s].credits
             /\ spin'[s].today = spin[s].today /\ spin'[s].claimed = spin[s].claimed
             /\ spin'[s].credits <= balance + 1
             /\ spin'[s] \in SpinRow
  <2>1. spin[s] \in SpinRow /\ spin[s].credits <= balance /\ spin[s].credits \in Nat
    BY <1>3 DEF RewardsInv, Accounted
  <2>2. spin[s].credits + 1 \in 0..MaxPoints
    BY <1>3, <2>1
  <2>. QED  BY <1>3, <1>4, <2>1, <2>2 DEF SpinRow
<1>6. spin' \in [Spins -> SpinRow]
  BY <1>4, <1>5
<1>7. Customer!TypeOK'
  BY <1>1, <1>3, <1>6, TypedParts, TypedNext DEF RewardsInv
<1>8. Accounted'
  BY <1>2, <1>3, <1>5 DEF RewardsInv, Accounted
<1>9. JoinsFit'
  BY <1>1 DEF RewardsInv, JoinsFit, Stays, Customer!At
<1>10. ASSUME OnceInv PROVE OnceInv'
  <2>1. Asks("prize", c) /\ Asks("prize", c)'
    BY <1>1, StepsOfThings DEF Asks
  <2>2. ASSUME Once("prize"), \A d \in Calls : d # c => ~Asks("prize", d)'
        PROVE  Once("prize")'
    <3>1. \A s \in Spins : call[c].spin = s => spin[s].credits = 0
      BY <1>1, <2>2 DEF Once, PrizeOnce
    <3>2. ASSUME NEW s \in Spins PROVE CreditOnce(s)'
      <4>1. ASSUME NEW d \in Calls, call[d].pc \in {"record", "mark"} PROVE call'[d] = call[d]
        BY <1>1, <4>1 DEF Stays
      <4>2. CASE s = call[c].spin
        <5>1. spin'[s].credits = 1
          BY <1>5, <3>1, <4>2
        <5>. QED  BY <1>1, <4>2, <5>1 DEF CreditOnce
      <4>3. CASE s # call[c].spin
        BY <1>5, <2>2, <4>1, <4>3 DEF Once, PrizeOnce, CreditOnce
      <4>. QED  BY <4>2, <4>3
    <3>3. \A d \in Calls : call'[d].pc # "credit"
      BY <1>1, <2>2, StepsOfThings DEF Asks
    <3>. QED  BY <3>2, <3>3 DEF Once, PrizeOnce
  <2>3. \A s \in Spins : spin'[s].today => spin[s].today
    BY <1>5
  <2>. QED  BY <1>1, <1>10, <2>1, <2>2, <2>3, StepsOfThings, OnceOfCall
<1>. QED  BY <1>1, <1>7, <1>8, <1>9, <1>10 DEF RewardsInv

LEMMA RecordKeeps ==
    ASSUME NEW c \in Calls, RewardsInv, Customer!ClaimRecords(c)
    PROVE  RewardsInv' /\ (OnceInv => OnceInv')
<1> USE DEF Customer!ClaimRecords
<1>1. /\ call' \in [Calls -> CallRow] /\ disturbed' = disturbed
      /\ call'[c].pc = "mark" /\ call'[c].spin = call[c].spin
      /\ Stays(c) /\ call[c].pc = "record"
  BY WentOn DEF RewardsInv, Customer!At
<1>2. /\ IsFiniteSet(Recording') /\ Cardinality(Recording) \in Nat \ {0}
      /\ Cardinality(Recording') = Cardinality(Recording) - 1
  BY <1>1, RecordingLeft DEF RewardsInv, Accounted
<1>3. /\ balance \in 0..MaxPoints /\ recorded \in 0..MaxPoints
      /\ died \in 0..MaxPoints /\ MaxPoints \in Nat
  BY TypedParts, StoreAssumption DEF RewardsInv
<1>4. Accounted'
  BY <1>2, <1>3 DEF RewardsInv, Accounted
<1>5. recorded' \in 0..MaxPoints
  BY <1>2, <1>3 DEF RewardsInv, Accounted
<1>6. Customer!TypeOK'
  BY <1>1, <1>5, TypedParts, TypedNext DEF RewardsInv
<1>7. JoinsFit'
  BY <1>1 DEF RewardsInv, JoinsFit, Stays, Customer!At
<1>8. ASSUME OnceInv PROVE OnceInv'
  <2>1. Asks("prize", c) /\ Asks("prize", c)'
    BY <1>1, StepsOfThings DEF Asks
  <2>2. ASSUME Once("prize"), \A d \in Calls : d # c => ~Asks("prize", d)'
        PROVE  Once("prize")'
    <3>1. ASSUME NEW d \in Calls, call[d].pc \in {"record", "mark"}
          PROVE  call'[d].pc \in {"record", "mark"} /\ call'[d].spin = call[d].spin
      BY <1>1, <3>1 DEF Stays
    <3>2. ASSUME NEW s \in Spins PROVE CreditOnce(s)'
      BY <2>2, <3>1 DEF Once, PrizeOnce, CreditOnce
    <3>3. \A d \in Calls : call'[d].pc # "credit"
      BY <1>1, <2>2, StepsOfThings DEF Asks
    <3>. QED  BY <3>2, <3>3 DEF Once, PrizeOnce
  <2>. QED  BY <1>1, <1>8, <2>1, <2>2, StepsOfThings, OnceOfCall
<1>. QED  BY <1>1, <1>4, <1>6, <1>7, <1>8 DEF RewardsInv

LEMMA MarkKeeps ==
    ASSUME NEW c \in Calls, RewardsInv, Customer!ClaimMarks(c)
    PROVE  RewardsInv' /\ (OnceInv => OnceInv')
<1> USE DEF Customer!ClaimMarks
<1>1. /\ call' \in [Calls -> CallRow] /\ disturbed' = disturbed
      /\ call'[c].pc = "idle" /\ Stays(c) /\ call[c].pc = "mark"
  BY Ended DEF RewardsInv, Customer!At
<1>2. Recording' = Recording
  BY <1>1, RecordingStays
<1>3. spin \in [Spins -> SpinRow]
  BY TypedParts DEF RewardsInv
<1>4. /\ \A s \in Spins : spin'[s] = IF s = call[c].spin
                                     THEN [spin[s] EXCEPT !.claimed = TRUE] ELSE spin[s]
      /\ spin' = [s \in Spins |-> spin'[s]]
  BY <1>3
<1>5. ASSUME NEW s \in Spins
      PROVE  /\ spin'[s].credits = spin[s].credits /\ spin'[s].today = spin[s].today
             /\ s = call[c].spin => spin'[s].claimed
             /\ s # call[c].spin => spin'[s] = spin[s]
             /\ spin'[s] \in SpinRow
  <2>1. spin[s] \in SpinRow
    BY <1>3
  <2>2. \A row \in SpinRow : LET marked == [row EXCEPT !.claimed = TRUE] IN
            /\ marked \in SpinRow /\ marked.claimed
            /\ marked.credits = row.credits /\ marked.today = row.today
    BY DEF SpinRow
  <2>. QED  BY <1>4, <2>1, <2>2
<1>6. spin' \in [Spins -> SpinRow]
  BY <1>4, <1>5
<1>7. Customer!TypeOK'
  BY <1>1, <1>6, TypedParts, TypedNext DEF RewardsInv
<1>8. Accounted'
  BY <1>2, <1>5 DEF RewardsInv, Accounted
<1>9. JoinsFit'
  BY <1>1 DEF RewardsInv, JoinsFit, Stays, Customer!At
<1>10. ASSUME OnceInv PROVE OnceInv'
  <2>1. Asks("prize", c)
    BY <1>1, StepsOfThings DEF Asks
  <2>2. ASSUME Once("prize"), \A d \in Calls : d # c => ~Asks("prize", d)'
        PROVE  Once("prize")'
    <3>1. ASSUME NEW d \in Calls, d # c PROVE call'[d] = call[d]
      BY <1>1, <3>1 DEF Stays
    <3>2. ASSUME NEW s \in Spins PROVE CreditOnce(s)'
      BY <1>5, <2>2, <3>1 DEF Once, PrizeOnce, CreditOnce
    <3>3. \A d \in Calls : call'[d].pc # "credit"
      BY <1>1, <2>2, StepsOfThings DEF Asks
    <3>. QED  BY <3>2, <3>3 DEF Once, PrizeOnce
  <2>3. \A s \in Spins : spin'[s].today => spin[s].today
    BY <1>5
  <2>. QED  BY <1>1, <1>10, <2>1, <2>2, <2>3, StepsOfThings, OnceOfCall
<1>. QED  BY <1>1, <1>7, <1>8, <1>9, <1>10 DEF RewardsInv

\* The squad pool, the mystery box: one write that ends the call.
LEMMA EndingKeeps ==
    ASSUME NEW c \in Calls, RewardsInv, Customer!Ends(c), call[c].pc # "record",
           UNCHANGED <<checkins, spin, balance, recorded, died>>,
           pool' \in PoolRow, box' \in [opened : BOOLEAN, draws : 0..2]
    PROVE  /\ RewardsInv' /\ disturbed' = disturbed
           /\ call'[c].pc = "idle" /\ Stays(c)
<1>1. /\ call' \in [Calls -> CallRow] /\ disturbed' = disturbed
      /\ call'[c].pc = "idle" /\ Stays(c)
  BY Ended DEF RewardsInv
<1>2. Recording' = Recording
  BY <1>1, RecordingStays
<1>3. Customer!TypeOK'
  BY <1>1, TypedParts, TypedNext DEF RewardsInv
<1>4. Accounted'
  BY <1>2 DEF RewardsInv, Accounted
<1>5. JoinsFit'
  BY <1>1 DEF RewardsInv, JoinsFit, Stays, Customer!At
<1>. QED  BY <1>1, <1>3, <1>4, <1>5 DEF RewardsInv

LEMMA JoinKeeps ==
    ASSUME NEW c \in Calls, RewardsInv, Customer!JoinWrites(c)
    PROVE  RewardsInv' /\ (OnceInv => OnceInv')
<1> DEFINE size == call[c].size
           joins == Customer!OneMore(pool.joins, TargetSize)
           status0 == IF size + 1 >= TargetSize THEN "COMPLETED" ELSE "OPEN"
<1>1. pool' = [pool EXCEPT !.currentSize = size + 1, !.joins = joins, !.status = status0]
  BY DEF Customer!JoinWrites
<1>2. /\ pool \in PoolRow /\ size \in 1..(TargetSize - 1)
      /\ TargetSize \in Nat /\ call[c].pc = "join"
  BY TypedParts, StoreAssumption DEF RewardsInv, JoinsFit, Customer!JoinWrites, Customer!At
<1>3. pool.joins \in 0..TargetSize
  BY <1>2 DEF PoolRow
<1>4. joins \in 0..TargetSize /\ (pool.joins < TargetSize => joins = pool.joins + 1)
  BY <1>2, <1>3 DEF Customer!OneMore
<1>5. status0 \in Customer!PoolStatus /\ size + 1 \in 1..TargetSize
  BY <1>2 DEF Customer!PoolStatus
<1> HIDE DEF size, joins
<1>6. /\ pool' \in PoolRow /\ pool'.currentSize = size + 1 /\ pool'.joins = joins
      /\ pool'.status = status0 /\ pool'.ended = pool.ended
  <2> HIDE DEF status0
  <2>. QED  BY <1>1, <1>2, <1>4, <1>5 DEF PoolRow
<1>7. box' = box /\ box \in [opened : BOOLEAN, draws : 0..2]
  BY TypedParts DEF RewardsInv, Customer!JoinWrites
<1>8. Customer!Ends(c) /\ UNCHANGED <<checkins, spin, balance, recorded, died>>
  BY DEF Customer!JoinWrites, Customer!pointVars
<1>9. RewardsInv' /\ disturbed' = disturbed /\ call'[c].pc = "idle" /\ Stays(c)
  BY <1>2, <1>6, <1>7, <1>8, EndingKeeps
<1>10. ASSUME OnceInv PROVE OnceInv'
  <2>1. Asks("pool", c)
    BY <1>2, StepsOfThings DEF Asks
  <2>2. ASSUME Once("pool"), \A d \in Calls : d # c => ~Asks("pool", d)'
        PROVE  Once("pool")'
    <3>1. size = pool.currentSize /\ pool.status = "OPEN"
      BY <1>2, <2>2 DEF Once, PoolOnce, size
    <3>2. pool.joins < TargetSize /\ ~pool.ended
      BY <1>2, <1>3, <2>2, <3>1 DEF Once, PoolOnce
    <3>3. \A d \in Calls : call'[d].pc \notin {"join", "complete"}
      BY <1>9, <2>2, StepsOfThings DEF Asks
    <3>. QED  BY <1>2, <1>3, <1>4, <1>6, <2>2, <3>1, <3>2, <3>3 DEF Once, PoolOnce
  <2>. QED  BY <1>7, <1>8, <1>9, <1>10, <2>1, <2>2, StepsOfThings, OnceOfCall
<1>. QED  BY <1>9, <1>10

LEMMA PoolEndKeeps ==
    ASSUME NEW c \in Calls, RewardsInv, Customer!JoinEndsPool(c) \/ Customer!CancelWrites(c)
    PROVE  RewardsInv' /\ (OnceInv => OnceInv')
<1> USE DEF Customer!JoinEndsPool, Customer!CancelWrites, Customer!At
<1>1. pool \in PoolRow /\ box \in [opened : BOOLEAN, draws : 0..2]
  BY TypedParts DEF RewardsInv
<1>2. call[c].pc \in {"expire", "complete", "cancel"} /\ box' = box
  OBVIOUS
<1>3. /\ pool' \in PoolRow /\ pool'.currentSize = pool.currentSize /\ pool'.joins = pool.joins
      /\ pool'.status # "OPEN"
      /\ pool'.status = "EXPIRED" \/ call[c].pc = "complete"
  BY <1>1 DEF PoolRow, Customer!PoolStatus
<1>4. Customer!Ends(c) /\ UNCHANGED <<checkins, spin, balance, recorded, died>>
  BY DEF Customer!pointVars
<1>5. RewardsInv' /\ disturbed' = disturbed /\ call'[c].pc = "idle" /\ Stays(c)
  BY <1>1, <1>2, <1>3, <1>4, EndingKeeps
<1>6. ASSUME OnceInv PROVE OnceInv'
  <2>1. Asks("pool", c)
    BY <1>2, StepsOfThings DEF Asks
  <2>2. ASSUME Once("pool"), \A d \in Calls : d # c => ~Asks("pool", d)'
        PROVE  Once("pool")'
    <3>1. call[c].pc # "complete"
      BY <2>2 DEF Once, PoolOnce
    <3>2. \A d \in Calls : call'[d].pc \notin {"join", "complete"}
      BY <1>5, <2>2, StepsOfThings DEF Asks
    <3>. QED  BY <1>3, <2>2, <3>1, <3>2 DEF Once, PoolOnce
  <2>. QED  BY <1>2, <1>4, <1>5, <1>6, <2>1, <2>2, StepsOfThings, OnceOfCall
<1>. QED  BY <1>5, <1>6

LEMMA OpenKeeps ==
    ASSUME NEW c \in Calls, RewardsInv, Customer!OpenWrites(c)
    PROVE  RewardsInv' /\ (OnceInv => OnceInv')
<1> USE DEF Customer!OpenWrites, Customer!At
<1>1. pool \in PoolRow /\ pool' = pool /\ box \in [opened : BOOLEAN, draws : 0..2]
  BY TypedParts DEF RewardsInv
<1>2. call[c].pc = "open" /\ box' = [opened |-> TRUE, draws |-> Customer!OneMore(box.draws, 2)]
  OBVIOUS
<1>3. box' \in [opened : BOOLEAN, draws : 0..2]
  BY <1>1, <1>2 DEF Customer!OneMore
<1>4. Customer!Ends(c) /\ UNCHANGED <<checkins, spin, balance, recorded, died>>
  BY DEF Customer!pointVars
<1>5. RewardsInv' /\ disturbed' = disturbed /\ call'[c].pc = "idle" /\ Stays(c)
  BY <1>1, <1>2, <1>3, <1>4, EndingKeeps
<1>6. ASSUME OnceInv PROVE OnceInv'
  <2>1. Asks("box", c)
    BY <1>2, StepsOfThings DEF Asks
  <2>2. ASSUME Once("box"), \A d \in Calls : d # c => ~Asks("box", d)'
        PROVE  Once("box")'
    <3>1. box.draws = 0
      BY <1>2, <2>2 DEF Once, BoxOnce
    <3>2. box'.opened /\ box'.draws = 1
      BY <1>2, <3>1 DEF Customer!OneMore
    <3>3. \A d \in Calls : call'[d].pc # "open"
      BY <1>5, <2>2, StepsOfThings DEF Asks
    <3>. QED  BY <3>2, <3>3 DEF Once, BoxOnce
  <2>. QED  BY <1>1, <1>4, <1>5, <1>6, <2>1, <2>2, StepsOfThings, OnceOfCall
<1>. QED  BY <1>5, <1>6

\* A call that dies gives nothing; between the writes of a claim it leaves a
\* point that no row records, and a prize without its mark.
LEMMA DyingKeeps ==
    ASSUME NEW c \in Calls, RewardsInv, Customer!CallDies(c)
    PROVE  RewardsInv' /\ (OnceInv => OnceInv')
<1> USE DEF Customer!CallDies
<1>1. /\ call' \in [Calls -> CallRow] /\ call'[c].pc = "idle" /\ Stays(c)
      /\ disturbed \subseteq disturbed' /\ disturbed' \subseteq Customer!Things
      /\ call[c].pc \in {"record", "mark"} => "prize" \in disturbed'
  BY TypedParts, Instances, StepsOfThings DEF RewardsInv, Stays, Customer!At
<1>2. /\ balance \in 0..MaxPoints /\ recorded \in 0..MaxPoints
      /\ died \in 0..MaxPoints /\ MaxPoints \in Nat /\ Cardinality(Recording) \in Nat
  BY TypedParts, StoreAssumption, FS_CardinalityType DEF RewardsInv, Accounted
<1>3. Accounted' /\ died' \in 0..MaxPoints
  <2>1. CASE call[c].pc = "record"
    <3>1. /\ IsFiniteSet(Recording') /\ Cardinality(Recording) \in Nat \ {0}
          /\ Cardinality(Recording') = Cardinality(Recording) - 1
      BY <1>1, <2>1, RecordingLeft DEF RewardsInv, Accounted
    <3>2. died' = died + 1
      BY <2>1 DEF Customer!At
    <3>. QED  BY <1>2, <3>1, <3>2 DEF RewardsInv, Accounted
  <2>2. CASE call[c].pc # "record"
    <3>1. Recording' = Recording
      BY <1>1, <2>2, RecordingStays
    <3>2. died' = died
      BY <2>2 DEF Customer!At
    <3>. QED  BY <1>2, <3>1, <3>2 DEF RewardsInv, Accounted
  <2>. QED  BY <2>1, <2>2
<1>4. Customer!TypeOK'
  BY <1>1, <1>3, TypedParts, TypedNext DEF RewardsInv
<1>5. JoinsFit'
  BY <1>1 DEF RewardsInv, JoinsFit, Stays, Customer!At
<1>6. ASSUME OnceInv, NEW t \in Customer!Things, t \notin disturbed' PROVE Alone(t)' /\ Once(t)'
  <2>1. Alone(t) /\ Once(t)
    BY <1>1, <1>6 DEF OnceInv
  <2>2. \A d \in Calls : call'[d].pc = "idle" \/ call'[d] = call[d]
    BY <1>1 DEF Stays
  <2>3. Alone(t)'
    BY <2>1, <2>2, StepsOfThings DEF Alone, Asks
  <2>4. t = "checkin" => CheckinOnce'
    BY <2>1, <2>2 DEF Once, CheckinOnce
  <2>5. t = "spin" => SpinOnce'
    BY <2>1, <2>2 DEF Once, SpinOnce
  <2>6. ASSUME t = "prize" PROVE PrizeOnce'
    <3>1. \A d \in Calls : call[d].pc \in {"record", "mark"} => call'[d] = call[d]
      BY <1>1, <1>6, <2>6 DEF Stays
    <3>. QED  BY <2>1, <2>2, <2>6, <3>1 DEF Once, PrizeOnce, CreditOnce
  <2>7. t = "pool" => PoolOnce'
    BY <2>1, <2>2 DEF Once, PoolOnce
  <2>8. t = "box" => BoxOnce'
    BY <2>1, <2>2 DEF Once, BoxOnce
  <2>. QED  BY <2>3, <2>4, <2>5, <2>6, <2>7, <2>8 DEF Once
<1>. QED  BY <1>1, <1>3, <1>4, <1>5, <1>6 DEF RewardsInv, OnceInv

\* Midnight, the end of a pool's time, a note that is replaced.
LEMMA TimeKeeps ==
    ASSUME RewardsInv, Customer!DayEnds \/ Customer!PoolTimesOut \/ Customer!NoteReplaced
    PROVE  RewardsInv' /\ (OnceInv => OnceInv')
<1>1. CASE Customer!DayEnds
  <2> USE <1>1 DEF Customer!DayEnds
  <2>1. spin \in [Spins -> SpinRow] /\ balance \in Nat /\ MaxPoints \in Nat
    BY TypedParts, StoreAssumption DEF RewardsInv
  <2>2. ASSUME NEW s \in Spins
        PROVE  /\ spin'[s] \in SpinRow /\ spin'[s].credits = spin[s].credits
               /\ spin'[s].claimed = spin[s].claimed /\ ~spin'[s].today
    BY <2>1 DEF SpinRow
  <2>3. spin' \in [Spins -> SpinRow]
    BY <2>2
  <2>4. Customer!TypeOK'
    BY <2>1, <2>3, TypedParts, TypedNext DEF RewardsInv
  <2>5. Recording' = Recording
    BY DEF Recording, Customer!At
  <2>6. Accounted'
    BY <2>1, <2>2, <2>5 DEF RewardsInv, Accounted
  <2>7. JoinsFit'
    BY DEF RewardsInv, JoinsFit, Customer!At
  <2>8. ASSUME OnceInv PROVE OnceInv'
    <3>1. CheckinOnce => CheckinOnce'
      BY DEF CheckinOnce
    <3>2. SpinOnce => SpinOnce'
      BY <2>2 DEF SpinOnce
    <3>3. PrizeOnce => PrizeOnce'
      BY <2>2 DEF PrizeOnce, CreditOnce
    <3>. QED  BY <2>8, <3>1, <3>2, <3>3 DEF OnceInv, Alone, Asks, Once, PoolOnce, BoxOnce
  <2>. QED  BY <2>4, <2>6, <2>7, <2>8 DEF RewardsInv
<1>2. CASE Customer!PoolTimesOut
  <2> USE <1>2 DEF Customer!PoolTimesOut, Customer!pointVars
  <2>1. pool \in PoolRow
    BY TypedParts DEF RewardsInv
  <2>2. /\ pool' \in PoolRow /\ pool'.currentSize = pool.currentSize /\ pool'.joins = pool.joins
        /\ pool'.status = pool.status /\ pool'.ended = pool.ended
    BY <2>1 DEF PoolRow
  <2>3. Customer!TypeOK'
    BY <2>2, TypedParts, TypedNext DEF RewardsInv
  <2>4. Recording' = Recording
    BY DEF Recording, Customer!At
  <2>5. Accounted' /\ JoinsFit'
    BY <2>4 DEF RewardsInv, Accounted, JoinsFit, Customer!At
  <2>6. ASSUME OnceInv PROVE OnceInv'
    BY <2>2, <2>6 DEF OnceInv, Alone, Asks, Once, CheckinOnce, SpinOnce, PrizeOnce, CreditOnce,
                      PoolOnce, BoxOnce
  <2>. QED  BY <2>3, <2>5, <2>6 DEF RewardsInv
<1>3. CASE Customer!NoteReplaced
  <2> USE <1>3 DEF Customer!NoteReplaced, Customer!pointVars
  <2>1. box' \in [opened : BOOLEAN, draws : 0..2]
    BY TypedParts DEF RewardsInv
  <2>2. Customer!TypeOK'
    BY <2>1, TypedParts, TypedNext, StepsOfThings DEF RewardsInv
  <2>3. Recording' = Recording
    BY DEF Recording, Customer!At
  <2>4. Accounted' /\ JoinsFit'
    BY <2>3 DEF RewardsInv, Accounted, JoinsFit, Customer!At
  <2>5. ASSUME OnceInv PROVE OnceInv'
    BY <2>5 DEF OnceInv, Alone, Asks, Once, CheckinOnce, SpinOnce, PrizeOnce, CreditOnce, PoolOnce
  <2>. QED  BY <2>2, <2>4, <2>5 DEF RewardsInv
<1>. QED  BY <1>1, <1>2, <1>3

LEMMA RewardsInitially == Customer!Init => RewardsInv /\ OnceInv
<1> SUFFICES ASSUME Customer!Init PROVE RewardsInv /\ OnceInv
  OBVIOUS
<1> USE StoreAssumption DEF Customer!Init
<1>1. call \in [Calls -> CallRow] /\ \A c \in Calls : call[c].pc = "idle"
  BY Instances
<1>2. pool \in PoolRow
  BY DEF PoolRow, Customer!PoolStatus
<1>3. spin \in [Spins -> SpinRow]
  BY DEF SpinRow, Customer!NoSpin
<1>4. disturbed \subseteq Customer!Things /\ box \in [opened : BOOLEAN, draws : 0..2]
  OBVIOUS
<1>5. Customer!TypeOK
  <2>1. checkins \in 0..MaxPoints /\ balance \in 0..MaxPoints /\ recorded \in 0..MaxPoints
        /\ died \in 0..MaxPoints
    OBVIOUS
  <2>. QED  BY <1>1, <1>2, <1>3, <1>4, <2>1, TypedParts
<1>6. Recording = {}
  BY <1>1 DEF Recording, Customer!At
<1>7. Accounted
  BY <1>6, FS_EmptySet DEF Accounted, Customer!NoSpin
<1>8. JoinsFit
  BY <1>1 DEF JoinsFit, Customer!At
<1>9. ASSUME NEW thing \in Customer!Things PROVE Alone(thing) /\ Once(thing)
  <2>1. Alone(thing)
    BY <1>1, StepsOfThings DEF Alone, Asks
  <2>2. CheckinOnce /\ SpinOnce /\ PrizeOnce /\ PoolOnce /\ BoxOnce
    BY <1>1 DEF CheckinOnce, SpinOnce, PrizeOnce, CreditOnce, PoolOnce, BoxOnce, Customer!NoSpin
  <2>. QED  BY <2>1, <2>2 DEF Once
<1>. QED  BY <1>5, <1>7, <1>8, <1>9 DEF RewardsInv, OnceInv

LEMMA RewardsKept ==
    RewardsInv /\ OnceInv /\ [Customer!Next]_rewardVars => RewardsInv' /\ OnceInv'
<1> SUFFICES ASSUME RewardsInv, OnceInv, [Customer!Next]_rewardVars PROVE RewardsInv' /\ OnceInv'
  OBVIOUS
<1>1. CASE UNCHANGED rewardVars
  <2>1. Recording' = Recording
    BY <1>1 DEF rewardVars, Recording, Customer!At
  <2>. QED  BY <1>1, <2>1
            DEF rewardVars, RewardsInv, Customer!TypeOK, Accounted, JoinsFit, OnceInv, Once,
                Alone, Asks, CheckinOnce, SpinOnce, PrizeOnce, CreditOnce, PoolOnce, BoxOnce,
                Customer!At
<1>2. ASSUME NEW c \in Calls, Customer!DailyCheckin(c) \/ Customer!SpinWin(c)
      PROVE  RewardsInv' /\ OnceInv'
  BY <1>2, ReadsKeep, CheckinKeeps, SpinKeeps, CreditKeeps, RecordKeeps, MarkKeeps
     DEF Customer!DailyCheckin, Customer!SpinWin, Reads
<1>3. ASSUME NEW c \in Calls, Customer!Squad(c) \/ Customer!MysteryBox(c) \/ Customer!CallDies(c)
      PROVE  RewardsInv' /\ OnceInv'
  BY <1>3, ReadsKeep, JoinKeeps, PoolEndKeeps, OpenKeeps, DyingKeeps
     DEF Customer!Squad, Customer!MysteryBox, Reads
<1>. QED  BY <1>1, <1>2, <1>3, TimeKeeps
          DEF Customer!Next, Customer!Points, Customer!Squads, Customer!Boxes

-----------------------------------------------------------------------------
(* The parts together.                                                     *)

StoreInv == FormInvariant /\ Page!TypeOK /\ RewardsInv /\ OnceInv

LEMMA StoreInvariant == StoreSpec => []StoreInv
<1>1. StoreStart => StoreInv
  BY InitEstablishes, PageInitially, RewardsInitially DEF StoreStart, StoreInv
<1>2. StoreInv /\ [StoreNext]_storeVars => StoreInv'
  <2> SUFFICES ASSUME StoreInv, [StoreNext]_storeVars PROVE StoreInv'
    OBVIOUS
  <2>1. [FormNext]_formVars /\ [Page!Next]_pageVars /\ [Customer!Next]_rewardVars
    BY DEF StoreNext, OfCustomer, OfPage, Of, storeVars, storeRows, Customer!Next
  <2>. QED  BY <2>1, NextPreserves, PageKept, RewardsKept DEF StoreInv
<1>. QED  BY <1>1, <1>2, PTL DEF StoreSpec

\* The rows and calls of the rewards, the page and the form keep their types
\* (StoreTypeOK): no claim or join in flight writes more than its bound.
THEOREM StoreTypeCorrect == StoreSpec => []StoreTypeOK
<1>1. StoreInv => StoreTypeOK
  BY DEF StoreInv, RewardsInv, FormInvariant, StoreTypeOK
<1>. QED  BY <1>1, StoreInvariant, PTL

\* For any number of overlapping and dying requests, every point of the
\* balance is recorded, on its way to be recorded, or lost with a claim that
\* died between its two writes (PointsAreAccounted).
THEOREM PointsCorrect == StoreSpec => []PointsAreAccounted
<1>1. StoreInv => PointsAreAccounted
  BY Instances DEF StoreInv, RewardsInv, Accounted, Recording, PointsAreAccounted,
                   Customer!PointsAreAccounted
<1>. QED  BY <1>1, StoreInvariant, PTL

\* A check-in, a spin, a prize or a draw is given twice only after two
\* requests for that same thing overlapped, or the mark that says it was given
\* was lost (TwiceNeedsDisturbance).
THEOREM TwiceCorrect == StoreSpec => []TwiceNeedsDisturbance
<1>1. StoreInv => TwiceNeedsDisturbance
  <2> SUFFICES ASSUME StoreInv PROVE TwiceNeedsDisturbance
    OBVIOUS
  <2>1. \A thing \in Customer!Things : thing \notin disturbed => Once(thing)
    BY DEF StoreInv, OnceInv
  <2>2. checkins > 1 => "checkin" \in disturbed
    <3>1. checkins \in Int
      BY TypedParts, StoreAssumption DEF StoreInv, RewardsInv
    <3>. QED  BY <2>1, <3>1, StepsOfThings DEF Once, CheckinOnce
  <2>3. ASSUME "spin" \notin disturbed
        PROVE  ~(Customer!Cardinality({s \in Spins : spin[s].today}) > 1)
    <3> DEFINE today == {s \in Spins : spin[s].today}
    <3>1. \A s, t \in today : s = t
      BY <2>1, <2>3, StepsOfThings DEF Once, SpinOnce
    <3>2. today = {} \/ \E s : today = {s}
      BY <3>1
    <3> HIDE DEF today
    <3>3. Cardinality(today) \in {0, 1}
      BY <3>2, FS_EmptySet, FS_Singleton
    <3>4. ~(Customer!Cardinality(today) > 1)
      BY <3>3, Instances
    <3>. QED  BY <3>4 DEF today
  <2>4. ASSUME NEW s \in Spins, "prize" \notin disturbed PROVE ~(spin[s].credits > 1)
    BY <2>1, <2>4, StepsOfThings DEF Once, PrizeOnce, CreditOnce
  <2>5. box.draws > 1 => "box" \in disturbed
    BY <2>1, StepsOfThings DEF Once, BoxOnce
  <2>. QED  BY <2>2, <2>3, <2>4, <2>5 DEF TwiceNeedsDisturbance, Customer!TwiceNeedsDisturbance
<1>. QED  BY <1>1, StoreInvariant, PTL

\* As long as no two joins or cancellations of a pool overlap, every join takes
\* a place of its own, a full pool is closed and one that ended stays so
\* (PoolAddsUp).
THEOREM PoolCorrect == StoreSpec => []PoolAddsUp
<1>1. StoreInv => PoolAddsUp
  <2> SUFFICES ASSUME StoreInv, "pool" \notin disturbed PROVE PoolAddsUp
    BY DEF PoolAddsUp, Customer!PoolAddsUp
  <2>1. PoolOnce
    BY StepsOfThings DEF StoreInv, OnceInv, Once
  <2>2. pool.currentSize \in Nat /\ TargetSize \in Nat
    BY TypedParts, StoreAssumption DEF StoreInv, RewardsInv, PoolRow
  <2>. QED  BY <2>1, <2>2 DEF PoolOnce, PoolAddsUp, Customer!PoolAddsUp
<1>. QED  BY <1>1, StoreInvariant, PTL
=============================================================================
