-------------------------- MODULE AdminOrders_proofs --------------------------
(***************************************************************************)
(* Theorems about AdminOrders, for any administrators, sweeps, requests,   *)
(* workers and orders, with crashes: what is sent to a provider is covered *)
(* by the decisions that made the order PAID, and those by the calls.  The *)
(* steps of PaymentLifecycle enter by the lemmas proved there; a count of  *)
(* a set goes up and down by one as an actor joins or leaves it.           *)
(***************************************************************************)
EXTENDS MCRecovery, PaymentLifecycle_proofs, Recovery_proofs, FiniteSetTheorems

-----------------------------------------------------------------------------
(* Types.  How often an order became paid is bounded by the calls only, so *)
(* here these are natural numbers; the bounds are proved from the counts.  *)

DeskStates == [pc : {"idle", "count", "write"}, order : Orders \cup {NoOrder}, to : Verdicts]
SweepStates == [pc : {"idle", "ask", "settle", "write"}, order : Orders \cup {NoOrder},
                read : {"PENDING", "PROCESSING"}, provider : ProviderStates]

OutsideTyped ==
    /\ desk \in [Desks -> DeskStates]
    /\ \A d \in Desks : desk[d].pc # "idle" => desk[d].order \in Orders
    /\ sweep \in [Sweeps -> SweepStates]
    /\ \A s \in Sweeps : sweep[s].pc # "idle" => sweep[s].order \in Orders
    /\ spent \in [Orders -> Nat]
    /\ calls \in 0..MaxCalls

AdminTyped ==
    Typed /\ RetryWithinBound /\ OutsideTyped /\ becamePaid \in [Orders -> Nat]

LEMMA VerdictsAreStates ==
    /\ Verdicts \subseteq AnyState /\ BulkVerdicts \subseteq AnyState
    /\ "EXPIRED" \in AnyState /\ "DELIVERED" \in AnyState /\ "FAILED" \in AnyState
    /\ "PAID" \in AnyState
BY DEF Verdicts, BulkVerdicts, AnyState, PaymentState

\* The history variable counts what its name says.
LEMMA CountPaidEffect ==
    ASSUME becamePaid \in [Orders -> Nat], CountPaid
    PROVE  /\ becamePaid' \in [Orders -> Nat]
           /\ \A o \in Orders :
                becamePaid'[o] = IF status[o] # "PAID" /\ status'[o] = "PAID"
                                 THEN becamePaid[o] + 1 ELSE becamePaid[o]
BY DEF CountPaid

\* An administrator's write puts a verdict where the order's row was.
LEMMA DeskTyped ==
    ASSUME AdminTyped, NEW d \in Desks,
           \/ \E o \in Orders, to \in Verdicts : PatchReads(d, o, to)
           \/ UpdateUserTotalSpent(d)
           \/ PatchWrites(d)
    PROVE  /\ Typed' /\ OutsideTyped'
           /\ UNCHANGED <<dispatched, proc>>
<1> USE DEF AdminTyped
<1>1. ASSUME NEW o \in Orders, NEW to \in Verdicts, PatchReads(d, o, to)
      PROVE  /\ Typed' /\ OutsideTyped'
             /\ UNCHANGED <<dispatched, proc>>
  <2>1. Typed' /\ UNCHANGED <<dispatched, proc>>
    BY <1>1 DEF PatchReads, vars, Typed
  <2>2. PICK pc \in {"count", "write"} :
          desk' = [desk EXCEPT ![d] = [pc |-> pc, order |-> o, to |-> to]]
    BY <1>1 DEF PatchReads
  <2>3. [pc |-> pc, order |-> o, to |-> to] \in DeskStates
    BY <2>2 DEF DeskStates
  <2>4. /\ desk' \in [Desks -> DeskStates]
        /\ \A e \in Desks : desk'[e].pc # "idle" => desk'[e].order \in Orders
    BY <2>2, <2>3 DEF OutsideTyped
  <2>5. calls' \in 0..MaxCalls
    BY <1>1, AdminAssumption DEF PatchReads, NewVerdict, OutsideTyped
  <2>6. UNCHANGED <<sweep, spent>>
    BY <1>1 DEF PatchReads
  <2>7. OutsideTyped'
    BY <2>4, <2>5, <2>6 DEF OutsideTyped
  <2> QED BY <2>1, <2>7
<1>2. CASE UpdateUserTotalSpent(d)
  <2>1. Typed' /\ UNCHANGED <<dispatched, proc>>
    BY <1>2 DEF UpdateUserTotalSpent, vars, Typed
  <2>2. desk[d].order \in Orders /\ desk[d] \in DeskStates
    BY <1>2 DEF UpdateUserTotalSpent, OutsideTyped
  <2>3. spent' \in [Orders -> Nat]
    BY <1>2, <2>2 DEF UpdateUserTotalSpent, OutsideTyped
  <2>4. [desk[d] EXCEPT !.pc = "write"] \in DeskStates
        /\ [desk[d] EXCEPT !.pc = "write"].order = desk[d].order
    BY <2>2 DEF DeskStates
  <2>5. /\ desk' \in [Desks -> DeskStates]
        /\ \A e \in Desks : desk'[e].pc # "idle" => desk'[e].order \in Orders
    BY <1>2, <2>2, <2>4 DEF UpdateUserTotalSpent, OutsideTyped
  <2>6. UNCHANGED <<sweep, calls>>
    BY <1>2 DEF UpdateUserTotalSpent
  <2>7. OutsideTyped'
    BY <2>3, <2>5, <2>6 DEF OutsideTyped
  <2> QED BY <2>1, <2>7
<1>3. CASE PatchWrites(d)
  <2>1. desk[d].order \in Orders /\ desk[d] \in DeskStates
    BY <1>3 DEF PatchWrites, OutsideTyped
  <2>2. desk[d].to \in AnyState
    BY <2>1, VerdictsAreStates DEF DeskStates
  <2>3. Typed' /\ UNCHANGED <<dispatched, proc>>
    BY <1>3, <2>1, <2>2 DEF PatchWrites, LifecycleRest, worldVars, providerVars, Typed
  <2>4. IdleDesk \in DeskStates /\ IdleDesk.pc = "idle"
    BY DEF IdleDesk, DeskStates, Verdicts
  <2>5. /\ desk' \in [Desks -> DeskStates]
        /\ \A e \in Desks : desk'[e].pc # "idle" => desk'[e].order \in Orders
    BY <1>3, <2>4 DEF PatchWrites, OutsideTyped
  <2>6. UNCHANGED <<sweep, spent, calls>>
    BY <1>3 DEF PatchWrites
  <2>7. OutsideTyped'
    BY <2>5, <2>6 DEF OutsideTyped
  <2> QED BY <2>3, <2>7
<1> QED BY <1>1, <1>2, <1>3

LEMMA BulkTyped ==
    ASSUME AdminTyped, NEW to \in BulkVerdicts, BulkUpdate(to)
    PROVE  /\ Typed' /\ OutsideTyped'
           /\ UNCHANGED <<dispatched, proc>>
           /\ \A o \in Orders : status'[o] # status[o] => status'[o] \notin {"PENDING", "PAID"}
<1> USE DEF AdminTyped
<1>1. status' \in [Orders -> AnyState]
  BY VerdictsAreStates DEF BulkUpdate, Typed
<1>2. \A o \in Orders : status'[o] = status[o] \/ status'[o] = to
  BY DEF BulkUpdate
<1>3. Typed' /\ UNCHANGED <<dispatched, proc>>
  BY <1>1 DEF BulkUpdate, LifecycleRest, worldVars, providerVars, Typed
<1>4. calls' \in 0..MaxCalls
  BY AdminAssumption DEF BulkUpdate, NewVerdict, OutsideTyped
<1>5. OutsideTyped'
  BY <1>4 DEF BulkUpdate, OutsideTyped
<1> QED BY <1>2, <1>3, <1>5 DEF BulkVerdicts

SweepSteps(s) ==
    \/ \E o \in Orders : SweepReads(s, o)
    \/ SweepAsks(s) \/ SweepMarksPaid(s) \/ SweepGivesUp(s)
    \/ SweepReadsJob(s) \/ SweepDelivers(s) \/ SweepLeaves(s)

\* A sweep writes one order; it makes it paid only by the compare-and-set.
LEMMA SweepTyped ==
    ASSUME AdminTyped, NEW s \in Sweeps, SweepSteps(s)
    PROVE  /\ Typed' /\ OutsideTyped'
           /\ UNCHANGED <<dispatched, proc, desk, spent>>
           /\ calls' \in Nat /\ calls' >= calls
           /\ \A o \in Orders : status'[o] # status[o] =>
                 status'[o] # "PENDING" /\ (status'[o] = "PAID" => status[o] = "PENDING")
<1> USE DEF AdminTyped
<1> DEFINE moves == \A o \in Orders : status'[o] # status[o] =>
                       status'[o] # "PENDING" /\ (status'[o] = "PAID" => status[o] = "PENDING")
           sweepTyped == /\ sweep' \in [Sweeps -> SweepStates]
                         /\ \A t \in Sweeps : sweep'[t].pc # "idle" => sweep'[t].order \in Orders
<1>0. calls \in Nat
  BY AdminAssumption DEF OutsideTyped
<1>1. ASSUME NEW x \in SweepStates, x.pc # "idle" => x.order \in Orders,
             sweep' = [sweep EXCEPT ![s] = x]
      PROVE  sweepTyped
  BY <1>1 DEF OutsideTyped
<1>2. IdleSweep \in SweepStates /\ IdleSweep.pc = "idle"
  BY DEF IdleSweep, SweepStates, ProviderStates
<1>3. SweepEnds(s) => sweepTyped
  BY <1>1, <1>2 DEF SweepEnds
<1>4. ASSUME sweepTyped, UNCHANGED <<vars, desk, spent, calls>>
      PROVE  /\ Typed' /\ OutsideTyped'
             /\ UNCHANGED <<dispatched, proc, desk, spent>>
             /\ calls' \in Nat /\ calls' >= calls
             /\ moves
  <2>1. Typed' /\ UNCHANGED <<status, dispatched, proc>>
    BY <1>4 DEF vars, Typed
  <2>2. OutsideTyped'
    BY <1>4 DEF OutsideTyped
  <2> QED BY <1>0, <1>4, <2>1, <2>2
<1>5. ASSUME NEW o \in Orders, SweepReads(s, o)
      PROVE  /\ Typed' /\ OutsideTyped'
             /\ UNCHANGED <<dispatched, proc, desk, spent>>
             /\ calls' \in Nat /\ calls' >= calls
             /\ moves
  <2>1. PICK pc \in {"ask", "settle"} :
          sweep' = [sweep EXCEPT ![s] = [pc |-> pc, order |-> o,
                                         read |-> status[o], provider |-> "none"]]
    BY <1>5 DEF SweepReads
  <2>2. [pc |-> pc, order |-> o, read |-> status[o], provider |-> "none"] \in SweepStates
    BY <1>5, <2>1 DEF SweepReads, SweepStates, ProviderStates
  <2>3. sweepTyped
    BY <1>1, <2>1, <2>2
  <2>4. calls' \in 0..MaxCalls /\ calls' = calls + 1
    BY <1>5, AdminAssumption DEF SweepReads, NewVerdict, OutsideTyped
  <2>5. UNCHANGED <<status, dispatched, proc, desk, spent>> /\ Typed'
    BY <1>5 DEF SweepReads, vars, Typed
  <2>6. OutsideTyped'
    BY <2>3, <2>4, <2>5 DEF OutsideTyped
  <2> QED BY <1>0, <2>4, <2>5, <2>6
<1>6. CASE SweepAsks(s)
  <2>1. sweep[s] \in SweepStates /\ sweep[s].order \in Orders
    BY <1>6 DEF SweepAsks, OutsideTyped
  <2>2. PICK answer \in ProviderStates :
          sweep' = [sweep EXCEPT ![s].pc = "settle", ![s].provider = answer]
    BY <1>6 DEF SweepAsks, ProviderStates
  <2> DEFINE x == [sweep[s] EXCEPT !.pc = "settle", !.provider = answer]
  <2>3. x \in SweepStates /\ x.order \in Orders
    BY <2>1 DEF SweepStates
  <2>4. sweep' = [sweep EXCEPT ![s] = x]
    BY <2>2 DEF OutsideTyped
  <2> HIDE DEF x
  <2>5. sweepTyped
    BY <1>1, <2>3, <2>4
  <2> QED BY <1>4, <1>6, <2>5 DEF SweepAsks
<1>7. CASE SweepReadsJob(s)
  <2>1. sweep[s] \in SweepStates /\ sweep[s].order \in Orders
    BY <1>7 DEF SweepReadsJob, OutsideTyped
  <2> DEFINE x == [sweep[s] EXCEPT !.pc = "write"]
  <2>2. x \in SweepStates /\ x.order \in Orders
    BY <2>1 DEF SweepStates
  <2>3. sweep' = [sweep EXCEPT ![s] = x]
    BY <1>7 DEF SweepReadsJob, OutsideTyped
  <2> HIDE DEF x
  <2>4. sweepTyped
    BY <1>1, <2>2, <2>3
  <2> QED BY <1>4, <1>7, <2>4 DEF SweepReadsJob
<1>8. CASE SweepLeaves(s)
  BY <1>3, <1>4, <1>8 DEF SweepLeaves
<1>9. CASE SweepMarksPaid(s) \/ SweepGivesUp(s) \/ SweepDelivers(s)
  <2>1. sweepTyped /\ UNCHANGED <<desk, spent, calls>>
    BY <1>3, <1>9 DEF SweepMarksPaid, SweepGivesUp, SweepDelivers
  <2>2. OutsideTyped'
    BY <2>1 DEF OutsideTyped
  <2>3. UNCHANGED <<expired, bakong, jobs, dispatched, credited, proc>>
    BY <1>9 DEF SweepMarksPaid, SweepGivesUp, SweepDelivers, worldVars, providerVars
  <2>4. sweep[s].order \in Orders
    BY <1>9 DEF SweepMarksPaid, SweepGivesUp, SweepDelivers, OutsideTyped
  <2>5. CASE SweepMarksPaid(s)
    <3>1. status' \in [Orders -> AnyState] /\ md5' \in [Orders -> BOOLEAN]
      BY <2>4, <2>5, TransitionType DEF SweepMarksPaid, PaymentState
    <3>2. moves
      BY <2>4, <2>5 DEF SweepMarksPaid, TransitionOrderState, Applies, orderVars, Typed
    <3> QED BY <1>0, <2>1, <2>2, <2>3, <3>1, <3>2 DEF Typed
  <2>6. CASE SweepGivesUp(s) \/ SweepDelivers(s)
    <3>1. PICK to \in {"FAILED", "EXPIRED", "DELIVERED"} :
            status' = [status EXCEPT ![sweep[s].order] = to]
      BY <2>6 DEF SweepGivesUp, SweepDelivers, OverwriteStatus
    <3>2. md5' \in [Orders -> BOOLEAN]
      BY <2>6 DEF SweepGivesUp, SweepDelivers, OverwriteStatus, Typed
    <3>3. status' \in [Orders -> AnyState] /\ moves
      BY <2>4, <3>1, VerdictsAreStates DEF Typed
    <3> QED BY <1>0, <2>1, <2>2, <2>3, <3>2, <3>3 DEF Typed
  <2> QED BY <1>9, <2>5, <2>6
<1> QED BY <1>5, <1>6, <1>7, <1>8, <1>9 DEF SweepSteps
\* The steps of the lifecycle among the others.
LEMMA LifecycleTyped ==
    ASSUME AdminTyped, [Next]_vars, UNCHANGED outsideVars
    PROVE  /\ Typed' /\ RetryWithinBound' /\ OutsideTyped'
           /\ \A o \in Orders : status'[o] # status[o] =>
                 status'[o] # "PENDING" /\ (status'[o] = "PAID" => status[o] = "PENDING")
<1> USE DEF AdminTyped
<1>1. Typed' /\ RetryWithinBound'
  BY TypeStep, RetryStep
<1>2. OutsideTyped'
  BY DEF outsideVars, OutsideTyped
<1>3. ASSUME NEW o \in Orders, status'[o] # status[o]
      PROVE  status'[o] # "PENDING" /\ (status'[o] = "PAID" => status[o] = "PENDING")
  <2>1. CASE \E p \in Procs : Step(p) \/ Crash(p)
    BY <1>3, <2>1, StatusMoves
  <2>2. CASE \E p \in Procs, x \in Orders :
               Arrival(p, x) \/ WorkerRound(p, x) \/ CheckPendingPayments(p, x)
    BY <1>3, <2>2, StartShape DEF orderVars
  <2> QED BY <1>3, <2>1, <2>2 DEF Next, vars, Procs, CustomerPays, PaymentWindowCloses,
             orderVars
<1> QED BY <1>1, <1>2, <1>3

-----------------------------------------------------------------------------
(* The bounds.  A call of an administrator is spent on one order: while it *)
(* is under way it stands for a decision that may still come, and so does  *)
(* an order that is still to be paid for the first time.                   *)

BusyDesks == {d \in Desks : desk[d].pc # "idle"}
Counting == {d \in Desks : desk[d].pc = "count"}

ToBePaid(o) == IF status[o] = "PENDING" THEN 1 ELSE 0

Bounds ==
    /\ IsFiniteSet(BusyDesks) /\ IsFiniteSet(Counting)
    /\ \A o \in Orders :
         /\ becamePaid[o] + ToBePaid(o) + Cardinality(BusyDesks) <= calls + 1
         /\ spent[o] + Cardinality(Counting) <= calls

\* A step that leaves the desks alone and makes only a pending order paid.
LEMMA QuietBounds ==
    ASSUME AdminTyped, Bounds, CountPaid, UNCHANGED <<desk, spent>>,
           calls' \in Nat, calls' >= calls,
           \A o \in Orders : status'[o] # status[o] =>
              status'[o] # "PENDING" /\ (status'[o] = "PAID" => status[o] = "PENDING")
    PROVE  Bounds'
<1>1. BusyDesks' = BusyDesks /\ Counting' = Counting
  BY DEF BusyDesks, Counting
<1>2. /\ Cardinality(BusyDesks) \in Nat /\ Cardinality(Counting) \in Nat
      /\ calls \in Nat
  BY FS_CardinalityType, AdminAssumption DEF Bounds, AdminTyped, OutsideTyped
<1>3. ASSUME NEW o \in Orders
      PROVE  /\ becamePaid'[o] + ToBePaid(o)' <= becamePaid[o] + ToBePaid(o)
             /\ becamePaid[o] \in Nat /\ becamePaid'[o] \in Nat /\ spent[o] \in Nat
             /\ ToBePaid(o) \in Nat /\ ToBePaid(o)' \in Nat
  <2>1. becamePaid[o] \in Nat /\ spent[o] \in Nat
    BY DEF AdminTyped, OutsideTyped
  <2>2. /\ becamePaid'[o] \in Nat
        /\ becamePaid'[o] = IF status[o] # "PAID" /\ status'[o] = "PAID"
                            THEN becamePaid[o] + 1 ELSE becamePaid[o]
    BY CountPaidEffect DEF AdminTyped
  <2> QED BY <2>1, <2>2 DEF ToBePaid
<1>4. ASSUME NEW o \in Orders
      PROVE  /\ becamePaid'[o] + ToBePaid(o)' + Cardinality(BusyDesks) <= calls' + 1
             /\ spent'[o] + Cardinality(Counting) <= calls'
  <2>1. /\ becamePaid[o] + ToBePaid(o) + Cardinality(BusyDesks) <= calls + 1
        /\ spent[o] + Cardinality(Counting) <= calls
    BY DEF Bounds
  <2>2. spent'[o] = spent[o]
    OBVIOUS
  <2> QED BY <1>2, <1>3, <2>1, <2>2
<1> QED BY <1>1, <1>4 DEF Bounds

\* The steps of a desk: a call is opened, counted for the customer, written.
LEMMA DeskBounds ==
    ASSUME AdminTyped, Bounds, CountPaid, NEW d \in Desks,
           \/ \E o \in Orders, to \in Verdicts : PatchReads(d, o, to)
           \/ UpdateUserTotalSpent(d)
           \/ PatchWrites(d)
    PROVE  Bounds'
<1> USE DEF AdminTyped, OutsideTyped
<1>0. /\ Cardinality(BusyDesks) \in Nat /\ Cardinality(Counting) \in Nat
      /\ IsFiniteSet(BusyDesks) /\ IsFiniteSet(Counting)
      /\ calls \in Nat
  BY FS_CardinalityType, AdminAssumption DEF Bounds
<1>1. ASSUME NEW o \in Orders
      PROVE  /\ becamePaid[o] \in Nat /\ spent[o] \in Nat /\ becamePaid'[o] \in Nat
             /\ becamePaid'[o] = IF status[o] # "PAID" /\ status'[o] = "PAID"
                                 THEN becamePaid[o] + 1 ELSE becamePaid[o]
             /\ becamePaid[o] + ToBePaid(o) + Cardinality(BusyDesks) <= calls + 1
             /\ spent[o] + Cardinality(Counting) <= calls
             /\ ToBePaid(o) \in {0, 1}
  BY CountPaidEffect DEF Bounds, ToBePaid
<1>2. ASSUME NEW p \in Orders, NEW to \in Verdicts, PatchReads(d, p, to)
      PROVE  Bounds'
  <2>1. PICK pc \in {"count", "write"} :
          desk' = [desk EXCEPT ![d] = [pc |-> pc, order |-> p, to |-> to]]
    BY <1>2 DEF PatchReads
  <2>2. d \notin BusyDesks /\ d \notin Counting
    BY <1>2 DEF PatchReads, IdleDesk, BusyDesks, Counting
  <2>3. BusyDesks' = BusyDesks \cup {d} /\ Counting' \in {Counting, Counting \cup {d}}
    <3>1. desk'[d].pc = pc /\ \A e \in Desks : e # d => desk'[e] = desk[e]
      BY <2>1
    <3>2. BusyDesks' = BusyDesks \cup {d}
      BY <2>1, <3>1 DEF BusyDesks
    <3>3. CASE pc = "count"
      <4>1. Counting' = Counting \cup {d}
        BY <3>1, <3>3 DEF Counting
      <4> QED BY <3>2, <4>1
    <3>4. CASE pc = "write"
      <4>1. Counting' = Counting
        BY <2>2, <3>1, <3>4 DEF Counting
      <4> QED BY <3>2, <4>1
    <3> QED BY <2>1, <3>3, <3>4
  <2>4. /\ IsFiniteSet(BusyDesks') /\ Cardinality(BusyDesks') = Cardinality(BusyDesks) + 1
        /\ IsFiniteSet(Counting') /\ Cardinality(Counting') <= Cardinality(Counting) + 1
        /\ Cardinality(Counting') \in Nat
    <3>1. /\ IsFiniteSet(BusyDesks \cup {d}) /\ IsFiniteSet(Counting \cup {d})
          /\ Cardinality(BusyDesks \cup {d}) = Cardinality(BusyDesks) + 1
          /\ Cardinality(Counting \cup {d}) = Cardinality(Counting) + 1
      BY <1>0, <2>2, FS_AddElement
    <3>2. CASE Counting' = Counting
      BY <1>0, <2>3, <3>1, <3>2
    <3>3. CASE Counting' = Counting \cup {d}
      BY <1>0, <2>3, <3>1, <3>3
    <3> QED BY <2>3, <3>2, <3>3
  <2>5. calls' = calls + 1 /\ UNCHANGED <<status, spent>>
    BY <1>2 DEF PatchReads, NewVerdict, vars
  <2>6. ASSUME NEW o \in Orders
        PROVE  /\ becamePaid'[o] + ToBePaid(o)' + Cardinality(BusyDesks') <= calls' + 1
               /\ spent'[o] + Cardinality(Counting') <= calls'
    <3>1. becamePaid'[o] = becamePaid[o] /\ ToBePaid(o)' = ToBePaid(o) /\ spent'[o] = spent[o]
      BY <1>1, <2>5 DEF ToBePaid
    <3> QED BY <1>0, <1>1, <2>4, <2>5, <3>1
  <2> QED BY <2>4, <2>6 DEF Bounds
<1>3. CASE UpdateUserTotalSpent(d)
  <2>1. /\ desk' = [desk EXCEPT ![d].pc = "write"] /\ desk[d].pc = "count"
        /\ UNCHANGED <<status, calls>>
        /\ spent' = [spent EXCEPT ![desk[d].order] = @ + 1]
    BY <1>3 DEF UpdateUserTotalSpent, vars
  <2>2. desk'[d].pc = "write" /\ \A e \in Desks : e # d => desk'[e] = desk[e]
    BY <2>1 DEF DeskStates
  <2>3. BusyDesks' = BusyDesks /\ Counting' = Counting \ {d} /\ d \in Counting
    BY <2>1, <2>2 DEF BusyDesks, Counting
  <2>4. IsFiniteSet(Counting') /\ Cardinality(Counting') = Cardinality(Counting) - 1
    BY <1>0, <2>3, FS_RemoveElement
  <2>5. ASSUME NEW o \in Orders
        PROVE  /\ becamePaid'[o] + ToBePaid(o)' + Cardinality(BusyDesks') <= calls' + 1
               /\ spent'[o] + Cardinality(Counting') <= calls'
    <3>1. becamePaid'[o] = becamePaid[o] /\ ToBePaid(o)' = ToBePaid(o)
      BY <1>1, <2>1 DEF ToBePaid
    <3>2. spent'[o] <= spent[o] + 1 /\ spent'[o] \in Nat
      BY <1>1, <2>1
    <3> QED BY <1>0, <1>1, <2>1, <2>3, <2>4, <3>1, <3>2
  <2> QED BY <1>0, <2>3, <2>4, <2>5 DEF Bounds
<1>4. CASE PatchWrites(d)
  <2>1. /\ desk' = [desk EXCEPT ![d] = IdleDesk] /\ desk[d].pc = "write"
        /\ UNCHANGED <<calls, spent>>
    BY <1>4 DEF PatchWrites
  <2>2. desk'[d].pc = "idle" /\ \A e \in Desks : e # d => desk'[e] = desk[e]
    BY <2>1 DEF IdleDesk
  <2>3. BusyDesks' = BusyDesks \ {d} /\ Counting' = Counting /\ d \in BusyDesks
    BY <2>1, <2>2 DEF BusyDesks, Counting
  <2>4. IsFiniteSet(BusyDesks') /\ Cardinality(BusyDesks') = Cardinality(BusyDesks) - 1
    BY <1>0, <2>3, FS_RemoveElement
  <2>5. ASSUME NEW o \in Orders
        PROVE  /\ becamePaid'[o] + ToBePaid(o)' + Cardinality(BusyDesks') <= calls' + 1
               /\ spent'[o] + Cardinality(Counting') <= calls'
    <3>1. becamePaid'[o] + ToBePaid(o)' <= becamePaid[o] + ToBePaid(o) + 1
          /\ ToBePaid(o)' \in {0, 1}
      BY <1>1 DEF ToBePaid
    <3>2. spent'[o] = spent[o]
      BY <2>1
    <3> QED BY <1>0, <1>1, <2>1, <2>3, <2>4, <3>1, <3>2
  <2> QED BY <1>0, <2>3, <2>4, <2>5 DEF Bounds
<1> QED BY <1>2, <1>3, <1>4
-----------------------------------------------------------------------------
(* The dispatches.  A worker before the provider call has won the          *)
(* compare-and-set PAID -> PROCESSING, which used up one decision; that an *)
(* administrator may make the order PAID again under its feet is why the   *)
(* winners are counted, and not only excluded as among the workers alone.  *)

Winners(o) == {p \in Procs : proc[p].pc = "callProvider" /\ proc[p].order = o}
Paid01(o) == IF status[o] = "PAID" THEN 1 ELSE 0

WinnersCovered ==
    \A o \in Orders :
        /\ IsFiniteSet(Winners(o))
        /\ dispatched[o] + Cardinality(Winners(o)) + Paid01(o) <= becamePaid[o]

\* A step that makes no winner and none less: a new PAID is a new decision.
LEMMA CoveredStays ==
    ASSUME AdminTyped, WinnersCovered, CountPaid, NEW o \in Orders,
           Winners(o)' = Winners(o), dispatched'[o] = dispatched[o]
    PROVE  /\ IsFiniteSet(Winners(o)')
           /\ dispatched'[o] + Cardinality(Winners(o)') + Paid01(o)' <= becamePaid'[o]
<1>1. /\ IsFiniteSet(Winners(o)) /\ Cardinality(Winners(o)) \in Nat
      /\ dispatched[o] + Cardinality(Winners(o)) + Paid01(o) <= becamePaid[o]
  BY FS_CardinalityType DEF WinnersCovered
<1>2. /\ becamePaid[o] \in Nat /\ dispatched[o] \in Nat
      /\ becamePaid'[o] = IF status[o] # "PAID" /\ status'[o] = "PAID"
                          THEN becamePaid[o] + 1 ELSE becamePaid[o]
  BY CountPaidEffect DEF AdminTyped, Typed
<1>3. Paid01(o)' + becamePaid[o] <= Paid01(o) + becamePaid'[o]
      /\ Paid01(o) \in {0, 1} /\ Paid01(o)' \in {0, 1}
  BY <1>2 DEF Paid01
<1>4. becamePaid'[o] \in Nat
  BY <1>2
<1> QED BY <1>1, <1>2, <1>3, <1>4

\* A worker leaves the provider call with its next step, the status untouched.
LEMMA CallerLeaves ==
    ASSUME Typed, NEW p \in Procs, proc[p].pc = "callProvider", Step(p) \/ Crash(p)
    PROVE  proc'[p].pc # "callProvider" /\ UNCHANGED status
<1>1. CASE CallProvider(p)
  <2>1. PICK step \in {"failJob", "markDelivered", "unknownJob"} : Goto(p, step)
    BY <1>1 DEF CallProvider, AfterAnswer
  <2> QED BY <1>1, <2>1, GotoEffect DEF CallProvider, orderVars
<1>2. CASE Crash(p)
  BY <1>2, ReturnEffect DEF Crash, Idle, orderVars
<1> QED BY <1>1, <1>2 DEF Step, At, BakongConfirms, BakongDoesNotConfirm, RereadStatus,
       MarkOrderAsPaid, CancelOrder, ExpireOrder, CreateJob, ClaimJob, StartProcessing,
       MarkOrderAsDelivered, CompleteJob, UnknownJob, MarkOrderForManualReview, FailJob,
       MarkOrderAsFailed, ScheduleRetry

\* A step of a process keeps every order covered: it wins a PAID order, it is
\* through with the provider call, it dies before it, or it is elsewhere.
LEMMA CoveredStep ==
    ASSUME AdminTyped, WinnersCovered, CountPaid, NEW p \in Procs, Step(p) \/ Crash(p)
    PROVE  WinnersCovered'
<1> USE DEF AdminTyped
<1>0. PICK x \in Orders : x = proc[p].order
  <2>1. proc[p].pc # "idle"
    BY StepShape
  <2>2. proc[p] \in {Idle} \cup Activity
    BY DEF Typed
  <2>3. proc[p].order \in Orders
    BY <2>1, <2>2 DEF Idle, Activity
  <2> QED BY <2>3
<1>1. \A q \in Procs : q # p => proc'[q] = proc[q]
  BY StepShape
<1>2. ASSUME NEW o \in Orders, o # x
      PROVE  /\ IsFiniteSet(Winners(o)')
             /\ dispatched'[o] + Cardinality(Winners(o)') + Paid01(o)' <= becamePaid'[o]
  <2>1. proc'[p].pc = "callProvider" => proc'[p].order # o
    BY <1>0, <1>2, StepShape DEF Idle
  <2>2. Winners(o)' = Winners(o)
    BY <1>0, <1>1, <1>2, <2>1 DEF Winners
  <2>3. dispatched'[o] = dispatched[o]
    BY <1>0, <1>2, Permission DEF Typed
  <2> QED BY <2>2, <2>3, CoveredStays
<1>3. /\ IsFiniteSet(Winners(x)')
      /\ dispatched'[x] + Cardinality(Winners(x)') + Paid01(x)' <= becamePaid'[x]
  <2>1. /\ IsFiniteSet(Winners(x)) /\ Cardinality(Winners(x)) \in Nat
        /\ dispatched[x] + Cardinality(Winners(x)) + Paid01(x) <= becamePaid[x]
    BY FS_CardinalityType DEF WinnersCovered
  <2>2. /\ becamePaid[x] \in Nat /\ dispatched[x] \in Nat
        /\ becamePaid'[x] = IF status[x] # "PAID" /\ status'[x] = "PAID"
                            THEN becamePaid[x] + 1 ELSE becamePaid[x]
    BY CountPaidEffect DEF Typed
  <2>3. CASE proc[p].pc = "callProvider"
    <3>1. proc'[p].pc # "callProvider" /\ UNCHANGED status
      BY <2>3, CallerLeaves
    <3>2. Winners(x)' = Winners(x) \ {p} /\ p \in Winners(x)
      BY <1>0, <1>1, <2>3, <3>1 DEF Winners
    <3>3. IsFiniteSet(Winners(x)') /\ Cardinality(Winners(x)') = Cardinality(Winners(x)) - 1
      BY <2>1, <3>2, FS_RemoveElement
    <3>4. dispatched'[x] \in {dispatched[x], dispatched[x] + 1}
      BY <1>0, Permission DEF Typed
    <3>5. becamePaid'[x] = becamePaid[x] /\ Paid01(x)' = Paid01(x) /\ Paid01(x) \in {0, 1}
      BY <2>2, <3>1 DEF Paid01
    <3> QED BY <2>1, <2>2, <3>3, <3>4, <3>5
  <2>4. CASE proc[p].pc # "callProvider" /\ proc'[p].pc = "callProvider"
    <3>1. status[x] = "PAID" /\ status'[x] = "PROCESSING" /\ UNCHANGED dispatched
      BY <1>0, <2>4, Permission
    <3>2. proc'[p].order = x
      BY <1>0, <2>4, StepShape DEF Idle
    <3>3. Winners(x)' = Winners(x) \cup {p} /\ p \notin Winners(x)
      BY <1>1, <2>4, <3>2 DEF Winners
    <3>4. IsFiniteSet(Winners(x)') /\ Cardinality(Winners(x)') = Cardinality(Winners(x)) + 1
      BY <2>1, <3>3, FS_AddElement
    <3>5. becamePaid'[x] = becamePaid[x] /\ Paid01(x)' = 0 /\ Paid01(x) = 1
      BY <2>2, <3>1 DEF Paid01
    <3> QED BY <2>1, <2>2, <3>1, <3>4, <3>5
  <2>5. CASE proc[p].pc # "callProvider" /\ proc'[p].pc # "callProvider"
    <3>1. Winners(x)' = Winners(x)
      BY <1>1, <2>5 DEF Winners
    <3>2. dispatched'[x] = dispatched[x]
      BY <2>5, Permission
    <3> QED BY <3>1, <3>2, CoveredStays
  <2> QED BY <2>3, <2>4, <2>5
<1> QED BY <1>2, <1>3 DEF WinnersCovered

-----------------------------------------------------------------------------

AdminIInv == AdminTyped /\ Bounds /\ WinnersCovered

LEMMA AdminInitEstablishes == AdminInit => AdminIInv
<1> SUFFICES ASSUME AdminInit PROVE AdminIInv
  OBVIOUS
<1>1. Typed /\ RetryWithinBound
  BY DEF AdminInit, Init, Typed, RetryWithinBound, Idle, PaymentState, AnyState
<1>2. OutsideTyped /\ becamePaid \in [Orders -> Nat]
  BY AdminAssumption DEF AdminInit, OutsideTyped, IdleDesk, IdleSweep, DeskStates, SweepStates,
     Verdicts, ProviderStates
<1>3. BusyDesks = {} /\ Counting = {}
  BY DEF AdminInit, IdleDesk, BusyDesks, Counting
<1>4. \A o \in Orders : Winners(o) = {}
  BY DEF AdminInit, Init, Idle, Winners
<1>5. \A o \in Orders :
        becamePaid[o] = 0 /\ spent[o] = 0 /\ dispatched[o] = 0 /\ status[o] = "PENDING"
  BY DEF AdminInit, Init
<1>6. calls = 0
  BY DEF AdminInit
<1>7. Bounds
  BY <1>3, <1>5, <1>6, FS_EmptySet DEF Bounds, ToBePaid
<1>8. WinnersCovered
  BY <1>4, <1>5, FS_EmptySet DEF WinnersCovered, Paid01
<1> QED BY <1>1, <1>2, <1>7, <1>8 DEF AdminIInv, AdminTyped

LEMMA AdminNextPreserves == AdminIInv /\ [AdminNext]_adminVars => AdminIInv'
<1> SUFFICES ASSUME AdminIInv, [AdminNext]_adminVars PROVE AdminIInv'
  OBVIOUS
<1> USE DEF AdminIInv
<1>0. calls \in Nat
  BY AdminAssumption DEF AdminTyped, OutsideTyped
<1>1. CASE UNCHANGED adminVars
  <2>1. UNCHANGED <<vars, outsideVars, becamePaid>>
    BY <1>1 DEF adminVars
  <2>2. Typed' /\ RetryWithinBound' /\ OutsideTyped' /\ becamePaid' \in [Orders -> Nat]
    BY <2>1 DEF vars, outsideVars, AdminTyped, Typed, RetryWithinBound, OutsideTyped
  <2>3. Bounds' /\ WinnersCovered'
    BY <2>1 DEF vars, outsideVars, Bounds, BusyDesks, Counting, ToBePaid, WinnersCovered,
       Winners, Paid01
  <2> QED BY <2>2, <2>3 DEF AdminTyped
<1>2. CASE AdminNext
  <2>1. CountPaid /\ becamePaid' \in [Orders -> Nat]
    BY <1>2, CountPaidEffect DEF AdminNext, AdminTyped
  \* whoever does not touch the processes makes no winner
  <2>2. ASSUME UNCHANGED <<proc, dispatched>> PROVE WinnersCovered'
    <3>1. \A o \in Orders : Winners(o)' = Winners(o)
      BY <2>2 DEF Winners
    <3>2. ASSUME NEW o \in Orders
          PROVE  /\ IsFiniteSet(Winners(o)')
                 /\ dispatched'[o] + Cardinality(Winners(o)') + Paid01(o)' <= becamePaid'[o]
      BY <2>1, <2>2, <3>1, CoveredStays
    <3> QED BY <3>2 DEF WinnersCovered
  \* nor does it read a failed job
  <2>3. UNCHANGED proc => RetryWithinBound'
    BY DEF AdminTyped, RetryWithinBound
  <2>4. CASE Next /\ UNCHANGED outsideVars
    <3>1. /\ Typed' /\ RetryWithinBound' /\ OutsideTyped'
          /\ \A o \in Orders : status'[o] # status[o] =>
                status'[o] # "PENDING" /\ (status'[o] = "PAID" => status[o] = "PENDING")
      BY <2>4, LifecycleTyped
    <3>2. Bounds'
      BY <1>0, <2>1, <2>4, <3>1, QuietBounds DEF outsideVars
    <3>3. ASSUME \E p \in Procs : Step(p) \/ Crash(p)
          PROVE  WinnersCovered'
      BY <2>1, <3>3, CoveredStep
    <3>4. ASSUME \E p \in Procs, o \in Orders :
                    Arrival(p, o) \/ WorkerRound(p, o) \/ CheckPendingPayments(p, o)
          PROVE  WinnersCovered'
      <4>1. PICK p \in Procs, y \in Orders :
              Arrival(p, y) \/ WorkerRound(p, y) \/ CheckPendingPayments(p, y)
        BY <3>4
      <4>2. /\ UNCHANGED dispatched /\ proc'[p].pc # "callProvider"
            /\ \A q \in Procs : q # p => proc'[q] = proc[q]
        BY <4>1, StartShape DEF providerVars, AdminTyped
      <4>3. proc[p] = Idle
        BY <4>1 DEF Arrival, WorkerRound, Start, WebhookReceived, StatusRequested,
           VerifyRequested, CancelRequested, ListExpiredOrders, PickPaidOrder,
           ListFailedDeliveries, CheckPendingPayments
      <4>4. \A o \in Orders : Winners(o)' = Winners(o)
        BY <4>2, <4>3 DEF Winners, Idle
      <4>5. ASSUME NEW o \in Orders
            PROVE  /\ IsFiniteSet(Winners(o)')
                   /\ dispatched'[o] + Cardinality(Winners(o)') + Paid01(o)' <= becamePaid'[o]
        BY <2>1, <4>2, <4>4, CoveredStays
      <4> QED BY <4>5 DEF WinnersCovered
    <3>5. ASSUME \E o \in Orders : CustomerPays(o) \/ PaymentWindowCloses(o)
          PROVE  WinnersCovered'
      BY <2>2, <3>5 DEF CustomerPays, PaymentWindowCloses, providerVars
    <3>6. WinnersCovered'
      BY <2>4, <3>3, <3>4, <3>5 DEF Next, Procs
    <3> QED BY <2>1, <3>1, <3>2, <3>6 DEF AdminTyped
  <2>5. ASSUME NEW d \in Desks,
               \/ \E o \in Orders, to \in Verdicts : PatchReads(d, o, to)
               \/ UpdateUserTotalSpent(d)
               \/ PatchWrites(d)
        PROVE  AdminIInv'
    <3>1. Typed' /\ OutsideTyped' /\ UNCHANGED <<dispatched, proc>>
      BY <2>5, DeskTyped
    <3>2. Bounds'
      BY <2>1, <2>5, DeskBounds
    <3> QED BY <2>1, <2>2, <2>3, <3>1, <3>2 DEF AdminTyped
  <2>6. ASSUME NEW to \in BulkVerdicts, BulkUpdate(to)
        PROVE  AdminIInv'
    <3>1. /\ Typed' /\ OutsideTyped' /\ UNCHANGED <<dispatched, proc>>
          /\ \A o \in Orders : status'[o] # status[o] => status'[o] \notin {"PENDING", "PAID"}
      BY <2>6, BulkTyped
    <3>2. UNCHANGED <<desk, spent>> /\ calls' = calls + 1
      BY <2>6 DEF BulkUpdate, NewVerdict
    <3>3. calls' \in Nat /\ calls' >= calls
      BY <1>0, <3>2
    <3>4. Bounds'
      BY <2>1, <3>1, <3>2, <3>3, QuietBounds
    <3> QED BY <2>1, <2>2, <2>3, <3>1, <3>4 DEF AdminTyped
  <2>7. ASSUME NEW s \in Sweeps, SweepSteps(s)
        PROVE  AdminIInv'
    <3>1. /\ Typed' /\ OutsideTyped' /\ UNCHANGED <<dispatched, proc, desk, spent>>
          /\ calls' \in Nat /\ calls' >= calls
          /\ \A o \in Orders : status'[o] # status[o] =>
                status'[o] # "PENDING" /\ (status'[o] = "PAID" => status[o] = "PENDING")
      BY <2>7, SweepTyped
    <3>2. Bounds'
      BY <2>1, <3>1, QuietBounds
    <3> QED BY <2>1, <2>2, <2>3, <3>1, <3>2 DEF AdminTyped
  <2> QED BY <1>2, <2>4, <2>5, <2>6, <2>7 DEF AdminNext, FromOutside, SweepSteps
<1> QED BY <1>1, <1>2

\* However many administrators and sweeps write over what however many workers
\* and requests are doing, and wherever they crash: an order is sent to the
\* provider at most once for each time somebody made it PAID.
THEOREM DecisionsCorrect == AdminSpec => []DispatchNeedsDecision
<1>1. ASSUME AdminIInv PROVE DispatchNeedsDecision
  <2> SUFFICES ASSUME NEW o \in Orders PROVE dispatched[o] <= becamePaid[o]
    BY DEF DispatchNeedsDecision
  <2>1. /\ Cardinality(Winners(o)) \in Nat /\ Paid01(o) \in {0, 1}
        /\ dispatched[o] + Cardinality(Winners(o)) + Paid01(o) <= becamePaid[o]
    BY <1>1, FS_CardinalityType DEF AdminIInv, WinnersCovered, Paid01
  <2>2. dispatched[o] \in Nat /\ becamePaid[o] \in Nat
    BY <1>1 DEF AdminIInv, AdminTyped, Typed
  <2> QED BY <2>1, <2>2
<1> QED BY <1>1, AdminInitEstablishes, AdminNextPreserves, PTL DEF AdminSpec
LEMMA AdminTypes == AdminIInv => AdminTypeOK
<1> SUFFICES ASSUME AdminIInv PROVE AdminTypeOK
  OBVIOUS
<1> USE DEF AdminIInv
<1>1. calls \in Nat /\ calls <= MaxCalls /\ MaxCalls \in Nat
  BY AdminAssumption DEF AdminTyped, OutsideTyped
<1>2. ASSUME NEW o \in Orders
      PROVE  spent[o] \in 0..MaxCalls /\ becamePaid[o] \in 0..MaxCalls + 1
  <2>1. Cardinality(BusyDesks) \in Nat /\ Cardinality(Counting) \in Nat
    BY FS_CardinalityType DEF Bounds
  <2>2. /\ becamePaid[o] + ToBePaid(o) + Cardinality(BusyDesks) <= calls + 1
        /\ spent[o] + Cardinality(Counting) <= calls
        /\ ToBePaid(o) \in {0, 1}
    BY DEF Bounds, ToBePaid
  <2>3. becamePaid[o] \in Nat /\ spent[o] \in Nat
    BY DEF AdminTyped, OutsideTyped
  <2> QED BY <1>1, <2>1, <2>2, <2>3
<1>3. spent \in [Orders -> 0..MaxCalls] /\ becamePaid \in [Orders -> 0..MaxCalls + 1]
  BY <1>2 DEF AdminTyped, OutsideTyped
<1> QED BY <1>3 DEF AdminTypeOK, AdminTyped, OutsideTyped, Typed, DeskStates, SweepStates,
       AnyState

\* Every row and process of both parts keeps its type: an amount is not added
\* to a customer's total, and an order does not become paid, more often than
\* administrators have called.
THEOREM OutsideTypeCorrect == AllSpec => []PartsTypeOK
<1> DEFINE Inv == IInv /\ AdminIInv
<1>1. AllInit => Inv
  BY InitEstablishes, AdminInitEstablishes DEF AllInit
<1>2. ASSUME Inv, [AllNext]_allVars PROVE Inv'
  <2>1. [RecoveryNext]_recoveryVars /\ [AdminNext]_adminVars
    BY <1>2 DEF AllNext, OfRecovery, Of, allVars
  <2> QED BY <1>2, <2>1, NextPreserves, AdminNextPreserves
<1>3. Inv => PartsTypeOK
  BY AdminTypes, TypesAreTypeOK DEF IInv, PartsTypeOK
<1> QED BY <1>1, <1>2, <1>3, PTL DEF AllSpec
=============================================================================
