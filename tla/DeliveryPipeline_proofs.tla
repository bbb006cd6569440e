----------------------- MODULE DeliveryPipeline_proofs -----------------------
(* The BullMQ pipeline keeps its types, one execution at a time and every    *)
(* delivery on record, for any number of orders, jobs, slots and processes;  *)
(* and one worker per order and no execution after a success, while          *)
(* processes keep their heartbeats.                                          *)
EXTENDS DeliveryPipeline, TLAPS

-----------------------------------------------------------------------------
(* The inductive invariants.                                               *)

JobRecord == [kind : Queues, order : Orders, provider : Providers,
              state : {"waiting", "active", "completed", "failed"},
              left : 0..3, stalls : 0..MaxStalled, by : Slots \cup {Nobody}]

WorkRecord == [pc : Steps, job : Jobs \cup {NoJob}, seen : {"none"} \cup PaymentState,
               row : Nat, ok : BOOLEAN]

\* A job that is to run has attempts left, and a retry job was added with the
\* provider its worker will find.
JobSound(job) ==
    /\ job.state \in {"waiting", "active"} => job.left # 0
    /\ job.kind = "retry" => job.provider = DetermineProvider(job.order)

\* A busy slot has a job, of the queue whose worker it is in.
SlotSound(s) ==
    ~At(s, "idle") => /\ work[s].job \in Jobs
                      /\ Job(s) # Unused
                      /\ At(s, "retryRead") => Job(s).kind = "retry"

PipelineTypes ==
    /\ LockTypeOK
    /\ status \in [Orders -> PaymentState]
    /\ prints \in [Orders -> Seq(FingerprintRow)]
    /\ jobs \in [Jobs -> {Unused} \cup JobRecord]
    /\ work \in [Slots -> WorkRecord]
    /\ \A j \in Jobs : JobSound(jobs[j])
    /\ \A s \in Slots : SlotSound(s)

Row(s) == prints[Ord(s)][work[s].row]
Executing(s) == work[s].pc \in {"call", "record"}

\* An execution under way has a row of its own, ...
RowMine(s) ==
    /\ work[s].row \in DOMAIN prints[Ord(s)]
    /\ Row(s) = [provider |-> Job(s).provider, status |-> "EXECUTING"]

RowsApart ==
    \A s, t \in Slots :
        Executing(s) /\ Executing(t) /\ Ord(s) = Ord(t) /\ work[s].row = work[t].row => s = t

\* ... the unique constraint lets no second one be EXECUTING, ...
RowsUnique ==
    \A o \in Orders : \A i, k \in DOMAIN prints[o] :
        /\ prints[o][i].provider = prints[o][k].provider
        /\ prints[o][i].status = "EXECUTING" /\ prints[o][k].status = "EXECUTING"
        => i = k

\* ... and an outcome is recorded before it is marked.
Recorded(s) == At(s, "mark") /\ work[s].ok => HasRow(Ord(s), Job(s).provider, {"SUCCESS"})

RowsInv ==
    /\ PipelineTypes
    /\ \A s \in Slots : Executing(s) => RowMine(s)
    /\ RowsApart
    /\ RowsUnique
    /\ \A s \in Slots : Recorded(s)
    /\ DeliveredWasExecuted

Locked == DeliverySteps \cup {"release", "delete"}

\* Inside the locked part the key is the slot's own, and lives until the timer
\* of the slot is due and beyond.
KeyMine(s) ==
    /\ lock[Ord(s)].owner = Owner[s] /\ lock[Ord(s)].token = s
    /\ session[s].beat = "on" /\ ~session[s].due => lock[Ord(s)].left > 1

\* The timer runs as long as the key is held, and is off before the key is
\* deleted.
TimerRight(s) ==
    /\ session[s].due => session[s].beat = "on"
    /\ IF work[s].pc \notin Locked THEN session[s].beat = "off"
       ELSE IF At(s, "delete") THEN session[s].beat = "closing"
       ELSE session[s].beat \in {"on", "renew"}

KeysInv ==
    /\ PipelineTypes
    /\ \A s \in Slots : (work[s].pc \in Locked => KeyMine(s)) /\ TimerRight(s)

OnceInv ==
    /\ RowsInv /\ KeysInv
    /\ \A s \in Slots : work[s].pc \in {"create", "call", "record"}
                           => ~HasRow(Ord(s), Job(s).provider, {"SUCCESS"})

-----------------------------------------------------------------------------
(* What a step does to the jobs.                                           *)

\* A job that was added stays the job it is.
JobsKept ==
    /\ jobs' \in [Jobs -> {Unused} \cup JobRecord]
    /\ \A j \in Jobs : JobSound(jobs'[j])
    /\ \A j \in Jobs : jobs[j] # Unused =>
          /\ jobs'[j] # Unused
          /\ jobs'[j].kind = jobs[j].kind
          /\ jobs'[j].order = jobs[j].order
          /\ jobs'[j].provider = jobs[j].provider

LEMMA RecordIsUsed ==
    \A job \in JobRecord : job # Unused
  BY DEF JobRecord, Unused, Queues

LEMMA UsedIsRecord ==
    ASSUME PipelineTypes, NEW j \in Jobs
    PROVE  /\ jobs[j] # Unused <=> jobs[j] \in JobRecord
           /\ jobs[j].state # "unused" => jobs[j] \in JobRecord
  BY DEF PipelineTypes, JobRecord, Unused, Queues

LEMMA JobsStandStill ==
    ASSUME PipelineTypes, UNCHANGED jobs
    PROVE  JobsKept
  BY DEF PipelineTypes, JobsKept

LEMMA JobChanges ==
    ASSUME PipelineTypes, NEW j \in Jobs, jobs[j] \in JobRecord, NEW new \in JobRecord,
           new.kind = jobs[j].kind, new.order = jobs[j].order,
           new.provider = jobs[j].provider, JobSound(new),
           jobs' = [jobs EXCEPT ![j] = new]
    PROVE  JobsKept
  <1>1. jobs \in [Jobs -> {Unused} \cup JobRecord] /\ \A k \in Jobs : JobSound(jobs[k])
    BY DEF PipelineTypes
  <1>2. new # Unused
    BY DEF JobRecord, Unused, Queues
  <1>3. jobs'[j] = new /\ \A k \in Jobs \ {j} : jobs'[k] = jobs[k]
    BY <1>1
  <1>4. jobs' \in [Jobs -> {Unused} \cup JobRecord]
    BY <1>1
  <1> QED BY <1>1, <1>2, <1>3, <1>4 DEF JobsKept

\* What may be written to a record of a job without changing what it is.
LEMMA JobRecordChanges ==
    ASSUME NEW job \in JobRecord,
           NEW state \in {"waiting", "active", "completed", "failed"},
           NEW left \in 0..3, NEW stalls \in 0..MaxStalled, NEW by \in Slots \cup {Nobody}
    PROVE  /\ [job EXCEPT !.state = state, !.by = by] \in JobRecord
           /\ [job EXCEPT !.state = state, !.left = left, !.by = by] \in JobRecord
           /\ [job EXCEPT !.state = state, !.stalls = stalls, !.by = by] \in JobRecord
           /\ [job EXCEPT !.state = state, !.left = left, !.stalls = stalls,
                          !.by = by] \in JobRecord
  <1> DEFINE L == 0..3
             N == 0..MaxStalled
  <1>1. left \in L /\ stalls \in N
    OBVIOUS
  <1>2. JobRecord = [kind : Queues, order : Orders, provider : Providers,
                     state : {"waiting", "active", "completed", "failed"},
                     left : L, stalls : N, by : Slots \cup {Nobody}]
    BY DEF JobRecord
  <1> HIDE DEF L, N
  <1> QED BY <1>1, <1>2

LEMMA OverSound ==
    ASSUME PipelineTypes, NEW j \in Jobs, jobs[j] \in JobRecord,
           NEW state \in {"completed", "failed"}
    PROVE  /\ Over(j, state) \in JobRecord /\ JobSound(Over(j, state))
           /\ Over(j, state).kind = jobs[j].kind
           /\ Over(j, state).order = jobs[j].order
           /\ Over(j, state).provider = jobs[j].provider
  <1>0. 0 \in 0..3 /\ 0 \in 0..MaxStalled /\ Nobody \in Slots \cup {Nobody}
    BY DEF MaxStalled
  <1>1. Over(j, state) \in JobRecord
    BY <1>0, JobRecordChanges, Zenon DEF Over
  <1>2. JobSound(jobs[j])
    BY DEF PipelineTypes
  <1> QED BY <1>1, <1>2 DEF Over, JobSound, JobRecord

LEMMA SettledSound ==
    ASSUME PipelineTypes, NEW j \in Jobs, jobs[j] \in JobRecord, jobs[j].state = "active",
           NEW ok \in BOOLEAN
    PROVE  /\ Settled(j, ok) \in JobRecord /\ JobSound(Settled(j, ok))
           /\ Settled(j, ok).kind = jobs[j].kind
           /\ Settled(j, ok).order = jobs[j].order
           /\ Settled(j, ok).provider = jobs[j].provider
  <1> DEFINE n == jobs[j].left - 1
             new == [jobs[j] EXCEPT !.state = "waiting", !.left = n, !.by = Nobody]
  <1>1. CASE ok \/ jobs[j].left = 1
    BY <1>1, OverSound DEF Settled
  <1>2. CASE ~ok /\ jobs[j].left # 1
    <2>1. JobSound(jobs[j]) /\ jobs[j].left \in 0..3 /\ jobs[j].left # 0
      BY DEF PipelineTypes, JobSound, JobRecord
    <2>2. n \in 0..3 /\ n # 0
      BY <1>2, <2>1
    <2>3. Settled(j, ok) = new
      BY <1>2 DEF Settled
    <2> HIDE DEF n
    <2>4. new \in JobRecord
      <3>1. /\ "waiting" \in {"waiting", "active", "completed", "failed"}
            /\ Nobody \in Slots \cup {Nobody}
            /\ 0 \in 0..3 /\ 0 \in 0..MaxStalled
        BY DEF MaxStalled
      <3> QED BY <2>2, <3>1, JobRecordChanges, Zenon
    <2>5. /\ new.kind = jobs[j].kind /\ new.order = jobs[j].order
          /\ new.provider = jobs[j].provider /\ new.left = n
      BY DEF JobRecord
    <2> HIDE DEF new
    <2> QED BY <2>1, <2>2, <2>3, <2>4, <2>5 DEF JobSound
  <1> QED BY <1>1, <1>2

LEMMA StalledSound ==
    ASSUME PipelineTypes, NEW j \in Jobs, jobs[j] \in JobRecord, jobs[j].state = "active"
    PROVE  /\ Stalled(j) \in JobRecord /\ JobSound(Stalled(j))
           /\ Stalled(j).kind = jobs[j].kind
           /\ Stalled(j).order = jobs[j].order
           /\ Stalled(j).provider = jobs[j].provider
  <1> DEFINE n == jobs[j].stalls + 1
             new == [jobs[j] EXCEPT !.state = "waiting", !.stalls = n, !.by = Nobody]
  <1>1. CASE jobs[j].stalls >= MaxStalled
    BY <1>1, OverSound DEF Stalled, MaxStalled, JobRecord
  <1>2. CASE jobs[j].stalls < MaxStalled
    <2>1. JobSound(jobs[j]) /\ jobs[j].stalls \in 0..MaxStalled
      BY DEF PipelineTypes, JobRecord
    <2>2. n \in 0..MaxStalled
      BY <1>2, <2>1 DEF MaxStalled
    <2>3. Stalled(j) = new
      BY <1>2 DEF Stalled
    <2> HIDE DEF n
    <2>4. new \in JobRecord
      <3>1. /\ "waiting" \in {"waiting", "active", "completed", "failed"}
            /\ Nobody \in Slots \cup {Nobody}
            /\ 0 \in 0..3 /\ 0 \in 0..MaxStalled
        BY DEF MaxStalled
      <3> QED BY <2>2, <3>1, JobRecordChanges, Zenon
    <2>5. /\ new.kind = jobs[j].kind /\ new.order = jobs[j].order
          /\ new.provider = jobs[j].provider /\ new.left = jobs[j].left
      BY DEF JobRecord
    <2> HIDE DEF new
    <2> QED BY <2>1, <2>3, <2>4, <2>5 DEF JobSound
  <1> QED BY <1>1, <1>2 DEF MaxStalled, JobRecord

LEMMA NewJobSound ==
    ASSUME NEW kind \in Queues, NEW o \in Orders, NEW provider \in Providers,
           kind = "retry" => provider = DetermineProvider(o)
    PROVE  NewJob(kind, o, provider) \in JobRecord /\ JobSound(NewJob(kind, o, provider))
  <1>1. Attempts[kind] \in 0..3 /\ Attempts[kind] # 0
    BY DEF Attempts, Queues
  <1>2. 0 \in 0..MaxStalled
    BY DEF MaxStalled
  <1> QED BY <1>1, <1>2 DEF NewJob, JobRecord, JobSound
-----------------------------------------------------------------------------
(* What a step does to the slots.                                          *)

\* A slot goes on with the job it has, or rests.
GoesOn(s, new) == new = Resting \/ (/\ new.job = work[s].job /\ new.pc # "retryRead"
                                   /\ new.pc # "idle")

LEMMA WorkTyped ==
    ASSUME PipelineTypes, NEW s \in Slots
    PROVE  /\ work \in [Slots -> WorkRecord]
           /\ work[s].pc \in Steps /\ work[s].ok \in BOOLEAN /\ work[s].row \in Nat
           /\ ~At(s, "idle") => /\ work[s].job \in Jobs /\ Job(s) \in JobRecord
                                /\ Job(s) # Unused
                                /\ Ord(s) \in Orders /\ Job(s).provider \in Providers
  <1>1. work[s] \in WorkRecord /\ SlotSound(s) /\ work \in [Slots -> WorkRecord]
    BY DEF PipelineTypes
  <1>2. ASSUME ~At(s, "idle")
        PROVE  /\ work[s].job \in Jobs /\ Job(s) \in JobRecord /\ Job(s) # Unused
               /\ Ord(s) \in Orders /\ Job(s).provider \in Providers
    <2>1. work[s].job \in Jobs /\ jobs[work[s].job] # Unused
      BY <1>1, <1>2 DEF SlotSound, Job
    <2>2. jobs[work[s].job] \in JobRecord
      BY <2>1, UsedIsRecord
    <2> QED BY <2>1, <2>2 DEF Job, Ord, JobRecord
  <1> QED BY <1>1, <1>2 DEF WorkRecord

LEMMA RestingTyped ==
    /\ Resting \in WorkRecord /\ Resting.pc = "idle" /\ ~Resting.ok
  BY DEF Resting, WorkRecord, Steps

LEMMA GotoGoesOn ==
    ASSUME PipelineTypes, NEW s \in Slots, NEW pc \in Steps \ {"idle", "retryRead"}
    PROVE  LET new == [work[s] EXCEPT !.pc = pc]
           IN  new \in WorkRecord /\ GoesOn(s, new)
  <1>1. work[s] \in WorkRecord
    BY DEF PipelineTypes
  <1> QED BY <1>1 DEF WorkRecord, GoesOn

\* The slots stay sound, and those at work keep order and provider.
SlotsKept ==
    /\ work' \in [Slots -> WorkRecord]
    /\ \A s \in Slots : SlotSound(s)'
    /\ \A s \in Slots : ~At(s, "idle") /\ ~At(s, "idle")' =>
          Ord(s)' = Ord(s) /\ Job(s).provider' = Job(s).provider

LEMMA SlotGoesOn ==
    ASSUME PipelineTypes, JobsKept, NEW s \in Slots, ~At(s, "idle"),
           NEW new \in WorkRecord, GoesOn(s, new), work' = [work EXCEPT ![s] = new]
    PROVE  SlotsKept
  <1>1. /\ work' \in [Slots -> WorkRecord] /\ work'[s] = new
        /\ \A t \in Slots \ {s} : work'[t] = work[t]
    BY DEF PipelineTypes
  <1>2. ASSUME NEW t \in Slots, ~At(t, "idle")'
        PROVE  /\ ~At(t, "idle") /\ work'[t].job = work[t].job
               /\ At(t, "retryRead")' => At(t, "retryRead")
    BY <1>1, <1>2, RestingTyped DEF At, GoesOn
  <1>3. ASSUME NEW t \in Slots, ~At(t, "idle")'
        PROVE  /\ SlotSound(t)' /\ Ord(t)' = Ord(t) /\ Job(t).provider' = Job(t).provider
    <2>1. SlotSound(t) /\ work[t].job \in Jobs /\ jobs[work[t].job] # Unused
      BY <1>2, <1>3, WorkTyped DEF PipelineTypes, Job
    <2> QED BY <1>2, <1>3, <2>1 DEF SlotSound, JobsKept, Job, Ord
  <1> QED BY <1>1, <1>3 DEF SlotsKept, SlotSound

LEMMA SlotsStandStill ==
    ASSUME PipelineTypes, JobsKept, UNCHANGED work
    PROVE  SlotsKept
  <1>1. \A t \in Slots : work'[t] = work[t]
    OBVIOUS
  <1>2. ASSUME NEW t \in Slots, ~At(t, "idle")
        PROVE  /\ SlotSound(t)' /\ Ord(t)' = Ord(t) /\ Job(t).provider' = Job(t).provider
    <2>1. SlotSound(t) /\ work[t].job \in Jobs /\ jobs[work[t].job] # Unused
      BY <1>2, WorkTyped DEF PipelineTypes, Job
    <2> QED BY <1>1, <1>2, <2>1 DEF SlotSound, JobsKept, Job, Ord, At
  <1> QED BY <1>1, <1>2 DEF SlotsKept, SlotSound, PipelineTypes, At

LEMMA EndJobKeeps ==
    ASSUME PipelineTypes, NEW s \in Slots, ~At(s, "idle"), NEW ok \in BOOLEAN, EndJob(s, ok)
    PROVE  JobsKept /\ SlotsKept /\ work' = [work EXCEPT ![s] = Resting]
  <1>1. work' = [work EXCEPT ![s] = Resting]
    BY DEF EndJob
  <1>2. JobsKept
    <2> DEFINE j == work[s].job
    <2>1. j \in Jobs /\ jobs[j] \in JobRecord
      BY WorkTyped DEF Job
    <2>2. CASE jobs[j].by = s /\ jobs[j].state = "active"
      <3>1. jobs' = [jobs EXCEPT ![j] = Settled(j, ok)]
        BY <2>2 DEF EndJob
      <3> QED BY <2>1, <2>2, <3>1, SettledSound, JobChanges
    <2>3. CASE ~(jobs[j].by = s /\ jobs[j].state = "active")
      BY <2>3, JobsStandStill DEF EndJob
    <2> QED BY <2>2, <2>3
  <1>3. GoesOn(s, Resting)
    BY DEF GoesOn
  <1> QED BY <1>1, <1>2, <1>3, SlotGoesOn, RestingTyped

\* A step of a slot that only sends it on.
LEMMA GotoKeeps ==
    ASSUME PipelineTypes, NEW s \in Slots, ~At(s, "idle"),
           NEW pc \in Steps \ {"idle", "retryRead"}, Goto(s, pc), JobsKept
    PROVE  SlotsKept
  <1> DEFINE new == [work[s] EXCEPT !.pc = pc]
  <1>1. new \in WorkRecord /\ GoesOn(s, new)
    BY GotoGoesOn
  <1>2. work' = [work EXCEPT ![s] = new]
    BY DEF Goto
  <1> HIDE DEF new
  <1> QED BY <1>1, <1>2, SlotGoesOn

LEMMA ReleaseKeeps ==
    ASSUME PipelineTypes, NEW s \in Slots, ~At(s, "idle"), NEW ok \in BOOLEAN,
           Release(s, ok), JobsKept
    PROVE  SlotsKept
  <1> DEFINE new == [Resting EXCEPT !.pc = "release", !.job = work[s].job, !.ok = ok]
  <1>1. work[s].job \in Jobs
    BY WorkTyped
  <1>2. new \in WorkRecord /\ GoesOn(s, new)
    BY <1>1 DEF Resting, WorkRecord, Steps, GoesOn
  <1>3. work' = [work EXCEPT ![s] = new]
    BY DEF Release
  <1> HIDE DEF new
  <1> QED BY <1>2, <1>3, SlotGoesOn
-----------------------------------------------------------------------------
(* Fingerprint rows.                                                       *)

RowStatus == {"EXECUTING", "SUCCESS", "FAILED", "UNKNOWN"}

LEMMA RowAppended ==
    ASSUME NEW rs \in Seq(FingerprintRow), NEW row \in FingerprintRow
    PROVE  /\ Append(rs, row) \in Seq(FingerprintRow)
           /\ DOMAIN Append(rs, row) = DOMAIN rs \cup {Len(rs) + 1}
           /\ Len(rs) + 1 \notin DOMAIN rs /\ Len(rs) + 1 \in Nat
           /\ Append(rs, row)[Len(rs) + 1] = row
           /\ \A i \in DOMAIN rs : Append(rs, row)[i] = rs[i]
  OBVIOUS

LEMMA RowUpdated ==
    ASSUME NEW rs \in Seq(FingerprintRow), NEW n \in Nat, NEW result \in RowStatus
    PROVE  LET new == [rs EXCEPT ![n].status = result] IN
           /\ new \in Seq(FingerprintRow)
           /\ DOMAIN new = DOMAIN rs
           /\ \A i \in DOMAIN rs \ {n} : new[i] = rs[i]
           /\ n \in DOMAIN rs => new[n] = [provider |-> rs[n].provider, status |-> result]
  <1> DEFINE new == [rs EXCEPT ![n].status = result]
  <1>1. rs \in [1..Len(rs) -> FingerprintRow] /\ Len(rs) \in Nat /\ DOMAIN rs = 1..Len(rs)
    OBVIOUS
  <1>2. new = [i \in 1..Len(rs) |-> IF i = n THEN [rs[n] EXCEPT !.status = result] ELSE rs[i]]
    BY <1>1
  <1>3. ASSUME n \in 1..Len(rs)
        PROVE  /\ [rs[n] EXCEPT !.status = result] \in FingerprintRow
               /\ [rs[n] EXCEPT !.status = result] = [provider |-> rs[n].provider, status |-> result]
    BY <1>1, <1>3 DEF FingerprintRow, RowStatus
  <1>4. new \in [1..Len(rs) -> FingerprintRow]
    BY <1>1, <1>2, <1>3
  <1>5. new \in Seq(FingerprintRow)
    BY <1>1, <1>4
  <1> QED BY <1>1, <1>2, <1>3, <1>5
-----------------------------------------------------------------------------
(* Steps of slots, order rows and fingerprint rows.                        *)

RowsTyped ==
    /\ status \in [Orders -> PaymentState]
    /\ prints \in [Orders -> Seq(FingerprintRow)]

LEMMA TransitionTyped ==
    ASSUME PipelineTypes, NEW o \in Orders, NEW from, NEW to \in PaymentState, NEW writer,
           TransitionOrderState(o, from, to, writer)
    PROVE  /\ status' \in [Orders -> PaymentState]
           /\ status' = status \/ status' = [status EXCEPT ![o] = to]
  BY DEF PipelineTypes, TransitionOrderState

StepTypes == JobsKept /\ SlotsKept /\ RowsTyped'

LEMMA RowsStandStill ==
    ASSUME PipelineTypes, UNCHANGED rows
    PROVE  RowsTyped'
  BY DEF PipelineTypes, RowsTyped, rows

LEMMA VerifyTypes ==
    ASSUME PipelineTypes, NEW s \in Slots,
           VerifyReadsOrder(s) \/ VerifyAsksBakong(s) \/ VerifyMarksPaid(s)
    PROVE  StepTypes
  <1>1. ~At(s, "idle")
    BY DEF VerifyReadsOrder, VerifyAsksBakong, VerifyMarksPaid, At
  <1>2. ASSUME NEW pc \in {"verifyAsk", "verifyMark", "verifyQueue"}, Goto(s, pc), UNCHANGED jobs
        PROVE  JobsKept /\ SlotsKept
    <2>1. pc \in Steps \ {"idle", "retryRead"}
      BY DEF Steps
    <2> QED BY <1>1, <1>2, <2>1, JobsStandStill, GotoKeeps
  <1>3. ASSUME NEW ok \in BOOLEAN, EndJob(s, ok)
        PROVE  JobsKept /\ SlotsKept
    BY <1>1, <1>3, EndJobKeeps
  <1>4. CASE VerifyReadsOrder(s)
    <2>1. UNCHANGED rows
      BY <1>4 DEF VerifyReadsOrder
    <2> QED BY <1>2, <1>3, <1>4, <2>1, RowsStandStill DEF VerifyReadsOrder, StepTypes
  <1>5. CASE VerifyAsksBakong(s)
    <2>1. UNCHANGED rows
      BY <1>5 DEF VerifyAsksBakong
    <2> QED BY <1>2, <1>3, <1>5, <2>1, RowsStandStill DEF VerifyAsksBakong, StepTypes
  <1>6. CASE VerifyMarksPaid(s)
    <2>1. Ord(s) \in Orders /\ "PAID" \in PaymentState
      BY <1>1, WorkTyped DEF PaymentState
    <2>2. RowsTyped'
      BY <1>6, <2>1, TransitionTyped DEF VerifyMarksPaid, RowsTyped, PipelineTypes
    <2> QED BY <1>2, <1>3, <1>6, <2>2 DEF VerifyMarksPaid, StepTypes
  <1> QED BY <1>4, <1>5, <1>6

LEMMA QueueTypes ==
    ASSUME PipelineTypes, NEW s \in Slots, VerifyQueuesDelivery(s)
    PROVE  StepTypes
  <1> DEFINE me == work[s].job
             o == Ord(s)
             unused == {j \in Jobs : jobs[j] = Unused}
             done == IF Job(s).by = s /\ Job(s).state = "active"
                     THEN [jobs EXCEPT ![me] = Settled(me, TRUE)] ELSE jobs
             fresh == NewJob("deliver", o, DetermineProvider(o))
  <1>1. ~At(s, "idle") /\ UNCHANGED rows /\ work' = [work EXCEPT ![s] = Resting]
    BY DEF VerifyQueuesDelivery, At
  <1>2. me \in Jobs /\ jobs[me] \in JobRecord /\ me \notin unused /\ o \in Orders
    BY <1>1, WorkTyped DEF Job
  <1>3. /\ done \in [Jobs -> {Unused} \cup JobRecord]
        /\ \A j \in Jobs : JobSound(done[j])
        /\ \A j \in Jobs : jobs[j] # Unused =>
              /\ done[j] # Unused
              /\ done[j].kind = jobs[j].kind
              /\ done[j].order = jobs[j].order
              /\ done[j].provider = jobs[j].provider
    <2>1. /\ jobs \in [Jobs -> {Unused} \cup JobRecord]
          /\ \A j \in Jobs : JobSound(jobs[j])
      BY DEF PipelineTypes
    <2>2. CASE Job(s).by = s /\ Job(s).state = "active"
      <3>1. /\ Settled(me, TRUE) \in JobRecord /\ JobSound(Settled(me, TRUE))
            /\ Settled(me, TRUE).kind = jobs[me].kind
            /\ Settled(me, TRUE).order = jobs[me].order
            /\ Settled(me, TRUE).provider = jobs[me].provider
        BY <1>2, <2>2, SettledSound DEF Job
      <3>2. Settled(me, TRUE) # Unused
        BY <3>1, RecordIsUsed
      <3>3. /\ done = [jobs EXCEPT ![me] = Settled(me, TRUE)]
            /\ done[me] = Settled(me, TRUE)
            /\ \A j \in Jobs \ {me} : done[j] = jobs[j]
        BY <1>2, <2>1, <2>2
      <3> QED BY <1>2, <2>1, <3>1, <3>2, <3>3
    <2>3. CASE ~(Job(s).by = s /\ Job(s).state = "active")
      BY <2>1, <2>3
    <2> QED BY <2>2, <2>3
  <1>4. fresh \in JobRecord /\ JobSound(fresh) /\ fresh # Unused
    <2>1. DetermineProvider(o) \in Providers /\ "deliver" \in Queues
      BY DEF DetermineProvider, Providers, Queues
    <2>2. fresh \in JobRecord /\ JobSound(fresh)
      BY <1>2, <2>1, NewJobSound
    <2> QED BY <2>2 DEF JobRecord, Unused, Queues
  <1>5. jobs' = done \/ \E j \in unused : jobs' = [done EXCEPT ![j] = fresh]
    <2>1. jobs' = IF unused = {} THEN done
                  ELSE LET j == CHOOSE j \in unused : TRUE IN [done EXCEPT ![j] = fresh]
      BY DEF VerifyQueuesDelivery
    <2>2. unused # {} => (CHOOSE j \in unused : TRUE) \in unused
      OBVIOUS
    <2> HIDE DEF done, fresh, unused
    <2> QED BY <2>1, <2>2
  <1> HIDE DEF done, fresh
  <1>6. JobsKept
    <2>1. CASE jobs' = done
      BY <1>3, <2>1 DEF JobsKept
    <2>2. ASSUME NEW j \in unused, jobs' = [done EXCEPT ![j] = fresh]
          PROVE  JobsKept
      <3>1. jobs'[j] = fresh /\ \A k \in Jobs \ {j} : jobs'[k] = done[k]
        BY <1>3, <2>2
      <3> QED BY <1>3, <1>4, <2>2, <3>1 DEF JobsKept
    <2> QED BY <1>5, <2>1, <2>2
  <1> QED BY <1>1, <1>6, RestingTyped, SlotGoesOn, RowsStandStill DEF GoesOn, StepTypes

LEMMA ExpireTypes ==
    ASSUME PipelineTypes, NEW s \in Slots, ExpireReadsOrder(s) \/ ExpireWritesById(s)
    PROVE  StepTypes
  <1>1. ~At(s, "idle")
    BY DEF ExpireReadsOrder, ExpireWritesById, At
  <1>2. CASE ExpireReadsOrder(s)
    <2>1. UNCHANGED rows
      BY <1>2 DEF ExpireReadsOrder
    <2>2. "expireWrite" \in Steps \ {"idle", "retryRead"}
      BY DEF Steps
    <2> QED BY <1>1, <1>2, <2>1, <2>2, JobsStandStill, GotoKeeps, EndJobKeeps, RowsStandStill
            DEF ExpireReadsOrder, StepTypes
  <1>3. CASE ExpireWritesById(s)
    BY <1>1, <1>3, EndJobKeeps
       DEF ExpireWritesById, StepTypes, RowsTyped, PipelineTypes, PaymentState
  <1> QED BY <1>2, <1>3

LEMMA ReconcileTypes ==
    ASSUME PipelineTypes, NEW s \in Slots, ReconcileReadsOrder(s) \/ ReconcileWritesById(s)
    PROVE  StepTypes
  <1>1. ~At(s, "idle")
    BY DEF ReconcileReadsOrder, ReconcileWritesById, At
  <1>2. CASE ReconcileReadsOrder(s)
    <2>1. UNCHANGED rows
      BY <1>2 DEF ReconcileReadsOrder
    <2>2. "reconcileWrite" \in Steps \ {"idle", "retryRead"}
      BY DEF Steps
    <2> QED BY <1>1, <1>2, <2>1, <2>2, JobsStandStill, GotoKeeps, RowsStandStill
            DEF ReconcileReadsOrder, StepTypes
  <1>3. CASE ReconcileWritesById(s)
    BY <1>1, <1>3, EndJobKeeps
       DEF ReconcileWritesById, StepTypes, RowsTyped, PipelineTypes, PaymentState
  <1> QED BY <1>2, <1>3

\* The provider a retry finds is the one its job has.
LEMMA RetryTypes ==
    ASSUME PipelineTypes, NEW s \in Slots, RetryReadsProduct(s)
    PROVE  StepTypes /\ UNCHANGED jobs
  <1>1. ~At(s, "idle") /\ UNCHANGED rows /\ Goto(s, "lock")
    BY DEF RetryReadsProduct, At
  <1>2. UNCHANGED jobs
    <2> DEFINE j == work[s].job
    <2>1. j \in Jobs /\ jobs[j] \in JobRecord /\ jobs[j].kind = "retry"
      BY <1>1, WorkTyped DEF Job, PipelineTypes, SlotSound, RetryReadsProduct
    <2>2. jobs[j].provider = DetermineProvider(jobs[j].order)
      BY <2>1 DEF PipelineTypes, JobSound
    <2>3. jobs' = [jobs EXCEPT ![j].provider = DetermineProvider(jobs[j].order)]
      BY DEF RetryReadsProduct, Ord, Job
    <2>4. [jobs[j] EXCEPT !.provider = jobs[j].provider] = jobs[j]
      BY <2>1 DEF JobRecord
    <2> QED BY <2>1, <2>2, <2>3, <2>4 DEF PipelineTypes
  <1>3. "lock" \in Steps \ {"idle", "retryRead"}
    BY DEF Steps
  <1> QED BY <1>1, <1>2, <1>3, JobsStandStill, GotoKeeps, RowsStandStill DEF StepTypes
LEMMA LockStepTypes ==
    ASSUME PipelineTypes, NEW s \in Slots,
           GetLock(s) \/ GiveUpLock(s) \/ ReleaseLock(s) \/ DeleteKey(s) \/ Finish(s)
    PROVE  StepTypes
  <1>1. ~At(s, "idle") /\ UNCHANGED rows
    BY DEF GetLock, GiveUpLock, ReleaseLock, DeleteKey, Finish, At
  <1>2. ASSUME NEW pc \in {"read", "delete", "finish"}, Goto(s, pc), UNCHANGED jobs
        PROVE  JobsKept /\ SlotsKept
    <2>1. pc \in Steps \ {"idle", "retryRead"}
      BY DEF Steps, DeliverySteps
    <2> QED BY <1>1, <1>2, <2>1, JobsStandStill, GotoKeeps
  <1>3. ASSUME NEW ok \in BOOLEAN, EndJob(s, ok)
        PROVE  JobsKept /\ SlotsKept
    BY <1>1, <1>3, EndJobKeeps
  <1>4. CASE GetLock(s)
    BY <1>1, <1>2, <1>4, RowsStandStill DEF GetLock, StepTypes
  <1>5. CASE GiveUpLock(s)
    <2>1. (UNCHANGED jobs /\ UNCHANGED work) \/ EndJob(s, TRUE)
      BY <1>5 DEF GiveUpLock
    <2> QED BY <1>1, <1>3, <2>1, JobsStandStill, SlotsStandStill, RowsStandStill DEF StepTypes
  <1>6. CASE ReleaseLock(s)
    BY <1>1, <1>2, <1>6, RowsStandStill DEF ReleaseLock, StepTypes
  <1>7. CASE DeleteKey(s)
    BY <1>1, <1>2, <1>7, RowsStandStill DEF DeleteKey, StepTypes
  <1>8. CASE Finish(s)
    <2>1. work[s].ok \in BOOLEAN
      BY WorkTyped
    <2> QED BY <1>1, <1>3, <1>8, <2>1, RowsStandStill DEF Finish, StepTypes
  <1> QED BY <1>4, <1>5, <1>6, <1>7, <1>8

LEMMA LookTypes ==
    ASSUME PipelineTypes, NEW s \in Slots, ReadOrder(s) \/ FindExecution(s) \/ ExecuteDelivery(s)
    PROVE  StepTypes
  <1>1. ~At(s, "idle") /\ UNCHANGED rows /\ JobsKept
    BY JobsStandStill DEF ReadOrder, FindExecution, ExecuteDelivery, At
  <1>2. work[s] \in WorkRecord
    BY DEF PipelineTypes
  <1>3. ASSUME Release(s, TRUE)
        PROVE  SlotsKept
    BY <1>1, <1>3, ReleaseKeeps
  <1>4. CASE ReadOrder(s)
    <2> DEFINE new == [work[s] EXCEPT !.pc = "find", !.seen = status[Ord(s)]]
    <2>1. status[Ord(s)] \in PaymentState
      BY <1>1, WorkTyped DEF PipelineTypes
    <2>2. new \in WorkRecord /\ GoesOn(s, new)
      BY <1>2, <2>1 DEF WorkRecord, Steps, DeliverySteps, GoesOn
    <2>3. Release(s, TRUE) \/ work' = [work EXCEPT ![s] = new]
      BY <1>4 DEF ReadOrder
    <2> HIDE DEF new
    <2>4. SlotsKept
      BY <1>1, <1>3, <2>2, <2>3, SlotGoesOn
    <2> QED BY <1>1, <2>4, RowsStandStill DEF StepTypes
  <1>5. CASE FindExecution(s)
    <2>1. "create" \in Steps \ {"idle", "retryRead"}
      BY DEF Steps, DeliverySteps
    <2> QED BY <1>1, <1>3, <1>5, <2>1, GotoKeeps, RowsStandStill DEF FindExecution, StepTypes
  <1>6. CASE ExecuteDelivery(s)
    <2>1. PICK ok \in BOOLEAN : work' = [work EXCEPT ![s].pc = "record", ![s].ok = ok]
      BY <1>6 DEF ExecuteDelivery
    <2> DEFINE new == [work[s] EXCEPT !.pc = "record", !.ok = ok]
    <2>2. new \in WorkRecord /\ GoesOn(s, new)
      BY <1>2 DEF WorkRecord, Steps, DeliverySteps, GoesOn
    <2>3. work' = [work EXCEPT ![s] = new]
      BY <2>1
    <2> HIDE DEF new
    <2> QED BY <1>1, <2>2, <2>3, SlotGoesOn, RowsStandStill DEF StepTypes
  <1> QED BY <1>4, <1>5, <1>6

LEMMA CreateTypes ==
    ASSUME PipelineTypes, NEW s \in Slots, CreateExecution(s)
    PROVE  StepTypes
  <1> DEFINE o == Ord(s)
             row == [provider |-> Job(s).provider, status |-> "EXECUTING"]
             new == [work[s] EXCEPT !.pc = "call", !.row = Len(prints[o]) + 1]
  <1>1. ~At(s, "idle") /\ JobsKept /\ UNCHANGED status
    BY JobsStandStill DEF CreateExecution, At
  <1>2. o \in Orders /\ prints[o] \in Seq(FingerprintRow) /\ row \in FingerprintRow
    BY <1>1, WorkTyped DEF PipelineTypes, FingerprintRow
  <1>3. CASE Release(s, TRUE) /\ UNCHANGED prints
    BY <1>1, <1>3, ReleaseKeeps DEF StepTypes, RowsTyped, PipelineTypes
  <1>4. CASE InsertExecution(s)
    <2>1. /\ prints' = [prints EXCEPT ![o] = Append(prints[o], row)]
          /\ work' = [work EXCEPT ![s] = new]
      BY <1>4 DEF InsertExecution
    <2>2. RowsTyped'
      BY <1>1, <1>2, <2>1, RowAppended DEF RowsTyped, PipelineTypes
    <2>3. new \in WorkRecord /\ GoesOn(s, new)
      <3>1. Len(prints[o]) + 1 \in Nat /\ work[s] \in WorkRecord
        BY <1>2, RowAppended DEF PipelineTypes
      <3> QED BY <3>1 DEF WorkRecord, Steps, DeliverySteps, GoesOn
    <2> HIDE DEF new
    <2> QED BY <1>1, <2>1, <2>2, <2>3, SlotGoesOn DEF StepTypes
  <1> QED BY <1>3, <1>4 DEF CreateExecution

LEMMA UpdateTypes ==
    ASSUME PipelineTypes, NEW s \in Slots, UpdateExecutionResult(s)
    PROVE  StepTypes
  <1> DEFINE o == Ord(s)
             result == IF work[s].ok THEN "SUCCESS" ELSE "FAILED"
             new == [work[s] EXCEPT !.pc = "mark", !.row = 0]
             updated == [prints[o] EXCEPT ![work[s].row].status = result]
  <1>1. ~At(s, "idle") /\ JobsKept /\ UNCHANGED status
    BY JobsStandStill DEF UpdateExecutionResult, At
  <1>2. o \in Orders /\ prints[o] \in Seq(FingerprintRow)
    BY <1>1, WorkTyped DEF PipelineTypes
  <1>3. CASE Release(s, FALSE) /\ UNCHANGED prints
    BY <1>1, <1>3, ReleaseKeeps DEF StepTypes, RowsTyped, PipelineTypes
  <1>4. CASE /\ prints' = [prints EXCEPT ![o][work[s].row].status = result]
             /\ work' = [work EXCEPT ![s].pc = "mark", ![s].row = 0]
    <2>1. prints' = [prints EXCEPT ![o] = updated] /\ work' = [work EXCEPT ![s] = new]
      BY <1>4
    <2>2. updated \in Seq(FingerprintRow)
      BY <1>2, WorkTyped, RowUpdated DEF RowStatus
    <2>3. new \in WorkRecord /\ GoesOn(s, new)
      <3>1. work[s] \in WorkRecord
        BY DEF PipelineTypes
      <3> QED BY <3>1 DEF WorkRecord, Steps, DeliverySteps, GoesOn
    <2> HIDE DEF new, updated
    <2>4. RowsTyped'
      BY <1>1, <1>2, <2>1, <2>2 DEF RowsTyped, PipelineTypes
    <2> QED BY <1>1, <2>1, <2>3, <2>4, SlotGoesOn DEF StepTypes
  <1> QED BY <1>3, <1>4 DEF UpdateExecutionResult

LEMMA MarkTypes ==
    ASSUME PipelineTypes, NEW s \in Slots, MarkOutcome(s)
    PROVE  StepTypes
  <1>1. ~At(s, "idle") /\ JobsKept /\ UNCHANGED prints /\ Ord(s) \in Orders
    BY JobsStandStill, WorkTyped DEF MarkOutcome, At
  <1>2. \E ok \in BOOLEAN : Release(s, ok)
    <2>1. Moves(Ord(s), "PROCESSING", "DELIVERED", "WORKER") \in BOOLEAN
      BY DEF Moves
    <2> QED BY <2>1 DEF MarkOutcome
  <1>3. RowsTyped'
    <2>1. "DELIVERED" \in PaymentState /\ "FAILED" \in PaymentState
      BY DEF PaymentState
    <2>2. status' \in [Orders -> PaymentState]
      BY <1>1, <2>1, TransitionTyped DEF MarkOutcome
    <2> QED BY <1>1, <2>2 DEF RowsTyped, PipelineTypes
  <1> QED BY <1>1, <1>2, <1>3, ReleaseKeeps DEF StepTypes

LEMMA StepKeepsTypes ==
    ASSUME PipelineTypes, NEW s \in Slots, Step(s)
    PROVE  StepTypes
  BY VerifyTypes, QueueTypes, ExpireTypes, ReconcileTypes, RetryTypes, LockStepTypes,
     LookTypes, CreateTypes, UpdateTypes, MarkTypes DEF Step
-----------------------------------------------------------------------------
(* Steps of BullMQ and of the world.                                       *)

LEMMA TakeJobTypes ==
    ASSUME PipelineTypes, NEW s \in Slots, NEW j \in Jobs, TakeJob(s, j)
    PROVE  StepTypes
  <1> DEFINE taken == [jobs[j] EXCEPT !.state = "active", !.by = s]
             pc == FirstCall[jobs[j].kind]
             new == [Resting EXCEPT !.pc = pc, !.job = j]
  <1>1. /\ jobs[j].state = "waiting" /\ jobs' = [jobs EXCEPT ![j] = taken]
        /\ work' = [work EXCEPT ![s] = new] /\ At(s, "idle") /\ UNCHANGED rows
    BY DEF TakeJob
  <1>2. jobs[j] \in JobRecord /\ JobSound(jobs[j])
    BY <1>1, UsedIsRecord DEF PipelineTypes
  <1>3. /\ taken \in JobRecord
        /\ taken.kind = jobs[j].kind /\ taken.order = jobs[j].order
        /\ taken.provider = jobs[j].provider /\ taken.left = jobs[j].left
    BY <1>2 DEF JobRecord
  <1>4. JobSound(taken)
    BY <1>1, <1>2, <1>3 DEF JobSound
  <1>5. pc \in Steps \ {"idle"} /\ (pc = "retryRead" => jobs[j].kind = "retry")
    BY <1>2 DEF FirstCall, JobRecord, Queues, Steps
  <1> HIDE DEF taken, pc
  <1>6. new \in WorkRecord /\ new.pc = pc /\ new.job = j
    BY <1>5 DEF Resting, WorkRecord
  <1> HIDE DEF new
  <1>7. JobsKept
    BY <1>1, <1>2, <1>3, <1>4, JobChanges
  <1>8. SlotsKept
    <2>1. /\ work' \in [Slots -> WorkRecord] /\ work'[s] = new
          /\ \A t \in Slots \ {s} : work'[t] = work[t]
      BY <1>1, <1>6 DEF PipelineTypes
    <2>2. SlotSound(s)'
      BY <1>2, <1>5, <1>6, <1>7, <2>1, RecordIsUsed DEF SlotSound, JobsKept, Job, At
    <2>3. ASSUME NEW t \in Slots \ {s}, ~At(t, "idle")
          PROVE  /\ SlotSound(t)' /\ Ord(t)' = Ord(t) /\ Job(t).provider' = Job(t).provider
      <3>1. SlotSound(t) /\ work[t].job \in Jobs /\ jobs[work[t].job] # Unused
        BY <2>3, WorkTyped DEF PipelineTypes, Job
      <3> QED BY <1>7, <2>1, <2>3, <3>1 DEF SlotSound, JobsKept, Job, Ord, At
    <2> QED BY <1>1, <2>1, <2>2, <2>3 DEF SlotsKept, SlotSound, At
  <1> QED BY <1>1, <1>7, <1>8, RowsStandStill DEF StepTypes

LEMMA CrashTypes ==
    ASSUME PipelineTypes, NEW p \in Processes, Crash(p)
    PROVE  StepTypes
  <1> DEFINE dead == {s \in Slots : Owner[s] = p}
             lost(j) == jobs[j].state = "active" /\ jobs[j].by \in dead
  <1>1. /\ jobs' = [j \in Jobs |-> IF lost(j) THEN Stalled(j) ELSE jobs[j]]
        /\ work' = [s \in Slots |-> IF s \in dead THEN Resting ELSE work[s]]
        /\ UNCHANGED rows
    BY DEF Crash
  <1>2. JobsKept
    <2>1. ASSUME NEW j \in Jobs
          PROVE  /\ jobs'[j] \in {Unused} \cup JobRecord /\ JobSound(jobs'[j])
                 /\ jobs[j] # Unused =>
                       /\ jobs'[j] # Unused
                       /\ jobs'[j].kind = jobs[j].kind
                       /\ jobs'[j].order = jobs[j].order
                       /\ jobs'[j].provider = jobs[j].provider
      <3>1. CASE lost(j)
        BY <1>1, <3>1, StalledSound, UsedIsRecord, RecordIsUsed
      <3>2. CASE ~lost(j)
        BY <1>1, <3>2 DEF PipelineTypes
      <3> QED BY <3>1, <3>2
    <2> QED BY <1>1, <2>1 DEF JobsKept
  <1>3. SlotsKept
    <2>1. work' \in [Slots -> WorkRecord]
      BY <1>1, RestingTyped DEF PipelineTypes
    <2>2. ASSUME NEW t \in Slots, ~At(t, "idle")'
          PROVE  /\ SlotSound(t)' /\ Ord(t)' = Ord(t) /\ Job(t).provider' = Job(t).provider
      <3>1. work'[t] = work[t] /\ ~At(t, "idle")
        BY <1>1, <2>2, RestingTyped DEF At
      <3>2. SlotSound(t) /\ work[t].job \in Jobs /\ jobs[work[t].job] # Unused
        BY <3>1, WorkTyped DEF PipelineTypes, Job
      <3> QED BY <1>2, <3>1, <3>2 DEF SlotSound, JobsKept, Job, Ord, At
    <2> QED BY <2>1, <2>2 DEF SlotsKept, SlotSound
  <1> QED BY <1>1, <1>2, <1>3, RowsStandStill DEF StepTypes

LEMMA StallTypes ==
    ASSUME PipelineTypes, NEW j \in Jobs, JobStalls(j)
    PROVE  StepTypes
  <1>1. /\ jobs[j].state = "active" /\ jobs' = [jobs EXCEPT ![j] = Stalled(j)]
        /\ UNCHANGED rows /\ UNCHANGED work
    BY DEF JobStalls
  <1>2. jobs[j] \in JobRecord
    BY <1>1, UsedIsRecord
  <1> QED BY <1>1, <1>2, StalledSound, JobChanges, SlotsStandStill, RowsStandStill DEF StepTypes

LEMMA WorldTypes ==
    ASSUME PipelineTypes,
           \/ \E s \in Slots : Heartbeat(s)
           \/ \E o \in Orders : StartedElsewhere(o)
           \/ TimePasses
           \/ UNCHANGED vars
    PROVE  StepTypes
  <1>1. UNCHANGED jobs /\ UNCHANGED work
    BY DEF Heartbeat, StartedElsewhere, TimePasses, vars
  <1>2. RowsTyped'
    <2>1. CASE UNCHANGED rows
      BY <2>1, RowsStandStill
    <2>2. CASE \E o \in Orders : StartedElsewhere(o)
      BY <2>2 DEF StartedElsewhere, RowsTyped, PipelineTypes, PaymentState
    <2> QED BY <2>1, <2>2 DEF Heartbeat, TimePasses, vars
  <1> QED BY <1>1, <1>2, JobsStandStill, SlotsStandStill DEF StepTypes

LEMMA NextTypes ==
    ASSUME PipelineTypes, [Next]_vars
    PROVE  StepTypes
  BY StepKeepsTypes, TakeJobTypes, CrashTypes, StallTypes, WorldTypes DEF Next

-----------------------------------------------------------------------------
(* The key and the timers.                                                 *)

KeyRecord == [owner : Processes, token : Slots \cup {Nobody}, left : 1..Ttl]

SessionRecord == [tries : 0..MaxTries, due : BOOLEAN, beat : {"off", "on", "renew", "closing"}]

LEMMA LockTyped ==
    LockTypeOK <=> /\ lock \in [Orders -> {Free} \cup KeyRecord]
                   /\ session \in [Slots -> SessionRecord]
  BY DEF LockTypeOK, KeyRecord, SessionRecord

LEMMA LockTypedNext ==
    /\ lock' \in [Orders -> {Free} \cup KeyRecord]
    /\ session' \in [Slots -> SessionRecord]
    => LockTypeOK'
  BY DEF LockTypeOK, KeyRecord, SessionRecord

LEMMA KeyTyped ==
    ASSUME LockTypeOK, NEW o \in Orders
    PROVE  /\ lock[o] # Free => lock[o] \in KeyRecord /\ lock[o].left \in 1..Ttl
           /\ lock[o].left \in 0..Ttl
           /\ lock[o].token \in Slots => lock[o] # Free
  BY LockTyped, LockAssumption DEF KeyRecord, Free

\* What may be written to a key and to a session.
LEMMA KeyChanges ==
    ASSUME NEW s \in Slots, NEW key \in KeyRecord, NEW left \in 1..Ttl
    PROVE  /\ Held(s) \in KeyRecord
           /\ [key EXCEPT !.left = left] \in KeyRecord
           /\ [key EXCEPT !.token = Nobody] \in KeyRecord
  <1> DEFINE L == 1..Ttl
  <1>1. KeyRecord = [owner : Processes, token : Slots \cup {Nobody}, left : L]
    BY DEF KeyRecord
  <1>2. Ttl \in L /\ left \in L /\ Owner[s] \in Processes
    BY LockAssumption DEF Processes
  <1> HIDE DEF L
  <1> QED BY <1>1, <1>2 DEF Held

LEMMA SessionChanges ==
    ASSUME NEW knows \in SessionRecord, NEW beat \in {"off", "on", "renew", "closing"},
           NEW due \in BOOLEAN, NEW tries \in 0..MaxTries
    PROVE  /\ [knows EXCEPT !.beat = beat] \in SessionRecord
           /\ [knows EXCEPT !.due = due] \in SessionRecord
           /\ [knows EXCEPT !.due = due, !.beat = beat] \in SessionRecord
           /\ [knows EXCEPT !.tries = tries] \in SessionRecord
           /\ NoSession \in SessionRecord
           /\ [NoSession EXCEPT !.beat = beat] \in SessionRecord
  <1> DEFINE T == 0..MaxTries
  <1>1. SessionRecord = [tries : T, due : BOOLEAN, beat : {"off", "on", "renew", "closing"}]
    BY DEF SessionRecord
  <1>2. tries \in T /\ 0 \in T
    BY LockAssumption
  <1> HIDE DEF T
  <1> QED BY <1>1, <1>2 DEF NoSession
LEMMA SessionOpTyped ==
    ASSUME LockTypeOK, NEW s \in Slots, NEW o \in Orders,
           \/ AcquireLock(s, o)
           \/ session[s].tries + 1 < MaxTries /\ LockBusy(s, o)
           \/ AbandonLock(s, o) \/ CloseSession(s, o) \/ DeleteLock(s, o)
    PROVE  LockTypeOK'
  <1>1. /\ lock \in [Orders -> {Free} \cup KeyRecord]
        /\ session \in [Slots -> SessionRecord] /\ session[s] \in SessionRecord
    BY LockTyped
  <1>2. /\ session[s].tries \in 0..MaxTries
        /\ NoSession \in SessionRecord /\ [NoSession EXCEPT !.beat = "closing"] \in SessionRecord
        /\ [session[s] EXCEPT !.beat = "on"] \in SessionRecord /\ Held(s) \in KeyRecord
    <2>1. session[s].tries \in 0..MaxTries
      BY <1>1 DEF SessionRecord
    <2>2. 1 \in 1..Ttl
      BY LockAssumption
    <2>3. Held(s) \in KeyRecord
      <3>1. Ttl \in 1..Ttl /\ Owner[s] \in Processes
        BY LockAssumption DEF Processes
      <3> QED BY <3>1 DEF Held, KeyRecord
    <2> QED BY <1>1, <2>1, <2>3, SessionChanges
  <1>3. CASE AcquireLock(s, o)
    <2>1. session' = [session EXCEPT ![s] = [session[s] EXCEPT !.beat = "on"]]
      BY <1>3 DEF AcquireLock
    <2> QED BY <1>1, <1>2, <1>3, <2>1, LockTypedNext DEF AcquireLock
  <1>4. CASE session[s].tries + 1 < MaxTries /\ LockBusy(s, o)
    <2> DEFINE n == session[s].tries + 1
    <2>1. n \in 0..MaxTries
      BY <1>2, <1>4, LockAssumption
    <2>2. session' = [session EXCEPT ![s] = [session[s] EXCEPT !.tries = n]]
      BY <1>4 DEF LockBusy
    <2> HIDE DEF n
    <2>3. [session[s] EXCEPT !.tries = n] \in SessionRecord
      BY <1>1, <2>1, SessionChanges
    <2> QED BY <1>1, <1>4, <2>2, <2>3, LockTypedNext DEF LockBusy
  <1>5. CASE AbandonLock(s, o)
    BY <1>1, <1>2, <1>5, LockTypedNext DEF AbandonLock
  <1>6. CASE CloseSession(s, o)
    BY <1>1, <1>2, <1>6, LockTypedNext DEF CloseSession
  <1>7. CASE DeleteLock(s, o)
    BY <1>1, <1>2, <1>7, LockTypedNext DEF DeleteLock
  <1> QED BY <1>3, <1>4, <1>5, <1>6, <1>7

LEMMA HeartbeatTyped ==
    ASSUME LockTypeOK, NEW s \in Slots, NEW o \in Orders,
           HeartbeatReads(s, o) \/ HeartbeatRenews(s, o)
    PROVE  LockTypeOK'
  <1>1. /\ lock \in [Orders -> {Free} \cup KeyRecord]
        /\ session \in [Slots -> SessionRecord] /\ session[s] \in SessionRecord
    BY LockTyped
  <1>2. CASE HeartbeatReads(s, o)
    <2> DEFINE beat == IF lock[o].owner = Owner[s] THEN "renew" ELSE "off"
               new == [session[s] EXCEPT !.due = FALSE, !.beat = beat]
    <2>1. session' = [session EXCEPT ![s] = new] /\ UNCHANGED lock
      BY <1>2 DEF HeartbeatReads
    <2>2. beat \in {"off", "on", "renew", "closing"}
      OBVIOUS
    <2> HIDE DEF beat
    <2>3. new \in SessionRecord
      BY <1>1, <2>2 DEF SessionRecord
    <2> HIDE DEF new
    <2> QED BY <1>1, <2>1, <2>3, LockTypedNext
  <1>3. CASE HeartbeatRenews(s, o)
    <2> DEFINE left == IF lock[o] = Free THEN 0 ELSE Ttl
               key == [lock[o] EXCEPT !.left = left]
    <2>1. /\ session' = [session EXCEPT ![s] = [session[s] EXCEPT !.beat = "on"]]
          /\ lock' = [lock EXCEPT ![o] = key]
      BY <1>3 DEF HeartbeatRenews
    <2>2. [session[s] EXCEPT !.beat = "on"] \in SessionRecord
      BY <1>1 DEF SessionRecord
    <2>3. key \in {Free} \cup KeyRecord
      <3>1. CASE lock[o] = Free
        BY <3>1 DEF Free
      <3>2. CASE lock[o] # Free
        <4>1. lock[o] \in KeyRecord /\ Ttl \in 1..Ttl
          BY <1>1, <3>2, LockAssumption
        <4>2. key = [lock[o] EXCEPT !.left = Ttl]
          BY <3>2
        <4> QED BY <4>1, <4>2, KeyChanges
      <3> QED BY <3>1, <3>2
    <2> HIDE DEF key
    <2> QED BY <1>1, <2>1, <2>2, <2>3, LockTypedNext
  <1> QED BY <1>2, <1>3

LEMMA TickTyped ==
    ASSUME LockTypeOK, Tick
    PROVE  LockTypeOK'
  <1>1. /\ lock \in [Orders -> {Free} \cup KeyRecord]
        /\ session \in [Slots -> SessionRecord]
    BY LockTyped
  <1>2. ASSUME NEW o \in Orders
        PROVE  lock'[o] \in {Free} \cup KeyRecord
    <2> DEFINE left == lock[o].left - 1
    <2>1. CASE lock[o].left <= 1
      BY <2>1 DEF Tick
    <2>2. CASE ~(lock[o].left <= 1)
      <3>1. lock[o].left \in 1..Ttl /\ lock[o] \in KeyRecord
        BY <1>1, <2>2, KeyTyped DEF Free
      <3>2. left \in 1..Ttl
        BY <2>2, <3>1, LockAssumption
      <3>3. lock'[o] = [lock[o] EXCEPT !.left = left]
        BY <2>2 DEF Tick
      <3> HIDE DEF left
      <3> QED BY <3>1, <3>2, <3>3 DEF KeyRecord
    <2> QED BY <2>1, <2>2
  <1>3. lock' \in [Orders -> {Free} \cup KeyRecord]
    BY <1>2 DEF Tick
  <1>4. ASSUME NEW s \in Slots
        PROVE  session'[s] \in SessionRecord
    <2> DEFINE due == session[s].beat = "on" /\ ~MayStall
    <2>1. session'[s] = [session[s] EXCEPT !.due = due]
      BY DEF Tick
    <2>2. due \in BOOLEAN
      OBVIOUS
    <2> HIDE DEF due
    <2> QED BY <1>1, <2>1, <2>2 DEF SessionRecord
  <1>5. session' \in [Slots -> SessionRecord]
    BY <1>4 DEF Tick
  <1> QED BY <1>3, <1>5, LockTypedNext

LEMMA ForgetTyped ==
    ASSUME LockTypeOK, NEW dead \in SUBSET Slots, ForgetSessions(dead)
    PROVE  LockTypeOK'
  <1>1. /\ lock \in [Orders -> {Free} \cup KeyRecord]
        /\ session \in [Slots -> SessionRecord]
    BY LockTyped
  <1>2. NoSession \in SessionRecord
    BY LockAssumption DEF NoSession, SessionRecord
  <1>3. ASSUME NEW o \in Orders
        PROVE  lock'[o] \in {Free} \cup KeyRecord
    <2>1. CASE lock[o].token \in dead
      <3>1. lock[o] \in KeyRecord
        BY <1>1, <2>1, LockAssumption DEF Free
      <3>2. [lock[o] EXCEPT !.token = Nobody] \in KeyRecord
        BY <3>1 DEF KeyRecord
      <3> QED BY <2>1, <3>2 DEF ForgetSessions
    <2>2. CASE lock[o].token \notin dead
      BY <1>1, <2>2 DEF ForgetSessions
    <2> QED BY <2>1, <2>2
  <1> QED BY <1>1, <1>2, <1>3, LockTypedNext DEF ForgetSessions

LEMMA NextLockTyped ==
    ASSUME PipelineTypes, [Next]_vars
    PROVE  LockTypeOK'
  <1>1. LockTypeOK
    BY DEF PipelineTypes
  <1>2. CASE UNCHANGED lockVars
    BY <1>1, <1>2 DEF lockVars, LockTypeOK
  <1>3. ASSUME NEW s \in Slots,
               GetLock(s) \/ GiveUpLock(s) \/ ReleaseLock(s) \/ DeleteKey(s)
        PROVE  LockTypeOK'
    <2>1. Ord(s) \in Orders
      BY <1>3, WorkTyped DEF GetLock, GiveUpLock, ReleaseLock, DeleteKey, At
    <2> QED BY <1>1, <1>3, <2>1, SessionOpTyped DEF GetLock, GiveUpLock, ReleaseLock, DeleteKey
  <1>4. ASSUME NEW s \in Slots, Step(s)
        PROVE  LockTypeOK'
    BY <1>2, <1>3, <1>4
       DEF Step, VerifyReadsOrder, VerifyAsksBakong, VerifyMarksPaid, VerifyQueuesDelivery,
           ExpireReadsOrder, ExpireWritesById, ReconcileReadsOrder, ReconcileWritesById,
           RetryReadsProduct, ReadOrder, FindExecution, CreateExecution, ExecuteDelivery,
           UpdateExecutionResult, MarkOutcome, Finish
  <1>5. ASSUME NEW s \in Slots, Heartbeat(s)
        PROVE  LockTypeOK'
    BY <1>1, <1>5, WorkTyped, HeartbeatTyped DEF Heartbeat
  <1>6. ASSUME NEW p \in Processes, Crash(p)
        PROVE  LockTypeOK'
    <2>1. {s \in Slots : Owner[s] = p} \in SUBSET Slots
      OBVIOUS
    <2> QED BY <1>1, <1>6, <2>1, ForgetTyped DEF Crash
  <1>7. CASE TimePasses
    BY <1>1, <1>7, TickTyped DEF TimePasses
  <1>8. ASSUME \/ \E s \in Slots, j \in Jobs : TakeJob(s, j)
               \/ \E o \in Orders : StartedElsewhere(o)
               \/ \E j \in Jobs : JobStalls(j)
               \/ UNCHANGED vars
        PROVE  LockTypeOK'
    BY <1>2, <1>8 DEF TakeJob, StartedElsewhere, JobStalls, vars
  <1> QED BY <1>4, <1>5, <1>6, <1>7, <1>8 DEF Next

LEMMA TypesInitially ==
    ASSUME Init
    PROVE  PipelineTypes
  <1>1. LockTypeOK
    <2>1. NoSession \in SessionRecord
      BY LockAssumption DEF NoSession, SessionRecord
    <2> QED BY <2>1, LockTyped DEF Init, LockInit
  <1>2. jobs \in [Jobs -> {Unused} \cup JobRecord] /\ \A j \in Jobs : JobSound(jobs[j])
    <2>1. ASSUME NEW j \in Jobs
          PROVE  jobs[j] \in {Unused} \cup JobRecord /\ JobSound(jobs[j])
      <3>1. CASE jobs[j] = Unused
        BY <3>1 DEF JobSound, Unused
      <3>2. CASE \E k \in JobKinds, o \in Orders : jobs[j] = NewJob(k, o, DetermineProvider(o))
        <4>1. PICK k \in JobKinds, o \in Orders : jobs[j] = NewJob(k, o, DetermineProvider(o))
          BY <3>2
        <4>2. k \in Queues /\ DetermineProvider(o) \in Providers
          BY PipelineAssumption DEF DetermineProvider, Providers
        <4> QED BY <4>1, <4>2, NewJobSound
      <3>3. CASE \E o \in Orders : jobs[j] = NewJob("deliver", o, "MANUAL")
        BY <3>3, NewJobSound DEF Queues, Providers
      <3> QED BY <3>1, <3>2, <3>3 DEF Init
    <2> QED BY <2>1 DEF Init
  <1>3. status \in [Orders -> PaymentState] /\ prints \in [Orders -> Seq(FingerprintRow)]
    BY DEF Init, PaymentState
  <1>4. work \in [Slots -> WorkRecord] /\ \A s \in Slots : SlotSound(s)
    BY RestingTyped DEF Init, SlotSound, At
  <1> QED BY <1>1, <1>2, <1>3, <1>4 DEF PipelineTypes

LEMMA NextKeepsTypes ==
    ASSUME PipelineTypes, [Next]_vars
    PROVE  PipelineTypes' /\ StepTypes
  BY NextTypes, NextLockTyped DEF PipelineTypes, StepTypes, JobsKept, SlotsKept, RowsTyped

\* Every order, row, job, key and slot of the pipeline keeps its type, for any
\* number of them, whoever crashes, stalls or retries (TypeOK).
THEOREM PipelineTypeCorrect == Spec => []TypeOK
  <1>1. Init => PipelineTypes
    BY TypesInitially
  <1>2. PipelineTypes /\ [Next]_vars => PipelineTypes'
    BY NextKeepsTypes
  <1>3. PipelineTypes => TypeOK
    <2> SUFFICES ASSUME PipelineTypes PROVE TypeOK
      OBVIOUS
    <2>1. ASSUME NEW j \in Jobs, jobs[j] # Unused
          PROVE  /\ jobs[j].kind \in Queues /\ jobs[j].order \in Orders
                 /\ jobs[j].state \in {"waiting", "active", "completed", "failed"}
                 /\ jobs[j].left \in 0..3 /\ jobs[j].stalls \in 0..MaxStalled
      BY <2>1, UsedIsRecord DEF JobRecord
    <2>2. ASSUME NEW s \in Slots
          PROVE  /\ work[s].pc \in Steps
                 /\ work[s].pc # "idle" => work[s].job \in Jobs /\ jobs[work[s].job].kind \in Queues
      BY <2>1, WorkTyped DEF Job, At
    <2> QED BY <2>1, <2>2 DEF TypeOK, PipelineTypes
  <1> QED BY <1>1, <1>2, <1>3, PTL DEF Spec
-----------------------------------------------------------------------------
(* Executions and their rows.                                              *)

AroundCall == {"create", "call", "record", "mark"}

\* Most steps touch no row, bring no slot to the steps around the provider
\* call, unless it has looked for a success in vain, and deliver nothing that
\* was not to be marked.
QuietStep ==
    /\ UNCHANGED prints
    /\ \A s \in Slots : work'[s].pc \in {"call", "record", "mark"} => work'[s] = work[s]
    /\ \A s \in Slots : work'[s].pc = "create" /\ work'[s] # work[s] =>
          ~At(s, "idle") /\ ~HasRow(Ord(s), Job(s).provider, {"SUCCESS"})
    /\ \A o \in Orders : status'[o] = "DELIVERED" /\ status[o] # "DELIVERED" =>
          \E s \in Slots : At(s, "mark") /\ work[s].ok /\ Ord(s) = o

\* A slot that moves to some other point of the worker.
LEMMA MovesQuietly ==
    ASSUME PipelineTypes, NEW s \in Slots, NEW new,
           new.pc \notin AroundCall, work' = [work EXCEPT ![s] = new]
    PROVE  \A t \in Slots : work'[t].pc \in AroundCall => work'[t] = work[t]
  BY WorkTyped

LEMMA GotoQuietly ==
    ASSUME PipelineTypes, NEW s \in Slots, NEW pc, pc \notin AroundCall,
           Goto(s, pc)
    PROVE  \A t \in Slots : work'[t].pc \in AroundCall => work'[t] = work[t]
  <1>1. [work[s] EXCEPT !.pc = pc].pc = pc
    BY DEF PipelineTypes, WorkRecord
  <1> QED BY <1>1, MovesQuietly DEF Goto

LEMMA EndsQuietly ==
    ASSUME PipelineTypes, NEW s \in Slots, NEW ok,
           EndJob(s, ok) \/ Release(s, ok) \/ work' = [work EXCEPT ![s] = Resting]
    PROVE  \A t \in Slots : work'[t].pc \in AroundCall => work'[t] = work[t]
  <1>1. [Resting EXCEPT !.pc = "release", !.job = work[s].job, !.ok = ok].pc = "release"
    BY DEF Resting
  <1> QED BY <1>1, RestingTyped, MovesQuietly DEF EndJob, Release, AroundCall

LEMMA UndeliveredQuietly ==
    ASSUME PipelineTypes, NEW o \in Orders, NEW to \in PaymentState \ {"DELIVERED"},
           status' = status \/ status' = [status EXCEPT ![o] = to]
    PROVE  \A p \in Orders : status'[p] = "DELIVERED" => status[p] = "DELIVERED"
  BY DEF PipelineTypes

LEMMA QuietSlotStep ==
    ASSUME PipelineTypes, NEW s \in Slots, Step(s),
           ~CreateExecution(s), ~ExecuteDelivery(s), ~UpdateExecutionResult(s)
    PROVE  QuietStep
  <1>1. ASSUME VerifyReadsOrder(s) \/ VerifyAsksBakong(s) \/ VerifyQueuesDelivery(s)
               \/ ExpireReadsOrder(s) \/ ReconcileReadsOrder(s) \/ RetryReadsProduct(s)
               \/ GetLock(s) \/ GiveUpLock(s)
               \/ ReleaseLock(s) \/ DeleteKey(s) \/ Finish(s)
        PROVE  QuietStep
    <2>1. UNCHANGED rows
      BY <1>1 DEF VerifyReadsOrder, VerifyAsksBakong, VerifyQueuesDelivery, ExpireReadsOrder,
         ReconcileReadsOrder, RetryReadsProduct, GetLock, GiveUpLock,
         ReleaseLock, DeleteKey, Finish
    <2>2. \/ \E pc \in Steps \ AroundCall : Goto(s, pc)
          \/ \E ok \in BOOLEAN : EndJob(s, ok) \/ Release(s, ok)
          \/ work' = [work EXCEPT ![s] = Resting]
          \/ UNCHANGED work
      <3>1. {"verifyAsk", "verifyMark", "expireWrite", "reconcileWrite", "lock", "read",
             "delete", "finish"} \subseteq Steps \ AroundCall
        BY DEF Steps, DeliverySteps, AroundCall
      <3>2. work[s].ok \in BOOLEAN
        BY WorkTyped
      <3> QED BY <1>1, <3>1, <3>2
              DEF VerifyReadsOrder, VerifyAsksBakong, VerifyQueuesDelivery, ExpireReadsOrder,
                  ReconcileReadsOrder, RetryReadsProduct, GetLock, GiveUpLock,
                  ReleaseLock, DeleteKey, Finish
    <2> QED BY <2>1, <2>2, GotoQuietly, EndsQuietly DEF QuietStep, AroundCall, rows
  <1>2. CASE VerifyMarksPaid(s)
    <2>1. Ord(s) \in Orders /\ "PAID" \in PaymentState \ {"DELIVERED"}
      BY <1>2, WorkTyped DEF VerifyMarksPaid, At, PaymentState
    <2>2. \A p \in Orders : status'[p] = "DELIVERED" => status[p] = "DELIVERED"
      BY <1>2, <2>1, TransitionTyped, UndeliveredQuietly DEF VerifyMarksPaid
    <2> QED BY <1>2, <2>2, GotoQuietly, EndsQuietly DEF VerifyMarksPaid, QuietStep, AroundCall
  <1>3. CASE ExpireWritesById(s)
    <2>1. Ord(s) \in Orders /\ "EXPIRED" \in PaymentState \ {"DELIVERED"}
      BY <1>3, WorkTyped DEF ExpireWritesById, At, PaymentState
    <2> QED BY <1>3, <2>1, UndeliveredQuietly, EndsQuietly DEF ExpireWritesById, QuietStep, AroundCall
  <1>4. CASE ReconcileWritesById(s)
    <2>1. Ord(s) \in Orders /\ "MANUAL_REVIEW" \in PaymentState \ {"DELIVERED"}
      BY <1>4, WorkTyped DEF ReconcileWritesById, At, PaymentState
    <2> QED BY <1>4, <2>1, UndeliveredQuietly, EndsQuietly DEF ReconcileWritesById, QuietStep, AroundCall
  <1>5. CASE ReadOrder(s)
    <2> DEFINE new == [work[s] EXCEPT !.pc = "find", !.seen = status[Ord(s)]]
    <2>1. new.pc = "find" /\ (Release(s, TRUE) \/ work' = [work EXCEPT ![s] = new])
      BY <1>5 DEF PipelineTypes, WorkRecord, ReadOrder
    <2> HIDE DEF new
    <2>2. \A t \in Slots : work'[t].pc \in AroundCall => work'[t] = work[t]
      BY <2>1, MovesQuietly, EndsQuietly DEF AroundCall
    <2> QED BY <1>5, <2>2 DEF ReadOrder, QuietStep, AroundCall, rows
  <1>6. CASE MarkOutcome(s)
    <2>1. Ord(s) \in Orders /\ {"DELIVERED", "FAILED"} \subseteq PaymentState
      BY <1>6, WorkTyped DEF MarkOutcome, At, PaymentState
    <2>2. /\ status' = status \/ status' = [status EXCEPT ![Ord(s)] =
                                         IF work[s].ok THEN "DELIVERED" ELSE "FAILED"]
          /\ UNCHANGED prints /\ At(s, "mark")
      BY <1>6, <2>1, TransitionTyped DEF MarkOutcome
    <2>3. \A o \in Orders : status'[o] = "DELIVERED" /\ status[o] # "DELIVERED" =>
            work[s].ok /\ Ord(s) = o
      BY <2>1, <2>2 DEF PipelineTypes
    <2>4. \E ok : Release(s, ok)
      BY <1>6 DEF MarkOutcome
    <2> QED BY <2>2, <2>3, <2>4, EndsQuietly DEF QuietStep, AroundCall
  <1>7. CASE FindExecution(s)
    <2> DEFINE new == [work[s] EXCEPT !.pc = "create"]
    <2>1. UNCHANGED rows /\ At(s, "find")
      BY <1>7 DEF FindExecution
    <2>2. CASE Release(s, TRUE)
      BY <2>1, <2>2, EndsQuietly DEF QuietStep, AroundCall, rows
    <2>3. CASE /\ ~HasRow(Ord(s), Job(s).provider, {"EXECUTING", "SUCCESS"})
               /\ work' = [work EXCEPT ![s] = new]
      <3>1. \A t \in Slots \ {s} : work'[t] = work[t]
        BY <2>3 DEF PipelineTypes
      <3>2. ~HasRow(Ord(s), Job(s).provider, {"SUCCESS"}) /\ ~At(s, "idle")
        BY <2>1, <2>3 DEF HasRow, At
      <3>3. work'[s].pc = "create"
        BY <2>3 DEF PipelineTypes, WorkRecord
      <3> QED BY <2>1, <3>1, <3>2, <3>3 DEF QuietStep, rows
    <2> QED BY <1>7, <2>2, <2>3 DEF FindExecution, Goto
  <1> QED BY <1>1, <1>2, <1>3, <1>4, <1>5, <1>6, <1>7 DEF Step

LEMMA QuietWorldStep ==
    ASSUME PipelineTypes,
           \/ \E s \in Slots, j \in Jobs : TakeJob(s, j)
           \/ \E s \in Slots : Heartbeat(s)
           \/ \E o \in Orders : StartedElsewhere(o)
           \/ \E p \in Processes : Crash(p)
           \/ \E j \in Jobs : JobStalls(j)
           \/ TimePasses
           \/ UNCHANGED vars
    PROVE  QuietStep
  <1>1. ASSUME NEW s \in Slots, NEW j \in Jobs, TakeJob(s, j)
        PROVE  QuietStep
    <2> DEFINE pc == FirstCall[jobs[j].kind]
               new == [Resting EXCEPT !.pc = pc, !.job = j]
    <2>1. pc \notin AroundCall
      <3>1. jobs[j].kind \in Queues
        BY <1>1, UsedIsRecord DEF TakeJob, JobRecord
      <3> QED BY <3>1 DEF FirstCall, Queues, AroundCall
    <2>2. new.pc = pc
      BY DEF Resting
    <2>3. UNCHANGED rows /\ work' = [work EXCEPT ![s] = new]
      BY <1>1 DEF TakeJob
    <2> HIDE DEF pc, new
    <2> QED BY <2>1, <2>2, <2>3, MovesQuietly DEF QuietStep, AroundCall, rows
  <1>2. ASSUME NEW o \in Orders, StartedElsewhere(o)
        PROVE  QuietStep
    BY <1>2 DEF StartedElsewhere, QuietStep, AroundCall, PipelineTypes
  <1>3. ASSUME NEW p \in Processes, Crash(p)
        PROVE  QuietStep
    BY <1>3, RestingTyped DEF Crash, QuietStep, AroundCall, rows
  <1>4. ASSUME UNCHANGED rows, UNCHANGED work
        PROVE  QuietStep
    BY <1>4 DEF QuietStep, AroundCall, rows
  <1> QED BY <1>1, <1>2, <1>3, <1>4 DEF Heartbeat, JobStalls, TimePasses, vars
\* A success on record stays on record.
SuccessKept ==
    \A o \in Orders, provider \in Providers :
        HasRow(o, provider, {"SUCCESS"}) => HasRow(o, provider, {"SUCCESS"})'

LEMMA QuietKeepsSuccess ==
    ASSUME UNCHANGED prints
    PROVE  SuccessKept
  BY DEF SuccessKept, HasRow

LEMMA BusyKeeps ==
    ASSUME PipelineTypes, StepTypes, NEW s \in Slots, work'[s].pc # "idle", ~At(s, "idle")
    PROVE  /\ Ord(s)' = Ord(s) /\ Job(s).provider' = Job(s).provider
           /\ Ord(s) \in Orders /\ Job(s).provider \in Providers
  BY WorkTyped DEF StepTypes, SlotsKept, At

LEMMA QuietKeepsRows ==
    ASSUME RowsInv, StepTypes, PipelineTypes', QuietStep
    PROVE  RowsInv'
  <1>1. PipelineTypes /\ UNCHANGED prints
    BY DEF RowsInv, QuietStep
  <1>2. ASSUME NEW s \in Slots, work'[s].pc \in {"call", "record", "mark"}
        PROVE  /\ work'[s] = work[s] /\ Ord(s)' = Ord(s)
               /\ Job(s).provider' = Job(s).provider
    BY <1>1, <1>2, BusyKeeps DEF QuietStep, At
  <1>3. \A s \in Slots : Executing(s)' => RowMine(s)'
    BY <1>1, <1>2 DEF RowsInv, Executing, RowMine, Row
  <1>4. RowsApart'
    BY <1>2 DEF RowsInv, RowsApart, Executing
  <1>5. RowsUnique'
    BY <1>1 DEF RowsInv, RowsUnique
  <1>6. \A s \in Slots : Recorded(s)'
    BY <1>1, <1>2 DEF RowsInv, Recorded, HasRow, At
  <1>7. DeliveredWasExecuted'
    <2> SUFFICES ASSUME NEW o \in Orders, status'[o] = "DELIVERED"
                 PROVE  HasRow(o, "PROVIDER", {"SUCCESS"}) \/ HasRow(o, "MANUAL", {"SUCCESS"})
      BY <1>1 DEF DeliveredWasExecuted, HasRow
    <2>1. CASE status[o] = "DELIVERED"
      BY <2>1 DEF RowsInv, DeliveredWasExecuted
    <2>2. CASE status[o] # "DELIVERED"
      <3>1. PICK s \in Slots : At(s, "mark") /\ work[s].ok /\ Ord(s) = o
        BY <2>2 DEF QuietStep
      <3>2. Job(s).provider \in Providers
        BY <1>1, <3>1, WorkTyped DEF At
      <3> QED BY <3>1, <3>2 DEF RowsInv, Recorded, Providers
    <2> QED BY <2>1, <2>2
  <1> QED BY <1>3, <1>4, <1>5, <1>6, <1>7 DEF RowsInv

LEMMA ExecuteKeepsRows ==
    ASSUME RowsInv, StepTypes, PipelineTypes', NEW s \in Slots, ExecuteDelivery(s)
    PROVE  RowsInv'
  <1>1. PipelineTypes /\ UNCHANGED <<prints, status>> /\ Executing(s) /\ At(s, "call")
    BY DEF RowsInv, ExecuteDelivery, rows, Executing, At
  <1>2. /\ work'[s].pc = "record" /\ work'[s].row = work[s].row
        /\ \A t \in Slots \ {s} : work'[t] = work[t]
    BY <1>1 DEF ExecuteDelivery, PipelineTypes, WorkRecord
  <1>3. ASSUME NEW t \in Slots, work'[t].pc \in {"call", "record", "mark"}
        PROVE  /\ work'[t].row = work[t].row /\ Ord(t)' = Ord(t)
               /\ Job(t).provider' = Job(t).provider
               /\ Executing(t)' <=> Executing(t)
               /\ At(t, "mark")' => work'[t] = work[t]
    BY <1>1, <1>2, <1>3, BusyKeeps DEF At, Executing
  <1>4. \A t \in Slots : Executing(t)' => RowMine(t)'
    BY <1>1, <1>3 DEF RowsInv, Executing, RowMine, Row
  <1>5. RowsApart'
    BY <1>3 DEF RowsInv, RowsApart, Executing
  <1>6. RowsUnique' /\ DeliveredWasExecuted'
    BY <1>1 DEF RowsInv, RowsUnique, DeliveredWasExecuted, HasRow
  <1>7. \A t \in Slots : Recorded(t)'
    BY <1>1, <1>3 DEF RowsInv, Recorded, HasRow, At
  <1> QED BY <1>4, <1>5, <1>6, <1>7 DEF RowsInv

LEMMA ReleaseIsQuiet ==
    ASSUME PipelineTypes, NEW s \in Slots, NEW ok, Release(s, ok), UNCHANGED <<prints, status>>
    PROVE  QuietStep
  BY EndsQuietly DEF QuietStep, AroundCall

LEMMA CreateKeepsRows ==
    ASSUME RowsInv, StepTypes, PipelineTypes', NEW s \in Slots, CreateExecution(s)
    PROVE  RowsInv' /\ SuccessKept
  <1> DEFINE o == Ord(s)
             p == Job(s).provider
             row == [provider |-> p, status |-> "EXECUTING"]
             n == Len(prints[o]) + 1
  <1>1. PipelineTypes /\ At(s, "create") /\ UNCHANGED status
    BY DEF RowsInv, CreateExecution
  <1>2. CASE Release(s, TRUE) /\ UNCHANGED prints
    BY <1>1, <1>2, ReleaseIsQuiet, QuietKeepsRows, QuietKeepsSuccess
  <1>3. CASE ~HasRow(o, p, {"EXECUTING"}) /\ InsertExecution(s)
    <2>1. /\ o \in Orders /\ p \in Providers /\ prints[o] \in Seq(FingerprintRow)
          /\ row \in FingerprintRow
      BY <1>1, WorkTyped DEF At, PipelineTypes, FingerprintRow
    <2>2. /\ prints'[o] = Append(prints[o], row)
          /\ \A q \in Orders \ {o} : prints'[q] = prints[q]
      BY <1>1, <1>3, <2>1 DEF InsertExecution, PipelineTypes
    <2>3. /\ DOMAIN prints'[o] = DOMAIN prints[o] \cup {n} /\ n \notin DOMAIN prints[o]
          /\ prints'[o][n] = row
          /\ \A i \in DOMAIN prints[o] : prints'[o][i] = prints[o][i]
      BY <2>1, <2>2, RowAppended
    <2>4. /\ work'[s].pc = "call" /\ work'[s].row = n
          /\ \A t \in Slots \ {s} : work'[t] = work[t]
      BY <1>1, <1>3 DEF InsertExecution, PipelineTypes, WorkRecord
    <2> HIDE DEF n
    <2>5. \A q \in Orders : \A i \in DOMAIN prints[q] :
            i \in DOMAIN prints'[q] /\ prints'[q][i] = prints[q][i]
      BY <2>2, <2>3
    <2>6. SuccessKept
      BY <2>5 DEF SuccessKept, HasRow
    <2>7. ASSUME NEW t \in Slots, work'[t].pc \in {"call", "record", "mark"}
          PROVE  /\ Ord(t)' = Ord(t) /\ Job(t).provider' = Job(t).provider
                 /\ Ord(t) \in Orders /\ Job(t).provider \in Providers
      BY <1>1, <2>4, <2>7, BusyKeeps DEF At
    <2>8. \A t \in Slots : Executing(t)' => RowMine(t)'
      BY <2>3, <2>4, <2>5, <2>7 DEF RowsInv, Executing, RowMine, Row
    <2>9. RowsApart'
      <3> SUFFICES ASSUME NEW t \in Slots, NEW u \in Slots, Executing(t)', Executing(u)',
                          Ord(t)' = Ord(u)', work'[t].row = work'[u].row, t # u
                   PROVE  FALSE
        BY DEF RowsApart
      <3>1. ASSUME NEW v \in Slots \ {s}, Executing(v)', Ord(v)' = o
            PROVE  work'[v].row # n
        BY <2>3, <2>4, <2>7, <3>1 DEF RowsInv, Executing, RowMine
      <3>2. t # s /\ u # s
        BY <2>4, <2>7, <3>1 DEF Executing
      <3> QED BY <2>4, <2>7, <3>2 DEF RowsInv, RowsApart, Executing
    <2>10. RowsUnique'
      <3>1. \A i \in DOMAIN prints[o] :
              ~(prints[o][i].provider = p /\ prints[o][i].status = "EXECUTING")
        BY <1>3 DEF HasRow
      <3>2. ASSUME NEW q \in Orders, NEW i \in DOMAIN prints'[q], NEW k \in DOMAIN prints'[q],
                   prints'[q][i].provider = prints'[q][k].provider,
                   prints'[q][i].status = "EXECUTING", prints'[q][k].status = "EXECUTING"
            PROVE  i = k
        <4>1. CASE q # o
          BY <2>2, <3>2, <4>1 DEF RowsInv, RowsUnique
        <4>2. CASE q = o /\ i # n /\ k # n
          BY <2>1, <2>3, <3>2, <4>2 DEF RowsInv, RowsUnique
        <4>3. CASE q = o /\ (i = n \/ k = n)
          <5>1. row.provider = p
            OBVIOUS
          <5> QED BY <2>3, <3>1, <3>2, <4>3, <5>1
        <4> QED BY <4>1, <4>2, <4>3
      <3> QED BY <3>2 DEF RowsUnique
    <2>11. \A t \in Slots : Recorded(t)'
      BY <2>4, <2>6, <2>7 DEF RowsInv, Recorded, SuccessKept, At, HasRow
    <2>12. DeliveredWasExecuted'
      BY <1>1, <2>6 DEF RowsInv, DeliveredWasExecuted, SuccessKept, Providers, HasRow
    <2> QED BY <2>6, <2>8, <2>9, <2>10, <2>11, <2>12 DEF RowsInv
  <1> QED BY <1>2, <1>3 DEF CreateExecution
LEMMA UpdateKeepsRows ==
    ASSUME RowsInv, StepTypes, PipelineTypes', NEW s \in Slots, UpdateExecutionResult(s)
    PROVE  /\ RowsInv' /\ SuccessKept
           /\ \A q \in Orders \ {Ord(s)} : prints'[q] = prints[q]
           /\ work'[s].pc \in {"mark", "release"}
           /\ \A t \in Slots \ {s} : work'[t] = work[t]
  <1> DEFINE o == Ord(s)
             n == work[s].row
             result == IF work[s].ok THEN "SUCCESS" ELSE "FAILED"
  <1>1. PipelineTypes /\ At(s, "record") /\ Executing(s) /\ UNCHANGED status
    BY DEF RowsInv, UpdateExecutionResult, Executing, At
  <1>2. CASE Release(s, FALSE) /\ UNCHANGED prints
    <2>1. work'[s].pc = "release" /\ \A t \in Slots \ {s} : work'[t] = work[t]
      BY <1>1, <1>2 DEF Release, PipelineTypes, Resting
    <2> QED BY <1>1, <1>2, <2>1, ReleaseIsQuiet, QuietKeepsRows, QuietKeepsSuccess
  <1>3. CASE /\ prints' = [prints EXCEPT ![o][n].status = result]
             /\ work' = [work EXCEPT ![s].pc = "mark", ![s].row = 0]
    <2>1. /\ o \in Orders /\ prints[o] \in Seq(FingerprintRow) /\ n \in Nat
          /\ result \in RowStatus /\ Job(s).provider \in Providers
      BY <1>1, WorkTyped DEF At, PipelineTypes, RowStatus
    <2>2. /\ n \in DOMAIN prints[o]
          /\ prints[o][n] = [provider |-> Job(s).provider, status |-> "EXECUTING"]
      BY <1>1 DEF RowsInv, RowMine, Row
    <2>3. /\ prints'[o] = [prints[o] EXCEPT ![n].status = result]
          /\ \A q \in Orders \ {o} : prints'[q] = prints[q]
      BY <1>1, <1>3, <2>1 DEF PipelineTypes
    <2>4. /\ DOMAIN prints'[o] = DOMAIN prints[o]
          /\ \A i \in DOMAIN prints[o] \ {n} : prints'[o][i] = prints[o][i]
          /\ prints'[o][n] = [provider |-> Job(s).provider, status |-> result]
      BY <2>1, <2>2, <2>3, RowUpdated
    <2>5. /\ work'[s].pc = "mark" /\ work'[s].ok = work[s].ok
          /\ \A t \in Slots \ {s} : work'[t] = work[t]
      BY <1>1, <1>3 DEF PipelineTypes, WorkRecord
    <2>6. \A q \in Orders : \A i \in DOMAIN prints[q] :
            /\ i \in DOMAIN prints'[q]
            /\ prints'[q][i] = prints[q][i] \/ (q = o /\ i = n)
      BY <2>3, <2>4
    <2>7. SuccessKept
      BY <2>2, <2>6 DEF SuccessKept, HasRow
    <2>8. ASSUME NEW t \in Slots, work'[t].pc \in {"call", "record", "mark"}
          PROVE  /\ Ord(t)' = Ord(t) /\ Job(t).provider' = Job(t).provider
                 /\ Ord(t) \in Orders /\ Job(t).provider \in Providers
      BY <1>1, <2>5, <2>8, BusyKeeps DEF At
    <2>9. \A t \in Slots : Executing(t)' => RowMine(t)'
      <3> SUFFICES ASSUME NEW t \in Slots, Executing(t)'
                   PROVE  RowMine(t)'
        OBVIOUS
      <3>1. t # s /\ Executing(t) /\ work'[t] = work[t]
        BY <2>5 DEF Executing
      <3>2. ~(Ord(t) = o /\ work[t].row = n)
        BY <1>1, <3>1 DEF RowsInv, RowsApart
      <3>3. RowMine(t)
        BY <3>1 DEF RowsInv
      <3> QED BY <2>6, <2>8, <3>1, <3>2, <3>3 DEF RowMine, Row, Executing
    <2>10. RowsApart'
      <3>1. \A t \in Slots : Executing(t)' => /\ Executing(t) /\ Ord(t)' = Ord(t)
                                              /\ work'[t].row = work[t].row
        BY <2>5, <2>8 DEF Executing
      <3> QED BY <3>1 DEF RowsInv, RowsApart
    <2>11. RowsUnique'
      <3>1. [provider |-> Job(s).provider, status |-> result].status # "EXECUTING"
        OBVIOUS
      <3>2. ASSUME NEW q \in Orders, NEW i \in DOMAIN prints'[q], NEW k \in DOMAIN prints'[q],
                   prints'[q][i].provider = prints'[q][k].provider,
                   prints'[q][i].status = "EXECUTING", prints'[q][k].status = "EXECUTING"
            PROVE  i = k
        <4>1. /\ i \in DOMAIN prints[q] /\ k \in DOMAIN prints[q]
              /\ prints'[q][i] = prints[q][i] /\ prints'[q][k] = prints[q][k]
          BY <2>3, <2>4, <2>6, <3>1, <3>2
        <4> QED BY <3>2, <4>1 DEF RowsInv, RowsUnique
      <3> QED BY <3>2 DEF RowsUnique
    <2>12. \A t \in Slots : Recorded(t)'
      <3>1. ASSUME work[s].ok
            PROVE  HasRow(o, Job(s).provider, {"SUCCESS"})'
        <4>1. prints'[o][n].provider = Job(s).provider /\ prints'[o][n].status = "SUCCESS"
          BY <2>4, <3>1
        <4>2. /\ n \in DOMAIN prints'[Ord(s)'] /\ prints'[Ord(s)'][n].status = "SUCCESS"
              /\ prints'[Ord(s)'][n].provider = Job(s).provider'
          BY <2>2, <2>4, <2>5, <2>8, <4>1
        <4> QED BY <2>5, <2>8, <4>2 DEF HasRow
      <3>2. ASSUME NEW t \in Slots \ {s}, At(t, "mark")', work'[t].ok
            PROVE  HasRow(Ord(t), Job(t).provider, {"SUCCESS"})'
        <4>1. HasRow(Ord(t), Job(t).provider, {"SUCCESS"})
          BY <2>5, <3>2 DEF RowsInv, Recorded, At
        <4> QED BY <2>7, <2>8, <3>2, <4>1 DEF SuccessKept, HasRow, At
      <3> QED BY <2>5, <2>8, <3>1, <3>2 DEF Recorded, HasRow, At
    <2>13. DeliveredWasExecuted'
      BY <1>1, <2>7 DEF RowsInv, DeliveredWasExecuted, SuccessKept, Providers, HasRow
    <2> QED BY <2>3, <2>5, <2>7, <2>9, <2>10, <2>11, <2>12, <2>13 DEF RowsInv
  <1> QED BY <1>2, <1>3 DEF UpdateExecutionResult

LEMMA NextKeepsRows ==
    ASSUME RowsInv, [Next]_vars
    PROVE  RowsInv' /\ SuccessKept
  <1>1. PipelineTypes
    BY DEF RowsInv
  <1>2. PipelineTypes' /\ StepTypes
    BY <1>1, NextKeepsTypes
  <1>3. \/ QuietStep
        \/ \E s \in Slots : CreateExecution(s) \/ ExecuteDelivery(s) \/ UpdateExecutionResult(s)
    BY <1>1, QuietSlotStep, QuietWorldStep DEF Next
  <1>4. CASE QuietStep
    BY <1>2, <1>4, QuietKeepsRows, QuietKeepsSuccess DEF QuietStep
  <1>5. ASSUME NEW s \in Slots, ExecuteDelivery(s)
        PROVE  RowsInv' /\ SuccessKept
    BY <1>2, <1>5, ExecuteKeepsRows, QuietKeepsSuccess DEF ExecuteDelivery, rows
  <1> QED BY <1>2, <1>3, <1>4, <1>5, CreateKeepsRows, UpdateKeepsRows

LEMMA RowsInitially ==
    ASSUME Init
    PROVE  RowsInv
  <1>1. \A s \in Slots : work[s].pc = "idle"
    BY RestingTyped DEF Init
  <1>2. \A o \in Orders : prints[o] = <<>> /\ status[o] # "DELIVERED"
    <2>1. \A o \in Orders : prints[o] = <<>>
      BY DEF Init
    <2>2. status \in [Orders -> {"PENDING", "PAID", "PROCESSING"}]
      BY DEF Init
    <2> QED BY <2>1, <2>2
  <1> QED BY <1>1, <1>2, TypesInitially
          DEF RowsInv, Executing, RowsApart, RowsUnique, Recorded, At, DeliveredWasExecuted

LEMMA RowsInvariant == Spec => []RowsInv
  <1>1. RowsInv /\ [Next]_vars => RowsInv'
    BY NextKeepsRows
  <1> QED BY <1>1, RowsInitially, PTL DEF Spec

\* The unique constraint on fingerprint rows keeps two slots from calling a
\* provider for one order at a time, even when locks lapse under live workers
\* and BullMQ hands one job out twice (OneExecutionAtATime).
THEOREM OneExecutionCorrect == Spec => []OneExecutionAtATime
  <1>1. RowsInv => OneExecutionAtATime
    <2> SUFFICES ASSUME RowsInv, NEW s \in Slots, NEW t \in Slots, Executing(s), Executing(t),
                        Ord(s) = Ord(t), Job(s).provider = Job(t).provider
                 PROVE  s = t
      BY DEF OneExecutionAtATime, Delivering, Executing
    <2>1. RowMine(s) /\ RowMine(t) /\ Ord(s) \in Orders
      BY WorkTyped DEF RowsInv, Executing, At
    <2>2. work[s].row = work[t].row
      BY <2>1 DEF RowsInv, RowsUnique, RowMine, Row
    <2> QED BY <2>2 DEF RowsInv, RowsApart
  <1> QED BY <1>1, RowsInvariant, PTL

\* An order is DELIVERED only when an execution for it is recorded as a
\* success, whoever wrote its status in between (DeliveredWasExecuted).
THEOREM DeliveredCorrect == Spec => []DeliveredWasExecuted
  <1>1. RowsInv => DeliveredWasExecuted
    BY DEF RowsInv
  <1> QED BY <1>1, RowsInvariant, PTL
-----------------------------------------------------------------------------
(* One worker per order, while the heartbeats go on.                       *)

Region(s) == IF work[s].pc \notin Locked THEN "outside"
             ELSE IF work[s].pc = "delete" THEN "deleting" ELSE "inside"

\* One key is not two slots'.
LEMMA KeyIsOnes ==
    ASSUME KeysInv, NEW s \in Slots, NEW t \in Slots, work[s].pc \in Locked,
           work[t].pc \in Locked, Ord(s) = Ord(t)
    PROVE  s = t
  BY DEF KeysInv, KeyMine

LEMMA LockedIsBusy ==
    \A pc \in Locked : pc # "idle"
  BY DEF Locked, DeliverySteps

LEMMA RegionsKeep ==
    ASSUME KeysInv, StepTypes, PipelineTypes', UNCHANGED lockVars,
           \A s \in Slots : Region(s)' = Region(s)
    PROVE  KeysInv'
  <1>1. ASSUME NEW s \in Slots
        PROVE  (work'[s].pc \in Locked => KeyMine(s)') /\ TimerRight(s)'
    <2>1. /\ lock' = lock /\ session' = session
          /\ work'[s].pc \in Locked <=> work[s].pc \in Locked
          /\ work'[s].pc = "delete" <=> work[s].pc = "delete"
      BY <1>1 DEF Region, lockVars, Locked
    <2>2. work[s].pc \in Locked => Ord(s)' = Ord(s)
      BY <2>1, BusyKeeps, LockedIsBusy DEF KeysInv, At
    <2> QED BY <2>1, <2>2 DEF KeysInv, KeyMine, TimerRight, At
  <1> QED BY <1>1 DEF KeysInv

\* A step of one slot to a point of its region.
LEMMA MovesInRegion ==
    ASSUME PipelineTypes, NEW s \in Slots, NEW new, work' = [work EXCEPT ![s] = new],
           new.pc \in Locked <=> work[s].pc \in Locked,
           new.pc # "delete", ~At(s, "delete")
    PROVE  \A t \in Slots : Region(t)' = Region(t)
  BY DEF PipelineTypes, Region, At

LEMMA OutsideStepKeepsKeys ==
    ASSUME KeysInv, StepTypes, PipelineTypes', NEW s \in Slots,
           \/ VerifyReadsOrder(s) \/ VerifyAsksBakong(s) \/ VerifyMarksPaid(s)
           \/ VerifyQueuesDelivery(s) \/ ExpireReadsOrder(s) \/ ExpireWritesById(s)
           \/ ReconcileReadsOrder(s) \/ ReconcileWritesById(s)
           \/ RetryReadsProduct(s) \/ Finish(s)
    PROVE  KeysInv'
  <1>1. PipelineTypes
    BY DEF KeysInv
  <1>2. UNCHANGED lockVars /\ work[s].pc \notin Locked
    BY DEF VerifyReadsOrder, VerifyAsksBakong, VerifyMarksPaid, VerifyQueuesDelivery,
       ExpireReadsOrder, ExpireWritesById, ReconcileReadsOrder, ReconcileWritesById,
       RetryReadsProduct, Finish, At, Locked, DeliverySteps
  <1>3. \/ \E pc \in {"verifyAsk", "verifyMark", "verifyQueue", "expireWrite",
                      "reconcileWrite", "lock"} : Goto(s, pc)
        \/ work' = [work EXCEPT ![s] = Resting]
    BY DEF VerifyReadsOrder, VerifyAsksBakong, VerifyMarksPaid, VerifyQueuesDelivery,
       ExpireReadsOrder, ExpireWritesById, ReconcileReadsOrder, ReconcileWritesById,
       RetryReadsProduct, Finish, EndJob
  <1>4. \E new : new.pc \notin Locked /\ work' = [work EXCEPT ![s] = new]
    <2>1. CASE work' = [work EXCEPT ![s] = Resting]
      BY <2>1, RestingTyped, LockedIsBusy
    <2>2. ASSUME NEW pc \in {"verifyAsk", "verifyMark", "verifyQueue", "expireWrite",
                             "reconcileWrite", "lock"}, Goto(s, pc)
          PROVE  \E new : new.pc \notin Locked /\ work' = [work EXCEPT ![s] = new]
      <3>1. [work[s] EXCEPT !.pc = pc].pc = pc
        BY <1>1 DEF PipelineTypes, WorkRecord
      <3>2. pc \notin Locked
        BY DEF Locked, DeliverySteps
      <3> QED BY <2>2, <3>1, <3>2 DEF Goto
    <2> QED BY <1>3, <2>1, <2>2
  <1>5. PICK new : new.pc \notin Locked /\ work' = [work EXCEPT ![s] = new]
    BY <1>4
  <1>6. "delete" \in Locked
    BY DEF Locked
  <1>7. \A t \in Slots : Region(t)' = Region(t)
    BY <1>1, <1>2, <1>5, <1>6, MovesInRegion DEF At
  <1> QED BY <1>2, <1>7, RegionsKeep

LEMMA InsideStepKeepsKeys ==
    ASSUME KeysInv, StepTypes, PipelineTypes', NEW s \in Slots,
           \/ ReadOrder(s) \/ FindExecution(s) \/ CreateExecution(s) \/ ExecuteDelivery(s)
           \/ UpdateExecutionResult(s) \/ MarkOutcome(s)
    PROVE  KeysInv'
  <1>1. PipelineTypes
    BY DEF KeysInv
  <1>2. UNCHANGED lockVars /\ work[s].pc \in DeliverySteps
    BY DEF ReadOrder, FindExecution, CreateExecution, ExecuteDelivery, UpdateExecutionResult,
       MarkOutcome, At, DeliverySteps
  <1>3. \E new : new.pc \in DeliverySteps \cup {"release"} /\ work' = [work EXCEPT ![s] = new]
    <2>2. {"find", "create", "call", "record", "mark", "release"} \subseteq DeliverySteps \cup {"release"}
      BY DEF DeliverySteps
    <2>3. work[s] \in WorkRecord
      BY <1>1 DEF PipelineTypes
    <2>4. ASSUME NEW ok, Release(s, ok)
          PROVE  \E new : new.pc = "release" /\ work' = [work EXCEPT ![s] = new]
      BY <2>4 DEF Release, Resting
    <2>5. CASE ReadOrder(s)
      <3>1. [work[s] EXCEPT !.pc = "find", !.seen = status[Ord(s)]].pc = "find"
        BY <2>3 DEF WorkRecord
      <3> QED BY <2>2, <2>4, <2>5, <3>1, Zenon DEF ReadOrder
    <2>6. CASE FindExecution(s)
      <3>1. [work[s] EXCEPT !.pc = "create"].pc = "create"
        BY <2>3 DEF WorkRecord
      <3> QED BY <2>2, <2>4, <2>6, <3>1, Zenon DEF FindExecution, Goto
    <2>7. CASE CreateExecution(s)
      <3>1. [work[s] EXCEPT !.pc = "call", !.row = Len(prints[Ord(s)]) + 1].pc = "call"
        BY <2>3 DEF WorkRecord
      <3> QED BY <2>2, <2>4, <2>7, <3>1, Zenon DEF CreateExecution, InsertExecution
    <2>8. CASE ExecuteDelivery(s)
      <3>1. PICK ok : work' = [work EXCEPT ![s].pc = "record", ![s].ok = ok]
        BY <2>8 DEF ExecuteDelivery
      <3>2. [work[s] EXCEPT !.pc = "record", !.ok = ok].pc = "record"
        BY <2>3 DEF WorkRecord
      <3> QED BY <2>2, <3>1, <3>2, Zenon
    <2>9. CASE UpdateExecutionResult(s)
      <3>1. [work[s] EXCEPT !.pc = "mark", !.row = 0].pc = "mark"
        BY <2>3 DEF WorkRecord
      <3>2. Release(s, FALSE) \/ work' = [work EXCEPT ![s].pc = "mark", ![s].row = 0]
        BY <2>9 DEF UpdateExecutionResult
      <3> QED BY <2>2, <2>4, <3>1, <3>2, Zenon
    <2>10. CASE MarkOutcome(s)
      <3>1. \E ok : Release(s, ok)
        BY <2>10 DEF MarkOutcome
      <3> QED BY <2>2, <2>4, <3>1
    <2> QED BY <2>5, <2>6, <2>7, <2>8, <2>9, <2>10
  <1>4. PICK new : new.pc \in DeliverySteps \cup {"release"} /\ work' = [work EXCEPT ![s] = new]
    BY <1>3
  <1>5. new.pc \in Locked /\ new.pc # "delete" /\ work[s].pc \in Locked /\ ~At(s, "delete")
    BY <1>2, <1>4 DEF Locked, DeliverySteps, At
  <1>6. \A t \in Slots : Region(t)' = Region(t)
    BY <1>1, <1>4, <1>5, MovesInRegion
  <1> QED BY <1>2, <1>6, RegionsKeep
\* What is said of a slot that a step of another one leaves alone.
SlotKeys(s) == (work[s].pc \in Locked => KeyMine(s)) /\ TimerRight(s)

LEMMA KeysAreSlots ==
    KeysInv <=> PipelineTypes /\ \A s \in Slots : SlotKeys(s)
  BY DEF KeysInv, SlotKeys

LEMMA OthersKeep ==
    ASSUME KeysInv, StepTypes, NEW t \in Slots, work'[t] = work[t], session'[t] = session[t],
           work[t].pc \in Locked => lock'[Ord(t)] = lock[Ord(t)]
    PROVE  SlotKeys(t)'
  <1>1. SlotKeys(t) /\ PipelineTypes
    BY DEF KeysInv, SlotKeys
  <1>2. work[t].pc \in Locked => Ord(t)' = Ord(t)
    BY <1>1, BusyKeeps, LockedIsBusy DEF At
  <1> QED BY <1>1, <1>2 DEF SlotKeys, KeyMine, TimerRight, At

LEMMA GetLockKeepsKeys ==
    ASSUME Ttl > 1, KeysInv, StepTypes, PipelineTypes', NEW s \in Slots, GetLock(s)
    PROVE  KeysInv'
  <1> DEFINE o == Ord(s)
  <1>1. PipelineTypes /\ At(s, "lock") /\ o \in Orders
    BY WorkTyped DEF KeysInv, GetLock, At
  <1>2. lock \in [Orders -> {Free} \cup KeyRecord] /\ session \in [Slots -> SessionRecord]
    BY <1>1, LockTyped DEF PipelineTypes
  <1>3. /\ lock[o] = Free /\ lock'[o] = Held(s) /\ \A q \in Orders \ {o} : lock'[q] = lock[q]
        /\ session'[s].beat = "on" /\ session'[s].due = session[s].due
        /\ \A t \in Slots \ {s} : session'[t] = session[t]
        /\ work'[s].pc = "read" /\ \A t \in Slots \ {s} : work'[t] = work[t]
    <2>1. /\ lock[o] = Free /\ lock'[o] = Held(s) /\ \A q \in Orders \ {o} : lock'[q] = lock[q]
      BY <1>1, <1>2 DEF GetLock, AcquireLock
    <2>2. /\ session'[s].beat = "on" /\ session'[s].due = session[s].due
          /\ \A t \in Slots \ {s} : session'[t] = session[t]
      BY <1>2 DEF GetLock, AcquireLock, SessionRecord
    <2>3. work'[s].pc = "read" /\ \A t \in Slots \ {s} : work'[t] = work[t]
      BY <1>1 DEF GetLock, Goto, PipelineTypes, WorkRecord
    <2> QED BY <2>1, <2>2, <2>3
  <1>4. ~session[s].due
    BY <1>1 DEF KeysInv, TimerRight, At, Locked, DeliverySteps
  <1>5. SlotKeys(s)'
    <2>1. o' = o
      BY <1>1, <1>3, BusyKeeps DEF At
    <2>2. Held(s).owner = Owner[s] /\ Held(s).token = s /\ Held(s).left > 1
      BY DEF Held
    <2> QED BY <1>3, <1>4, <2>1, <2>2 DEF SlotKeys, KeyMine, TimerRight, At, Locked, DeliverySteps
  <1>6. ASSUME NEW t \in Slots \ {s}
        PROVE  SlotKeys(t)'
    <2>1. ASSUME work[t].pc \in Locked
          PROVE  Ord(t) \in Orders \ {o}
      <3>1. lock[Ord(t)].token = t /\ Ord(t) \in Orders
        BY <1>1, <2>1, WorkTyped, LockedIsBusy DEF KeysInv, KeyMine, At
      <3>2. lock[Ord(t)] # Free
        BY <3>1, LockAssumption DEF Free
      <3> QED BY <1>3, <3>1, <3>2
    <2> QED BY <1>3, <2>1, OthersKeep
  <1> QED BY <1>5, <1>6 DEF KeysInv, SlotKeys

LEMMA GiveUpLockKeepsKeys ==
    ASSUME KeysInv, StepTypes, PipelineTypes', NEW s \in Slots, GiveUpLock(s)
    PROVE  KeysInv'
  <1>1. PipelineTypes /\ At(s, "lock") /\ UNCHANGED lock
    BY DEF KeysInv, GiveUpLock, LockBusy, AbandonLock
  <1>2. session \in [Slots -> SessionRecord]
    BY <1>1, LockTyped DEF PipelineTypes
  <1>3. session[s].beat = "off" /\ ~session[s].due
    BY <1>1 DEF KeysInv, TimerRight, At, Locked, DeliverySteps
  <1>4. /\ session'[s].beat = "off" /\ ~session'[s].due
        /\ \A t \in Slots \ {s} : session'[t] = session[t]
    <2>1. CASE LockBusy(s, Ord(s))
      BY <1>2, <1>3, <2>1 DEF LockBusy, SessionRecord
    <2>2. CASE AbandonLock(s, Ord(s))
      BY <1>2, <2>2 DEF AbandonLock, NoSession
    <2> QED BY <2>1, <2>2 DEF GiveUpLock
  <1>5. work'[s].pc \in {"idle", "lock"} /\ \A t \in Slots \ {s} : work'[t] = work[t]
    <2>1. UNCHANGED work \/ work' = [work EXCEPT ![s] = Resting]
      BY DEF GiveUpLock, EndJob
    <2> QED BY <1>1, <2>1, RestingTyped DEF PipelineTypes, At
  <1>6. SlotKeys(s)'
    BY <1>4, <1>5 DEF SlotKeys, TimerRight, At, Locked, DeliverySteps
  <1>7. \A t \in Slots \ {s} : SlotKeys(t)'
    BY <1>1, <1>4, <1>5, OthersKeep
  <1> QED BY <1>6, <1>7 DEF KeysInv, SlotKeys

\* The session still holds the key it is about to delete.
LEMMA ReleaseLockKeepsKeys ==
    ASSUME KeysInv, StepTypes, PipelineTypes', NEW s \in Slots, ReleaseLock(s)
    PROVE  KeysInv'
  <1>1. PipelineTypes /\ At(s, "release") /\ UNCHANGED lock
    BY DEF KeysInv, ReleaseLock, CloseSession
  <1>2. session \in [Slots -> SessionRecord]
    BY <1>1, LockTyped DEF PipelineTypes
  <1>3. SlotKeys(s) /\ work[s].pc \in Locked /\ StillHolds(s, Ord(s))
    BY <1>1 DEF KeysInv, SlotKeys, KeyMine, StillHolds, At, Locked
  <1>4. /\ session'[s].beat = "closing" /\ ~session'[s].due
        /\ \A t \in Slots \ {s} : session'[t] = session[t]
    BY <1>2, <1>3 DEF ReleaseLock, CloseSession, NoSession
  <1>5. work'[s].pc = "delete" /\ \A t \in Slots \ {s} : work'[t] = work[t]
    BY <1>1, <1>3 DEF ReleaseLock, Goto, PipelineTypes, WorkRecord
  <1>6. SlotKeys(s)'
    <2>1. Ord(s)' = Ord(s)
      BY <1>1, <1>5, BusyKeeps DEF At
    <2> QED BY <1>1, <1>3, <1>4, <1>5, <2>1 DEF SlotKeys, KeyMine, TimerRight, At, Locked
  <1>7. \A t \in Slots \ {s} : SlotKeys(t)'
    BY <1>1, <1>4, <1>5, OthersKeep
  <1> QED BY <1>6, <1>7 DEF KeysInv, SlotKeys

LEMMA DeleteKeyKeepsKeys ==
    ASSUME KeysInv, StepTypes, PipelineTypes', NEW s \in Slots, DeleteKey(s)
    PROVE  KeysInv'
  <1> DEFINE o == Ord(s)
  <1>1. PipelineTypes /\ At(s, "delete") /\ work[s].pc \in Locked /\ o \in Orders
    BY WorkTyped DEF KeysInv, DeleteKey, At, Locked
  <1>2. lock \in [Orders -> {Free} \cup KeyRecord] /\ session \in [Slots -> SessionRecord]
    BY <1>1, LockTyped DEF PipelineTypes
  <1>3. /\ \A q \in Orders \ {o} : lock'[q] = lock[q]
        /\ session'[s].beat = "off" /\ ~session'[s].due
        /\ \A t \in Slots \ {s} : session'[t] = session[t]
    BY <1>2 DEF DeleteKey, DeleteLock, NoSession
  <1>4. work'[s].pc = "finish" /\ \A t \in Slots \ {s} : work'[t] = work[t]
    BY <1>1 DEF DeleteKey, Goto, PipelineTypes, WorkRecord
  <1>5. SlotKeys(s)'
    BY <1>3, <1>4 DEF SlotKeys, TimerRight, At, Locked, DeliverySteps
  <1>6. ASSUME NEW t \in Slots \ {s}
        PROVE  SlotKeys(t)'
    <2>1. work[t].pc \in Locked => Ord(t) \in Orders \ {o}
      BY <1>1, WorkTyped, KeyIsOnes, LockedIsBusy DEF At
    <2> QED BY <1>3, <1>4, <2>1, OthersKeep
  <1> QED BY <1>5, <1>6 DEF KeysInv, SlotKeys
LEMMA HeartbeatKeepsKeys ==
    ASSUME Ttl > 1, KeysInv, StepTypes, PipelineTypes', NEW s \in Slots, Heartbeat(s)
    PROVE  KeysInv'
  <1> DEFINE o == Ord(s)
  <1>1. PipelineTypes /\ UNCHANGED work /\ o \in Orders
    BY WorkTyped DEF KeysInv, Heartbeat
  <1>2. lock \in [Orders -> {Free} \cup KeyRecord] /\ session \in [Slots -> SessionRecord]
    BY <1>1, LockTyped DEF PipelineTypes
  <1>3. work[s].pc \in Locked /\ ~At(s, "delete") /\ KeyMine(s) /\ TimerRight(s)
    <2>1. session[s].beat \in {"on", "renew"} /\ TimerRight(s)
      BY DEF Heartbeat, HeartbeatReads, HeartbeatRenews, KeysInv
    <2> QED BY <2>1 DEF TimerRight, KeysInv
  <1>4. ASSUME NEW t \in Slots \ {s}, work[t].pc \in Locked
        PROVE  Ord(t) \in Orders \ {o}
    BY <1>1, <1>3, <1>4, WorkTyped, KeyIsOnes, LockedIsBusy DEF At
  <1>5. o' = o
    BY <1>1, <1>3, BusyKeeps, LockedIsBusy DEF At
  <1>6. CASE HeartbeatReads(s, o)
    <2>1. /\ session'[s].beat = "renew" /\ ~session'[s].due /\ UNCHANGED lock
          /\ \A t \in Slots \ {s} : session'[t] = session[t]
      BY <1>2, <1>3, <1>6 DEF HeartbeatReads, KeyMine, SessionRecord
    <2>2. SlotKeys(s)'
      BY <1>1, <1>3, <1>5, <2>1 DEF SlotKeys, KeyMine, TimerRight, At
    <2> QED BY <1>1, <2>1, <2>2, OthersKeep DEF KeysInv, SlotKeys
  <1>7. CASE HeartbeatRenews(s, o)
    <2>1. /\ session'[s].beat = "on" /\ session'[s].due = session[s].due
          /\ \A t \in Slots \ {s} : session'[t] = session[t]
      BY <1>2, <1>7 DEF HeartbeatRenews, SessionRecord
    <2>2. lock[o] \in KeyRecord /\ lock[o] # Free
      BY <1>1, <1>2, <1>3, LockAssumption DEF KeyMine, Free
    <2>3. /\ lock'[o].owner = lock[o].owner /\ lock'[o].token = lock[o].token
          /\ lock'[o].left = Ttl /\ \A q \in Orders \ {o} : lock'[q] = lock[q]
      BY <1>1, <1>2, <1>7, <2>2 DEF HeartbeatRenews, KeyRecord
    <2>4. SlotKeys(s)'
      <3>1. ~session[s].due
        BY <1>3, <1>7 DEF TimerRight, HeartbeatRenews
      <3> QED BY <1>1, <1>3, <1>5, <2>1, <2>3, <3>1 DEF SlotKeys, KeyMine, TimerRight, At
    <2>5. \A t \in Slots \ {s} : SlotKeys(t)'
      BY <1>1, <1>4, <2>1, <2>3, OthersKeep
    <2> QED BY <2>4, <2>5 DEF KeysInv, SlotKeys
  <1> QED BY <1>6, <1>7 DEF Heartbeat

\* No key of a live session lapses: since its last tick its timer has fired.
LEMMA TickKeepsKeys ==
    ASSUME ~MayStall, KeysInv, StepTypes, PipelineTypes', TimePasses
    PROVE  KeysInv'
  <1>1. PipelineTypes /\ UNCHANGED work /\ Tick
    BY DEF KeysInv, TimePasses
  <1>2. lock \in [Orders -> {Free} \cup KeyRecord] /\ session \in [Slots -> SessionRecord]
    BY <1>1, LockTyped DEF PipelineTypes
  <1>3. ASSUME NEW s \in Slots
        PROVE  SlotKeys(s)'
    <2>1. session[s].beat \in {"on", "off"} /\ ~session[s].due /\ SlotKeys(s)
      BY <1>1 DEF Tick, KeysInv, SlotKeys
    <2>2. session'[s].beat = session[s].beat /\ session'[s].due = (session[s].beat = "on")
      <3> DEFINE due == session[s].beat = "on" /\ ~MayStall
      <3>1. session'[s] = [session[s] EXCEPT !.due = due]
        BY <1>1 DEF Tick
      <3>2. due = (session[s].beat = "on")
        OBVIOUS
      <3> HIDE DEF due
      <3>3. session'[s].beat = session[s].beat /\ session'[s].due = due
        BY <1>2, <3>1 DEF SessionRecord
      <3> QED BY <3>2, <3>3
    <2>3. ASSUME work[s].pc \in Locked
          PROVE  KeyMine(s)'
      <3>1. Ord(s) \in Orders /\ Ord(s)' = Ord(s)
        BY <1>1, <2>3, BusyKeeps, WorkTyped, LockedIsBusy DEF At
      <3>2. session[s].beat = "on" /\ KeyMine(s) /\ lock[Ord(s)].left > 1
        BY <2>1, <2>3 DEF SlotKeys, TimerRight, KeyMine, At
      <3>3. lock[Ord(s)].left \in Nat /\ lock[Ord(s)] \in KeyRecord
        BY <1>1, <1>2, <3>1, <3>2, KeyTyped, LockAssumption DEF PipelineTypes, Free
      <3> DEFINE left == lock[Ord(s)].left - 1
      <3>4. lock'[Ord(s)] = [lock[Ord(s)] EXCEPT !.left = left]
        BY <1>1, <3>1, <3>2, <3>3 DEF Tick
      <3>5. /\ lock'[Ord(s)].owner = lock[Ord(s)].owner
            /\ lock'[Ord(s)].token = lock[Ord(s)].token
        BY <3>3, <3>4 DEF KeyRecord
      <3> QED BY <2>2, <3>1, <3>2, <3>5 DEF KeyMine
    <2> QED BY <1>1, <2>1, <2>2, <2>3 DEF SlotKeys, TimerRight, At
  <1> QED BY <1>3 DEF KeysInv, SlotKeys

LEMMA CrashKeepsKeys ==
    ASSUME KeysInv, StepTypes, PipelineTypes', NEW p \in Processes, Crash(p)
    PROVE  KeysInv'
  <1> DEFINE dead == {s \in Slots : Owner[s] = p}
  <1>1. PipelineTypes /\ ForgetSessions(dead)
        /\ work' = [s \in Slots |-> IF s \in dead THEN Resting ELSE work[s]]
    BY DEF KeysInv, Crash
  <1>2. ASSUME NEW s \in dead
        PROVE  SlotKeys(s)'
    <2>1. work'[s].pc = "idle" /\ session'[s] = NoSession
      BY <1>1, RestingTyped DEF ForgetSessions
    <2> QED BY <2>1, LockedIsBusy DEF SlotKeys, TimerRight, NoSession
  <1>3. ASSUME NEW s \in Slots \ dead
        PROVE  SlotKeys(s)'
    <2>1. work'[s] = work[s] /\ session'[s] = session[s]
      BY <1>1 DEF ForgetSessions
    <2>2. ASSUME work[s].pc \in Locked
          PROVE  lock'[Ord(s)] = lock[Ord(s)]
      <3>1. lock[Ord(s)].token = s /\ Ord(s) \in Orders
        BY <1>1, <2>2, WorkTyped, LockedIsBusy DEF KeysInv, KeyMine, At
      <3> QED BY <1>1, <3>1 DEF ForgetSessions
    <2> QED BY <2>1, <2>2, OthersKeep
  <1> QED BY <1>2, <1>3 DEF KeysInv, SlotKeys

LEMMA TakeJobKeepsKeys ==
    ASSUME KeysInv, StepTypes, PipelineTypes', NEW s \in Slots, NEW j \in Jobs, TakeJob(s, j)
    PROVE  KeysInv'
  <1> DEFINE pc == FirstCall[jobs[j].kind]
             new == [Resting EXCEPT !.pc = pc, !.job = j]
  <1>1. PipelineTypes /\ At(s, "idle") /\ work' = [work EXCEPT ![s] = new] /\ UNCHANGED lockVars
    BY DEF KeysInv, TakeJob
  <1>2. pc \notin Locked
    <2>1. jobs[j].kind \in Queues
      BY <1>1, UsedIsRecord DEF TakeJob, JobRecord
    <2> QED BY <2>1 DEF FirstCall, Queues, Locked, DeliverySteps
  <1>3. new.pc = pc /\ "delete" \in Locked /\ work[s].pc \notin Locked
    BY <1>1, LockedIsBusy DEF Resting, Locked, At
  <1> HIDE DEF pc, new
  <1>4. \A t \in Slots : Region(t)' = Region(t)
    BY <1>1, <1>2, <1>3, MovesInRegion DEF At
  <1> QED BY <1>1, <1>4, RegionsKeep

LEMMA NextKeepsKeys ==
    ASSUME ~MayStall, Ttl > 1, KeysInv, [Next]_vars
    PROVE  KeysInv'
  <1>1. PipelineTypes' /\ StepTypes
    BY NextKeepsTypes DEF KeysInv
  <1>2. ASSUME NEW s \in Slots, Step(s)
        PROVE  KeysInv'
    BY <1>1, <1>2, OutsideStepKeepsKeys, InsideStepKeepsKeys, GetLockKeepsKeys,
       GiveUpLockKeepsKeys, ReleaseLockKeepsKeys, DeleteKeyKeepsKeys DEF Step
  <1>3. ASSUME \/ \E o \in Orders : StartedElsewhere(o)
               \/ \E j \in Jobs : JobStalls(j)
               \/ UNCHANGED vars
        PROVE  KeysInv'
    <2>1. UNCHANGED lockVars /\ UNCHANGED work
      BY <1>3 DEF StartedElsewhere, JobStalls, vars
    <2>2. \A s \in Slots : Region(s)' = Region(s)
      BY <2>1 DEF Region
    <2> QED BY <1>1, <2>1, <2>2, RegionsKeep
  <1> QED BY <1>1, <1>2, <1>3, HeartbeatKeepsKeys, TickKeepsKeys, CrashKeepsKeys,
             TakeJobKeepsKeys DEF Next

LEMMA KeysInitially ==
    ASSUME Init
    PROVE  KeysInv
  <1>1. \A s \in Slots : work[s].pc = "idle"
    BY RestingTyped DEF Init
  <1>2. \A s \in Slots : session[s] = NoSession
    BY DEF Init, LockInit
  <1> QED BY <1>1, <1>2, TypesInitially, LockedIsBusy DEF KeysInv, TimerRight, NoSession

\* While processes keep their heartbeats, crashes included, and the key lives
\* for two intervals at least (three in the code), no two slots are inside the
\* locked part for one order (OneWorkerPerOrder).
THEOREM OneWorkerCorrect ==
    ASSUME ~MayStall, Ttl > 1
    PROVE  Spec => []OneWorkerPerOrder
  <1>1. KeysInv /\ [Next]_vars => KeysInv'
    BY NextKeepsKeys
  <1>2. KeysInv => OneWorkerPerOrder
    BY KeyIsOnes DEF OneWorkerPerOrder, Delivering, Locked
  <1> QED BY <1>1, <1>2, KeysInitially, PTL DEF Spec

-----------------------------------------------------------------------------
(* No execution after a success.                                           *)

\* Who looked for a success and found none is not overtaken by one.
LEMMA NextKeepsOnce ==
    ASSUME ~MayStall, Ttl > 1, OnceInv, [Next]_vars
    PROVE  OnceInv'
  <1> DEFINE Late(s) == work[s].pc \in {"create", "call", "record"}
             Undelivered(s) == ~HasRow(Ord(s), Job(s).provider, {"SUCCESS"})
  <1>1. RowsInv /\ KeysInv /\ PipelineTypes /\ \A s \in Slots : Late(s) => Undelivered(s)
    BY DEF OnceInv, KeysInv
  <1>2. RowsInv' /\ KeysInv' /\ StepTypes
    BY <1>1, NextKeepsRows, NextKeepsKeys, NextKeepsTypes
  <1>3. \/ QuietStep
        \/ \E s \in Slots : CreateExecution(s) \/ ExecuteDelivery(s) \/ UpdateExecutionResult(s)
    BY <1>1, QuietSlotStep, QuietWorldStep DEF Next
  <1>4. ASSUME NEW t \in Slots, Late(t)', ~At(t, "idle"), Undelivered(t),
               prints'[Ord(t)] = prints[Ord(t)]
        PROVE  Undelivered(t)'
    <2>1. Ord(t)' = Ord(t) /\ Job(t).provider' = Job(t).provider
      BY <1>1, <1>2, <1>4, BusyKeeps DEF At
    <2> QED BY <1>4, <2>1 DEF HasRow
  <1>5. ASSUME NEW t \in Slots, Late(t)', QuietStep
        PROVE  Undelivered(t)'
    <2>1. ~At(t, "idle") /\ Undelivered(t) /\ UNCHANGED prints
      BY <1>1, <1>5 DEF QuietStep, At
    <2> QED BY <1>4, <1>5, <2>1
  <1>6. ASSUME NEW s \in Slots, NEW t \in Slots, ExecuteDelivery(s), Late(t)'
        PROVE  Undelivered(t)'
    <2>1. UNCHANGED prints /\ Late(s) /\ \A u \in Slots \ {s} : work'[u] = work[u]
      BY <1>1, <1>6 DEF ExecuteDelivery, rows, PipelineTypes, At
    <2> QED BY <1>1, <1>4, <1>6, <2>1 DEF At
  <1>7. ASSUME NEW s \in Slots, NEW t \in Slots, CreateExecution(s), Late(t)'
        PROVE  Undelivered(t)'
    <2> DEFINE o == Ord(s)
               row == [provider |-> Job(s).provider, status |-> "EXECUTING"]
    <2>1. /\ At(s, "create") /\ o \in Orders /\ prints[o] \in Seq(FingerprintRow)
          /\ row \in FingerprintRow
      BY <1>1, <1>7, WorkTyped DEF CreateExecution, At, PipelineTypes, FingerprintRow
    <2>2. \/ UNCHANGED prints
          \/ prints' = [prints EXCEPT ![o] = Append(prints[o], row)]
      BY <1>7 DEF CreateExecution, InsertExecution
    <2>3. \A u \in Slots \ {s} : work'[u] = work[u]
      BY <1>1, <1>7 DEF CreateExecution, InsertExecution, Release, PipelineTypes
    <2>4. Late(t) /\ Undelivered(t) /\ ~At(t, "idle") /\ Ord(t) \in Orders
      BY <1>1, <1>7, <2>1, <2>3, WorkTyped DEF At
    <2>5. Ord(t)' = Ord(t) /\ Job(t).provider' = Job(t).provider
      BY <1>1, <1>2, <1>7, <2>4, BusyKeeps DEF At
    <2>6. CASE Ord(t) # o \/ UNCHANGED prints
      <3>1. prints'[Ord(t)] = prints[Ord(t)]
        BY <1>1, <2>2, <2>4, <2>6 DEF PipelineTypes
      <3> QED BY <1>4, <1>7, <2>4, <3>1
    <2>7. CASE Ord(t) = o /\ prints' = [prints EXCEPT ![o] = Append(prints[o], row)]
      <3>1. prints'[o] = Append(prints[o], row)
        BY <1>1, <2>1, <2>7 DEF PipelineTypes
      <3>2. row.status # "SUCCESS"
        OBVIOUS
      <3> HIDE DEF row
      <3>3. \A i \in DOMAIN prints'[o] : prints'[o][i] = row \/
              (i \in DOMAIN prints[o] /\ prints'[o][i] = prints[o][i])
        BY <2>1, <3>1, RowAppended
      <3> QED BY <2>4, <2>5, <2>7, <3>2, <3>3 DEF HasRow
    <2> QED BY <2>2, <2>6, <2>7
  <1>8. ASSUME NEW s \in Slots, NEW t \in Slots, UpdateExecutionResult(s), Late(t)'
        PROVE  Undelivered(t)'
    <2>1. /\ \A q \in Orders \ {Ord(s)} : prints'[q] = prints[q]
          /\ work'[s].pc \in {"mark", "release"} /\ \A u \in Slots \ {s} : work'[u] = work[u]
      BY <1>2, <1>8, <1>1, UpdateKeepsRows DEF RowsInv
    <2>2. t # s /\ Late(t) /\ Undelivered(t) /\ ~At(t, "idle") /\ Ord(t) \in Orders
      BY <1>1, <1>8, <2>1, WorkTyped DEF At
    <2>3. Ord(t) # Ord(s)
      BY <1>1, <1>8, <2>2, KeyIsOnes DEF UpdateExecutionResult, At, Locked, DeliverySteps
    <2> QED BY <1>4, <1>8, <2>1, <2>2, <2>3
  <1>9. \A t \in Slots : Late(t)' => Undelivered(t)'
    BY <1>3, <1>5, <1>6, <1>7, <1>8
  <1> QED BY <1>2, <1>9 DEF OnceInv

\* While processes keep their heartbeats, crashes included, a provider is not
\* called again for an order it delivered (NoExecutionAfterSuccess).
THEOREM OnceCorrect ==
    ASSUME ~MayStall, Ttl > 1
    PROVE  Spec => []NoExecutionAfterSuccess
  <1>1. Init => OnceInv
    <2>1. Init => \A s \in Slots : work[s].pc = "idle"
      BY RestingTyped DEF Init
    <2> QED BY <2>1, RowsInitially, KeysInitially DEF OnceInv
  <1>2. OnceInv /\ [Next]_vars => OnceInv'
    BY NextKeepsOnce
  <1>3. OnceInv => NoExecutionAfterSuccess
    BY DEF OnceInv, NoExecutionAfterSuccess, At
  <1> QED BY <1>1, <1>2, <1>3, PTL DEF Spec
=============================================================================
