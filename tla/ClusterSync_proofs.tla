-------------------------- MODULE ClusterSync_proofs --------------------------
(***************************************************************************)
(* Proofs about ClusterSync, for any number of replicas and admin requests *)
(* and any order of the parts.                                             *)
(***************************************************************************)
EXTENDS ClusterSync, SequenceTheorems, TLAPS

LEMMA FirstPart == Order[1] \in Parts /\ Len(Order) \in Nat /\ 1 \in 1 .. Len(Order)
<1>1. Len(Order) \in Nat /\ Len(Order) >= 1
  BY ClusterSyncAssumption, EmptySeq, LenProperties
<1> QED BY <1>1 DEF Parts

LEMMA PartsOfTheOrder == \A i \in 1 .. Len(Order) : Order[i] \in Parts
BY DEF Parts

LEMMA IdleIsAJob == Idle \in Jobs /\ Idle.pc = "idle"
BY FirstPart DEF Idle, Jobs

-----------------------------------------------------------------------------
(* Types, and the mutex: exactly the task that holds it loads. *)

Edits == [node : Nodes \cup {NoNode}, part : Parts, version : Nat, ticket : Nat, synced : BOOLEAN]

Holds(n, t) == job[n][t].pc \in {"reading", "installing"}

Typed ==
    /\ db \in [Parts -> Nat]
    /\ node \in [Nodes -> {"down", "starting", "up"}]
    /\ mem \in [Nodes -> [Parts -> Nat]]
    /\ lock \in [Nodes -> Tasks \cup {NoTask}]
    /\ job \in [Nodes -> [Tasks -> Jobs]]
    /\ edit \in [Handlers -> Edits]
    /\ version \in Nat
    /\ active \in [Nodes -> BOOLEAN]
    /\ subscribed \in [Nodes -> BOOLEAN]
    /\ local \in [Nodes -> Nat]
    /\ inbox \in [Nodes -> Nat]
    /\ first \in [Nodes -> Nat]
    /\ missed \in [Nodes -> BOOLEAN]
    /\ faults \in 0 .. MaxFaults

Mutex == \A n \in Nodes, t \in Tasks : Holds(n, t) <=> lock[n] = t

LEMMA TypeOKIs == TypeOK <=> Typed /\ Mutex
BY DEF TypeOK, Typed, Mutex, Holds, Edits

LEMMA InitOK == Init => TypeOK
<1> SUFFICES ASSUME Init PROVE TypeOK
  OBVIOUS
<1>1. NoEdit \in Edits
  BY FirstPart DEF NoEdit, Edits
<1>2. Typed
  <2>1. db \in [Parts -> Nat] /\ Nothing \in [Parts -> Nat]
    BY DEF Init, Nothing, CutShort
  <2>2. mem \in [Nodes -> [Parts -> Nat]]
    BY <2>1 DEF Init
  <2>3. node \in [Nodes -> {"down", "starting", "up"}] /\ active \in [Nodes -> BOOLEAN]
    BY ClusterSyncAssumption DEF Init
  <2>4. lock \in [Nodes -> Tasks \cup {NoTask}] /\ job \in [Nodes -> [Tasks -> Jobs]]
    BY IdleIsAJob DEF Init
  <2>5. edit \in [Handlers -> Edits]
    BY <1>1 DEF Init
  <2>6. /\ version \in Nat /\ subscribed \in [Nodes -> BOOLEAN] /\ local \in [Nodes -> Nat]
        /\ inbox \in [Nodes -> Nat] /\ first \in [Nodes -> Nat] /\ missed \in [Nodes -> BOOLEAN]
        /\ faults \in 0 .. MaxFaults
    BY <2>3, ClusterSyncAssumption DEF Init
  <2> QED BY <2>1, <2>2, <2>3, <2>4, <2>5, <2>6 DEF Typed
<1>3. Mutex
  BY IdleIsAJob, ClusterSyncAssumption DEF Init, Mutex, Holds, Tasks
<1> QED BY <1>2, <1>3, TypeOKIs

\* A task that neither took nor holds the mutex moves: the mutex is as it was.
LEMMA MutexKept ==
    ASSUME TypeOK, NEW n \in Nodes, NEW t \in Tasks, NEW j \in Jobs,
           job' = [job EXCEPT ![n][t] = j], lock' = lock,
           Holds(n, t) <=> j.pc \in {"reading", "installing"}
    PROVE  Mutex'
BY DEF TypeOK, Mutex, Holds

\* Taken and released.
LEMMA MutexTaken ==
    ASSUME TypeOK, NEW n \in Nodes, NEW t \in Tasks, NEW j \in Jobs, lock[n] = NoTask,
           job' = [job EXCEPT ![n][t] = j], lock' = [lock EXCEPT ![n] = t], j.pc = "reading"
    PROVE  Mutex'
BY ClusterSyncAssumption DEF TypeOK, Mutex, Holds, Tasks

LEMMA MutexReleased ==
    ASSUME TypeOK, NEW n \in Nodes, NEW t \in Tasks, NEW j \in Jobs, Holds(n, t),
           job' = [job EXCEPT ![n][t] = j], lock' = [lock EXCEPT ![n] = NoTask],
           j.pc \notin {"reading", "installing"}
    PROVE  Mutex'
BY ClusterSyncAssumption DEF TypeOK, Mutex, Holds, Tasks

WaitingJob == [Idle EXCEPT !.pc = "waiting"]
FirstRead == [Idle EXCEPT !.pc = "reading"]
ReadingJob(i) == [Idle EXCEPT !.pc = "reading", !.at = i]
DoneJob(t) == IF t \in Handlers THEN [Idle EXCEPT !.pc = "increment"] ELSE Idle

LEMMA NewJobs ==
    /\ WaitingJob \in Jobs /\ WaitingJob.pc = "waiting"
    /\ \A i \in 1 .. Len(Order) : ReadingJob(i) \in Jobs /\ ReadingJob(i).pc = "reading" /\ ReadingJob(i).at = i
    /\ \A t : DoneJob(t) \in Jobs /\ DoneJob(t).pc = (IF t \in Handlers THEN "increment" ELSE "idle")
    /\ FirstRead \in Jobs /\ FirstRead.pc = "reading" /\ FirstRead.at = 1
<1>1. WaitingJob \in Jobs /\ WaitingJob.pc = "waiting"
  BY FirstPart DEF Idle, Jobs, WaitingJob
<1>2. ASSUME NEW i \in 1 .. Len(Order)
      PROVE  ReadingJob(i) \in Jobs /\ ReadingJob(i).pc = "reading" /\ ReadingJob(i).at = i
  BY FirstPart DEF Idle, Jobs, ReadingJob
<1>3. ASSUME NEW t
      PROVE  DoneJob(t) \in Jobs /\ DoneJob(t).pc = (IF t \in Handlers THEN "increment" ELSE "idle")
  <2>1. [Idle EXCEPT !.pc = "increment"] \in Jobs /\ [Idle EXCEPT !.pc = "increment"].pc = "increment"
    BY FirstPart DEF Idle, Jobs
  <2> QED BY <2>1, IdleIsAJob DEF DoneJob
<1>4. FirstRead \in Jobs /\ FirstRead.pc = "reading" /\ FirstRead.at = 1
  BY FirstPart DEF Idle, Jobs, FirstRead
<1> QED BY <1>1, <1>2, <1>3, <1>4

BrokenRead(n, t) == [job[n][t] EXCEPT !.pc = "installing", !.held = CutShort]
PricesRead(v) == [Idle EXCEPT !.pc = "repricing", !.held = v]

LEMMA BrokenReadIs ==
    ASSUME TypeOK, NEW n \in Nodes, NEW t \in Tasks
    PROVE  /\ BrokenRead(n, t) \in Jobs /\ BrokenRead(n, t).pc = "installing"
           /\ BrokenRead(n, t).at = job[n][t].at /\ BrokenRead(n, t).held = 0
<1>1. job[n][t] \in Jobs
  BY DEF TypeOK
<1> QED BY <1>1 DEF BrokenRead, Jobs, CutShort

LEMMA HandlerJobs ==
    /\ \A p : AfterWrite(p) \in Jobs /\ AfterWrite(p).pc \in {"pricing", "waiting"}
    /\ \A v \in Nat : PricesRead(v) \in Jobs /\ PricesRead(v).pc = "repricing"
<1>1. ASSUME NEW p PROVE AfterWrite(p) \in Jobs /\ AfterWrite(p).pc \in {"pricing", "waiting"}
  <2>1. /\ [Idle EXCEPT !.pc = "pricing"] \in Jobs /\ [Idle EXCEPT !.pc = "pricing"].pc = "pricing"
        /\ [Idle EXCEPT !.pc = "waiting"] \in Jobs /\ [Idle EXCEPT !.pc = "waiting"].pc = "waiting"
    BY FirstPart DEF Idle, Jobs
  <2> QED BY <2>1 DEF AfterWrite
<1>2. ASSUME NEW v \in Nat PROVE PricesRead(v) \in Jobs /\ PricesRead(v).pc = "repricing"
  BY FirstPart DEF Idle, Jobs, PricesRead
<1> QED BY <1>1, <1>2

\* A handler that loads the prices itself moves outside of the mutex, and
\* touches nothing but the prices.
Pricing(n) == \E h \in Handlers : ReadPrices(n, h) \/ InstallPrices(n, h)

LEMMA PricingMoves ==
    ASSUME TypeOK, NEW n \in Nodes, NEW h \in Handlers, ReadPrices(n, h) \/ InstallPrices(n, h)
    PROVE  /\ UNCHANGED <<db, node, lock, edit, redisVars>>
           /\ faults' \in 0 .. MaxFaults
           /\ mem' \in [Nodes -> [Parts -> Nat]]
           /\ \A m \in Nodes, p \in Guarded : mem'[m][p] = mem[m][p]
           /\ job[n][h].pc \in {"pricing", "repricing"}
           /\ \E j \in Jobs : job' = [job EXCEPT ![n][h] = j] /\ j.pc \in {"repricing", "waiting"}
<1>0. h \in Tasks /\ "prices" \in Parts /\ MaxFaults \in Nat
  BY ClusterSyncAssumption DEF Tasks
<1>1. CASE ReadPrices(n, h)
  <2>1. db["prices"] \in Nat /\ CutShort \in Nat
    BY <1>0 DEF TypeOK, CutShort
  <2>2. \/ job' = [job EXCEPT ![n][h] = PricesRead(db["prices"])]
        \/ job' = [job EXCEPT ![n][h] = PricesRead(CutShort)]
        \/ job' = [job EXCEPT ![n][h] = WaitingJob]
    BY <1>1 DEF ReadPrices, Become, Wait, PricesRead, WaitingJob
  <2>3. \E j \in Jobs : job' = [job EXCEPT ![n][h] = j] /\ j.pc \in {"repricing", "waiting"}
    BY <2>1, <2>2, NewJobs, HandlerJobs
  <2>4. faults' \in 0 .. MaxFaults
    BY <1>0, <1>1 DEF ReadPrices, Fault, TypeOK
  <2>5. UNCHANGED <<db, node, mem, lock, edit, redisVars>> /\ job[n][h].pc = "pricing"
    BY <1>1 DEF ReadPrices, At
  <2> QED BY <2>3, <2>4, <2>5 DEF TypeOK
<1>2. CASE InstallPrices(n, h)
  <2>1. job[n][h].held \in Nat
    BY <1>0 DEF TypeOK, Jobs
  <2>2. mem' = [mem EXCEPT ![n]["prices"] = job[n][h].held] /\ mem \in [Nodes -> [Parts -> Nat]]
    BY <1>2 DEF InstallPrices, TypeOK
  <2>3. mem' \in [Nodes -> [Parts -> Nat]]
    BY <1>0, <2>1, <2>2
  <2>4. \A m \in Nodes, p \in Guarded : mem'[m][p] = mem[m][p]
    BY <2>2 DEF Guarded
  <2>5. job' = [job EXCEPT ![n][h] = WaitingJob]
    BY <1>2 DEF InstallPrices, Wait, Become, WaitingJob
  <2>6. UNCHANGED <<db, node, lock, edit, redisVars, faults>> /\ job[n][h].pc = "repricing"
    BY <1>2 DEF InstallPrices, At
  <2> QED BY <2>3, <2>4, <2>5, <2>6, NewJobs DEF TypeOK
<1> QED BY <1>1, <1>2

LEMMA ReturnOK ==
    ASSUME TypeOK, NEW n \in Nodes, NEW t \in Tasks, NEW ok \in BOOLEAN, Return(n, t, ok)
    PROVE  /\ job' = [job EXCEPT ![n][t] = DoneJob(t)]
           /\ job' \in [Nodes -> [Tasks -> Jobs]]
           /\ edit' \in [Handlers -> Edits]
           /\ node' \in [Nodes -> {"down", "starting", "up"}]
           /\ missed' \in [Nodes -> BOOLEAN]
<1>1. job' = [job EXCEPT ![n][t] = DoneJob(t)]
  BY DEF Return, Become, DoneJob
<1>2. job' \in [Nodes -> [Tasks -> Jobs]]
  BY <1>1, NewJobs DEF TypeOK
<1>3. edit' \in [Handlers -> Edits]
  <2>1. CASE t \in Handlers
    <3>0. edit[t] \in Edits
      BY <2>1 DEF TypeOK, Edits
    <3>1. [edit[t] EXCEPT !.synced = ok] \in Edits
      BY <3>0 DEF Edits
    <3>2. edit' = [edit EXCEPT ![t] = [edit[t] EXCEPT !.synced = ok]]
      BY <2>1 DEF Return
    <3> QED BY <3>1, <3>2 DEF TypeOK, Edits
  <2>2. CASE t \notin Handlers
    BY <2>2 DEF Return, TypeOK, Edits
  <2> QED BY <2>1, <2>2
<1>4. node' \in [Nodes -> {"down", "starting", "up"}]
  BY DEF Return, TypeOK
<1>5. missed' \in [Nodes -> BOOLEAN]
  BY DEF Return, TypeOK
<1> QED BY <1>1, <1>2, <1>3, <1>4, <1>5

LEMMA UnlockOK ==
    ASSUME TypeOK, NEW n \in Nodes, NEW t \in Tasks, NEW ok \in BOOLEAN, Holds(n, t), Unlock(n, t, ok)
    PROVE  /\ Mutex'
           /\ lock' \in [Nodes -> Tasks \cup {NoTask}]
           /\ job' \in [Nodes -> [Tasks -> Jobs]]
           /\ edit' \in [Handlers -> Edits]
           /\ node' \in [Nodes -> {"down", "starting", "up"}]
           /\ missed' \in [Nodes -> BOOLEAN]
<1>1. Return(n, t, ok) /\ lock' = [lock EXCEPT ![n] = NoTask]
  BY DEF Unlock
<1>2. job' = [job EXCEPT ![n][t] = DoneJob(t)]
  BY <1>1, ReturnOK
<1>3. DoneJob(t) \in Jobs /\ DoneJob(t).pc \notin {"reading", "installing"}
  BY NewJobs
<1>4. Mutex'
  BY <1>1, <1>2, <1>3, MutexReleased
<1>5. lock' \in [Nodes -> Tasks \cup {NoTask}]
  BY <1>1 DEF TypeOK
<1> QED BY <1>1, <1>4, <1>5, ReturnOK

LEMMA AdvanceOK ==
    ASSUME TypeOK, NEW n \in Nodes, NEW t \in Tasks, Holds(n, t), Advance(n, t)
    PROVE  /\ Mutex'
           /\ lock' \in [Nodes -> Tasks \cup {NoTask}]
           /\ job' \in [Nodes -> [Tasks -> Jobs]]
           /\ edit' \in [Handlers -> Edits]
           /\ node' \in [Nodes -> {"down", "starting", "up"}]
           /\ missed' \in [Nodes -> BOOLEAN]
<1> DEFINE i == job[n][t].at + 1
<1>1. job[n][t].at \in 1 .. Len(Order)
  BY DEF TypeOK, Jobs
<1>2. CASE job[n][t].at < Len(Order)
  <2>1. i \in 1 .. Len(Order)
    BY <1>1, <1>2, FirstPart
  <2>2. ReadingJob(i) \in Jobs /\ ReadingJob(i).pc = "reading"
    BY <2>1, NewJobs
  <2>3. job' = [job EXCEPT ![n][t] = ReadingJob(i)] /\ UNCHANGED <<node, lock, edit, missed>>
    BY <1>2 DEF Advance, Become, ReadingJob
  <2>4. Mutex'
    BY <2>2, <2>3, MutexKept DEF Holds
  <2> QED BY <2>2, <2>3, <2>4 DEF TypeOK, Edits
<1>3. CASE ~(job[n][t].at < Len(Order))
  BY <1>3, UnlockOK DEF Advance
<1> QED BY <1>2, <1>3

LEMMA ReloadOK ==
    ASSUME TypeOK, NEW n \in Nodes, NEW t \in Tasks, ReloadFromDB(n, t)
    PROVE  TypeOK'
<1>1. CASE Lock(n, t)
  <2>1. job' = [job EXCEPT ![n][t] = FirstRead] /\ lock[n] = NoTask /\ lock' = [lock EXCEPT ![n] = t]
    BY <1>1 DEF Lock, Become, FirstRead
  <2>2. FirstRead \in Jobs /\ FirstRead.pc = "reading"
    BY NewJobs
  <2>3. Mutex'
    BY <2>1, <2>2, MutexTaken
  <2>4. Typed'
    BY <1>1, <2>1, <2>2 DEF Lock, TypeOK, Typed, Edits, redisVars
  <2> QED BY <2>3, <2>4 DEF TypeOK, Typed, Mutex, Holds, Edits
<1>2. CASE Query(n, t)
  <2> DEFINE j == [job[n][t] EXCEPT !.pc = "installing", !.held = db[Order[job[n][t].at]]]
  <2>0. job[n][t] \in Jobs /\ job[n][t].at \in 1 .. Len(Order)
    BY DEF TypeOK, Jobs
  <2>1. j \in Jobs /\ j.pc = "installing"
    <3>1. db[Order[job[n][t].at]] \in Nat
      BY <2>0, PartsOfTheOrder DEF TypeOK
    <3> QED BY <2>0, <3>1 DEF Jobs
  <2>2. job' = [job EXCEPT ![n][t] = j] /\ At(n, t, "reading") /\ lock' = lock
    BY <1>2 DEF Query, Become
  <2> HIDE DEF j
  <2>3. Mutex'
    BY <2>1, <2>2, MutexKept DEF At, Holds
  <2>4. Typed'
    BY <1>2, <2>1, <2>2 DEF Query, TypeOK, Typed, Edits, redisVars
  <2> QED BY <2>3, <2>4 DEF TypeOK, Typed, Mutex, Holds, Edits
<1>3. CASE Abort(n, t)
  <2>1. Holds(n, t) /\ Unlock(n, t, FALSE)
    BY <1>3 DEF Abort, QueryFails, At, Holds
  <2>2. mem' \in [Nodes -> [Parts -> Nat]]
    BY <1>3, FirstPart DEF Abort, TypeOK
  <2>3. faults' \in 0 .. MaxFaults
    BY <1>3, ClusterSyncAssumption DEF Abort, QueryFails, Fault, TypeOK
  <2>4. Typed'
    BY <1>3, <2>1, <2>2, <2>3, UnlockOK DEF Abort, TypeOK, Typed, Edits
  <2> QED BY <2>1, <2>4, UnlockOK DEF TypeOK, Typed, Mutex, Holds, Edits
<1>4. CASE SkipPart(n, t)
  <2>1. Holds(n, t) /\ Advance(n, t)
    BY <1>4 DEF SkipPart, QueryFails, At, Holds
  <2>2. faults' \in 0 .. MaxFaults
    BY <1>4, ClusterSyncAssumption DEF SkipPart, QueryFails, Fault, TypeOK
  <2>3. Typed'
    BY <1>4, <2>1, <2>2, AdvanceOK DEF SkipPart, TypeOK, Typed, Edits
  <2> QED BY <2>1, <2>3, AdvanceOK DEF TypeOK, Typed, Mutex, Holds, Edits
<1>5. CASE Install(n, t)
  <2>1. Holds(n, t) /\ Advance(n, t)
    BY <1>5 DEF Install, At, Holds
  <2>2. mem' \in [Nodes -> [Parts -> Nat]]
    BY <1>5, PartsOfTheOrder DEF Install, TypeOK, Jobs
  <2>3. Typed'
    BY <1>5, <2>1, <2>2, AdvanceOK DEF Install, TypeOK, Typed, Edits
  <2> QED BY <2>1, <2>3, AdvanceOK DEF TypeOK, Typed, Mutex, Holds, Edits
<1>6. CASE QueryBreaks(n, t)
  <2>1. job' = [job EXCEPT ![n][t] = BrokenRead(n, t)] /\ At(n, t, "reading") /\ lock' = lock
    BY <1>6 DEF QueryBreaks, QueryFails, Become, BrokenRead
  <2>2. Mutex'
    BY <2>1, BrokenReadIs, MutexKept DEF At, Holds
  <2>3. faults' \in 0 .. MaxFaults
    BY <1>6, ClusterSyncAssumption DEF QueryBreaks, QueryFails, Fault, TypeOK
  <2>4. Typed'
    BY <1>6, <2>1, <2>3, BrokenReadIs DEF QueryBreaks, TypeOK, Typed, Edits, redisVars
  <2> QED BY <2>2, <2>4 DEF TypeOK, Typed, Mutex, Holds, Edits
<1> QED BY <1>1, <1>2, <1>3, <1>4, <1>5, <1>6 DEF ReloadFromDB

\* A task outside of a reload begins to wait, or goes elsewhere outside.
LEMMA OutsideOK ==
    ASSUME TypeOK, NEW n \in Nodes, NEW t \in Tasks, NEW j \in Jobs,
           ~Holds(n, t), j.pc \notin {"reading", "installing"},
           job' = [job EXCEPT ![n][t] = j], lock' = lock
    PROVE  Mutex' /\ job' \in [Nodes -> [Tasks -> Jobs]]
<1>1. Mutex'
  BY MutexKept
<1> QED BY <1>1 DEF TypeOK

LEMMA HandlerOK ==
    ASSUME TypeOK, NEW n \in Nodes, NEW h \in Handlers, Handler(n, h),
           Write(n, h) => ~Holds(n, h)
    PROVE  TypeOK'
<1>1. h \in Tasks
  BY DEF Tasks
<1>2. CASE Write(n, h)
  <2>1. PICK p \in Parts :
          /\ db' = [db EXCEPT ![p] = @ + 1]
          /\ edit' = [edit EXCEPT ![h] = [NoEdit EXCEPT !.node = n, !.part = p, !.version = db[p] + 1]]
          /\ job' = [job EXCEPT ![n][h] = AfterWrite(p)]
    BY <1>2 DEF Write, Become
  <2>2. [NoEdit EXCEPT !.node = n, !.part = p, !.version = db[p] + 1]
           \in Edits
    <3>1. db[p] + 1 \in Nat
      BY DEF TypeOK
    <3> QED BY <3>1 DEF NoEdit, Edits
  <2>3. lock' = lock
    BY <1>2 DEF Write
  <2>4. Mutex' /\ job' \in [Nodes -> [Tasks -> Jobs]]
    BY <1>1, <1>2, <2>1, <2>3, HandlerJobs, OutsideOK
  <2>5. Typed'
    BY <1>2, <2>1, <2>2, <2>4 DEF Write, TypeOK, Typed, Edits, redisVars
  <2> QED BY <2>4, <2>5 DEF TypeOK, Typed, Mutex, Holds, Edits
<1>3. CASE Increment(n, h)
  <2>1. [Idle EXCEPT !.pc = "publish"] \in Jobs /\ [Idle EXCEPT !.pc = "publish"].pc = "publish"
    BY IdleIsAJob DEF Idle, Jobs
  <2>2. Mutex' /\ job' \in [Nodes -> [Tasks -> Jobs]]
    BY <1>1, <1>3, <2>1, OutsideOK DEF Increment, Become, At, Holds
  <2>3. version' \in Nat
    BY <1>3 DEF Increment, TypeOK
  <2>4. edit' \in [Handlers -> Edits]
    <3>1. edit \in [Handlers -> Edits] /\ edit[h] \in Edits /\ version + 1 \in Nat
      BY DEF TypeOK, Edits
    <3>2. [edit[h] EXCEPT !.ticket = version + 1] \in Edits
      BY <3>1 DEF Edits
    <3>3. edit' = edit \/ edit' = [edit EXCEPT ![h] = [edit[h] EXCEPT !.ticket = version + 1]]
      BY <1>3 DEF Increment
    <3> QED BY <3>1, <3>2, <3>3
  <2>5. Typed'
    BY <1>3, <2>2, <2>3, <2>4 DEF Increment, TypeOK, Typed, Edits
  <2> QED BY <2>2, <2>5 DEF TypeOK, Typed, Mutex, Holds, Edits
<1>4. CASE Publish(n, h)
  <2>1. Mutex' /\ job' \in [Nodes -> [Tasks -> Jobs]]
    BY <1>1, <1>4, IdleIsAJob, OutsideOK DEF Publish, Become, At, Holds
  <2>2. inbox' \in [Nodes -> Nat]
    BY <1>4 DEF Publish, TypeOK
  <2>3. Typed'
    BY <1>4, <2>1, <2>2 DEF Publish, TypeOK, Typed, Edits
  <2> QED BY <2>1, <2>3 DEF TypeOK, Typed, Mutex, Holds, Edits
<1>5. CASE ReadPrices(n, h) \/ InstallPrices(n, h)
  <2>1. Mutex' /\ job' \in [Nodes -> [Tasks -> Jobs]]
    BY <1>1, <1>5, PricingMoves, OutsideOK DEF Holds
  <2>2. Typed'
    BY <1>5, <2>1, PricingMoves DEF TypeOK, Typed, Edits, redisVars
  <2> QED BY <2>1, <2>2 DEF TypeOK, Typed, Mutex, Holds, Edits
<1> QED BY <1>2, <1>3, <1>4, <1>5 DEF Handler

-----------------------------------------------------------------------------
(* Who runs where. *)

Lifecycle ==
    /\ \A n \in Nodes : node[n] # "up" =>
          ~subscribed[n] /\ \A t \in Tasks \ {"start"} : job[n][t].pc = "idle"
    /\ \A n \in Nodes : job[n]["start"].pc # "idle" => node[n] = "starting"
    /\ \A n \in Nodes, h \in Handlers : job[n][h].pc # "idle" => edit[h].node = n
    /\ \A h \in Handlers : edit[h].synced => edit[h].node \in Nodes /\ node[edit[h].node] = "up"

\* The steps outside of a reload and of the process.
Quiet(n) ==
    \/ \E h \in Handlers : Handler(n, h)
    \/ PeriodicTick(n) \/ Subscribe(n) \/ Receive(n) \/ Reconcile(n)

LEMMA TasksAre ==
    /\ \A h \in Handlers : h \in Tasks /\ h # "start" /\ h # "subscriber" /\ h # "periodic"
    /\ "start" \in Tasks /\ "subscriber" \in Tasks /\ "periodic" \in Tasks
BY ClusterSyncAssumption DEF Tasks

\* Such a step loads nothing but prices and moves at most one task, outside of
\* the mutex.
LEMMA QuietMoves ==
    ASSUME TypeOK, Lifecycle, NEW n \in Nodes, Quiet(n)
    PROVE  /\ UNCHANGED <<node, lock, missed, active>>
           /\ \A m \in Nodes, p \in Guarded : mem'[m][p] = mem[m][p]
           /\ node[n] = "up"
           /\ \/ job' = job
              \/ \E t \in Tasks \ {"start"}, j \in Jobs :
                    /\ job' = [job EXCEPT ![n][t] = j]
                    /\ ~Holds(n, t) /\ j.pc \notin {"reading", "installing"}
<1>1. CASE \E h \in Handlers : Handler(n, h)
  <2>1. PICK h \in Handlers : Handler(n, h)
    BY <1>1
  <2>2. UNCHANGED <<node, lock, missed, active>> /\ \A m \in Nodes, p \in Guarded : mem'[m][p] = mem[m][p]
    <3>1. CASE ReadPrices(n, h) \/ InstallPrices(n, h)
      BY <3>1, PricingMoves DEF redisVars
    <3>2. CASE Write(n, h) \/ Increment(n, h) \/ Publish(n, h)
      BY <3>2 DEF Write, Increment, Publish, redisVars
    <3> QED BY <2>1, <3>1, <3>2 DEF Handler
  <2>3. CASE Write(n, h)
    <3>1. edit[h].node = NoNode /\ node[n] = "up"
      BY <2>3 DEF Write, NoEdit
    <3>2. job[n][h].pc = "idle"
      BY <3>1, ClusterSyncAssumption DEF Lifecycle
    <3>3. PICK p \in Parts : job' = [job EXCEPT ![n][h] = AfterWrite(p)]
      BY <2>3 DEF Write, Become
    <3> QED BY <2>2, <3>1, <3>2, <3>3, TasksAre, HandlerJobs DEF Holds
  <2>4. CASE Increment(n, h) \/ Publish(n, h)
    <3>1. job[n][h].pc \in {"increment", "publish"}
      BY <2>4 DEF Increment, Publish, At
    <3>2. node[n] = "up"
      BY <3>1, TasksAre DEF Lifecycle
    <3>3. [Idle EXCEPT !.pc = "publish"] \in Jobs /\ [Idle EXCEPT !.pc = "publish"].pc = "publish"
      BY IdleIsAJob DEF Idle, Jobs
    <3>4. PICK j \in Jobs : job' = [job EXCEPT ![n][h] = j] /\ j.pc \notin {"reading", "installing"}
      BY <2>4, <3>3, IdleIsAJob DEF Increment, Publish, Become
    <3> QED BY <2>2, <3>1, <3>2, <3>4, TasksAre DEF Holds
  <2>5. CASE ReadPrices(n, h) \/ InstallPrices(n, h)
    <3>1. job[n][h].pc \in {"pricing", "repricing"}
      BY <2>5, PricingMoves
    <3>2. node[n] = "up"
      BY <3>1, TasksAre DEF Lifecycle
    <3>3. PICK j \in Jobs : job' = [job EXCEPT ![n][h] = j] /\ j.pc \in {"repricing", "waiting"}
      BY <2>5, PricingMoves
    <3> QED BY <2>2, <3>1, <3>2, <3>3, TasksAre DEF Holds
  <2> QED BY <2>1, <2>3, <2>4, <2>5 DEF Handler
<1>2. CASE PeriodicTick(n)
  <2>1. job' = [job EXCEPT ![n]["periodic"] = WaitingJob]
    BY <1>2 DEF PeriodicTick, Wait, Become, WaitingJob
  <2> QED BY <1>2, <2>1, TasksAre, ClusterSyncAssumption, NewJobs DEF PeriodicTick, At, Holds, redisVars
<1>3. CASE Subscribe(n)
  BY <1>3 DEF Subscribe
<1>4. CASE Receive(n) \/ Reconcile(n)
  <2>1. job' = [job EXCEPT ![n]["subscriber"] = WaitingJob]
    BY <1>4 DEF Receive, Reconcile, Wait, Become, WaitingJob
  <2>2. subscribed[n] /\ job[n]["subscriber"].pc = "idle" /\ UNCHANGED <<mem, node, lock, missed, active, faults>>
    BY <1>4 DEF Receive, Reconcile, At
  <2>3. node[n] = "up"
    BY <2>2 DEF Lifecycle
  <2> QED BY <2>1, <2>2, <2>3, TasksAre, NewJobs DEF Holds
<1> QED BY <1>1, <1>2, <1>3, <1>4 DEF Quiet

LEMMA QuietOK == ASSUME TypeOK, Lifecycle, NEW n \in Nodes, Quiet(n) PROVE TypeOK'
<1>1. CASE \E h \in Handlers : Handler(n, h)
  <2>1. PICK h \in Handlers : Handler(n, h)
    BY <1>1
  <2>2. Write(n, h) => ~Holds(n, h)
    BY ClusterSyncAssumption DEF Write, NoEdit, Lifecycle, Holds
  <2> QED BY <2>1, <2>2, HandlerOK
<1>2. Mutex' /\ lock' = lock /\ job' \in [Nodes -> [Tasks -> Jobs]]
  <2>1. CASE job' = job
    BY <2>1, QuietMoves DEF TypeOK, Mutex, Holds
  <2>2. CASE job' # job
    <3>1. PICK t \in Tasks, j \in Jobs :
            /\ job' = [job EXCEPT ![n][t] = j]
            /\ ~Holds(n, t) /\ j.pc \notin {"reading", "installing"}
      BY <2>2, QuietMoves
    <3> QED BY <3>1, QuietMoves, OutsideOK
  <2> QED BY <2>1, <2>2
<1>3. CASE PeriodicTick(n)
  BY <1>2, <1>3 DEF PeriodicTick, redisVars, TypeOK, Mutex, Holds
<1>4. CASE Subscribe(n)
  BY <1>2, <1>4 DEF Subscribe, TypeOK, Mutex, Holds
<1>5. CASE Receive(n) \/ Reconcile(n)
  <2>1. local' \in [Nodes -> Nat] /\ inbox' \in [Nodes -> Nat]
    <3>1. local \in [Nodes -> Nat] /\ inbox \in [Nodes -> Nat] /\ version \in Nat
      BY DEF TypeOK
    <3>2. local' = local \/ local' = [local EXCEPT ![n] = version]
      BY <1>5, <3>1 DEF Receive, Reconcile
    <3>3. inbox' = inbox \/ (inbox[n] > 0 /\ inbox' = [inbox EXCEPT ![n] = inbox[n] - 1])
      BY <1>5 DEF Receive, Reconcile
    <3> QED BY <3>1, <3>2, <3>3
  <2> QED BY <1>2, <1>5, <2>1 DEF Receive, Reconcile, TypeOK, Mutex, Holds
<1> QED BY <1>1, <1>3, <1>4, <1>5 DEF Quiet

LEMMA CrashOK == ASSUME TypeOK, NEW n \in Nodes, Crash(n) PROVE TypeOK'
<1>1. Mutex'
  <2>1. \A m \in Nodes, t \in Tasks :
          /\ m # n => job'[m] = job[m] /\ lock'[m] = lock[m]
          /\ job'[n][t] = Idle /\ lock'[n] = NoTask
    BY DEF Crash, TypeOK
  <2>2. ASSUME NEW m \in Nodes, NEW t \in Tasks
        PROVE  (job'[m][t].pc \in {"reading", "installing"}) <=> (lock'[m] = t)
    <3>1. CASE m = n
      <4>1. t # NoTask
        BY ClusterSyncAssumption DEF Tasks
      <4> QED BY <2>1, <3>1, <4>1, IdleIsAJob
    <3>2. CASE m # n
      BY <2>1, <3>2 DEF TypeOK
    <3> QED BY <3>1, <3>2
  <2> QED BY <2>2 DEF Mutex, Holds
<1>2. edit' \in [Handlers -> Edits]
  <2>1. \A h \in Handlers : [edit[h] EXCEPT !.synced = FALSE] \in Edits
    <3>1. edit \in [Handlers -> Edits]
      BY DEF TypeOK, Edits
    <3> QED BY <3>1 DEF Edits
  <2> QED BY <2>1 DEF Crash, TypeOK, Edits
<1>3. mem' \in [Nodes -> [Parts -> Nat]] /\ job' \in [Nodes -> [Tasks -> Jobs]]
  BY IdleIsAJob DEF Crash, TypeOK, Nothing, CutShort
<1>4. faults' \in 0 .. MaxFaults
  BY ClusterSyncAssumption DEF Crash, Fault, TypeOK
<1> QED BY <1>1, <1>2, <1>3, <1>4 DEF Crash, TypeOK, Mutex, Holds, Edits

LEMMA RestartOK == ASSUME TypeOK, Lifecycle, NEW n \in Nodes, Restart(n) PROVE TypeOK'
<1>1. job' = [job EXCEPT ![n]["start"] = WaitingJob] /\ lock' = lock
  BY DEF Restart, Wait, Become, WaitingJob
<1>2. ~Holds(n, "start")
  BY DEF Restart, Lifecycle, Holds
<1>3. Mutex' /\ job' \in [Nodes -> [Tasks -> Jobs]]
  BY <1>1, <1>2, TasksAre, NewJobs, OutsideOK
<1>4. active' \in [Nodes -> BOOLEAN]
  <2>1. PICK reached \in {FALSE, Redis} : active' = [active EXCEPT ![n] = reached]
    BY DEF Restart
  <2>2. reached \in BOOLEAN
    BY ClusterSyncAssumption, Zenon
  <2> QED BY <2>1, <2>2 DEF TypeOK
<1> QED BY <1>3, <1>4 DEF Restart, TypeOK, Mutex, Holds

LEMMA NextIs ==
    ASSUME Next
    PROVE  \E n \in Nodes : \/ \E t \in Tasks : ReloadFromDB(n, t)
                            \/ Quiet(n) \/ Crash(n) \/ Restart(n)
BY DEF Next, Quiet

-----------------------------------------------------------------------------
(* What a step of a reload does to what it does not load. *)

Ends(n, t, ok) ==
    /\ Holds(n, t)
    /\ job' = [job EXCEPT ![n][t] = DoneJob(t)]
    /\ edit' = IF t \in Handlers THEN [edit EXCEPT ![t].synced = ok] ELSE edit
    /\ node' = IF t = "start" THEN [node EXCEPT ![n] = "up"] ELSE node
    /\ missed' = IF t = "subscriber" /\ ~ok THEN [missed EXCEPT ![n] = TRUE] ELSE missed

GoesOn(n, t, j) ==
    /\ job' = [job EXCEPT ![n][t] = j] /\ j \in Jobs
    /\ UNCHANGED <<edit, node, missed>>

\* On to the next part, or to the end.
LEMMA AdvanceMoves ==
    ASSUME TypeOK, NEW n \in Nodes, NEW t \in Tasks, Holds(n, t), Advance(n, t)
    PROVE  /\ \/ job[n][t].at < Len(Order) /\ GoesOn(n, t, ReadingJob(job[n][t].at + 1))
              \/ job[n][t].at = Len(Order) /\ Ends(n, t, TRUE)
           /\ job'[n][t].pc # "installing"
<1>1. job[n][t].at \in 1 .. Len(Order) /\ job \in [Nodes -> [Tasks -> Jobs]]
  BY DEF TypeOK, Jobs
<1>2. CASE job[n][t].at < Len(Order)
  <2>1. job[n][t].at + 1 \in 1 .. Len(Order)
    BY <1>1, <1>2, FirstPart
  <2>2. ReadingJob(job[n][t].at + 1) \in Jobs /\ ReadingJob(job[n][t].at + 1).pc = "reading"
    BY <2>1, NewJobs
  <2>3. GoesOn(n, t, ReadingJob(job[n][t].at + 1))
    BY <1>2, <2>2 DEF Advance, GoesOn, Become, ReadingJob
  <2> QED BY <1>1, <1>2, <2>2, <2>3 DEF GoesOn
<1>3. CASE ~(job[n][t].at < Len(Order))
  <2>1. job[n][t].at = Len(Order)
    BY <1>1, <1>3, FirstPart
  <2>2. Ends(n, t, TRUE)
    BY <1>3 DEF Advance, Unlock, Return, Become, Ends, DoneJob
  <2>3. job'[n][t].pc # "installing"
    BY <1>1, <2>2, NewJobs DEF Ends
  <2> QED BY <2>1, <2>2, <2>3
<1> QED BY <1>2, <1>3

LEMMA ReloadMoves ==
    ASSUME TypeOK, NEW n \in Nodes, NEW t \in Tasks, ReloadFromDB(n, t)
    PROVE  /\ UNCHANGED <<db, version, subscribed, local, first>>
           /\ job[n][t].pc # "idle"
           /\ \/ /\ Lock(n, t) /\ GoesOn(n, t, FirstRead) /\ mem' = mem
              \/ /\ Query(n, t) /\ mem' = mem
                 /\ GoesOn(n, t, [job[n][t] EXCEPT !.pc = "installing", !.held = db[Order[job[n][t].at]]])
              \/ /\ QueryBreaks(n, t) /\ mem' = mem
                 /\ GoesOn(n, t, BrokenRead(n, t))
              \/ /\ Abort(n, t) /\ Ends(n, t, FALSE)
                 /\ t # "start" => mem' = mem
                 /\ \A m \in Nodes : m # n => mem'[m] = mem[m]
              \/ /\ \/ job[n][t].pc = "reading" /\ Order[job[n][t].at] \notin Required /\ mem' = mem
                    \/ /\ job[n][t].pc = "installing"
                       /\ mem' = [mem EXCEPT ![n][Order[job[n][t].at]] = job[n][t].held]
                 /\ \/ job[n][t].at < Len(Order) /\ GoesOn(n, t, ReadingJob(job[n][t].at + 1))
                    \/ job[n][t].at = Len(Order) /\ Ends(n, t, TRUE)
<1>1. CASE Lock(n, t)
  <2>1. GoesOn(n, t, FirstRead)
    BY <1>1, NewJobs DEF Lock, Become, FirstRead, GoesOn, redisVars
  <2> QED BY <1>1, <2>1 DEF Lock, At, redisVars
<1>2. CASE Query(n, t)
  <2> DEFINE j == [job[n][t] EXCEPT !.pc = "installing", !.held = db[Order[job[n][t].at]]]
  <2>1. job[n][t] \in Jobs /\ db[Order[job[n][t].at]] \in Nat
    BY PartsOfTheOrder DEF TypeOK, Jobs
  <2>2. j \in Jobs
    BY <2>1 DEF Jobs
  <2>3. GoesOn(n, t, j)
    BY <1>2, <2>2 DEF Query, Become, GoesOn, redisVars
  <2> QED BY <1>2, <2>3 DEF Query, At, redisVars
<1>3. CASE Abort(n, t)
  <2>1. Ends(n, t, FALSE)
    BY <1>3 DEF Abort, QueryFails, At, Unlock, Return, Become, Ends, Holds, DoneJob
  <2>2. \A m \in Nodes : m # n => mem'[m] = mem[m]
    BY <1>3 DEF Abort, TypeOK
  <2> QED BY <1>3, <2>1, <2>2 DEF Abort, QueryFails, At
<1>4. CASE SkipPart(n, t) \/ Install(n, t)
  <2>1. Advance(n, t) /\ Holds(n, t)
    BY <1>4 DEF SkipPart, Install, QueryFails, At, Holds
  <2>3. \/ job[n][t].at < Len(Order) /\ GoesOn(n, t, ReadingJob(job[n][t].at + 1))
        \/ job[n][t].at = Len(Order) /\ Ends(n, t, TRUE)
    BY <2>1, AdvanceMoves
  <2> QED BY <1>4, <2>3 DEF SkipPart, Install, QueryFails, At
<1>5. CASE QueryBreaks(n, t)
  <2>1. GoesOn(n, t, BrokenRead(n, t))
    BY <1>5, BrokenReadIs DEF QueryBreaks, Become, GoesOn, BrokenRead, redisVars
  <2> QED BY <1>5, <2>1 DEF QueryBreaks, QueryFails, At, redisVars
<1> QED BY <1>1, <1>2, <1>3, <1>4, <1>5 DEF ReloadFromDB

LEMMA OneTaskMoves ==
    ASSUME NEW n \in Nodes, NEW t \in Tasks, ReloadFromDB(n, t)
    PROVE  \E j : job' = [job EXCEPT ![n][t] = j]
<1>1. CASE Lock(n, t)
  BY <1>1 DEF Lock, Become
<1>2. CASE Query(n, t) \/ QueryBreaks(n, t)
  BY <1>2 DEF Query, QueryBreaks, Become
<1>3. CASE Abort(n, t)
  BY <1>3 DEF Abort, Unlock, Return, Become
<1>4. CASE SkipPart(n, t) \/ Install(n, t)
  <2>1. Advance(n, t)
    BY <1>4 DEF SkipPart, Install
  <2> QED BY <2>1 DEF Advance, Unlock, Return, Become
<1> QED BY <1>1, <1>2, <1>3, <1>4 DEF ReloadFromDB

-----------------------------------------------------------------------------
(* Every step keeps who runs where. *)

LEMMA ReloadLifecycle ==
    ASSUME TypeOK, Lifecycle, NEW n \in Nodes, NEW t \in Tasks, ReloadFromDB(n, t)
    PROVE  Lifecycle'
<1>1. job[n][t].pc # "idle" /\ subscribed' = subscribed
  BY ReloadMoves
<1>2. t = "start" => node[n] = "starting"
  BY <1>1 DEF Lifecycle
<1>3. t # "start" => node[n] = "up"
  BY <1>1 DEF Lifecycle
<1>4. CASE \E j : GoesOn(n, t, j)
  <2>1. PICK j : GoesOn(n, t, j)
    BY <1>4
  <2> QED BY <1>1, <1>2, <1>3, <2>1 DEF GoesOn, Lifecycle, TypeOK
<1>5. CASE \E ok \in BOOLEAN : Ends(n, t, ok)
  <2>1. PICK ok \in BOOLEAN : Ends(n, t, ok)
    BY <1>5
  <2>2. DoneJob(t).pc = IF t \in Handlers THEN "increment" ELSE "idle"
    BY NewJobs
  <2>3. CASE t = "start"
    <3>1. t \notin Handlers /\ DoneJob(t).pc = "idle"
      BY <2>2, <2>3, TasksAre
    <3>2. node' = [node EXCEPT ![n] = "up"] /\ edit' = edit /\ job' = [job EXCEPT ![n][t] = DoneJob(t)]
      BY <2>1, <2>3, <3>1 DEF Ends
    <3> QED BY <1>1, <1>2, <2>3, <3>1, <3>2, TasksAre DEF Lifecycle, TypeOK
  <2>4. CASE t # "start"
    <3>1. node' = node /\ job' = [job EXCEPT ![n][t] = DoneJob(t)]
      BY <2>1, <2>4 DEF Ends
    <3>2. \A h \in Handlers : /\ edit'[h].node = edit[h].node
                              /\ edit'[h].synced = edit[h].synced \/ h = t
      BY <2>1 DEF Ends, TypeOK
    <3>3. t \in Handlers => edit[t].node = n
      BY <1>1 DEF Lifecycle
    <3>4. \A h \in Handlers : edit'[h].synced => edit'[h].node \in Nodes /\ node'[edit'[h].node] = "up"
      BY <1>3, <2>4, <3>1, <3>2, <3>3 DEF Lifecycle
    <3>5. \A m \in Nodes, h \in Handlers : job'[m][h].pc # "idle" => edit'[h].node = m
      BY <3>1, <3>2, <3>3, TasksAre DEF Lifecycle, TypeOK
    <3>6. \A m \in Nodes : job'[m]["start"].pc # "idle" => node'[m] = "starting"
      BY <2>4, <3>1, TasksAre DEF Lifecycle, TypeOK
    <3>7. \A m \in Nodes : node'[m] # "up" =>
              ~subscribed'[m] /\ \A u \in Tasks \ {"start"} : job'[m][u].pc = "idle"
      BY <1>1, <1>3, <2>4, <3>1 DEF Lifecycle, TypeOK
    <3> QED BY <3>4, <3>5, <3>6, <3>7 DEF Lifecycle
  <2> QED BY <2>3, <2>4
<1> QED BY <1>4, <1>5, ReloadMoves

LEMMA QuietKinds ==
    ASSUME NEW n \in Nodes, Quiet(n)
    PROVE  \/ \E h \in Handlers : Write(n, h)
           \/ \E h \in Handlers : Increment(n, h) \/ Publish(n, h)
           \/ Pricing(n)
           \/ PeriodicTick(n) \/ Subscribe(n) \/ Receive(n) \/ Reconcile(n)
BY DEF Quiet, Handler, Pricing

\* Only the handler that writes begins, and nobody else's change is touched.
LEMMA QuietEdits ==
    ASSUME TypeOK, NEW n \in Nodes, Quiet(n)
    PROVE  /\ \A m \in Nodes : m # n => subscribed'[m] = subscribed[m]
           /\ \A h \in Handlers :
                 \/ /\ edit'[h].node = edit[h].node /\ edit'[h].synced = edit[h].synced
                    /\ job[n][h].pc = "idle" => job'[n][h].pc = "idle"
                 \/ Write(n, h) /\ edit'[h].node = n /\ ~edit'[h].synced
<1>1. CASE \E h \in Handlers : Write(n, h)
  <2>1. PICK h \in Handlers : Write(n, h)
    BY <1>1
  <2>2. PICK p \in Parts :
          /\ edit' = [edit EXCEPT ![h] = [NoEdit EXCEPT !.node = n, !.part = p, !.version = db[p] + 1]]
          /\ job' = [job EXCEPT ![n][h] = AfterWrite(p)]
    BY <2>1 DEF Write, Become
  <2>3. edit'[h].node = n /\ ~edit'[h].synced
    BY <2>2 DEF TypeOK, NoEdit
  <2>4. subscribed' = subscribed
    BY <2>1 DEF Write, redisVars
  <2>5. \A g \in Handlers : g # h => edit'[g] = edit[g] /\ job'[n][g] = job[n][g]
    BY <2>2, TasksAre DEF TypeOK
  <2> QED BY <2>1, <2>3, <2>4, <2>5
<1>2. CASE \E h \in Handlers : Increment(n, h) \/ Publish(n, h)
  <2>1. PICK h \in Handlers : Increment(n, h) \/ Publish(n, h)
    BY <1>2
  <2>2. subscribed' = subscribed /\ job[n][h].pc # "idle"
    BY <2>1 DEF Increment, Publish, At
  <2>3. \E j : job' = [job EXCEPT ![n][h] = j]
    BY <2>1 DEF Increment, Publish, Become
  <2>4. \A g \in Handlers : edit'[g].node = edit[g].node /\ edit'[g].synced = edit[g].synced
    <3>1. edit' = edit \/ edit' = [edit EXCEPT ![h].ticket = version + 1]
      BY <2>1 DEF Increment, Publish
    <3>2. edit \in [Handlers -> Edits]
      BY DEF TypeOK, Edits
    <3> QED BY <3>1, <3>2 DEF Edits
  <2>5. \A g \in Handlers : g # h => job'[n][g] = job[n][g]
    BY <2>3, TasksAre DEF TypeOK
  <2> QED BY <2>2, <2>4, <2>5
<1>3. CASE PeriodicTick(n) \/ Subscribe(n) \/ Receive(n) \/ Reconcile(n)
  <2>1. edit' = edit
    BY <1>3 DEF PeriodicTick, Subscribe, Receive, Reconcile
  <2>2. job' = job \/ \E t \in {"periodic", "subscriber"} : \E j : job' = [job EXCEPT ![n][t] = j]
    BY <1>3 DEF PeriodicTick, Subscribe, Receive, Reconcile, Wait, Become
  <2>3. \A h \in Handlers : job'[n][h] = job[n][h]
    BY <2>2, TasksAre DEF TypeOK
  <2>4. \A m \in Nodes : m # n => subscribed'[m] = subscribed[m]
    BY <1>3 DEF PeriodicTick, Subscribe, Receive, Reconcile, redisVars, TypeOK
  <2> QED BY <2>1, <2>3, <2>4
<1>4. CASE Pricing(n)
  <2>1. PICK h \in Handlers : ReadPrices(n, h) \/ InstallPrices(n, h)
    BY <1>4 DEF Pricing
  <2>2. UNCHANGED <<edit, redisVars>> /\ job[n][h].pc # "idle" /\ \E j \in Jobs : job' = [job EXCEPT ![n][h] = j]
    BY <2>1, PricingMoves
  <2>3. \A g \in Handlers : g # h => job'[n][g] = job[n][g]
    BY <2>2, TasksAre DEF TypeOK
  <2> QED BY <2>2, <2>3 DEF redisVars
<1> QED BY <1>1, <1>2, <1>3, <1>4, QuietKinds

LEMMA QuietLifecycle == ASSUME TypeOK, Lifecycle, NEW n \in Nodes, Quiet(n) PROVE Lifecycle'
<1>1. node' = node /\ node[n] = "up"
  BY QuietMoves
<1>2. \A m \in Nodes, t \in Tasks : m # n \/ t = "start" => job'[m][t] = job[m][t]
  <2>1. CASE job' = job
    BY <2>1
  <2>2. CASE job' # job
    <3>1. PICK t \in Tasks \ {"start"}, j \in Jobs : job' = [job EXCEPT ![n][t] = j]
      BY <2>2, QuietMoves
    <3> QED BY <3>1 DEF TypeOK
  <2> QED BY <2>1, <2>2
<1>3. \A m \in Nodes : m # n => subscribed'[m] = subscribed[m]
  BY QuietEdits
<1>4. \A h \in Handlers : \/ edit'[h].node = edit[h].node /\ edit'[h].synced = edit[h].synced
                          \/ Write(n, h) /\ edit'[h].node = n /\ ~edit'[h].synced
  BY QuietEdits
<1>5. \A m \in Nodes, h \in Handlers : job'[m][h].pc # "idle" => edit'[h].node = m
  <2> SUFFICES ASSUME NEW m \in Nodes, NEW h \in Handlers, job'[m][h].pc # "idle" PROVE edit'[h].node = m
    OBVIOUS
  <2>1. CASE Write(n, h) /\ edit'[h].node = n
    <3>1. edit[h].node = NoNode
      BY <2>1 DEF Write, NoEdit
    <3>2. job[m][h].pc = "idle"
      BY <3>1, ClusterSyncAssumption DEF Lifecycle
    <3>3. m = n
      BY <1>2, <3>2, TasksAre
    <3> QED BY <2>1, <3>3
  <2>2. CASE edit'[h].node = edit[h].node /\ (job[n][h].pc = "idle" => job'[n][h].pc = "idle")
    BY <1>2, <2>2, TasksAre DEF Lifecycle
  <2> QED BY <2>1, <2>2, QuietEdits
<1>6. \A h \in Handlers : edit'[h].synced => edit'[h].node \in Nodes /\ node'[edit'[h].node] = "up"
  BY <1>1, <1>4 DEF Lifecycle
<1> QED BY <1>1, <1>2, <1>3, <1>5, <1>6, TasksAre DEF Lifecycle

LEMMA CrashLifecycle == ASSUME TypeOK, Lifecycle, NEW n \in Nodes, Crash(n) PROVE Lifecycle'
<1>1. \A m \in Nodes : m # n => /\ job'[m] = job[m] /\ node'[m] = node[m]
                                /\ subscribed'[m] = subscribed[m]
  BY DEF Crash, TypeOK
<1>2. /\ \A t \in Tasks : job'[n][t].pc = "idle"
      /\ node'[n] = "down" /\ ~subscribed'[n]
  BY IdleIsAJob DEF Crash, TypeOK
<1>3. \A h \in Handlers : /\ edit'[h].node = edit[h].node
                          /\ edit'[h].synced => edit[h].synced /\ edit[h].node # n
  BY DEF Crash, TypeOK
<1> QED BY <1>1, <1>2, <1>3, TasksAre DEF Lifecycle

LEMMA RestartLifecycle == ASSUME TypeOK, Lifecycle, NEW n \in Nodes, Restart(n) PROVE Lifecycle'
<1>1. job' = [job EXCEPT ![n]["start"] = WaitingJob] /\ node' = [node EXCEPT ![n] = "starting"] /\ node[n] = "down"
  BY DEF Restart, Wait, Become, WaitingJob
<1>2. subscribed' = subscribed /\ edit' = edit
  BY DEF Restart
<1> QED BY <1>1, <1>2, TasksAre DEF Lifecycle, TypeOK

-----------------------------------------------------------------------------
(* What a step of a reload does to memory, and to what is being loaded. *)

\* Task t of n has read part p and is about to install it.
Loading(n, t, p) == job[n][t].pc = "installing" /\ Order[job[n][t].at] = p

LEMMA PartAt == ASSUME TypeOK, NEW n \in Nodes, NEW t \in Tasks
                PROVE  job[n][t].at \in 1 .. Len(Order) /\ Order[job[n][t].at] \in Parts
BY PartsOfTheOrder DEF TypeOK, Jobs

LEMMA GuardedParts == Guarded \subseteq Parts /\ Required \subseteq Guarded
BY ClusterSyncAssumption DEF Guarded

LEMMA ReloadAlone ==
    ASSUME TypeOK, NEW n \in Nodes, NEW t \in Tasks, ReloadFromDB(n, t)
    PROVE  \A m \in Nodes, u \in Tasks : <<m, u>> # <<n, t>> =>
              /\ job'[m][u] = job[m][u]
              /\ m = n => ~Holds(n, u)
<1>1. \E j : job' = [job EXCEPT ![n][t] = j]
  BY OneTaskMoves
<1>2. \A m \in Nodes, u \in Tasks : <<m, u>> # <<n, t>> => job'[m][u] = job[m][u]
  BY <1>1 DEF TypeOK
<1>3. lock[n] = NoTask \/ lock[n] = t
  <2>1. CASE Lock(n, t)
    BY <2>1 DEF Lock
  <2>2. CASE Query(n, t) \/ QueryBreaks(n, t) \/ Abort(n, t) \/ SkipPart(n, t) \/ Install(n, t)
    <3>1. Holds(n, t)
      BY <2>2 DEF Query, QueryBreaks, Abort, SkipPart, Install, QueryFails, At, Holds
    <3> QED BY <3>1, TypeOKIs DEF Mutex
  <2> QED BY <2>1, <2>2 DEF ReloadFromDB
<1>4. \A u \in Tasks : u # t => ~Holds(n, u)
  BY <1>3, TypeOKIs, ClusterSyncAssumption DEF Mutex, Tasks
<1> QED BY <1>2, <1>4

LEMMA ReloadInstalls ==
    ASSUME TypeOK, NEW n \in Nodes, NEW t \in Tasks, ReloadFromDB(n, t)
    PROVE  /\ db' = db
           /\ \A m \in Nodes : m # n => mem'[m] = mem[m]
           /\ \A p \in Parts :
                 /\ \/ mem'[n][p] = mem[n][p] \/ mem'[n][p] = 0
                    \/ Loading(n, t, p) /\ mem'[n][p] = job[n][t].held
                 /\ Loading(n, t, p)' => mem'[n][p] = mem[n][p] /\ job'[n][t].held \in {db[p], 0}
<1>0. mem \in [Nodes -> [Parts -> Nat]] /\ job \in [Nodes -> [Tasks -> Jobs]] /\ db' = db
  BY ReloadMoves DEF TypeOK
<1>1. CASE Lock(n, t)
  <2>1. mem' = mem /\ job'[n][t].pc = "reading"
    BY <1>0, <1>1, NewJobs DEF Lock, Become, FirstRead
  <2> QED BY <1>0, <2>1 DEF Loading
<1>2. CASE Query(n, t)
  <2>1. mem' = mem /\ job'[n][t].at = job[n][t].at /\ job'[n][t].held = db[Order[job[n][t].at]]
    BY <1>0, <1>2 DEF Query, Become, Jobs
  <2> QED BY <1>0, <2>1 DEF Loading
<1>3. CASE QueryBreaks(n, t)
  <2>1. mem' = mem /\ job'[n][t] = BrokenRead(n, t)
    BY <1>0, <1>3 DEF QueryBreaks, Become, BrokenRead
  <2> QED BY <1>0, <2>1, BrokenReadIs DEF Loading
<1>4. CASE Abort(n, t)
  <2>1. job' = [job EXCEPT ![n][t] = DoneJob(t)]
    BY <1>4 DEF Abort, Unlock, Return, Become, DoneJob
  <2>2. ~Loading(n, t, Order[1])' /\ \A p : ~Loading(n, t, p)'
    BY <1>0, <2>1, NewJobs DEF Loading
  <2>3. \A m \in Nodes, p \in Parts : mem'[m][p] = mem[m][p] \/ (m = n /\ mem'[m][p] = 0)
    BY <1>0, <1>4 DEF Abort
  <2>4. \A m \in Nodes : m # n => mem'[m] = mem[m]
    BY <1>0, <1>4 DEF Abort
  <2> QED BY <1>0, <2>2, <2>3, <2>4
<1>5. CASE SkipPart(n, t) \/ Install(n, t)
  <2>1. job'[n][t].pc # "installing"
    BY <1>5, AdvanceMoves DEF SkipPart, Install, QueryFails, At, Holds
  <2>2. \/ mem' = mem
        \/ job[n][t].pc = "installing" /\ mem' = [mem EXCEPT ![n][Order[job[n][t].at]] = job[n][t].held]
    BY <1>5 DEF SkipPart, Install, At
  <2> QED BY <1>0, <2>1, <2>2, PartAt DEF Loading
<1> QED BY <1>1, <1>2, <1>3, <1>4, <1>5 DEF ReloadFromDB

\* No other step touches what is loaded under the mutex, but of a replica
\* that is killed.
LEMMA OthersInstallNothing ==
    ASSUME TypeOK, Lifecycle, NEW n \in Nodes, Quiet(n) \/ Crash(n) \/ Restart(n)
    PROVE  \A m \in Nodes :
              /\ \A u \in Tasks : Holds(m, u)' => job'[m][u] = job[m][u]
              /\ \A p \in Guarded : mem'[m][p] = mem[m][p] \/ (mem'[m][p] = 0 /\ node'[m] = "down")
              /\ (\E u \in Tasks : Holds(m, u)') => \A p \in Guarded : mem'[m][p] = mem[m][p]
              /\ m # n => \A p \in Guarded : mem'[m][p] = mem[m][p]
<1>0. mem \in [Nodes -> [Parts -> Nat]] /\ job \in [Nodes -> [Tasks -> Jobs]] /\ node \in [Nodes -> {"down", "starting", "up"}]
  BY DEF TypeOK
<1>1. CASE Quiet(n)
  <2>1. \A m \in Nodes, p \in Guarded : mem'[m][p] = mem[m][p]
    BY <1>1, QuietMoves
  <2>2. \A m \in Nodes, u \in Tasks : Holds(m, u)' => job'[m][u] = job[m][u]
    <3>1. CASE job' = job
      BY <3>1
    <3>2. CASE job' # job
      <4>1. PICK t \in Tasks, j \in Jobs : job' = [job EXCEPT ![n][t] = j] /\ j.pc \notin {"reading", "installing"}
        BY <1>1, <3>2, QuietMoves
      <4> QED BY <1>0, <4>1 DEF Holds
    <3> QED BY <3>1, <3>2
  <2> QED BY <2>1, <2>2
<1>2. CASE Crash(n)
  <2>1. mem' = [mem EXCEPT ![n] = Nothing] /\ node' = [node EXCEPT ![n] = "down"]
        /\ job' = [job EXCEPT ![n] = [t \in Tasks |-> Idle]]
    BY <1>2 DEF Crash
  <2>2. \A p \in Guarded : Nothing[p] = 0
    BY GuardedParts DEF Nothing, CutShort
  <2>3. \A u \in Tasks : ~Holds(n, u)'
    BY <1>0, <2>1, IdleIsAJob DEF Holds
  <2> QED BY <1>0, <2>1, <2>2, <2>3
<1>3. CASE Restart(n)
  <2>1. job' = [job EXCEPT ![n]["start"] = WaitingJob] /\ mem' = mem
    BY <1>3 DEF Restart, Wait, Become, WaitingJob
  <2>2. \A m \in Nodes, u \in Tasks : Holds(m, u)' => job'[m][u] = job[m][u]
    BY <1>0, <2>1, NewJobs DEF Holds
  <2> QED BY <2>1, <2>2
<1> QED BY <1>1, <1>2, <1>3

-----------------------------------------------------------------------------
(* Of a part that is loaded under the mutex only, memory never runs ahead  *)
(* of the database, nor behind what is being installed.                    *)

Ordered ==
    \A n \in Nodes, p \in Guarded :
        /\ mem[n][p] <= db[p]
        /\ \A t \in Tasks : Loading(n, t, p) => Shows(job[n][t].held, mem[n][p]) /\ job[n][t].held <= db[p]

LEMMA Numbers ==
    ASSUME TypeOK
    PROVE  /\ \A n \in Nodes, p \in Parts : mem[n][p] \in Nat
           /\ \A p \in Parts : db[p] \in Nat
           /\ \A n \in Nodes, t \in Tasks : job[n][t].held \in Nat
           /\ \A h \in Handlers : /\ edit[h].part \in Parts /\ edit[h].version \in Nat /\ edit[h].ticket \in Nat
                                  /\ edit[h].node \in Nodes \cup {NoNode}
           /\ \A n \in Nodes : local[n] \in Nat /\ first[n] \in Nat
           /\ version \in Nat
BY DEF TypeOK, Jobs

LEMMA ReloadOrdered ==
    ASSUME TypeOK, Ordered, TypeOK', NEW n \in Nodes, NEW t \in Tasks, ReloadFromDB(n, t)
    PROVE  /\ Ordered'
           /\ \A m \in Nodes, p \in Guarded : Shows(mem'[m][p], mem[m][p])
<1> SUFFICES ASSUME NEW m \in Nodes, NEW p \in Guarded
             PROVE  /\ Shows(mem'[m][p], mem[m][p]) /\ mem'[m][p] <= db'[p]
                    /\ \A u \in Tasks : Loading(m, u, p)' =>
                          Shows(job'[m][u].held, mem'[m][p]) /\ job'[m][u].held <= db'[p]
  BY DEF Ordered
<1>1. /\ p \in Parts /\ mem[m][p] \in Nat /\ db[p] \in Nat /\ db' = db
      /\ \A u \in Tasks : job[m][u].held \in Nat
  BY Numbers, GuardedParts, ReloadInstalls
<1>2. /\ mem[m][p] <= db[p]
      /\ \A u \in Tasks : Loading(m, u, p) => Shows(job[m][u].held, mem[m][p]) /\ job[m][u].held <= db[p]
  BY DEF Ordered
<1>3. CASE m # n
  <2>1. mem'[m] = mem[m] /\ \A u \in Tasks : job'[m][u] = job[m][u]
    BY <1>3, ReloadInstalls, ReloadAlone
  <2> QED BY <1>1, <1>2, <2>1 DEF Loading, Shows
<1>4. CASE m = n
  <2>1. \/ mem'[n][p] = mem[n][p] \/ mem'[n][p] = 0
        \/ Loading(n, t, p) /\ mem'[n][p] = job[n][t].held
    BY <1>1, ReloadInstalls
  <2>2. Shows(mem'[m][p], mem[m][p]) /\ mem'[m][p] <= db'[p]
    BY <1>1, <1>2, <1>4, <2>1 DEF Shows, CutShort
  <2>3. ASSUME NEW u \in Tasks, Loading(m, u, p)'
        PROVE  Shows(job'[m][u].held, mem'[m][p]) /\ job'[m][u].held <= db'[p]
    <3>1. u = t
      BY <1>4, <2>3, ReloadAlone DEF Loading, Holds
    <3>2. mem'[n][p] = mem[n][p] /\ job'[n][t].held \in {db[p], 0}
      BY <1>1, <1>4, <2>3, <3>1, ReloadInstalls
    <3> QED BY <1>1, <1>2, <1>4, <3>1, <3>2 DEF Shows, CutShort
  <2> QED BY <2>2, <2>3
<1> QED BY <1>3, <1>4

\* Outside of a reload: the database grows.
LEMMA DatabaseGrows ==
    ASSUME TypeOK, NEW n \in Nodes, Quiet(n) \/ Crash(n) \/ Restart(n)
    PROVE  \A p \in Parts : db'[p] >= db[p]
<1>1. CASE \E h \in Handlers : Write(n, h)
  <2>1. PICK p \in Parts : db' = [db EXCEPT ![p] = @ + 1]
    BY <1>1 DEF Write
  <2> QED BY <2>1 DEF TypeOK
<1>2. CASE db' = db
  BY <1>2 DEF TypeOK
<1>3. \/ db' = db
      \/ \E h \in Handlers : Write(n, h)
  <2>1. Pricing(n) => db' = db
    BY PricingMoves DEF Pricing
  <2> QED BY <2>1, QuietKinds DEF Increment, Publish, PeriodicTick, Subscribe, Receive, Reconcile, Crash, Restart
<1> QED BY <1>1, <1>2, <1>3

LEMMA OtherOrdered ==
    ASSUME TypeOK, Lifecycle, Ordered, TypeOK', NEW n \in Nodes, Quiet(n) \/ Crash(n) \/ Restart(n)
    PROVE  /\ Ordered'
           /\ \A m \in Nodes, p \in Guarded : Shows(mem'[m][p], mem[m][p])
<1> SUFFICES ASSUME NEW m \in Nodes, NEW p \in Guarded
             PROVE  /\ Shows(mem'[m][p], mem[m][p]) /\ mem'[m][p] <= db'[p]
                    /\ \A u \in Tasks : Loading(m, u, p)' =>
                          Shows(job'[m][u].held, mem'[m][p]) /\ job'[m][u].held <= db'[p]
  BY DEF Ordered
<1>1. /\ p \in Parts /\ mem[m][p] \in Nat /\ db[p] \in Nat /\ db'[p] \in Nat /\ db'[p] >= db[p]
      /\ \A u \in Tasks : job[m][u].held \in Nat
  BY Numbers, GuardedParts, DatabaseGrows DEF TypeOK
<1>2. /\ mem[m][p] <= db[p]
      /\ \A u \in Tasks : Loading(m, u, p) => Shows(job[m][u].held, mem[m][p]) /\ job[m][u].held <= db[p]
  BY DEF Ordered
<1>3. mem'[m][p] = mem[m][p] \/ mem'[m][p] = 0
  BY OthersInstallNothing
<1>4. ASSUME NEW u \in Tasks, Loading(m, u, p)'
      PROVE  Shows(job'[m][u].held, mem'[m][p]) /\ job'[m][u].held <= db'[p]
  <2>1. Holds(m, u)'
    BY <1>4 DEF Loading, Holds
  <2>2. job'[m][u] = job[m][u] /\ mem'[m][p] = mem[m][p]
    BY <2>1, OthersInstallNothing
  <2>3. Loading(m, u, p)
    BY <1>4, <2>2 DEF Loading
  <2> QED BY <1>1, <1>2, <2>2, <2>3
<1> QED BY <1>1, <1>2, <1>3, <1>4 DEF Shows, CutShort

-----------------------------------------------------------------------------
(* The changes of the handlers, and what the tasks load of them.           *)

Versions ==
    /\ \A h \in Handlers : edit[h].version <= db[edit[h].part] /\ edit[h].ticket <= version
    /\ \A n \in Nodes : local[n] <= version

\* As far as it has got, what task t of n loads of part p is version v or later.
Has(n, t, p, v) ==
    Holds(n, t) =>
        /\ \A i \in 1 .. Len(Order) : i < job[n][t].at /\ Order[i] = p => Shows(mem[n][p], v)
        /\ Loading(n, t, p) => Shows(job[n][t].held, v)

\* Replica n works with version v of part p or a later one, and no task is
\* about to take it back.
Kept(n, p, v) ==
    /\ Shows(mem[n][p], v)
    /\ \A t \in Tasks : Loading(n, t, p) => Shows(job[n][t].held, v)

HandlersLoad ==
    \A n \in Nodes, h \in Handlers :
        edit[h].node = n /\ edit[h].part \in Required => Has(n, h, edit[h].part, edit[h].version)

SyncedKept ==
    \A h \in Handlers :
        edit[h].synced /\ edit[h].part \in Required => Kept(edit[h].node, edit[h].part, edit[h].version)

\* The subscriber of n has noted the change of h.
Noted(n, h) ==
    /\ subscribed[n] /\ ~missed[n]
    /\ first[n] < edit[h].ticket /\ edit[h].ticket <= local[n]
    /\ edit[h].part \in Required

SubscriberLoads ==
    \A n \in Nodes, h \in Handlers : Noted(n, h) =>
        /\ Has(n, "subscriber", edit[h].part, edit[h].version)
        /\ At(n, "subscriber", "idle") => Kept(n, edit[h].part, edit[h].version)

\* A reload takes nothing back of what is kept.
LEMMA KeptOn ==
    ASSUME TypeOK, NEW n \in Nodes, NEW t \in Tasks, ReloadFromDB(n, t), NEW m \in Nodes,
           NEW p \in Guarded, NEW v \in Nat, v <= db[p], Kept(m, p, v)
    PROVE  Kept(m, p, v)'
<1>1. p \in Parts /\ mem[m][p] \in Nat /\ db[p] \in Nat
  BY Numbers, GuardedParts
<1>2. CASE m # n
  <2>1. mem'[m] = mem[m] /\ \A u \in Tasks : job'[m][u] = job[m][u]
    BY <1>2, ReloadInstalls, ReloadAlone
  <2> QED BY <2>1 DEF Kept, Loading, Shows
<1>3. CASE m = n
  <2>1. \/ mem'[n][p] = mem[n][p] \/ mem'[n][p] = 0
        \/ Loading(n, t, p) /\ mem'[n][p] = job[n][t].held
    BY <1>1, ReloadInstalls
  <2>2. Shows(mem'[n][p], v)
    BY <1>3, <2>1 DEF Kept, Shows, CutShort
  <2>3. ASSUME NEW u \in Tasks, Loading(n, u, p)'
        PROVE  Shows(job'[n][u].held, v)
    <3>1. u = t
      BY <2>3, ReloadAlone DEF Loading, Holds
    <3>2. job'[n][t].held \in {db[p], 0}
      BY <1>1, <2>3, <3>1, ReloadInstalls
    <3> QED BY <1>1, <3>1, <3>2 DEF Shows, CutShort
  <2> QED BY <1>3, <2>2, <2>3 DEF Kept
<1> QED BY <1>2, <1>3

\* Nor does a step of another kind, but the end of the replica.
LEMMA KeptElsewhere ==
    ASSUME TypeOK, Lifecycle, NEW n \in Nodes, Quiet(n) \/ Crash(n) \/ Restart(n), NEW m \in Nodes,
           NEW p \in Guarded, NEW v, Kept(m, p, v), Quiet(n) \/ m # n
    PROVE  Kept(m, p, v)'
<1>1. mem'[m][p] = mem[m][p]
  BY QuietMoves, OthersInstallNothing
<1>2. \A u \in Tasks : Loading(m, u, p)' => job'[m][u] = job[m][u]
  BY OthersInstallNothing DEF Loading, Holds
<1> QED BY <1>1, <1>2 DEF Kept, Loading

\* The reload that goes on has what it had, and at its end it is in memory.
LEMMA HasHere ==
    ASSUME TypeOK, NEW n \in Nodes, NEW t \in Tasks, ReloadFromDB(n, t), t # "start",
           NEW p \in Parts, p \in Required, NEW v \in Nat, v <= db[p], Has(n, t, p, v)
    PROVE  /\ Has(n, t, p, v)'
           /\ Ends(n, t, TRUE) => Kept(n, p, v)' \/ Ends(n, t, FALSE)
<1> DEFINE at == job[n][t].at
           q == Order[at]
<1>1. at \in 1 .. Len(Order) /\ q \in Parts /\ Len(Order) \in Nat
  BY PartAt, FirstPart
<1>2. mem \in [Nodes -> [Parts -> Nat]] /\ db \in [Parts -> Nat] /\ job \in [Nodes -> [Tasks -> Jobs]] /\ job[n][t] \in Jobs
  BY DEF TypeOK
<1>3. CASE Lock(n, t)
  <2>1. job'[n][t] = FirstRead
    BY <1>2, <1>3 DEF Lock, Become, FirstRead
  <2>2. FirstRead.at = 1 /\ FirstRead.pc = "reading"
    BY NewJobs
  <2>3. ~Holds(n, t)
    BY <1>3 DEF Lock, At, Holds
  <2> QED BY <2>1, <2>2, <2>3 DEF Has, Ends, Holds, Loading
<1>4. CASE Query(n, t) \/ QueryBreaks(n, t)
  <2>1. /\ mem' = mem /\ job'[n][t].at = at /\ job'[n][t].held \in {db[q], 0}
        /\ job'[n][t].pc = "installing" /\ job[n][t].pc = "reading"
    <3>1. CASE Query(n, t)
      BY <1>2, <3>1 DEF Query, Become, Jobs, At
    <3>2. CASE QueryBreaks(n, t)
      <4>1. job' = [job EXCEPT ![n][t] = BrokenRead(n, t)] /\ mem' = mem /\ job[n][t].pc = "reading"
        BY <3>2 DEF QueryBreaks, QueryFails, Become, BrokenRead, At
      <4> QED BY <1>2, <4>1, BrokenReadIs
    <3> QED BY <1>4, <3>1, <3>2
  <2>2. Has(n, t, p, v)'
    <3>1. Loading(n, t, p)' => Shows(job'[n][t].held, v)
      BY <1>1, <1>2, <2>1 DEF Loading, Shows, CutShort
    <3> QED BY <1>1, <2>1, <3>1 DEF Has, Holds
  <2>3. ~Ends(n, t, TRUE)
    <3>1. DoneJob(t).pc # "installing"
      BY NewJobs
    <3> QED BY <1>2, <2>1, <3>1 DEF Ends
  <2> QED BY <2>2, <2>3
<1>5. CASE Abort(n, t)
  <2>1. Ends(n, t, FALSE)
    BY <1>5 DEF Abort, QueryFails, At, Unlock, Return, Become, Ends, Holds, DoneJob
  <2>2. ~Holds(n, t)'
    BY <1>2, <2>1, NewJobs DEF Ends, Holds
  <2> QED BY <2>1, <2>2 DEF Has
<1>6. CASE SkipPart(n, t) \/ Install(n, t)
  <2>1. \/ job[n][t].pc = "reading" /\ q \notin Required /\ mem' = mem
        \/ job[n][t].pc = "installing" /\ mem' = [mem EXCEPT ![n][q] = job[n][t].held]
    BY <1>6 DEF SkipPart, Install, QueryFails, At
  <2>2. \A i \in 1 .. Len(Order) : i <= at /\ Order[i] = p => Shows(mem'[n][p], v)
    <3> SUFFICES ASSUME NEW i \in 1 .. Len(Order), i <= at, Order[i] = p PROVE Shows(mem'[n][p], v)
      OBVIOUS
    <3>1. CASE job[n][t].pc = "reading" /\ q \notin Required /\ mem' = mem
      <4>1. i < at
        BY <1>1, <3>1
      <4> QED BY <3>1, <4>1 DEF Has, Holds
    <3>2. CASE job[n][t].pc = "installing" /\ mem' = [mem EXCEPT ![n][q] = job[n][t].held]
      <4>1. CASE q = p
        <5>1. mem'[n][p] = job[n][t].held
          BY <1>1, <1>2, <3>2, <4>1
        <5> QED BY <3>2, <4>1, <5>1 DEF Has, Holds, Loading
      <4>2. CASE q # p
        <5>1. i < at
          BY <1>1, <4>2
        <5>2. mem'[n][p] = mem[n][p]
          BY <1>1, <1>2, <3>2, <4>2
        <5> QED BY <3>2, <5>1, <5>2 DEF Has, Holds
      <4> QED BY <4>1, <4>2
    <3> QED BY <2>1, <3>1, <3>2
  <2>3. Advance(n, t) /\ Holds(n, t)
    BY <1>6, <2>1 DEF SkipPart, Install, Holds
  <2>4. CASE at < Len(Order) /\ GoesOn(n, t, ReadingJob(at + 1))
    <3>1. at + 1 \in 1 .. Len(Order)
      BY <1>1, <2>4
    <3>2. job'[n][t].pc = "reading" /\ job'[n][t].at = at + 1
      BY <1>2, <2>4, <3>1, NewJobs DEF GoesOn
    <3>3. Has(n, t, p, v)'
      BY <1>1, <2>2, <3>2 DEF Has, Loading
    <3>4. ~Ends(n, t, TRUE)
      <4>1. DoneJob(t).pc # "reading"
        BY NewJobs
      <4> QED BY <1>2, <3>2, <4>1 DEF Ends
    <3> QED BY <3>3, <3>4
  <2>5. CASE at = Len(Order) /\ Ends(n, t, TRUE)
    <3>1. ~Holds(n, t)'
      BY <1>2, <2>5, NewJobs DEF Ends, Holds
    <3>2. PICK i \in 1 .. Len(Order) : Order[i] = p
      BY DEF Parts
    <3>3. Shows(mem'[n][p], v)
      BY <1>1, <2>2, <2>5, <3>2
    <3>4. \A u \in Tasks : ~Loading(n, u, p)'
      BY <3>1, ReloadAlone DEF Loading, Holds
    <3> QED BY <3>1, <3>3, <3>4 DEF Has, Kept
  <2> QED BY <2>3, <2>4, <2>5, AdvanceMoves
<1> QED BY <1>3, <1>4, <1>5, <1>6 DEF ReloadFromDB

\* A reload changes no change of a handler, but whether it was synchronized.
LEMMA ReloadEdits ==
    ASSUME TypeOK, NEW n \in Nodes, NEW t \in Tasks, ReloadFromDB(n, t)
    PROVE  /\ \A h \in Handlers :
                 /\ edit'[h].node = edit[h].node /\ edit'[h].part = edit[h].part
                 /\ edit'[h].version = edit[h].version /\ edit'[h].ticket = edit[h].ticket
                 /\ edit'[h].synced => edit[h].synced \/ (h = t /\ Ends(n, t, TRUE) /\ ~Ends(n, t, FALSE))
           /\ \A m \in Nodes : ~missed'[m] => ~missed[m]
           /\ t = "subscriber" /\ ~missed'[n] /\ job'[n][t].pc = "idle" => Ends(n, t, TRUE) /\ ~Ends(n, t, FALSE)
<1>1. job \in [Nodes -> [Tasks -> Jobs]] /\ edit \in [Handlers -> Edits] /\ missed \in [Nodes -> BOOLEAN]
  BY DEF TypeOK, Edits
<1>2. CASE \E j : GoesOn(n, t, j) /\ j.pc # "idle"
  BY <1>1, <1>2 DEF GoesOn
<1>3. ASSUME NEW ok \in BOOLEAN, Ends(n, t, ok)
      PROVE  /\ \A h \in Handlers :
                   /\ edit'[h].node = edit[h].node /\ edit'[h].part = edit[h].part
                   /\ edit'[h].version = edit[h].version /\ edit'[h].ticket = edit[h].ticket
                   /\ edit'[h].synced = edit[h].synced \/ (h = t /\ edit'[h].synced = ok)
             /\ missed' = missed \/ missed' = [missed EXCEPT ![n] = TRUE]
             /\ t = "subscriber" /\ ok = FALSE => missed'[n] = TRUE
  <2>1. \A h \in Handlers :
                   /\ edit'[h].node = edit[h].node /\ edit'[h].part = edit[h].part
                   /\ edit'[h].version = edit[h].version /\ edit'[h].ticket = edit[h].ticket
                   /\ edit'[h].synced = edit[h].synced \/ (h = t /\ edit'[h].synced = ok)
    <3>1. CASE t \in Handlers /\ edit' = [edit EXCEPT ![t] = [edit[t] EXCEPT !.synced = ok]]
      <4>1. edit[t] \in Edits
        BY <1>1, <3>1
      <4> QED BY <1>1, <3>1, <4>1 DEF Edits
    <3>2. CASE edit' = edit
      BY <3>2
    <3> QED BY <1>3, <3>1, <3>2 DEF Ends
  <2>2. missed' = missed \/ missed' = [missed EXCEPT ![n] = TRUE]
    BY <1>3 DEF Ends
  <2>3. t = "subscriber" /\ ok = FALSE => missed'[n] = TRUE
    BY <1>1, <1>3 DEF Ends
  <2> QED BY <2>1, <2>2, <2>3
<1>4. t \in Handlers /\ Ends(n, t, FALSE) => ~edit'[t].synced
  BY <1>1 DEF Ends, Edits
<1>5. CASE Ends(n, t, TRUE) \/ Ends(n, t, FALSE)
  <2>1. PICK ok \in BOOLEAN : Ends(n, t, ok)
    BY <1>5
  <2>2. \A m \in Nodes : ~missed'[m] => ~missed[m]
    BY <1>1, <1>3, <2>1
  <2>3. t = "subscriber" /\ Ends(n, t, FALSE) => missed'[n]
    BY <1>3
  <2>4. ASSUME NEW h \in Handlers
        PROVE  edit'[h].synced => edit[h].synced \/ (h = t /\ Ends(n, t, TRUE) /\ ~Ends(n, t, FALSE))
    <3>1. CASE h # t
      BY <1>3, <2>1, <3>1
    <3>2. CASE h = t /\ Ends(n, t, FALSE)
      BY <1>4, <3>2
    <3>3. CASE h = t /\ ~Ends(n, t, FALSE)
      BY <1>5, <3>3
    <3> QED BY <3>1, <3>2, <3>3
  <2>5. \A h \in Handlers : /\ edit'[h].node = edit[h].node /\ edit'[h].part = edit[h].part
                            /\ edit'[h].version = edit[h].version /\ edit'[h].ticket = edit[h].ticket
    BY <1>3, <2>1
  <2>6. t = "subscriber" /\ ~missed'[n] => Ends(n, t, TRUE) /\ ~Ends(n, t, FALSE)
    BY <1>5, <2>3
  <2> QED BY <2>2, <2>4, <2>5, <2>6
<1>6. \/ \E j : GoesOn(n, t, j) /\ j.pc # "idle"
      \/ Ends(n, t, TRUE) \/ Ends(n, t, FALSE)
  <2>1. CASE Lock(n, t)
    <3>1. GoesOn(n, t, FirstRead)
      BY <2>1, NewJobs DEF Lock, Become, FirstRead, GoesOn, redisVars
    <3> QED BY <3>1, NewJobs
  <2>2. CASE Query(n, t)
    <3> DEFINE j == [job[n][t] EXCEPT !.pc = "installing", !.held = db[Order[job[n][t].at]]]
    <3>1. job[n][t] \in Jobs /\ db[Order[job[n][t].at]] \in Nat
      BY <1>1, PartAt DEF TypeOK
    <3>2. j \in Jobs /\ j.pc # "idle"
      BY <3>1 DEF Jobs
    <3>3. GoesOn(n, t, j)
      BY <2>2, <3>2 DEF Query, Become, GoesOn, redisVars
    <3> QED BY <3>2, <3>3
  <2>5. CASE QueryBreaks(n, t)
    <3>1. GoesOn(n, t, BrokenRead(n, t))
      BY <2>5, BrokenReadIs DEF QueryBreaks, Become, GoesOn, BrokenRead, redisVars
    <3> QED BY <3>1, BrokenReadIs
  <2>3. CASE Abort(n, t)
    BY <2>3 DEF Abort, QueryFails, At, Unlock, Return, Become, Ends, Holds, DoneJob
  <2>4. CASE SkipPart(n, t) \/ Install(n, t)
    <3>1. Advance(n, t) /\ Holds(n, t)
      BY <2>4 DEF SkipPart, Install, QueryFails, At, Holds
    <3>2. CASE job[n][t].at < Len(Order) /\ GoesOn(n, t, ReadingJob(job[n][t].at + 1))
      <4>1. job[n][t].at + 1 \in 1 .. Len(Order)
        BY <3>2, PartAt, FirstPart
      <4> QED BY <3>2, <4>1, NewJobs
    <3> QED BY <3>1, <3>2, AdvanceMoves
  <2> QED BY <2>1, <2>2, <2>3, <2>4, <2>5 DEF ReloadFromDB
<1> QED BY <1>2, <1>5, <1>6

Loads == Versions /\ HandlersLoad /\ SubscriberLoads /\ SyncedKept

LEMMA ReloadLoads ==
    ASSUME TypeOK, Lifecycle, Loads, TypeOK', NEW n \in Nodes, NEW t \in Tasks, ReloadFromDB(n, t)
    PROVE  Loads'
<1>1. UNCHANGED <<db, version, subscribed, local, first>> /\ job[n][t].pc # "idle"
  BY ReloadMoves
<1>2. \A h \in Handlers : /\ edit[h].part \in Parts /\ edit[h].version \in Nat /\ edit[h].version <= db[edit[h].part]
                          /\ edit[h].part \in Required => edit[h].part \in Guarded
  BY Numbers, GuardedParts DEF Loads, Versions
<1>3. \A h \in Handlers : /\ edit'[h].node = edit[h].node /\ edit'[h].part = edit[h].part
                          /\ edit'[h].version = edit[h].version /\ edit'[h].ticket = edit[h].ticket
  BY ReloadEdits
<1>4. ASSUME NEW m \in Nodes, NEW u \in Tasks, u # "start", NEW h \in Handlers, edit[h].part \in Required,
             Has(m, u, edit[h].part, edit[h].version)
      PROVE  Has(m, u, edit[h].part, edit[h].version)'
  <2> DEFINE p == edit[h].part
             v == edit[h].version
  <2>1. p \in Parts /\ v \in Nat /\ v <= db[p] /\ p \in Required /\ Has(m, u, p, v)
    BY <1>2, <1>4
  <2>2. edit'[h].part = p /\ edit'[h].version = v
    BY <1>3
  <2> HIDE DEF p, v
  <2>3. CASE m = n /\ u = t
    <3>1. \A i \in Nat, q \in Parts : q \in Required /\ i <= db[q] /\ Has(n, t, q, i) =>
              (Holds(n, t)' =>
                 /\ \A k \in 1 .. Len(Order) : k < job'[n][t].at /\ Order[k] = q => Shows(mem'[n][q], i)
                 /\ job'[n][t].pc = "installing" /\ Order[job'[n][t].at] = q => Shows(job'[n][t].held, i))
      BY <1>4, <2>3, HasHere DEF Has, Loading
    <3> QED BY <2>1, <2>2, <2>3, <3>1 DEF Has, Loading
  <2>4. CASE m = n /\ u # t
    <3>1. ~Holds(m, u)'
      BY <2>4, ReloadAlone DEF Holds
    <3> QED BY <3>1 DEF Has
  <2>5. CASE m # n
    <3>1. job'[m][u] = job[m][u] /\ mem'[m] = mem[m]
      BY <2>5, ReloadAlone, ReloadInstalls
    <3> QED BY <2>1, <2>2, <3>1 DEF Has, Holds, Loading
  <2> QED BY <2>3, <2>4, <2>5
<1>5. ASSUME NEW m \in Nodes, NEW h \in Handlers, edit[h].part \in Required,
             Kept(m, edit[h].part, edit[h].version)
      PROVE  Kept(m, edit[h].part, edit[h].version)'
  <2> DEFINE p == edit[h].part
             v == edit[h].version
  <2>1. p \in Guarded /\ v \in Nat /\ v <= db[p] /\ Kept(m, p, v)
    BY <1>2, <1>5
  <2>2. edit'[h].part = p /\ edit'[h].version = v
    BY <1>3
  <2> HIDE DEF p, v
  <2>3. \A q \in Guarded, i \in Nat : i <= db[q] /\ Kept(m, q, i) =>
           /\ Shows(mem'[m][q], i)
           /\ \A u \in Tasks : job'[m][u].pc = "installing" /\ Order[job'[m][u].at] = q => Shows(job'[m][u].held, i)
    BY KeptOn DEF Kept, Loading
  <2> QED BY <2>1, <2>2, <2>3 DEF Kept, Loading
<1>6. ASSUME NEW h \in Handlers, edit[h].part \in Required, t # "start",
             Has(n, t, edit[h].part, edit[h].version), Ends(n, t, TRUE), ~Ends(n, t, FALSE)
      PROVE  Kept(n, edit[h].part, edit[h].version)'
  <2> DEFINE p == edit[h].part
             v == edit[h].version
  <2>1. p \in Parts /\ p \in Required /\ v \in Nat /\ v <= db[p] /\ Has(n, t, p, v)
    BY <1>2, <1>6
  <2>2. edit'[h].part = p /\ edit'[h].version = v
    BY <1>3
  <2> HIDE DEF p, v
  <2>3. \A q \in Parts, i \in Nat : q \in Required /\ i <= db[q] /\ Has(n, t, q, i) =>
           /\ Shows(mem'[n][q], i)
           /\ \A u \in Tasks : job'[n][u].pc = "installing" /\ Order[job'[n][u].at] = q => Shows(job'[n][u].held, i)
    BY <1>6, HasHere DEF Kept, Loading
  <2> QED BY <2>1, <2>2, <2>3 DEF Kept, Loading
<1>7. Versions'
  BY <1>1, <1>3 DEF Loads, Versions
<1>8. HandlersLoad'
  <2> SUFFICES ASSUME NEW m \in Nodes, NEW h \in Handlers, edit'[h].node = m, edit'[h].part \in Required
               PROVE  Has(m, h, edit[h].part, edit[h].version)'
    BY DEF HandlersLoad
  <2>1. edit[h].node = m /\ edit[h].part \in Required
    BY <1>3
  <2> QED BY <1>4, <2>1, TasksAre DEF Loads, HandlersLoad
<1>9. SyncedKept'
  <2> SUFFICES ASSUME NEW h \in Handlers, edit'[h].synced, edit'[h].part \in Required
               PROVE  Kept(edit[h].node, edit[h].part, edit[h].version)'
    BY DEF SyncedKept
  <2>1. /\ edit'[h].node = edit[h].node /\ edit[h].part \in Required
        /\ edit[h].synced \/ (h = t /\ Ends(n, t, TRUE) /\ ~Ends(n, t, FALSE))
    BY <1>3, ReloadEdits
  <2>2. CASE edit[h].synced
    <3>1. edit[h].node \in Nodes
      BY <2>2 DEF Lifecycle
    <3>2. Kept(edit[h].node, edit[h].part, edit[h].version)
      BY <2>1, <2>2 DEF Loads, SyncedKept
    <3>3. \A m \in Nodes : m = edit[h].node => Kept(m, edit[h].part, edit[h].version)'
      BY <1>5, <2>1, <3>2
    <3> QED BY <2>1, <3>1, <3>3 DEF Kept, Loading
  <2>3. CASE h = t /\ Ends(n, t, TRUE) /\ ~Ends(n, t, FALSE)
    <3>1. edit[h].node = n
      BY <1>1, <2>3 DEF Lifecycle
    <3>2. Has(n, t, edit[h].part, edit[h].version)
      BY <2>1, <2>3, <3>1 DEF Loads, HandlersLoad
    <3>3. Kept(n, edit[h].part, edit[h].version)'
      BY <1>6, <2>1, <2>3, <3>2, TasksAre
    <3> QED BY <2>1, <3>1, <3>3 DEF Kept, Loading
  <2> QED BY <2>1, <2>2, <2>3
<1>10. SubscriberLoads'
  <2> SUFFICES ASSUME NEW m \in Nodes, NEW h \in Handlers, Noted(m, h)'
               PROVE  /\ Has(m, "subscriber", edit[h].part, edit[h].version)'
                      /\ job'[m]["subscriber"].pc = "idle" => Kept(m, edit[h].part, edit[h].version)'
    BY DEF SubscriberLoads, At
  <2>1. ~missed'[m] /\ ~missed[m]
    BY ReloadEdits DEF Noted
  <2>2. Noted(m, h)
    BY <1>1, <1>3, <2>1 DEF Noted
  <2>3. /\ Has(m, "subscriber", edit[h].part, edit[h].version) /\ edit[h].part \in Required
        /\ job[m]["subscriber"].pc = "idle" => Kept(m, edit[h].part, edit[h].version)
    BY <2>2 DEF Loads, SubscriberLoads, At, Noted
  <2>4. Has(m, "subscriber", edit[h].part, edit[h].version)'
    BY <1>4, <2>3, TasksAre, ClusterSyncAssumption
  <2>5. ASSUME job'[m]["subscriber"].pc = "idle" PROVE Kept(m, edit[h].part, edit[h].version)'
    <3>1. CASE m = n /\ t = "subscriber"
      <4>1. Ends(n, t, TRUE) /\ ~Ends(n, t, FALSE)
        BY <2>1, <2>5, <3>1, ReloadEdits
      <4> QED BY <1>6, <2>3, <3>1, <4>1
    <3>2. CASE m # n \/ t # "subscriber"
      <4>1. job[m]["subscriber"].pc = "idle"
        BY <2>5, <3>2, ReloadAlone, TasksAre
      <4> QED BY <1>5, <2>3, <4>1
    <3> QED BY <3>1, <3>2
  <2> QED BY <2>4, <2>5
<1> QED BY <1>7, <1>8, <1>9, <1>10 DEF Loads

\* The step that follows a change leaves it as it is, or gives it a ticket
\* nobody has noted.
LEMMA QuietChanges ==
    ASSUME TypeOK, NEW n \in Nodes, Quiet(n)
    PROVE  \A h \in Handlers :
              \/ /\ edit'[h].part = edit[h].part /\ edit'[h].version = edit[h].version
                 /\ \/ edit'[h].ticket = edit[h].ticket /\ version' >= version
                    \/ edit'[h].ticket = version + 1 /\ version' = version + 1 /\ local' = local
                 /\ edit'[h].node = edit[h].node /\ edit'[h].synced = edit[h].synced
              \/ /\ edit'[h].ticket = 0 /\ version' = version /\ ~edit'[h].synced /\ edit'[h].node = n
                 /\ edit'[h].version = db'[edit'[h].part]
                 /\ ~Holds(n, h)'
<1>0. edit \in [Handlers -> Edits] /\ version \in Nat
  BY DEF TypeOK, Edits
<1>1. CASE \E h \in Handlers : Write(n, h)
  <2>1. PICK h \in Handlers : Write(n, h)
    BY <1>1
  <2>2. PICK p \in Parts :
          /\ db' = [db EXCEPT ![p] = db[p] + 1]
          /\ edit' = [edit EXCEPT ![h] = [NoEdit EXCEPT !.node = n, !.part = p, !.version = db[p] + 1]]
          /\ job' = [job EXCEPT ![n][h] = AfterWrite(p)]
    BY <2>1 DEF Write, Become
  <2>3. edit'[h].ticket = 0 /\ ~edit'[h].synced /\ edit'[h].node = n /\ edit'[h].part = p /\ edit'[h].version = db[p] + 1
    BY <1>0, <2>2 DEF NoEdit
  <2>4. db'[p] = db[p] + 1
    BY <2>2 DEF TypeOK
  <2>5. job'[n][h].pc \in {"pricing", "waiting"} /\ version' = version
    BY <2>1, <2>2, TasksAre, HandlerJobs DEF Write, TypeOK, redisVars
  <2>6. \A g \in Handlers : g # h => edit'[g] = edit[g]
    BY <1>0, <2>2
  <2>7. version' >= version
    BY <1>0, <2>5
  <2> QED BY <2>3, <2>4, <2>5, <2>6, <2>7 DEF Holds
<1>2. CASE \E h \in Handlers : Increment(n, h) \/ Publish(n, h)
  <2>1. PICK h \in Handlers : Increment(n, h) \/ Publish(n, h)
    BY <1>2
  <2>2. \/ edit' = edit /\ version' = version
        \/ edit' = [edit EXCEPT ![h] = [edit[h] EXCEPT !.ticket = version + 1]] /\ version' = version + 1 /\ local' = local
    BY <2>1 DEF Increment, Publish
  <2>3. CASE edit' = edit /\ version' = version
    BY <1>0, <2>3
  <2>4. CASE /\ edit' = [edit EXCEPT ![h] = [edit[h] EXCEPT !.ticket = version + 1]]
             /\ version' = version + 1 /\ local' = local
    <3>1. /\ edit'[h].part = edit[h].part /\ edit'[h].version = edit[h].version /\ edit'[h].node = edit[h].node
          /\ edit'[h].synced = edit[h].synced /\ edit'[h].ticket = version + 1
      BY <1>0, <2>4 DEF Edits
    <3>2. \A g \in Handlers : g # h => edit'[g] = edit[g]
      BY <1>0, <2>4
    <3>3. version' >= version
      BY <1>0, <2>4
    <3> QED BY <2>4, <3>1, <3>2, <3>3
  <2> QED BY <2>2, <2>3, <2>4
<1>3. CASE PeriodicTick(n) \/ Subscribe(n) \/ Receive(n) \/ Reconcile(n)
  <2>1. edit' = edit /\ version' = version
    BY <1>3 DEF PeriodicTick, Subscribe, Receive, Reconcile, redisVars
  <2> QED BY <1>0, <2>1
<1>4. CASE Pricing(n)
  <2>1. edit' = edit /\ version' = version
    BY <1>4, PricingMoves DEF Pricing, redisVars
  <2> QED BY <1>0, <2>1
<1> QED BY <1>1, <1>2, <1>3, <1>4, QuietKinds

\* What a subscriber has noted, it had noted, or it is about to reload.
LEMMA QuietNotes ==
    ASSUME TypeOK, Versions, NEW n \in Nodes, Quiet(n)
    PROVE  /\ \A m \in Nodes : local'[m] <= version'
           /\ \A m \in Nodes :
                 \/ /\ subscribed'[m] = subscribed[m] /\ local'[m] = local[m] /\ first'[m] = first[m]
                    /\ job'[m]["subscriber"] = job[m]["subscriber"]
                 \/ subscribed'[m] = subscribed[m] /\ first'[m] = first[m] /\ job'[m]["subscriber"].pc = "waiting"
                 \/ local'[m] = first'[m]
<1>0. /\ local \in [Nodes -> Nat] /\ first \in [Nodes -> Nat] /\ version \in Nat
      /\ subscribed \in [Nodes -> BOOLEAN] /\ job \in [Nodes -> [Tasks -> Jobs]]
      /\ \A m \in Nodes : local[m] <= version
  BY DEF TypeOK, Versions
<1>1. CASE \E h \in Handlers : Handler(n, h)
  <2>1. PICK h \in Handlers : Handler(n, h)
    BY <1>1
  <2>2. UNCHANGED <<local, first, subscribed>> /\ version' \in {version, version + 1}
    BY <2>1 DEF Handler, Write, ReadPrices, InstallPrices, Increment, Publish, redisVars
  <2>3. \E j : job' = [job EXCEPT ![n][h] = j]
    BY <2>1 DEF Handler, Write, ReadPrices, InstallPrices, Increment, Publish, Wait, Become
  <2>4. \A m \in Nodes : job'[m]["subscriber"] = job[m]["subscriber"]
    BY <1>0, <2>3, TasksAre
  <2> QED BY <1>0, <2>2, <2>4
<1>2. CASE PeriodicTick(n)
  <2>1. UNCHANGED redisVars /\ job' = [job EXCEPT ![n]["periodic"] = WaitingJob]
    BY <1>2 DEF PeriodicTick, Wait, Become, WaitingJob
  <2>2. \A m \in Nodes : job'[m]["subscriber"] = job[m]["subscriber"]
    BY <1>0, <2>1, TasksAre
  <2> QED BY <1>0, <2>1, <2>2 DEF redisVars
<1>3. CASE Subscribe(n)
  <2>1. PICK v \in {0, version} : local' = [local EXCEPT ![n] = v] /\ first' = [first EXCEPT ![n] = v]
    BY <1>3 DEF Subscribe
  <2>2. job' = job /\ version' = version /\ \A m \in Nodes : m # n => subscribed'[m] = subscribed[m]
    BY <1>0, <1>3 DEF Subscribe
  <2> QED BY <1>0, <2>1, <2>2
<1>4. CASE Receive(n) \/ Reconcile(n)
  <2>1. job' = [job EXCEPT ![n]["subscriber"] = WaitingJob] /\ UNCHANGED <<subscribed, first, version>>
    BY <1>4 DEF Receive, Reconcile, Wait, Become, WaitingJob
  <2>2. local' = local \/ local' = [local EXCEPT ![n] = version]
    BY <1>0, <1>4 DEF Receive, Reconcile
  <2>3. /\ job'[n]["subscriber"].pc = "waiting"
        /\ \A m \in Nodes : m # n => job'[m]["subscriber"] = job[m]["subscriber"]
    BY <1>0, <2>1, NewJobs, TasksAre
  <2> QED BY <1>0, <2>1, <2>2, <2>3
<1> QED BY <1>1, <1>2, <1>3, <1>4 DEF Quiet

LEMMA QuietLoads ==
    ASSUME TypeOK, Lifecycle, Loads, TypeOK', NEW n \in Nodes, Quiet(n)
    PROVE  Loads'
<1>1. missed' = missed /\ \A m \in Nodes, p \in Guarded : mem'[m][p] = mem[m][p]
  BY QuietMoves
<1>2. \A m \in Nodes, u \in Tasks : Holds(m, u)' => job'[m][u] = job[m][u]
  BY OthersInstallNothing
<1>3. ASSUME NEW m \in Nodes, NEW u \in Tasks, NEW h \in Handlers, edit'[h].part \in Required,
             edit'[h].part = edit[h].part, edit'[h].version = edit[h].version,
             Has(m, u, edit[h].part, edit[h].version)
      PROVE  Has(m, u, edit[h].part, edit[h].version)'
  <2>1. mem'[m][edit[h].part] = mem[m][edit[h].part]
    BY <1>1, <1>3, GuardedParts
  <2> QED BY <1>2, <1>3, <2>1 DEF Has, Holds, Loading
<1>9. ASSUME NEW m \in Nodes, NEW h \in Handlers, edit'[h].part \in Required,
             edit'[h].part = edit[h].part, edit'[h].version = edit[h].version,
             Kept(m, edit[h].part, edit[h].version)
      PROVE  Kept(m, edit[h].part, edit[h].version)'
  <2>1. mem'[m][edit[h].part] = mem[m][edit[h].part]
    BY <1>1, <1>9, GuardedParts
  <2> QED BY <1>2, <1>9, <2>1 DEF Kept, Holds, Loading
<1>4. /\ \A h \in Handlers : edit[h].version <= db[edit[h].part] /\ edit[h].ticket <= version
      /\ \A m \in Nodes : local[m] <= version
      /\ \A p \in Parts : db'[p] >= db[p]
  BY DatabaseGrows DEF Loads, Versions
<1>5. Versions'
  <2>1. ASSUME NEW h \in Handlers
        PROVE  edit'[h].version <= db'[edit'[h].part] /\ edit'[h].ticket <= version'
    <3>1. /\ edit[h].part \in Parts /\ edit'[h].part \in Parts /\ edit[h].version \in Nat /\ edit'[h].version \in Nat
          /\ edit[h].ticket \in Nat /\ edit'[h].ticket \in Nat /\ version \in Nat /\ version' \in Nat
          /\ \A p \in Parts : db[p] \in Nat /\ db'[p] \in Nat
      BY DEF TypeOK
    <3>2. /\ edit[h].version <= db[edit[h].part] /\ edit[h].ticket <= version
          /\ \A p \in Parts : db'[p] >= db[p]
      BY <1>4
    <3>3. CASE /\ edit'[h].part = edit[h].part /\ edit'[h].version = edit[h].version
               /\ \/ edit'[h].ticket = edit[h].ticket /\ version' >= version
                  \/ edit'[h].ticket = version + 1 /\ version' = version + 1
      BY <3>1, <3>2, <3>3
    <3>4. CASE edit'[h].ticket = 0 /\ edit'[h].version = db'[edit'[h].part]
      BY <3>1, <3>4
    <3>5. \/ /\ edit'[h].part = edit[h].part /\ edit'[h].version = edit[h].version
             /\ \/ edit'[h].ticket = edit[h].ticket /\ version' >= version
                \/ edit'[h].ticket = version + 1 /\ version' = version + 1
          \/ edit'[h].ticket = 0 /\ edit'[h].version = db'[edit'[h].part]
      BY QuietChanges
    <3> QED BY <3>3, <3>4, <3>5
  <2>2. \A m \in Nodes : local'[m] <= version'
    BY QuietNotes DEF Loads
  <2> QED BY <2>1, <2>2 DEF Versions
<1>6. HandlersLoad'
  <2> SUFFICES ASSUME NEW m \in Nodes, NEW h \in Handlers, edit'[h].node = m, edit'[h].part \in Required
               PROVE  Has(m, h, edit[h].part, edit[h].version)'
    BY DEF HandlersLoad
  <2>1. CASE edit'[h].part = edit[h].part /\ edit'[h].version = edit[h].version /\ edit'[h].node = edit[h].node
    BY <1>3, <2>1, TasksAre DEF Loads, HandlersLoad
  <2>2. CASE ~Holds(n, h)' /\ edit'[h].node = n
    BY <2>2 DEF Has
  <2> QED BY <2>1, <2>2, QuietChanges
<1>7. SyncedKept'
  <2> SUFFICES ASSUME NEW h \in Handlers, edit'[h].synced, edit'[h].part \in Required
               PROVE  Kept(edit[h].node, edit[h].part, edit[h].version)'
    BY DEF SyncedKept
  <2>1. /\ edit'[h].part = edit[h].part /\ edit'[h].version = edit[h].version /\ edit'[h].node = edit[h].node
        /\ edit[h].synced
    BY QuietChanges
  <2>2. edit[h].node \in Nodes /\ Kept(edit[h].node, edit[h].part, edit[h].version)
    BY <2>1 DEF Loads, SyncedKept, Lifecycle
  <2>3. \A m \in Nodes : m = edit[h].node => Kept(m, edit[h].part, edit[h].version)'
    BY <1>9, <2>1, <2>2
  <2> QED BY <2>1, <2>2, <2>3 DEF Kept, Loading
<1>8. SubscriberLoads'
  <2> SUFFICES ASSUME NEW m \in Nodes, NEW h \in Handlers, Noted(m, h)'
               PROVE  /\ Has(m, "subscriber", edit[h].part, edit[h].version)'
                      /\ job'[m]["subscriber"].pc = "idle" => Kept(m, edit[h].part, edit[h].version)'
    BY DEF SubscriberLoads, At
  <2>1. /\ first'[m] < edit'[h].ticket /\ edit'[h].ticket <= local'[m] /\ edit'[h].part \in Required
        /\ subscribed'[m] /\ ~missed[m]
    BY <1>1 DEF Noted
  <2>2. first'[m] \in Nat /\ local'[m] \in Nat /\ local[m] \in Nat /\ version \in Nat /\ edit'[h].ticket \in Nat
    BY DEF TypeOK
  <2>3. local'[m] # first'[m] /\ edit'[h].ticket # 0
    BY <2>1, <2>2
  <2>4. /\ edit'[h].part = edit[h].part /\ edit'[h].version = edit[h].version
        /\ edit'[h].ticket = edit[h].ticket \/ (edit'[h].ticket = version + 1 /\ local' = local)
    BY <2>3, QuietChanges
  <2>5. edit'[h].ticket = edit[h].ticket
    BY <1>4, <2>1, <2>2, <2>4
  <2>6. CASE job'[m]["subscriber"].pc = "waiting"
    BY <2>6 DEF Has, Holds
  <2>7. CASE /\ subscribed'[m] = subscribed[m] /\ local'[m] = local[m] /\ first'[m] = first[m]
             /\ job'[m]["subscriber"] = job[m]["subscriber"]
    <3>1. Noted(m, h)
      BY <2>1, <2>4, <2>5, <2>7 DEF Noted
    <3>2. /\ Has(m, "subscriber", edit[h].part, edit[h].version)
          /\ job[m]["subscriber"].pc = "idle" => Kept(m, edit[h].part, edit[h].version)
      BY <3>1 DEF Loads, SubscriberLoads, At
    <3> QED BY <1>3, <1>9, <2>1, <2>4, <2>7, <3>2, TasksAre
  <2> QED BY <2>3, <2>6, <2>7, QuietNotes DEF Loads
<1> QED BY <1>5, <1>6, <1>7, <1>8 DEF Loads

\* A replica that is killed or starts has nobody who relies on its memory.
LEMMA ProcessLoads ==
    ASSUME TypeOK, Lifecycle, Loads, TypeOK', NEW n \in Nodes, Crash(n) \/ Restart(n)
    PROVE  Loads'
<1>0. job \in [Nodes -> [Tasks -> Jobs]] /\ edit \in [Handlers -> Edits]
  BY DEF TypeOK, Edits
<1>1. \A m \in Nodes : m # n => /\ mem'[m] = mem[m] /\ job'[m] = job[m] /\ missed'[m] = missed[m]
                                /\ subscribed'[m] = subscribed[m] /\ local'[m] = local[m] /\ first'[m] = first[m]
  <2>1. CASE Crash(n)
    BY <2>1 DEF Crash, TypeOK
  <2>2. CASE Restart(n)
    BY <2>2 DEF Restart, Wait, Become, TypeOK
  <2> QED BY <2>1, <2>2
<1>2. /\ \A t \in Tasks : t # "start" => job'[n][t].pc = "idle"
      /\ ~subscribed'[n] /\ local'[n] <= version
  <2>1. CASE Crash(n)
    BY <1>0, <2>1, IdleIsAJob DEF Crash, TypeOK
  <2>2. CASE Restart(n)
    <3>1. job' = [job EXCEPT ![n]["start"] = WaitingJob] /\ UNCHANGED <<subscribed, local>> /\ node[n] = "down"
      BY <2>2 DEF Restart, Wait, Become, WaitingJob
    <3> QED BY <1>0, <3>1 DEF Lifecycle, Loads, Versions
  <2> QED BY <2>1, <2>2
<1>3. \A h \in Handlers : /\ edit'[h].node = edit[h].node /\ edit'[h].part = edit[h].part
                          /\ edit'[h].version = edit[h].version /\ edit'[h].ticket = edit[h].ticket
                          /\ edit'[h].synced => edit[h].synced /\ edit[h].node # n
  <2>1. CASE Crash(n)
    BY <1>0, <2>1 DEF Crash, Edits
  <2>2. CASE Restart(n)
    BY <2>2 DEF Restart, Lifecycle
  <2> QED BY <2>1, <2>2
<1>4. db' = db /\ version' = version
  BY DEF Crash, Restart
<1>5. Versions'
  <2>1. \A m \in Nodes : local'[m] <= version
    BY <1>1, <1>2 DEF Loads, Versions
  <2> QED BY <1>3, <1>4, <2>1 DEF Loads, Versions
<1>6. HandlersLoad'
  <2> SUFFICES ASSUME NEW m \in Nodes, NEW h \in Handlers, edit'[h].node = m, edit'[h].part \in Required
               PROVE  Has(m, h, edit[h].part, edit[h].version)'
    BY DEF HandlersLoad
  <2>1. CASE m = n
    BY <1>2, <2>1, TasksAre DEF Has, Holds
  <2>2. CASE m # n
    <3>1. Has(m, h, edit[h].part, edit[h].version)
      BY <1>3 DEF Loads, HandlersLoad
    <3> QED BY <1>1, <1>3, <2>2, <3>1 DEF Has, Holds, Loading
  <2> QED BY <2>1, <2>2
<1>7. SyncedKept'
  <2> SUFFICES ASSUME NEW h \in Handlers, edit'[h].synced, edit'[h].part \in Required
               PROVE  Kept(edit[h].node, edit[h].part, edit[h].version)'
    BY DEF SyncedKept
  <2>1. edit[h].node \in Nodes /\ edit[h].node # n /\ edit[h].synced /\ edit[h].part \in Required
    BY <1>3 DEF Lifecycle
  <2>2. Kept(edit[h].node, edit[h].part, edit[h].version)
    BY <2>1 DEF Loads, SyncedKept
  <2> QED BY <1>1, <1>3, <2>1, <2>2 DEF Kept, Loading
<1>8. SubscriberLoads'
  <2> SUFFICES ASSUME NEW m \in Nodes, NEW h \in Handlers, Noted(m, h)'
               PROVE  /\ Has(m, "subscriber", edit[h].part, edit[h].version)'
                      /\ job'[m]["subscriber"].pc = "idle" => Kept(m, edit[h].part, edit[h].version)'
    BY DEF SubscriberLoads, At
  <2>1. m # n
    BY <1>2 DEF Noted
  <2>2. Noted(m, h)
    BY <1>1, <1>3, <2>1 DEF Noted
  <2>3. /\ Has(m, "subscriber", edit[h].part, edit[h].version)
        /\ job[m]["subscriber"].pc = "idle" => Kept(m, edit[h].part, edit[h].version)
    BY <2>2 DEF Loads, SubscriberLoads, At
  <2> QED BY <1>1, <1>3, <2>1, <2>3 DEF Has, Kept, Holds, Loading
<1> QED BY <1>5, <1>6, <1>7, <1>8 DEF Loads

-----------------------------------------------------------------------------

SyncInv == TypeOK /\ Lifecycle /\ Ordered /\ Loads

LEMMA InitHolds == Init => SyncInv
<1> SUFFICES ASSUME Init PROVE SyncInv
  OBVIOUS
<1>1. TypeOK
  BY InitOK
<1>2. \A n \in Nodes, t \in Tasks : job[n][t].pc = "idle"
  BY IdleIsAJob DEF Init
<1>3. \A h \in Handlers : edit[h].version = 0 /\ edit[h].ticket = 0 /\ ~edit[h].synced
  BY DEF Init, NoEdit
<1>4. Lifecycle
  BY <1>2, <1>3, TasksAre DEF Init, Lifecycle
<1>5. Ordered
  <2>1. \A n \in Nodes, p \in Guarded : mem[n][p] <= db[p]
    <3>1. \A p \in Parts : db[p] = 1 /\ Nothing[p] = 0
      BY DEF Init, Nothing, CutShort
    <3>2. \A n \in Nodes : mem[n] \in {db, Nothing}
      BY DEF Init
    <3> QED BY <3>1, <3>2, GuardedParts
  <2> QED BY <1>2, <2>1 DEF Ordered, Loading
<1>6. Versions
  BY <1>1, <1>3 DEF Init, Versions, TypeOK
<1>7. HandlersLoad /\ SyncedKept
  BY <1>2, <1>3, TasksAre DEF HandlersLoad, Has, Holds, SyncedKept
<1>8. SubscriberLoads
  <2>1. \A n \in Nodes, h \in Handlers : ~Noted(n, h)
    BY <1>3 DEF Init, Noted
  <2> QED BY <2>1 DEF SubscriberLoads
<1> QED BY <1>1, <1>4, <1>5, <1>6, <1>7, <1>8 DEF SyncInv, Loads

LEMMA StepHolds ==
    ASSUME SyncInv, [Next]_vars
    PROVE  /\ SyncInv'
           /\ \A n \in Nodes, p \in Guarded : Shows(mem'[n][p], mem[n][p])
<1>0. TypeOK /\ Lifecycle /\ Ordered /\ Loads
  BY DEF SyncInv
<1>1. ASSUME NEW n \in Nodes, NEW t \in Tasks, ReloadFromDB(n, t)
      PROVE  SyncInv' /\ \A m \in Nodes, p \in Guarded : Shows(mem'[m][p], mem[m][p])
  <2>1. TypeOK'
    BY <1>0, <1>1, ReloadOK
  <2> QED BY <1>0, <1>1, <2>1, ReloadLifecycle, ReloadOrdered, ReloadLoads DEF SyncInv
<1>2. ASSUME NEW n \in Nodes, Quiet(n) \/ Crash(n) \/ Restart(n)
      PROVE  SyncInv' /\ \A m \in Nodes, p \in Guarded : Shows(mem'[m][p], mem[m][p])
  <2>1. TypeOK' /\ Lifecycle'
    BY <1>0, <1>2, QuietOK, CrashOK, RestartOK, QuietLifecycle, CrashLifecycle, RestartLifecycle
  <2>2. Loads'
    BY <1>0, <1>2, <2>1, QuietLoads, ProcessLoads
  <2> QED BY <1>0, <1>2, <2>1, <2>2, OtherOrdered DEF SyncInv
<1>3. CASE UNCHANGED vars
  <2>1. TypeOK'
    BY <1>0, <1>3 DEF TypeOK, vars, redisVars
  <2>2. Lifecycle'
    BY <1>0, <1>3 DEF Lifecycle, vars, redisVars
  <2>3. Ordered'
    BY <1>0, <1>3 DEF Ordered, Loading, vars
  <2>4. Loads'
    BY <1>0, <1>3 DEF Loads, Versions, HandlersLoad, SubscriberLoads, SyncedKept, Kept, Noted, Has, Holds,
       Loading, At, vars, redisVars
  <2>5. \A n \in Nodes, p \in Guarded : Shows(mem'[n][p], mem[n][p])
    BY <1>0, <1>3, Numbers, GuardedParts DEF vars, Shows
  <2> QED BY <2>1, <2>2, <2>3, <2>4, <2>5 DEF SyncInv
<1> QED BY <1>1, <1>2, <1>3, NextIs

LEMMA InvHolds == Spec => []SyncInv
<1>1. SyncInv /\ [Next]_vars => SyncInv'
  BY StepHolds
<1> QED BY <1>1, InitHolds, PTL DEF Spec

\* All variables keep their types, and the mutex is held by the one task that
\* reloads.
THEOREM TypeCorrect == Spec => []TypeOK
<1>1. SyncInv => TypeOK
  BY DEF SyncInv
<1> QED BY <1>1, InvHolds, PTL

\* Whatever tasks reload it, a running replica never goes back to an older
\* version of a part that is loaded under the mutex only: it can but lose a
\* list to a read that was cut short.
THEOREM NeverRollsBack == Spec => NoRollback
<1>1. SyncInv /\ [Next]_vars =>
        [\A n \in Nodes : node[n] = "up" /\ node'[n] = "up" =>
            \A p \in Guarded : Shows(mem'[n][p], mem[n][p])]_vars
  BY StepHolds
<1> QED BY <1>1, InvHolds, PTL DEF Spec, NoRollback

\* An admin handler that was told that all is synchronized works with its
\* change, or with a list that was cut short, never with what was before it.
THEOREM WritesAreRead == Spec => []ReadYourWrites
<1>1. SyncInv => ReadYourWrites
  BY DEF SyncInv, Loads, SyncedKept, Kept, ReadYourWrites
<1> QED BY <1>1, InvHolds, PTL

\* Noting a version before the reload loses no change, but to a list that was
\* cut short.
THEOREM NotedIsLoaded == Spec => []NotedMeansLoaded
<1>1. SyncInv => NotedMeansLoaded
  BY DEF SyncInv, Loads, SubscriberLoads, Kept, Noted, NotedMeansLoaded
<1> QED BY <1>1, InvHolds, PTL

=============================================================================
