------------------------------ MODULE ClusterSync ------------------------------
(***************************************************************************)
(* How the replicas keep their memory in step with the database            *)
(* (internal/controlplane/sync.go, internal/distributed/redis.go and the   *)
(* start in cmd/airoute/main.go).  Three kinds of task reload a replica:   *)
(* the admin handler that changed the database, the subscriber of the      *)
(* Redis channel, and the periodic sync; one more runs when it starts.     *)
(*                                                                         *)
(* A part of the configuration is represented by its version: the number   *)
(* of committed changes to it.  0 stands for what is no version of the     *)
(* database: the configuration file, and a list that was cut short.        *)
(***************************************************************************)
EXTENDS Naturals, Sequences

CONSTANTS
    Nodes,      \* replicas
    Handlers,   \* admin requests; each makes one change
    NoTask, NoNode,
    Order,      \* what ReloadFromDB loads, in its order: channels, keys, fallbacks, prices
    Required,   \* what it cannot do without: channels and keys
    Redis,      \* is a Redis server configured?
    MaxFaults   \* bound on crashes and on failing queries, those at the start not counted

Parts == {Order[i] : i \in 1 .. Len(Order)}

ASSUME ClusterSyncAssumption ==
    /\ Order \in Seq(STRING) /\ Order # <<>> /\ Required \subseteq Parts
    /\ "prices" \in Parts \ Required
    /\ NoTask \notin Handlers \cup {"start", "periodic", "subscriber"}
    /\ Handlers \cap {"start", "periodic", "subscriber"} = {}
    /\ NoNode \notin Nodes
    /\ Redis \in BOOLEAN
    /\ MaxFaults \in Nat

Tasks == {"start", "periodic", "subscriber"} \cup Handlers

VARIABLES
    db,         \* db[p]: the version of part p in the database
    node,       \* node[n]: "down", "starting" or "up"
    mem,        \* mem[n][p]: the version in the memory of n
    lock,       \* lock[n]: the task that holds Synchronizer.mu, or NoTask
    job,        \* job[n][t]: where task t of n is
    edit,       \* edit[h]: the change that handler h has made
    version,    \* ConfigVersionKey in Redis
    active,     \* active[n]: n reached Redis when it started
    subscribed, \* subscribed[n]: n listens to ReloadChannel
    local,      \* local[n]: the subscriber's localVersion
    inbox,      \* inbox[n]: broadcasts received and not yet handled
    first,      \* history: first[n], the version n found when it subscribed
    missed,     \* history: missed[n], a reload of the subscriber of n failed
    faults      \* failures so far

redisVars == <<version, active, subscribed, local, inbox, first, missed>>
vars == <<db, node, mem, lock, job, edit, redisVars, faults>>

Idle == [pc |-> "idle", at |-> 1, held |-> 0]
NoEdit == [node |-> NoNode, part |-> Order[1], version |-> 0, ticket |-> 0, synced |-> FALSE]
CutShort == 0
Nothing == [p \in Parts |-> CutShort]

\* Some replicas have started; the others go through the start, as one does
\* that has crashed.
Init ==
    /\ db = [p \in Parts |-> 1]
    /\ node \in [Nodes -> {"up", "down"}]
    /\ mem = [n \in Nodes |-> IF node[n] = "up" THEN db ELSE Nothing]
    /\ lock = [n \in Nodes |-> NoTask]
    /\ job = [n \in Nodes |-> [t \in Tasks |-> Idle]]
    /\ edit = [h \in Handlers |-> NoEdit]
    /\ version = 0
    /\ active = [n \in Nodes |-> Redis /\ node[n] = "up"]
    /\ subscribed = active
    /\ local = [n \in Nodes |-> 0]
    /\ inbox = [n \in Nodes |-> 0]
    /\ first = [n \in Nodes |-> 0]
    /\ missed = [n \in Nodes |-> FALSE]
    /\ faults = 0

At(n, t, pc) == job[n][t].pc = pc
Become(n, t, j) == job' = [job EXCEPT ![n][t] = j]
Wait(n, t) == Become(n, t, [Idle EXCEPT !.pc = "waiting"])

Fault == faults < MaxFaults /\ faults' = faults + 1

\* A query meets a failure.
QueryFails(n, t) ==
    /\ At(n, t, "reading")
    /\ IF t = "start" THEN UNCHANGED faults ELSE Fault

-----------------------------------------------------------------------------
(* ReloadFromDB, whoever calls it. *)

LockAnyway(n, t) ==
    /\ At(n, t, "waiting")
    /\ lock' = [lock EXCEPT ![n] = t]
    /\ Become(n, t, [Idle EXCEPT !.pc = "reading"])
    /\ UNCHANGED <<db, node, mem, edit, redisVars, faults>>

Lock(n, t) ==
    /\ At(n, t, "waiting")
    /\ lock[n] = NoTask
    /\ lock' = [lock EXCEPT ![n] = t]
    /\ Become(n, t, [Idle EXCEPT !.pc = "reading"])
    /\ UNCHANGED <<db, node, mem, edit, redisVars, faults>>

Query(n, t) ==
    /\ At(n, t, "reading")
    /\ Become(n, t, [job[n][t] EXCEPT !.pc = "installing", !.held = db[Order[job[n][t].at]]])
    /\ UNCHANGED <<db, node, mem, lock, edit, redisVars, faults>>

(* The rows break off.  rows.Err() is asked nowhere, so the loop ends as    *)
(* after the last row and what was read passes for the whole list.         *)
QueryBreaks(n, t) ==
    /\ QueryFails(n, t)
    /\ Become(n, t, [job[n][t] EXCEPT !.pc = "installing", !.held = CutShort])
    /\ UNCHANGED <<db, node, mem, lock, edit, redisVars>>

\* What the caller does with the answer.
Return(n, t, ok) ==
    /\ Become(n, t, IF t \in Handlers THEN [Idle EXCEPT !.pc = "increment"] ELSE Idle)
    /\ edit' = IF t \in Handlers THEN [edit EXCEPT ![t].synced = ok] ELSE edit
    /\ node' = IF t = "start" THEN [node EXCEPT ![n] = "up"] ELSE node
    /\ missed' = IF t = "subscriber" /\ ~ok THEN [missed EXCEPT ![n] = TRUE] ELSE missed

KeepLocked(n, t, ok) ==
    /\ lock' = IF ok THEN [lock EXCEPT ![n] = NoTask] ELSE lock
    /\ Return(n, t, ok)

Unlock(n, t, ok) ==
    /\ lock' = [lock EXCEPT ![n] = NoTask]
    /\ Return(n, t, ok)

(* A query for a part it cannot do without fails: what is already          *)
(* installed stays, except that main then goes back to the channels of the *)
(* configuration file.                                                     *)
Abort(n, t) ==
    /\ QueryFails(n, t) /\ Order[job[n][t].at] \in Required
    /\ mem' = IF t = "start" THEN [mem EXCEPT ![n][Order[1]] = 0] ELSE mem
    /\ Unlock(n, t, FALSE)
    /\ UNCHANGED <<db, version, active, subscribed, local, inbox, first>>

\* On to the next part, or to the end.
Advance(n, t) ==
    IF job[n][t].at < Len(Order)
    THEN /\ Become(n, t, [Idle EXCEPT !.pc = "reading", !.at = job[n][t].at + 1])
         /\ UNCHANGED <<node, lock, edit, missed>>
    ELSE Unlock(n, t, TRUE)

\* A query for fallbacks or prices fails: the old ones stay, without an error.
SkipPart(n, t) ==
    /\ QueryFails(n, t) /\ Order[job[n][t].at] \notin Required
    /\ Advance(n, t)
    /\ UNCHANGED <<db, mem, version, active, subscribed, local, inbox, first>>

(* UpdateChannels, UpdateAPIKeys, SetModelFallbacks, ReloadPrices.  (The   *)
(* flag HasConfiguredKeys, which comes from a second listing of the keys   *)
(* whose error is ignored, is left out.)                                   *)
Install(n, t) ==
    /\ At(n, t, "installing")
    /\ mem' = [mem EXCEPT ![n][Order[job[n][t].at]] = job[n][t].held]
    /\ Advance(n, t)
    /\ UNCHANGED <<db, version, active, subscribed, local, inbox, first, faults>>

ReloadFromDB(n, t) ==
    Lock(n, t) \/ Query(n, t) \/ QueryBreaks(n, t) \/ Abort(n, t) \/ SkipPart(n, t) \/ Install(n, t)

-----------------------------------------------------------------------------
(* An admin handler: change the database, ReloadAndBroadcast, answer.  A   *)
(* change of prices is first loaded into the billing engine by the handler *)
(* itself, outside of the mutex.                                           *)

AfterWrite(p) == [Idle EXCEPT !.pc = IF p = "prices" THEN "pricing" ELSE "waiting"]

WriteUnlessReloading(n, h) ==
    /\ node[n] = "up" /\ edit[h] = NoEdit
    /\ \E p \in Parts :
          /\ db' = [db EXCEPT ![p] = @ + 1]
          /\ edit' = [edit EXCEPT ![h] = [NoEdit EXCEPT !.node = n, !.part = p, !.version = db[p] + 1,
                                                       !.synced = lock[n] # NoTask]]
    /\ IF lock[n] = NoTask THEN Wait(n, h) ELSE Become(n, h, [Idle EXCEPT !.pc = "increment"])
    /\ UNCHANGED <<node, mem, lock, redisVars, faults>>

Write(n, h) ==
    /\ node[n] = "up" /\ edit[h] = NoEdit
    /\ \E p \in Parts :
          /\ db' = [db EXCEPT ![p] = @ + 1]
          /\ edit' = [edit EXCEPT ![h] = [NoEdit EXCEPT !.node = n, !.part = p, !.version = db[p] + 1]]
          /\ Become(n, h, AfterWrite(p))
    /\ UNCHANGED <<node, mem, lock, redisVars, faults>>

\* GlobalEngine.ReloadPrices, whose error is ignored: read, then install.
ReadPrices(n, h) ==
    /\ At(n, h, "pricing")
    /\ \/ /\ Become(n, h, [Idle EXCEPT !.pc = "repricing", !.held = db["prices"]])
          /\ UNCHANGED faults
       \/ /\ Fault
          /\ \/ Become(n, h, [Idle EXCEPT !.pc = "repricing", !.held = CutShort])
             \/ Wait(n, h)
    /\ UNCHANGED <<db, node, mem, lock, edit, redisVars>>

\* What the synchronizer would load again not loaded.
InstallPricesOnly(n, h) ==
    /\ At(n, h, "repricing")
    /\ mem' = [mem EXCEPT ![n]["prices"] = job[n][h].held]
    /\ edit' = [edit EXCEPT ![h].synced = TRUE]
    /\ Become(n, h, [Idle EXCEPT !.pc = "increment"])
    /\ UNCHANGED <<db, node, lock, redisVars, faults>>

InstallPrices(n, h) ==
    /\ At(n, h, "repricing")
    /\ mem' = [mem EXCEPT ![n]["prices"] = job[n][h].held]
    /\ Wait(n, h)
    /\ UNCHANGED <<db, node, lock, edit, redisVars, faults>>

(* INCR ConfigVersionKey, whose error is ignored; also the context of a    *)
(* client that has left makes it fail.                                     *)
Increment(n, h) ==
    /\ At(n, h, "increment")
    /\ \/ /\ active[n]
          /\ version' = version + 1
          /\ edit' = [edit EXCEPT ![h].ticket = version + 1]
       \/ UNCHANGED <<version, edit>>
    /\ Become(n, h, [Idle EXCEPT !.pc = "publish"])
    /\ UNCHANGED <<db, node, mem, lock, active, subscribed, local, inbox, first, missed, faults>>

\* PUBLISH reaches any of the subscribers, or fails; the handler answers.
Publish(n, h) ==
    /\ At(n, h, "publish")
    /\ \E reached \in SUBSET {m \in Nodes : active[n] /\ subscribed[m]} :
          inbox' = [m \in Nodes |-> IF m \in reached THEN inbox[m] + 1 ELSE inbox[m]]
    /\ Become(n, h, Idle)
    /\ UNCHANGED <<db, node, mem, lock, edit, version, active, subscribed, local, first, missed, faults>>

Handler(n, h) ==
    \/ Write(n, h) \/ ReadPrices(n, h) \/ InstallPrices(n, h)
    \/ Increment(n, h) \/ Publish(n, h)

-----------------------------------------------------------------------------
(* The periodic sync and the subscriber. *)

PeriodicTickWithoutRedis(n) ==
    /\ node[n] = "up" /\ At(n, "periodic", "idle")
    /\ ~subscribed[n]
    /\ Wait(n, "periodic")
    /\ UNCHANGED <<db, node, mem, lock, edit, redisVars, faults>>

PeriodicTick(n) ==
    /\ node[n] = "up" /\ At(n, "periodic", "idle")
    /\ Wait(n, "periodic")
    /\ UNCHANGED <<db, node, mem, lock, edit, redisVars, faults>>

Subscribe(n) ==
    /\ node[n] = "up" /\ active[n] /\ ~subscribed[n]
    /\ subscribed' = [subscribed EXCEPT ![n] = TRUE]
    /\ \E v \in {0, version} :
          /\ local' = [local EXCEPT ![n] = v]
          /\ first' = [first EXCEPT ![n] = v]
    /\ UNCHANGED <<db, node, mem, lock, job, edit, version, active, inbox, missed, faults>>

\* A broadcast: the version is noted, if it can be read, before the reload.
Receive(n) ==
    /\ subscribed[n] /\ At(n, "subscriber", "idle")
    /\ inbox[n] > 0
    /\ inbox' = [inbox EXCEPT ![n] = @ - 1]
    /\ local' \in {local, [local EXCEPT ![n] = IF version > @ THEN version ELSE @]}
    /\ Wait(n, "subscriber")
    /\ UNCHANGED <<db, node, mem, lock, edit, version, active, subscribed, first, missed, faults>>

ReconcileWhileIdle(n) ==
    /\ subscribed[n] /\ At(n, "subscriber", "idle")
    /\ version > local[n]
    /\ local' = [local EXCEPT ![n] = version]
    /\ IF lock[n] = NoTask THEN Wait(n, "subscriber") ELSE UNCHANGED job
    /\ UNCHANGED <<db, node, mem, lock, edit, version, active, subscribed, inbox, first, missed, faults>>

Reconcile(n) ==
    /\ subscribed[n] /\ At(n, "subscriber", "idle")
    /\ version > local[n]
    /\ local' = [local EXCEPT ![n] = version]
    /\ Wait(n, "subscriber")
    /\ UNCHANGED <<db, node, mem, lock, edit, version, active, subscribed, inbox, first, missed, faults>>

-----------------------------------------------------------------------------
(* The process. *)

Crash(n) ==
    /\ node[n] # "down"
    /\ Fault
    /\ node' = [node EXCEPT ![n] = "down"]
    /\ mem' = [mem EXCEPT ![n] = Nothing]
    /\ lock' = [lock EXCEPT ![n] = NoTask]
    /\ job' = [job EXCEPT ![n] = [t \in Tasks |-> Idle]]
    /\ edit' = [h \in Handlers |->
                  IF edit[h].node = n THEN [edit[h] EXCEPT !.synced = FALSE] ELSE edit[h]]
    /\ active' = [active EXCEPT ![n] = FALSE]
    /\ subscribed' = [subscribed EXCEPT ![n] = FALSE]
    /\ local' = [local EXCEPT ![n] = 0]
    /\ inbox' = [inbox EXCEPT ![n] = 0]
    /\ first' = [first EXCEPT ![n] = 0]
    /\ missed' = [missed EXCEPT ![n] = FALSE]
    /\ UNCHANGED <<db, version>>

Restart(n) ==
    /\ node[n] = "down"
    /\ node' = [node EXCEPT ![n] = "starting"]
    /\ \E reached \in {FALSE, Redis} : active' = [active EXCEPT ![n] = reached]
    /\ Wait(n, "start")
    /\ UNCHANGED <<db, mem, lock, edit, version, subscribed, local, inbox, first, missed, faults>>

Next ==
    \E n \in Nodes :
        \/ \E t \in Tasks : ReloadFromDB(n, t)
        \/ \E h \in Handlers : Handler(n, h)
        \/ PeriodicTick(n)
        \/ Subscribe(n) \/ Receive(n) \/ Reconcile(n)
        \/ Crash(n) \/ Restart(n)

Spec == Init /\ [][Next]_vars

(* The ticker ticks; a query answers or fails, and the mutex is handed on  *)
(* to some task that waits for it.                                         *)
Fairness ==
    \A n \in Nodes :
        /\ WF_vars(PeriodicTick(n))
        /\ WF_vars(\E t \in Tasks : ReloadFromDB(n, t))

FairSpec == Spec /\ Fairness

-----------------------------------------------------------------------------
(* Properties. *)

Jobs == [pc : {"idle", "waiting", "reading", "installing", "pricing", "repricing",
               "increment", "publish"},
         at : 1 .. Len(Order), held : Nat]

TypeOK ==
    /\ db \in [Parts -> Nat]
    /\ node \in [Nodes -> {"down", "starting", "up"}]
    /\ mem \in [Nodes -> [Parts -> Nat]]
    /\ lock \in [Nodes -> Tasks \cup {NoTask}]
    /\ job \in [Nodes -> [Tasks -> Jobs]]
    /\ edit \in [Handlers -> [node : Nodes \cup {NoNode}, part : Parts, version : Nat,
                              ticket : Nat, synced : BOOLEAN]]
    /\ version \in Nat
    /\ active \in [Nodes -> BOOLEAN]
    /\ subscribed \in [Nodes -> BOOLEAN]
    /\ local \in [Nodes -> Nat]
    /\ inbox \in [Nodes -> Nat]
    /\ first \in [Nodes -> Nat]
    /\ missed \in [Nodes -> BOOLEAN]
    /\ faults \in 0 .. MaxFaults
    /\ \A n \in Nodes, t \in Tasks :
          job[n][t].pc \in {"reading", "installing"} <=> lock[n] = t

\* What was loaded is version v or later, or was cut short.
Shows(loaded, v) == loaded = CutShort \/ loaded >= v

\* The parts that are loaded under the mutex only.
Guarded == Parts \ {"prices"}

(* A running replica never goes back to an older version of such a part,   *)
(* whichever tasks reload it at once.                                      *)
NoRollback ==
    [][\A n \in Nodes : node[n] = "up" /\ node'[n] = "up" =>
          \A p \in Guarded : Shows(mem'[n][p], mem[n][p])]_vars

(* When ReloadAndBroadcast has returned without an error to the handler of *)
(* a change to channels or keys, the replica works with that change, or a  *)
(* later one, as long as the last list is complete: what was there before  *)
(* the change does not come back.                                          *)
ReadYourWrites ==
    \A h \in Handlers :
        edit[h].synced /\ edit[h].part \in Required =>
            Shows(mem[edit[h].node][edit[h].part], edit[h].version)

(* The subscriber notes a version before it reloads.  All the same, once   *)
(* it is idle, the changes behind the versions it has noted since it       *)
(* subscribed are in memory, unless one of its reloads failed or the last  *)
(* list was cut short.                                                     *)
NotedMeansLoaded ==
    \A n \in Nodes, h \in Handlers :
        /\ subscribed[n] /\ At(n, "subscriber", "idle") /\ ~missed[n]
        /\ first[n] < edit[h].ticket /\ edit[h].ticket <= local[n]
        /\ edit[h].part \in Required
        => Shows(mem[n][edit[h].part], edit[h].version)

(* A price change is in force when its handler has answered, or a later    *)
(* one is.  The reload of another price handler, outside of the mutex, may *)
(* take it back with what it read before; the reload that this one makes   *)
(* under the mutex repairs that, whatever the others do meanwhile.  (Where *)
(* nothing has failed: an error of either reload is ignored.)              *)
PricesInForce ==
    \A h \in Handlers :
        /\ faults = 0
        /\ edit[h].synced /\ edit[h].part = "prices"
        /\ \A g \in Handlers :
              edit[g].part = "prices" /\ edit[g].node = edit[h].node => edit[g].synced
        => mem[edit[h].node]["prices"] >= edit[h].version

(* When changes and failures have come to an end, every running replica    *)
(* gets to work with what is in the database, whatever broadcasts were     *)
(* lost and however its start went.                                        *)
Converges == <>[](\A n \in Nodes : node[n] = "up" => mem[n] = db)
===============================================================================
