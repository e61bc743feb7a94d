----------------------------- MODULE UsagePipeline -----------------------------
(***************************************************************************)
(* The usage log pipeline of internal/storage/async_logger.go on several   *)
(* replicas: Record queues a usage record on the shared Redis stream, or   *)
(* in the replica's memory when Redis is not there or fails; two workers   *)
(* per replica write batches of records to the database, where they are    *)
(* charged.  With it the start and the shutdown order of                   *)
(* cmd/airoute/main.go, crashes, and replies of Redis that are lost.       *)
(***************************************************************************)
EXTENDS Naturals, Sequences, SequencesExt

CONSTANTS
    Nodes,      \* replicas
    Requests,   \* requests, each of which records one usage record
    NoNode,
    RingSize,   \* capacity of the in-memory queue (10000)
    BatchSize,  \* records per batch (100)
    StreamMax,  \* the length the stream is trimmed to (50000)
    Redis       \* is a Redis server configured?

ASSUME UsagePipelineAssumption ==
    /\ IsFiniteSet(Nodes) /\ NoNode \notin Nodes
    /\ RingSize \in Nat \ {0} /\ BatchSize \in Nat \ {0} /\ StreamMax \in Nat
    /\ Redis \in BOOLEAN

VARIABLES
    process,    \* process[n]: "up", "closing" (Shutdown waits), "stopping" (Stop waits), "exited"
    shared,     \* shared[n]: n reached Redis when it started
    home,       \* home[r]: the replica that is handling request r, or NoNode
    ring,       \* ring[n]: the in-memory queue
    worker,     \* worker[n]: "running", "draining" or "done"
    batch,      \* batch[n]: records the worker has taken off the queue
    consumer,   \* consumer[n]: where the stream worker is
    fetched,    \* fetched[n]: records it has read from the stream
    stream,     \* entries of the stream not yet delivered to the consumer group
    stored,     \* stored[r]: how often the record of r was written to the database
    recorded,   \* history: requests that have called Record
    doubled,    \* history: requests whose record was queued twice
    lost,       \* history: lost[r]: how many copies were given up
    overran     \* history: overran[n]: requests were running when Shutdown gave up waiting

nodeVars == <<process, shared, overran>>
localVars == <<ring, worker, batch>>
streamVars == <<consumer, fetched, stream>>
history == <<recorded, doubled, lost>>
vars == <<nodeVars, home, localVars, streamVars, stored, history>>

InMemory(n) == ring[n] \o batch[n] \o fetched[n]

Handled(n) == {r \in Requests : home[r] = n}

Init ==
    /\ process = [n \in Nodes |-> "up"]
    /\ shared = [n \in Nodes |-> Redis]
    /\ home = [r \in Requests |-> NoNode]
    /\ ring = [n \in Nodes |-> <<>>]
    /\ worker = [n \in Nodes |-> "running"]
    /\ batch = [n \in Nodes |-> <<>>]
    /\ consumer = [n \in Nodes |-> IF shared[n] THEN "read" ELSE "done"]
    /\ fetched = [n \in Nodes |-> <<>>]
    /\ stream = <<>>
    /\ stored = [r \in Requests |-> 0]
    /\ recorded = {}
    /\ doubled = {}
    /\ lost = [r \in Requests |-> 0]
    /\ overran = [n \in Nodes |-> FALSE]

\* How often r is in the sequence s.
Copies(r, s) == Cardinality({i \in DOMAIN s : s[i] = r})

Lose(s) == lost' = [r \in Requests |-> lost[r] + Copies(r, s)]

(* BatchRecordUsageLogs is one transaction; the workers ignore its error   *)
(* and do not keep the batch.                                              *)
BatchRecordUsageLogs(s) ==
    \/ stored' = [r \in Requests |-> stored[r] + Copies(r, s)] /\ UNCHANGED lost
    \/ s # <<>> /\ Lose(s) /\ UNCHANGED stored

-----------------------------------------------------------------------------
(* Requests. *)

Accept(r, n) ==
    /\ process[n] = "up"
    /\ r \notin recorded /\ home[r] = NoNode
    /\ home' = [home EXCEPT ![r] = n]
    /\ UNCHANGED <<nodeVars, localVars, streamVars, stored, history>>

\* select { case al.ch <- rec: default: drop }
Enqueue(r, n) ==
    IF Len(ring[n]) < RingSize
    THEN ring' = [ring EXCEPT ![n] = Append(@, r)] /\ UNCHANGED lost
    ELSE Lose(<<r>>) /\ UNCHANGED ring

RecordBoth(r, n) ==
    /\ home[r] = n
    /\ home' = [home EXCEPT ![r] = NoNode]
    /\ recorded' = recorded \cup {r}
    /\ Enqueue(r, n)
    /\ stream' = IF shared[n] THEN Append(stream, r) ELSE stream
    /\ UNCHANGED <<nodeVars, worker, batch, consumer, fetched, stored, doubled>>

(* XADD succeeds, or fails and the record goes to the queue in memory; it  *)
(* also goes there when XADD succeeded but its answer did not arrive       *)
(* within 250 ms.                                                          *)
Record(r, n) ==
    /\ home[r] = n
    /\ home' = [home EXCEPT ![r] = NoNode]
    /\ recorded' = recorded \cup {r}
    /\ \/ /\ shared[n]
          /\ stream' = Append(stream, r)
          /\ UNCHANGED <<ring, doubled, lost>>
       \/ /\ Enqueue(r, n)
          /\ UNCHANGED <<stream, doubled>>
       \/ /\ shared[n]
          /\ stream' = Append(stream, r)
          /\ Enqueue(r, n)
          /\ doubled' = doubled \cup {r}
    /\ UNCHANGED <<nodeVars, worker, batch, consumer, fetched, stored>>

-----------------------------------------------------------------------------
(* The local worker. *)

TakeOneMore(n) ==
    LET taken == Append(batch[n], Head(ring[n]))
    IN  /\ worker[n] = "running" /\ process[n] # "exited"
        /\ ring[n] # <<>>
        /\ ring' = [ring EXCEPT ![n] = Tail(@)]
        /\ IF Len(taken) > BatchSize
           THEN BatchRecordUsageLogs(taken) /\ batch' = [batch EXCEPT ![n] = <<>>]
           ELSE batch' = [batch EXCEPT ![n] = taken] /\ UNCHANGED <<stored, lost>>
        /\ UNCHANGED <<nodeVars, home, worker, streamVars, recorded, doubled>>

\* case rec := <-al.ch
Take(n) ==
    LET taken == Append(batch[n], Head(ring[n]))
    IN  /\ worker[n] = "running" /\ process[n] # "exited"
        /\ ring[n] # <<>>
        /\ ring' = [ring EXCEPT ![n] = Tail(@)]
        /\ IF Len(taken) >= BatchSize
           THEN BatchRecordUsageLogs(taken) /\ batch' = [batch EXCEPT ![n] = <<>>]
           ELSE batch' = [batch EXCEPT ![n] = taken] /\ UNCHANGED <<stored, lost>>
        /\ UNCHANGED <<nodeVars, home, worker, streamVars, recorded, doubled>>

FlushOnTickTwice(n) ==
    /\ worker[n] = "running" /\ process[n] # "exited"
    /\ batch[n] # <<>>
    /\ BatchRecordUsageLogs(batch[n])
    /\ UNCHANGED <<nodeVars, home, ring, worker, batch, streamVars, recorded, doubled>>

\* case <-ticker.C
FlushOnTick(n) ==
    /\ worker[n] = "running" /\ process[n] # "exited"
    /\ batch[n] # <<>>
    /\ BatchRecordUsageLogs(batch[n])
    /\ batch' = [batch EXCEPT ![n] = <<>>]
    /\ UNCHANGED <<nodeVars, home, ring, worker, streamVars, recorded, doubled>>

\* case <-al.stopCh
StartDraining(n) ==
    /\ worker[n] = "running" /\ process[n] = "stopping"
    /\ worker' = [worker EXCEPT ![n] = "draining"]
    /\ UNCHANGED <<nodeVars, home, ring, batch, streamVars, stored, history>>

Drain(n) ==
    /\ worker[n] = "draining"
    /\ ring[n] # <<>>
    /\ ring' = [ring EXCEPT ![n] = Tail(@)]
    /\ batch' = [batch EXCEPT ![n] = Append(@, Head(ring[n]))]
    /\ UNCHANGED <<nodeVars, home, worker, streamVars, stored, history>>

FinishWithoutDraining(n) ==
    /\ worker[n] = "draining"
    /\ worker' = [worker EXCEPT ![n] = "done"]
    /\ BatchRecordUsageLogs(batch[n])
    /\ batch' = [batch EXCEPT ![n] = <<>>]
    /\ UNCHANGED <<nodeVars, home, ring, streamVars, recorded, doubled>>

FinishDraining(n) ==
    /\ worker[n] = "draining"
    /\ ring[n] = <<>>
    /\ worker' = [worker EXCEPT ![n] = "done"]
    /\ BatchRecordUsageLogs(batch[n])
    /\ batch' = [batch EXCEPT ![n] = <<>>]
    /\ UNCHANGED <<nodeVars, home, ring, streamVars, recorded, doubled>>

LocalWorker(n) ==
    Take(n) \/ FlushOnTick(n) \/ StartDraining(n) \/ Drain(n) \/ FinishDraining(n)

-----------------------------------------------------------------------------
(* The stream worker. *)

At(n, pc) == consumer[n] = pc
Goto(n, pc) == consumer' = [consumer EXCEPT ![n] = pc]

\* The end of one round, with the look at stopCh that begins the next.
NextRound(n) == Goto(n, IF process[n] = "stopping" THEN "done" ELSE "read")

ReadFailed(n) ==
    /\ At(n, "read")
    /\ NextRound(n)
    /\ UNCHANGED <<nodeVars, home, localVars, fetched, stream, stored, history>>

(* XREADGROUP ">" delivers the next entries to this consumer and to no     *)
(* other, ever; when its answer is lost they stay pending.                 *)
Read(n) ==
    LET k == IF Len(stream) < BatchSize THEN Len(stream) ELSE BatchSize
        entries == SubSeq(stream, 1, k)
    IN  /\ At(n, "read")
        /\ stream # <<>>
        /\ stream' = SubSeq(stream, k + 1, Len(stream))
        /\ \/ /\ fetched' = [fetched EXCEPT ![n] = entries]
              /\ Goto(n, "write")
              /\ UNCHANGED lost
           \/ /\ Lose(entries)
              /\ NextRound(n)
              /\ UNCHANGED fetched
        /\ UNCHANGED <<nodeVars, home, localVars, stored, recorded, doubled>>

Write(n) ==
    /\ At(n, "write")
    /\ BatchRecordUsageLogs(fetched[n])
    /\ fetched' = [fetched EXCEPT ![n] = <<>>]
    /\ Goto(n, "ack")
    /\ UNCHANGED <<nodeVars, home, localVars, stream, recorded, doubled>>

(* XACK, whose outcome nothing depends on; every hundredth time the stream *)
(* is trimmed, delivered or not, and approximately: some of the excess may *)
(* stay.                                                                   *)
AckAndTrim(n) ==
    /\ At(n, "ack")
    /\ NextRound(n)
    /\ \E k \in {0} \cup {i \in 1 .. Len(stream) : Len(stream) - i >= StreamMax} :
          /\ stream' = SubSeq(stream, k + 1, Len(stream))
          /\ Lose(SubSeq(stream, 1, k))
    /\ UNCHANGED <<nodeVars, home, localVars, fetched, stored, recorded, doubled>>

StreamWorker(n) ==
    ReadFailed(n) \/ Read(n) \/ Write(n) \/ AckAndTrim(n)

-----------------------------------------------------------------------------
(* The process. *)

\* SIGTERM: srv.Shutdown accepts no more requests and waits for those running.
Terminate(n) ==
    /\ process[n] = "up"
    /\ process' = [process EXCEPT ![n] = "closing"]
    /\ UNCHANGED <<shared, overran, home, localVars, streamVars, stored, history>>

(* All requests have ended, or 10 s have passed: the deferred              *)
(* asyncLogger.Stop closes stopCh and waits for the workers.               *)
Stop(n) ==
    /\ process[n] = "closing"
    /\ process' = [process EXCEPT ![n] = "stopping"]
    /\ overran' = [overran EXCEPT ![n] = Handled(n) # {}]
    /\ UNCHANGED <<shared, home, localVars, streamVars, stored, history>>

\* What is in the memory of n goes with it, and so do its requests.
Vanish(n) ==
    /\ process' = [process EXCEPT ![n] = "exited"]
    /\ Lose(InMemory(n))
    /\ ring' = [ring EXCEPT ![n] = <<>>]
    /\ batch' = [batch EXCEPT ![n] = <<>>]
    /\ fetched' = [fetched EXCEPT ![n] = <<>>]
    /\ worker' = [worker EXCEPT ![n] = "done"]
    /\ Goto(n, "done")
    /\ home' = [r \in Requests |-> IF home[r] = n THEN NoNode ELSE home[r]]
    /\ overran' = [overran EXCEPT ![n] = FALSE]
    /\ UNCHANGED <<shared, stream, stored, recorded, doubled>>

\* main returns.
Exit(n) ==
    /\ process[n] = "stopping"
    /\ worker[n] = "done" /\ At(n, "done")
    /\ Vanish(n)

Crash(n) ==
    /\ process[n] # "exited"
    /\ Vanish(n)

\* A new process; without Redis at that moment it never uses the stream.
Restart(n) ==
    /\ process[n] = "exited"
    /\ process' = [process EXCEPT ![n] = "up"]
    /\ worker' = [worker EXCEPT ![n] = "running"]
    /\ \E reached \in {FALSE, Redis} :
          /\ shared' = [shared EXCEPT ![n] = reached]
          /\ Goto(n, IF reached THEN "read" ELSE "done")
    /\ UNCHANGED <<overran, home, ring, batch, fetched, stream, stored, history>>

Next ==
    \E n \in Nodes :
        \/ \E r \in Requests : Accept(r, n) \/ Record(r, n)
        \/ LocalWorker(n) \/ StreamWorker(n)
        \/ Terminate(n) \/ Stop(n) \/ Exit(n) \/ Crash(n) \/ Restart(n)

Spec == Init /\ [][Next]_vars

-----------------------------------------------------------------------------
(* Properties. *)

TypeOK ==
    /\ process \in [Nodes -> {"up", "closing", "stopping", "exited"}]
    /\ shared \in [Nodes -> BOOLEAN]
    /\ home \in [Requests -> Nodes \cup {NoNode}]
    /\ ring \in [Nodes -> Seq(Requests)] /\ \A n \in Nodes : Len(ring[n]) <= RingSize
    /\ worker \in [Nodes -> {"running", "draining", "done"}]
    /\ batch \in [Nodes -> Seq(Requests)]
    /\ \A n \in Nodes : worker[n] = "running" => Len(batch[n]) < BatchSize
    /\ consumer \in [Nodes -> {"read", "write", "ack", "done"}]
    /\ fetched \in [Nodes -> Seq(Requests)] /\ \A n \in Nodes : Len(fetched[n]) <= BatchSize
    /\ stream \in Seq(Requests)
    /\ stored \in [Requests -> Nat]
    /\ recorded \subseteq Requests /\ doubled \subseteq recorded
    /\ lost \in [Requests -> Nat]
    /\ overran \in [Nodes -> BOOLEAN]

(* Every record that was handed to Record is somewhere: queued in memory   *)
(* or on the stream, in the hands of a worker, in the database, or given   *)
(* up in a step that gives records up; and it is there once, or twice if   *)
(* the answer to its XADD was lost.                                        *)
Everywhere(r) ==
    SumFunction([n \in Nodes |-> Copies(r, InMemory(n))]) + Copies(r, stream) + stored[r] + lost[r]

EveryRecordIsAccountedFor ==
    \A r \in Requests :
        Everywhere(r) = IF r \in doubled THEN 2 ELSE IF r \in recorded THEN 1 ELSE 0

(* A request is charged at most once, unless the answer to its XADD was    *)
(* lost: however batches, crashes and replicas interleave, no record is    *)
(* written again.                                                          *)
ChargedOnce == \A r \in Requests : stored[r] <= 1 \/ r \in doubled

(* A shutdown that did not have to give up waiting for requests leaves     *)
(* nothing in memory when the process exits.                               *)
GracefulExitIsDrained ==
    [][\A n \in Nodes :
          Exit(n) /\ ~overran[n] => InMemory(n) = <<>>]_vars

(* "The asynchronous log buffer is drained into the database before the    *)
(* exit" (docs/HA_ARCHITECTURE.md:97).                                     *)
ExitIsDrained ==
    [][\A n \in Nodes : Exit(n) => InMemory(n) = <<>>]_vars
=============================================================================
