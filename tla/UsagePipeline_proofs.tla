------------------------- MODULE UsagePipeline_proofs -------------------------
(***************************************************************************)
(* Proofs about UsagePipeline, for any number of replicas and requests,    *)
(* any capacities, with and without Redis.                                 *)
(***************************************************************************)
EXTENDS UsagePipeline, SumTheorems, SequenceTheorems

-----------------------------------------------------------------------------
(* How often a record is in a sequence. *)

Positions(r, s) == {i \in DOMAIN s : s[i] = r}

LEMMA CopiesType ==
    ASSUME NEW r, NEW s \in Seq(Requests)
    PROVE  IsFiniteSet(Positions(r, s)) /\ Copies(r, s) = Cardinality(Positions(r, s)) /\ Copies(r, s) \in Nat
<1>1. Len(s) \in Nat /\ DOMAIN s = 1 .. Len(s)
  BY LenProperties
<1>2. IsFiniteSet(1 .. Len(s))
  BY <1>1, FS_Interval
<1>3. Positions(r, s) \in SUBSET (1 .. Len(s))
  BY <1>1 DEF Positions
<1>4. IsFiniteSet(Positions(r, s))
  BY <1>2, <1>3, FS_Subset
<1>5. Copies(r, s) = Cardinality(Positions(r, s))
  BY DEF Copies, Positions
<1> QED BY <1>4, <1>5, FS_CardinalityType

LEMMA CopiesOfNothing == ASSUME NEW r PROVE Copies(r, <<>>) = 0
<1>1. {i \in DOMAIN <<>> : <<>>[i] = r} = {}
  BY EmptySeq
<1> QED BY <1>1, FS_EmptySet DEF Copies

LEMMA CopiesOfOne == ASSUME NEW r, NEW x PROVE Copies(r, <<x>>) = IF x = r THEN 1 ELSE 0
<1>1. CASE x = r
  <2>1. {i \in DOMAIN <<x>> : <<x>>[i] = r} = {1}
    BY <1>1
  <2> QED BY <1>1, <2>1, FS_Singleton DEF Copies
<1>2. CASE x # r
  <2>1. {i \in DOMAIN <<x>> : <<x>>[i] = r} = {}
    BY <1>2
  <2> QED BY <1>2, <2>1, FS_EmptySet DEF Copies
<1> QED BY <1>1, <1>2

LEMMA CopiesSplit ==
    ASSUME NEW r, NEW s \in Seq(Requests), NEW t \in Seq(Requests)
    PROVE  Copies(r, s \o t) = Copies(r, s) + Copies(r, t)
<1> DEFINE st == s \o t
           late == {i \in Positions(r, st) : i > Len(s)}
           shift == [i \in Positions(r, t) |-> i + Len(s)]
<1>1. /\ st \in Seq(Requests) /\ Len(s) \in Nat /\ Len(t) \in Nat /\ Len(st) = Len(s) + Len(t)
      /\ DOMAIN st = 1 .. Len(st) /\ DOMAIN s = 1 .. Len(s) /\ DOMAIN t = 1 .. Len(t)
  BY ConcatProperties, LenProperties
<1>2. \A i \in 1 .. Len(st) : st[i] = IF i <= Len(s) THEN s[i] ELSE t[i - Len(s)]
  BY ConcatProperties
<1>3. Positions(r, st) = Positions(r, s) \cup late
  <2> HIDE DEF st
  <2> QED BY <1>1, <1>2 DEF Positions
<1>4. Positions(r, s) \cap late = {}
  BY <1>1 DEF Positions
<1>5. shift \in Bijection(Positions(r, t), late)
  <2>1. \A i \in Positions(r, t) : i + Len(s) \in late
    <3> HIDE DEF st
    <3> QED BY <1>1, <1>2 DEF Positions
  <2>2. \A k \in late : \E i \in Positions(r, t) : k = i + Len(s)
    <3> HIDE DEF st
    <3> SUFFICES ASSUME NEW k \in late PROVE k - Len(s) \in Positions(r, t) /\ k = (k - Len(s)) + Len(s)
      BY Zenon
    <3>1. k \in 1 .. Len(st) /\ k > Len(s) /\ st[k] = r
      BY <1>1 DEF Positions
    <3> QED BY <1>1, <1>2, <3>1 DEF Positions
  <2>3. \A i, k \in Positions(r, t) : i + Len(s) = k + Len(s) => i = k
    BY <1>1 DEF Positions
  <2> HIDE DEF late
  <2> QED BY <2>1, <2>2, <2>3 DEF Bijection, Injection, Surjection, IsInjective
<1>6. IsFiniteSet(Positions(r, s)) /\ IsFiniteSet(Positions(r, t))
  BY CopiesType
<1>7. IsFiniteSet(late) /\ Cardinality(late) = Cardinality(Positions(r, t))
  <2> HIDE DEF late, shift
  <2>1. ExistsBijection(Positions(r, t), late)
    BY <1>5 DEF ExistsBijection
  <2> QED BY <2>1, <1>6, FS_Bijection
<1>8. Cardinality(Positions(r, st)) = Cardinality(Positions(r, s)) + Cardinality(Positions(r, t))
  <2> HIDE DEF late, st
  <2>1. Cardinality(Positions(r, s) \cap late) = 0
    BY <1>4, FS_EmptySet
  <2>2. Cardinality(Positions(r, s) \cup late)
          = Cardinality(Positions(r, s)) + Cardinality(late) - Cardinality(Positions(r, s) \cap late)
    BY <1>6, <1>7, FS_Union
  <2>3. Cardinality(Positions(r, s)) \in Nat /\ Cardinality(Positions(r, t)) \in Nat
    BY <1>6, FS_CardinalityType
  <2> QED BY <1>3, <1>7, <2>1, <2>2, <2>3
<1> QED BY <1>1, <1>8, CopiesType

LEMMA CopiesAppended ==
    ASSUME NEW r, NEW s \in Seq(Requests), NEW x \in Requests
    PROVE  Copies(r, Append(s, x)) = Copies(r, s) + (IF x = r THEN 1 ELSE 0)
<1>1. <<x>> \in Seq(Requests) /\ Append(s, x) = s \o <<x>>
  BY AppendIsConcat
<1>2. Copies(r, s \o <<x>>) = Copies(r, s) + Copies(r, <<x>>)
  BY <1>1, CopiesSplit
<1> QED BY <1>1, <1>2, CopiesOfOne

LEMMA CopiesOfTheRest ==
    ASSUME NEW r, NEW s \in Seq(Requests), s # <<>>
    PROVE  Copies(r, s) = (IF Head(s) = r THEN 1 ELSE 0) + Copies(r, Tail(s))
<1>1. Head(s) \in Requests /\ Tail(s) \in Seq(Requests) /\ <<Head(s)>> \in Seq(Requests)
  BY HeadTailProperties
<1>2. s = <<Head(s)>> \o Tail(s)
  <2>1. Len(s) \in Nat \ {0} /\ s \in [1 .. Len(s) -> Requests]
    BY EmptySeq, LenProperties
  <2>2. /\ SubSeq(s, 1, Len(s)) = <<s[1]>> \o SubSeq(s, 2, Len(s))
        /\ SubSeq(s, 1, Len(s)) = s
    BY <2>1, SubSeqRecursiveFirst, SubSeqFull
  <2>3. Tail(s) = SubSeq(s, 2, Len(s)) /\ Head(s) = s[1]
    BY TailIsSubSeq
  <2> QED BY <2>2, <2>3
<1>3. Copies(r, <<Head(s)>> \o Tail(s)) = Copies(r, <<Head(s)>>) + Copies(r, Tail(s))
  BY <1>1, CopiesSplit
<1> QED BY <1>2, <1>3, CopiesOfOne

LEMMA CopiesCut ==
    ASSUME NEW r, NEW s \in Seq(Requests), NEW k \in 0 .. Len(s)
    PROVE  /\ SubSeq(s, 1, k) \in Seq(Requests) /\ SubSeq(s, k + 1, Len(s)) \in Seq(Requests)
           /\ Len(SubSeq(s, 1, k)) = k
           /\ Copies(r, s) = Copies(r, SubSeq(s, 1, k)) + Copies(r, SubSeq(s, k + 1, Len(s)))
<1>0. Len(s) \in Nat
  BY LenProperties
<1>1. /\ SubSeq(s, 1, k) \in Seq(Requests) /\ Len(SubSeq(s, 1, k)) = k
      /\ SubSeq(s, k + 1, Len(s)) \in Seq(Requests)
  BY <1>0, SubSeqProperties
<1>2. s = SubSeq(s, 1, k) \o SubSeq(s, k + 1, Len(s))
  <2>1. 1 \in 1 .. Len(s) + 1 /\ k \in 1 - 1 .. Len(s) /\ Len(s) \in k .. Len(s)
    BY <1>0
  <2>2. SubSeq(s, 1, k) \o SubSeq(s, k + 1, Len(s)) = SubSeq(s, 1, Len(s))
    BY <2>1, ConcatAdjacentSubSeq
  <2> QED BY <2>2, SubSeqFull
<1>3. Copies(r, SubSeq(s, 1, k) \o SubSeq(s, k + 1, Len(s)))
        = Copies(r, SubSeq(s, 1, k)) + Copies(r, SubSeq(s, k + 1, Len(s)))
  BY <1>1, CopiesSplit
<1> QED BY <1>1, <1>2, <1>3

-----------------------------------------------------------------------------
(* A step of a replica n leaves the memory of the others alone, and makes  *)
(* no copies and loses none: what n, the stream, the database and the      *)
(* count of the losses hold of a record stays the same, taken together.    *)

Copy(r, n) == Copies(r, ring[n]) + Copies(r, batch[n]) + Copies(r, fetched[n])

Here(r, n) == Copy(r, n) + Copies(r, stream) + stored[r] + lost[r]

OthersAlone(n) ==
    \A m \in Nodes \ {n} : ring'[m] = ring[m] /\ batch'[m] = batch[m] /\ fetched'[m] = fetched[m]

Kept(r, n) == Here(r, n)' = Here(r, n)

Moves(n) ==
    /\ TypeOK'
    /\ OthersAlone(n)
    /\ \A r \in Requests : Kept(r, n)
    /\ recorded' = recorded /\ doubled' = doubled

LEMMA LosingIsTyped ==
    ASSUME TypeOK, NEW s \in Seq(Requests), Lose(s)
    PROVE  /\ lost' \in [Requests -> Nat]
           /\ \A r \in Requests : lost'[r] = lost[r] + Copies(r, s)
<1>1. \A r \in Requests : lost[r] + Copies(r, s) \in Nat
  BY CopiesType DEF TypeOK
<1> QED BY <1>1 DEF Lose

LEMMA BatchesAreWritten ==
    ASSUME TypeOK, NEW s \in Seq(Requests), BatchRecordUsageLogs(s)
    PROVE  /\ stored' \in [Requests -> Nat] /\ lost' \in [Requests -> Nat]
           /\ \A r \in Requests : stored'[r] + lost'[r] = stored[r] + lost[r] + Copies(r, s)
<1>1. \A r \in Requests : Copies(r, s) \in Nat
  BY CopiesType
<1>2. CASE stored' = [r \in Requests |-> stored[r] + Copies(r, s)] /\ UNCHANGED lost
  BY <1>1, <1>2 DEF TypeOK
<1>3. CASE Lose(s) /\ UNCHANGED stored
  BY <1>1, <1>3, LosingIsTyped DEF TypeOK
<1> QED BY <1>2, <1>3 DEF BatchRecordUsageLogs

\* The memory of a replica and the stream hold sequences, whose copies are numbers.
Numbers(r) ==
    /\ Copies(r, stream) \in Nat /\ stored[r] \in Nat /\ lost[r] \in Nat
    /\ \A n \in Nodes :
          /\ Copies(r, ring[n]) \in Nat /\ Copies(r, batch[n]) \in Nat
          /\ Copies(r, fetched[n]) \in Nat /\ Copy(r, n) \in Nat /\ Here(r, n) \in Nat
          /\ Copies(r, InMemory(n)) = Copy(r, n)

LEMMA CopiesAreNumbers == TypeOK => \A r \in Requests : Numbers(r)
<1> SUFFICES ASSUME TypeOK PROVE \A r \in Requests : Numbers(r)
  OBVIOUS
<1>1. /\ stream \in Seq(Requests)
      /\ \A n \in Nodes : ring[n] \in Seq(Requests) /\ batch[n] \in Seq(Requests) /\ fetched[n] \in Seq(Requests)
      /\ stored \in [Requests -> Nat] /\ lost \in [Requests -> Nat]
  BY DEF TypeOK
<1>2. ASSUME NEW r, NEW n \in Nodes PROVE Copies(r, InMemory(n)) = Copy(r, n)
  <2>1. ring[n] \o batch[n] \in Seq(Requests)
    BY <1>1, ConcatProperties
  <2>2. /\ Copies(r, ring[n] \o batch[n]) = Copies(r, ring[n]) + Copies(r, batch[n])
        /\ Copies(r, (ring[n] \o batch[n]) \o fetched[n]) = Copies(r, ring[n] \o batch[n]) + Copies(r, fetched[n])
    BY <1>1, <2>1, CopiesSplit
  <2> QED BY <2>2 DEF InMemory, Copy
<1>3. ASSUME NEW r \in Requests, NEW n \in Nodes
      PROVE  /\ Copies(r, ring[n]) \in Nat /\ Copies(r, batch[n]) \in Nat
             /\ Copies(r, fetched[n]) \in Nat /\ Copy(r, n) \in Nat
             /\ Copies(r, stream) \in Nat /\ stored[r] \in Nat /\ lost[r] \in Nat
  BY <1>1, CopiesType DEF Copy
<1>4. \A r \in Requests : Copies(r, stream) \in Nat /\ stored[r] \in Nat /\ lost[r] \in Nat
  BY <1>1, CopiesType
<1> QED BY <1>2, <1>3, <1>4 DEF Here, Numbers

LEMMA CopiesStayNumbers == TypeOK' => \A r \in Requests : Numbers(r)'
<1> DEFINE All == \A r \in Requests : Numbers(r)
<1>1. TypeOK => All
  BY CopiesAreNumbers
<1>2. TypeOK' => All'
  <2> HIDE DEF All
  <2> QED BY <1>1, PTL
<1> QED BY <1>2

\* A sum of six, and what it is after a step.
LEMMA KeptBySums ==
    ASSUME TypeOK, TypeOK', NEW n \in Nodes, NEW r \in Requests,
           Copies(r, ring'[n]) + Copies(r, batch'[n]) + Copies(r, fetched'[n])
             + Copies(r, stream') + (stored'[r] + lost'[r])
           = Copies(r, ring[n]) + Copies(r, batch[n]) + Copies(r, fetched[n])
             + Copies(r, stream) + (stored[r] + lost[r])
    PROVE  Kept(r, n)
<1>1. Numbers(r) /\ Numbers(r)'
  BY CopiesAreNumbers, CopiesStayNumbers
<1>2. /\ Here(r, n) = Copies(r, ring[n]) + Copies(r, batch[n]) + Copies(r, fetched[n])
                         + Copies(r, stream) + (stored[r] + lost[r])
      /\ Here(r, n)' = Copies(r, ring'[n]) + Copies(r, batch'[n]) + Copies(r, fetched'[n])
                         + Copies(r, stream') + (stored'[r] + lost'[r])
  BY <1>1 DEF Numbers, Here, Copy
<1> QED BY <1>2 DEF Kept

\* A step of n changes what is everywhere by what it changes here.
LEMMA HereAndEverywhere ==
    ASSUME TypeOK, TypeOK', NEW n \in Nodes, OthersAlone(n), NEW r \in Requests
    PROVE  Everywhere(r)' = Everywhere(r) - Here(r, n) + Here(r, n)'
<1> DEFINE held == [m \in Nodes |-> Copies(r, InMemory(m))]
           held1 == [m \in Nodes |-> Copies(r, InMemory(m)')]
<1>1. /\ \A m \in Nodes : held[m] = Copy(r, m) /\ held[m] \in Nat
      /\ Copies(r, stream) \in Nat /\ stored[r] \in Nat /\ lost[r] \in Nat
  BY CopiesAreNumbers DEF Numbers
<1>2. /\ \A m \in Nodes : held1[m] = Copy(r, m)' /\ held1[m] \in Nat
      /\ Copies(r, stream)' \in Nat /\ stored'[r] \in Nat /\ lost'[r] \in Nat
  BY CopiesStayNumbers DEF Numbers
<1>3. \A m \in Nodes \ {n} : held1[m] = held[m]
  BY DEF OthersAlone, InMemory
<1>4. /\ SumFunctionOnSet(held1, Nodes) = SumFunctionOnSet(held, Nodes) - held[n] + held1[n]
      /\ SumFunctionOnSet(held, Nodes) \in Nat
  <2>1. IsFiniteSet(Nodes)
    BY UsagePipelineAssumption
  <2> HIDE DEF held, held1
  <2> QED BY <1>1, <1>2, <1>3, <2>1, SumChange, SumType
<1>5. /\ Everywhere(r) = SumFunctionOnSet(held, Nodes) + Copies(r, stream) + stored[r] + lost[r]
      /\ Everywhere(r)' = SumFunctionOnSet(held1, Nodes) + Copies(r, stream)' + stored'[r] + lost'[r]
  BY DEF Everywhere, SumFunction
<1> HIDE DEF held, held1
<1> QED BY <1>1, <1>2, <1>4, <1>5 DEF Here

-----------------------------------------------------------------------------
(* What a replica that shuts down has still to do. *)

Winding(n) ==
    /\ worker[n] = "draining" => process[n] = "stopping"
    /\ worker[n] = "done" => process[n] \in {"stopping", "exited"} /\ batch[n] = <<>>
    /\ process[n] = "exited" => worker[n] = "done" /\ consumer[n] = "done"
    /\ consumer[n] # "write" => fetched[n] = <<>>
    /\ process[n] = "stopping" /\ ~overran[n] => Handled(n) = {}
    /\ process[n] = "stopping" /\ ~overran[n] /\ worker[n] = "done" => ring[n] = <<>>

-----------------------------------------------------------------------------
(* Steps of the workers. *)

LEMMA TakeMoves == ASSUME TypeOK, NEW n \in Nodes, Take(n) PROVE Moves(n)
<1> DEFINE x == Head(ring[n])
           taken == Append(batch[n], x)
<1>1. /\ ring[n] \in Seq(Requests) /\ batch[n] \in Seq(Requests) /\ ring[n] # <<>>
      /\ x \in Requests /\ Tail(ring[n]) \in Seq(Requests) /\ Len(Tail(ring[n])) <= Len(ring[n])
      /\ taken \in Seq(Requests) /\ worker[n] = "running" /\ Len(ring[n]) \in Nat
  BY HeadTailProperties, AppendProperties, LenProperties DEF Take, TypeOK
<1>2. /\ ring' = [ring EXCEPT ![n] = Tail(@)]
      /\ UNCHANGED <<nodeVars, home, worker, streamVars, recorded, doubled>>
  BY DEF Take
<1>3. \A r : /\ Copies(r, ring[n]) = (IF x = r THEN 1 ELSE 0) + Copies(r, Tail(ring[n]))
             /\ Copies(r, taken) = Copies(r, batch[n]) + (IF x = r THEN 1 ELSE 0)
  BY <1>1, CopiesOfTheRest, CopiesAppended
<1>4. /\ ring' \in [Nodes -> Seq(Requests)] /\ \A m \in Nodes : Len(ring'[m]) <= RingSize
      /\ ring'[n] = Tail(ring[n])
  <2>1. Len(Tail(ring[n])) \in Nat /\ RingSize \in Nat /\ Len(ring[n]) <= RingSize
    BY <1>1, UsagePipelineAssumption, LenProperties DEF TypeOK
  <2> QED BY <1>1, <1>2, <2>1 DEF TypeOK
<1>5. \A r \in Requests : Copies(r, Tail(ring[n])) \in Nat /\ Copies(r, taken) \in Nat
  BY <1>1, CopiesType
<1>6. CASE Len(taken) >= BatchSize
  <2>1. BatchRecordUsageLogs(taken) /\ batch' = [batch EXCEPT ![n] = <<>>]
    BY <1>6 DEF Take
  <2>2. /\ stored' \in [Requests -> Nat] /\ lost' \in [Requests -> Nat]
        /\ \A r \in Requests : stored'[r] + lost'[r] = stored[r] + lost[r] + Copies(r, taken)
    BY <1>1, <2>1, BatchesAreWritten
  <2>3. /\ batch' \in [Nodes -> Seq(Requests)] /\ batch'[n] = <<>>
        /\ \A m \in Nodes \ {n} : batch'[m] = batch[m]
    BY <2>1, EmptySeq DEF TypeOK
  <2>4. TypeOK'
    <3>1. \A m \in Nodes : worker'[m] = "running" => Len(batch'[m]) < BatchSize
      <4>1. Len(<<>>) < BatchSize
        BY UsagePipelineAssumption
      <4> QED BY <1>2, <2>3, <4>1 DEF TypeOK
    <3> QED BY <1>2, <1>4, <2>2, <2>3, <3>1 DEF TypeOK, nodeVars, streamVars
  <2>5. \A r \in Requests : Kept(r, n)
    <3> SUFFICES ASSUME NEW r \in Requests PROVE Kept(r, n)
      OBVIOUS
    <3>1. /\ ring'[n] = Tail(ring[n]) /\ Copies(r, batch'[n]) = 0 /\ fetched'[n] = fetched[n] /\ stream' = stream
          /\ stored'[r] + lost'[r] = stored[r] + lost[r] + Copies(r, taken)
      BY <1>2, <1>4, <2>2, <2>3, CopiesOfNothing DEF streamVars
    <3> DEFINE one == IF x = r THEN 1 ELSE 0
    <3>2. /\ Copies(r, ring[n]) = one + Copies(r, Tail(ring[n])) /\ one \in Nat
          /\ Copies(r, taken) = Copies(r, batch[n]) + one
          /\ Copies(r, Tail(ring[n])) \in Nat /\ Numbers(r)
      BY <1>3, <1>5, CopiesAreNumbers
    <3> HIDE DEF taken, x, one
    <3>3. Copies(r, ring'[n]) + Copies(r, batch'[n]) + Copies(r, fetched'[n])
             + Copies(r, stream') + (stored'[r] + lost'[r])
           = Copies(r, ring[n]) + Copies(r, batch[n]) + Copies(r, fetched[n])
             + Copies(r, stream) + (stored[r] + lost[r])
      BY <3>1, <3>2 DEF Numbers
    <3> QED BY <2>4, <3>3, KeptBySums
  <2> QED BY <1>2, <1>4, <2>3, <2>4, <2>5 DEF Moves, OthersAlone, streamVars
<1>7. CASE ~(Len(taken) >= BatchSize)
  <2>1. batch' = [batch EXCEPT ![n] = taken] /\ UNCHANGED <<stored, lost>>
    BY <1>7 DEF Take
  <2>2. /\ batch' \in [Nodes -> Seq(Requests)] /\ batch'[n] = taken
        /\ \A m \in Nodes \ {n} : batch'[m] = batch[m]
    BY <1>1, <2>1 DEF TypeOK
  <2>3. TypeOK'
    <3>1. \A m \in Nodes : worker'[m] = "running" => Len(batch'[m]) < BatchSize
      <4>1. Len(taken) < BatchSize
        BY <1>1, <1>7, UsagePipelineAssumption, LenProperties
      <4> QED BY <1>2, <2>2, <4>1 DEF TypeOK
    <3> QED BY <1>2, <1>4, <2>1, <2>2, <3>1 DEF TypeOK, nodeVars, streamVars
  <2>4. \A r \in Requests : Kept(r, n)
    <3> SUFFICES ASSUME NEW r \in Requests PROVE Kept(r, n)
      OBVIOUS
    <3>1. /\ ring'[n] = Tail(ring[n]) /\ batch'[n] = taken /\ fetched'[n] = fetched[n] /\ stream' = stream
          /\ stored' = stored /\ lost' = lost
      BY <1>2, <1>4, <2>1, <2>2 DEF streamVars
    <3>2. /\ Copies(r, ring[n]) = (IF x = r THEN 1 ELSE 0) + Copies(r, Tail(ring[n]))
          /\ Copies(r, taken) = Copies(r, batch[n]) + (IF x = r THEN 1 ELSE 0)
          /\ Copies(r, Tail(ring[n])) \in Nat /\ Numbers(r)
      BY <1>3, <1>5, CopiesAreNumbers
    <3> HIDE DEF taken, x
    <3> QED BY <2>3, <3>1, <3>2, KeptBySums DEF Numbers
  <2> QED BY <1>2, <1>4, <2>2, <2>3, <2>4 DEF Moves, OthersAlone, streamVars
<1> QED BY <1>6, <1>7

\* A step that leaves the records where they are.
LEMMA StillMoves ==
    ASSUME TypeOK, TypeOK', NEW n \in Nodes,
           UNCHANGED <<ring, batch, fetched, stream, stored, recorded, doubled, lost>>
    PROVE  Moves(n)
<1>1. \A r \in Requests : Kept(r, n)
  <2> SUFFICES ASSUME NEW r \in Requests PROVE Kept(r, n)
    OBVIOUS
  <2>1. Copy(r, n)' = Copy(r, n) /\ Copies(r, stream)' = Copies(r, stream) /\ stored' = stored
    BY DEF Copy
  <2> QED BY <2>1, CopiesAreNumbers DEF Numbers, Kept, Here
<1> QED BY <1>1 DEF Moves, OthersAlone

LEMMA EmptyBatch == <<>> \in Seq(Requests) /\ Len(<<>>) < BatchSize /\ Len(<<>>) = 0
BY EmptySeq, UsagePipelineAssumption

\* The batch of n is written or given up, and forgotten.
LEMMA FlushMoves ==
    ASSUME TypeOK, NEW n \in Nodes,
           BatchRecordUsageLogs(batch[n]),
           batch' = [batch EXCEPT ![n] = <<>>],
           worker' \in [Nodes -> {"running", "draining", "done"}],
           \A m \in Nodes \ {n} : worker'[m] = worker[m],
           UNCHANGED <<nodeVars, home, ring, streamVars, recorded, doubled>>
    PROVE  Moves(n)
<1>1. batch[n] \in Seq(Requests)
  BY DEF TypeOK
<1>2. /\ stored' \in [Requests -> Nat] /\ lost' \in [Requests -> Nat]
      /\ \A r \in Requests : stored'[r] + lost'[r] = stored[r] + lost[r] + Copies(r, batch[n])
  BY <1>1, BatchesAreWritten
<1>3. /\ batch' \in [Nodes -> Seq(Requests)] /\ batch'[n] = <<>>
      /\ \A m \in Nodes \ {n} : batch'[m] = batch[m]
  BY EmptyBatch DEF TypeOK
<1>4. TypeOK'
  <2>1. \A m \in Nodes : worker'[m] = "running" => Len(batch'[m]) < BatchSize
    BY <1>3, EmptyBatch DEF TypeOK
  <2> QED BY <1>2, <1>3, <2>1 DEF TypeOK, nodeVars, streamVars
<1>5. \A r \in Requests : Kept(r, n)
  <2> SUFFICES ASSUME NEW r \in Requests PROVE Kept(r, n)
    OBVIOUS
  <2>1. /\ ring' = ring /\ Copies(r, batch'[n]) = 0 /\ fetched' = fetched /\ stream' = stream
        /\ stored'[r] + lost'[r] = stored[r] + lost[r] + Copies(r, batch[n]) /\ Numbers(r)
    BY <1>2, <1>3, CopiesOfNothing, CopiesAreNumbers DEF streamVars
  <2> QED BY <1>4, <2>1, KeptBySums DEF Numbers
<1> QED BY <1>3, <1>4, <1>5 DEF Moves, OthersAlone, streamVars

LEMMA FlushOnTickMoves == ASSUME TypeOK, NEW n \in Nodes, FlushOnTick(n) PROVE Moves(n)
<1>1. worker' \in [Nodes -> {"running", "draining", "done"}] /\ worker' = worker
  BY DEF FlushOnTick, TypeOK
<1> QED BY <1>1, FlushMoves DEF FlushOnTick

LEMMA FinishDrainingMoves == ASSUME TypeOK, NEW n \in Nodes, FinishDraining(n) PROVE Moves(n)
<1>1. worker' \in [Nodes -> {"running", "draining", "done"}] /\ \A m \in Nodes \ {n} : worker'[m] = worker[m]
  BY DEF FinishDraining, TypeOK
<1> QED BY <1>1, FlushMoves DEF FinishDraining

LEMMA StartDrainingMoves == ASSUME TypeOK, NEW n \in Nodes, StartDraining(n) PROVE Moves(n)
<1>1. TypeOK'
  BY DEF StartDraining, TypeOK, nodeVars, streamVars, history
<1> QED BY <1>1, StillMoves DEF StartDraining, streamVars, history

LEMMA DrainMoves == ASSUME TypeOK, NEW n \in Nodes, Drain(n) PROVE Moves(n)
<1> DEFINE x == Head(ring[n])
           taken == Append(batch[n], x)
<1>1. /\ ring[n] \in Seq(Requests) /\ batch[n] \in Seq(Requests) /\ ring[n] # <<>>
      /\ x \in Requests /\ Tail(ring[n]) \in Seq(Requests) /\ Len(Tail(ring[n])) <= RingSize
      /\ taken \in Seq(Requests) /\ worker[n] = "draining"
  <2>1. ring[n] \in Seq(Requests) /\ batch[n] \in Seq(Requests) /\ ring[n] # <<>> /\ worker[n] = "draining"
    BY DEF Drain, TypeOK
  <2>2. x \in Requests /\ Tail(ring[n]) \in Seq(Requests) /\ Len(Tail(ring[n])) = Len(ring[n]) - 1
    BY <2>1, HeadTailProperties
  <2>3. Len(ring[n]) \in Nat /\ RingSize \in Nat /\ Len(ring[n]) <= RingSize
    BY <2>1, LenProperties, UsagePipelineAssumption DEF TypeOK
  <2> QED BY <2>1, <2>2, <2>3, AppendProperties
<1>2. /\ ring' \in [Nodes -> Seq(Requests)] /\ ring'[n] = Tail(ring[n])
      /\ \A m \in Nodes \ {n} : ring'[m] = ring[m]
      /\ batch' \in [Nodes -> Seq(Requests)] /\ batch'[n] = taken
      /\ \A m \in Nodes \ {n} : batch'[m] = batch[m]
      /\ UNCHANGED <<nodeVars, home, worker, streamVars, stored, history>>
  BY <1>1 DEF Drain, TypeOK
<1>3. TypeOK'
  <2>1. /\ \A m \in Nodes : worker'[m] = "running" => Len(batch'[m]) < BatchSize
        /\ \A m \in Nodes : Len(ring'[m]) <= RingSize
    BY <1>1, <1>2 DEF TypeOK
  <2> QED BY <1>2, <2>1 DEF TypeOK, nodeVars, streamVars, history
<1>4. \A r \in Requests : Kept(r, n)
  <2> SUFFICES ASSUME NEW r \in Requests PROVE Kept(r, n)
    OBVIOUS
  <2>1. /\ Copies(r, ring[n]) = (IF x = r THEN 1 ELSE 0) + Copies(r, Tail(ring[n]))
        /\ Copies(r, taken) = Copies(r, batch[n]) + (IF x = r THEN 1 ELSE 0)
    BY <1>1, CopiesOfTheRest, CopiesAppended
  <2>2. /\ ring'[n] = Tail(ring[n]) /\ batch'[n] = taken /\ fetched' = fetched /\ stream' = stream
        /\ stored' = stored /\ lost' = lost
    BY <1>2 DEF streamVars, history
  <2>3. Copies(r, Tail(ring[n])) \in Nat /\ Numbers(r)
    BY <1>1, CopiesType, CopiesAreNumbers
  <2> HIDE DEF taken, x
  <2> QED BY <1>3, <2>1, <2>2, <2>3, KeptBySums DEF Numbers
<1> QED BY <1>2, <1>3, <1>4 DEF Moves, OthersAlone, streamVars, history

LEMMA ReadFailedMoves == ASSUME TypeOK, NEW n \in Nodes, ReadFailed(n) PROVE Moves(n)
<1>1. TypeOK'
  BY DEF ReadFailed, NextRound, Goto, TypeOK, nodeVars, localVars, history
<1> QED BY <1>1, StillMoves DEF ReadFailed, localVars, history

LEMMA ReadMoves == ASSUME TypeOK, NEW n \in Nodes, Winding(n), Read(n) PROVE Moves(n)
<1> DEFINE k == IF Len(stream) < BatchSize THEN Len(stream) ELSE BatchSize
           entries == SubSeq(stream, 1, k)
           rest == SubSeq(stream, k + 1, Len(stream))
<1>0. fetched[n] = <<>>
  BY DEF Read, At, Winding
<1>1. stream \in Seq(Requests) /\ Len(stream) \in Nat /\ BatchSize \in Nat
  BY LenProperties, UsagePipelineAssumption DEF TypeOK
<1>2. k \in 0 .. Len(stream) /\ k <= BatchSize
  BY <1>1
<1>3. /\ entries \in Seq(Requests) /\ rest \in Seq(Requests) /\ Len(entries) <= BatchSize
      /\ \A r : Copies(r, stream) = Copies(r, entries) + Copies(r, rest)
  <2> HIDE DEF k
  <2> QED BY <1>1, <1>2, CopiesCut
<1>4. \A r : Copies(r, entries) \in Nat /\ Copies(r, rest) \in Nat
  BY <1>3, CopiesType
<1>5. stream' = rest /\ UNCHANGED <<nodeVars, home, localVars, stored, recorded, doubled>>
  BY DEF Read
<1> HIDE DEF rest
<1>6. CASE fetched' = [fetched EXCEPT ![n] = entries] /\ Goto(n, "write") /\ UNCHANGED lost
  <2> HIDE DEF entries, k
  <2>1. /\ fetched' \in [Nodes -> Seq(Requests)] /\ fetched'[n] = entries
        /\ \A m \in Nodes \ {n} : fetched'[m] = fetched[m]
    BY <1>3, <1>6 DEF TypeOK
  <2>2. TypeOK'
    BY <1>3, <1>5, <1>6, <2>1 DEF TypeOK, Goto, nodeVars, localVars
  <2>3. \A r \in Requests : Kept(r, n)
    <3> SUFFICES ASSUME NEW r \in Requests PROVE Kept(r, n)
      OBVIOUS
    <3>1. /\ ring' = ring /\ batch' = batch /\ fetched'[n] = entries /\ stream' = rest
          /\ stored' = stored /\ lost' = lost
      BY <1>5, <1>6, <2>1 DEF localVars
    <3>2. /\ Copies(r, stream) = Copies(r, entries) + Copies(r, rest)
          /\ Copies(r, entries) \in Nat /\ Copies(r, rest) \in Nat /\ Numbers(r) /\ Copies(r, fetched[n]) = 0
      BY <1>0, <1>3, <1>4, CopiesAreNumbers, CopiesOfNothing
    <3> QED BY <2>2, <3>1, <3>2, KeptBySums DEF Numbers
  <2> QED BY <1>5, <2>1, <2>2, <2>3 DEF Moves, OthersAlone, localVars
<1>7. CASE Lose(entries) /\ NextRound(n) /\ UNCHANGED fetched
  <2> HIDE DEF entries, k
  <2>1. lost' \in [Requests -> Nat]
    BY <1>3, <1>7, LosingIsTyped
  <2>2. TypeOK'
    BY <1>3, <1>5, <1>7, <2>1 DEF TypeOK, NextRound, Goto, nodeVars, localVars
  <2>3. \A r \in Requests : Kept(r, n)
    <3> SUFFICES ASSUME NEW r \in Requests PROVE Kept(r, n)
      OBVIOUS
    <3>1. /\ ring' = ring /\ batch' = batch /\ fetched' = fetched /\ stream' = rest
          /\ stored' = stored /\ lost'[r] = lost[r] + Copies(r, entries)
      BY <1>3, <1>5, <1>7, LosingIsTyped DEF localVars
    <3>2. /\ Copies(r, stream) = Copies(r, entries) + Copies(r, rest)
          /\ Copies(r, entries) \in Nat /\ Copies(r, rest) \in Nat /\ Numbers(r)
      BY <1>3, <1>4, CopiesAreNumbers
    <3> QED BY <2>2, <3>1, <3>2, KeptBySums DEF Numbers
  <2> QED BY <1>5, <1>7, <2>2, <2>3 DEF Moves, OthersAlone, localVars
<1> QED BY <1>6, <1>7 DEF Read

LEMMA WriteMoves == ASSUME TypeOK, NEW n \in Nodes, Write(n) PROVE Moves(n)
<1>1. fetched[n] \in Seq(Requests) /\ BatchRecordUsageLogs(fetched[n])
  BY DEF TypeOK, Write
<1>2. /\ stored' \in [Requests -> Nat] /\ lost' \in [Requests -> Nat]
      /\ \A r \in Requests : stored'[r] + lost'[r] = stored[r] + lost[r] + Copies(r, fetched[n])
  BY <1>1, BatchesAreWritten
<1>3. /\ fetched' \in [Nodes -> Seq(Requests)] /\ fetched'[n] = <<>>
      /\ \A m \in Nodes \ {n} : fetched'[m] = fetched[m]
      /\ UNCHANGED <<nodeVars, home, localVars, stream, recorded, doubled>>
  BY EmptyBatch DEF TypeOK, Write
<1>4. TypeOK'
  <2>1. \A m \in Nodes : Len(fetched'[m]) <= BatchSize
    <3>1. Len(<<>>) <= BatchSize
      BY UsagePipelineAssumption
    <3> QED BY <1>3, <3>1 DEF TypeOK
  <2> QED BY <1>2, <1>3, <2>1 DEF TypeOK, Write, Goto, nodeVars, localVars
<1>5. \A r \in Requests : Kept(r, n)
  <2> SUFFICES ASSUME NEW r \in Requests PROVE Kept(r, n)
    OBVIOUS
  <2>1. /\ ring' = ring /\ batch' = batch /\ Copies(r, fetched'[n]) = 0 /\ stream' = stream
        /\ stored'[r] + lost'[r] = stored[r] + lost[r] + Copies(r, fetched[n]) /\ Numbers(r)
    BY <1>2, <1>3, CopiesOfNothing, CopiesAreNumbers DEF localVars
  <2> QED BY <1>4, <2>1, KeptBySums DEF Numbers
<1> QED BY <1>3, <1>4, <1>5 DEF Moves, OthersAlone, localVars

LEMMA AckAndTrimMoves == ASSUME TypeOK, NEW n \in Nodes, AckAndTrim(n) PROVE Moves(n)
<1>1. stream \in Seq(Requests) /\ Len(stream) \in Nat
  BY LenProperties DEF TypeOK
<1>2. PICK k \in {0} \cup {i \in 1 .. Len(stream) : Len(stream) - i >= StreamMax} :
          /\ stream' = SubSeq(stream, k + 1, Len(stream))
          /\ Lose(SubSeq(stream, 1, k))
  BY DEF AckAndTrim
<1>3. k \in 0 .. Len(stream)
  BY <1>1
<1>4. /\ SubSeq(stream, 1, k) \in Seq(Requests) /\ stream' \in Seq(Requests)
      /\ \A r : Copies(r, stream) = Copies(r, SubSeq(stream, 1, k)) + Copies(r, stream')
  BY <1>1, <1>2, <1>3, CopiesCut
<1>5. lost' \in [Requests -> Nat]
  BY <1>2, <1>4, LosingIsTyped
<1>6. UNCHANGED <<nodeVars, home, localVars, fetched, stored, recorded, doubled>>
  BY DEF AckAndTrim
<1>7. TypeOK'
  BY <1>4, <1>5, <1>6 DEF TypeOK, AckAndTrim, NextRound, Goto, nodeVars, localVars
<1>8. \A r \in Requests : Kept(r, n)
  <2> SUFFICES ASSUME NEW r \in Requests PROVE Kept(r, n)
    OBVIOUS
  <2> DEFINE trimmed == SubSeq(stream, 1, k)
  <2>1. /\ ring' = ring /\ batch' = batch /\ fetched' = fetched
        /\ stored' = stored /\ lost'[r] = lost[r] + Copies(r, trimmed)
    BY <1>2, <1>4, <1>6, LosingIsTyped DEF localVars
  <2>2. /\ Copies(r, trimmed) \in Nat /\ Copies(r, stream') \in Nat /\ Numbers(r)
        /\ Copies(r, stream) = Copies(r, trimmed) + Copies(r, stream')
    BY <1>4, CopiesType, CopiesAreNumbers
  <2> HIDE DEF trimmed
  <2>3. Copies(r, ring'[n]) + Copies(r, batch'[n]) + Copies(r, fetched'[n])
             + Copies(r, stream') + (stored'[r] + lost'[r])
           = Copies(r, ring[n]) + Copies(r, batch[n]) + Copies(r, fetched[n])
             + Copies(r, stream) + (stored[r] + lost[r])
    BY <2>1, <2>2 DEF Numbers
  <2> QED BY <1>7, <2>3, KeptBySums
<1> QED BY <1>6, <1>7, <1>8 DEF Moves, OthersAlone, localVars

-----------------------------------------------------------------------------
(* Steps of the process. *)

LEMMA AcceptMoves ==
    ASSUME TypeOK, NEW n \in Nodes, NEW r \in Requests, Accept(r, n) PROVE Moves(n)
<1>1. TypeOK'
  BY DEF Accept, TypeOK, nodeVars, localVars, streamVars, history
<1> QED BY <1>1, StillMoves DEF Accept, localVars, streamVars, history

LEMMA TerminateMoves == ASSUME TypeOK, NEW n \in Nodes, Terminate(n) PROVE Moves(n)
<1>1. TypeOK'
  BY DEF Terminate, TypeOK, localVars, streamVars, history
<1> QED BY <1>1, StillMoves DEF Terminate, localVars, streamVars, history

LEMMA StopMoves == ASSUME TypeOK, NEW n \in Nodes, Stop(n) PROVE Moves(n)
<1>1. TypeOK'
  BY DEF Stop, TypeOK, localVars, streamVars, history
<1> QED BY <1>1, StillMoves DEF Stop, localVars, streamVars, history

LEMMA VanishMoves == ASSUME TypeOK, NEW n \in Nodes, Vanish(n) PROVE Moves(n)
<1>1. ring[n] \in Seq(Requests) /\ batch[n] \in Seq(Requests) /\ fetched[n] \in Seq(Requests)
  BY DEF TypeOK
<1>2. InMemory(n) \in Seq(Requests)
  BY <1>1, ConcatProperties DEF InMemory
<1>3. lost' \in [Requests -> Nat]
  BY <1>2, LosingIsTyped DEF Vanish
<1>4. /\ ring' \in [Nodes -> Seq(Requests)] /\ ring'[n] = <<>>
      /\ batch' \in [Nodes -> Seq(Requests)] /\ batch'[n] = <<>>
      /\ fetched' \in [Nodes -> Seq(Requests)] /\ fetched'[n] = <<>>
      /\ \A m \in Nodes \ {n} : ring'[m] = ring[m] /\ batch'[m] = batch[m] /\ fetched'[m] = fetched[m]
      /\ UNCHANGED <<shared, stream, stored, recorded, doubled>>
  BY EmptyBatch DEF TypeOK, Vanish
<1>5. TypeOK'
  <2>1. Len(<<>>) <= RingSize /\ Len(<<>>) <= BatchSize
    BY UsagePipelineAssumption
  <2>2. /\ \A m \in Nodes : Len(ring'[m]) <= RingSize /\ Len(fetched'[m]) <= BatchSize
        /\ \A m \in Nodes : worker'[m] = "running" => Len(batch'[m]) < BatchSize
    BY <1>4, <2>1, EmptyBatch DEF TypeOK, Vanish
  <2> QED BY <1>3, <1>4, <2>2 DEF TypeOK, Vanish, Goto
<1>6. \A r \in Requests : Kept(r, n)
  <2> SUFFICES ASSUME NEW r \in Requests PROVE Kept(r, n)
    OBVIOUS
  <2>1. /\ Copies(r, ring'[n]) = 0 /\ Copies(r, batch'[n]) = 0 /\ Copies(r, fetched'[n]) = 0
        /\ stream' = stream /\ stored' = stored
    BY <1>4, CopiesOfNothing
  <2>2. lost'[r] = lost[r] + Copies(r, InMemory(n)) /\ Numbers(r)
    BY <1>2, LosingIsTyped, CopiesAreNumbers DEF Vanish
  <2>3. Copies(r, InMemory(n)) = Copies(r, ring[n]) + Copies(r, batch[n]) + Copies(r, fetched[n])
    BY <2>2 DEF Numbers, Copy
  <2> QED BY <1>5, <2>1, <2>2, <2>3, KeptBySums DEF Numbers
<1> QED BY <1>4, <1>5, <1>6 DEF Moves, OthersAlone

(* A request that a replica still handles has not recorded. *)
HandledFirst == \A r \in Requests : r \in recorded => home[r] = NoNode

PipelineInv ==
    TypeOK /\ EveryRecordIsAccountedFor /\ HandledFirst /\ \A n \in Nodes : Winding(n)

LEMMA InitTyped == Init => TypeOK
<1> SUFFICES ASSUME Init PROVE TypeOK
  OBVIOUS
<1>1. Len(<<>>) <= RingSize /\ Len(<<>>) <= BatchSize /\ Len(<<>>) < BatchSize
  BY UsagePipelineAssumption
<1>2. Redis \in BOOLEAN
  BY UsagePipelineAssumption
<1> QED BY <1>1, <1>2, EmptyBatch DEF Init, TypeOK

LEMMA InitWell == Init => PipelineInv
<1> SUFFICES ASSUME Init PROVE PipelineInv
  OBVIOUS
<1>1. TypeOK
  BY InitTyped
<1>2. ASSUME NEW r \in Requests PROVE Everywhere(r) = 0
  <2>1. Copies(r, stream) = 0 /\ stored[r] = 0 /\ lost[r] = 0 /\ \A n \in Nodes : Copy(r, n) = 0
    BY CopiesOfNothing DEF Init, Copy
  <2> DEFINE held == [n \in Nodes |-> Copies(r, InMemory(n))]
  <2>2. \A n \in Nodes : held[n] = 0
    BY <1>1, <2>1, CopiesAreNumbers DEF Numbers
  <2>3. SumFunctionOnSet(held, Nodes) = 0
    <3> HIDE DEF held
    <3> QED BY <2>2, UsagePipelineAssumption, SumZero
  <2> QED BY <2>1, <2>3 DEF Everywhere, SumFunction
<1>3. EveryRecordIsAccountedFor
  BY <1>2 DEF EveryRecordIsAccountedFor, Init
<1>4. HandledFirst
  BY DEF HandledFirst, Init
<1>5. \A n \in Nodes : Winding(n)
  BY DEF Init, Winding
<1> QED BY <1>1, <1>3, <1>4, <1>5 DEF PipelineInv

\* A record is written once, or given up once: together that is all there is of it.
LEMMA AccountedIsChargedOnce == TypeOK /\ EveryRecordIsAccountedFor => ChargedOnce
<1> SUFFICES ASSUME TypeOK, EveryRecordIsAccountedFor, NEW r \in Requests, r \notin doubled
             PROVE  stored[r] <= 1
  BY DEF ChargedOnce
<1> DEFINE held == [n \in Nodes |-> Copies(r, InMemory(n))]
<1>1. /\ Copies(r, stream) \in Nat /\ stored[r] \in Nat /\ lost[r] \in Nat
      /\ \A n \in Nodes : held[n] \in Nat
  BY CopiesAreNumbers DEF Numbers
<1>2. SumFunctionOnSet(held, Nodes) \in Nat
  <2> HIDE DEF held
  <2> QED BY <1>1, UsagePipelineAssumption, SumType
<1>3. SumFunctionOnSet(held, Nodes) + Copies(r, stream) + stored[r] + lost[r] \in {0, 1}
  BY DEF EveryRecordIsAccountedFor, Everywhere, SumFunction
<1> HIDE DEF held
<1> QED BY <1>1, <1>2, <1>3

\* A step of n that keeps what is here of every record keeps the account.
LEMMA AccountKept ==
    ASSUME PipelineInv, NEW n \in Nodes, Moves(n)
    PROVE  TypeOK' /\ EveryRecordIsAccountedFor'
<1>1. ASSUME NEW r \in Requests PROVE Everywhere(r)' = Everywhere(r)
  <2>1. Everywhere(r)' = Everywhere(r) - Here(r, n) + Here(r, n)' /\ Here(r, n)' = Here(r, n)
    BY HereAndEverywhere DEF PipelineInv, Moves, Kept
  <2>2. Here(r, n) \in Nat /\ Everywhere(r) \in {0, 1, 2}
    BY CopiesAreNumbers DEF PipelineInv, Numbers, EveryRecordIsAccountedFor
  <2> QED BY <2>1, <2>2
<1> QED BY <1>1 DEF PipelineInv, Moves, EveryRecordIsAccountedFor

-----------------------------------------------------------------------------
(* Record: the first copies of a record. *)

LEMMA EnqueueTyped ==
    ASSUME TypeOK, NEW r \in Requests, NEW n \in Nodes, Enqueue(r, n)
    PROVE  /\ ring' \in [Nodes -> Seq(Requests)] /\ \A m \in Nodes : Len(ring'[m]) <= RingSize
           /\ lost' \in [Requests -> Nat]
           /\ \A m \in Nodes \ {n} : ring'[m] = ring[m]
           /\ \A x \in Requests :
                 Copies(x, ring'[n]) + lost'[x] = Copies(x, ring[n]) + lost[x] + (IF x = r THEN 1 ELSE 0)
<1>1. ring[n] \in Seq(Requests) /\ <<r>> \in Seq(Requests)
  BY DEF TypeOK
<1>2. \A x \in Requests : Copies(x, ring[n]) \in Nat
  BY <1>1, CopiesType
<1>3. CASE ring' = [ring EXCEPT ![n] = Append(@, r)] /\ UNCHANGED lost /\ Len(ring[n]) < RingSize
  <2>1. /\ Append(ring[n], r) \in Seq(Requests) /\ Len(Append(ring[n], r)) <= RingSize
    BY <1>1, <1>3, AppendProperties, LenProperties, UsagePipelineAssumption
  <2>2. \A x \in Requests : Copies(x, Append(ring[n], r)) = Copies(x, ring[n]) + (IF r = x THEN 1 ELSE 0)
    BY <1>1, CopiesAppended
  <2>3. ring'[n] = Append(ring[n], r) /\ ring' \in [Nodes -> Seq(Requests)] /\ \A m \in Nodes \ {n} : ring'[m] = ring[m]
    BY <1>3, <2>1 DEF TypeOK
  <2>4. \A x \in Requests : lost[x] \in Nat /\ lost' = lost
    BY <1>3 DEF TypeOK
  <2>5. ASSUME NEW x \in Requests
        PROVE  Copies(x, ring'[n]) + lost'[x] = Copies(x, ring[n]) + lost[x] + (IF x = r THEN 1 ELSE 0)
    <3>1. /\ Copies(x, ring'[n]) = Copies(x, ring[n]) + (IF r = x THEN 1 ELSE 0) /\ Copies(x, ring[n]) \in Nat
          /\ lost[x] \in Nat /\ lost' = lost
      BY <1>2, <2>2, <2>3, <2>4
    <3> QED BY <3>1
  <2> QED BY <1>3, <2>1, <2>3, <2>4, <2>5 DEF TypeOK
<1>4. CASE Lose(<<r>>) /\ UNCHANGED ring
  <2>1. lost' \in [Requests -> Nat] /\ \A x \in Requests : lost'[x] = lost[x] + Copies(x, <<r>>)
    BY <1>1, <1>4, LosingIsTyped
  <2>2. ASSUME NEW x \in Requests
        PROVE  Copies(x, ring'[n]) + lost'[x] = Copies(x, ring[n]) + lost[x] + (IF x = r THEN 1 ELSE 0)
    <3>1. Copies(x, <<r>>) = IF x = r THEN 1 ELSE 0
      BY CopiesOfOne
    <3>2. lost[x] \in Nat /\ ring' = ring
      BY <1>4 DEF TypeOK
    <3> QED BY <1>2, <2>1, <3>1, <3>2
  <2> QED BY <1>4, <2>1, <2>2 DEF TypeOK
<1> QED BY <1>3, <1>4 DEF Enqueue

LEMMA RecordKeeps ==
    ASSUME PipelineInv, NEW r \in Requests, NEW n \in Nodes, Record(r, n)
    PROVE  TypeOK' /\ EveryRecordIsAccountedFor' /\ HandledFirst' /\ Winding(n)'
           /\ \A m \in Nodes \ {n} : ring'[m] = ring[m]
<1> USE DEF PipelineInv
<1>0. r \notin recorded /\ r \notin doubled /\ home[r] = n /\ n # NoNode
  BY UsagePipelineAssumption DEF Record, HandledFirst, TypeOK
<1>1. /\ recorded' = recorded \cup {r} /\ home' = [home EXCEPT ![r] = NoNode]
      /\ UNCHANGED <<nodeVars, worker, batch, consumer, fetched, stored>>
  BY DEF Record
<1>2. stream \in Seq(Requests) /\ Append(stream, r) \in Seq(Requests)
      /\ \A x \in Requests : Copies(x, Append(stream, r)) = Copies(x, stream) + (IF r = x THEN 1 ELSE 0)
  BY CopiesAppended, AppendProperties DEF TypeOK
<1>4. /\ ring' \in [Nodes -> Seq(Requests)] /\ \A m \in Nodes : Len(ring'[m]) <= RingSize
      /\ lost' \in [Requests -> Nat] /\ stream' \in Seq(Requests)
      /\ \A m \in Nodes \ {n} : ring'[m] = ring[m]
      /\ doubled' \in {doubled, doubled \cup {r}}
  <2>1. CASE shared[n] /\ stream' = Append(stream, r) /\ UNCHANGED <<ring, doubled, lost>>
    BY <1>2, <2>1 DEF TypeOK
  <2>2. CASE Enqueue(r, n) /\ UNCHANGED <<stream, doubled>>
    BY <1>2, <2>2, EnqueueTyped
  <2>3. CASE Enqueue(r, n) /\ stream' = Append(stream, r) /\ doubled' = doubled \cup {r}
    BY <1>2, <2>3, EnqueueTyped
  <2> QED BY <2>1, <2>2, <2>3 DEF Record
<1>5. TypeOK'
  <2>1. \A m \in Nodes : worker'[m] = "running" => Len(batch'[m]) < BatchSize
    BY <1>1 DEF TypeOK
  <2> QED BY <1>1, <1>4, <2>1 DEF TypeOK, nodeVars
<1>6. OthersAlone(n)
  BY <1>1, <1>4 DEF OthersAlone
<1>7. EveryRecordIsAccountedFor'
  <2> SUFFICES ASSUME NEW x \in Requests
               PROVE  Everywhere(x)' = IF x \in doubled' THEN 2 ELSE IF x \in recorded' THEN 1 ELSE 0
    BY DEF EveryRecordIsAccountedFor
  <2> DEFINE one == IF x = r THEN 1 ELSE 0
             more == IF x = r THEN IF r \in doubled' THEN 2 ELSE 1 ELSE 0
  <2>1. /\ Copies(x, ring[n]) \in Nat /\ Copies(x, batch[n]) \in Nat /\ Copies(x, fetched[n]) \in Nat
        /\ Copies(x, stream) \in Nat /\ stored[x] \in Nat /\ lost[x] \in Nat /\ Here(x, n) \in Nat
    BY CopiesAreNumbers DEF Numbers
  <2>2. Copies(x, ring'[n]) \in Nat /\ Copies(x, stream') \in Nat /\ lost'[x] \in Nat
    BY <1>4, CopiesType
  <2>3. Copies(x, ring'[n]) + Copies(x, stream') + lost'[x]
          = Copies(x, ring[n]) + Copies(x, stream) + lost[x] + more
    <3>1. CASE shared[n] /\ stream' = Append(stream, r) /\ UNCHANGED <<ring, doubled, lost>>
      <4>1. Copies(x, stream') = Copies(x, stream) + one /\ more = one
        BY <1>0, <1>2, <3>1
      <4>2. ring' = ring /\ lost' = lost /\ one \in Nat
        BY <3>1
      <4> HIDE DEF one, more
      <4> QED BY <2>1, <2>2, <4>1, <4>2
    <3>2. CASE Enqueue(r, n) /\ UNCHANGED <<stream, doubled>>
      <4>1. Copies(x, ring'[n]) + lost'[x] = Copies(x, ring[n]) + lost[x] + one
        BY <3>2, EnqueueTyped
      <4>2. more = one /\ one \in Nat /\ stream' = stream
        BY <1>0, <3>2
      <4> HIDE DEF one, more
      <4> QED BY <2>1, <2>2, <4>1, <4>2
    <3>3. CASE Enqueue(r, n) /\ stream' = Append(stream, r) /\ doubled' = doubled \cup {r}
      <4>1. Copies(x, ring'[n]) + lost'[x] = Copies(x, ring[n]) + lost[x] + one
        BY <3>3, EnqueueTyped
      <4>2. Copies(x, stream') = Copies(x, stream) + one /\ more = one + one
        BY <1>0, <1>2, <3>3
      <4>3. one \in Nat /\ more \in Nat
        OBVIOUS
      <4> HIDE DEF one, more
      <4> QED BY <2>1, <2>2, <4>1, <4>2, <4>3
    <3> QED BY <3>1, <3>2, <3>3 DEF Record
  <2>4. Here(x, n)' = Copies(x, ring'[n]) + Copies(x, batch[n]) + Copies(x, fetched[n])
                        + Copies(x, stream') + stored[x] + lost'[x]
    BY <1>1 DEF Here, Copy
  <2>5. more \in Nat
    OBVIOUS
  <2>6. Here(x, n)' = Here(x, n) + more
    <3> HIDE DEF more
    <3> QED BY <2>1, <2>2, <2>3, <2>4, <2>5 DEF Here, Copy
  <2>7. Everywhere(x)' = Everywhere(x) - Here(x, n) + Here(x, n)'
    BY <1>5, <1>6, HereAndEverywhere
  <2>8. Everywhere(x) = IF x \in doubled THEN 2 ELSE IF x \in recorded THEN 1 ELSE 0
    BY DEF EveryRecordIsAccountedFor
  <2>9. Everywhere(x)' = Everywhere(x) + more
    <3> HIDE DEF more
    <3>1. Everywhere(x) \in Nat
      BY <2>8
    <3> QED BY <2>1, <2>5, <2>6, <2>7, <3>1
  <2> QED BY <1>0, <1>1, <1>4, <2>8, <2>9
<1>8. HandledFirst'
  BY <1>1 DEF HandledFirst, TypeOK
<1>10. Winding(n)'
  <2>1. /\ worker' = worker /\ process' = process /\ batch' = batch /\ consumer' = consumer
        /\ fetched' = fetched /\ overran' = overran
    BY <1>1 DEF nodeVars
  <2>2. Handled(n) # {} /\ ~ (process[n] = "stopping" /\ ~overran[n])
    BY <1>0 DEF Handled, Winding
  <2> QED BY <2>1, <2>2 DEF Winding
<1> QED BY <1>4, <1>5, <1>7, <1>8, <1>10

-----------------------------------------------------------------------------
(* The invariant is kept by every step. *)

\* What a step of n has to leave alone for the others to wind down as before.
LEMMA OthersWind ==
    ASSUME NEW m \in Nodes, Winding(m),
           worker'[m] = worker[m], process'[m] = process[m], batch'[m] = batch[m],
           consumer'[m] = consumer[m], fetched'[m] = fetched[m], ring'[m] = ring[m],
           overran'[m] = overran[m], Handled(m)' \subseteq Handled(m)
    PROVE  Winding(m)'
BY DEF Winding

LEMMA HomesKept ==
    ASSUME PipelineInv, NEW n \in Nodes, Moves(n),
           \A r \in Requests : r \in recorded => home'[r] = NoNode
    PROVE  TypeOK' /\ EveryRecordIsAccountedFor' /\ HandledFirst'
BY AccountKept DEF Moves, HandledFirst

LEMMA LocalWorkerKeeps == ASSUME PipelineInv, NEW n \in Nodes, LocalWorker(n) PROVE PipelineInv'
<1>1. TypeOK /\ Winding(n)
  BY DEF PipelineInv
<1>2. Moves(n)
  BY <1>1, TakeMoves, FlushOnTickMoves, StartDrainingMoves, DrainMoves, FinishDrainingMoves DEF LocalWorker
<1>3. UNCHANGED <<process, shared, overran, home, consumer, fetched>>
      /\ \A m \in Nodes \ {n} : worker'[m] = worker[m]
  BY <1>1 DEF LocalWorker, Take, FlushOnTick, StartDraining, Drain, FinishDraining,
              nodeVars, streamVars, TypeOK
<1>4. TypeOK' /\ EveryRecordIsAccountedFor' /\ HandledFirst'
  BY <1>2, <1>3, HomesKept DEF PipelineInv, HandledFirst
<1>5. Winding(n)'
  <2>0. worker \in [Nodes -> {"running", "draining", "done"}] /\ batch \in [Nodes -> Seq(Requests)]
        /\ ring \in [Nodes -> Seq(Requests)] /\ Handled(n)' = Handled(n)
    BY <1>1, <1>3 DEF TypeOK, Handled
  <2>1. CASE Take(n) \/ FlushOnTick(n)
    <3>1. worker' = worker /\ worker[n] = "running"
      BY <2>1 DEF Take, FlushOnTick
    <3> QED BY <1>1, <1>3, <2>0, <3>1 DEF Winding
  <2>2. CASE StartDraining(n)
    BY <1>1, <1>3, <2>0, <2>2 DEF StartDraining, Winding
  <2>3. CASE Drain(n)
    <3>1. worker' = worker /\ worker[n] = "draining"
      BY <2>3 DEF Drain
    <3> QED BY <1>1, <1>3, <2>0, <3>1 DEF Winding
  <2>4. CASE FinishDraining(n)
    BY <1>1, <1>3, <2>0, <2>4 DEF FinishDraining, Winding
  <2> QED BY <2>1, <2>2, <2>3, <2>4 DEF LocalWorker
<1>6. \A m \in Nodes \ {n} : Winding(m)'
  BY <1>2, <1>3, OthersWind DEF PipelineInv, Moves, OthersAlone, Handled
<1> QED BY <1>4, <1>5, <1>6 DEF PipelineInv

LEMMA StreamWorkerKeeps == ASSUME PipelineInv, NEW n \in Nodes, StreamWorker(n) PROVE PipelineInv'
<1>1. TypeOK /\ Winding(n)
  BY DEF PipelineInv
<1>2. Moves(n)
  BY <1>1, ReadFailedMoves, ReadMoves, WriteMoves, AckAndTrimMoves DEF StreamWorker
<1>3. UNCHANGED <<process, shared, overran, home, ring, worker, batch>>
      /\ \A m \in Nodes \ {n} : consumer'[m] = consumer[m]
  BY <1>1 DEF StreamWorker, ReadFailed, Read, Write, AckAndTrim, NextRound, Goto,
              nodeVars, localVars, TypeOK
<1>4. TypeOK' /\ EveryRecordIsAccountedFor' /\ HandledFirst'
  BY <1>2, <1>3, HomesKept DEF PipelineInv, HandledFirst
<1>5. Winding(n)'
  <2>0. /\ consumer \in [Nodes -> {"read", "write", "ack", "done"}] /\ fetched \in [Nodes -> Seq(Requests)]
        /\ Handled(n)' = Handled(n)
    BY <1>1, <1>3 DEF TypeOK, Handled
  <2>1. consumer'[n] # "write" => fetched'[n] = <<>>
    <3>1. CASE ReadFailed(n)
      BY <1>1, <2>0, <3>1 DEF ReadFailed, At, Winding
    <3>2. CASE Read(n)
      <4>1. consumer[n] = "read" /\ consumer' \in {[consumer EXCEPT ![n] = x] : x \in {"write", "read", "done"}}
        BY <3>2 DEF Read, At, Goto, NextRound
      <4>2. fetched' = fetched \/ consumer' = [consumer EXCEPT ![n] = "write"]
        BY <3>2 DEF Read, Goto
      <4> QED BY <1>1, <2>0, <4>1, <4>2 DEF Winding
    <3>3. CASE Write(n)
      BY <2>0, <3>3 DEF Write
    <3>4. CASE AckAndTrim(n)
      BY <1>1, <2>0, <3>4 DEF AckAndTrim, At, Winding
    <3> QED BY <3>1, <3>2, <3>3, <3>4 DEF StreamWorker
  <2>2. consumer[n] # "done"
    BY DEF StreamWorker, ReadFailed, Read, Write, AckAndTrim, At
  <2> QED BY <1>1, <1>3, <2>0, <2>1, <2>2 DEF Winding
<1>6. \A m \in Nodes \ {n} : Winding(m)'
  BY <1>2, <1>3, OthersWind DEF PipelineInv, Moves, OthersAlone, Handled
<1> QED BY <1>4, <1>5, <1>6 DEF PipelineInv

LEMMA VanishKeeps == ASSUME PipelineInv, NEW n \in Nodes, Vanish(n) PROVE PipelineInv'
<1>1. TypeOK /\ Winding(n)
  BY DEF PipelineInv
<1>2. Moves(n)
  BY <1>1, VanishMoves
<1>3. /\ \A m \in Nodes \ {n} : /\ process'[m] = process[m] /\ worker'[m] = worker[m]
                                /\ consumer'[m] = consumer[m] /\ overran'[m] = overran[m]
      /\ process'[n] = "exited" /\ worker'[n] = "done" /\ consumer'[n] = "done"
      /\ batch'[n] = <<>> /\ fetched'[n] = <<>>
  BY <1>1 DEF Vanish, Goto, TypeOK
<1>4. \A r \in Requests : home'[r] = IF home[r] = n THEN NoNode ELSE home[r]
  BY DEF Vanish
<1>5. TypeOK' /\ EveryRecordIsAccountedFor' /\ HandledFirst'
  BY <1>2, <1>4, HomesKept DEF PipelineInv, HandledFirst
<1>6. Winding(n)'
  BY <1>3 DEF Winding
<1>7. \A m \in Nodes \ {n} : Winding(m)'
  <2>1. \A m \in Nodes \ {n} : Handled(m)' \subseteq Handled(m)
    BY <1>4, UsagePipelineAssumption DEF Handled
  <2> QED BY <1>2, <1>3, <2>1, OthersWind DEF PipelineInv, Moves, OthersAlone
<1> QED BY <1>5, <1>6, <1>7 DEF PipelineInv

LEMMA ProcessKeeps ==
    ASSUME PipelineInv, NEW n \in Nodes, Terminate(n) \/ Stop(n) \/ Exit(n) \/ Crash(n) \/ Restart(n)
    PROVE  PipelineInv'
<1>1. TypeOK /\ Winding(n)
  BY DEF PipelineInv
<1>2. CASE Terminate(n) \/ Stop(n)
  <2>1. Moves(n)
    BY <1>1, <1>2, TerminateMoves, StopMoves
  <2>2. /\ UNCHANGED <<home, ring, worker, batch, consumer, fetched>>
        /\ \A m \in Nodes \ {n} : process'[m] = process[m] /\ overran'[m] = overran[m]
    BY <1>1, <1>2 DEF Terminate, Stop, TypeOK, localVars, streamVars
  <2>3. TypeOK' /\ EveryRecordIsAccountedFor' /\ HandledFirst'
    BY <2>1, <2>2, HomesKept DEF PipelineInv, HandledFirst
  <2>4. Winding(n)'
    <3>1. Handled(n)' = Handled(n)
      BY <2>2 DEF Handled
    <3>2. process \in [Nodes -> {"up", "closing", "stopping", "exited"}] /\ overran \in [Nodes -> BOOLEAN]
      BY <1>1 DEF TypeOK
    <3> QED BY <1>1, <1>2, <2>2, <3>1, <3>2 DEF Winding, Terminate, Stop
  <2>5. \A m \in Nodes \ {n} : Winding(m)'
    BY <2>2, OthersWind DEF PipelineInv, Handled
  <2> QED BY <2>3, <2>4, <2>5 DEF PipelineInv
<1>3. CASE Exit(n) \/ Crash(n)
  BY <1>3, VanishKeeps DEF Exit, Crash
<1>4. CASE Restart(n)
  <2>1. PICK reached \in {FALSE, Redis} :
           shared' = [shared EXCEPT ![n] = reached] /\ Goto(n, IF reached THEN "read" ELSE "done")
    BY <1>4 DEF Restart
  <2>2. /\ process[n] = "exited" /\ process' = [process EXCEPT ![n] = "up"]
        /\ worker' = [worker EXCEPT ![n] = "running"]
        /\ UNCHANGED <<overran, home, ring, batch, fetched, stream, stored, recorded, doubled, lost>>
    BY <1>4 DEF Restart, history
  <2>3. TypeOK'
    <3>1. batch[n] = <<>>
      BY <1>1, <2>2 DEF Winding
    <3>2. \A m \in Nodes : worker'[m] = "running" => Len(batch'[m]) < BatchSize
      BY <1>1, <2>2, <3>1, EmptyBatch DEF TypeOK
    <3>3. reached \in BOOLEAN
      BY UsagePipelineAssumption
    <3>4. shared' \in [Nodes -> BOOLEAN] /\ consumer' \in [Nodes -> {"read", "write", "ack", "done"}]
      BY <1>1, <2>1, <3>3 DEF TypeOK, Goto
    <3> QED BY <1>1, <2>2, <3>2, <3>4 DEF TypeOK
  <2>4. Moves(n)
    BY <1>1, <2>2, <2>3, StillMoves
  <2>5. EveryRecordIsAccountedFor' /\ HandledFirst'
    BY <2>2, <2>4, HomesKept DEF PipelineInv, HandledFirst
  <2>6. Winding(n)'
    <3>1. process'[n] = "up" /\ worker'[n] = "running" /\ fetched'[n] = <<>>
      <4>1. consumer[n] # "write"
        BY <1>1, <2>2 DEF Winding
      <4> QED BY <1>1, <2>2, <4>1 DEF TypeOK, Winding
    <3> QED BY <3>1 DEF Winding
  <2>7. \A m \in Nodes \ {n} : Winding(m)'
    <3>1. \A m \in Nodes \ {n} : process'[m] = process[m] /\ worker'[m] = worker[m] /\ consumer'[m] = consumer[m]
      BY <1>1, <2>1, <2>2 DEF TypeOK, Goto
    <3> QED BY <2>2, <3>1, OthersWind DEF PipelineInv, Handled
  <2> QED BY <2>3, <2>5, <2>6, <2>7 DEF PipelineInv
<1> QED BY <1>2, <1>3, <1>4

LEMMA RequestKeeps ==
    ASSUME PipelineInv, NEW n \in Nodes, NEW r \in Requests, Accept(r, n) \/ Record(r, n)
    PROVE  PipelineInv'
<1>1. TypeOK
  BY DEF PipelineInv
<1>2. CASE Accept(r, n)
  <2>1. Moves(n)
    BY <1>1, <1>2, AcceptMoves
  <2>2. /\ process[n] = "up" /\ r \notin recorded /\ home' = [home EXCEPT ![r] = n]
        /\ UNCHANGED <<process, overran, ring, worker, batch, consumer, fetched>>
    BY <1>2 DEF Accept, nodeVars, localVars, streamVars
  <2>3. \A x \in Requests : home'[x] = IF x = r THEN n ELSE home[x]
    BY <1>1, <2>2 DEF TypeOK
  <2>4. TypeOK' /\ EveryRecordIsAccountedFor' /\ HandledFirst'
    BY <2>1, <2>2, <2>3, HomesKept DEF PipelineInv, HandledFirst
  <2>5. \A m \in Nodes \ {n} : Winding(m)'
    <3>1. \A m \in Nodes \ {n} : Handled(m)' \subseteq Handled(m)
      BY <2>3 DEF Handled
    <3> QED BY <2>2, <3>1, OthersWind DEF PipelineInv
  <2>6. Winding(n)'
    BY <2>2 DEF PipelineInv, Winding
  <2> QED BY <2>4, <2>5, <2>6 DEF PipelineInv
<1>3. CASE Record(r, n)
  <2>1. TypeOK' /\ EveryRecordIsAccountedFor' /\ HandledFirst' /\ Winding(n)' /\ \A m \in Nodes \ {n} : ring'[m] = ring[m]
    BY <1>3, RecordKeeps
  <2>2. \A m \in Nodes \ {n} : Winding(m)'
    <3>1. home' = [home EXCEPT ![r] = NoNode]
          /\ UNCHANGED <<process, overran, worker, batch, consumer, fetched>>
      BY <1>3 DEF Record, nodeVars
    <3>2. \A m \in Nodes : Handled(m)' \subseteq Handled(m)
      BY <1>1, <3>1, UsagePipelineAssumption DEF TypeOK, Handled
    <3> QED BY <2>1, <3>1, <3>2, OthersWind DEF PipelineInv
  <2> QED BY <2>1, <2>2 DEF PipelineInv
<1> QED BY <1>2, <1>3

LEMMA StutterKeeps == PipelineInv /\ UNCHANGED vars => PipelineInv'
<1> SUFFICES ASSUME PipelineInv, UNCHANGED vars PROVE PipelineInv'
  OBVIOUS
<1> USE DEF vars, nodeVars, localVars, streamVars, history
<1>1. TypeOK'
  BY DEF PipelineInv, TypeOK
<1>2. EveryRecordIsAccountedFor'
  BY DEF PipelineInv, EveryRecordIsAccountedFor, Everywhere, InMemory
<1>3. HandledFirst'
  BY DEF PipelineInv, HandledFirst
<1>4. \A n \in Nodes : Winding(n)'
  BY DEF PipelineInv, Winding, Handled
<1> QED BY <1>1, <1>2, <1>3, <1>4 DEF PipelineInv

LEMMA StepWell == PipelineInv /\ [Next]_vars => PipelineInv'
BY RequestKeeps, LocalWorkerKeeps, StreamWorkerKeeps, ProcessKeeps, StutterKeeps DEF Next

LEMMA AlwaysWell == Spec => []PipelineInv
BY InitWell, StepWell, PTL DEF Spec

-----------------------------------------------------------------------------
(* Theorems. *)

(* Every variable has its type in every reachable state: the queue in      *)
(* memory and what a stream worker holds stay within their capacities, and *)
(* a worker that is running holds less than a batch                        *)
(* (internal/storage/async_logger.go).                                     *)
THEOREM TypeCorrect == Spec => []TypeOK
<1>1. PipelineInv => TypeOK
  BY DEF PipelineInv
<1> QED BY AlwaysWell, <1>1, PTL

(* Every record handed to Record is in one place, or in two if the answer  *)
(* to its XADD was lost, from then on: in the memory of one replica, on    *)
(* the stream, in the database, or among those given up; no step of any    *)
(* replica copies or drops one unnoticed (Record, flush and streamWorker   *)
(* of internal/storage/async_logger.go).                                   *)
THEOREM EveryRecordAccounted == Spec => []EveryRecordIsAccountedFor
<1>1. PipelineInv => EveryRecordIsAccountedFor
  BY DEF PipelineInv
<1> QED BY AlwaysWell, <1>1, PTL

(* A request is charged at most once unless the answer to its XADD was     *)
(* lost: whatever the interleaving of replicas, workers, crashes, trims    *)
(* and failed writes, no batch is written again (flush and streamWorker of *)
(* internal/storage/async_logger.go).                                      *)
THEOREM ChargedAtMostOnce == Spec => []ChargedOnce
<1>1. PipelineInv => ChargedOnce
  BY AccountedIsChargedOnce DEF PipelineInv
<1> QED BY AlwaysWell, <1>1, PTL

(* A process that exits after all its requests have ended leaves nothing   *)
(* in memory: Stop of internal/storage/async_logger.go drains the queue,   *)
(* the batch and the stream worker.                                        *)
THEOREM DrainedOnExit == Spec => GracefulExitIsDrained
<1> DEFINE Drained == \A n \in Nodes : Exit(n) /\ ~overran[n] => InMemory(n) = <<>>
<1>1. PipelineInv => Drained
  <2> SUFFICES ASSUME PipelineInv, NEW n \in Nodes, Exit(n), ~overran[n]
               PROVE  InMemory(n) = <<>>
    BY Zenon
  <2>1. process[n] = "stopping" /\ worker[n] = "done" /\ consumer[n] = "done"
    BY DEF Exit, At
  <2>2. ring[n] = <<>> /\ batch[n] = <<>> /\ fetched[n] = <<>>
    BY <2>1 DEF PipelineInv, Winding
  <2> QED BY <2>2 DEF InMemory
<1>2. PipelineInv /\ [Next]_vars => [Drained]_vars
  BY <1>1
<1> QED BY AlwaysWell, <1>2, PTL DEF Spec, GracefulExitIsDrained
=============================================================================
