--------------------------- MODULE Dispatcher_proofs ---------------------------
(***************************************************************************)
(* The dispatcher drives the circuit breaker as CircuitBreaker specifies,  *)
(* so what is proved of the breaker holds of the composed system.          *)
(***************************************************************************)
EXTENDS Dispatcher, FiniteSetTheorems, SequenceTheorems, WellFoundedInduction, TLAPS

\* The breaker with the theorems about it.
Breaker == INSTANCE CircuitBreaker_proofs WITH Callers <- Requests

InCall == {"admitted", "sending", "called", "reading", "window"}

(* What a request needs so that the channel it reports on is a channel:    *)
(* it has candidates left, and a model while it looks for some.            *)
RequestOK(q) ==
    /\ q \in RequestState
    /\ q.pc \notin {"idle", "done"} => q.model \in Models
    /\ q.pc \in InCall => q.queue # <<>>

RequestsOK ==
    /\ table \in Tables
    /\ fallbacks \in FallbackMaps
    /\ req \in [Requests -> RequestState]
    /\ \A r \in Requests : RequestOK(req[r])

-----------------------------------------------------------------------------

\* Every order of a set of channels is a sequence of channels.
LEMMA OrdersAreSequences ==
    ASSUME NEW S \in SUBSET Channels, NEW s \in Orders(S)
    PROVE  s \in Seq(Channels)
<1>1. Cardinality(S) \in Nat
  BY DispatcherAssumption, FS_Subset, FS_CardinalityType
<1>2. s \in [1 .. Cardinality(S) -> Channels]
  BY DEF Orders
<1> QED BY <1>1, <1>2, SeqDef

\* Where a trail may be cut, and where it is.
Fits(hops) ==
    {Len(hops)} \cup {i \in 1 .. Len(hops) :
                        TrailLen(SubSeq(hops, i, Len(hops))) + 1 <= MaxChannelTrailLen}

LEMMA LeastFit ==
    ASSUME NEW hops \in Seq(Channels), hops # <<>>
    PROVE  (CHOOSE i \in Fits(hops) : \A k \in Fits(hops) : i <= k) \in 1 .. Len(hops)
<1>1. Len(hops) \in Nat /\ Len(hops) >= 1
  BY EmptySeq, LenProperties
<1>2. Fits(hops) \subseteq Nat /\ Fits(hops) # {} /\ Fits(hops) \subseteq 1 .. Len(hops)
  BY <1>1 DEF Fits
<1>3. \E i \in Fits(hops) : \A k \in Fits(hops) : i <= k
  <2>1. \E i \in Fits(hops) : \A k \in Fits(hops) : ~ (<<k, i>> \in OpToRel(<, Nat))
    BY <1>2, WFMin, NatLessThanWellFounded
  <2>2. \A i, k \in Nat : ~ (<<k, i>> \in OpToRel(<, Nat)) => ~ (k < i)
    BY Zenon DEF OpToRel
  <2>3. \A i, k \in Nat : ~ (k < i) => i <= k
    OBVIOUS
  <2> QED BY <1>2, <2>1, <2>2, <2>3, Zenon
<1> QED BY <1>2, <1>3

\* The trail of channels is a sequence of channels, cut or not.
LEMMA TrailIsASequence ==
    ASSUME NEW hops \in Seq(Channels), hops # <<>>
    PROVE  formatChannelTrail(hops) \in Seq(Channels)
<1> DEFINE n == Len(hops)
           fits == {n} \cup {i \in 1 .. n : TrailLen(SubSeq(hops, i, n)) + 1 <= MaxChannelTrailLen}
           first == CHOOSE i \in fits : \A k \in fits : i <= k
<1>1. n \in Nat /\ n >= 1
  BY EmptySeq, LenProperties
<1>2. first \in 1 .. n
  <2>1. fits = Fits(hops) /\ first = CHOOSE i \in Fits(hops) : \A k \in Fits(hops) : i <= k
    BY DEF Fits
  <2> HIDE DEF fits, first
  <2> QED BY <2>1, LeastFit
<1>3. SubSeq(hops, first, n) \in Seq(Channels)
  <2> HIDE DEF first
  <2>1. first \in Int /\ n \in Int /\ \A i \in first .. n : hops[i] \in Channels
    BY <1>1, <1>2, ElementOfSeq
  <2> QED BY <2>1, SubSeqProperties
<1> QED BY <1>3 DEF formatChannelTrail

-----------------------------------------------------------------------------
(* Every step keeps the requests in order. *)

\* It is enough to look at the request that moves.
LEMMA OneRequestMoves ==
    ASSUME RequestsOK, NEW r \in Requests, NEW q, RequestOK(q),
           req' = [req EXCEPT ![r] = q], UNCHANGED adminVars
    PROVE  RequestsOK'
BY DEF RequestsOK, RequestOK, adminVars

\* Where a request may be, besides in a call.
Outside == {"selectAny", "try", "draining", "streaming", "fallback"}

\* Going to a place outside of a call keeps a request in order.
LEMMA GoingSomewhere ==
    ASSUME RequestsOK, NEW r \in Requests, NEW pc, Goto(r, pc), UNCHANGED adminVars,
           \/ pc = "done"
           \/ req[r].model \in Models /\ pc \in Outside
           \/ req[r].model \in Models /\ pc \in InCall /\ req[r].queue # <<>>
    PROVE  RequestsOK'
<1>1. RequestOK([req[r] EXCEPT !.pc = pc])
  BY DEF RequestsOK, RequestOK, RequestState, Outside, InCall
<1> QED BY <1>1, OneRequestMoves DEF Goto

\* A request that starts, or falls back, on a model is in order.
LEMMA StartOK ==
    ASSUME RequestsOK, NEW r \in Requests, NEW k \in Kinds, NEW m \in Models, Start(r, k, m)
    PROVE  RequestsOK'
<1>1. Idle \in RequestState
  BY EmptySeq DEF Idle, RequestState
<1>2. RequestOK([Idle EXCEPT !.pc = "select", !.kind = k, !.model = m])
  <2> HIDE DEF Idle
  <2> DEFINE q == [Idle EXCEPT !.pc = "select", !.kind = k, !.model = m]
  <2>1. k \in {"chat", "stream", "embed", "http"}
    BY DispatcherAssumption
  <2>2. q \in RequestState
    BY <1>1, <2>1 DEF RequestState
  <2>3. q.pc = "select" /\ q.model = m
    BY <1>1 DEF RequestState
  <2> QED BY <2>2, <2>3 DEF RequestOK, InCall
<1> QED BY <1>2, OneRequestMoves DEF Start

\* The candidates a request takes are channels.
LEMMA TakeCandidatesOK ==
    ASSUME RequestsOK, NEW r \in Requests, NEW S \in SUBSET Channels, req[r].model \in Models,
           TakeCandidates(r, S), UNCHANGED adminVars
    PROVE  RequestsOK'
<1>1. PICK s \in Orders(S) :
        req' = [req EXCEPT ![r].queue = s, ![r].attempted = <<>>, ![r].pc = "try"]
  BY DEF TakeCandidates
<1>2. s \in Seq(Channels)
  BY <1>1, OrdersAreSequences
<1>3. RequestOK([req[r] EXCEPT !.queue = s, !.attempted = <<>>, !.pc = "try"])
  <2> DEFINE q == [req[r] EXCEPT !.queue = s, !.attempted = <<>>, !.pc = "try"]
  <2>1. req[r] \in RequestState
    BY DEF RequestsOK
  <2>2. q \in RequestState
    BY <1>2, <2>1, EmptySeq DEF RequestState
  <2>3. q.pc = "try" /\ q.model = req[r].model
    BY <2>1 DEF RequestState
  <2> QED BY <2>2, <2>3 DEF RequestOK, InCall
<1> QED BY <1>1, <1>3, OneRequestMoves

\* A request that is in a call is in it with one of the channels.
LEMMA InCallFact ==
    ASSUME RequestsOK, NEW r \in Requests, req[r].pc \in InCall
    PROVE  /\ req[r] \in RequestState
           /\ req[r].model \in Models
           /\ req[r].queue \in Seq(Channels)
           /\ Candidate(r) \in Channels
           /\ Tail(req[r].queue) \in Seq(Channels)
           /\ Append(req[r].attempted, Candidate(r)) \in Seq(Channels)
<1>1. req[r] \in RequestState /\ req[r].model \in Models /\ req[r].queue # <<>>
  BY DEF RequestsOK, RequestOK, InCall
<1>2. req[r].queue \in Seq(Channels) /\ req[r].attempted \in Seq(Channels)
  BY <1>1 DEF RequestState
<1>3. Candidate(r) \in Channels /\ Tail(req[r].queue) \in Seq(Channels)
  BY <1>1, <1>2, HeadTailProperties DEF Candidate
<1>4. Append(req[r].attempted, Candidate(r)) \in Seq(Channels)
  BY <1>2, <1>3, AppendProperties
<1> QED BY <1>1, <1>2, <1>3, <1>4

\* Going on to the next candidate keeps a request in order.
LEMMA NextCandidateOK ==
    ASSUME RequestsOK, NEW r \in Requests, req[r].pc \in InCall,
           NEW pc \in {"try", "draining"}, NextCandidate(r, pc), UNCHANGED adminVars
    PROVE  RequestsOK'
<1> DEFINE q == [req[r] EXCEPT !.pc = pc, !.queue = Tail(@), !.attempted = Append(@, Candidate(r))]
<1>1. q \in RequestState
  BY InCallFact DEF RequestState
<1>2. q.pc = pc /\ q.model \in Models
  BY InCallFact DEF RequestState
<1>3. RequestOK(q)
  BY <1>1, <1>2 DEF RequestOK, InCall
<1> QED BY <1>3, OneRequestMoves DEF NextCandidate

\* Skipping a candidate keeps a request in order.
LEMMA SkipOK ==
    ASSUME RequestsOK, NEW r \in Requests, req[r].model \in Models, req[r].queue # <<>>,
           Skip(r), UNCHANGED adminVars
    PROVE  RequestsOK'
<1> DEFINE q == [req[r] EXCEPT !.queue = Tail(@), !.pc = "try"]
<1>1. req[r] \in RequestState /\ Tail(req[r].queue) \in Seq(Channels)
  BY HeadTailProperties DEF RequestsOK, RequestState
<1>2. q \in RequestState /\ q.pc = "try" /\ q.model \in Models
  BY <1>1 DEF RequestState
<1>3. RequestOK(q)
  BY <1>2 DEF RequestOK, InCall
<1> QED BY <1>3, OneRequestMoves DEF Skip

\* A request that is served is in order.
LEMMA ServedOK ==
    ASSUME RequestsOK, NEW r \in Requests, req[r].pc \in InCall,
           NEW pc \in {"done", "streaming"}, Served(r, pc)
    PROVE  RequestsOK'
<1> DEFINE trail == formatChannelTrail(Hops(r))
           q == [req[r] EXCEPT !.pc = pc, !.shown = trail]
<1>1. req[r].trail \in Seq(Channels) /\ req[r].attempted \in Seq(Channels)
  BY InCallFact DEF RequestState
<1>2. req[r].trail \o req[r].attempted \in Seq(Channels)
  BY <1>1, ConcatProperties
<1>3. Hops(r) \in Seq(Channels) /\ Hops(r) # <<>>
  <2> DEFINE tried == req[r].trail \o req[r].attempted
  <2>1. Candidate(r) \in Channels
    BY InCallFact
  <2>2. tried \in Seq(Channels)
    BY <1>2
  <2>3. Append(tried, Candidate(r)) \in Seq(Channels) /\ Append(tried, Candidate(r)) # <<>>
    <3> HIDE DEF tried
    <3> QED BY <2>1, <2>2, AppendProperties
  <2> QED BY <2>3 DEF Hops
<1>4. trail \in Seq(Channels)
  BY <1>3, TrailIsASequence
<1>5. q \in RequestState /\ q.pc = pc /\ q.model \in Models
  <2> HIDE DEF trail
  <2> QED BY <1>4, InCallFact DEF RequestState
<1>6. RequestOK(q)
  BY <1>5 DEF RequestOK, InCall
<1> QED BY <1>6, OneRequestMoves DEF Served

\* The fallback to another model keeps a request in order.
LEMMA FallbackOK ==
    ASSUME RequestsOK, NEW r \in Requests, Fallback(r)
    PROVE  RequestsOK'
<1> DEFINE fb == fallbacks[req[r].model]
           q == [req[r] EXCEPT !.pc = "select", !.model = fb, !.chain = Append(Chain(r), fb),
                               !.trail = @ \o req[r].attempted, !.attempted = <<>>]
<1>1. req[r] \in RequestState /\ req[r].model \in Models
  BY DEF RequestsOK, RequestOK, Fallback, At
<1>2. CASE fb # NoModel /\ NextFallback(r, fb)
  <2>1. fb \in Models
    BY <1>1, <1>2, DispatcherAssumption DEF RequestsOK
  <2>2. Chain(r) \in Seq(Models)
    BY <1>1 DEF Chain, RequestState
  <2>3. Append(Chain(r), fb) \in Seq(Models)
    BY <2>1, <2>2, AppendProperties
  <2>4. req[r].trail \o req[r].attempted \in Seq(Channels)
    BY <1>1, ConcatProperties DEF RequestState
  <2>5. q \in RequestState /\ q.pc = "select" /\ q.model = fb
    <3> HIDE DEF fb
    <3> QED BY <1>1, <2>1, <2>3, <2>4, EmptySeq DEF RequestState
  <2>6. RequestOK(q)
    BY <2>1, <2>5 DEF RequestOK, InCall
  <2>7. req' = [req EXCEPT ![r] = q]
    BY <1>2 DEF Fallback
  <2>8. UNCHANGED adminVars
    BY DEF Fallback
  <2> QED BY <2>6, <2>7, <2>8, OneRequestMoves
<1>3. CASE ~(fb # NoModel /\ NextFallback(r, fb))
  BY <1>3, GoingSomewhere DEF Fallback, adminVars
<1> QED BY <1>2, <1>3

\* The arrival of response headers keeps a request in order.
LEMMA HeadersOK ==
    ASSUME RequestsOK, NEW r \in Requests, NEW status \in Statuses, Headers(r, status)
    PROVE  RequestsOK'
<1>1. req[r].pc \in InCall
  BY DEF Headers, Awaiting, At, InCall
<1>2. CASE Failed(r, TRUE, "draining")
  BY <1>1, <1>2, NextCandidateOK DEF Failed
<1>3. CASE Served(r, "done")
  BY <1>1, <1>3, ServedOK
<1>4. ASSUME NEW pc \in {"window", "reading"},
             req' = [req EXCEPT ![r].status = status, ![r].pc = pc], UNCHANGED adminVars
      PROVE  RequestsOK'
  <2> DEFINE q == [req[r] EXCEPT !.status = status, !.pc = pc]
  <2>1. req[r] \in RequestState /\ req[r].queue # <<>> /\ req[r].model \in Models
    BY <1>1 DEF RequestsOK, RequestOK, InCall
  <2>2. status \in {"ok", "fault", "rejected"}
    BY DEF Statuses
  <2>3. q \in RequestState /\ q.queue = req[r].queue /\ q.model = req[r].model
    BY <1>4, <2>1, <2>2 DEF RequestState
  <2>4. q.pc = pc
    BY <2>1 DEF RequestState
  <2>5. RequestOK(q)
    BY <1>4, <2>1, <2>3 DEF RequestOK, InCall
  <2> QED BY <1>4, <2>5, OneRequestMoves
<1> QED BY <1>2, <1>3, <1>4 DEF Headers

\* No step of a request disturbs the order; an administrator installs what
\* the constants allow.
LEMMA NextOK == RequestsOK /\ [Next]_vars => RequestsOK'
<1> SUFFICES ASSUME RequestsOK, [Next]_vars PROVE RequestsOK'
  OBVIOUS
<1>1. ASSUME NEW r \in Requests, NEW k \in Kinds, NEW m \in Models, Start(r, k, m)
      PROVE  RequestsOK'
  BY <1>1, StartOK
<1>2. ASSUME NEW r \in Requests, Gateway(r) \/ Upstream(r) PROVE RequestsOK'
  <2>1. req[r].pc \notin {"idle", "done"} => req[r].model \in Models
    BY DEF RequestsOK, RequestOK
  <2>2. req[r].pc \in InCall => req[r].queue # <<>>
    BY DEF RequestsOK, RequestOK
  <2>3. table \in [serves : [Models -> SUBSET Channels], speaks : SUBSET Channels]
    BY DispatcherAssumption DEF RequestsOK
  <2>4. CASE Select(r)
    BY <2>1, <2>3, <2>4, TakeCandidatesOK, GoingSomewhere DEF Select, At, Outside, adminVars
  <2>5. CASE SelectAny(r)
    BY <2>1, <2>3, <2>5, TakeCandidatesOK, GoingSomewhere DEF SelectAny, At, Outside, adminVars
  <2>6. CASE Bypass(r)
    BY <2>1, <2>6, SkipOK DEF Bypass, At, adminVars
  <2>7. CASE LetThrough(r)
    BY <2>1, <2>7, GoingSomewhere DEF LetThrough, At, InCall, adminVars
  <2>8. CASE NotCallable(r)
    BY <2>1, <2>2, <2>8, SkipOK DEF NotCallable, At, InCall, adminVars
  <2>9. CASE CallUpstream(r) \/ Sent(r)
    BY <2>1, <2>2, <2>9, GoingSomewhere DEF CallUpstream, Sent, At, InCall, adminVars
  <2>10. CASE \/ HeaderTimeout(r) \/ FirstEventTimeout(r) \/ CallCancelled(r)
              \/ FirstEventCancelled(r) \/ BodyBroken(r) \/ NetworkError(r) \/ BadFirstEvent(r)
    <3>1. req[r].pc \in InCall /\ \E b \in BOOLEAN : Failed(r, b, "try")
      BY <2>10 DEF HeaderTimeout, FirstEventTimeout, CallCancelled, FirstEventCancelled,
                   BodyBroken, NetworkError, Awaiting, BadFirstEvent, At, InCall
    <3> QED BY <3>1, NextCandidateOK DEF Failed
  <2>11. CASE BodyRead(r)
    <3>1. req[r].pc \in InCall
      BY <2>11 DEF BodyRead, At, InCall
    <3>2. CASE Served(r, "done")
      BY <3>1, <3>2, ServedOK
    <3>3. CASE Failed(r, req[r].status = "fault", "try")
      BY <3>1, <3>3, NextCandidateOK DEF Failed
    <3> QED BY <2>11, <3>2, <3>3 DEF BodyRead
  <2>12. CASE FirstEvent(r)
    BY <2>12, ServedOK DEF FirstEvent, At, InCall
  <2>13. CASE LeaveWindow(r) \/ EndStream(r)
    BY <2>13, GoingSomewhere DEF LeaveWindow, EndStream, adminVars
  <2>14. CASE Exhausted(r) \/ Drained(r)
    BY <2>1, <2>14, GoingSomewhere DEF Exhausted, Drained, At, Outside, adminVars
  <2>15. CASE Fallback(r)
    BY <2>15, FallbackOK
  <2>16. CASE \E status \in Statuses : Headers(r, status)
    BY <2>16, HeadersOK
  <2> QED BY <1>2, <2>4, <2>5, <2>6, <2>7, <2>8, <2>9, <2>10, <2>11, <2>12, <2>13, <2>14, <2>15,
             <2>16 DEF Gateway, Upstream
<1>3. ASSUME UNCHANGED <<req, table, fallbacks>> PROVE RequestsOK'
  BY <1>3 DEF RequestsOK
<1>4. CASE UpdateChannels
  BY <1>4 DEF UpdateChannels, RequestsOK
<1>5. CASE SetModelFallbacks
  BY <1>5 DEF SetModelFallbacks, RequestsOK
<1>6. CASE UNCHANGED vars
  BY <1>3, <1>6 DEF vars, adminVars
<1>7. CASE Tick
  BY <1>3, <1>7 DEF Tick, adminVars
<1>8. ASSUME NEW r \in Requests, Leave(r) PROVE RequestsOK'
  BY <1>3, <1>8 DEF Leave, adminVars
<1> QED BY <1>1, <1>2, <1>4, <1>5, <1>6, <1>7, <1>8 DEF Next

-----------------------------------------------------------------------------
(* The refinement. *)

\* A request reports on the channel it is in a call with.
LEMMA StepDrivesBreakers ==
    ASSUME RequestsOK, [Next]_vars
    PROVE  [CB!Next]_(CB!vars)
<1> USE DEF breakerVars, CB!vars
<1>1. ASSUME NEW r \in Requests, NEW c \in Channels,
             CB!Admit(r, c) \/ CB!Succeed(r, c) \/ CB!Fail(r, c) \/ CB!Abandon(r, c)
      PROVE  CB!Next
  BY <1>1 DEF CB!Next
<1>2. ASSUME NEW r \in Requests, Gateway(r) \/ Upstream(r) PROVE [CB!Next]_(CB!vars)
  <2>1. req[r].pc \in InCall => Candidate(r) \in Channels
    BY InCallFact
  <2>2. CASE \/ Select(r) \/ SelectAny(r) \/ Bypass(r) \/ CallUpstream(r) \/ Sent(r)
             \/ Drained(r) \/ EndStream(r) \/ Exhausted(r) \/ Fallback(r)
    BY <2>2 DEF Select, SelectAny, Bypass, CallUpstream, Sent, Drained, EndStream, Exhausted, Fallback
  <2>3. CASE LetThrough(r)
    <3>1. Candidate(r) \in Channels
      BY <2>3, HeadTailProperties DEF LetThrough, Candidate, RequestsOK, RequestState
    <3> QED BY <1>1, <2>3, <3>1 DEF LetThrough
  <2>4. CASE NotCallable(r) \/ LeaveWindow(r)
    BY <1>1, <2>1, <2>4 DEF NotCallable, LeaveWindow, At, InCall
  <2>5. CASE \/ HeaderTimeout(r) \/ FirstEventTimeout(r) \/ CallCancelled(r)
             \/ FirstEventCancelled(r) \/ BodyBroken(r) \/ NetworkError(r) \/ BadFirstEvent(r)
    BY <1>1, <2>1, <2>5
       DEF HeaderTimeout, FirstEventTimeout, CallCancelled, FirstEventCancelled, BodyBroken,
           NetworkError, Awaiting, BadFirstEvent, Failed, At, InCall
  <2>6. CASE BodyRead(r) \/ FirstEvent(r)
    BY <1>1, <2>1, <2>6 DEF BodyRead, FirstEvent, Failed, Served, At, InCall
  <2>7. ASSUME NEW status \in Statuses, Headers(r, status) PROVE [CB!Next]_(CB!vars)
    BY <1>1, <2>1, <2>7 DEF Headers, Awaiting, Failed, Served, At, InCall
  <2> QED BY <1>2, <2>2, <2>3, <2>4, <2>5, <2>6, <2>7 DEF Gateway, Upstream
<1>3. CASE UNCHANGED vars
  BY <1>3 DEF vars
<1>4. CASE Tick
  BY <1>4 DEF Tick, CB!Next
<1>5. CASE \/ UpdateChannels \/ SetModelFallbacks
           \/ \E r \in Requests : Leave(r) \/ \E k \in Kinds, m \in Models : Start(r, k, m)
  BY <1>5 DEF UpdateChannels, SetModelFallbacks, Leave, Start
<1> QED BY <1>2, <1>3, <1>4, <1>5 DEF Next

\* In every state every request is in order: one that is in a call has a channel to report on.
THEOREM RequestsStayOK == Spec => []RequestsOK
<1>1. Init => RequestsOK
  <2> SUFFICES ASSUME Init PROVE RequestsOK
    OBVIOUS
  <2>1. Idle \in RequestState /\ Idle.pc = "idle"
    BY EmptySeq DEF Idle, RequestState
  <2> HIDE DEF Idle
  <2> QED BY <2>1 DEF Init, RequestsOK, RequestOK, InCall
<1> QED BY <1>1, NextOK, PTL DEF Spec

(* Every step of the dispatcher is a step of the breaker or leaves it as   *)
(* it is: what is proved of the breaker carries over.                      *)
LEMMA DrivesBreakers == Spec => CB!Spec
<1>1. Init => CB!Init
  BY DEF Init
<1> QED BY <1>1, StepDrivesBreakers, RequestsStayOK, PTL DEF Spec, CB!Spec

(* What is proved of the breaker alone holds under the dispatcher: its     *)
(* failure count is the streak of failures, and one probe is out at a time *)
(* until it counts as abandoned.                                           *)
THEOREM BreakersHold == Spec => [](CB!TypeOK /\ CB!ClosedCountsTheStreak /\ CB!SoleProbe)
<1>1. CB!Init => Breaker!IInv
  <2>1. CB!Init = Breaker!Init
    BY DEF CB!Init, Breaker!Init, CB!FreshStatus, Breaker!FreshStatus, CB!NoCall,
           Breaker!NoCall, CB!CLOSED, Breaker!CLOSED
  <2> QED BY <2>1, Breaker!InitInvariant, BreakerAssumption
<1>2. [CB!Next]_(CB!vars) => [Breaker!Next]_(Breaker!vars)
  <2> USE DEF CB!Admits, Breaker!Admits, CB!ProbeSlotFree, Breaker!ProbeSlotFree,
              CB!AbandonedTooLong, Breaker!AbandonedTooLong, CB!AfterAdmission,
              Breaker!AfterAdmission, CB!TakeProbeSlot, Breaker!TakeProbeSlot, CB!ToHalfOpen,
              Breaker!ToHalfOpen, CB!ToOpen, Breaker!ToOpen, CB!ToClosed, Breaker!ToClosed,
              CB!Entered, Breaker!Entered, CB!AfterSuccess, Breaker!AfterSuccess,
              CB!HalfOpenSuccess, Breaker!HalfOpenSuccess, CB!AfterFailure,
              Breaker!AfterFailure, CB!ClosedFailure, Breaker!ClosedFailure, CB!Elapse,
              Breaker!Elapse, CB!AgeCap, Breaker!AgeCap, CB!MaxCanaryProbes,
              Breaker!MaxCanaryProbes, CB!SuccessThreshold, Breaker!SuccessThreshold,
              CB!CLOSED, Breaker!CLOSED, CB!OPEN, Breaker!OPEN, CB!HALF_OPEN,
              Breaker!HALF_OPEN, CB!NoCall, Breaker!NoCall
  <2>1. \A r \in Requests, c \in Channels : CB!Admit(r, c) => Breaker!Admit(r, c)
    BY DEF CB!Admit, Breaker!Admit
  <2>2. \A r \in Requests, c \in Channels : CB!Succeed(r, c) => Breaker!Succeed(r, c)
    BY DEF CB!Succeed, Breaker!Succeed, CB!Return, Breaker!Return, CB!Demoted,
           Breaker!Demoted
  <2>3. \A r \in Requests, c \in Channels : CB!Fail(r, c) => Breaker!Fail(r, c)
    BY DEF CB!Fail, Breaker!Fail, CB!Return, Breaker!Return, CB!Demoted, Breaker!Demoted
  <2>4. \A r \in Requests, c \in Channels : CB!Abandon(r, c) => Breaker!Abandon(r, c)
    BY DEF CB!Abandon, Breaker!Abandon
  <2>5. CB!Tick => Breaker!Tick
    BY DEF CB!Tick, Breaker!Tick
  <2> QED BY <2>1, <2>2, <2>3, <2>4, <2>5 DEF CB!Next, Breaker!Next, CB!vars, Breaker!vars
<1>3. Breaker!IInv /\ [CB!Next]_(CB!vars) => Breaker!IInv'
  BY <1>2, Breaker!StepInvariant, BreakerAssumption
<1>4. Breaker!IInv => CB!TypeOK /\ CB!ClosedCountsTheStreak /\ CB!SoleProbe
  BY DEF Breaker!IInv, CB!TypeOK, Breaker!TypeOK, CB!Status, Breaker!Status, CB!Call, Breaker!Call,
         CB!AgeCap, Breaker!AgeCap, CB!ClosedCountsTheStreak, Breaker!ClosedCountsTheStreak,
         CB!SoleProbe, Breaker!SoleProbe, CB!Probes, Breaker!Probes, CB!AbandonedTooLong,
         Breaker!AbandonedTooLong, CB!CLOSED, Breaker!CLOSED, CB!OPEN, Breaker!OPEN,
         CB!HALF_OPEN, Breaker!HALF_OPEN, CB!SuccessThreshold, Breaker!SuccessThreshold,
         CB!MaxCanaryProbes, Breaker!MaxCanaryProbes
<1> QED BY <1>1, <1>3, <1>4, DrivesBreakers, PTL DEF CB!Spec

\* The call log and the count of faults.
HistoryOK ==
    /\ gone \subseteq Requests
    /\ log \in [Requests -> Seq(Models \X Channels)]
    /\ faults \in [Channels -> 0 .. FailureThreshold]

\* The variables of the history keep their types.
LEMMA HistoryStaysOK == RequestsOK /\ HistoryOK /\ [Next]_vars => HistoryOK'
<1> SUFFICES ASSUME RequestsOK, HistoryOK, [Next]_vars PROVE HistoryOK'
  OBVIOUS
<1>1. ASSUME NEW r \in Requests, NEW k \in Kinds, NEW m \in Models, Start(r, k, m)
      PROVE  HistoryOK'
  BY <1>1, EmptySeq DEF Start, HistoryOK
<1>2. ASSUME UNCHANGED <<gone, log, faults>> PROVE HistoryOK'
  BY <1>2 DEF HistoryOK
<1>3. ASSUME NEW r \in Requests, Gateway(r) \/ Upstream(r) PROVE HistoryOK'
  <2>0. ASSUME NEW c, NEW count, c \in Channels => count \in 0 .. FailureThreshold,
               faults' = [faults EXCEPT ![c] = count], UNCHANGED <<gone, log>>
        PROVE  HistoryOK'
    BY <2>0 DEF HistoryOK
  <2>1. CASE CallUpstream(r)
    <3>1. req[r].pc \in InCall
      BY <2>1 DEF CallUpstream, At, InCall
    <3>2. <<req[r].model, Candidate(r)>> \in Models \X Channels
      BY <3>1, InCallFact
    <3>3. Append(log[r], <<req[r].model, Candidate(r)>>) \in Seq(Models \X Channels)
      BY <3>2, AppendProperties DEF HistoryOK
    <3> QED BY <2>1, <3>3 DEF CallUpstream, HistoryOK
  <2>2. ASSUME NEW pc, Served(r, pc) PROVE HistoryOK'
    <3>1. faults' = [faults EXCEPT ![Candidate(r)] = 0] /\ UNCHANGED <<gone, log>>
      BY <2>2 DEF Served
    <3>2. 0 \in 0 .. FailureThreshold
      BY BreakerAssumption
    <3> QED BY <2>0, <3>1, <3>2
  <2>3. ASSUME NEW b, NEW pc, Failed(r, b, pc) PROVE HistoryOK'
    <3> DEFINE count == IF b /\ faults[Candidate(r)] < FailureThreshold
                        THEN faults[Candidate(r)] + 1 ELSE faults[Candidate(r)]
    <3>1. faults' = [faults EXCEPT ![Candidate(r)] = count] /\ UNCHANGED <<gone, log>>
      BY <2>3 DEF Failed
    <3>2. Candidate(r) \in Channels => count \in 0 .. FailureThreshold
      BY BreakerAssumption DEF HistoryOK
    <3> QED BY <2>0, <3>1, <3>2
  <2>4. CASE \/ HeaderTimeout(r) \/ FirstEventTimeout(r) \/ CallCancelled(r) \/ BodyRead(r)
             \/ FirstEventCancelled(r) \/ BodyBroken(r) \/ NetworkError(r)
             \/ FirstEvent(r) \/ BadFirstEvent(r)
    BY <2>2, <2>3, <2>4 DEF HeaderTimeout, FirstEventTimeout, CallCancelled, BodyRead,
       FirstEventCancelled, BodyBroken, NetworkError, Awaiting, FirstEvent, BadFirstEvent
  <2>5. ASSUME NEW status \in Statuses, Headers(r, status) PROVE HistoryOK'
    BY <1>2, <2>2, <2>3, <2>5 DEF Headers
  <2>6. CASE \/ Select(r) \/ SelectAny(r) \/ Bypass(r) \/ LetThrough(r) \/ NotCallable(r)
             \/ LeaveWindow(r) \/ Drained(r) \/ EndStream(r) \/ Exhausted(r) \/ Fallback(r) \/ Sent(r)
    BY <1>2, <2>6 DEF Sent, Select, SelectAny, Bypass, LetThrough, NotCallable, LeaveWindow, Drained,
       EndStream, Exhausted, Fallback
  <2> QED BY <1>3, <2>1, <2>4, <2>5, <2>6 DEF Gateway, Upstream
<1>4. ASSUME NEW r \in Requests, Leave(r) PROVE HistoryOK'
  BY <1>4 DEF Leave, HistoryOK
<1>5. CASE UpdateChannels \/ SetModelFallbacks \/ Tick \/ UNCHANGED vars
  BY <1>2, <1>5 DEF UpdateChannels, SetModelFallbacks, Tick, vars
<1> QED BY <1>1, <1>3, <1>4, <1>5 DEF Next

(* The composed system is well-typed: in particular a request in a call    *)
(* has the channel it called at the head of its candidates, and the trail  *)
(* it leaves is made of channels only.                                     *)
THEOREM TypeCorrect == Spec => []TypeOK
<1>1. Init => HistoryOK
  BY EmptySeq, BreakerAssumption DEF Init, HistoryOK
<1>2. RequestsOK /\ HistoryOK /\ CB!TypeOK => TypeOK
  BY DEF RequestsOK, HistoryOK, TypeOK
<1>3. Spec => []HistoryOK
  BY <1>1, HistoryStaysOK, RequestsStayOK, PTL DEF Spec
<1> QED BY <1>2, <1>3, RequestsStayOK, BreakersHold, PTL

-----------------------------------------------------------------------------
(* What a request has done, and what it may still do.                      *)

Calling == {"sending", "called", "reading", "window"}
Looking == {"try", "admitted", "draining"}

CallsOf(l) == [i \in DOMAIN l |-> l[i][2]]
ChainOf(q) == IF q.chain = <<>> THEN <<q.model>> ELSE q.chain

\* The models of the chain are different up to case, and the calls were made for them.
Chained(q, l) ==
    /\ Len(ChainOf(q)) <= MaxFallbackDepth
    /\ \A i, j \in DOMAIN ChainOf(q) : i # j => Fold[ChainOf(q)[i]] # Fold[ChainOf(q)[j]]
    /\ \E j \in DOMAIN ChainOf(q) : q.model = ChainOf(q)[j]
    /\ \A i \in DOMAIN l : \E j \in DOMAIN ChainOf(q) : l[i][1] = ChainOf(q)[j]

\* The candidates that are left were not called for this model.
Unrepeated(q, l) ==
    /\ q.pc \in {"select", "selectAny"} => \A i \in DOMAIN l : Fold[l[i][1]] # Fold[q.model]
    /\ q.pc \in Looking \cup Calling =>
          \A i, j \in DOMAIN q.queue : i # j => q.queue[i] # q.queue[j]
    /\ q.pc \in Looking =>
          \A i \in DOMAIN l, k \in DOMAIN q.queue : Fold[l[i][1]] = Fold[q.model] => l[i][2] # q.queue[k]
    /\ q.pc \in Calling =>
          \A i \in DOMAIN l, k \in DOMAIN q.queue :
              k # 1 /\ Fold[l[i][1]] = Fold[q.model] => l[i][2] # q.queue[k]
    /\ \A i, j \in DOMAIN l : i # j => <<Fold[l[i][1]], l[i][2]>> # <<Fold[l[j][1]], l[j][2]>>

\* The trail so far, and the candidate that is being called, are the calls.
Told(q, l) ==
    /\ q.pc \in {"select", "selectAny"} => q.attempted = <<>>
    /\ q.pc \notin {"done", "streaming"} => q.shown = <<>>
    /\ q.pc \in {"select", "selectAny", "fallback"} \cup Looking => CallsOf(l) = q.trail \o q.attempted
    /\ q.pc \in Calling => CallsOf(l) = Append(q.trail \o q.attempted, Head(q.queue))
    /\ q.shown # <<>> =>
          /\ q.shown = SubSeq(CallsOf(l), Len(CallsOf(l)) - Len(q.shown) + 1, Len(CallsOf(l)))
          /\ TrailLen(CallsOf(l)) <= MaxChannelTrailLen => q.shown = CallsOf(l)

LogOK(q, l) == Chained(q, l) /\ Unrepeated(q, l) /\ Told(q, l)

LogsOK == \A r \in Requests : LogOK(req[r], log[r])

\* It is enough to look at the request that moves.
LEMMA OneLogMoves ==
    ASSUME RequestsOK, LogsOK, NEW r \in Requests, NEW q, LogOK(q, log[r]),
           req' = [req EXCEPT ![r] = q], UNCHANGED log
    PROVE  LogsOK'
BY DEF LogsOK, RequestsOK

LEMMA NoCallYet ==
    ASSUME NEW q \in RequestState, q.pc \in {"idle", "select"}, q.chain = <<>>,
           q.attempted = <<>>, q.trail = <<>>, q.shown = <<>>
    PROVE  LogOK(q, <<>>)
<1>1. ChainOf(q) = <<q.model>> /\ Len(ChainOf(q)) = 1 /\ DOMAIN ChainOf(q) = {1}
  BY DEF ChainOf
<1>2. DOMAIN <<>> = {} /\ CallsOf(<<>>) = <<>> /\ <<>> \o <<>> = <<>>
  BY EmptySeq, ConcatEmptySeq DEF CallsOf
<1>3. Chained(q, <<>>)
  BY <1>1, <1>2 DEF Chained, MaxFallbackDepth
<1>4. Unrepeated(q, <<>>)
  BY <1>2 DEF Unrepeated, Looking, Calling
<1>5. Told(q, <<>>)
  BY <1>2 DEF Told, Looking, Calling
<1> QED BY <1>3, <1>4, <1>5 DEF LogOK

LEMMA StartLogs ==
    ASSUME RequestsOK, LogsOK, NEW r \in Requests, log \in [Requests -> Seq(Models \X Channels)],
           NEW k \in Kinds, NEW m \in Models, Start(r, k, m)
    PROVE  LogsOK'
<1> DEFINE q == [Idle EXCEPT !.pc = "select", !.kind = k, !.model = m]
<1>1. q \in RequestState /\ q.pc = "select"
  BY EmptySeq, DispatcherAssumption DEF Idle, RequestState
<1>2. q.chain = <<>> /\ q.attempted = <<>> /\ q.trail = <<>> /\ q.shown = <<>>
  BY DEF Idle
<1>3. LogOK(q, <<>>)
  <2> HIDE DEF q
  <2> QED BY <1>1, <1>2, NoCallYet
<1>4. req' = [req EXCEPT ![r] = q] /\ log' = [log EXCEPT ![r] = <<>>]
  BY DEF Start
<1> HIDE DEF q
<1> QED BY <1>3, <1>4 DEF LogsOK, RequestsOK

\* Moves between places of which the same is known.
LEMMA OnwardLogs ==
    ASSUME RequestsOK, LogsOK, NEW r \in Requests, NEW q \in RequestState, UNCHANGED log,
           req' = [req EXCEPT ![r] = q],
           q.model = req[r].model, q.chain = req[r].chain, q.queue = req[r].queue,
           q.attempted = req[r].attempted, q.trail = req[r].trail, q.shown = req[r].shown,
           \/ q.pc = "done"
           \/ req[r].pc = "select" /\ q.pc = "selectAny"
           \/ req[r].pc = "selectAny" /\ q.pc = "fallback"
           \/ req[r].pc \in Looking /\ q.pc \in Looking \cup {"fallback"}
           \/ req[r].pc \in Calling /\ q.pc \in Calling
    PROVE  LogsOK'
<1> DEFINE l == log[r]
<1>1. Chained(req[r], l) /\ Unrepeated(req[r], l) /\ Told(req[r], l)
  BY DEF LogsOK, LogOK
<1> HIDE DEF l
<1>2. Chained(q, l)
  BY <1>1 DEF Chained, ChainOf
<1>3. Unrepeated(q, l)
  BY <1>1 DEF Unrepeated, Looking, Calling
<1>4. Told(q, l)
  BY <1>1 DEF Told, Looking, Calling
<1> USE DEF l
<1> QED BY <1>2, <1>3, <1>4, OneLogMoves DEF LogOK

LEMMA GotoLogs ==
    ASSUME RequestsOK, LogsOK, NEW r \in Requests, NEW pc, Goto(r, pc), UNCHANGED log,
           \/ pc = "done"
           \/ req[r].pc = "select" /\ pc = "selectAny"
           \/ req[r].pc = "selectAny" /\ pc = "fallback"
           \/ req[r].pc \in Looking /\ pc \in Looking \cup {"fallback"}
    PROVE  LogsOK'
<1> DEFINE q == [req[r] EXCEPT !.pc = pc]
<1>1. req[r] \in RequestState
  BY DEF RequestsOK
<1>2. /\ q \in RequestState /\ q.pc = pc /\ q.model = req[r].model /\ q.chain = req[r].chain
      /\ q.queue = req[r].queue /\ q.attempted = req[r].attempted
      /\ q.trail = req[r].trail /\ q.shown = req[r].shown
  BY <1>1 DEF RequestState, Looking
<1>3. req' = [req EXCEPT ![r] = q]
  BY DEF Goto
<1> HIDE DEF q
<1> QED BY <1>2, <1>3, OnwardLogs

LEMMA TakeCandidatesLogs ==
    ASSUME RequestsOK, LogsOK, NEW r \in Requests, NEW S \in SUBSET Channels, UNCHANGED log,
           req[r].pc \in {"select", "selectAny"}, TakeCandidates(r, S)
    PROVE  LogsOK'
<1>1. PICK s \in Orders(S) :
        req' = [req EXCEPT ![r].queue = s, ![r].attempted = <<>>, ![r].pc = "try"]
  BY DEF TakeCandidates
<1> DEFINE q == [req[r] EXCEPT !.queue = s, !.attempted = <<>>, !.pc = "try"]
           l == log[r]
<1>2. s \in Seq(Channels) /\ \A i, j \in DOMAIN s : s[i] = s[j] => i = j
  BY <1>1, OrdersAreSequences DEF Orders
<1>3. req[r] \in RequestState
  BY DEF RequestsOK
<1>4. /\ q.pc = "try" /\ q.model = req[r].model /\ q.chain = req[r].chain /\ q.queue = s
      /\ q.attempted = <<>> /\ q.trail = req[r].trail /\ q.shown = req[r].shown
  BY <1>3 DEF RequestState
<1>5. Chained(req[r], l) /\ Unrepeated(req[r], l) /\ Told(req[r], l)
  BY DEF LogsOK, LogOK
<1>6. req' = [req EXCEPT ![r] = q]
  BY <1>1
<1> HIDE DEF l, q
<1>7. Chained(q, l)
  BY <1>4, <1>5 DEF Chained, ChainOf
<1>8. Unrepeated(q, l)
  BY <1>2, <1>4, <1>5 DEF Unrepeated, Looking, Calling
<1>9. Told(q, l)
  BY <1>4, <1>5 DEF Told, Looking, Calling
<1> USE DEF l
<1> QED BY <1>6, <1>7, <1>8, <1>9, OneLogMoves DEF LogOK

\* A queue without its head.
LEMMA TailFact ==
    ASSUME NEW s \in Seq(Channels), s # <<>>
    PROVE  /\ Tail(s) \in Seq(Channels) /\ Head(s) = s[1] /\ 1 \in DOMAIN s
           /\ \A i \in DOMAIN Tail(s) : i \in Nat /\ i + 1 \in DOMAIN s /\ i + 1 # 1 /\ Tail(s)[i] = s[i + 1]
<1>1. Len(s) \in Nat /\ Len(s) >= 1 /\ DOMAIN s = 1 .. Len(s)
  BY EmptySeq, LenProperties
<1>2. Tail(s) \in Seq(Channels) /\ Len(Tail(s)) = Len(s) - 1 /\ \A i \in 1 .. Len(Tail(s)) : Tail(s)[i] = s[i + 1]
  BY HeadTailProperties
<1>3. DOMAIN Tail(s) = 1 .. Len(s) - 1
  BY <1>2, LenProperties
<1> QED BY <1>1, <1>2, <1>3

LEMMA SkipLogs ==
    ASSUME RequestsOK, LogsOK, NEW r \in Requests, UNCHANGED log,
           req[r].pc \in {"try", "admitted"}, req[r].queue # <<>>, Skip(r)
    PROVE  LogsOK'
<1> DEFINE q == [req[r] EXCEPT !.queue = Tail(@), !.pc = "try"]
           l == log[r]
<1>1. req[r] \in RequestState /\ req[r].queue \in Seq(Channels)
  BY DEF RequestsOK, RequestState
<1>2. /\ q.pc = "try" /\ q.model = req[r].model /\ q.chain = req[r].chain /\ q.queue = Tail(req[r].queue)
      /\ q.attempted = req[r].attempted /\ q.trail = req[r].trail /\ q.shown = req[r].shown
  BY <1>1 DEF RequestState
<1>3. Chained(req[r], l) /\ Unrepeated(req[r], l) /\ Told(req[r], l)
  BY DEF LogsOK, LogOK
<1>4. req' = [req EXCEPT ![r] = q]
  BY DEF Skip
<1> HIDE DEF l, q
<1>5. Chained(q, l)
  BY <1>2, <1>3 DEF Chained, ChainOf
<1>6. Unrepeated(q, l)
  <2>1. \A i \in DOMAIN q.queue : i \in Nat /\ i + 1 \in DOMAIN req[r].queue /\ q.queue[i] = req[r].queue[i + 1]
    BY <1>1, <1>2, TailFact
  <2>2. /\ \A i, j \in DOMAIN req[r].queue : i # j => req[r].queue[i] # req[r].queue[j]
        /\ \A i \in DOMAIN l, k \in DOMAIN req[r].queue :
              Fold[l[i][1]] = Fold[req[r].model] => l[i][2] # req[r].queue[k]
        /\ \A i, j \in DOMAIN l : i # j => <<Fold[l[i][1]], l[i][2]>> # <<Fold[l[j][1]], l[j][2]>>
    BY <1>3 DEF Unrepeated, Looking, Calling
  <2>3. \A i, j \in DOMAIN q.queue : i # j => q.queue[i] # q.queue[j]
    <3> SUFFICES ASSUME NEW i \in DOMAIN q.queue, NEW j \in DOMAIN q.queue, i # j
                 PROVE  q.queue[i] # q.queue[j]
      OBVIOUS
    <3>1. i \in Nat /\ j \in Nat /\ i + 1 # j + 1
      BY <2>1
    <3> QED BY <2>1, <2>2, <3>1
  <2>4. \A i \in DOMAIN l, k \in DOMAIN q.queue : Fold[l[i][1]] = Fold[q.model] => l[i][2] # q.queue[k]
    BY <1>2, <2>1, <2>2
  <2> QED BY <1>2, <2>2, <2>3, <2>4 DEF Unrepeated, Looking, Calling
<1>7. Told(q, l)
  BY <1>2, <1>3 DEF Told, Looking, Calling
<1> USE DEF l
<1> QED BY <1>4, <1>5, <1>6, <1>7, OneLogMoves DEF LogOK

LEMMA CallLogs ==
    ASSUME RequestsOK, LogsOK, log \in [Requests -> Seq(Models \X Channels)],
           NEW r \in Requests, CallUpstream(r)
    PROVE  LogsOK'
<1> DEFINE q == [req[r] EXCEPT !.pc = "sending"]
           l == log[r]
           c == Candidate(r)
           l1 == Append(l, <<req[r].model, c>>)
<1>1. /\ req[r].pc = "admitted" /\ req' = [req EXCEPT ![r] = q] /\ log' = [log EXCEPT ![r] = l1]
  BY DEF CallUpstream, At, Goto
<1>2. req[r] \in RequestState /\ c \in Channels /\ req[r].model \in Models /\ req[r].queue \in Seq(Channels)
  BY <1>1, InCallFact DEF InCall
<1>3. req[r].queue # <<>> /\ c = Head(req[r].queue)
  BY <1>1 DEF RequestsOK, RequestOK, InCall, Candidate
<1>4. /\ q.pc = "sending" /\ q.model = req[r].model /\ q.chain = req[r].chain /\ q.queue = req[r].queue
      /\ q.attempted = req[r].attempted /\ q.trail = req[r].trail /\ q.shown = req[r].shown
  BY <1>2 DEF RequestState
<1>5. Chained(req[r], l) /\ Unrepeated(req[r], l) /\ Told(req[r], l)
  BY DEF LogsOK, LogOK
<1>6. l \in Seq(Models \X Channels) /\ Len(l) \in Nat /\ DOMAIN l = 1 .. Len(l)
  BY LenProperties
<1>7. /\ DOMAIN l1 = 1 .. Len(l) + 1 /\ \A i \in DOMAIN l : l1[i] = l[i]
      /\ l1[Len(l) + 1] = <<req[r].model, c>>
  <2>1. <<req[r].model, c>> \in Models \X Channels
    BY <1>2
  <2>2. l1 \in Seq(Models \X Channels) /\ Len(l1) = Len(l) + 1
    BY <1>6, <2>1, AppendProperties
  <2> QED BY <1>6, <2>1, <2>2, AppendProperties, LenProperties
<1> HIDE DEF l, l1, q, c
<1>8. /\ l1[Len(l) + 1][1] = req[r].model /\ l1[Len(l) + 1][2] = c
      /\ \A i \in DOMAIN l1 : i \in DOMAIN l \/ i = Len(l) + 1
      /\ Len(l) + 1 \notin DOMAIN l
  BY <1>6, <1>7
<1>9. Chained(q, l1)
  <2>1. ChainOf(q) = ChainOf(req[r])
    BY <1>4 DEF ChainOf
  <2>2. \E j \in DOMAIN ChainOf(q) : req[r].model = ChainOf(q)[j]
    BY <1>5, <2>1 DEF Chained
  <2>3. \A i \in DOMAIN l1 : \E j \in DOMAIN ChainOf(q) : l1[i][1] = ChainOf(q)[j]
    <3> SUFFICES ASSUME NEW i \in DOMAIN l1 PROVE \E j \in DOMAIN ChainOf(q) : l1[i][1] = ChainOf(q)[j]
      OBVIOUS
    <3>1. CASE i \in DOMAIN l
      BY <1>5, <1>7, <2>1, <3>1 DEF Chained
    <3>2. CASE i = Len(l) + 1
      BY <1>8, <2>2, <3>2
    <3> QED BY <1>8, <3>1, <3>2
  <2> QED BY <1>4, <1>5, <2>1, <2>2, <2>3 DEF Chained
<1>10. Unrepeated(q, l1)
  <2>1. c = req[r].queue[1] /\ 1 \in DOMAIN req[r].queue
    BY <1>2, <1>3, TailFact
  <2>2. /\ \A i, j \in DOMAIN req[r].queue : i # j => req[r].queue[i] # req[r].queue[j]
        /\ \A i \in DOMAIN l, k \in DOMAIN req[r].queue :
              Fold[l[i][1]] = Fold[req[r].model] => l[i][2] # req[r].queue[k]
        /\ \A i, j \in DOMAIN l : i # j => <<Fold[l[i][1]], l[i][2]>> # <<Fold[l[j][1]], l[j][2]>>
    BY <1>1, <1>5 DEF Unrepeated, Looking
  <2>3. \A i \in DOMAIN l1, k \in DOMAIN q.queue :
          k # 1 /\ Fold[l1[i][1]] = Fold[q.model] => l1[i][2] # q.queue[k]
    BY <1>4, <1>7, <1>8, <2>1, <2>2
  <2>4. \A i, j \in DOMAIN l1 : i # j => <<Fold[l1[i][1]], l1[i][2]>> # <<Fold[l1[j][1]], l1[j][2]>>
    <3>1. \A i \in DOMAIN l : Fold[l[i][1]] = Fold[req[r].model] => l[i][2] # c
      BY <2>1, <2>2
    <3> QED BY <1>7, <1>8, <2>2, <3>1
  <2> QED BY <1>4, <2>2, <2>3, <2>4 DEF Unrepeated, Looking, Calling
<1>11. Told(q, l1)
  <2>1. CallsOf(l) = req[r].trail \o req[r].attempted /\ req[r].shown = <<>>
    BY <1>1, <1>5 DEF Told, Looking
  <2>2. CallsOf(l1) = Append(CallsOf(l), c)
    <3>1. CallsOf(l) \in Seq(Channels) /\ Len(CallsOf(l)) = Len(l)
      <4>1. CallsOf(l) = [i \in 1 .. Len(l) |-> l[i][2]] /\ \A i \in 1 .. Len(l) : l[i][2] \in Channels
        BY <1>6, ElementOfSeq DEF CallsOf
      <4> QED BY <1>6, <4>1, IsASeq
    <3>2. CallsOf(l1) = [i \in 1 .. Len(l) + 1 |-> l1[i][2]]
      BY <1>7 DEF CallsOf
    <3>3. \A i \in 1 .. Len(l) + 1 : l1[i][2] = IF i = Len(l) + 1 THEN c ELSE CallsOf(l)[i]
      BY <1>6, <1>7, <1>8 DEF CallsOf
    <3>4. /\ Append(CallsOf(l), c) \in Seq(Channels) /\ Len(Append(CallsOf(l), c)) = Len(l) + 1
          /\ \A i \in 1 .. Len(l) : Append(CallsOf(l), c)[i] = CallsOf(l)[i]
          /\ Append(CallsOf(l), c)[Len(l) + 1] = c
      BY <1>2, <3>1, AppendProperties
    <3>5. \A i \in 1 .. Len(l) + 1 : l1[i][2] = Append(CallsOf(l), c)[i]
      BY <1>6, <3>3, <3>4
    <3>6. CallsOf(l1) \in Seq(Channels) /\ Len(CallsOf(l1)) = Len(l) + 1
      <4>1. \A i \in 1 .. Len(l) + 1 : l1[i][2] \in Channels
        BY <1>6, <3>4, <3>5, ElementOfSeq
      <4> QED BY <1>6, <3>2, <4>1, IsASeq
    <3> QED BY <1>6, <3>2, <3>4, <3>5, <3>6, SeqEqual
  <2> QED BY <1>3, <1>4, <2>1, <2>2 DEF Told, Looking, Calling
<1> QED BY <1>1, <1>9, <1>10, <1>11 DEF LogsOK, LogOK, RequestsOK

LEMMA NextCandidateLogs ==
    ASSUME RequestsOK, LogsOK, NEW r \in Requests, UNCHANGED log, req[r].pc \in Calling,
           NEW pc \in {"try", "draining"}, NextCandidate(r, pc)
    PROVE  LogsOK'
<1> DEFINE c == Candidate(r)
           q == [req[r] EXCEPT !.pc = pc, !.queue = Tail(@), !.attempted = Append(@, c)]
           l == log[r]
<1>1. /\ req[r] \in RequestState /\ req[r].queue \in Seq(Channels) /\ req[r].queue # <<>>
      /\ c \in Channels /\ c = Head(req[r].queue)
  BY InCallFact DEF RequestsOK, RequestOK, InCall, Calling, Candidate
<1>2. /\ q.pc = pc /\ q.model = req[r].model /\ q.chain = req[r].chain /\ q.queue = Tail(req[r].queue)
      /\ q.attempted = Append(req[r].attempted, c) /\ q.trail = req[r].trail /\ q.shown = req[r].shown
  BY <1>1 DEF RequestState
<1>3. Chained(req[r], l) /\ Unrepeated(req[r], l) /\ Told(req[r], l)
  BY DEF LogsOK, LogOK
<1>4. req' = [req EXCEPT ![r] = q]
  BY DEF NextCandidate
<1> HIDE DEF l, q, c
<1>5. Chained(q, l)
  BY <1>2, <1>3 DEF Chained, ChainOf
<1>6. Unrepeated(q, l)
  <2>1. \A i \in DOMAIN q.queue :
          i \in Nat /\ i + 1 \in DOMAIN req[r].queue /\ i + 1 # 1 /\ q.queue[i] = req[r].queue[i + 1]
    BY <1>1, <1>2, TailFact
  <2>2. /\ \A i, j \in DOMAIN req[r].queue : i # j => req[r].queue[i] # req[r].queue[j]
        /\ \A i \in DOMAIN l, k \in DOMAIN req[r].queue :
              k # 1 /\ Fold[l[i][1]] = Fold[req[r].model] => l[i][2] # req[r].queue[k]
        /\ \A i, j \in DOMAIN l : i # j => <<Fold[l[i][1]], l[i][2]>> # <<Fold[l[j][1]], l[j][2]>>
    BY <1>3 DEF Unrepeated
  <2>3. \A i, j \in DOMAIN q.queue : i # j => q.queue[i] # q.queue[j]
    <3> SUFFICES ASSUME NEW i \in DOMAIN q.queue, NEW j \in DOMAIN q.queue, i # j
                 PROVE  q.queue[i] # q.queue[j]
      OBVIOUS
    <3>1. i \in Nat /\ j \in Nat /\ i + 1 # j + 1
      BY <2>1
    <3> QED BY <2>1, <2>2, <3>1
  <2>4. \A i \in DOMAIN l, k \in DOMAIN q.queue : Fold[l[i][1]] = Fold[q.model] => l[i][2] # q.queue[k]
    BY <1>2, <2>1, <2>2
  <2> QED BY <1>2, <2>2, <2>3, <2>4 DEF Unrepeated, Looking, Calling
<1>7. Told(q, l)
  <2>1. CallsOf(l) = Append(req[r].trail \o req[r].attempted, c) /\ req[r].shown = <<>>
    BY <1>1, <1>3 DEF Told, Calling
  <2>2. Append(req[r].trail \o req[r].attempted, c) = req[r].trail \o Append(req[r].attempted, c)
    <3> DEFINE t == req[r].trail
               a == req[r].attempted
    <3>1. t \in Seq(Channels) /\ a \in Seq(Channels) /\ <<c>> \in Seq(Channels)
      BY <1>1 DEF RequestState
    <3> HIDE DEF t, a
    <3>2. t \o a \in Seq(Channels)
      BY <3>1, ConcatProperties
    <3>3. Append(t \o a, c) = (t \o a) \o <<c>> /\ Append(a, c) = a \o <<c>>
      BY <1>1, <3>1, <3>2, AppendIsConcat
    <3>4. (t \o a) \o <<c>> = t \o (a \o <<c>>)
      BY <3>1, ConcatAssociative
    <3> USE DEF t, a
    <3> QED BY <3>3, <3>4
  <2> QED BY <1>2, <2>1, <2>2 DEF Told, Looking, Calling
<1> USE DEF l
<1> QED BY <1>4, <1>5, <1>6, <1>7, OneLogMoves DEF LogOK

\* The trail that is shown is the end of the calls, whole unless it is too long.
LEMMA TrailIsTheEnd ==
    ASSUME NEW hops \in Seq(Channels), hops # <<>>
    PROVE  LET shown == formatChannelTrail(hops)
           IN  /\ shown = SubSeq(hops, Len(hops) - Len(shown) + 1, Len(hops))
               /\ TrailLen(hops) <= MaxChannelTrailLen => shown = hops
<1> DEFINE n == Len(hops)
           fits == {n} \cup {i \in 1 .. n : TrailLen(SubSeq(hops, i, n)) + 1 <= MaxChannelTrailLen}
           first == CHOOSE i \in fits : \A k \in fits : i <= k
<1>1. n \in Nat /\ n >= 1
  BY EmptySeq, LenProperties
<1>2. CASE TrailLen(hops) <= MaxChannelTrailLen
  <2>1. formatChannelTrail(hops) = hops
    BY <1>2 DEF formatChannelTrail
  <2>2. SubSeq(hops, 1, n) = hops
    BY SubSeqFull
  <2> QED BY <1>1, <2>1, <2>2
<1>3. CASE ~(TrailLen(hops) <= MaxChannelTrailLen)
  <2>1. formatChannelTrail(hops) = SubSeq(hops, first, n)
    BY <1>3 DEF formatChannelTrail
  <2>2. first \in 1 .. n
    <3>1. fits = Fits(hops) /\ first = CHOOSE i \in Fits(hops) : \A k \in Fits(hops) : i <= k
      BY DEF Fits
    <3> HIDE DEF fits, first
    <3> QED BY <3>1, LeastFit
  <2>3. Len(SubSeq(hops, first, n)) = n - first + 1
    <3> HIDE DEF first
    <3>1. first \in Int /\ n \in Int /\ first <= n /\ \A i \in first .. n : hops[i] \in Channels
      BY <1>1, <2>2, ElementOfSeq
    <3> QED BY <3>1, SubSeqProperties
  <2>4. n - Len(SubSeq(hops, first, n)) + 1 = first
    <3> HIDE DEF first
    <3> QED BY <1>1, <2>2, <2>3
  <2> HIDE DEF first
  <2> QED BY <1>3, <2>1, <2>4
<1> QED BY <1>2, <1>3

LEMMA ServedLogs ==
    ASSUME RequestsOK, LogsOK, NEW r \in Requests, req[r].pc \in Calling,
           NEW pc \in {"done", "streaming"}, Served(r, pc)
    PROVE  LogsOK'
<1> DEFINE trail == formatChannelTrail(Hops(r))
           q == [req[r] EXCEPT !.pc = pc, !.shown = trail]
           l == log[r]
<1>1. /\ req[r] \in RequestState /\ Candidate(r) \in Channels /\ Candidate(r) = Head(req[r].queue)
  BY InCallFact DEF InCall, Calling, Candidate
<1>2. Chained(req[r], l) /\ Unrepeated(req[r], l) /\ Told(req[r], l)
  BY DEF LogsOK, LogOK
<1>3. Hops(r) = CallsOf(l)
  BY <1>1, <1>2 DEF Told, Hops, Calling
<1>4. Hops(r) \in Seq(Channels) /\ Hops(r) # <<>>
  <2> DEFINE tried == req[r].trail \o req[r].attempted
  <2>1. tried \in Seq(Channels)
    BY <1>1, ConcatProperties DEF RequestState
  <2>2. Append(tried, Candidate(r)) \in Seq(Channels) /\ Append(tried, Candidate(r)) # <<>>
    <3> HIDE DEF tried
    <3> QED BY <1>1, <2>1, AppendProperties
  <2> QED BY <2>2 DEF Hops
<1>5. /\ trail = SubSeq(CallsOf(l), Len(CallsOf(l)) - Len(trail) + 1, Len(CallsOf(l)))
      /\ TrailLen(CallsOf(l)) <= MaxChannelTrailLen => trail = CallsOf(l)
  BY <1>3, <1>4, TrailIsTheEnd
<1>6. /\ q.pc = pc /\ q.model = req[r].model /\ q.chain = req[r].chain /\ q.queue = req[r].queue
      /\ q.shown = trail
  BY <1>1 DEF RequestState
<1>7. req' = [req EXCEPT ![r] = q] /\ UNCHANGED log
  BY DEF Served
<1> HIDE DEF l, q, trail
<1>8. Chained(q, l)
  BY <1>2, <1>6 DEF Chained, ChainOf
<1>9. Unrepeated(q, l)
  BY <1>2, <1>6 DEF Unrepeated, Looking, Calling
<1>10. Told(q, l)
  BY <1>5, <1>6 DEF Told, Looking, Calling
<1> USE DEF l
<1> QED BY <1>7, <1>8, <1>9, <1>10, OneLogMoves DEF LogOK

LEMMA FallbackLogs ==
    ASSUME RequestsOK, LogsOK, NEW r \in Requests, Fallback(r)
    PROVE  LogsOK'
<1> DEFINE fb == fallbacks[req[r].model]
           q == [req[r] EXCEPT !.pc = "select", !.model = fb, !.chain = Append(Chain(r), fb),
                               !.trail = @ \o req[r].attempted, !.attempted = <<>>]
           l == log[r]
<1>1. req[r] \in RequestState /\ req[r].model \in Models /\ req[r].pc = "fallback" /\ UNCHANGED log
  BY DEF RequestsOK, RequestOK, Fallback, At
<1>2. CASE ~(fb # NoModel /\ NextFallback(r, fb))
  BY <1>1, <1>2, GotoLogs DEF Fallback
<1>3. CASE fb # NoModel /\ NextFallback(r, fb)
  <2>1. fb \in Models
    BY <1>1, <1>3, DispatcherAssumption DEF RequestsOK
  <2>2. Chain(r) = ChainOf(req[r]) /\ Chain(r) \in Seq(Models)
    BY <1>1 DEF Chain, ChainOf, RequestState
  <2> DEFINE old == Chain(r)
             new == Append(old, fb)
  <2>3. /\ new \in Seq(Models) /\ new # <<>> /\ Len(new) = Len(old) + 1 /\ new[Len(old) + 1] = fb
        /\ \A i \in 1 .. Len(old) : new[i] = old[i]
    BY <2>1, <2>2, AppendProperties
  <2>4. Len(old) \in Nat /\ DOMAIN old = 1 .. Len(old) /\ DOMAIN new = 1 .. Len(old) + 1
    BY <2>2, <2>3, LenProperties
  <2>5. Len(old) < MaxFallbackDepth /\ \A i \in DOMAIN old : Fold[old[i]] # Fold[fb]
    BY <1>3 DEF NextFallback
  <2>6. /\ q.pc = "select" /\ q.model = fb /\ q.chain = new /\ q.attempted = <<>>
        /\ q.trail = req[r].trail \o req[r].attempted /\ q.shown = req[r].shown
    BY <1>1 DEF RequestState
  <2>7. Chained(req[r], l) /\ Unrepeated(req[r], l) /\ Told(req[r], l)
    BY DEF LogsOK, LogOK
  <2>8. req' = [req EXCEPT ![r] = q]
    BY <1>3 DEF Fallback
  <2> HIDE DEF l, q, fb, old, new
  <2>9. ChainOf(q) = new /\ ChainOf(req[r]) = old
    BY <2>2, <2>3, <2>6 DEF ChainOf, old
  <2>10. Chained(q, l)
    <3>1. Len(new) <= MaxFallbackDepth
      BY <2>3, <2>4, <2>5 DEF MaxFallbackDepth
    <3>2. \A i \in DOMAIN new : (i \in DOMAIN old /\ new[i] = old[i]) \/ (i = Len(old) + 1 /\ new[i] = fb)
      <4> SUFFICES ASSUME NEW i \in DOMAIN new
                   PROVE  (i \in DOMAIN old /\ new[i] = old[i]) \/ (i = Len(old) + 1 /\ new[i] = fb)
        OBVIOUS
      <4>1. i \in 1 .. Len(old) \/ i = Len(old) + 1
        BY <2>4
      <4> QED BY <2>3, <2>4, <4>1
    <3>3. \A i \in DOMAIN old : i \in DOMAIN new /\ new[i] = old[i]
      BY <2>3, <2>4
    <3>4. \A i, j \in DOMAIN new : i # j => Fold[new[i]] # Fold[new[j]]
      BY <2>5, <2>7, <2>9, <3>2 DEF Chained
    <3>5. \E j \in DOMAIN new : q.model = new[j]
      BY <2>3, <2>4, <2>6
    <3>6. \A i \in DOMAIN l : \E j \in DOMAIN new : l[i][1] = new[j]
      BY <2>7, <2>9, <3>3 DEF Chained
    <3> QED BY <2>9, <3>1, <3>4, <3>5, <3>6 DEF Chained
  <2>11. Unrepeated(q, l)
    <3>1. \A i \in DOMAIN l : Fold[l[i][1]] # Fold[fb]
      BY <2>5, <2>7, <2>9 DEF Chained
    <3> QED BY <2>6, <2>7, <3>1 DEF Unrepeated, Looking, Calling
  <2>12. Told(q, l)
    <3>1. /\ CallsOf(l) = req[r].trail \o req[r].attempted /\ req[r].shown = <<>>
      BY <1>1, <2>7 DEF Told
    <3>2. q.trail \o <<>> = q.trail
      <4>1. q.trail \in Seq(Channels)
        BY <1>1, <2>6, ConcatProperties DEF RequestState
      <4> QED BY <4>1, ConcatEmptySeq
    <3> QED BY <2>6, <3>1, <3>2 DEF Told, Looking, Calling
  <2> USE DEF l
  <2> QED BY <1>1, <2>8, <2>10, <2>11, <2>12, OneLogMoves DEF LogOK
<1> QED BY <1>2, <1>3

LEMMA SentLogs ==
    ASSUME RequestsOK, LogsOK, NEW r \in Requests, Sent(r)
    PROVE  LogsOK'
<1> DEFINE q == [req[r] EXCEPT !.pc = "called"]
<1>1. req[r] \in RequestState /\ req[r].pc \in Calling
  BY DEF RequestsOK, Sent, At, Calling
<1>2. /\ q \in RequestState /\ q.pc \in Calling /\ q.model = req[r].model /\ q.chain = req[r].chain
      /\ q.queue = req[r].queue /\ q.attempted = req[r].attempted
      /\ q.trail = req[r].trail /\ q.shown = req[r].shown
  BY <1>1 DEF RequestState, Calling
<1>3. req' = [req EXCEPT ![r] = q] /\ UNCHANGED log
  BY DEF Sent, Goto
<1> HIDE DEF q
<1> QED BY <1>1, <1>2, <1>3, OnwardLogs

LEMMA HeadersLogs ==
    ASSUME RequestsOK, LogsOK, NEW r \in Requests, NEW status \in Statuses, Headers(r, status)
    PROVE  LogsOK'
<1>1. req[r].pc \in Calling
  BY DEF Headers, Awaiting, At, Calling
<1>2. CASE Failed(r, TRUE, "draining")
  BY <1>1, <1>2, NextCandidateLogs DEF Failed
<1>3. CASE Served(r, "done")
  BY <1>1, <1>3, ServedLogs
<1>4. ASSUME NEW pc \in {"window", "reading"},
             req' = [req EXCEPT ![r].status = status, ![r].pc = pc], UNCHANGED log
      PROVE  LogsOK'
  <2> DEFINE q == [req[r] EXCEPT !.status = status, !.pc = pc]
  <2>1. req[r] \in RequestState /\ status \in {"ok", "fault", "rejected"}
    BY DEF RequestsOK, Statuses
  <2>2. /\ q \in RequestState /\ q.pc = pc /\ q.model = req[r].model /\ q.chain = req[r].chain
        /\ q.queue = req[r].queue /\ q.attempted = req[r].attempted
        /\ q.trail = req[r].trail /\ q.shown = req[r].shown
    BY <2>1 DEF RequestState
  <2>3. req' = [req EXCEPT ![r] = q] /\ q.pc \in Calling
    BY <1>4, <2>2 DEF Calling
  <2> HIDE DEF q
  <2> QED BY <1>1, <1>4, <2>2, <2>3, OnwardLogs
<1> QED BY <1>2, <1>3, <1>4 DEF Headers

\* No step disturbs what is known of the calls.
LEMMA NextLogs ==
    ASSUME RequestsOK, HistoryOK, LogsOK, [Next]_vars
    PROVE  LogsOK'
<1>0. log \in [Requests -> Seq(Models \X Channels)]
  BY DEF HistoryOK
<1>1. ASSUME NEW r \in Requests, NEW k \in Kinds, NEW m \in Models, Start(r, k, m)
      PROVE  LogsOK'
  BY <1>0, <1>1, StartLogs
<1>2. ASSUME NEW r \in Requests, Gateway(r) \/ Upstream(r) PROVE LogsOK'
  <2>3. table \in [serves : [Models -> SUBSET Channels], speaks : SUBSET Channels]
    BY DispatcherAssumption DEF RequestsOK
  <2>0. req[r].pc \notin {"idle", "done"} => req[r].model \in Models
    BY DEF RequestsOK, RequestOK
  <2>4. CASE Select(r)
    BY <2>0, <2>3, <2>4, TakeCandidatesLogs, GotoLogs DEF Select, At
  <2>5. CASE SelectAny(r)
    BY <2>0, <2>3, <2>5, TakeCandidatesLogs, GotoLogs DEF SelectAny, At
  <2>6. CASE Bypass(r)
    BY <2>6, SkipLogs DEF Bypass, At
  <2>7. CASE LetThrough(r) \/ Drained(r) \/ Exhausted(r)
    BY <2>7, GotoLogs DEF LetThrough, Drained, Exhausted, At, Looking
  <2>8. CASE NotCallable(r)
    <3>1. req[r].queue # <<>>
      BY <2>8 DEF NotCallable, At, InCall, RequestsOK, RequestOK
    <3> QED BY <2>8, <3>1, SkipLogs DEF NotCallable, At
  <2>9. CASE CallUpstream(r)
    BY <1>0, <2>9, CallLogs
  <2>17. CASE Sent(r)
    BY <2>17, SentLogs
  <2>10. CASE \/ HeaderTimeout(r) \/ FirstEventTimeout(r) \/ CallCancelled(r)
              \/ FirstEventCancelled(r) \/ BodyBroken(r) \/ NetworkError(r) \/ BadFirstEvent(r)
    <3>1. req[r].pc \in Calling /\ \E b \in BOOLEAN : Failed(r, b, "try")
      BY <2>10 DEF HeaderTimeout, FirstEventTimeout, CallCancelled, FirstEventCancelled,
                   BodyBroken, NetworkError, Awaiting, BadFirstEvent, At, Calling
    <3> QED BY <3>1, NextCandidateLogs DEF Failed
  <2>11. CASE BodyRead(r)
    <3>1. req[r].pc \in Calling
      BY <2>11 DEF BodyRead, At, Calling
    <3>2. CASE Served(r, "done")
      BY <3>1, <3>2, ServedLogs
    <3>3. CASE Failed(r, req[r].status = "fault", "try")
      BY <3>1, <3>3, NextCandidateLogs DEF Failed
    <3> QED BY <2>11, <3>2, <3>3 DEF BodyRead
  <2>12. CASE FirstEvent(r)
    BY <2>12, ServedLogs DEF FirstEvent, At, Calling
  <2>13. CASE LeaveWindow(r) \/ EndStream(r)
    BY <2>13, GotoLogs DEF LeaveWindow, EndStream
  <2>14. CASE Fallback(r)
    BY <2>14, FallbackLogs
  <2>15. CASE \E status \in Statuses : Headers(r, status)
    BY <2>15, HeadersLogs
  <2> QED BY <1>2, <2>4, <2>5, <2>6, <2>7, <2>8, <2>9, <2>10, <2>11, <2>12, <2>13, <2>14, <2>15,
             <2>17 DEF Gateway, Upstream
<1>3. ASSUME UNCHANGED <<req, log>> PROVE LogsOK'
  BY <1>3 DEF LogsOK
<1>4. CASE UpdateChannels \/ SetModelFallbacks \/ Tick \/ UNCHANGED vars
  BY <1>3, <1>4 DEF UpdateChannels, SetModelFallbacks, Tick, vars
<1>5. ASSUME NEW r \in Requests, Leave(r) PROVE LogsOK'
  BY <1>3, <1>5 DEF Leave
<1> QED BY <1>1, <1>2, <1>4, <1>5 DEF Next

LEMMA HistoryStays == Spec => []HistoryOK
<1>1. Init => HistoryOK
  BY EmptySeq, BreakerAssumption DEF Init, HistoryOK
<1> QED BY <1>1, HistoryStaysOK, RequestsStayOK, PTL DEF Spec

LEMMA LogsStay == Spec => []LogsOK
<1>1. Init => LogsOK
  <2> SUFFICES ASSUME Init, NEW r \in Requests PROVE LogOK(req[r], log[r])
    BY DEF LogsOK
  <2>1. /\ req[r] = Idle /\ log[r] = <<>> /\ Idle \in RequestState
    BY EmptySeq DEF Init, Idle, RequestState
  <2>2. /\ Idle.pc = "idle" /\ Idle.chain = <<>> /\ Idle.attempted = <<>>
        /\ Idle.trail = <<>> /\ Idle.shown = <<>>
    BY DEF Idle
  <2> HIDE DEF Idle
  <2> QED BY <2>1, <2>2, NoCallYet
<1> QED BY <1>1, NextLogs, RequestsStayOK, HistoryStays, PTL DEF Spec

(* A request never calls a channel twice for one model, up to letter case, *)
(* whatever tables and fallback maps are installed while it runs           *)
(* (nextFallbackContext and the candidate loops of dispatcher.go).         *)
THEOREM NoCallIsRepeated == Spec => []NoCallRepeated
<1>1. LogsOK => NoCallRepeated
  BY DEF LogsOK, LogOK, Unrepeated, NoCallRepeated
<1> QED BY <1>1, LogsStay, PTL

(* A request calls upstreams for four models at most, whatever the         *)
(* fallback maps say (maxFallbackDepth in dispatcher.go).                  *)
THEOREM FallbackEnds == Spec => []FallbackIsBounded
<1>1. RequestsOK /\ LogsOK => FallbackIsBounded
  <2> SUFFICES ASSUME RequestsOK, LogsOK, NEW r \in Requests
               PROVE  Cardinality({Fold[log[r][i][1]] : i \in DOMAIN log[r]}) <= MaxFallbackDepth
    BY DEF FallbackIsBounded
  <2> DEFINE chain == ChainOf(req[r])
             folded == {Fold[chain[j]] : j \in 1 .. Len(chain)}
             called == {Fold[log[r][i][1]] : i \in DOMAIN log[r]}
             name == [j \in 1 .. Len(chain) |-> Fold[chain[j]]]
  <2>1. chain \in Seq(Models \cup {NoModel}) /\ Len(chain) \in Nat /\ DOMAIN chain = 1 .. Len(chain)
    <3>1. req[r].chain \in Seq(Models) /\ req[r].model \in Models \cup {NoModel}
      BY DEF RequestsOK, RequestState
    <3>2. req[r].chain \in Seq(Models \cup {NoModel})
      BY <3>1, SeqMonotonic
    <3>3. chain \in Seq(Models \cup {NoModel})
      <4>1. <<req[r].model>> \in Seq(Models \cup {NoModel})
        BY <3>1
      <4> QED BY <3>2, <4>1 DEF ChainOf
    <3> HIDE DEF chain
    <3> QED BY <3>3, LenProperties
  <2>2. Chained(req[r], log[r])
    BY DEF LogsOK, LogOK
  <2>3. Len(chain) <= 4 /\ called \subseteq folded
    <3> HIDE DEF chain
    <3>1. Len(chain) <= 4 /\ \A i \in DOMAIN log[r] : \E j \in 1 .. Len(chain) : log[r][i][1] = chain[j]
      BY <2>1, <2>2 DEF Chained, MaxFallbackDepth, chain
    <3> QED BY <3>1
  <2> HIDE DEF chain
  <2>4. name \in Surjection(1 .. Len(chain), folded)
    BY DEF Surjection
  <2>5. IsFiniteSet(1 .. Len(chain)) /\ Cardinality(1 .. Len(chain)) = Len(chain)
    BY <2>1, FS_Interval
  <2>6. IsFiniteSet(folded) /\ Cardinality(folded) <= Len(chain)
    <3> HIDE DEF folded, name
    <3> QED BY <2>4, <2>5, FS_Surjection
  <2>7. Cardinality(called) <= Cardinality(folded) /\ Cardinality(called) \in Nat /\ Cardinality(folded) \in Nat
    <3> HIDE DEF folded, called
    <3> QED BY <2>3, <2>6, FS_Subset, FS_CardinalityType
  <2> HIDE DEF folded, called
  <2>8. Cardinality(called) <= MaxFallbackDepth
    BY <2>1, <2>3, <2>6, <2>7 DEF MaxFallbackDepth
  <2> QED BY <2>8 DEF called
<1> QED BY <1>1, LogsStay, RequestsStayOK, PTL

(* The trail in the audit log is the list of the upstream calls of the     *)
(* request, or the end of it when it is too long (formatChannelTrail and   *)
(* withChannelTrail of dispatcher.go).                                     *)
THEOREM TrailsTellTheCalls == Spec => []TrailTellsTheCalls
<1>1. LogsOK => TrailTellsTheCalls
  BY DEF LogsOK, LogOK, Told, CallsOf, TrailTellsTheCalls
<1> QED BY <1>1, LogsStay, PTL

(* Once the first event of a stream has been passed on, the request makes  *)
(* no further upstream call (the safe fallback window of DispatchStream).  *)
THEOREM CommitsAfterFirstToken == Spec => CommittedAfterFirstToken
<1> DEFINE Committed == \A r \in Requests : req[r].shown # <<>> /\ log'[r] # log[r] => log'[r] = <<>>
<1>1. HistoryOK /\ LogsOK /\ [Next]_vars => Committed
  <2> SUFFICES ASSUME HistoryOK, LogsOK, [Next]_vars PROVE Committed
    OBVIOUS
  <2>1. ASSUME NEW r \in Requests, NEW k \in Kinds, NEW m \in Models, Start(r, k, m) PROVE Committed
    BY <2>1 DEF Start, HistoryOK
  <2>2. ASSUME NEW r \in Requests, CallUpstream(r) PROVE Committed
    <3>1. req[r].pc = "admitted" /\ Told(req[r], log[r])
      BY <2>2 DEF CallUpstream, At, LogsOK, LogOK
    <3>2. req[r].shown = <<>>
      BY <3>1 DEF Told
    <3>3. \A q \in Requests : q # r => log'[q] = log[q]
      BY <2>2 DEF CallUpstream, HistoryOK
    <3> QED BY <3>2, <3>3
  <2>3. CASE UNCHANGED log
    BY <2>3
  <2>4. ASSUME NEW r \in Requests, Gateway(r) \/ Upstream(r), ~CallUpstream(r) PROVE UNCHANGED log
    BY <2>4 DEF Gateway, Upstream, Sent, Select, SelectAny, Bypass, LetThrough, NotCallable, HeaderTimeout,
       FirstEventTimeout, CallCancelled, FirstEventCancelled, LeaveWindow, Exhausted, Fallback, EndStream,
       Drained, Headers, BodyRead, BodyBroken, NetworkError, Awaiting, FirstEvent, BadFirstEvent, Served, Failed
  <2>5. CASE UpdateChannels \/ SetModelFallbacks \/ Tick \/ (\E r \in Requests : Leave(r)) \/ UNCHANGED vars
    BY <2>3, <2>5 DEF UpdateChannels, SetModelFallbacks, Tick, Leave, vars
  <2> QED BY <2>1, <2>2, <2>3, <2>4, <2>5 DEF Next
<1>2. HistoryOK /\ LogsOK /\ [Next]_vars => [Committed]_vars
  BY <1>1
<1> QED BY <1>2, LogsStay, HistoryStays, PTL DEF Spec, CommittedAfterFirstToken

-----------------------------------------------------------------------------
(* Where every call is reported, a half-open channel has its probe.        *)

KindsOK ==
    \A r \in Requests :
        /\ req[r].pc # "idle" => req[r].kind \in Kinds
        /\ req[r].pc = "window" => req[r].kind = "stream"

\* The kind of a request is set at its start, and only a stream waits for its first event.
LEMMA KindsStay == RequestsOK /\ KindsOK /\ [Next]_vars => KindsOK'
<1> SUFFICES ASSUME RequestsOK, KindsOK, [Next]_vars PROVE KindsOK'
  OBVIOUS
<1>0. req \in [Requests -> RequestState]
  BY DEF RequestsOK
<1>1. ASSUME NEW r \in Requests, NEW k \in Kinds, NEW m \in Models, Start(r, k, m) PROVE KindsOK'
  BY <1>0, <1>1 DEF Start, KindsOK, Idle
<1>2. ASSUME NEW r \in Requests, NEW q, req' = [req EXCEPT ![r] = q], q.kind = req[r].kind,
             q.pc # "window" \/ req[r].kind = "stream", req[r].pc # "idle"
      PROVE  KindsOK'
  BY <1>0, <1>2 DEF KindsOK
<1>3. ASSUME NEW r \in Requests, Gateway(r) \/ Upstream(r) PROVE KindsOK'
  <2>1. req[r].pc # "idle"
    BY <1>3 DEF Gateway, Upstream, Sent, Select, SelectAny, Bypass, LetThrough, NotCallable, CallUpstream,
       HeaderTimeout, FirstEventTimeout, CallCancelled, FirstEventCancelled, LeaveWindow, Exhausted,
       Fallback, EndStream, Drained, Headers, BodyRead, BodyBroken, NetworkError, Awaiting, FirstEvent,
       BadFirstEvent, At
  <2>2. req[r] \in RequestState
    BY <1>0
  <2>3. ASSUME NEW pc, Goto(r, pc), pc # "window" PROVE KindsOK'
    <3>1. [req[r] EXCEPT !.pc = pc].kind = req[r].kind /\ [req[r] EXCEPT !.pc = pc].pc = pc
      BY <2>2 DEF RequestState
    <3> QED BY <1>2, <2>1, <2>3, <3>1 DEF Goto
  <2>4. ASSUME NEW S, TakeCandidates(r, S) PROVE KindsOK'
    <3>1. PICK s \in Orders(S) : req' = [req EXCEPT ![r].queue = s, ![r].attempted = <<>>, ![r].pc = "try"]
      BY <2>4 DEF TakeCandidates
    <3> DEFINE q == [req[r] EXCEPT !.queue = s, !.attempted = <<>>, !.pc = "try"]
    <3>2. q.kind = req[r].kind /\ q.pc = "try" /\ req' = [req EXCEPT ![r] = q]
      BY <2>2, <3>1 DEF RequestState
    <3> QED BY <1>2, <2>1, <3>2
  <2>5. ASSUME Skip(r) PROVE KindsOK'
    <3> DEFINE q == [req[r] EXCEPT !.queue = Tail(@), !.pc = "try"]
    <3>1. q.kind = req[r].kind /\ q.pc = "try" /\ req' = [req EXCEPT ![r] = q]
      BY <2>2, <2>5 DEF RequestState, Skip
    <3> QED BY <1>2, <2>1, <3>1
  <2>6. ASSUME NEW pc, pc # "window", NextCandidate(r, pc) PROVE KindsOK'
    <3> DEFINE q == [req[r] EXCEPT !.pc = pc, !.queue = Tail(@), !.attempted = Append(@, Candidate(r))]
    <3>1. q.kind = req[r].kind /\ q.pc = pc /\ req' = [req EXCEPT ![r] = q]
      BY <2>2, <2>6 DEF RequestState, NextCandidate
    <3> QED BY <1>2, <2>1, <2>6, <3>1
  <2>7. ASSUME NEW pc, pc # "window", Served(r, pc) PROVE KindsOK'
    <3> DEFINE q == [req[r] EXCEPT !.pc = pc, !.shown = formatChannelTrail(Hops(r))]
    <3>1. q.kind = req[r].kind /\ q.pc = pc /\ req' = [req EXCEPT ![r] = q]
      BY <2>2, <2>7 DEF RequestState, Served
    <3> QED BY <1>2, <2>1, <2>7, <3>1
  <2>8. CASE Fallback(r)
    <3>1. CASE Goto(r, "done")
      BY <2>3, <3>1
    <3>2. CASE ~Goto(r, "done")
      <4> DEFINE q == [req[r] EXCEPT !.pc = "select", !.model = fallbacks[req[r].model],
                                     !.chain = Append(Chain(r), fallbacks[req[r].model]),
                                     !.trail = @ \o req[r].attempted, !.attempted = <<>>]
      <4>1. req' = [req EXCEPT ![r] = q]
        BY <2>8, <3>2 DEF Fallback
      <4>2. q.kind = req[r].kind /\ q.pc = "select"
        BY <2>2 DEF RequestState
      <4> QED BY <1>2, <2>1, <4>1, <4>2
    <3> QED BY <3>1, <3>2
  <2>9. ASSUME NEW status \in Statuses, Headers(r, status) PROVE KindsOK'
    <3>1. CASE Failed(r, TRUE, "draining") \/ Served(r, "done")
      BY <2>6, <2>7, <3>1 DEF Failed
    <3>2. CASE ~(Failed(r, TRUE, "draining") \/ Served(r, "done"))
      <4> DEFINE pc == IF req[r].kind = "stream" /\ status = "ok" THEN "window" ELSE "reading"
                 q == [req[r] EXCEPT !.status = status, !.pc = pc]
      <4>1. req' = [req EXCEPT ![r] = q]
        BY <2>9, <3>2 DEF Headers
      <4>2. q.kind = req[r].kind /\ q.pc = pc
        BY <2>2 DEF RequestState
      <4>3. pc # "window" \/ req[r].kind = "stream"
        OBVIOUS
      <4> HIDE DEF q, pc
      <4> QED BY <1>2, <2>1, <4>1, <4>2, <4>3
    <3> QED BY <3>1, <3>2
  <2>10. CASE Select(r) \/ SelectAny(r)
    BY <2>3, <2>4, <2>10 DEF Select, SelectAny
  <2>11. CASE Bypass(r) \/ NotCallable(r)
    BY <2>5, <2>11 DEF Bypass, NotCallable
  <2>12. CASE \/ LetThrough(r) \/ CallUpstream(r) \/ Sent(r) \/ LeaveWindow(r) \/ Exhausted(r)
              \/ EndStream(r) \/ Drained(r)
    BY <2>3, <2>12 DEF LetThrough, CallUpstream, Sent, LeaveWindow, Exhausted, EndStream, Drained
  <2>13. CASE \/ HeaderTimeout(r) \/ FirstEventTimeout(r) \/ CallCancelled(r) \/ FirstEventCancelled(r)
              \/ BodyBroken(r) \/ NetworkError(r) \/ BadFirstEvent(r) \/ BodyRead(r) \/ FirstEvent(r)
    BY <2>6, <2>7, <2>13 DEF HeaderTimeout, FirstEventTimeout, CallCancelled, FirstEventCancelled,
       BodyBroken, NetworkError, Awaiting, BadFirstEvent, BodyRead, FirstEvent, Failed
  <2> QED BY <1>3, <2>8, <2>9, <2>10, <2>11, <2>12, <2>13 DEF Gateway, Upstream
<1>4. CASE UNCHANGED req
  BY <1>4 DEF KindsOK
<1>5. CASE UpdateChannels \/ SetModelFallbacks \/ Tick \/ (\E r \in Requests : Leave(r)) \/ UNCHANGED vars
  BY <1>4, <1>5 DEF UpdateChannels, SetModelFallbacks, Tick, Leave, vars
<1> QED BY <1>1, <1>3, <1>5 DEF Next

\* A report leaves no channel half-open; an admission that does takes the place of the probe.
LEMMA BreakerStepHolds ==
    ASSUME CB!TypeOK, ProbeIsHeld, NEW r \in Requests, NEW c \in Channels,
           CB!Admit(r, c) \/ CB!Succeed(r, c) \/ CB!Fail(r, c)
    PROVE  ProbeIsHeld'
<1> USE DEF CB!CLOSED, CB!OPEN, CB!HALF_OPEN
<1>1. /\ breakers \in [Channels -> CB!Status] /\ call \in [Requests -> CB!Call]
      /\ \A d \in Channels : breakers[d].state \in {CB!CLOSED, CB!OPEN, CB!HALF_OPEN}
  BY DEF CB!TypeOK, CB!Status
<1>2. CASE CB!Admit(r, c)
  <2>1. /\ call[r] = CB!NoCall
        /\ \A d \in Channels : d # c => breakers'[d] = breakers[d]
        /\ call'[r] = [channel |-> c, probe |-> breakers'[c].state = CB!HALF_OPEN, age |-> 0]
        /\ \A q \in Requests : q # r => call'[q] = call[q]
    BY <1>1, <1>2 DEF CB!Admit
  <2> SUFFICES ASSUME NEW d \in Channels, breakers'[d].state = CB!HALF_OPEN PROVE CB!Probes(d)' # {}
    BY DEF ProbeIsHeld
  <2>2. CASE d = c
    <3>1. breakers'[c].state = CB!HALF_OPEN
      BY <2>2
    <3>2. call'[r].channel = c
      BY <2>1
    <3>3. (breakers'[c].state = CB!HALF_OPEN) = TRUE
      BY <3>1
    <3>4. call'[r] = [channel |-> c, probe |-> TRUE, age |-> 0]
      BY <2>1, <3>3
    <3>5. call'[r].probe
      BY <3>4
    <3> QED BY <2>2, <3>2, <3>5 DEF CB!Probes
  <2>3. CASE d # c
    <3>1. PICK q \in Requests : call[q].channel = d /\ call[q].probe
      BY <2>1, <2>3 DEF ProbeIsHeld, CB!Probes
    <3>2. q # r
      BY <2>1, <3>1 DEF CB!NoCall
    <3> QED BY <2>1, <3>1, <3>2 DEF CB!Probes
  <2> QED BY <2>2, <2>3
<1>3. ASSUME NEW next, CB!Return(r, c, next), next.state # CB!HALF_OPEN PROVE ProbeIsHeld'
  <2>1. /\ call[r].channel = c /\ breakers'[c] = next
        /\ \A d \in Channels : d # c => breakers'[d] = breakers[d]
        /\ \A q \in Requests : q # r => call'[q] = CB!Demoted(call[q], c)
    BY <1>1, <1>3 DEF CB!Return
  <2> SUFFICES ASSUME NEW d \in Channels, breakers'[d].state = CB!HALF_OPEN PROVE CB!Probes(d)' # {}
    BY DEF ProbeIsHeld
  <2>2. d # c /\ breakers[d].state = CB!HALF_OPEN
    BY <1>3, <2>1
  <2>3. PICK q \in Requests : call[q].channel = d /\ call[q].probe
    BY <2>2 DEF ProbeIsHeld, CB!Probes
  <2>4. q # r /\ call'[q] = call[q]
    BY <2>1, <2>2, <2>3 DEF CB!Demoted
  <2> QED BY <2>3, <2>4 DEF CB!Probes
<1>4. CASE CB!Succeed(r, c)
  <2>1. breakers[c].successes \in Nat
    BY <1>1 DEF CB!Status, CB!SuccessThreshold
  <2>2. CB!AfterSuccess(breakers[c]).state # CB!HALF_OPEN
    BY <1>1, <2>1 DEF CB!AfterSuccess, CB!ToClosed, CB!Entered, CB!HalfOpenSuccess, CB!SuccessThreshold, CB!Status
  <2> QED BY <1>3, <1>4, <2>2 DEF CB!Succeed
<1>5. CASE CB!Fail(r, c)
  <2>1. CB!AfterFailure(breakers[c]).state # CB!HALF_OPEN
    BY <1>1 DEF CB!AfterFailure, CB!ToOpen, CB!Entered, CB!ClosedFailure, CB!Status
  <2> QED BY <1>3, <1>5, <2>1 DEF CB!Fail
<1> QED BY <1>2, <1>4, <1>5

LEMMA ProbeStays ==
    ASSUME "stream" \notin Kinds, \A k \in Kinds : Callable[k] = Channels,
           RequestsOK, KindsOK, CB!TypeOK, ProbeIsHeld, [Next]_vars
    PROVE  ProbeIsHeld'
<1>1. ASSUME NEW r \in Requests, Gateway(r) \/ Upstream(r) PROVE ProbeIsHeld'
  <2>1. req[r].pc \in InCall => Candidate(r) \in Channels
    BY InCallFact
  <2>2. ~NotCallable(r) /\ ~LeaveWindow(r)
    <3>1. req[r].pc \in InCall => Candidate(r) \in Callable[req[r].kind] /\ req[r].pc # "window"
      BY <2>1 DEF KindsOK, InCall
    <3> QED BY <3>1 DEF NotCallable, LeaveWindow, At, InCall
  <2>3. CASE UNCHANGED breakerVars
    BY <2>3 DEF ProbeIsHeld, CB!Probes, breakerVars
  <2>4. ASSUME NEW c \in Channels, CB!Admit(r, c) \/ CB!Succeed(r, c) \/ CB!Fail(r, c) PROVE ProbeIsHeld'
    BY <2>4, BreakerStepHolds
  <2>5. CASE \/ Select(r) \/ SelectAny(r) \/ Bypass(r) \/ CallUpstream(r)
             \/ Sent(r) \/ Drained(r) \/ EndStream(r) \/ Exhausted(r) \/ Fallback(r)
    BY <2>3, <2>5 DEF Select, SelectAny, Bypass, CallUpstream, Sent, Drained, EndStream, Exhausted, Fallback
  <2>6. CASE LetThrough(r)
    <3>1. Candidate(r) \in Channels
      BY <2>6, HeadTailProperties DEF LetThrough, Candidate, RequestsOK, RequestState
    <3> QED BY <2>4, <2>6, <3>1 DEF LetThrough
  <2>7. CASE \/ HeaderTimeout(r) \/ FirstEventTimeout(r) \/ CallCancelled(r) \/ FirstEventCancelled(r)
             \/ BodyBroken(r) \/ NetworkError(r) \/ BadFirstEvent(r) \/ BodyRead(r) \/ FirstEvent(r)
    BY <2>1, <2>4, <2>7 DEF HeaderTimeout, FirstEventTimeout, CallCancelled, FirstEventCancelled,
       BodyBroken, NetworkError, Awaiting, BadFirstEvent, BodyRead, FirstEvent, Failed, Served, At, InCall
  <2>8. ASSUME NEW status \in Statuses, Headers(r, status) PROVE ProbeIsHeld'
    BY <2>1, <2>3, <2>4, <2>8 DEF Headers, Awaiting, Failed, Served, At, InCall
  <2> QED BY <1>1, <2>2, <2>5, <2>6, <2>7, <2>8 DEF Gateway, Upstream
<1>2. CASE UNCHANGED breakerVars
  BY <1>2 DEF ProbeIsHeld, CB!Probes, breakerVars
<1>3. CASE Tick
  <2>1. /\ \A c \in Channels : breakers'[c].state = breakers[c].state
        /\ \A q \in Requests : call'[q].channel = call[q].channel /\ call'[q].probe = call[q].probe
    BY <1>3 DEF Tick, CB!Tick, CB!TypeOK, CB!Status, CB!Call
  <2> QED BY <2>1 DEF ProbeIsHeld, CB!Probes
<1>4. CASE \/ UpdateChannels \/ SetModelFallbacks \/ UNCHANGED vars
           \/ \E r \in Requests : Leave(r) \/ \E k \in Kinds, m \in Models : Start(r, k, m)
  BY <1>2, <1>4 DEF UpdateChannels, SetModelFallbacks, Leave, Start, vars
<1> QED BY <1>1, <1>3, <1>4 DEF Next

(* Where no request is a stream and every channel can be called, each call *)
(* that is let through is reported, so that a half-open channel always has *)
(* the request in flight that will decide it (Dispatch, DispatchEmbedding, *)
(* DispatchRerank and DispatchHTTP).                                       *)
THEOREM ProbesAreHeld ==
    ASSUME "stream" \notin Kinds, \A k \in Kinds : Callable[k] = Channels
    PROVE  Spec => []ProbeIsHeld
<1>1. Init => KindsOK /\ ProbeIsHeld
  BY DEF Init, KindsOK, Idle, ProbeIsHeld, CB!Init, CB!FreshStatus, CB!CLOSED, CB!HALF_OPEN
<1>2. RequestsOK /\ KindsOK /\ CB!TypeOK /\ ProbeIsHeld /\ [Next]_vars => ProbeIsHeld' /\ KindsOK'
  BY KindsStay, ProbeStays
<1>3. Spec => []CB!TypeOK
  BY BreakersHold, PTL
<1> QED BY <1>1, <1>2, <1>3, RequestsStayOK, PTL DEF Spec

-----------------------------------------------------------------------------
\* Trips.  The streak of a channel is made of faults of its upstream where no
\* client leaves and no request is refused: FaultsCounted is the invariant.

\* A breaker trips on the report that fills the streak, whoever asks or reports.
LEMMA TripFillsTheStreak ==
    ASSUME CB!TypeOK, CB!ClosedCountsTheStreak, [CB!Next]_(CB!vars), NEW c \in Channels,
           breakers[c].state = CB!CLOSED, breakers'[c].state = CB!OPEN
    PROVE  streak'[c] >= FailureThreshold
<1> USE DEF CB!CLOSED, CB!OPEN, CB!HALF_OPEN
<1>1. /\ breakers \in [Channels -> CB!Status] /\ streak \in [Channels -> 0 .. FailureThreshold]
      /\ FailureThreshold \in Nat
  BY BreakerAssumption DEF CB!TypeOK
<1>2. breakers[c].failures = streak[c] /\ streak[c] < FailureThreshold
  BY DEF CB!ClosedCountsTheStreak
<1>3. breakers'[c] # breakers[c]
  OBVIOUS
<1>4. ASSUME NEW r \in Requests, NEW d \in Channels, CB!Admit(r, d) PROVE FALSE
  <2>1. CASE d = c
    BY <1>1, <1>3, <1>4, <2>1 DEF CB!Admit, CB!AfterAdmission
  <2>2. CASE d # c
    BY <1>1, <1>3, <1>4, <2>2 DEF CB!Admit
  <2> QED BY <2>1, <2>2
<1>5. ASSUME NEW r \in Requests, NEW d \in Channels, CB!Succeed(r, d) PROVE FALSE
  <2>1. CASE d = c
    <3>1. breakers'[c] = [breakers[c] EXCEPT !.failures = 0]
      BY <1>1, <1>5, <2>1 DEF CB!Succeed, CB!Return, CB!AfterSuccess
    <3>2. breakers'[c].state = CB!CLOSED
      BY <1>1, <3>1 DEF CB!Status
    <3> QED BY <3>2
  <2>2. CASE d # c
    BY <1>1, <1>3, <1>5, <2>2 DEF CB!Succeed, CB!Return
  <2> QED BY <2>1, <2>2
<1>6. ASSUME NEW r \in Requests, NEW d \in Channels, CB!Fail(r, d) PROVE streak'[c] >= FailureThreshold
  <2>1. d = c
    BY <1>1, <1>3, <1>6 DEF CB!Fail, CB!Return
  <2>2. breakers'[c] = CB!ClosedFailure(breakers[c]) /\ streak'[c] = streak[c] + 1
    BY <1>1, <1>2, <1>6, <2>1 DEF CB!Fail, CB!Return, CB!AfterFailure
  <2>3. breakers[c].failures + 1 >= FailureThreshold
    <3> DEFINE counted == [breakers[c] EXCEPT !.failures = @ + 1]
    <3>1. counted.state = CB!CLOSED /\ counted.failures = breakers[c].failures + 1
      BY <1>1 DEF CB!Status
    <3>2. breakers'[c] = IF counted.failures >= FailureThreshold THEN CB!ToOpen(counted) ELSE counted
      BY <2>2 DEF CB!ClosedFailure
    <3> HIDE DEF counted
    <3> QED BY <3>1, <3>2
  <2> QED BY <1>2, <2>2, <2>3
<1>7. ASSUME NEW r \in Requests, NEW d \in Channels, CB!Abandon(r, d) PROVE FALSE
  BY <1>3, <1>7 DEF CB!Abandon
<1>8. CASE CB!Tick
  <2>1. breakers'[c].state = breakers[c].state
    BY <1>1, <1>8 DEF CB!Tick, CB!Status
  <2> QED BY <2>1
<1>9. CASE UNCHANGED CB!vars
  BY <1>3, <1>9 DEF CB!vars
<1> QED BY <1>4, <1>5, <1>6, <1>7, <1>8, <1>9 DEF CB!Next

\* No failure is reported that is not an upstream fault.
FaultsCounted ==
    /\ gone = {}
    /\ \A c \in Channels : faults[c] = streak[c]
    /\ \A r \in Requests : req[r].status # "rejected"

\* What is reported is counted in both.
LEMMA ReportsCount ==
    ASSUME HistoryOK, CB!TypeOK, FaultsCounted, RequestsOK,
           NEW r \in Requests, Candidate(r) \in Channels, NEW pc, Served(r, pc) \/ Failed(r, TRUE, pc)
    PROVE  FaultsCounted'
<1>1. /\ faults \in [Channels -> 0 .. FailureThreshold] /\ streak \in [Channels -> 0 .. FailureThreshold]
      /\ req \in [Requests -> RequestState]
  BY DEF HistoryOK, CB!TypeOK, RequestsOK
<1>2. gone' = {}
  BY DEF Served, Failed, FaultsCounted
<1>3. \A c \in Channels : faults'[c] = streak'[c]
  <2>1. CASE Served(r, pc)
    BY <1>1, <2>1 DEF FaultsCounted, Served, CB!Succeed
  <2>2. CASE Failed(r, TRUE, pc)
    BY <1>1, <2>2 DEF FaultsCounted, Failed, CB!Fail
  <2> QED BY <2>1, <2>2
<1>4. \A q \in Requests : req'[q].status = req[q].status
  <2>1. CASE Served(r, pc)
    <3> DEFINE q == [req[r] EXCEPT !.pc = pc, !.shown = formatChannelTrail(Hops(r))]
    <3>1. q.status = req[r].status /\ req' = [req EXCEPT ![r] = q]
      BY <1>1, <2>1 DEF RequestState, Served
    <3> HIDE DEF q
    <3> QED BY <1>1, <3>1
  <2>2. CASE NextCandidate(r, pc)
    <3> DEFINE q == [req[r] EXCEPT !.pc = pc, !.queue = Tail(@), !.attempted = Append(@, Candidate(r))]
    <3>1. q.status = req[r].status /\ req' = [req EXCEPT ![r] = q]
      BY <1>1, <2>2 DEF RequestState, NextCandidate
    <3> HIDE DEF q
    <3> QED BY <1>1, <3>1
  <2> QED BY <2>1, <2>2 DEF Failed
<1> QED BY <1>2, <1>3, <1>4 DEF FaultsCounted

\* A step that reports nothing counts nothing.
LEMMA SilenceCounts ==
    ASSUME FaultsCounted, RequestsOK, UNCHANGED <<streak, faults, gone>>,
           NEW r \in Requests, NEW q, req' = [req EXCEPT ![r] = q], q.status # "rejected"
    PROVE  FaultsCounted'
BY DEF FaultsCounted, RequestsOK

LEMMA FaultsStayCounted ==
    ASSUME ~ClientsLeave, ~Rejections \/ Kinds \subseteq {"http"},
           RequestsOK, KindsOK, HistoryOK, CB!TypeOK, FaultsCounted, [Next]_vars
    PROVE  FaultsCounted'
<1>1. ASSUME NEW r \in Requests, Gateway(r) \/ Upstream(r) PROVE FaultsCounted'
  <2>1. req[r].pc \in InCall => Candidate(r) \in Channels
    BY InCallFact
  <2>2. req[r] \in RequestState /\ req[r].status \in {"ok", "fault"} /\ gone = {}
    BY DEF RequestsOK, RequestState, FaultsCounted
  <2>3. ASSUME NEW pc, Goto(r, pc), UNCHANGED <<streak, faults, gone>> PROVE FaultsCounted'
    <3> DEFINE q == [req[r] EXCEPT !.pc = pc]
    <3>1. q.status = req[r].status /\ req' = [req EXCEPT ![r] = q]
      BY <2>2, <2>3 DEF RequestState, Goto
    <3> HIDE DEF q
    <3> QED BY <2>2, <2>3, <3>1, SilenceCounts
  <2>4. ASSUME NEW S, TakeCandidates(r, S), UNCHANGED <<streak, faults, gone>> PROVE FaultsCounted'
    <3>1. PICK s \in Orders(S) : req' = [req EXCEPT ![r].queue = s, ![r].attempted = <<>>, ![r].pc = "try"]
      BY <2>4 DEF TakeCandidates
    <3> DEFINE q == [req[r] EXCEPT !.queue = s, !.attempted = <<>>, !.pc = "try"]
    <3>2. q.status = req[r].status /\ req' = [req EXCEPT ![r] = q]
      BY <2>2, <3>1 DEF RequestState
    <3> HIDE DEF q
    <3> QED BY <2>2, <2>4, <3>2, SilenceCounts
  <2>5. ASSUME Skip(r), UNCHANGED <<streak, faults, gone>> PROVE FaultsCounted'
    <3> DEFINE q == [req[r] EXCEPT !.queue = Tail(@), !.pc = "try"]
    <3>1. q.status = req[r].status /\ req' = [req EXCEPT ![r] = q]
      BY <2>2, <2>5 DEF RequestState, Skip
    <3> HIDE DEF q
    <3> QED BY <2>2, <2>5, <3>1, SilenceCounts
  <2>6. CASE Fallback(r)
    <3>1. CASE Goto(r, "done")
      BY <2>3, <2>6, <3>1 DEF Fallback, breakerVars
    <3>2. CASE ~Goto(r, "done")
      <4> DEFINE q == [req[r] EXCEPT !.pc = "select", !.model = fallbacks[req[r].model],
                                     !.chain = Append(Chain(r), fallbacks[req[r].model]),
                                     !.trail = @ \o req[r].attempted, !.attempted = <<>>]
      <4>1. req' = [req EXCEPT ![r] = q] /\ UNCHANGED <<streak, faults, gone>>
        BY <2>6, <3>2 DEF Fallback, breakerVars
      <4>2. q.status = req[r].status
        BY <2>2 DEF RequestState
      <4> HIDE DEF q
      <4> QED BY <2>2, <4>1, <4>2, SilenceCounts
    <3> QED BY <3>1, <3>2
  <2>7. ASSUME NEW status \in Statuses, Headers(r, status) PROVE FaultsCounted'
    <3>1. CASE Failed(r, TRUE, "draining") \/ Served(r, "done")
      BY <2>1, <2>7, <3>1, ReportsCount DEF Headers, Awaiting, At, InCall
    <3>2. CASE ~(Failed(r, TRUE, "draining") \/ Served(r, "done"))
      <4> DEFINE pc == IF req[r].kind = "stream" /\ status = "ok" THEN "window" ELSE "reading"
                 q == [req[r] EXCEPT !.status = status, !.pc = pc]
      <4>1. /\ req' = [req EXCEPT ![r] = q] /\ UNCHANGED <<streak, faults, gone>>
            /\ req[r].kind # "http" /\ req[r].pc \in {"sending", "called"}
        BY <2>7, <3>2 DEF Headers, Awaiting, breakerVars, At
      <4>2. q.status = status
        BY <2>2 DEF RequestState
      <4>3. status # "rejected"
        BY <4>1 DEF Statuses, KindsOK
      <4> HIDE DEF q
      <4> QED BY <4>1, <4>2, <4>3, SilenceCounts
    <3> QED BY <3>1, <3>2
  <2>8. CASE Select(r) \/ SelectAny(r)
    BY <2>3, <2>4, <2>8 DEF Select, SelectAny, breakerVars
  <2>9. CASE Bypass(r) \/ NotCallable(r)
    BY <2>5, <2>9 DEF Bypass, NotCallable, breakerVars, CB!Abandon
  <2>10. CASE \/ LetThrough(r) \/ CallUpstream(r) \/ Sent(r) \/ LeaveWindow(r) \/ Exhausted(r)
              \/ EndStream(r) \/ Drained(r)
    BY <2>3, <2>10 DEF LetThrough, CallUpstream, Sent, LeaveWindow, Exhausted, EndStream, Drained, breakerVars,
       CB!Admit, CB!Abandon
  <2>11. CASE \/ HeaderTimeout(r) \/ FirstEventTimeout(r) \/ BodyBroken(r) \/ NetworkError(r)
              \/ BadFirstEvent(r) \/ FirstEvent(r)
    BY <2>1, <2>11, ReportsCount DEF HeaderTimeout, FirstEventTimeout, BodyBroken, NetworkError, Awaiting, BadFirstEvent,
       FirstEvent, At, InCall
  <2>12. CASE BodyRead(r)
    <3>1. Served(r, "done") \/ Failed(r, TRUE, "try")
      BY <2>2, <2>12 DEF BodyRead
    <3> QED BY <2>1, <2>12, <3>1, ReportsCount DEF BodyRead, At, InCall
  <2>13. CASE CallCancelled(r) \/ FirstEventCancelled(r)
    BY <2>2, <2>13 DEF CallCancelled, FirstEventCancelled
  <2> QED BY <1>1, <2>6, <2>7, <2>8, <2>9, <2>10, <2>11, <2>12, <2>13 DEF Gateway, Upstream
<1>2. ASSUME NEW r \in Requests, NEW k \in Kinds, NEW m \in Models, Start(r, k, m) PROVE FaultsCounted'
  <2> DEFINE q == [Idle EXCEPT !.pc = "select", !.kind = k, !.model = m]
  <2>1. /\ req' = [req EXCEPT ![r] = q] /\ UNCHANGED <<streak, faults>>
        /\ gone' = gone \ {r}
    BY <1>2 DEF Start, breakerVars
  <2>2. q.status # "rejected"
    BY DEF Idle
  <2>3. gone' = gone
    BY <2>1 DEF FaultsCounted
  <2> HIDE DEF q
  <2> QED BY <2>1, <2>2, <2>3, SilenceCounts
<1>3. CASE UpdateChannels \/ SetModelFallbacks \/ Tick \/ UNCHANGED vars
  BY <1>3 DEF UpdateChannels, SetModelFallbacks, Tick, vars, breakerVars, CB!Tick, FaultsCounted
<1>4. \A r \in Requests : ~Leave(r)
  BY DEF Leave
<1> QED BY <1>1, <1>2, <1>3, <1>4 DEF Next

(* While clients stay, and no upstream calls a request invalid or the      *)
(* request is one of DispatchHTTP, which takes a refusal for a success, a  *)
(* closed breaker trips only on FailureThreshold upstream faults in a row. *)
(* Both conditions are needed: a client that leaves, and a 4xx answered to *)
(* Dispatch, DispatchEmbedding or DispatchRerank, count as failures too.   *)
THEOREM TripsNeedUpstreamFaults ==
    ASSUME ~ClientsLeave, ~Rejections \/ Kinds \subseteq {"http"}
    PROVE  Spec => TripsOnUpstreamFaults
<1> DEFINE TripsRightly == \A c \in Channels : breakers[c].state = CB!CLOSED /\ breakers'[c].state = CB!OPEN
                                                  => faults'[c] >= FailureThreshold
<1>1. Init => FaultsCounted /\ KindsOK
  BY DEF Init, CB!Init, FaultsCounted, KindsOK, Idle
<1>2. /\ RequestsOK /\ KindsOK /\ HistoryOK /\ CB!TypeOK /\ FaultsCounted /\ [Next]_vars
         => FaultsCounted' /\ KindsOK'
  BY KindsStay, FaultsStayCounted
<1>3. /\ RequestsOK /\ CB!TypeOK /\ CB!ClosedCountsTheStreak /\ FaultsCounted' /\ [Next]_vars
         => [TripsRightly]_vars
  BY StepDrivesBreakers, TripFillsTheStreak DEF FaultsCounted
<1>4. Spec => [](CB!TypeOK /\ CB!ClosedCountsTheStreak)
  BY BreakersHold, PTL
<1>5. Spec => [](FaultsCounted /\ KindsOK)
  BY <1>1, <1>2, <1>4, RequestsStayOK, HistoryStays, PTL DEF Spec
<1> QED BY <1>3, <1>4, <1>5, RequestsStayOK, PTL DEF Spec, TripsOnUpstreamFaults
=============================================================================
