------------------------------ MODULE Dispatcher ------------------------------
(***************************************************************************)
(* The request dispatcher of internal/router/dispatcher.go: Dispatch,      *)
(* DispatchStream, DispatchEmbedding, DispatchRerank and DispatchHTTP      *)
(* running concurrently over the circuit breaker of CircuitBreaker, while  *)
(* an administrator replaces the channel table and the model fallbacks.    *)
(*                                                                         *)
(* A request takes a snapshot of the candidate channels, tries them in     *)
(* order, and when all have failed continues with the fallback model.      *)
(***************************************************************************)
EXTENDS Naturals, Sequences, FiniteSets, Functions

CONSTANTS
    Requests,           \* requests that may be dispatched together
    Channels, NoChannel,
    FailureThreshold, Cooldown,
    Models, NoModel,
    Fold,               \* Fold[m]: the name of m up to case (strings.EqualFold)
    Kinds,              \* the kinds of request that occur
    Tier,               \* Tier[c]: the priority of c, the smallest first
    Rank,               \* Rank[c]: the place of c in the configured list
    Width,              \* Width[c]: how many characters the name of c has
    Tables,             \* channel tables an administrator may install
    FallbackMaps,       \* fallback maps an administrator may install
    Callable,           \* Callable[k]: channels a request of kind k can be built for
    Rejections,         \* may an upstream answer that the request is invalid (4xx)?
    ClientsLeave        \* may a client close its connection?

ASSUME BreakerAssumption ==
    /\ NoChannel \notin Channels
    /\ FailureThreshold \in Nat \ {0}
    /\ Cooldown \in Nat \ {0}

ASSUME DispatcherAssumption ==
    /\ IsFiniteSet(Channels)
    /\ Kinds \subseteq {"chat", "stream", "embed", "http"}
    /\ NoModel \notin Models
    /\ Fold \in [Models -> Models]
    /\ Tier \in [Channels -> Nat]
    /\ Rank \in [Channels -> Nat]
    /\ Width \in [Channels -> Nat \ {0}]
    /\ Callable \in [Kinds -> SUBSET Channels]
    /\ Tables \subseteq [serves : [Models -> SUBSET Channels], speaks : SUBSET Channels]
    /\ FallbackMaps \subseteq [Models -> Models \cup {NoModel}]
    /\ Rejections \in BOOLEAN /\ ClientsLeave \in BOOLEAN

VARIABLES
    breakers, call, streak, quiet,  \* those of CircuitBreaker
    table,      \* the channel table: which channels serve a model, which speak the protocol
    fallbacks,  \* the model fallback map
    req,        \* req[r]: where the request is, and its local variables
    gone,       \* requests whose client has left: their context is cancelled
    log,        \* history: log[r] is every upstream call of r, as <<model, channel>>
    faults      \* history: upstream faults of c reported since its last success

breakerVars == <<breakers, call, streak, quiet>>
adminVars == <<table, fallbacks>>
vars == <<breakerVars, adminVars, req, gone, log, faults>>

CB == INSTANCE CircuitBreaker WITH Callers <- Requests

\* const maxFallbackDepth in nextFallbackContext.
MaxFallbackDepth == 4

\* 200; 429 or 5xx; any other status.
Statuses == {"ok", "fault"} \cup (IF Rejections THEN {"rejected"} ELSE {})

FallsBackAcrossModels(k) == k \in {"chat", "stream"}

Idle == [pc |-> "idle", kind |-> "chat", model |-> NoModel, chain |-> <<>>, queue |-> <<>>,
         status |-> "ok", attempted |-> <<>>, trail |-> <<>>, shown |-> <<>>]

Init ==
    /\ CB!Init
    /\ table \in Tables
    /\ fallbacks \in FallbackMaps
    /\ req = [r \in Requests |-> Idle]
    /\ gone = {}
    /\ log = [r \in Requests |-> <<>>]
    /\ faults = [c \in Channels |-> 0]

At(r, pc) == req[r].pc = pc
Goto(r, pc) == req' = [req EXCEPT ![r].pc = pc]

Start(r, k, m) ==
    /\ req[r].pc \in {"idle", "done"}
    /\ req' = [req EXCEPT ![r] = [Idle EXCEPT !.pc = "select", !.kind = k, !.model = m]]
    /\ gone' = gone \ {r}
    /\ log' = [log EXCEPT ![r] = <<>>]
    /\ UNCHANGED <<breakerVars, adminVars, faults>>

-----------------------------------------------------------------------------
(* Choosing the candidates. *)

(* The orders GetChannelsForModelAndProtocolWithContext may return: tiers  *)
(* by priority; in a tier the channel picked by session affinity or by the *)
(* weighted round robin comes first and the others in configured order.    *)
Orders(S) ==
    { s \in [1 .. Cardinality(S) -> S] :
        /\ \A i, j \in DOMAIN s : s[i] = s[j] => i = j
        /\ \A i, j \in DOMAIN s : i < j =>
              /\ Tier[s[i]] <= Tier[s[j]]
              /\ Tier[s[i]] = Tier[s[j]] /\ (\E h \in 1 .. i - 1 : Tier[s[h]] = Tier[s[i]])
                    => Rank[s[i]] < Rank[s[j]] }

TakeCandidates(r, S) ==
    \E s \in Orders(S) :
        req' = [req EXCEPT ![r].queue = s, ![r].attempted = <<>>, ![r].pc = "try"]

\* Channels that serve the model and speak the protocol of the request.
Select(r) ==
    LET S == table.serves[req[r].model] \cap table.speaks
    IN  /\ At(r, "select")
        /\ IF S = {} THEN Goto(r, "selectAny") ELSE TakeCandidates(r, S)
        /\ UNCHANGED <<breakerVars, adminVars, gone, log, faults>>

\* Failing that, any channel that serves the model: the table is read again.
SelectAny(r) ==
    LET S == table.serves[req[r].model]
    IN  /\ At(r, "selectAny")
        /\ IF S # {} THEN TakeCandidates(r, S)
           ELSE Goto(r, IF FallsBackAcrossModels(req[r].kind) THEN "fallback" ELSE "done")
        /\ UNCHANGED <<breakerVars, adminVars, gone, log, faults>>

-----------------------------------------------------------------------------
(* The loop over the candidates. *)

Candidate(r) == Head(req[r].queue)

\* The channel is passed over, and not noted as attempted.
Skip(r) == req' = [req EXCEPT ![r].queue = Tail(@), ![r].pc = "try"]

(* The breaker refuses the channel: on to the next one.                    *)
Bypass(r) ==
    /\ At(r, "try")
    /\ req[r].queue # <<>>
    /\ ~CB!Admits(breakers[Candidate(r)])
    /\ Skip(r)
    /\ UNCHANGED <<breakerVars, adminVars, gone, log, faults>>

LetThrough(r) ==
    /\ At(r, "try")
    /\ req[r].queue # <<>>
    /\ CB!Admit(r, Candidate(r))
    /\ Goto(r, "admitted")
    /\ UNCHANGED <<adminVars, gone, log, faults>>

(* No provider of the channel's type, or one without the operation, or a   *)
(* request that cannot be built: nothing is reported to the breaker.       *)
NotCallable(r) ==
    /\ At(r, "admitted")
    /\ Candidate(r) \notin Callable[req[r].kind]
    /\ CB!Abandon(r, Candidate(r))
    /\ Skip(r)
    /\ UNCHANGED <<adminVars, gone, log, faults>>

CallUpstream(r) ==
    /\ At(r, "admitted")
    /\ Candidate(r) \in Callable[req[r].kind]
    /\ Goto(r, "sending")
    /\ log' = [log EXCEPT ![r] = Append(@, <<req[r].model, Candidate(r)>>)]
    /\ UNCHANGED <<breakerVars, adminVars, gone, faults>>

\* The upstream has taken the whole request: nothing bounds how long that takes.
Sent(r) ==
    /\ At(r, "sending")
    /\ Goto(r, "called")
    /\ UNCHANGED <<breakerVars, adminVars, gone, log, faults>>

\* Headers and errors may come before the request is fully written.
Awaiting(r) == req[r].pc \in {"sending", "called"}

\* "A->B": every channel called and failed, then the one that answered.
HopsNewestModelFirst(r) == Append(req[r].attempted \o req[r].trail, Candidate(r))
Hops(r) == Append(req[r].trail \o req[r].attempted, Candidate(r))

\* const maxChannelTrailLen in formatChannelTrail, and how long a trail is.
MaxChannelTrailLen == 128
TrailLen(hops) == SumFunction([i \in DOMAIN hops |-> Width[hops[i]]]) + Len(hops) - 1

(* A trail that is too long keeps its most recent hops and a mark in front *)
(* of them; a single hop that is too long keeps the end of its name.       *)
formatChannelTrail(hops) ==
    IF TrailLen(hops) <= MaxChannelTrailLen THEN hops
    ELSE LET n == Len(hops)
             fits == {n} \cup {i \in 1 .. n :
                        TrailLen(SubSeq(hops, i, n)) + 1 <= MaxChannelTrailLen}
         IN  SubSeq(hops, CHOOSE i \in fits : \A k \in fits : i <= k, n)

Served(r, pc) ==
    /\ CB!Succeed(r, Candidate(r))
    /\ req' = [req EXCEPT ![r].pc = pc, ![r].shown = formatChannelTrail(Hops(r))]
    /\ faults' = [faults EXCEPT ![Candidate(r)] = 0]
    /\ UNCHANGED <<adminVars, gone, log>>

\* On to the next candidate, at "pc".
NextCandidate(r, pc) ==
    req' = [req EXCEPT ![r].pc = pc, ![r].queue = Tail(@), ![r].attempted = Append(@, Candidate(r))]

Failed(r, upstreamFault, pc) ==
    /\ CB!Fail(r, Candidate(r))
    /\ NextCandidate(r, pc)
    /\ faults' = [faults EXCEPT ![Candidate(r)] =
                    IF upstreamFault /\ @ < FailureThreshold THEN @ + 1 ELSE @]
    /\ UNCHANGED <<adminVars, gone, log>>

(* The response headers arrive.  DispatchHTTP reports at once: 429 and 5xx *)
(* as failures, after which it reads the body of the error, and everything *)
(* else as a success that is handed to the client.  A stream with a 200    *)
(* waits for its first event.  In all other cases the body is read,        *)
(* without a deadline, before the outcome counts.                          *)
Headers(r, status) ==
    /\ Awaiting(r)
    /\ CASE req[r].kind = "http" /\ status = "fault" -> Failed(r, TRUE, "draining")
         [] req[r].kind = "http" /\ status # "fault" -> Served(r, "done")
         [] OTHER ->
              /\ req' = [req EXCEPT ![r].status = status,
                  ![r].pc = IF req[r].kind = "stream" /\ status = "ok" THEN "window" ELSE "reading"]
              /\ UNCHANGED <<breakerVars, adminVars, gone, log, faults>>

\* The body is complete: every status but 200 is an error.
BodyRead(r) ==
    /\ At(r, "reading")
    /\ IF req[r].status = "ok" THEN Served(r, "done") ELSE Failed(r, req[r].status = "fault", "try")

\* The connection breaks, or the body cannot be decoded.
BodyBroken(r) == At(r, "reading") /\ req[r].status = "ok" /\ Failed(r, TRUE, "try")

\* The body of the error ends, breaks off or is cancelled: all the same.
Drained(r) ==
    /\ At(r, "draining")
    /\ Goto(r, "try")
    /\ UNCHANGED <<breakerVars, adminVars, gone, log, faults>>

NetworkErrorUnreported(r) ==
    /\ Awaiting(r)
    /\ CB!Abandon(r, Candidate(r))
    /\ NextCandidate(r, "try")
    /\ UNCHANGED <<adminVars, gone, log, faults>>

NetworkError(r) == Awaiting(r) /\ Failed(r, TRUE, "try")

(* No response headers for 60 s (ResponseHeaderTimeout): the timer starts  *)
(* once the request is fully written, and there is no other one.           *)
HeaderTimeout(r) == At(r, "called") /\ Failed(r, TRUE, "try")

\* The upstream request is not bound to the context of the client's.
CallDetached(r) == FALSE

\* The cancelled context makes the upstream call return an error, which
\* counts like any other.
CallCancelled(r) ==
    /\ req[r].pc \in {"sending", "called", "reading"}
    /\ r \in gone
    /\ Failed(r, FALSE, "try")

\* Safe Fallback Window: the first event is healthy and the answer committed.
FirstEvent(r) == At(r, "window") /\ Served(r, "streaming")

\* The stream closes without an event, or its first event is an error.
BadFirstEvent(r) == At(r, "window") /\ Failed(r, TRUE, "try")

\* No event for 15 s.
FirstEventTimeoutDropped(r) == FALSE
FirstEventTimeout(r) == At(r, "window") /\ Failed(r, TRUE, "try")

\* The provider's first event is the context's error.
FirstEventCancelled(r) == At(r, "window") /\ r \in gone /\ Failed(r, FALSE, "try")

\* The dispatcher sees the cancelled context first: nothing is reported.
LeaveWindow(r) ==
    /\ At(r, "window")
    /\ r \in gone
    /\ CB!Abandon(r, Candidate(r))
    /\ Goto(r, "done")
    /\ UNCHANGED <<adminVars, gone, log, faults>>

RetryStream(r) ==
    /\ At(r, "streaming")
    /\ req' = [req EXCEPT ![r].pc = "try", ![r].queue = Tail(@)]
    /\ UNCHANGED <<breakerVars, adminVars, gone, log, faults>>

\* The stream ends, well or not: its outcome is not reported and not retried.
EndStream(r) ==
    /\ At(r, "streaming")
    /\ Goto(r, "done")
    /\ UNCHANGED <<breakerVars, adminVars, gone, log, faults>>

-----------------------------------------------------------------------------
(* Cross-model fallback. *)

Exhausted(r) ==
    /\ At(r, "try")
    /\ req[r].queue = <<>>
    /\ Goto(r, IF FallsBackAcrossModels(req[r].kind) THEN "fallback" ELSE "done")
    /\ UNCHANGED <<breakerVars, adminVars, gone, log, faults>>

\* The models tried so far, the current one included.
Chain(r) == IF req[r].chain = <<>> THEN <<req[r].model>> ELSE req[r].chain

NextFallbackCaseSensitive(r, m) ==
    /\ Len(Chain(r)) < MaxFallbackDepth
    /\ \A i \in DOMAIN Chain(r) : Chain(r)[i] # m

NextFallbackUnbounded(r, m) ==
    \A i \in DOMAIN Chain(r) : Fold[Chain(r)[i]] # Fold[m]

NextFallback(r, m) ==
    /\ Len(Chain(r)) < MaxFallbackDepth
    /\ \A i \in DOMAIN Chain(r) : Fold[Chain(r)[i]] # Fold[m]

(* GetModelFallback, then nextFallbackContext: the request continues with  *)
(* the fallback model, or ends when there is none, when it was tried       *)
(* already or when the chain is full.                                      *)
Fallback(r) ==
    LET fb == fallbacks[req[r].model]
    IN  /\ At(r, "fallback")
        /\ IF fb # NoModel /\ NextFallback(r, fb)
           THEN req' = [req EXCEPT ![r].pc = "select",
                                   ![r].model = fb,
                                   ![r].chain = Append(Chain(r), fb),
                                   ![r].trail = @ \o req[r].attempted,
                                   ![r].attempted = <<>>]
           ELSE Goto(r, "done")
        /\ UNCHANGED <<breakerVars, adminVars, gone, log, faults>>

-----------------------------------------------------------------------------
(* The clients, the administrator and time. *)

Leave(r) ==
    /\ ClientsLeave
    /\ req[r].pc \notin {"idle", "done"}
    /\ r \notin gone
    /\ gone' = gone \cup {r}
    /\ UNCHANGED <<breakerVars, adminVars, req, log, faults>>

UpdateChannels ==
    /\ table' \in Tables \ {table}
    /\ UNCHANGED <<breakerVars, fallbacks, req, gone, log, faults>>

SetModelFallbacks ==
    /\ fallbacks' \in FallbackMaps \ {fallbacks}
    /\ UNCHANGED <<breakerVars, table, req, gone, log, faults>>

Tick == CB!Tick /\ UNCHANGED <<adminVars, req, gone, log, faults>>

\* What the gateway does about r by itself: its own steps, its timeouts and
\* its reaction to the cancelled context.
Gateway(r) ==
    \/ Select(r) \/ SelectAny(r) \/ Bypass(r) \/ LetThrough(r) \/ NotCallable(r)
    \/ CallUpstream(r) \/ HeaderTimeout(r) \/ FirstEventTimeout(r)
    \/ CallCancelled(r) \/ FirstEventCancelled(r) \/ LeaveWindow(r)
    \/ Exhausted(r) \/ Fallback(r)
    \/ r \in gone /\ (EndStream(r) \/ Drained(r))

\* What the upstream r was sent to does.
Upstream(r) ==
    \/ Sent(r)
    \/ \E status \in Statuses : Headers(r, status)
    \/ BodyRead(r) \/ BodyBroken(r) \/ Drained(r) \/ NetworkError(r)
    \/ FirstEvent(r) \/ BadFirstEvent(r) \/ EndStream(r)

Next ==
    \/ \E r \in Requests :
          \/ \E k \in Kinds, m \in Models : Start(r, k, m)
          \/ Gateway(r)
          \/ Upstream(r)
          \/ Leave(r)
    \/ UpdateChannels
    \/ SetModelFallbacks
    \/ Tick

Spec == Init /\ [][Next]_vars

(* The goroutine of a request is scheduled, its timers fire, and it reacts *)
(* to its context; nothing is assumed of upstreams, clients or the         *)
(* administrator.                                                          *)
FairSpec == Spec /\ \A r \in Requests : WF_vars(Gateway(r))

-----------------------------------------------------------------------------
(* Properties. *)

RequestState ==
    [pc : {"idle", "select", "selectAny", "try", "admitted", "sending", "called", "reading",
           "draining", "window", "streaming", "fallback", "done"},
     kind : {"chat", "stream", "embed", "http"},
     model : Models \cup {NoModel},
     chain : Seq(Models),
     queue : Seq(Channels),
     status : {"ok", "fault", "rejected"},
     attempted : Seq(Channels),
     trail : Seq(Channels),
     shown : Seq(Channels)]

TypeOK ==
    /\ CB!TypeOK
    /\ table \in Tables
    /\ fallbacks \in FallbackMaps
    /\ req \in [Requests -> RequestState]
    /\ gone \subseteq Requests
    /\ log \in [Requests -> Seq(Models \X Channels)]
    /\ faults \in [Channels -> 0 .. FailureThreshold]

(* The trail written to the audit log of a served request is the list of   *)
(* the upstream calls it made, in order, across all the models it went     *)
(* through; when that is too long, the list of the latest ones, the one    *)
(* that answered included (formatChannelTrail, withChannelTrail).          *)
TrailTellsTheCalls ==
    \A r \in Requests :
        LET shown == req[r].shown
            calls == [i \in DOMAIN log[r] |-> log[r][i][2]]
        IN  shown # <<>> =>
              /\ shown = SubSeq(calls, Len(calls) - Len(shown) + 1, Len(calls))
              /\ TrailLen(calls) <= MaxChannelTrailLen => shown = calls

(* A request never calls a channel twice for one model (names compared     *)
(* without case), whatever fallback maps and channel tables are installed  *)
(* while it runs.                                                          *)
NoCallRepeated ==
    \A r \in Requests : \A i, j \in DOMAIN log[r] :
        i # j => <<Fold[log[r][i][1]], log[r][i][2]>> # <<Fold[log[r][j][1]], log[r][j][2]>>

\* A request calls upstreams for at most MaxFallbackDepth models.
FallbackIsBounded ==
    \A r \in Requests : Cardinality({Fold[log[r][i][1]] : i \in DOMAIN log[r]}) <= MaxFallbackDepth

(* Once the first event of a stream has been passed on, the request makes  *)
(* no further upstream call.                                               *)
CommittedAfterFirstToken ==
    [][\A r \in Requests :
          req[r].shown # <<>> /\ log'[r] # log[r] => log'[r] = <<>>]_vars

(* Every call that is let through is reported: a half-open channel always  *)
(* has the request in flight that will decide it.  Checked where no        *)
(* request is a stream and every channel can be called.                    *)
ProbeIsHeld ==
    \A c \in Channels : breakers[c].state = CB!HALF_OPEN => CB!Probes(c) # {}

(* The only places where a request can stay for ever are the two bodies:   *)
(* the writing of its own, to an upstream that does not take it, and the   *)
(* reading of the response's (client.go sets no deadline for either).      *)
(* Otherwise it is answered, or a stream of it is started, even while      *)
(* tables and fallback maps keep changing and upstreams are silent.        *)
OnlyBodiesStall ==
    \A r \in Requests :
        []<>(req[r].pc \in {"idle", "done", "streaming", "sending", "reading", "draining"})

\* A client that has left frees everything its request holds.
LeavingEndsTheRequest ==
    \A r \in Requests : []<>(r \notin gone \/ req[r].pc = "done")

(* A closed breaker trips only on FailureThreshold faults of the upstream: *)
(* "500/429/timeout" (README.md:59), "upstream" failures                   *)
(* (docs/HA_ARCHITECTURE.md:74).                                           *)
TripsOnUpstreamFaults ==
    [][\A c \in Channels :
          breakers[c].state = CB!CLOSED /\ breakers'[c].state = CB!OPEN
             => faults'[c] >= FailureThreshold]_vars
=============================================================================
