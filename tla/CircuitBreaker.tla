---------------------------- MODULE CircuitBreaker ----------------------------
(***************************************************************************)
(* The circuit breaker of internal/router/circuit_breaker.go under         *)
(* concurrent requests.  Every exported method runs under cb.mu, so each   *)
(* is one action; what interleaves is a request's CanExecute with the      *)
(* RecordSuccess or RecordFailure it makes much later, after the breaker   *)
(* may have changed state several times on behalf of other requests, or    *)
(* never makes.                                                            *)
(*                                                                         *)
(* The code's state is "breakers".  "call" is what each request has in     *)
(* flight; "streak" and "quiet" are history variables.                     *)
(***************************************************************************)
EXTENDS BreakerStatus, FiniteSets

CONSTANTS
    Callers,    \* requests that may be in flight together
    Channels,   \* upstream channels
    NoChannel   \* no channel

ASSUME NoChannelAssumption == NoChannel \notin Channels

VARIABLES
    breakers,   \* breakers[c]: the BreakerStatus of channel c
    call,       \* call[r]: the upstream call r was let through to
    streak,     \* streak[c]: failures of c reported since its last reported success
    quiet       \* quiet[c]: time since a failure of c was last reported

vars == <<breakers, call, streak, quiet>>

(* "probe" holds while the channel is still in the half-open period that   *)
(* let the call through, and "age" is then the time since.                 *)
Call == [channel : Channels \cup {NoChannel}, probe : BOOLEAN, age : 0 .. AgeCap]

NoCall == [channel |-> NoChannel, probe |-> FALSE, age |-> 0]

Init ==
    /\ breakers = [c \in Channels |-> FreshStatus]
    /\ call = [r \in Callers |-> NoCall]
    /\ streak = [c \in Channels |-> 0]
    /\ quiet = [c \in Channels |-> 0]

-----------------------------------------------------------------------------
(* Actions. *)

Probes(c) == {r \in Callers : call[r].channel = c /\ call[r].probe}

\* A call is a probe no longer once its channel has left the half-open state.
Demoted(k, c) ==
    IF k.channel = c THEN [channel |-> c, probe |-> FALSE, age |-> 0] ELSE k

(* CanExecute returns true.  When it returns false nothing changes.        *)
Admit(r, c) ==
    /\ call[r] = NoCall
    /\ Admits(breakers[c])
    /\ breakers' = [breakers EXCEPT ![c] = AfterAdmission(@)]
    /\ call' = [call EXCEPT ![r] =
                    [channel |-> c, probe |-> breakers'[c].state = HALF_OPEN, age |-> 0]]
    /\ UNCHANGED <<streak, quiet>>

(* The caller r returns with its call to c; breakers[c] becomes "next".    *)
Return(r, c, next) ==
    /\ call[r].channel = c
    /\ breakers' = [breakers EXCEPT ![c] = next]
    /\ call' = [q \in Callers |->
                    IF q = r THEN NoCall
                    ELSE IF next.state = HALF_OPEN THEN call[q] ELSE Demoted(call[q], c)]

Succeed(r, c) ==
    /\ Return(r, c, AfterSuccess(breakers[c]))
    /\ streak' = [streak EXCEPT ![c] = 0]
    /\ UNCHANGED quiet

Fail(r, c) ==
    /\ Return(r, c, AfterFailure(breakers[c]))
    /\ streak' = [streak EXCEPT ![c] = IF @ < FailureThreshold THEN @ + 1 ELSE @]
    /\ quiet' = [quiet EXCEPT ![c] = 0]

(* The dispatcher was let through and returns, or moves to the next        *)
(* channel, without reporting: the client left before the first token, the *)
(* provider type is unknown, the request could not be built.               *)
Abandon(r, c) ==
    /\ call[r].channel = c
    /\ call' = [call EXCEPT ![r] = NoCall]
    /\ UNCHANGED <<breakers, streak, quiet>>

\* One unit of time passes.
Tick ==
    /\ breakers' = [c \in Channels |-> [breakers[c] EXCEPT !.age = Elapse(@)]]
    /\ call' = [r \in Callers |-> IF call[r].probe THEN [call[r] EXCEPT !.age = Elapse(@)] ELSE call[r]]
    /\ quiet' = [c \in Channels |-> Elapse(quiet[c])]
    /\ UNCHANGED streak

Next ==
    \/ \E r \in Callers, c \in Channels :
            Admit(r, c) \/ Succeed(r, c) \/ Fail(r, c) \/ Abandon(r, c)
    \/ Tick

Spec == Init /\ [][Next]_vars

\* The clock is the only thing that needs no one's cooperation.
FairSpec == Spec /\ WF_vars(Tick)

-----------------------------------------------------------------------------
(* Properties. *)

TypeOK ==
    /\ breakers \in [Channels -> Status]
    /\ call \in [Callers -> Call]
    /\ streak \in [Channels -> 0 .. FailureThreshold]
    /\ quiet \in [Channels -> 0 .. AgeCap]

(* A closed breaker's failure count is exactly the number of failures      *)
(* reported since the last reported success, whichever states those        *)
(* reports met, and a streak of FailureThreshold leaves none closed        *)
(* (closedState.RecordFailure, toClosed).                                  *)
ClosedCountsTheStreak ==
    \A c \in Channels :
        breakers[c].state = CLOSED =>
            /\ breakers[c].failures = streak[c]
            /\ streak[c] < FailureThreshold

(* Until a canary has been out for more than two cooldowns, a half-open    *)
(* channel has at most one probe in flight, however many requests ask at   *)
(* once and whatever late answers come in (halfOpenState.CanExecute).      *)
SoleProbe ==
    \A c \in Channels :
        breakers[c].state = HALF_OPEN /\ ~AbandonedTooLong(breakers[c]) =>
            \A r1, r2 \in Probes(c) : r1 = r2

(* The breaker implements the gate of FailFastGate: FailureThreshold       *)
(* failures in a row keep every request away from the channel until        *)
(* Cooldown has passed since the latest reported failure.                  *)
Gate == INSTANCE FailFastGate WITH
            inFlight <- [r \in Callers |-> call[r].channel],
            QuietCap <- AgeCap

ImplementsGate == Gate!Spec

(* No channel is shut out for ever: whatever the requests do, even if      *)
(* every canary is lost, the passage of time alone brings back a state in  *)
(* which the next CanExecute returns true.                                 *)
NeverShutOut == \A c \in Channels : []<>Admits(breakers[c])

-----------------------------------------------------------------------------
(* What a comment says of the breaker and the code does not do.            *)

(* "Limit concurrent canary probes to prevent herd stampede"               *)
(* (circuit_breaker.go:130), a canary being given up only when it has been *)
(* out for more than two cooldowns (line 132): at most MaxCanaryProbes     *)
(* probes younger than that are in flight.                                 *)
YoungProbesLimited ==
    \A c \in Channels :
        Cardinality({r \in Probes(c) : call[r].age <= 2 * Cooldown}) <= MaxCanaryProbes
=============================================================================
