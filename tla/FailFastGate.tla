----------------------------- MODULE FailFastGate -----------------------------
(***************************************************************************)
(* What the circuit breaker promises, with none of its internal states:    *)
(* once FailureThreshold failures of a channel have been reported in a row *)
(* no request is sent to it until Cooldown has passed since the latest     *)
(* reported failure; a reported success lifts the ban at once.             *)
(***************************************************************************)
EXTENDS Naturals

CONSTANTS
    Callers,            \* requests that may be in flight together
    Channels,           \* upstream channels
    NoChannel,          \* the channel of a caller that has nothing in flight
    FailureThreshold,
    Cooldown,
    QuietCap            \* where the clock "quiet" saturates

VARIABLES
    inFlight,   \* inFlight[r]: the channel r was let through to, or NoChannel
    streak,     \* streak[c]: failures of c reported since the last success, up to FailureThreshold
    quiet       \* quiet[c]: time since the last reported failure of c

vars == <<inFlight, streak, quiet>>

Init ==
    /\ inFlight = [r \in Callers |-> NoChannel]
    /\ streak = [c \in Channels |-> 0]
    /\ quiet = [c \in Channels |-> 0]

Banned(c) == streak[c] >= FailureThreshold /\ quiet[c] < Cooldown

Admit(r, c) ==
    /\ inFlight[r] = NoChannel
    /\ ~Banned(c)
    /\ inFlight' = [inFlight EXCEPT ![r] = c]
    /\ UNCHANGED <<streak, quiet>>

Succeed(r, c) ==
    /\ inFlight[r] = c
    /\ inFlight' = [inFlight EXCEPT ![r] = NoChannel]
    /\ streak' = [streak EXCEPT ![c] = 0]
    /\ UNCHANGED quiet

Fail(r, c) ==
    /\ inFlight[r] = c
    /\ inFlight' = [inFlight EXCEPT ![r] = NoChannel]
    /\ streak' = [streak EXCEPT ![c] = IF @ < FailureThreshold THEN @ + 1 ELSE @]
    /\ quiet' = [quiet EXCEPT ![c] = 0]

\* The outcome of the call is never reported.
Abandon(r, c) ==
    /\ inFlight[r] = c
    /\ inFlight' = [inFlight EXCEPT ![r] = NoChannel]
    /\ UNCHANGED <<streak, quiet>>

Tick ==
    /\ quiet' = [c \in Channels |-> IF quiet[c] < QuietCap THEN quiet[c] + 1 ELSE quiet[c]]
    /\ UNCHANGED <<inFlight, streak>>

Next ==
    \/ \E r \in Callers, c \in Channels :
            Admit(r, c) \/ Succeed(r, c) \/ Fail(r, c) \/ Abandon(r, c)
    \/ Tick

Spec == Init /\ [][Next]_vars
=============================================================================
