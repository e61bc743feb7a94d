---------------------------- MODULE BreakerStatus ----------------------------
(***************************************************************************)
(* The status record of one upstream channel's circuit breaker and the     *)
(* three state handlers (closedState, openState, halfOpenState) of         *)
(* internal/router/circuit_breaker.go, as functions from a status to the   *)
(* next one.  The code stores the instant of the last state change and     *)
(* compares now - LastStateChange with the cooldown; the model keeps that  *)
(* difference, "age", saturated one unit above the largest value any       *)
(* comparison looks at, so every comparison has the code's outcome.        *)
(***************************************************************************)
EXTENDS Naturals

CONSTANTS
    FailureThreshold,   \* NewCircuitBreaker's failureThreshold (3 in production)
    Cooldown            \* its cooldown, in time units (30 s in production)

ASSUME FailureThresholdAssumption == FailureThreshold \in Nat \ {0}
ASSUME CooldownAssumption == Cooldown \in Nat \ {0}

\* Fixed by the constructor, whatever its arguments.
SuccessThreshold == 1
MaxCanaryProbes == 1

CLOSED == "CLOSED"
OPEN == "OPEN"
HALF_OPEN == "HALF-OPEN"

AgeCap == 2 * Cooldown + 1

Status == [ state     : {CLOSED, OPEN, HALF_OPEN},
            failures  : 0 .. FailureThreshold,
            successes : 0 .. SuccessThreshold,
            canary    : 0 .. MaxCanaryProbes,
            age       : 0 .. AgeCap ]

\* A channel the map does not hold yet answers as a fresh closed one does.
FreshStatus == [state |-> CLOSED, failures |-> 0, successes |-> 0, canary |-> 0, age |-> 0]

\* One unit of time on a saturating clock.
Elapse(n) == IF n < AgeCap THEN n + 1 ELSE n

-----------------------------------------------------------------------------
(* The transitions. *)

Entered(s, failures) ==
    [state |-> s, failures |-> failures, successes |-> 0, canary |-> 0, age |-> 0]

ToClosedKeepingFailures(b) == Entered(CLOSED, b.failures)

ToClosed(b) == Entered(CLOSED, 0)

\* The count of failures survives the trip.
ToOpen(b) == Entered(OPEN, b.failures)

ToHalfOpen(b) == Entered(HALF_OPEN, b.failures)

-----------------------------------------------------------------------------
(* CanExecute: is the caller let through, and what it leaves behind. *)

AbandonedTooLong(b) == b.age > 2 * Cooldown

ProbeSlotFree(b) == b.canary < MaxCanaryProbes \/ AbandonedTooLong(b)

AdmitsIgnoringProbeLimit(b) ==
    \/ b.state = CLOSED
    \/ b.state = OPEN /\ b.age >= Cooldown
    \/ b.state = HALF_OPEN

AdmitsUntilReported(b) ==
    \/ b.state = CLOSED
    \/ b.state = OPEN /\ b.age >= Cooldown
    \/ b.state = HALF_OPEN /\ b.canary < MaxCanaryProbes

Admits(b) ==
    \/ b.state = CLOSED
    \/ b.state = OPEN /\ b.age >= Cooldown
    \/ b.state = HALF_OPEN /\ ProbeSlotFree(b)

\* The canary count restarts from 0 when the slot was taken for too long.
TakeProbeSlot(b) ==
    [b EXCEPT !.canary = IF b.canary >= MaxCanaryProbes THEN 1 ELSE b.canary + 1]

AfterAdmission(b) ==
    CASE b.state = CLOSED    -> b
      [] b.state = OPEN      -> TakeProbeSlot(ToHalfOpen(b))
      [] b.state = HALF_OPEN -> TakeProbeSlot(b)

-----------------------------------------------------------------------------
(* RecordSuccess and RecordFailure. *)

HalfOpenSuccess(b) ==
    IF b.successes + 1 >= SuccessThreshold
    THEN ToClosed(b)
    ELSE [b EXCEPT !.successes = @ + 1, !.canary = IF @ > 0 THEN @ - 1 ELSE 0]

AfterSuccess(b) ==
    CASE b.state = CLOSED    -> [b EXCEPT !.failures = 0]
      [] b.state = OPEN      -> ToClosed(b)
      [] b.state = HALF_OPEN -> HalfOpenSuccess(b)

ClosedFailureOneLate(b) ==
    LET counted == [b EXCEPT !.failures = @ + 1]
    IN  IF counted.failures > FailureThreshold THEN ToOpen(counted) ELSE counted

ClosedFailure(b) ==
    LET counted == [b EXCEPT !.failures = @ + 1]
    IN  IF counted.failures >= FailureThreshold THEN ToOpen(counted) ELSE counted

AfterFailureNotExtending(b) ==
    CASE b.state = CLOSED    -> ClosedFailure(b)
      [] b.state = OPEN      -> b
      [] b.state = HALF_OPEN -> ToOpen(b)

\* A failure reported while open restarts the cooldown.
AfterFailure(b) ==
    CASE b.state = CLOSED    -> ClosedFailure(b)
      [] b.state = OPEN      -> [b EXCEPT !.age = 0]
      [] b.state = HALF_OPEN -> ToOpen(b)
=============================================================================
