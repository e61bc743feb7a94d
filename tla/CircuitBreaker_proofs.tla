------------------------- MODULE CircuitBreaker_proofs -------------------------
(***************************************************************************)
(* Proofs, for any number of callers and channels, any threshold and any   *)
(* cooldown, of the safety properties TLC checks on CircuitBreaker.        *)
(***************************************************************************)
EXTENDS CircuitBreaker, TLAPS

USE FailureThresholdAssumption, CooldownAssumption

-----------------------------------------------------------------------------
(* What the handlers do to one status. *)

\* Elapse stays on the saturating clock and never goes back.
LEMMA ElapseFact ==
    ASSUME NEW n \in 0 .. AgeCap
    PROVE  /\ Elapse(n) \in 0 .. AgeCap
           /\ Elapse(n) >= n
BY DEF Elapse, AgeCap

\* CanExecute keeps the status well-formed; it opens nothing and closes
\* nothing, and leaves a half-open channel with its probe slot taken.
LEMMA AdmissionFact ==
    ASSUME NEW b \in Status, Admits(b)
    PROVE  /\ AfterAdmission(b) \in Status
           /\ b.state = CLOSED => AfterAdmission(b) = b
           /\ b.state # CLOSED => /\ AfterAdmission(b).state = HALF_OPEN
                                  /\ AfterAdmission(b).canary = 1
           /\ b.state = HALF_OPEN => AfterAdmission(b).age = b.age
<1> USE DEF Status, MaxCanaryProbes, SuccessThreshold, CLOSED, OPEN, HALF_OPEN, AgeCap
<1>1. CASE b.state = CLOSED
  BY <1>1 DEF AfterAdmission
<1>2. CASE b.state = OPEN
  <2>1. AfterAdmission(b) = [Entered(HALF_OPEN, b.failures) EXCEPT !.canary = 1]
    BY <1>2 DEF AfterAdmission, TakeProbeSlot, ToHalfOpen, Entered
  <2> QED BY <1>2, <2>1 DEF Entered
<1>3. CASE b.state = HALF_OPEN
  <2>1. AfterAdmission(b) = [b EXCEPT !.canary = 1]
    BY <1>3 DEF AfterAdmission, TakeProbeSlot
  <2> QED BY <1>3, <2>1
<1> QED BY <1>1, <1>2, <1>3

\* A reported success always leaves a closed breaker with no failure counted.
LEMMA SuccessFact ==
    ASSUME NEW b \in Status
    PROVE  /\ AfterSuccess(b) \in Status
           /\ AfterSuccess(b).state = CLOSED
           /\ AfterSuccess(b).failures = 0
BY DEF Status, AfterSuccess, HalfOpenSuccess, ToClosed, Entered, MaxCanaryProbes,
       SuccessThreshold, CLOSED, OPEN, HALF_OPEN, AgeCap

\* A reported failure leaves the breaker open with its age reset, or closed
\* with one more failure counted and the threshold not reached.
LEMMA FailureFact ==
    ASSUME NEW b \in Status, b.state = CLOSED => b.failures < FailureThreshold
    PROVE  /\ AfterFailure(b) \in Status
           /\ \/ /\ AfterFailure(b).state = OPEN
                 /\ AfterFailure(b).age = 0
              \/ /\ b.state = CLOSED
                 /\ AfterFailure(b).state = CLOSED
                 /\ AfterFailure(b).failures = b.failures + 1
                 /\ b.failures + 1 < FailureThreshold
BY DEF Status, AfterFailure, ClosedFailure, ToOpen, Entered, MaxCanaryProbes,
       SuccessThreshold, CLOSED, OPEN, HALF_OPEN, AgeCap

-----------------------------------------------------------------------------
(* The inductive invariant. *)

\* The slot of a half-open channel is always taken, a probe's channel is
\* half-open.
SlotTaken ==
    /\ \A c \in Channels : breakers[c].state = HALF_OPEN => breakers[c].canary = 1
    /\ \A r \in Callers : \A c \in Channels :
            call[r].channel = c /\ call[r].probe => breakers[c].state = HALF_OPEN

\* How the breaker's own clock relates to the last reported failure.
ClocksAgree ==
    \A c \in Channels :
        /\ breakers[c].state = OPEN => breakers[c].age = quiet[c]
        /\ breakers[c].state = HALF_OPEN => quiet[c] >= Cooldown

IInv ==
    /\ TypeOK
    /\ ClosedCountsTheStreak
    /\ SlotTaken
    /\ SoleProbe
    /\ ClocksAgree

\* The fresh breakers satisfy the inductive invariant.
THEOREM InitInvariant == Init => IInv
BY DEF Init, IInv, TypeOK, ClosedCountsTheStreak, SlotTaken, SoleProbe, ClocksAgree, Probes,
       NoCall, Call, FreshStatus, Status, CLOSED, OPEN, HALF_OPEN, AgeCap, MaxCanaryProbes,
       SuccessThreshold

\* CanExecute keeps the inductive invariant.
LEMMA AdmitPreserves ==
    ASSUME IInv, NEW r \in Callers, NEW c \in Channels, Admit(r, c)
    PROVE  IInv'
<1> DEFINE b == breakers[c]
<1>0. /\ b \in Status
      /\ Admits(b)
      /\ breakers' = [breakers EXCEPT ![c] = AfterAdmission(b)]
      /\ breakers'[c] = AfterAdmission(b)
      /\ call' = [call EXCEPT ![r] =
                    [channel |-> c, probe |-> AfterAdmission(b).state = HALF_OPEN, age |-> 0]]
      /\ UNCHANGED <<streak, quiet>>
  BY DEF Admit, IInv, TypeOK
<1> HIDE DEF b
<1>1. TypeOK'
  BY <1>0, AdmissionFact DEF IInv, TypeOK, Call, AgeCap
<1>2. ClosedCountsTheStreak'
  BY <1>0, AdmissionFact DEF IInv, TypeOK, ClosedCountsTheStreak, CLOSED, HALF_OPEN, b
<1>3. SlotTaken'
  BY <1>0, AdmissionFact DEF IInv, TypeOK, SlotTaken, CLOSED, HALF_OPEN, b
<1>4. SoleProbe'
  <2> SUFFICES ASSUME NEW d \in Channels, breakers'[d].state = HALF_OPEN,
                      ~AbandonedTooLong(breakers'[d]),
                      NEW r1 \in Callers, NEW r2 \in Callers,
                      call'[r1].channel = d, call'[r1].probe,
                      call'[r2].channel = d, call'[r2].probe
               PROVE  r1 = r2
    BY DEF SoleProbe, Probes
  <2>1. CASE d # c
    BY <2>1, <1>0 DEF IInv, TypeOK, SoleProbe, Probes
  <2>2. CASE d = c /\ b.state = HALF_OPEN
    \* The slot was taken, so it was free only because two cooldowns had passed.
    <3>1. b.canary = 1
      BY <2>2 DEF IInv, SlotTaken, b
    <3>2. AbandonedTooLong(b)
      BY <3>1, <2>2, <1>0 DEF Admits, ProbeSlotFree, MaxCanaryProbes, CLOSED, OPEN, HALF_OPEN
    <3>3. AbandonedTooLong(breakers'[d])
      BY <3>2, <2>2, <1>0, AdmissionFact DEF AbandonedTooLong
    <3> QED BY <3>3
  <2>3. CASE d = c /\ b.state # HALF_OPEN
    \* No call was a probe of c before this one.
    <3>1. \A q \in Callers : ~(call[q].channel = c /\ call[q].probe)
      BY <2>3 DEF IInv, SlotTaken, b
    <3> QED BY <3>1, <2>3, <1>0 DEF IInv, TypeOK
  <2> QED BY <2>1, <2>2, <2>3
<1>5. ClocksAgree'
  <2>1. b.state = OPEN => quiet[c] >= Cooldown
    BY <1>0 DEF IInv, TypeOK, ClocksAgree, Admits, CLOSED, OPEN, HALF_OPEN, b
  <2> QED BY <2>1, <1>0, AdmissionFact DEF IInv, TypeOK, ClocksAgree, CLOSED, OPEN, HALF_OPEN, b, Status
<1> QED BY <1>1, <1>2, <1>3, <1>4, <1>5 DEF IInv

\* What a returning caller leaves when the breaker does not stay half-open:
\* no other call changes but for losing its probe mark.
LEMMA ReturnFact ==
    ASSUME TypeOK, NEW r \in Callers, NEW c \in Channels, NEW next \in Status,
           next.state # HALF_OPEN, Return(r, c, next)
    PROVE  /\ call' \in [Callers -> Call]
           /\ breakers' = [breakers EXCEPT ![c] = next]
           /\ breakers'[c] = next
           /\ \A q \in Callers, d \in Channels :
                 call'[q].channel = d /\ call'[q].probe =>
                    d # c /\ call[q].channel = d /\ call[q].probe
<1>1. /\ breakers' = [breakers EXCEPT ![c] = next]
      /\ call' = [q \in Callers |-> IF q = r THEN NoCall ELSE Demoted(call[q], c)]
  BY DEF Return
<1>2. ASSUME NEW k \in Call
      PROVE  Demoted(k, c) \in Call
  BY DEF Demoted, Call, AgeCap
<1>3. NoCall \in Call
  BY DEF NoCall, Call, AgeCap
<1>4. call' \in [Callers -> Call]
  BY <1>1, <1>2, <1>3 DEF TypeOK
<1>5. ASSUME NEW q \in Callers, NEW d \in Channels, call'[q].channel = d, call'[q].probe
      PROVE  d # c /\ call[q].channel = d /\ call[q].probe
  <2>1. CASE q = r
    BY <1>1, <1>5, <2>1 DEF NoCall
  <2>2. CASE q # r /\ call[q].channel = c
    <3>1. call'[q] = [channel |-> c, probe |-> FALSE, age |-> 0]
      BY <1>1, <2>2 DEF Demoted
    <3> QED BY <3>1, <1>5
  <2>3. CASE q # r /\ call[q].channel # c
    <3>1. call'[q] = call[q]
      BY <1>1, <2>3 DEF Demoted
    <3> QED BY <3>1, <1>5, <2>3
  <2> QED BY <2>1, <2>2, <2>3
<1> QED BY <1>1, <1>4, <1>5 DEF TypeOK

\* Once the breaker has left the half-open state the probe conjuncts hold
\* for c for want of a probe, and for the other channels as before.
LEMMA ReturnKeepsProbes ==
    ASSUME IInv, NEW r \in Callers, NEW c \in Channels, NEW next \in Status,
           next.state # HALF_OPEN, Return(r, c, next)
    PROVE  SlotTaken' /\ SoleProbe'
BY ReturnFact DEF IInv, TypeOK, SlotTaken, SoleProbe, Probes

\* RecordSuccess keeps the inductive invariant.
LEMMA SucceedPreserves ==
    ASSUME IInv, NEW r \in Callers, NEW c \in Channels, Succeed(r, c)
    PROVE  IInv'
<1> DEFINE next == AfterSuccess(breakers[c])
<1>0. /\ next \in Status
      /\ next.state = CLOSED
      /\ next.state # HALF_OPEN
      /\ next.failures = 0
      /\ Return(r, c, next)
      /\ streak' = [streak EXCEPT ![c] = 0]
      /\ quiet' = quiet
  BY SuccessFact DEF Succeed, IInv, TypeOK, CLOSED, HALF_OPEN
<1> HIDE DEF next
<1>1. /\ call' \in [Callers -> Call]
      /\ breakers' = [breakers EXCEPT ![c] = next]
      /\ breakers'[c] = next
  BY <1>0, ReturnFact DEF IInv
<1>2. TypeOK'
  BY <1>0, <1>1 DEF IInv, TypeOK
<1>3. ClosedCountsTheStreak'
  BY <1>0, <1>1 DEF IInv, TypeOK, ClosedCountsTheStreak
<1>4. SlotTaken' /\ SoleProbe'
  BY <1>0, ReturnKeepsProbes
<1>5. ClocksAgree'
  BY <1>0, <1>1 DEF IInv, TypeOK, ClocksAgree, CLOSED, OPEN, HALF_OPEN
<1> QED BY <1>2, <1>3, <1>4, <1>5 DEF IInv

\* RecordFailure keeps the inductive invariant.
LEMMA FailPreserves ==
    ASSUME IInv, NEW r \in Callers, NEW c \in Channels, Fail(r, c)
    PROVE  IInv'
<1> DEFINE b == breakers[c]
           next == AfterFailure(b)
<1>0. b \in Status /\ (b.state = CLOSED => b.failures < FailureThreshold)
  BY DEF IInv, TypeOK, ClosedCountsTheStreak
<1>1. /\ next \in Status
      /\ \/ next.state = OPEN /\ next.age = 0
         \/ /\ b.state = CLOSED /\ next.state = CLOSED
            /\ next.failures = b.failures + 1
            /\ next.failures < FailureThreshold
  BY <1>0, FailureFact
<1>2. /\ Return(r, c, next)
      /\ streak' = [streak EXCEPT ![c] = IF @ < FailureThreshold THEN @ + 1 ELSE @]
      /\ quiet' = [quiet EXCEPT ![c] = 0]
  BY DEF Fail
<1> HIDE DEF next
<1>3. next.state # HALF_OPEN
  BY <1>1 DEF CLOSED, OPEN, HALF_OPEN
<1>4. /\ call' \in [Callers -> Call]
      /\ breakers' = [breakers EXCEPT ![c] = next]
      /\ breakers'[c] = next
  BY <1>1, <1>2, <1>3, ReturnFact DEF IInv
<1>5. TypeOK'
  BY <1>1, <1>2, <1>4 DEF IInv, TypeOK, AgeCap
<1>6. ClosedCountsTheStreak'
  BY <1>1, <1>2, <1>4 DEF IInv, TypeOK, ClosedCountsTheStreak, CLOSED, OPEN
<1>7. SlotTaken' /\ SoleProbe'
  BY <1>1, <1>2, <1>3, ReturnKeepsProbes
<1>8. ClocksAgree'
  BY <1>1, <1>2, <1>3, <1>4 DEF IInv, TypeOK, ClocksAgree, CLOSED, OPEN
<1> QED BY <1>5, <1>6, <1>7, <1>8 DEF IInv

\* A call that is given up unreported keeps the inductive invariant.
LEMMA AbandonPreserves ==
    ASSUME IInv, NEW r \in Callers, NEW c \in Channels, Abandon(r, c)
    PROVE  IInv'
BY DEF IInv, Abandon, TypeOK, ClosedCountsTheStreak, SlotTaken, SoleProbe, Probes, ClocksAgree,
       Call, NoCall, AgeCap

\* The passing of time keeps the inductive invariant.
LEMMA TickPreserves ==
    ASSUME IInv, Tick
    PROVE  IInv'
<1>1. \A c \in Channels :
        /\ breakers[c] \in Status
        /\ breakers'[c] = [breakers[c] EXCEPT !.age = Elapse(breakers[c].age)]
        /\ breakers[c].age \in 0 .. AgeCap
  BY DEF Tick, IInv, TypeOK, Status
<1>2. \A c \in Channels :
        /\ breakers'[c] \in Status
        /\ breakers'[c].state = breakers[c].state
        /\ breakers'[c].failures = breakers[c].failures
        /\ breakers'[c].canary = breakers[c].canary
        /\ breakers'[c].age = Elapse(breakers[c].age)
        /\ breakers[c].age \in 0 .. AgeCap
        /\ breakers'[c].age \in 0 .. AgeCap
        /\ breakers'[c].age >= breakers[c].age
  <2> TAKE c \in Channels
  <2>1. Elapse(breakers[c].age) \in 0 .. AgeCap /\ Elapse(breakers[c].age) >= breakers[c].age
    BY <1>1, ElapseFact
  <2> QED BY <1>1, <2>1 DEF Status
<1>3. \A r \in Callers :
        /\ call'[r] \in Call
        /\ call'[r].channel = call[r].channel
        /\ call'[r].probe = call[r].probe
  BY ElapseFact DEF Tick, IInv, TypeOK, Call
<1>4. \A c \in Channels : quiet'[c] = Elapse(quiet[c]) /\ quiet'[c] \in 0 .. AgeCap /\ quiet'[c] >= quiet[c]
  BY ElapseFact DEF Tick, IInv, TypeOK
<1>5. TypeOK'
  BY <1>2, <1>3, <1>4 DEF Tick, IInv, TypeOK
<1>6. ClosedCountsTheStreak' /\ SlotTaken'
  <2>1. ClosedCountsTheStreak'
    BY <1>2 DEF Tick, IInv, ClosedCountsTheStreak
  <2>2. SlotTaken'
    BY <1>2, <1>3 DEF IInv, SlotTaken
  <2> QED BY <2>1, <2>2
<1>7. SoleProbe'
  <2>1. \A c \in Channels : AbandonedTooLong(breakers[c]) => AbandonedTooLong(breakers'[c])
    <3> TAKE c \in Channels
    <3>1. /\ breakers[c].age \in 0 .. AgeCap
          /\ breakers'[c].age \in 0 .. AgeCap
          /\ breakers'[c].age >= breakers[c].age
      BY <1>2
    <3> QED BY <3>1 DEF AbandonedTooLong, AgeCap
  <2> QED BY <2>1, <1>2, <1>3 DEF IInv, SoleProbe, Probes
<1>8. ClocksAgree'
  BY <1>1, <1>2, <1>4 DEF IInv, TypeOK, ClocksAgree, AgeCap
<1> QED BY <1>5, <1>6, <1>7, <1>8 DEF IInv

\* Every step keeps the inductive invariant.
THEOREM StepInvariant == IInv /\ [Next]_vars => IInv'
<1> SUFFICES ASSUME IInv, [Next]_vars
             PROVE  IInv'
  OBVIOUS
<1>1. CASE \E r \in Callers, c \in Channels :
               Admit(r, c) \/ Succeed(r, c) \/ Fail(r, c) \/ Abandon(r, c)
  BY <1>1, AdmitPreserves, SucceedPreserves, FailPreserves, AbandonPreserves
<1>2. CASE Tick
  BY <1>2, TickPreserves
<1>3. CASE UNCHANGED vars
  BY <1>3 DEF vars, IInv, TypeOK, ClosedCountsTheStreak, SlotTaken, SoleProbe, Probes,
              ClocksAgree
<1> QED BY <1>1, <1>2, <1>3 DEF Next

\* The inductive invariant holds throughout.
LEMMA Invariance == Spec => []IInv
BY InitInvariant, StepInvariant, PTL DEF Spec

-----------------------------------------------------------------------------
(* The results. *)

\* Every reachable state is well-typed: in particular the failure count never
\* passes the threshold and the canary count never passes its limit.
THEOREM TypeCorrect == Spec => []TypeOK
<1>1. IInv => TypeOK
  BY DEF IInv
<1> QED BY <1>1, Invariance, PTL

\* A closed breaker's count is the streak of reported failures, below the
\* threshold (closedState.RecordFailure).
THEOREM StreakCounted == Spec => []ClosedCountsTheStreak
<1>1. IInv => ClosedCountsTheStreak
  BY DEF IInv
<1> QED BY <1>1, Invariance, PTL

\* At most one probe in the first two cooldowns of a half-open period
\* (halfOpenState.CanExecute).
THEOREM SoleProbeHolds == Spec => []SoleProbe
<1>1. IInv => SoleProbe
  BY DEF IInv
<1> QED BY <1>1, Invariance, PTL

-----------------------------------------------------------------------------
(* The breaker implements the gate. *)

\* The fresh breakers are an initial state of the gate.
LEMMA InitRefines == Init => Gate!Init
BY DEF Init, Gate!Init, NoCall

\* Every step of the breaker is a step of the gate, or none.
LEMMA StepRefines ==
    ASSUME IInv, [Next]_vars
    PROVE  [Gate!Next]_(Gate!vars)
<1> USE DEF Gate!vars
<1>1. ASSUME NEW r \in Callers, NEW c \in Channels, Admit(r, c)
      PROVE  Gate!Admit(r, c)
  <2>1. ~Gate!Banned(c)
    BY <1>1 DEF Admit, Admits, IInv, TypeOK, ClosedCountsTheStreak, ClocksAgree, Gate!Banned,
                CLOSED, OPEN, HALF_OPEN
  <2>2. [q \in Callers |-> call[q].channel][r] = NoChannel
    BY <1>1 DEF Admit, NoCall
  <2>3. [q \in Callers |-> call'[q].channel]
          = [[q \in Callers |-> call[q].channel] EXCEPT ![r] = c]
    BY <1>1 DEF Admit, IInv, TypeOK
  <2> QED BY <1>1, <2>1, <2>2, <2>3 DEF Gate!Admit, Admit
<1>2. ASSUME NEW r \in Callers, NEW c \in Channels, NEW next, Return(r, c, next)
      PROVE  /\ [q \in Callers |-> call[q].channel][r] = c
             /\ [q \in Callers |-> call'[q].channel]
                  = [[q \in Callers |-> call[q].channel] EXCEPT ![r] = NoChannel]
  BY <1>2 DEF Return, NoCall, Demoted, IInv, TypeOK, Call
<1>3. ASSUME NEW r \in Callers, NEW c \in Channels, Succeed(r, c)
      PROVE  Gate!Succeed(r, c)
  BY <1>2, <1>3 DEF Succeed, Gate!Succeed
<1>4. ASSUME NEW r \in Callers, NEW c \in Channels, Fail(r, c)
      PROVE  Gate!Fail(r, c)
  BY <1>2, <1>4 DEF Fail, Gate!Fail
<1>5. ASSUME NEW r \in Callers, NEW c \in Channels, Abandon(r, c)
      PROVE  Gate!Abandon(r, c)
  BY <1>5 DEF Abandon, Gate!Abandon, NoCall, IInv, TypeOK
<1>6. ASSUME Tick
      PROVE  Gate!Tick
  <2>1. [q \in Callers |-> call'[q].channel] = [q \in Callers |-> call[q].channel]
    BY <1>6 DEF Tick, IInv, TypeOK, Call
  <2> QED BY <1>6, <2>1 DEF Tick, Gate!Tick, Elapse
<1>7. CASE UNCHANGED vars
  BY <1>7 DEF vars
<1> QED BY <1>1, <1>3, <1>4, <1>5, <1>6, <1>7 DEF Next, Gate!Next

\* For every threshold and cooldown, a streak of FailureThreshold reported
\* failures keeps all requests off the channel for Cooldown.
THEOREM ImplementsGateHolds == Spec => ImplementsGate
<1>1. Init => Gate!Init
  BY InitRefines
<1>2. IInv /\ [Next]_vars => [Gate!Next]_(Gate!vars)
  BY StepRefines
<1> QED BY <1>1, <1>2, Invariance, PTL DEF Spec, ImplementsGate, Gate!Spec
=============================================================================
