---------------------------- MODULE BreakerProofs ----------------------------
(***************************************************************************)
(* Proofs about the circuit breaker, for any number of callers, any        *)
(* threshold and any cooldown longer than the timeout.                     *)
(***************************************************************************)
EXTENDS Breaker, FiniteSetTheorems, TLAPS

\* What is left in flight while the breaker is open was admitted before it
\* opened, and so is at least as old as the opening.
Stragglers ==
  state = "open" => \A c \in Calling : call[c].age >= sinceOpen

\* The calls in flight while it is half-open: the one that holds the probe.
ProbeHolder ==
  state = "half_open" =>
    IF probe THEN \E c \in Callers : Calling = {c} ELSE Calling = {}

\* The inductive invariant.
IInv ==
  /\ TypeOK
  /\ Stragglers
  /\ ProbeHolder
  /\ ClosedBelowThreshold

-----------------------------------------------------------------------------
(* The steps.                                                              *)

\* Once the cooldown is over nothing is in flight: Timeout < Cooldown.
LEMMA CooledDownIsIdle ==
  ASSUME IInv, CooledDown
  PROVE  Calling = {}
  BY BreakerAssumption DEF IInv, TypeOK, Stragglers, CooledDown, Calling, Calls

\* refreshLocked keeps what the invariant says of an open and of a half-open
\* breaker: it turns the one into the other only when nothing is in flight.
LEMMA Refresh ==
  ASSUME IInv
  PROVE  /\ RefreshedState \in {"closed", "open", "half_open"}
         /\ RefreshedProbe \in BOOLEAN
         /\ RefreshedState = "open" => \A c \in Calling : call[c].age >= sinceOpen
         /\ RefreshedState = "half_open" =>
              IF RefreshedProbe THEN \E c \in Callers : Calling = {c} ELSE Calling = {}
         /\ RefreshedState = "closed" => state = "closed"
  <1>1. CASE CooledDown
    BY <1>1, CooledDownIsIdle DEF RefreshedState, RefreshedProbe
  <1>2. CASE ~CooledDown
    BY <1>2 DEF RefreshedState, RefreshedProbe, IInv, TypeOK, Stragglers, ProbeHolder
  <1>3. QED BY <1>1, <1>2

\* Allow rejects, lets a call through, or makes it the one probe.
LEMMA BeginKeeps ==
  ASSUME IInv, NEW c \in Callers, Begin(c)
  PROVE  IInv'
  <1> USE DEF Begin
  <1>1. CASE Allow(c)
    <2>1. TypeOK'
      <3>1. call' \in [Callers -> Calls]
        BY <1>1, BreakerAssumption DEF Allow, IInv, TypeOK, Calls
      <3>2. state' \in {"closed", "open", "half_open"} /\ probe' \in BOOLEAN
        BY <1>1, Refresh DEF Allow
      <3>3. QED BY <3>1, <3>2 DEF IInv, TypeOK
    <2>2. Calling' = Calling \cup {c}
      BY <1>1 DEF Allow, Calling, IInv, TypeOK
    <2>3. Stragglers'
      BY <1>1 DEF Allow, Stragglers
    <2>4. ProbeHolder'
      BY <1>1, <2>2, Refresh DEF Allow, ProbeHolder
    <2>5. ClosedBelowThreshold'
      BY <1>1, Refresh DEF Allow, ClosedBelowThreshold, IInv
    <2>6. QED BY <2>1, <2>3, <2>4, <2>5 DEF IInv
  <1>2. CASE Reject(c)
    <2>1. TypeOK'
      BY <1>2, Refresh DEF Reject, IInv, TypeOK
    <2>2. Calling' = Calling
      BY <1>2 DEF Reject, Calling
    <2>3. Stragglers'
      BY <1>2, <2>2, Refresh DEF Reject, Stragglers
    <2>4. ProbeHolder'
      BY <1>2, <2>2, Refresh DEF Reject, ProbeHolder
    <2>5. ClosedBelowThreshold'
      BY <1>2, Refresh DEF Reject, ClosedBelowThreshold, IInv
    <2>6. QED BY <2>1, <2>3, <2>4, <2>5 DEF IInv
  <1>3. QED BY <1>1, <1>2

\* A verdict that closes the breaker.
LEMMA SuccessKeeps ==
  ASSUME IInv, NEW c \in Callers, Return(c), Success
  PROVE  IInv'
  <1>1. TypeOK'
    <2>1. call' \in [Callers -> Calls]
      BY BreakerAssumption DEF Return, IInv, TypeOK, Calls
    <2>2. failures' \in 0..Threshold
      BY BreakerAssumption DEF Success
    <2>3. QED BY <2>1, <2>2 DEF Return, Success, IInv, TypeOK
  <1>2. Stragglers' /\ ProbeHolder' /\ ClosedBelowThreshold'
    BY BreakerAssumption DEF Success, Stragglers, ProbeHolder, ClosedBelowThreshold
  <1>3. QED BY <1>1, <1>2 DEF IInv

\* A verdict that counts against the processor.  It opens a half-open breaker,
\* so the probe's failure never leaves the breaker half-open.
LEMMA FailureKeeps ==
  ASSUME IInv, NEW c \in Callers, Return(c), Failure
  PROVE  IInv'
  <1>1. TypeOK'
    <2>1. call' \in [Callers -> Calls]
      BY BreakerAssumption DEF Return, IInv, TypeOK, Calls
    <2>2. failures' \in 0..Threshold /\ sinceOpen' \in 0..Cooldown
      BY BreakerAssumption DEF Failure, IInv, TypeOK
    <2>3. state' \in {"closed", "open", "half_open"} /\ probe' \in BOOLEAN
      BY DEF Failure, IInv, TypeOK
    <2>4. QED BY <2>1, <2>2, <2>3 DEF Return, IInv, TypeOK
  <1>2. Calling' = Calling \ {c}
    BY DEF Return, Calling, IInv, TypeOK
  <1>3. \A d \in Calling' : call'[d] = call[d]
    BY <1>2 DEF Return, Calling, IInv, TypeOK
  <1>4. Stragglers'
    <2>1. CASE state = "half_open" \/ failures' >= Threshold
      BY <2>1, <1>1 DEF Failure, Stragglers, Calling, TypeOK, Calls
    <2>2. CASE ~(state = "half_open" \/ failures' >= Threshold)
      BY <2>2, <1>2, <1>3 DEF Failure, Stragglers, IInv
    <2>3. QED BY <2>1, <2>2
  <1>5. ProbeHolder'
    BY DEF Failure, ProbeHolder, IInv, TypeOK
  <1>6. ClosedBelowThreshold'
    BY <1>1, BreakerAssumption DEF Failure, ClosedBelowThreshold, TypeOK
  <1>7. QED BY <1>1, <1>4, <1>5, <1>6 DEF IInv

\* The debug line's State call may move the breaker from open to half-open.
LEMMA LogKeeps ==
  ASSUME IInv, NEW c \in Callers, Log(c)
  PROVE  IInv'
  <1> USE DEF Log, State
  <1>1. TypeOK'
    BY Refresh DEF IInv, TypeOK, Calls
  <1>2. Calling' = Calling /\ \A d \in Calling : call'[d] = call[d]
    BY DEF Calling, IInv, TypeOK
  <1>3. Stragglers'
    BY <1>2, Refresh DEF Stragglers
  <1>4. ProbeHolder'
    BY <1>2, Refresh DEF ProbeHolder
  <1>5. ClosedBelowThreshold'
    BY Refresh DEF ClosedBelowThreshold, IInv
  <1>6. QED BY <1>1, <1>3, <1>4, <1>5 DEF IInv

\* Time passes for the calls in flight and for the open breaker together.
LEMMA TickKeeps ==
  ASSUME IInv, Tick
  PROVE  IInv'
  <1>1. Calling' = Calling
    BY DEF Tick, Calling, IInv, TypeOK, Calls
  <1>2. \A c \in Calling : call'[c].age = call[c].age + 1
    BY DEF Tick, Calling, IInv, TypeOK, Calls
  <1>3. TypeOK'
    <2>1. ASSUME NEW c \in Callers
          PROVE  call'[c] \in Calls
      BY BreakerAssumption DEF Tick, Calling, IInv, TypeOK, Calls
    <2>2. call' \in [Callers -> Calls]
      BY <2>1 DEF Tick
    <2>3. QED BY <2>2, BreakerAssumption DEF Tick, IInv, TypeOK
  <1>4. Stragglers'
    BY <1>1, <1>2, BreakerAssumption DEF Tick, IInv, TypeOK, Stragglers, Calling, Calls
  <1>5. ProbeHolder'
    BY <1>1 DEF Tick, IInv, ProbeHolder
  <1>6. ClosedBelowThreshold'
    BY DEF Tick, IInv, ClosedBelowThreshold
  <1>7. QED BY <1>3, <1>4, <1>5, <1>6 DEF IInv

\* The processor goes away or comes back, and stuttering.
LEMMA OutsideKeeps ==
  ASSUME IInv, UNCHANGED <<breakerVars, call>>, up' \in BOOLEAN
  PROVE  IInv'
  BY DEF breakerVars, IInv, TypeOK, Stragglers, ProbeHolder, ClosedBelowThreshold, Calling

\* Every step keeps the invariant.
LEMMA NextKeeps ==
  ASSUME IInv, [Next]_vars
  PROVE  IInv'
  <1> USE DEF IInv, TypeOK
  <1>1. ASSUME NEW c \in Callers, Begin(c) PROVE IInv'
    BY <1>1, BeginKeeps
  <1>2. ASSUME NEW c \in Callers, Healthy(c) PROVE IInv'
    BY <1>2, SuccessKeeps DEF Healthy
  <1>3. ASSUME NEW c \in Callers, Unavailable(c) PROVE IInv'
    BY <1>3, FailureKeeps DEF Unavailable
  <1>4. ASSUME NEW c \in Callers, Invalid(c) PROVE IInv'
    BY <1>4, SuccessKeeps DEF Invalid
  <1>5. ASSUME NEW c \in Callers, Cancelled(c) PROVE IInv'
    BY <1>5, FailureKeeps DEF Cancelled
  <1>6. ASSUME NEW c \in Callers, Log(c) PROVE IInv'
    BY <1>6, LogKeeps
  <1>7. ASSUME GoDown \/ ComeUp \/ UNCHANGED vars PROVE IInv'
    BY <1>7, OutsideKeeps DEF GoDown, ComeUp, vars
  <1>8. CASE Tick
    BY <1>8, TickKeeps
  <1>9. QED BY <1>1, <1>2, <1>3, <1>4, <1>5, <1>6, <1>7, <1>8 DEF Next, Finish

-----------------------------------------------------------------------------
(* The theorems.                                                           *)

\* The inductive invariant holds of every reachable state of the breaker.
THEOREM Invariance == Spec => []IInv
  <1>1. Init => IInv
    <2> SUFFICES ASSUME Init PROVE IInv
      OBVIOUS
    <2>1. call \in [Callers -> Calls] /\ Calling = {}
      BY BreakerAssumption DEF Init, Calls, Calling
    <2>2. failures \in 0..Threshold /\ sinceOpen \in 0..Cooldown
      BY BreakerAssumption DEF Init
    <2>3. TypeOK
      BY <2>1, <2>2 DEF Init, TypeOK
    <2>4. Stragglers /\ ProbeHolder /\ ClosedBelowThreshold
      BY BreakerAssumption DEF Init, Stragglers, ProbeHolder, ClosedBelowThreshold
    <2>5. QED BY <2>3, <2>4 DEF IInv
  <1>2. IInv /\ [Next]_vars => IInv'
    BY NextKeeps
  <1>3. QED BY <1>1, <1>2, PTL DEF Spec

\* Every variable of the breaker keeps its type, the failure count and the ages
\* of the calls within their bounds.
THEOREM TypeCorrect == Spec => []TypeOK
  <1>1. IInv => TypeOK
    BY DEF IInv
  <1>2. QED BY <1>1, Invariance, PTL

\* A half-open breaker lets exactly one probe through, and nothing from before
\* it opened is still in flight.
THEOREM SingleProbe == Spec => []OneProbe
  <1>1. IInv => OneProbe
    <2> SUFFICES ASSUME IInv, state = "half_open"
                 PROVE  Cardinality(Calling) = IF probe THEN 1 ELSE 0
      BY DEF OneProbe
    <2>1. CASE probe
      <3>1. PICK c \in Callers : Calling = {c}
        BY <2>1 DEF IInv, ProbeHolder
      <3>2. QED BY <2>1, <3>1, FS_Singleton
    <2>2. CASE ~probe
      BY <2>2, FS_EmptySet DEF IInv, ProbeHolder
    <2>3. QED BY <2>1, <2>2
  <1>2. QED BY <1>1, Invariance, PTL

\* Once the breaker has been open for longer than the timeout no call to the
\* processor is pending.
THEOREM Drained == Spec => []OutageDrains
  <1>1. IInv => OutageDrains
    BY BreakerAssumption DEF IInv, TypeOK, Stragglers, OutageDrains, Calling, Calls
  <1>2. QED BY <1>1, Invariance, PTL

\* A closed breaker has counted fewer than Threshold failures in a row.
THEOREM BelowThreshold == Spec => []ClosedBelowThreshold
  <1>1. IInv => ClosedBelowThreshold
    BY DEF IInv
  <1>2. QED BY <1>1, Invariance, PTL

=============================================================================
