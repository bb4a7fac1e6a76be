------------------------------- MODULE Breaker -------------------------------
(***************************************************************************)
(* The circuit breaker and the timeout around every acquirer call          *)
(* (internal/acquirer/breaker.go, guarded.go), used by all API requests of *)
(* a process at once.  The mutex makes Allow, Success, Failure and State   *)
(* atomic; the call to the acquirer happens between Allow and the verdict. *)
(*                                                                         *)
(* Time is a number of ticks.  What the code compares with a clock are     *)
(* durations, so the model keeps how long ago the breaker opened and how   *)
(* old each call is.                                                       *)
(***************************************************************************)
EXTENDS Integers, FiniteSets

CONSTANTS
  Callers,    \* requests that use the breaker at the same time
  Threshold,  \* consecutive failures that open it
  Cooldown,   \* ticks it stays open
  Timeout     \* ticks after which Guarded gives a call up

\* The defaults are 5 failures, a 3s timeout and a 30s cooldown.
ASSUME BreakerAssumption ==
  /\ Threshold \in Nat \ {0}
  /\ Cooldown \in Nat
  /\ Timeout \in Nat \ {0}
  /\ Timeout < Cooldown

VARIABLES
  state,      \* closed, open or half_open
  failures,   \* consecutive failures
  sinceOpen,  \* ticks since openedAt, up to Cooldown
  probe,      \* probeInFlgt
  call,       \* the calls through Guarded.do
  up          \* whether the processor answers (external)

breakerVars == <<state, failures, sinceOpen, probe>>
vars == <<breakerVars, call, up>>

Calls == [pc : {"idle", "calling", "returned"}, age : 0..Timeout]

Calling == {c \in Callers : call[c].pc = "calling"}

Init ==
  /\ state = "closed"
  /\ failures = 0
  /\ sinceOpen = 0
  /\ probe = FALSE
  /\ call = [c \in Callers |-> [pc |-> "idle", age |-> 0]]
  /\ up = TRUE

-----------------------------------------------------------------------------
(* The breaker.                                                            *)

CooledDown == state = "open" /\ sinceOpen >= Cooldown

\* What refreshLocked makes of state and probe.
RefreshedState == IF CooledDown THEN "half_open" ELSE state
RefreshedProbe == probe /\ ~CooledDown

\* Mutant: the half-open probe is not reserved.
AllowWithoutReserving(c) ==
  /\ RefreshedState # "open"
  /\ state' = RefreshedState
  /\ probe' = RefreshedProbe
  /\ call' = [call EXCEPT ![c] = [pc |-> "calling", age |-> 0]]

\* Mutant: an open breaker lets calls through.
AllowWhileOpen(c) ==
  /\ state' = RefreshedState
  /\ probe' = (RefreshedState = "half_open" \/ RefreshedProbe)
  /\ call' = [call EXCEPT ![c] = [pc |-> "calling", age |-> 0]]

\* Allow returns nil: the call goes to the processor.
Allow(c) ==
  /\ \/ RefreshedState = "closed"
     \/ RefreshedState = "half_open" /\ ~RefreshedProbe
  /\ state' = RefreshedState
  /\ probe' = (RefreshedState = "half_open" \/ RefreshedProbe)
  /\ call' = [call EXCEPT ![c] = [pc |-> "calling", age |-> 0]]

\* Allow returns ErrCircuitOpen: the request fails fast.
Reject(c) ==
  /\ \/ RefreshedState = "open"
     \/ RefreshedState = "half_open" /\ RefreshedProbe
  /\ state' = RefreshedState
  /\ probe' = RefreshedProbe
  /\ UNCHANGED call

\* Mutant: a success resets the count but not the state.
SuccessInPlace ==
  /\ failures' = 0
  /\ probe' = FALSE
  /\ UNCHANGED <<state, sinceOpen>>

Success ==
  /\ failures' = 0
  /\ probe' = FALSE
  /\ state' = "closed"
  /\ UNCHANGED sinceOpen

\* Mutant: one failure too many is tolerated.
FailureOffByOne ==
  /\ probe' = FALSE
  /\ failures' = failures + 1
  /\ IF state = "half_open" \/ failures' > Threshold
     THEN state' = "open" /\ sinceOpen' = 0
     ELSE UNCHANGED <<state, sinceOpen>>

\* Mutant: the count of failures never opens the breaker.
FailureOnlyOfProbe ==
  /\ probe' = FALSE
  /\ failures' = IF failures < Threshold THEN failures + 1 ELSE failures
  /\ IF state = "half_open"
     THEN state' = "open" /\ sinceOpen' = 0
     ELSE UNCHANGED <<state, sinceOpen>>

\* failures counts on past the threshold while the breaker is open; nothing
\* looks at it before the next Success resets it, so the model stops there.
Failure ==
  /\ probe' = FALSE
  /\ failures' = IF failures < Threshold THEN failures + 1 ELSE failures
  /\ IF state = "half_open" \/ failures' >= Threshold
     THEN state' = "open" /\ sinceOpen' = 0
     ELSE UNCHANGED <<state, sinceOpen>>

\* State() refreshes too.  Only the debug line after a call asks for it: /readyz,
\* which Guarded.State was written for, looks at Postgres and Redis alone.
State ==
  /\ state' = RefreshedState
  /\ probe' = RefreshedProbe
  /\ UNCHANGED <<failures, sinceOpen>>

-----------------------------------------------------------------------------
(* Guarded.do.                                                             *)

Begin(c) ==
  /\ call[c].pc = "idle"
  /\ Allow(c) \/ Reject(c)
  /\ UNCHANGED <<failures, sinceOpen, up>>

Return(c) ==
  /\ call[c].pc = "calling"
  /\ call' = [call EXCEPT ![c] = [pc |-> "returned", age |-> 0]]
  /\ UNCHANGED up

\* Approved or declined.
Healthy(c) ==
  /\ up
  /\ Return(c)
  /\ Success

\* The card does not validate and the processor is not asked: the breaker takes
\* that for an answer too, in an outage as well and any number of times.
Invalid(c) ==
  /\ Return(c)
  /\ Success

\* No answer before the timeout, or no connection at all.
Unavailable(c) ==
  /\ ~up
  /\ Return(c)
  /\ Failure

\* The client hangs up and cancels the request's context while the call is under
\* way: the breaker takes that for a failure, also of a healthy processor.
Cancelled(c) ==
  /\ Return(c)
  /\ Failure

Log(c) ==
  /\ call[c].pc = "returned"
  /\ call' = [call EXCEPT ![c].pc = "idle"]
  /\ State
  /\ UNCHANGED up

-----------------------------------------------------------------------------
(* The processor (external) and the clock.                                 *)

GoDown ==
  /\ up
  /\ up' = FALSE
  /\ UNCHANGED <<breakerVars, call>>

ComeUp ==
  /\ ~up
  /\ up' = TRUE
  /\ UNCHANGED <<breakerVars, call>>

\* Mutant: calls have no timeout.
TickWithoutTimeout ==
  /\ sinceOpen' = IF sinceOpen < Cooldown THEN sinceOpen + 1 ELSE sinceOpen
  /\ call' = [c \in Callers |-> IF c \in Calling
                                THEN [call[c] EXCEPT !.age = @ + 1] ELSE call[c]]
  /\ UNCHANGED <<state, failures, probe, up>>

\* No call outlives its timeout.
Tick ==
  /\ \A c \in Calling : call[c].age < Timeout
  /\ sinceOpen' = IF sinceOpen < Cooldown THEN sinceOpen + 1 ELSE sinceOpen
  /\ call' = [c \in Callers |-> IF c \in Calling
                                THEN [call[c] EXCEPT !.age = @ + 1] ELSE call[c]]
  /\ UNCHANGED <<state, failures, probe, up>>

Finish(c) == Healthy(c) \/ Unavailable(c)

Next ==
  \/ \E c \in Callers : Begin(c) \/ Finish(c) \/ Invalid(c) \/ Cancelled(c) \/ Log(c)
  \/ GoDown
  \/ ComeUp
  \/ Tick

Spec == Init /\ [][Next]_vars

\* Time passes, calls that the timeout bounds return, and merchants keep
\* sending requests.
Fairness ==
  /\ WF_vars(Tick)
  /\ WF_vars(\E c \in Callers : Begin(c))
  /\ \A c \in Callers : WF_vars(Finish(c)) /\ WF_vars(Log(c))

FairSpec == Spec /\ Fairness

-----------------------------------------------------------------------------
(* What must hold.                                                         *)

TypeOK ==
  /\ state \in {"closed", "open", "half_open"}
  /\ failures \in 0..Threshold
  /\ sinceOpen \in 0..Cooldown
  /\ probe \in BOOLEAN
  /\ call \in [Callers -> Calls]
  /\ up \in BOOLEAN

\* "In half_open state exactly one probe call is allowed through": the breaker
\* is half-open with nothing in flight and the probe free, or with one call in
\* flight that holds it.  No call from before the breaker opened is left.
OneProbe ==
  state = "half_open" => Cardinality(Calling) = IF probe THEN 1 ELSE 0

\* An outage does not become a queue of hanging requests: once the breaker has
\* been open for longer than the timeout no call to the processor is pending.
OutageDrains ==
  state = "open" /\ sinceOpen > Timeout => Calling = {}

\* A breaker that lets traffic through has not seen Threshold failures in a row.
ClosedBelowThreshold ==
  state = "closed" => failures < Threshold

\* From some point on no client hangs up, and from some point on no card is
\* refused without asking the processor.
NoMoreCancelled == <>[][\A c \in Callers : ~Cancelled(c)]_vars
NoMoreInvalid == <>[][\A c \in Callers : ~Invalid(c)]_vars

\* If the processor stays up, the breaker does not stay away: the probe slot is
\* never leaked and the breaker closes again and again, unless clients go on for
\* ever hanging up on its probes, which the code counts as failures.
Recovers == <>[]up /\ NoMoreCancelled => []<>(state = "closed")

\* If the processor stays down, the breaker eventually stays open or half-open
\* and requests fail fast, unless invalid cards keep coming: each of them resets
\* the count of failures, and as a probe it closes the breaker.
Sheds == <>[](~up) /\ NoMoreInvalid => <>[](state # "closed")

=============================================================================
