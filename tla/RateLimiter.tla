---------------------------- MODULE RateLimiter ----------------------------
(***************************************************************************)
(* The fixed-window limiter (internal/ratelimit/limiter.go) for one        *)
(* merchant: a Redis counter for each window, with a TTL of one window     *)
(* from the last request that was counted.                                 *)
(*                                                                         *)
(* Allow reads the clock, names the window's key, and only then sends INCR *)
(* and EXPIRE in one MULTI, so the window may be over, and the counter     *)
(* gone, when the request is counted.                                      *)
(***************************************************************************)
EXTENDS Integers, FiniteSets, FiniteSetsExt

CONSTANTS
  Window,   \* the window, in ticks
  Limit,    \* requests per window (RATE_LIMIT_RPM)
  Second,   \* ticks of a second: Retry-After is in whole seconds
  MaxTime   \* bound: the last tick of the clock

\* New replaces a limit below 1 and a window that is not positive.
ASSUME RateLimiterAssumption ==
  /\ Window \in Nat \ {0}
  /\ Limit \in Nat \ {0}
  /\ Second \in Nat \ {0}
  /\ MaxTime \in Nat

VARIABLES
  now,      \* the clock
  counter,  \* the Redis counters by window
  passed    \* requests let through 0, 1, ... ticks ago (history)

limiterVars == <<now, counter, passed>>

Bucket(t) == t \div Window

WindowEnd(b) == (b + 1) * Window

Buckets == 0..Bucket(MaxTime)

\* The count stops at the first value that is refused: no larger one differs.
Counters == [count : 0..(Limit + 1), expires : 0..(MaxTime + Window)]

\* A request that passes is counted in the window it names, or after it.
Kinds == {"fresh", "late"}

Passed == [Kinds -> Nat]

LimiterInit ==
  /\ now = 0
  /\ counter = [b \in Buckets |-> [count |-> 0, expires |-> 0]]
  /\ passed = [age \in 0..(Window - 1) |-> [kind \in Kinds |-> 0]]

\* What INCR answers for the key of window b: an expired key starts again.
Incr(b) ==
  LET old == IF counter[b].expires > now THEN counter[b].count ELSE 0
  IN  Min({old + 1, Limit + 1})

\* Mutant: EXPIRE counts from the start of the window.
ExecAnchored(b) ==
  counter' = [counter EXCEPT ![b] = [count |-> Incr(b), expires |-> b * Window + 1]]

\* INCR and EXPIRE in one transaction.
Exec(b) ==
  counter' = [counter EXCEPT ![b] = [count |-> Incr(b), expires |-> now + Window]]

Allowed(b) == Incr(b) <= Limit

\* The request goes through, in its own window or after it.
LetThrough(b) ==
  LET kind == IF Bucket(now) = b THEN "fresh" ELSE "late"
  IN  passed' = [passed EXCEPT ![0][kind] = @ + 1]

\* Mutant: the remaining time is rounded down to nothing.
RetryAfterTruncated(b, t) == (WindowEnd(b) - t) \div Second

\* Retry-After: whole seconds to the end of the window, at least one.
RetryAfter(b, t) == Max({1, (WindowEnd(b) - t) \div Second})

LimiterTick ==
  /\ now < MaxTime
  /\ now' = now + 1
  /\ passed' = [age \in DOMAIN passed |->
                  IF age = 0 THEN [kind \in Kinds |-> 0] ELSE passed[age - 1]]
  /\ UNCHANGED counter

LimiterTypeOK ==
  /\ now \in 0..MaxTime
  /\ counter \in [Buckets -> Counters]
  /\ passed \in [0..(Window - 1) -> Passed]

-----------------------------------------------------------------------------

\* The requests let through less than a window ago, of the given kinds.
LetThroughRecently(kinds) ==
  UNION {UNION {[age : {a}, kind : {k}, nth : 1..passed[a][k]] : k \in kinds}
         : a \in DOMAIN passed}

\* "A fixed window can let through up to 2x the limit across a window boundary
\* ... the burst is bounded": in any span as long as a window at most twice the
\* limit passes of the requests counted in time, and at most three times the
\* limit with those that were delayed past the end of the window they named.
BurstBounded ==
  /\ Cardinality(LetThroughRecently({"fresh"})) <= 2 * Limit
  /\ Cardinality(LetThroughRecently(Kinds)) <= 3 * Limit

\* A client refused at any time that waits as long as Retry-After says, and does
\* so again if it is refused once more, is in a new window: rounding down costs
\* one extra refusal.
PoliteRetry ==
  LET again(u) == u + Second * RetryAfter(Bucket(u), u)
  IN  Bucket(again(again(now))) > Bucket(now)

=============================================================================
