----------------------------- MODULE EdgeProofs -----------------------------
(***************************************************************************)
(* Proofs about the middleware chain, for any number of messages, copies   *)
(* and requests and for every clock skew, timeout and TTL that             *)
(* EdgeAssumption allows.                                                  *)
(*                                                                         *)
(* The argument: every copy of a message that is in the chain was let in   *)
(* within ClockSkew of its timestamp and is gone RequestTimeout later.     *)
(* The key is set after the copy it is set for arrived, and outlives by    *)
(* KeyTTL: longer than any other copy can be in the chain.                 *)
(***************************************************************************)
EXTENDS Edge, TLAPS, FiniteSetTheorems, FunctionTheorems

InChain(d) == req[d].pc # "idle"
Handling(d, m) == req[d].pc = "handler" /\ req[d].msg = m

\* A copy in the chain passed Auth and has not timed out.
Admitted(d) ==
  LET m == req[d].msg
  IN  /\ signed[m] # Unsigned
      /\ req[d].since - ClockSkew <= signed[m]
      /\ signed[m] <= req[d].since + ClockSkew
      /\ req[d].since <= now
      /\ now <= req[d].since + RequestTimeout

AllAdmitted == \A d \in Deliveries : InChain(d) => Admitted(d)

\* The handler's key was set after its request arrived.
KeyHeld ==
  \A d \in Deliveries, m \in Messages : Handling(d, m) =>
    key[m].held = TRUE /\ key[m].expires >= req[d].since + KeyTTL

OneHandler ==
  \A d, e \in Deliveries, m \in Messages : Handling(d, m) /\ Handling(e, m) => d = e

\* The key of an answered message outlives every copy of it.
Closed(m) ==
  /\ signed[m] # Unsigned
  /\ key[m].held = TRUE
  /\ key[m].expires > signed[m] + ClockSkew + RequestTimeout
  /\ \A d \in Deliveries : ~Handling(d, m)

AnsweredIsClosed ==
  \A m \in Messages : finals[m] <= 1 /\ (finals[m] = 1 => Closed(m))

\* The inductive invariant.
IInv == TypeOK /\ AllAdmitted /\ KeyHeld /\ OneHandler /\ AnsweredIsClosed

-----------------------------------------------------------------------------
(* Windows and whole seconds.                                              *)

LEMMA Division ==
  ASSUME NEW a \in Int, NEW b \in Nat \ {0}
  PROVE  /\ a \div b \in Int
         /\ b * (a \div b) <= a
         /\ a < b * (a \div b) + b
  OBVIOUS

\* Products with a positive factor keep their order.
LEMMA Product ==
  ASSUME NEW x \in Int, NEW y \in Int, NEW b \in Nat \ {0}, x + 1 <= y
  PROVE  b * x + b <= b * y
  <1>1. PICK k \in Nat : y = x + 1 + k
    <2>1. y - x - 1 \in Nat /\ y = x + 1 + (y - x - 1)
      OBVIOUS
    <2>2. QED BY <2>1
  <1>2. b * y = b * x + b + b * k
    BY <1>1
  <1>3. b * k >= 0 /\ b * k \in Int /\ b * x \in Int
    OBVIOUS
  <1>4. QED BY <1>2, <1>3

\* A later time is in the same window or a later one.
LEMMA BucketMonotone ==
  ASSUME NEW t \in Int, NEW u \in Int, t <= u
  PROVE  Bucket(t) \in Int /\ Bucket(u) \in Int /\ Bucket(t) <= Bucket(u)
  <1>1. Window \in Nat \ {0}
    BY RateLimiterAssumption
  <1> DEFINE x == Bucket(t)
             y == Bucket(u)
  <1>2. /\ x \in Int /\ Window * x <= t /\ t < Window * x + Window
        /\ y \in Int /\ Window * y <= u /\ u < Window * y + Window
    BY <1>1, Division DEF Bucket
  <1> HIDE DEF x, y
  <1>3. ASSUME y < x PROVE FALSE
    <2>1. Window * y + Window <= Window * x
      BY <1>1, <1>2, <1>3, Product
    <2>2. Window * x \in Int /\ Window * y \in Int
      BY <1>1, <1>2
    <2>3. QED BY <1>1, <1>2, <2>1, <2>2
  <1>4. QED BY <1>2, <1>3 DEF x, y

\* Every time of a behaviour has its window.
LEMMA BucketRange ==
  ASSUME NEW t \in 0..MaxTime
  PROVE  Bucket(t) \in Buckets
  <1>1. MaxTime \in Nat /\ t \in Int /\ 0 <= t /\ t <= MaxTime
    BY RateLimiterAssumption
  <1>2. Bucket(0) = 0
    BY RateLimiterAssumption DEF Bucket
  <1>3. /\ Bucket(0) <= Bucket(t) /\ Bucket(t) <= Bucket(MaxTime)
        /\ Bucket(t) \in Int /\ Bucket(MaxTime) \in Int
    BY <1>1, BucketMonotone
  <1>4. QED BY <1>2, <1>3 DEF Buckets

\* The end of a window is where the next one starts.
LEMMA BucketEnd ==
  ASSUME NEW t \in Int
  PROVE  /\ WindowEnd(Bucket(t)) \in Int
         /\ t < WindowEnd(Bucket(t))
         /\ \A u \in Int : u >= WindowEnd(Bucket(t)) => Bucket(u) > Bucket(t)
  <1>1. Window \in Nat \ {0}
    BY RateLimiterAssumption
  <1> DEFINE x == Bucket(t)
  <1>2. x \in Int /\ Window * x <= t /\ t < Window * x + Window
    BY <1>1, Division DEF Bucket
  <1>3. (x + 1) * Window = Window * x + Window /\ Window * x \in Int
    BY <1>1, <1>2
  <1>4. ASSUME NEW u \in Int, u >= (x + 1) * Window, ~(Bucket(u) > x)
        PROVE  FALSE
    <2> DEFINE y == Bucket(u)
    <2>1. y \in Int /\ Window * y <= u /\ u < Window * y + Window
      BY <1>1, Division DEF Bucket
    <2>2. y <= x
      BY <1>2, <1>4, <2>1
    <2> HIDE DEF x, y
    <2>3. Window * y <= Window * x
      <3>1. CASE y = x
        BY <1>1, <1>2, <3>1
      <3>2. CASE y + 1 <= x
        <4>1. Window * y + Window <= Window * x
          BY <1>1, <1>2, <2>1, <3>2, Product
        <4>2. Window * y \in Int
          BY <1>1, <2>1
        <4>3. QED BY <1>1, <1>3, <4>1, <4>2
      <3>3. QED BY <1>2, <2>1, <2>2, <3>1, <3>2
    <2>4. Window * y \in Int
      BY <1>1, <2>1
    <2>5. QED BY <1>1, <1>3, <1>4, <2>1, <2>3, <2>4
  <1>5. WindowEnd(x) = (x + 1) * Window
    BY DEF WindowEnd
  <1> HIDE DEF x
  <1>6. WindowEnd(x) \in Int /\ t < WindowEnd(x)
    BY <1>1, <1>2, <1>3, <1>5
  <1>7. \A u \in Int : u >= WindowEnd(x) => Bucket(u) > x
    BY <1>4, <1>5
  <1>8. QED BY <1>6, <1>7 DEF x

\* The larger and the smaller of two numbers.
LEMMA MaxOfTwo ==
  ASSUME NEW a \in Int, NEW b \in Int
  PROVE  /\ Max({a, b}) = (IF a >= b THEN a ELSE b)
         /\ Min({a, b}) = (IF a <= b THEN a ELSE b)
  <1> DEFINE T == {a, b}
  <1>1. \E x \in T : \A y \in T : x >= y
    OBVIOUS
  <1>2. \E x \in T : \A y \in T : x =< y
    OBVIOUS
  <1>3. Max(T) \in T /\ \A y \in T : Max(T) >= y
    <2> HIDE DEF T
    <2>1. QED BY <1>1 DEF Max
  <1>4. Min(T) \in T /\ \A y \in T : Min(T) =< y
    <2> HIDE DEF T
    <2>1. QED BY <1>2 DEF Min
  <1>5. QED BY <1>3, <1>4

\* Waiting as told leads to the next window, or to its last second.
LEMMA WaitOnce ==
  ASSUME NEW u \in Int
  PROVE  LET end == WindowEnd(Bucket(u))
             v   == u + Second * RetryAfter(Bucket(u), u)
         IN  v \in Int /\ v > u /\ v > end - Second
  <1> DEFINE end == WindowEnd(Bucket(u))
             q == (end - u) \div Second
  <1>1. Second \in Nat \ {0} /\ end \in Int /\ u < end
    BY RateLimiterAssumption, BucketEnd
  <1>2. q \in Int /\ Second * q <= end - u /\ end - u < Second * q + Second
    <2> HIDE DEF end
    <2>1. end - u \in Int
      BY <1>1
    <2>2. QED BY <1>1, <2>1, Division
  <1>3. RetryAfter(Bucket(u), u) = (IF 1 >= q THEN 1 ELSE q)
    BY <1>2, MaxOfTwo DEF RetryAfter
  <1> HIDE DEF end, q
  <1>4. CASE 1 >= q
    <2>1. RetryAfter(Bucket(u), u) = 1 /\ Second * RetryAfter(Bucket(u), u) = Second
      BY <1>1, <1>3, <1>4
    <2>2. Second * q \in Int /\ Second * q <= Second
      <3>1. CASE q = 1
        BY <1>1, <3>1
      <3>2. CASE q + 1 <= 1
        <4>1. Second * q + Second <= Second * 1
          BY <1>1, <1>2, <3>2, Product
        <4>2. Second * q \in Int
          BY <1>1, <1>2
        <4>3. QED BY <1>1, <4>1, <4>2
      <3>3. QED BY <1>2, <1>4, <3>1, <3>2
    <2>3. QED BY <1>1, <1>2, <2>1, <2>2 DEF end
  <1>5. CASE ~(1 >= q)
    <2>1. RetryAfter(Bucket(u), u) = q
      BY <1>3, <1>5
    <2>2. Second * q \in Int /\ Second * 1 + Second <= Second * q
      BY <1>1, <1>2, <1>5, Product
    <2>3. Second * RetryAfter(Bucket(u), u) = Second * q
      BY <2>1
    <2>4. QED BY <1>1, <1>2, <2>2, <2>3 DEF end
  <1>6. QED BY <1>4, <1>5

\* Two waits reach a new window, from anywhere.
LEMMA WaitTwice == ASSUME NEW t \in Int, now = t PROVE PoliteRetry
  <1> DEFINE end == WindowEnd(Bucket(t))
             v == t + Second * RetryAfter(Bucket(t), t)
             w == v + Second * RetryAfter(Bucket(v), v)
  <1>1. Second \in Nat \ {0} /\ end \in Int
    BY RateLimiterAssumption, BucketEnd
  <1>2. v \in Int /\ v > t /\ v > end - Second
    BY WaitOnce
  <1> HIDE DEF v
  <1>3. w \in Int /\ w > v /\ w > WindowEnd(Bucket(v)) - Second
    BY <1>2, WaitOnce
  <1>4. Bucket(t) \in Int /\ Bucket(v) \in Int /\ Bucket(t) <= Bucket(v)
    BY <1>2, BucketMonotone
  <1>5. w >= v + Second
    <2> DEFINE k == RetryAfter(Bucket(v), v)
               e == WindowEnd(Bucket(v))
    <2>1. e \in Int /\ (e - v) \in Int
      BY <1>2, BucketEnd
    <2> HIDE DEF e
    <2>2. (e - v) \div Second \in Int
      BY <1>1, <2>1, Division
    <2>3. k = Max({1, (e - v) \div Second})
      BY DEF RetryAfter, e
    <2>4. k \in Int /\ k >= 1
      BY <2>2, <2>3, MaxOfTwo
    <2> HIDE DEF k
    <2>5. Second * k >= Second /\ Second * k \in Int
      <3>1. CASE k = 1
        BY <1>1, <3>1
      <3>2. CASE 1 + 1 <= k
        <4>1. Second * 1 + Second <= Second * k
          BY <1>1, <2>4, <3>2, Product
        <4>2. QED BY <1>1, <2>4, <4>1
      <3>3. QED BY <2>4, <3>1, <3>2
    <2>6. QED BY <1>1, <1>2, <2>5 DEF k
  <1> HIDE DEF w
  <1>6. w > end
    <2> HIDE DEF end
    <2>1. QED BY <1>1, <1>2, <1>3, <1>5
  <1>7. Bucket(w) > Bucket(t)
    BY <1>1, <1>3, <1>6, BucketEnd
  <1>8. QED BY <1>7 DEF PoliteRetry, v, w

-----------------------------------------------------------------------------
(* Types.                                                                  *)

LEMMA RequestType ==
  ASSUME NEW r \in RequestStates \cup {NoRequest}
  PROVE  /\ r.pc \in {"idle", "limit", "count", "begin", "handler"}
         /\ r = NoRequest <=> r.pc = "idle"
         /\ r.pc # "idle" =>
              r \in RequestStates /\ r.msg \in Messages /\ r.since \in 0..MaxTime
              /\ r.bucket \in Buckets
  BY DEF RequestStates, NoRequest

\* The edits the chain makes to a request leave it a request.
LEMMA RequestEdits ==
  ASSUME NEW r \in RequestStates, NEW at \in {"limit", "count", "begin", "handler"},
         NEW b \in Buckets
  PROVE  /\ [r EXCEPT !.pc = at] \in RequestStates
         /\ [r EXCEPT !.pc = at, !.bucket = b] \in RequestStates
  BY DEF RequestStates

\* What the type of the requests gives for one delivery.
LEMMA InChainType ==
  ASSUME TypeOK, NEW d \in Deliveries
  PROVE  /\ req[d] \in RequestStates \cup {NoRequest}
         /\ req[d].pc \in {"idle", "limit", "count", "begin", "handler"}
         /\ req[d] = NoRequest <=> req[d].pc = "idle"
         /\ req[d].pc # "idle" =>
              /\ req[d] \in RequestStates /\ req[d].msg \in Messages
              /\ req[d].since \in Nat /\ req[d].bucket \in Buckets
  <1> DEFINE r == req[d]
  <1>1. r \in RequestStates \cup {NoRequest}
    BY DEF TypeOK
  <1> HIDE DEF r
  <1>2. /\ r.pc \in {"idle", "limit", "count", "begin", "handler"}
        /\ r = NoRequest <=> r.pc = "idle"
        /\ r.pc # "idle" =>
             r \in RequestStates /\ r.msg \in Messages /\ r.since \in 0..MaxTime
             /\ r.bucket \in Buckets
    BY <1>1, RequestType
  <1>3. r.since \in 0..MaxTime => r.since \in Nat
    BY RateLimiterAssumption
  <1>4. QED BY <1>1, <1>2, <1>3 DEF r

\* The numbers of the model are numbers, and the TTL outlasts the skew.
LEMMA NumberTypes ==
  ASSUME TypeOK
  PROVE  /\ now \in Nat /\ now \in 0..MaxTime
         /\ ClockSkew \in Nat /\ RequestTimeout \in Nat /\ KeyTTL \in Nat /\ Drift \in Nat
         /\ KeyTTL > 2 * ClockSkew + RequestTimeout
         /\ \A m \in Messages : signed[m] \in Int /\ key[m].expires \in Nat /\ finals[m] \in Nat
  <1>1. now \in Nat /\ now \in 0..MaxTime
    BY RateLimiterAssumption DEF TypeOK, LimiterTypeOK
  <1>2. /\ ClockSkew \in Nat /\ RequestTimeout \in Nat /\ KeyTTL \in Nat /\ Drift \in Nat
        /\ KeyTTL > 2 * ClockSkew + RequestTimeout
    BY MerchantsAssumption, EdgeAssumption
  <1>3. \A m \in Messages : signed[m] \in Int /\ finals[m] \in Nat
    BY DEF TypeOK, MerchantsTypeOK
  <1>4. \A m \in Messages : key[m].expires \in 0..(MaxTime + KeyTTL)
    BY DEF TypeOK, KeyStates
  <1>5. MaxTime + KeyTTL \in Nat
    BY <1>2, RateLimiterAssumption
  <1>6. QED BY <1>1, <1>2, <1>3, <1>4, <1>5

\* One request changes.
RestKept(d) == \A e \in Deliveries \ {d} : req'[e] = req[e]

\* Writing one delivery's state leaves all the others.
LEMMA SetRequest ==
  ASSUME TypeOK, NEW d \in Deliveries, NEW r \in RequestStates \cup {NoRequest},
         req' = [req EXCEPT ![d] = r]
  PROVE  /\ req' \in [Deliveries -> RequestStates \cup {NoRequest}]
         /\ RestKept(d) /\ req'[d] = r
  BY DEF TypeOK, RestKept

\* A delivery that leaves the chain leaves the others alone.
LEMMA LeaveType ==
  ASSUME TypeOK, NEW d \in Deliveries, Leave(d)
  PROVE  /\ req' \in [Deliveries -> RequestStates \cup {NoRequest}]
         /\ RestKept(d) /\ req'[d].pc = "idle"
  <1>1. NoRequest.pc = "idle"
    BY DEF NoRequest
  <1>2. QED BY <1>1, SetRequest DEF Leave

\* A delivery that goes one stage on keeps its message and its start.
LEMMA GoToType ==
  ASSUME TypeOK, NEW d \in Deliveries, req[d].pc # "idle",
         NEW at \in {"begin", "handler"}, GoTo(d, at)
  PROVE  /\ req' \in [Deliveries -> RequestStates \cup {NoRequest}]
         /\ RestKept(d) /\ req'[d].pc = at
         /\ req'[d].msg = req[d].msg /\ req'[d].since = req[d].since
  <1>1. req[d] \in RequestStates /\ req[d].bucket \in Buckets
    BY InChainType
  <1> DEFINE r == [req[d] EXCEPT !.pc = at]
  <1>2. r \in RequestStates
    BY <1>1, RequestEdits
  <1>3. r.pc = at /\ r.msg = req[d].msg /\ r.since = req[d].since
    BY <1>1 DEF RequestStates
  <1>4. req' = [req EXCEPT ![d] = r]
    BY DEF GoTo
  <1> HIDE DEF r
  <1>5. QED BY <1>2, <1>3, <1>4, SetRequest

\* The MULTI of INCR and EXPIRE keeps the counters' type.
LEMMA ExecType ==
  ASSUME TypeOK, NEW b \in Buckets, Exec(b)
  PROVE  counter' \in [Buckets -> Counters]
  <1>1. Limit \in Nat /\ Window \in Nat /\ MaxTime \in Nat /\ now \in 0..MaxTime
    BY NumberTypes, RateLimiterAssumption
  <1>2. counter \in [Buckets -> Counters] /\ counter[b].count \in 0..(Limit + 1)
    BY DEF TypeOK, LimiterTypeOK, Counters
  <1> DEFINE old == IF counter[b].expires > now THEN counter[b].count ELSE 0
  <1>3. old \in 0..(Limit + 1)
    BY <1>1, <1>2
  <1>4. Incr(b) = Min({old + 1, Limit + 1})
    BY DEF Incr
  <1> HIDE DEF old
  <1>5. old + 1 \in Int /\ Limit + 1 \in Int
    BY <1>1, <1>3
  <1>6. Incr(b) \in 0..(Limit + 1)
    <2>1. Incr(b) = (IF old + 1 <= Limit + 1 THEN old + 1 ELSE Limit + 1)
      BY <1>4, <1>5, MaxOfTwo
    <2>2. QED BY <1>1, <1>3, <2>1
  <1>7. now + Window \in 0..(MaxTime + Window)
    BY <1>1
  <1>8. [count |-> Incr(b), expires |-> now + Window] \in Counters
    BY <1>6, <1>7 DEF Counters
  <1>9. QED BY <1>2, <1>8 DEF Exec

\* Recording an admitted request keeps the type of the record.
LEMMA LetThroughType ==
  ASSUME TypeOK, NEW b, LetThrough(b)
  PROVE  passed' \in [0..(Window - 1) -> Passed]
  <1>1. passed \in [0..(Window - 1) -> Passed] /\ 0 \in 0..(Window - 1)
    BY RateLimiterAssumption DEF TypeOK, LimiterTypeOK
  <1>2. \A k \in Kinds : [passed[0] EXCEPT ![k] = @ + 1] \in Passed
    BY <1>1 DEF Passed
  <1>3. PICK k \in Kinds : passed' = [passed EXCEPT ![0] = [passed[0] EXCEPT ![k] = @ + 1]]
    BY DEF LetThrough, Kinds
  <1>4. QED BY <1>1, <1>2, <1>3

\* Time moves by one and the limiter keeps its types.
LEMMA TickType ==
  ASSUME TypeOK, LimiterTick
  PROVE  LimiterTypeOK' /\ now' = now + 1
  <1>1. MaxTime \in Nat /\ now \in 0..MaxTime /\ Window \in Nat \ {0}
    BY NumberTypes, RateLimiterAssumption
  <1>2. passed \in [0..(Window - 1) -> Passed]
    BY DEF TypeOK, LimiterTypeOK
  <1>3. passed' = [age \in 0..(Window - 1) |->
                     IF age = 0 THEN [kind \in Kinds |-> 0] ELSE passed[age - 1]]
    BY <1>2 DEF LimiterTick
  <1>4. ASSUME NEW age \in 0..(Window - 1)
        PROVE  (IF age = 0 THEN [kind \in Kinds |-> 0] ELSE passed[age - 1]) \in Passed
    <2>1. CASE age = 0
      BY <2>1 DEF Passed
    <2>2. CASE age # 0
      <3>1. age - 1 \in 0..(Window - 1)
        BY <1>1, <2>2
      <3>2. QED BY <1>2, <2>2, <3>1
    <2>3. QED BY <2>1, <2>2
  <1>5. passed' \in [0..(Window - 1) -> Passed]
    BY <1>3, <1>4
  <1>6. now' = now + 1 /\ now' \in 0..MaxTime /\ counter' = counter
    BY <1>1 DEF LimiterTick
  <1>7. QED BY <1>5, <1>6 DEF TypeOK, LimiterTypeOK

\* Claiming and releasing a key change that key only.
LEMMA KeyType ==
  ASSUME TypeOK, NEW m \in Messages
  PROVE  /\ key' = [key EXCEPT ![m] = [held |-> TRUE, expires |-> now + KeyTTL]] =>
              /\ key' \in [Messages -> KeyStates]
              /\ key'[m].held = TRUE /\ key'[m].expires = now + KeyTTL
              /\ \A n \in Messages \ {m} : key'[n] = key[n]
         /\ key' = [key EXCEPT ![m].held = FALSE] =>
              /\ key' \in [Messages -> KeyStates]
              /\ \A n \in Messages \ {m} : key'[n] = key[n]
  <1>1. key \in [Messages -> KeyStates] /\ now + KeyTTL \in 0..(MaxTime + KeyTTL)
    BY NumberTypes, RateLimiterAssumption DEF TypeOK
  <1>2. [held |-> TRUE, expires |-> now + KeyTTL] \in KeyStates
    BY <1>1 DEF KeyStates
  <1>3. [key[m] EXCEPT !.held = FALSE] \in KeyStates
    BY <1>1 DEF KeyStates
  <1>4. ASSUME key' = [key EXCEPT ![m] = [held |-> TRUE, expires |-> now + KeyTTL]]
        PROVE  /\ key' \in [Messages -> KeyStates]
               /\ key'[m].held = TRUE /\ key'[m].expires = now + KeyTTL
               /\ \A n \in Messages \ {m} : key'[n] = key[n]
    <2>1. key'[m] = [held |-> TRUE, expires |-> now + KeyTTL]
      BY <1>1, <1>4, Zenon
    <2>2. key'[m].held = TRUE /\ key'[m].expires = now + KeyTTL
      BY <2>1
    <2>3. QED BY <1>1, <1>2, <1>4, <2>2
  <1>5. ASSUME key' = [key EXCEPT ![m].held = FALSE]
        PROVE  /\ key' \in [Messages -> KeyStates]
               /\ \A n \in Messages \ {m} : key'[n] = key[n]
    BY <1>1, <1>3, <1>5
  <1>6. QED BY <1>4, <1>5

\* The initial state is well typed.
LEMMA TypeInit == EdgeInit => TypeOK
  <1> SUFFICES ASSUME EdgeInit PROVE TypeOK
    OBVIOUS
  <1>1. /\ Window \in Nat \ {0} /\ Limit \in Nat /\ MaxTime \in Nat /\ KeyTTL \in Nat
        /\ Drift \in Nat
    BY RateLimiterAssumption, MerchantsAssumption, EdgeAssumption
  <1>2. [count |-> 0, expires |-> 0] \in Counters /\ [kind \in Kinds |-> 0] \in Passed
    BY <1>1 DEF Counters, Passed
  <1>3. LimiterTypeOK
    BY <1>1, <1>2 DEF EdgeInit, LimiterInit, LimiterTypeOK
  <1>4. MerchantsTypeOK
    <2>1. Unsigned \in Int
      BY <1>1 DEF Unsigned
    <2>2. signed \in [Messages -> Int]
      BY <2>1 DEF EdgeInit, MerchantsInit
    <2>3. QED BY <2>2, Zenon DEF EdgeInit, MerchantsInit, MerchantsTypeOK
  <1>5. [held |-> FALSE, expires |-> 0] \in KeyStates
    BY <1>1 DEF KeyStates
  <1>6. QED BY <1>3, <1>4, <1>5 DEF EdgeInit, TypeOK

-----------------------------------------------------------------------------
(* Steps of a request.                                                     *)

\* A step that reaches no handler and leaves the keys alone.
LEMMA Walk ==
  ASSUME IInv, TypeOK', NEW d \in Deliveries, RestKept(d),
         UNCHANGED <<now, signed, key, finals>>,
         req'[d].pc # "handler", req'[d].pc # "idle" => Admitted(d)'
  PROVE  IInv'
  <1>1. AllAdmitted'
    <2>1. \A e \in Deliveries \ {d} : InChain(e)' => Admitted(e)'
      BY DEF IInv, AllAdmitted, InChain, Admitted, RestKept
    <2>2. QED BY <2>1 DEF AllAdmitted, InChain
  <1>2. \A e \in Deliveries, m \in Messages :
          Handling(e, m)' => Handling(e, m) /\ req'[e] = req[e]
    BY DEF Handling, RestKept
  <1>3. KeyHeld'
    BY <1>2 DEF IInv, KeyHeld
  <1>4. OneHandler'
    BY <1>2 DEF IInv, OneHandler
  <1>5. AnsweredIsClosed'
    BY <1>2 DEF IInv, AnsweredIsClosed, Closed
  <1>6. QED BY <1>1, <1>3, <1>4, <1>5 DEF IInv

\* A delivery passes the signature and timestamp checks.
LEMMA AuthStep ==
  ASSUME IInv, NEW d \in Deliveries, Auth(d)
  PROVE  IInv'
  <1>1. TypeOK
    BY DEF IInv
  <1>2. PICK m \in Messages :
          /\ Authenticate(m, now)
          /\ req' = [req EXCEPT ![d] = [pc |-> "limit", msg |-> m, since |-> now, bucket |-> 0]]
    BY DEF Auth
  <1>3. UNCHANGED <<limiterVars, merchantVars, key, finals>>
    BY DEF Auth
  <1> DEFINE r == [pc |-> "limit", msg |-> m, since |-> now, bucket |-> 0]
  <1>4. r \in RequestStates
    <2>1. 0 \in 0..MaxTime
      BY RateLimiterAssumption
    <2>2. Bucket(0) \in Buckets /\ Bucket(0) = 0
      BY <2>1, BucketRange, RateLimiterAssumption DEF Bucket
    <2>3. QED BY <1>1, <2>2, NumberTypes DEF RequestStates
  <1>5. r.pc = "limit" /\ r.msg = m /\ r.since = now
    OBVIOUS
  <1>6. req' = [req EXCEPT ![d] = r]
    BY <1>2
  <1> HIDE DEF r
  <1>7. /\ req' \in [Deliveries -> RequestStates \cup {NoRequest}]
        /\ RestKept(d) /\ req'[d] = r
    BY <1>1, <1>4, <1>6, SetRequest
  <1>8. TypeOK'
    BY <1>1, <1>3, <1>7
       DEF TypeOK, LimiterTypeOK, MerchantsTypeOK, limiterVars, merchantVars
  <1>9. signed[m] # Unsigned /\ signed[m] - now \in (-ClockSkew)..ClockSkew
    BY <1>2 DEF Authenticate, WithinSkew
  <1>10. Admitted(d)'
    <2>1. /\ now - ClockSkew <= signed[m] /\ signed[m] <= now + ClockSkew
          /\ now <= now /\ now <= now + RequestTimeout
      BY <1>1, <1>9, NumberTypes
    <2>2. /\ signed' = signed /\ now' = now /\ req'[d].msg = m /\ req'[d].since = now
      BY <1>3, <1>5, <1>7 DEF merchantVars, limiterVars
    <2>3. QED BY <1>9, <2>1, <2>2 DEF Admitted
  <1>11. QED BY <1>3, <1>5, <1>7, <1>8, <1>10, Walk DEF limiterVars, merchantVars

\* A request that only moves on, or leaves.
LEMMA MoveStep ==
  ASSUME IInv, TypeOK', NEW d \in Deliveries, RestKept(d), req[d].pc # "idle",
         UNCHANGED <<now, signed, key, finals>>,
         \/ req'[d].pc = "idle"
         \/ /\ req'[d].pc # "handler"
            /\ req'[d].msg = req[d].msg /\ req'[d].since = req[d].since
  PROVE  IInv'
  <1>1. Admitted(d)
    BY DEF IInv, AllAdmitted, InChain
  <1>2. req'[d].pc # "idle" => Admitted(d)'
    BY <1>1 DEF Admitted
  <1>3. QED BY <1>2, Walk

\* The steps of the rate limiter leave keys and answers alone.
LEMMA LimiterSteps ==
  ASSUME IInv, NEW d \in Deliveries, ReadClock(d) \/ Count(d) \/ FailOpen(d)
  PROVE  IInv'
  <1>1. TypeOK
    BY DEF IInv
  <1>2. /\ req[d].pc \in {"limit", "count"}
        /\ now' = now /\ UNCHANGED <<merchantVars, key, finals>>
    BY DEF ReadClock, Count, FailOpen, limiterVars
  <1>3. req[d] \in RequestStates /\ req[d].bucket \in Buckets /\ req[d].pc # "idle"
    BY <1>1, <1>2, InChainType
  <1>4. CASE ReadClock(d)
    <2> DEFINE r == [req[d] EXCEPT !.pc = "count", !.bucket = Bucket(now)]
    <2>1. Bucket(now) \in Buckets
      BY <1>1, NumberTypes, BucketRange
    <2>2. r \in RequestStates
      BY <1>3, <2>1, RequestEdits
    <2>3. r.pc = "count" /\ r.msg = req[d].msg /\ r.since = req[d].since
      BY <1>3 DEF RequestStates
    <2>4. req' = [req EXCEPT ![d] = r] /\ UNCHANGED limiterVars
      BY <1>4 DEF ReadClock
    <2> HIDE DEF r
    <2>5. /\ req' \in [Deliveries -> RequestStates \cup {NoRequest}]
          /\ RestKept(d) /\ req'[d] = r
      BY <1>1, <2>2, <2>4, SetRequest
    <2>6. TypeOK'
      BY <1>1, <1>2, <2>4, <2>5
         DEF TypeOK, LimiterTypeOK, MerchantsTypeOK, limiterVars, merchantVars
    <2>7. QED BY <1>2, <1>3, <2>3, <2>5, <2>6, MoveStep DEF merchantVars
  <1>5. CASE Count(d)
    <2>1. counter' \in [Buckets -> Counters]
      BY <1>1, <1>3, <1>5, ExecType DEF Count
    <2>2. CASE Allowed(req[d].bucket)
      <3>1. LetThrough(req[d].bucket) /\ GoTo(d, "begin")
        BY <1>5, <2>2 DEF Count
      <3>2. passed' \in [0..(Window - 1) -> Passed]
        BY <1>1, <3>1, LetThroughType
      <3>3. /\ req' \in [Deliveries -> RequestStates \cup {NoRequest}]
            /\ RestKept(d) /\ req'[d].pc = "begin"
            /\ req'[d].msg = req[d].msg /\ req'[d].since = req[d].since
        BY <1>1, <1>3, <3>1, GoToType
      <3>4. TypeOK'
        BY <1>1, <1>2, <2>1, <3>2, <3>3
           DEF TypeOK, LimiterTypeOK, MerchantsTypeOK, merchantVars
      <3>5. QED BY <1>2, <1>3, <3>3, <3>4, MoveStep DEF merchantVars
    <2>3. CASE ~Allowed(req[d].bucket)
      <3>1. UNCHANGED passed /\ Leave(d)
        BY <1>5, <2>3 DEF Count
      <3>2. /\ req' \in [Deliveries -> RequestStates \cup {NoRequest}]
            /\ RestKept(d) /\ req'[d].pc = "idle"
        BY <1>1, <3>1, LeaveType
      <3>3. TypeOK'
        BY <1>1, <1>2, <2>1, <3>1, <3>2
           DEF TypeOK, LimiterTypeOK, MerchantsTypeOK, merchantVars
      <3>4. QED BY <1>2, <1>3, <3>2, <3>3, MoveStep DEF merchantVars
    <2>4. QED BY <2>2, <2>3
  <1>6. CASE FailOpen(d)
    <2>1. counter' \in [Buckets -> Counters]
      BY <1>1, <1>3, <1>6, ExecType DEF FailOpen, TypeOK, LimiterTypeOK
    <2>2. /\ req' \in [Deliveries -> RequestStates \cup {NoRequest}]
          /\ RestKept(d) /\ req'[d].pc = "begin"
          /\ req'[d].msg = req[d].msg /\ req'[d].since = req[d].since
      BY <1>1, <1>3, <1>6, GoToType DEF FailOpen
    <2>3. passed' = passed
      BY <1>6 DEF FailOpen
    <2>4. TypeOK'
      BY <1>1, <1>2, <2>1, <2>2, <2>3
         DEF TypeOK, LimiterTypeOK, MerchantsTypeOK, merchantVars
    <2>5. QED BY <1>2, <1>3, <2>2, <2>4, MoveStep DEF merchantVars
  <1>7. QED BY <1>4, <1>5, <1>6

\* A process that dies leaves its claim in Redis until the TTL.
LEMMA CrashStep ==
  ASSUME IInv, NEW d \in Deliveries, Crash(d)
  PROVE  IInv'
  <1>1. TypeOK /\ req[d].pc # "idle" /\ UNCHANGED <<limiterVars, merchantVars, key, finals>>
    BY InChainType DEF IInv, Crash
  <1>2. /\ req' \in [Deliveries -> RequestStates \cup {NoRequest}]
        /\ RestKept(d) /\ req'[d].pc = "idle"
    BY <1>1, LeaveType DEF Crash
  <1>3. TypeOK'
    BY <1>1, <1>2 DEF TypeOK, LimiterTypeOK, MerchantsTypeOK, limiterVars, merchantVars
  <1>4. QED BY <1>1, <1>2, <1>3, MoveStep DEF limiterVars, merchantVars

\* While a copy is in the chain the key of its message, once set for a handler or
\* for an answer, is there.
LEMMA KeyAlive ==
  ASSUME IInv, NEW d \in Deliveries, req[d].pc = "begin", ~Alive(req[d].msg)
  PROVE  finals[req[d].msg] = 0 /\ \A e \in Deliveries : ~Handling(e, req[d].msg)
  <1>1. TypeOK /\ req[d].msg \in Messages /\ req[d].since \in Nat
    BY InChainType DEF IInv
  <1>2. PICK m \in Messages : m = req[d].msg
    BY <1>1
  <1>3. Admitted(d) /\ signed[m] \in Int /\ key[m].expires \in Nat /\ now \in Nat
        /\ finals[m] \in Nat /\ ClockSkew \in Nat /\ RequestTimeout \in Nat /\ KeyTTL \in Nat
    BY <1>1, NumberTypes DEF IInv, AllAdmitted, InChain
  <1>4. now <= signed[m] + ClockSkew + RequestTimeout
    BY <1>1, <1>2, <1>3 DEF Admitted
  <1>5. finals[m] # 1
    <2>1. SUFFICES ASSUME finals[m] = 1 PROVE FALSE
      OBVIOUS
    <2>2. key[m].held = TRUE /\ key[m].expires > signed[m] + ClockSkew + RequestTimeout
      BY <2>1 DEF IInv, AnsweredIsClosed, Closed
    <2>3. key[m].expires > now
      BY <1>3, <1>4, <2>2
    <2>4. QED BY <1>2, <2>2, <2>3 DEF Alive
  <1>6. finals[m] = 0
    BY <1>3, <1>5 DEF IInv, AnsweredIsClosed
  <1>7. ASSUME NEW e \in Deliveries, Handling(e, m) PROVE FALSE
    <2>1. key[m].held = TRUE /\ key[m].expires >= req[e].since + KeyTTL
      BY <1>7 DEF IInv, KeyHeld
    <2>2. Admitted(e) /\ req[e].since \in Nat
      BY <1>1, <1>7, InChainType DEF IInv, AllAdmitted, InChain, Handling
    <2>3. now <= req[e].since + RequestTimeout /\ KeyTTL > RequestTimeout
      BY <1>1, <1>3, <2>2, NumberTypes DEF Admitted
    <2>4. key[m].expires > now
      BY <1>3, <2>1, <2>2, <2>3
    <2>5. QED BY <1>2, <2>1, <2>4 DEF Alive
  <1>8. QED BY <1>2, <1>6, <1>7

\* Begin claims a free key, or sends the delivery away.
LEMMA BeginStep ==
  ASSUME IInv, NEW d \in Deliveries, Begin(d)
  PROVE  IInv'
  <1>1. TypeOK /\ req[d].pc = "begin" /\ UNCHANGED <<limiterVars, merchantVars, finals>>
    BY DEF IInv, Begin
  <1>2. req[d].pc # "idle" /\ req[d].msg \in Messages /\ req[d].since \in Nat
    BY <1>1, InChainType
  <1>3. CASE Alive(req[d].msg)
    <2>1. Leave(d) /\ UNCHANGED key
      BY <1>3 DEF Begin
    <2>2. /\ req' \in [Deliveries -> RequestStates \cup {NoRequest}]
          /\ RestKept(d) /\ req'[d].pc = "idle"
      BY <1>1, <2>1, LeaveType
    <2>3. TypeOK'
      BY <1>1, <2>1, <2>2 DEF TypeOK, LimiterTypeOK, MerchantsTypeOK, limiterVars, merchantVars
    <2>4. QED BY <1>1, <1>2, <2>1, <2>2, <2>3, MoveStep DEF limiterVars, merchantVars
  <1>4. CASE ~Alive(req[d].msg)
    <2>1. PICK m \in Messages : m = req[d].msg
      BY <1>2
    <2>2. key' = [key EXCEPT ![m] = [held |-> TRUE, expires |-> now + KeyTTL]] /\ GoTo(d, "handler")
      BY <1>4, <2>1 DEF Begin
    <2>3. finals[m] = 0 /\ \A e \in Deliveries : ~Handling(e, m)
      BY <1>1, <1>4, <2>1, KeyAlive
    <2>4. /\ key' \in [Messages -> KeyStates]
          /\ key'[m].held = TRUE /\ key'[m].expires = now + KeyTTL
          /\ \A n \in Messages \ {m} : key'[n] = key[n]
      BY <1>1, <2>2, KeyType
    <2>5. /\ req' \in [Deliveries -> RequestStates \cup {NoRequest}]
          /\ RestKept(d) /\ req'[d].pc = "handler"
          /\ req'[d].msg = m /\ req'[d].since = req[d].since
      BY <1>1, <1>2, <2>1, <2>2, GoToType
    <2>6. TypeOK'
      BY <1>1, <2>4, <2>5 DEF TypeOK, LimiterTypeOK, MerchantsTypeOK, limiterVars, merchantVars
    <2>7. now' = now /\ signed' = signed /\ finals' = finals
      BY <1>1 DEF limiterVars, merchantVars
    <2>8. AllAdmitted'
      <3>1. Admitted(d)
        BY <1>2 DEF IInv, AllAdmitted, InChain
      <3>2. Admitted(d)'
        BY <2>1, <2>5, <2>7, <3>1 DEF Admitted
      <3>3. \A e \in Deliveries \ {d} : InChain(e)' => Admitted(e)'
        BY <2>5, <2>7 DEF IInv, AllAdmitted, InChain, Admitted, RestKept
      <3>4. QED BY <3>2, <3>3 DEF AllAdmitted
    <2>9. \A e \in Deliveries, n \in Messages : Handling(e, n)' =>
            \/ e = d /\ n = m
            \/ e # d /\ n # m /\ Handling(e, n) /\ req'[e] = req[e]
      BY <2>3, <2>5 DEF Handling, RestKept
    <2>10. KeyHeld'
      <3>1. key'[m].expires >= req'[d].since + KeyTTL
        <4>1. Admitted(d) /\ now \in Nat /\ KeyTTL \in Nat
          BY <1>1, <1>2, NumberTypes DEF IInv, AllAdmitted, InChain
        <4>2. req[d].since <= now
          BY <4>1 DEF Admitted
        <4>3. now + KeyTTL >= req[d].since + KeyTTL
          BY <1>2, <4>1, <4>2
        <4>4. QED BY <2>4, <2>5, <4>3
      <3>2. ASSUME NEW e \in Deliveries, NEW n \in Messages, Handling(e, n)'
            PROVE  key'[n].held = TRUE /\ key'[n].expires >= req'[e].since + KeyTTL
        <4>1. CASE e = d /\ n = m
          BY <2>4, <3>1, <4>1
        <4>2. CASE e # d /\ n # m /\ Handling(e, n) /\ req'[e] = req[e]
          <5>1. key'[n] = key[n]
            BY <2>4, <4>2
          <5>2. key[n].held = TRUE /\ key[n].expires >= req[e].since + KeyTTL
            BY <4>2 DEF IInv, KeyHeld
          <5>3. QED BY <4>2, <5>1, <5>2
        <4>3. QED BY <2>9, <3>2, <4>1, <4>2
      <3>3. QED BY <3>2 DEF KeyHeld
    <2>11. OneHandler'
      BY <2>9 DEF IInv, OneHandler
    <2>12. AnsweredIsClosed'
      <3> SUFFICES ASSUME NEW n \in Messages
                   PROVE  finals'[n] <= 1 /\ (finals'[n] = 1 => Closed(n)')
        BY DEF AnsweredIsClosed
      <3>1. finals[n] <= 1 /\ (finals[n] = 1 => Closed(n))
        BY DEF IInv, AnsweredIsClosed
      <3>2. CASE n = m
        BY <2>3, <2>7, <3>2
      <3>3. CASE n # m
        BY <2>4, <2>7, <2>9, <3>1, <3>3 DEF Closed
      <3>4. QED BY <3>2, <3>3
    <2>13. QED BY <2>6, <2>8, <2>10, <2>11, <2>12 DEF IInv
  <1>5. QED BY <1>3, <1>4

\* The handler's request leaves; its key is renewed, released or left alone.
LEMMA DoneParts ==
  ASSUME IInv, NEW d \in Deliveries, NEW m \in Messages, Handling(d, m), Leave(d),
         now' = now, signed' = signed, \A n \in Messages \ {m} : key'[n] = key[n]
  PROVE  /\ req' \in [Deliveries -> RequestStates \cup {NoRequest}]
         /\ AllAdmitted' /\ KeyHeld' /\ OneHandler' /\ finals[m] = 0
         /\ \A e \in Deliveries : ~Handling(e, m)'
         /\ \A e \in Deliveries, n \in Messages : Handling(e, n)' => Handling(e, n)
  <1>1. TypeOK
    BY DEF IInv
  <1>2. /\ req' \in [Deliveries -> RequestStates \cup {NoRequest}]
        /\ RestKept(d) /\ req'[d].pc = "idle"
    BY <1>1, LeaveType
  <1>3. \A e \in Deliveries, n \in Messages : Handling(e, n)' =>
          e # d /\ n # m /\ Handling(e, n) /\ req'[e] = req[e]
    BY <1>2 DEF Handling, RestKept, IInv, OneHandler
  <1>4. AllAdmitted'
    BY <1>2 DEF IInv, AllAdmitted, InChain, Admitted, RestKept
  <1>5. KeyHeld'
    <2>1. ASSUME NEW e \in Deliveries, NEW n \in Messages, Handling(e, n)'
          PROVE  key'[n].held = TRUE /\ key'[n].expires >= req'[e].since + KeyTTL
      <3>1. n # m /\ Handling(e, n) /\ req'[e] = req[e]
        BY <1>3, <2>1
      <3>2. key[n].held = TRUE /\ key[n].expires >= req[e].since + KeyTTL
        BY <3>1 DEF IInv, KeyHeld
      <3>3. QED BY <3>1, <3>2
    <2>2. QED BY <2>1 DEF KeyHeld
  <1>6. OneHandler'
    BY <1>3 DEF IInv, OneHandler
  <1>7. finals[m] = 0
    <2>1. finals[m] \in Nat /\ finals[m] <= 1
      BY <1>1, NumberTypes DEF IInv, AnsweredIsClosed
    <2>2. finals[m] # 1
      BY DEF IInv, AnsweredIsClosed, Closed
    <2>3. QED BY <2>1, <2>2
  <1>8. QED BY <1>2, <1>3, <1>4, <1>5, <1>6, <1>7

\* A final answer closes its key for as long as the signature is accepted.
LEMMA AnswerStep ==
  ASSUME IInv, NEW d \in Deliveries, Answer(d)
  PROVE  IInv'
  <1>1. TypeOK /\ req[d].pc = "handler" /\ UNCHANGED <<limiterVars, merchantVars>> /\ Leave(d)
    BY DEF IInv, Answer
  <1>2. PICK m \in Messages : m = req[d].msg
    BY <1>1, InChainType
  <1>3. /\ finals' = [finals EXCEPT ![m] = @ + 1]
        /\ \/ key' = [key EXCEPT ![m] = [held |-> TRUE, expires |-> now + KeyTTL]]
           \/ UNCHANGED key
    BY <1>2 DEF Answer
  <1>4. Handling(d, m) /\ now' = now /\ signed' = signed
    BY <1>1, <1>2 DEF Handling, limiterVars, merchantVars
  <1>5. /\ key[m].held = TRUE /\ key[m].expires >= req[d].since + KeyTTL
        /\ Admitted(d) /\ req[d].since \in Nat
    BY <1>1, <1>4, InChainType DEF IInv, KeyHeld, AllAdmitted, InChain
  <1>6. /\ now \in Nat /\ KeyTTL \in Nat /\ ClockSkew \in Nat /\ RequestTimeout \in Nat
        /\ signed[m] \in Int /\ key[m].expires \in Nat
        /\ KeyTTL > 2 * ClockSkew + RequestTimeout
    BY <1>1, NumberTypes
  <1>7. /\ signed[m] # Unsigned /\ req[d].since + ClockSkew >= signed[m]
        /\ signed[m] >= req[d].since - ClockSkew /\ req[d].since <= now
    BY <1>2, <1>5 DEF Admitted
  <1>8. /\ key' \in [Messages -> KeyStates] /\ \A n \in Messages \ {m} : key'[n] = key[n]
        /\ key'[m].held = TRUE /\ key'[m].expires >= req[d].since + KeyTTL
        /\ key'[m].expires \in Nat
    <2>1. CASE key' = [key EXCEPT ![m] = [held |-> TRUE, expires |-> now + KeyTTL]]
      <3>1. /\ key' \in [Messages -> KeyStates]
            /\ key'[m].held = TRUE /\ key'[m].expires = now + KeyTTL
            /\ \A n \in Messages \ {m} : key'[n] = key[n]
        BY <1>1, <2>1, KeyType
      <3>2. now + KeyTTL >= req[d].since + KeyTTL /\ now + KeyTTL \in Nat
        BY <1>5, <1>6, <1>7
      <3>3. QED BY <3>1, <3>2
    <2>2. CASE UNCHANGED key
      BY <1>1, <1>5, <1>6, <2>2 DEF TypeOK
    <2>3. QED BY <1>3, <2>1, <2>2
  <1>9. /\ req' \in [Deliveries -> RequestStates \cup {NoRequest}]
        /\ AllAdmitted' /\ KeyHeld' /\ OneHandler' /\ finals[m] = 0
        /\ \A e \in Deliveries : ~Handling(e, m)'
        /\ \A e \in Deliveries, n \in Messages : Handling(e, n)' => Handling(e, n)
    BY <1>1, <1>4, <1>8, DoneParts
  <1>10. /\ finals' \in [Messages -> Nat] /\ finals'[m] = 1
         /\ \A n \in Messages \ {m} : finals'[n] = finals[n]
    BY <1>1, <1>3, <1>9 DEF TypeOK
  <1>11. TypeOK'
    BY <1>1, <1>8, <1>9, <1>10
       DEF TypeOK, LimiterTypeOK, MerchantsTypeOK, limiterVars, merchantVars
  <1>12. AnsweredIsClosed'
    <2> SUFFICES ASSUME NEW n \in Messages
                 PROVE  finals'[n] <= 1 /\ (finals'[n] = 1 => Closed(n)')
      BY DEF AnsweredIsClosed
    <2>1. CASE n = m
      <3>1. key'[m].expires > signed[m] + ClockSkew + RequestTimeout
        BY <1>5, <1>6, <1>7, <1>8
      <3>2. Closed(m)'
        BY <1>4, <1>7, <1>8, <1>9, <3>1 DEF Closed
      <3>3. QED BY <1>10, <2>1, <3>2
    <2>2. CASE n # m
      <3>1. finals[n] <= 1 /\ (finals[n] = 1 => Closed(n))
        BY DEF IInv, AnsweredIsClosed
      <3>2. QED BY <1>4, <1>8, <1>9, <1>10, <2>2, <3>1 DEF Closed
    <2>3. QED BY <2>1, <2>2
  <1>13. QED BY <1>9, <1>11, <1>12 DEF IInv

\* A server error releases the key: the message had no final answer.
LEMMA ServerErrorStep ==
  ASSUME IInv, NEW d \in Deliveries, ServerError(d)
  PROVE  IInv'
  <1>1. TypeOK /\ req[d].pc = "handler" /\ Leave(d)
        /\ UNCHANGED <<limiterVars, merchantVars, finals>>
    BY DEF IInv, ServerError
  <1>2. PICK m \in Messages : m = req[d].msg
    BY <1>1, InChainType
  <1>3. key' = [key EXCEPT ![m].held = FALSE]
    BY <1>2 DEF ServerError
  <1>4. Handling(d, m) /\ now' = now /\ signed' = signed /\ finals' = finals
    BY <1>1, <1>2 DEF Handling, limiterVars, merchantVars
  <1>5. key' \in [Messages -> KeyStates] /\ \A n \in Messages \ {m} : key'[n] = key[n]
    BY <1>1, <1>3, KeyType
  <1>6. /\ req' \in [Deliveries -> RequestStates \cup {NoRequest}]
        /\ AllAdmitted' /\ KeyHeld' /\ OneHandler' /\ finals[m] = 0
        /\ \A e \in Deliveries, n \in Messages : Handling(e, n)' => Handling(e, n)
    BY <1>1, <1>4, <1>5, DoneParts
  <1>7. TypeOK'
    BY <1>1, <1>4, <1>5, <1>6
       DEF TypeOK, LimiterTypeOK, MerchantsTypeOK, limiterVars, merchantVars
  <1>8. AnsweredIsClosed'
    <2> SUFFICES ASSUME NEW n \in Messages
                 PROVE  finals'[n] <= 1 /\ (finals'[n] = 1 => Closed(n)')
      BY DEF AnsweredIsClosed
    <2>1. CASE n = m
      BY <1>4, <1>6, <2>1
    <2>2. CASE n # m
      <3>1. finals[n] <= 1 /\ (finals[n] = 1 => Closed(n))
        BY DEF IInv, AnsweredIsClosed
      <3>2. QED BY <1>4, <1>5, <1>6, <2>2, <3>1 DEF Closed
    <2>3. QED BY <2>1, <2>2
  <1>9. QED BY <1>6, <1>7, <1>8 DEF IInv

-----------------------------------------------------------------------------
(* The clock and the merchant.                                             *)

LEMMA TickStep ==
  ASSUME IInv, Tick
  PROVE  IInv'
  <1>1. /\ TypeOK /\ LimiterTick /\ UNCHANGED <<merchantVars, req, key, finals>>
        /\ \A d \in Deliveries : req[d] # NoRequest => now < req[d].since + RequestTimeout
    BY DEF IInv, Tick
  <1>2. LimiterTypeOK' /\ now' = now + 1
    BY <1>1, TickType
  <1>3. TypeOK'
    BY <1>1, <1>2 DEF TypeOK, MerchantsTypeOK, merchantVars
  <1>4. AllAdmitted'
    <2> SUFFICES ASSUME NEW d \in Deliveries, InChain(d) PROVE Admitted(d)'
      BY <1>1 DEF AllAdmitted, InChain
    <2>1. Admitted(d) /\ req[d] # NoRequest /\ req[d].since \in Nat /\ now \in Nat
          /\ RequestTimeout \in Nat
      BY <1>1, InChainType, NumberTypes DEF IInv, AllAdmitted, InChain
    <2>2. req[d].since <= now /\ now < req[d].since + RequestTimeout
      BY <1>1, <2>1 DEF Admitted
    <2>3. req[d].since <= now' /\ now' <= req[d].since + RequestTimeout
      BY <1>2, <2>1, <2>2
    <2>4. signed' = signed /\ req' = req
      BY <1>1 DEF merchantVars
    <2>5. QED BY <2>1, <2>3, <2>4 DEF Admitted
  <1>5. KeyHeld' /\ OneHandler' /\ AnsweredIsClosed'
    BY <1>1 DEF IInv, KeyHeld, OneHandler, AnsweredIsClosed, Closed, Handling, merchantVars
  <1>6. QED BY <1>3, <1>4, <1>5 DEF IInv

\* Suspending, reactivating and signing leave the requests alone.
LEMMA MerchantStep ==
  ASSUME IInv, Merchant
  PROVE  IInv'
  <1>1. TypeOK /\ UNCHANGED <<limiterVars, req, key, finals>>
    BY DEF IInv, Merchant
  <1>2. /\ signed' \in [Messages -> Int]
        /\ \A m \in Messages : signed[m] # Unsigned => signed'[m] = signed[m]
    <2>1. CASE CreateMerchant \/ SetStatus
      BY <1>1, <2>1 DEF CreateMerchant, SetStatus, TypeOK, MerchantsTypeOK
    <2>2. ASSUME NEW m \in Messages, Sign(m, now)
          PROVE  /\ signed' \in [Messages -> Int]
                 /\ \A n \in Messages : signed[n] # Unsigned => signed'[n] = signed[n]
      <3>1. now \in Nat /\ Drift \in Nat /\ signed \in [Messages -> Int]
        BY <1>1, NumberTypes DEF TypeOK, MerchantsTypeOK
      <3>2. PICK ts \in (now - Drift)..(now + Drift) : signed' = [signed EXCEPT ![m] = ts]
        BY <2>2 DEF Sign
      <3>3. ts \in Int /\ signed[m] = Unsigned
        BY <2>2, <3>1 DEF Sign
      <3>4. QED BY <3>1, <3>2, <3>3
    <2>3. QED BY <2>1, <2>2 DEF Merchant
  <1>3. account' \in {"absent", "active", "suspended"} /\ secret' \in BOOLEAN
    <2>1. account \in {"absent", "active", "suspended"} /\ secret \in BOOLEAN
      BY <1>1 DEF TypeOK, MerchantsTypeOK
    <2>2. CASE CreateMerchant
      BY <2>2, Zenon DEF CreateMerchant, InsertMerchant
    <2>3. CASE SetStatus
      BY <2>1, <2>3, Zenon DEF SetStatus
    <2>4. CASE \E m \in Messages : Sign(m, now)
      BY <2>1, <2>4, Zenon DEF Sign
    <2>5. QED BY <2>2, <2>3, <2>4 DEF Merchant
  <1>4. MerchantsTypeOK'
    BY <1>2, <1>3, Zenon DEF MerchantsTypeOK
  <1>5. TypeOK'
    BY <1>1, <1>4 DEF TypeOK, LimiterTypeOK, limiterVars
  <1>6. AllAdmitted'
    <2> SUFFICES ASSUME NEW d \in Deliveries, InChain(d) PROVE Admitted(d)'
      BY <1>1 DEF AllAdmitted, InChain
    <2>1. Admitted(d) /\ req[d].msg \in Messages /\ req' = req /\ now' = now
      BY <1>1, InChainType DEF IInv, AllAdmitted, InChain, limiterVars
    <2>2. signed'[req[d].msg] = signed[req[d].msg]
      BY <1>2, <2>1 DEF Admitted
    <2>3. QED BY <2>1, <2>2 DEF Admitted
  <1>7. KeyHeld' /\ OneHandler'
    BY <1>1 DEF IInv, KeyHeld, OneHandler, Handling
  <1>8. AnsweredIsClosed'
    BY <1>1, <1>2 DEF IInv, AnsweredIsClosed, Closed, Handling
  <1>9. QED BY <1>5, <1>6, <1>7, <1>8 DEF IInv

-----------------------------------------------------------------------------
(* The theorems.                                                           *)

LEMMA IInvInit == EdgeInit => IInv
  <1> SUFFICES ASSUME EdgeInit PROVE IInv
    OBVIOUS
  <1>1. TypeOK
    BY TypeInit
  <1>2. \A d \in Deliveries : req[d].pc = "idle"
    BY DEF EdgeInit, NoRequest
  <1>3. \A m \in Messages : finals[m] = 0
    BY DEF EdgeInit
  <1>4. QED
    BY <1>1, <1>2, <1>3
       DEF IInv, AllAdmitted, InChain, KeyHeld, OneHandler, Handling, AnsweredIsClosed

\* Every step keeps the invariant.
LEMMA IInvStep ==
  ASSUME IInv, [EdgeNext]_edgeVars
  PROVE  IInv'
  <1>1. ASSUME NEW d \in Deliveries, Serve(d) PROVE IInv'
    BY <1>1, AuthStep, LimiterSteps, BeginStep, AnswerStep, ServerErrorStep, CrashStep DEF Serve
  <1>2. CASE UNCHANGED edgeVars
    BY <1>2 DEF edgeVars, limiterVars, merchantVars, IInv, TypeOK, LimiterTypeOK,
                MerchantsTypeOK, AllAdmitted, InChain, Admitted, KeyHeld, OneHandler, Handling,
                AnsweredIsClosed, Closed
  <1>3. QED BY <1>1, <1>2, TickStep, MerchantStep DEF EdgeNext

\* The inductive invariant holds in every reachable state.
THEOREM Invariance == EdgeSpec => []IInv
  <1>1. IInv /\ [EdgeNext]_edgeVars => IInv'
    BY IInvStep
  <1>2. QED BY IInvInit, <1>1, PTL DEF EdgeSpec

\* Type correctness: every window a request names has a counter, and no counter
\* or TTL leaves its range.
THEOREM TypeCorrect == EdgeSpec => []TypeOK
  <1>1. IInv => TypeOK
    BY DEF IInv
  <1>2. QED BY Invariance, <1>1, PTL

\* Auth's timestamp check and the idempotency TTL together: a signed message gets
\* at most one final answer, for any number of copies, late or simultaneous.
THEOREM AnsweredOnce == EdgeSpec => []OncePerSignature
  <1>1. IInv => OncePerSignature
    BY DEF IInv, AnsweredIsClosed, OncePerSignature
  <1>2. QED BY Invariance, <1>1, PTL

\* Retry-After, rounded down to whole seconds and at least one: two waits of a
\* refused client always reach a new window, for every window and second.
THEOREM TwoWaitsSuffice == EdgeSpec => []PoliteRetry
  <1>1. IInv => PoliteRetry
    <2>1. ASSUME IInv PROVE PoliteRetry
      <3>1. now \in Int
        BY <2>1, NumberTypes DEF IInv
      <3>2. QED BY <3>1, WaitTwice
    <2>2. QED BY <2>1
  <1>2. QED BY Invariance, <1>1, PTL

-----------------------------------------------------------------------------
(* The burst.                                                              *)

\* The window whose counter a request was counted in, `a' ticks ago.
Charge(a, k) == Bucket(now - a) - (IF k = "late" THEN 1 ELSE 0)

\* The requests let through less than a window ago on the counter of window b.
Charged(b) == {x \in LetThroughRecently(Kinds) : Charge(x.age, x.kind) = b}

\* A request that is about to be counted named the present window or, at the
\* earliest, the one it arrived in.
NamedInTime ==
  \A d \in Deliveries : req[d].pc = "count" =>
    Bucket(req[d].since) <= req[d].bucket /\ req[d].bucket <= Bucket(now)

\* The counter of a request lives for a window after the request was let through:
\* EXPIRE counts from the last request.
Covered ==
  \A x \in LetThroughRecently(Kinds) :
    /\ Charge(x.age, x.kind) \in Buckets
    /\ counter[Charge(x.age, x.kind)].expires >= now - x.age + Window

\* A counter that is alive counts everything it let through less than a window ago.
Budgeted ==
  \A b \in Buckets :
    /\ IsFiniteSet(Charged(b))
    /\ Cardinality(Charged(b)) <= Limit
    /\ counter[b].expires > now => Cardinality(Charged(b)) <= counter[b].count

BurstInv == IInv /\ NamedInTime /\ Covered /\ Budgeted

\* What a request that was let through recently is.
LEMMA RecentIs ==
  ASSUME NEW p \in [0..(Window - 1) -> Passed], NEW kinds \in SUBSET Kinds, NEW x
  PROVE  x \in UNION {UNION {[age : {a}, kind : {k}, nth : 1..p[a][k]] : k \in kinds} : a \in DOMAIN p} <=>
           \E a \in 0..(Window - 1), k \in kinds, n \in Nat :
             1 <= n /\ n <= p[a][k] /\ x = [age |-> a, kind |-> k, nth |-> n]
<1>1. DOMAIN p = 0..(Window - 1)
  OBVIOUS
<1>2. \A a \in 0..(Window - 1), k \in kinds : p[a][k] \in Nat
  BY DEF Passed
<1>3. x \in UNION {UNION {[age : {a}, kind : {k}, nth : 1..p[a][k]] : k \in kinds} : a \in DOMAIN p} <=>
        \E a \in DOMAIN p, k \in kinds : x \in [age : {a}, kind : {k}, nth : 1..p[a][k]]
  OBVIOUS
<1>4. ASSUME NEW a \in 0..(Window - 1), NEW k \in kinds
      PROVE  x \in [age : {a}, kind : {k}, nth : 1..p[a][k]] <=>
               \E n \in Nat : 1 <= n /\ n <= p[a][k] /\ x = [age |-> a, kind |-> k, nth |-> n]
  BY <1>2
<1>. QED BY <1>1, <1>3, <1>4

\* Its fields.
LEMMA RecentFields ==
  ASSUME TypeOK, NEW kinds \in SUBSET Kinds, NEW x \in LetThroughRecently(kinds)
  PROVE  /\ x.age \in 0..(Window - 1) /\ x.kind \in kinds /\ x.nth \in Nat
         /\ 1 <= x.nth /\ x.nth <= passed[x.age][x.kind]
         /\ x = [age |-> x.age, kind |-> x.kind, nth |-> x.nth]
<1>1. PICK a \in 0..(Window - 1), k \in kinds, n \in Nat :
        1 <= n /\ n <= passed[a][k] /\ x = [age |-> a, kind |-> k, nth |-> n]
  BY RecentIs DEF LetThroughRecently, TypeOK, LimiterTypeOK
<1>2. x.age = a /\ x.kind = k /\ x.nth = n
  BY <1>1
<1>. QED BY <1>1, <1>2

\* A step that leaves the clock and the record of what passed alone, and that
\* shortens no counter's life and takes nothing off it.
LEMMA CountersGrow ==
  ASSUME TypeOK, Covered, Budgeted, UNCHANGED <<now, passed>>,
         \A b \in Buckets : /\ \/ counter'[b].expires = counter[b].expires
                               \/ counter'[b].expires = now + Window
                            /\ counter'[b].expires > now' =>
                                 Cardinality(Charged(b)) <= counter'[b].count
  PROVE  Covered' /\ Budgeted'
<1>1. LetThroughRecently(Kinds)' = LetThroughRecently(Kinds)
  BY DEF LetThroughRecently
<1>2. \A a, k : Charge(a, k)' = Charge(a, k)
  BY DEF Charge
<1>3. \A b : Charged(b)' = Charged(b)
  BY <1>1, <1>2 DEF Charged
<1>4. Covered'
  <2>1. ASSUME NEW x \in LetThroughRecently(Kinds)
        PROVE  /\ Charge(x.age, x.kind) \in Buckets
               /\ counter'[Charge(x.age, x.kind)].expires >= now - x.age + Window
    <3>1. /\ Charge(x.age, x.kind) \in Buckets
          /\ counter[Charge(x.age, x.kind)].expires >= now - x.age + Window
      BY <2>1 DEF Covered
    <3>2. x.age \in 0..(Window - 1) /\ now \in Nat /\ Window \in Nat
      BY <2>1, RecentFields, NumberTypes, RateLimiterAssumption
    <3>3. counter[Charge(x.age, x.kind)].expires \in 0..(MaxTime + Window)
      BY <3>1 DEF TypeOK, LimiterTypeOK, Counters
    <3>. QED BY <3>1, <3>2, <3>3
  <2>. QED BY <1>1, <1>2, <2>1 DEF Covered
<1>5. Budgeted'
  BY <1>3 DEF Budgeted
<1>. QED BY <1>4, <1>5

\* What INCR and EXPIRE make of a counter, and what a dead counter charged.
LEMMA ExecCounts ==
  ASSUME TypeOK, Covered, Budgeted, NEW b \in Buckets, Exec(b)
  PROVE  /\ Cardinality(Charged(b)) \in Nat /\ Cardinality(Charged(b)) <= counter'[b].count
         /\ Allowed(b) => Cardinality(Charged(b)) + 1 <= counter'[b].count /\ counter'[b].count <= Limit
         /\ counter'[b].expires = now + Window /\ counter[b].expires \in 0..(MaxTime + Window)
         /\ \A c \in Buckets : c # b => counter'[c] = counter[c]
<1>. DEFINE n == Cardinality(Charged(b))
            old == IF counter[b].expires > now THEN counter[b].count ELSE 0
<1>1. Limit \in Nat /\ Window \in Nat \ {0} /\ MaxTime \in Nat /\ now \in 0..MaxTime
  BY NumberTypes, RateLimiterAssumption
<1>2. /\ counter \in [Buckets -> Counters] /\ counter[b].count \in 0..(Limit + 1)
      /\ counter[b].expires \in 0..(MaxTime + Window)
  BY DEF TypeOK, LimiterTypeOK, Counters
<1>3. IsFiniteSet(Charged(b)) /\ n \in Nat /\ n <= Limit
  BY FS_CardinalityType DEF Budgeted
<1>4. n <= old
  <2>1. CASE counter[b].expires > now
    BY <2>1 DEF Budgeted
  <2>2. CASE ~(counter[b].expires > now)
    <3>1. ASSUME NEW x \in Charged(b) PROVE FALSE
      <4>1. x \in LetThroughRecently(Kinds) /\ Charge(x.age, x.kind) = b
        BY <3>1 DEF Charged
      <4>2. x.age \in 0..(Window - 1)
        BY <4>1, RecentFields
      <4>3. counter[b].expires >= now - x.age + Window
        BY <4>1 DEF Covered
      <4>. QED BY <1>1, <1>2, <2>2, <4>2, <4>3
    <3>2. Charged(b) = {}
      BY <3>1
    <3>3. n = 0
      BY <3>2, FS_EmptySet
    <3>. QED BY <2>2, <3>3
  <2>. QED BY <2>1, <2>2
<1>5. old \in 0..(Limit + 1)
  BY <1>1, <1>2
<1>6. Incr(b) = Min({old + 1, Limit + 1})
  BY DEF Incr
<1>7. counter'[b] = [count |-> Incr(b), expires |-> now + Window]
      /\ \A c \in Buckets : c # b => counter'[c] = counter[c]
  BY <1>2 DEF Exec
<1>. HIDE DEF old, n
<1>8. Incr(b) = (IF old + 1 <= Limit + 1 THEN old + 1 ELSE Limit + 1)
  <2>1. old + 1 \in Int /\ Limit + 1 \in Int
    BY <1>1, <1>5
  <2>. QED BY <1>6, <2>1, MaxOfTwo
<1>9. n <= Incr(b) /\ (Incr(b) <= Limit => n + 1 <= Incr(b))
  BY <1>1, <1>3, <1>4, <1>5, <1>8
<1>10. counter'[b].count = Incr(b) /\ counter'[b].expires = now + Window
  BY <1>7
<1>. QED BY <1>2, <1>3, <1>7, <1>9, <1>10 DEF Allowed, n

\* A request is counted and not let through, or passes because Redis failed.
LEMMA ExecAlone ==
  ASSUME TypeOK, Covered, Budgeted, NEW b \in Buckets, Exec(b), UNCHANGED <<now, passed>>
  PROVE  Covered' /\ Budgeted'
<1>1. /\ counter'[b].expires = now + Window /\ Cardinality(Charged(b)) <= counter'[b].count
      /\ \A c \in Buckets : c # b => counter'[c] = counter[c]
  BY ExecCounts
<1>2. ASSUME NEW c \in Buckets
      PROVE  /\ counter'[c].expires = counter[c].expires \/ counter'[c].expires = now + Window
             /\ counter'[c].expires > now' => Cardinality(Charged(c)) <= counter'[c].count
  BY <1>1 DEF Budgeted
<1>. QED BY <1>2, CountersGrow

\* A request is counted and let through, in the window it named or in the next.
LEMMA ExecLetsThrough ==
  ASSUME TypeOK, TypeOK', Covered, Budgeted, NEW b \in Buckets, Exec(b), Allowed(b),
         LetThrough(b), now' = now, b \in {Bucket(now), Bucket(now) - 1}
  PROVE  Covered' /\ Budgeted'
<1>1. Limit \in Nat /\ Window \in Nat \ {0} /\ MaxTime \in Nat /\ now \in 0..MaxTime
      /\ Bucket(now) \in Int
  BY NumberTypes, RateLimiterAssumption, BucketMonotone
<1>2. PICK k \in Kinds : /\ passed' = [passed EXCEPT ![0] = [passed[0] EXCEPT ![k] = @ + 1]]
                         /\ k = (IF Bucket(now) = b THEN "fresh" ELSE "late")
  BY DEF LetThrough, Kinds
<1>3. Charge(0, k) = b
  <2>1. now - 0 = now
    BY <1>1
  <2>. QED BY <1>1, <1>2, <2>1 DEF Charge
<1>4. passed \in [0..(Window - 1) -> Passed] /\ 0 \in 0..(Window - 1)
  BY <1>1 DEF TypeOK, LimiterTypeOK
<1>. DEFINE top == passed[0][k]
            new == [age |-> 0, kind |-> k, nth |-> top + 1]
<1>5. /\ top \in Nat /\ passed'[0][k] = top + 1
      /\ \A a \in 0..(Window - 1), j \in Kinds : a # 0 \/ j # k => passed'[a][j] = passed[a][j]
      /\ \A a \in 0..(Window - 1), j \in Kinds : passed[a][j] \in Nat
  BY <1>2, <1>4 DEF Passed
<1>6. LetThroughRecently(Kinds)' = LetThroughRecently(Kinds) \cup {new}
  <2>1. ASSUME NEW x
        PROVE  x \in LetThroughRecently(Kinds)' <=> x \in LetThroughRecently(Kinds) \/ x = new
    <3>1. x \in LetThroughRecently(Kinds)' <=>
            \E a \in 0..(Window - 1), j \in Kinds, n \in Nat :
              1 <= n /\ n <= passed'[a][j] /\ x = [age |-> a, kind |-> j, nth |-> n]
      BY RecentIs DEF LetThroughRecently, TypeOK, LimiterTypeOK
    <3>2. x \in LetThroughRecently(Kinds) <=>
            \E a \in 0..(Window - 1), j \in Kinds, n \in Nat :
              1 <= n /\ n <= passed[a][j] /\ x = [age |-> a, kind |-> j, nth |-> n]
      BY RecentIs DEF LetThroughRecently, TypeOK, LimiterTypeOK
    <3>3. ASSUME NEW a \in 0..(Window - 1), NEW j \in Kinds, NEW n \in Nat, 1 <= n,
                 n <= passed'[a][j], ~(n <= passed[a][j])
          PROVE  a = 0 /\ j = k /\ n = top + 1
      BY <1>5, <3>3
    <3>4. ASSUME NEW a \in 0..(Window - 1), NEW j \in Kinds, NEW n \in Nat, n <= passed[a][j]
          PROVE  n <= passed'[a][j]
      BY <1>5, <3>4
    <3>5. 1 <= top + 1 /\ top + 1 <= passed'[0][k] /\ top + 1 \in Nat
      BY <1>5
    <3>. HIDE DEF top
    <3>. QED BY <1>4, <3>1, <3>2, <3>3, <3>4, <3>5
  <2>. QED BY <2>1
<1>7. new.age = 0 /\ new.kind = k
  OBVIOUS
<1>. HIDE DEF new
<1>8. \A a, j : Charge(a, j)' = Charge(a, j)
  BY DEF Charge
<1>9. Charged(b)' = Charged(b) \cup {new} /\ \A c : c # b => Charged(c)' = Charged(c)
  BY <1>3, <1>6, <1>7, <1>8 DEF Charged
<1>10. /\ counter'[b].expires = now + Window /\ Cardinality(Charged(b)) \in Nat
       /\ Cardinality(Charged(b)) + 1 <= counter'[b].count /\ counter'[b].count <= Limit
       /\ \A c \in Buckets : c # b => counter'[c] = counter[c]
  BY ExecCounts
<1>11. Covered'
  <2>1. ASSUME NEW x \in LetThroughRecently(Kinds)'
        PROVE  /\ Charge(x.age, x.kind) \in Buckets
               /\ counter'[Charge(x.age, x.kind)].expires >= now - x.age + Window
    <3>1. CASE x = new
      BY <1>1, <1>3, <1>7, <1>10, <3>1
    <3>2. CASE x \in LetThroughRecently(Kinds)
      <4>1. /\ Charge(x.age, x.kind) \in Buckets
            /\ counter[Charge(x.age, x.kind)].expires >= now - x.age + Window
        BY <3>2 DEF Covered
      <4>2. x.age \in 0..(Window - 1)
        BY <3>2, RecentFields
      <4>3. CASE Charge(x.age, x.kind) = b
        BY <1>1, <1>10, <4>1, <4>2, <4>3
      <4>4. CASE Charge(x.age, x.kind) # b
        BY <1>10, <4>1, <4>4
      <4>. QED BY <4>3, <4>4
    <3>. QED BY <1>6, <2>1, <3>1, <3>2
  <2>. QED BY <1>8, <2>1 DEF Covered
<1>12. Budgeted'
  <2>1. ASSUME NEW c \in Buckets
        PROVE  /\ IsFiniteSet(Charged(c)') /\ Cardinality(Charged(c)') <= Limit
               /\ counter'[c].expires > now' => Cardinality(Charged(c)') <= counter'[c].count
    <3>1. CASE c # b
      BY <1>9, <1>10, <3>1 DEF Budgeted
    <3>2. CASE c = b
      <4>1. IsFiniteSet(Charged(b))
        BY DEF Budgeted
      <4>2. /\ IsFiniteSet(Charged(b)')
            /\ Cardinality(Charged(b)') = Cardinality(Charged(b))
               \/ Cardinality(Charged(b)') = Cardinality(Charged(b)) + 1
        BY <1>9, <4>1, FS_AddElement
      <4>3. counter'[b].count \in 0..(Limit + 1)
        BY DEF TypeOK, LimiterTypeOK, Counters
      <4>. QED BY <1>1, <1>10, <3>2, <4>2, <4>3
    <3>. QED BY <3>1, <3>2
  <2>. QED BY <2>1 DEF Budgeted
<1>. QED BY <1>11, <1>12

\* A tick moves the requests that passed one tick back, and the oldest out of the
\* span: what is left was charged to the same counters before.
LEMMA TickForgets ==
  ASSUME TypeOK, TypeOK', Covered, Budgeted, LimiterTick
  PROVE  Covered' /\ Budgeted'
<1>1. /\ Limit \in Nat /\ Window \in Nat \ {0} /\ now \in Nat /\ now' = now + 1
      /\ counter' = counter /\ passed \in [0..(Window - 1) -> Passed]
  BY NumberTypes, RateLimiterAssumption DEF LimiterTick, TypeOK, LimiterTypeOK
<1>2. passed' = [age \in 0..(Window - 1) |->
                   IF age = 0 THEN [kind \in Kinds |-> 0] ELSE passed[age - 1]]
  BY <1>1 DEF LimiterTick
<1>. DEFINE Back(x) == [age |-> x.age - 1, kind |-> x.kind, nth |-> x.nth]
<1>3. ASSUME NEW x \in LetThroughRecently(Kinds)'
      PROVE  /\ x.age \in 1..(Window - 1) /\ x = [age |-> x.age, kind |-> x.kind, nth |-> x.nth]
             /\ Back(x) \in LetThroughRecently(Kinds)
             /\ Charge(x.age - 1, x.kind) = Bucket(now' - x.age) - (IF x.kind = "late" THEN 1 ELSE 0)
  <2>1. PICK a \in 0..(Window - 1), k \in Kinds, n \in Nat :
          1 <= n /\ n <= passed'[a][k] /\ x = [age |-> a, kind |-> k, nth |-> n]
    BY RecentIs DEF LetThroughRecently, TypeOK, LimiterTypeOK
  <2>2. a # 0
    BY <1>1, <1>2, <2>1
  <2>3. a - 1 \in 0..(Window - 1) /\ a \in 1..(Window - 1)
    BY <1>1, <2>1, <2>2
  <2>4. passed'[a][k] = passed[a - 1][k]
    BY <1>2, <2>2
  <2>5. \E c \in 0..(Window - 1), j \in Kinds, m \in Nat :
          /\ 1 <= m /\ m <= passed[c][j]
          /\ [age |-> a - 1, kind |-> k, nth |-> n] = [age |-> c, kind |-> j, nth |-> m]
    BY <2>1, <2>3, <2>4
  <2>6. [age |-> a - 1, kind |-> k, nth |-> n] \in LetThroughRecently(Kinds)
    BY <1>1, <2>5, RecentIs DEF LetThroughRecently
  <2>7. x.age = a /\ x.kind = k /\ x.nth = n
    BY <2>1
  <2>8. now - (a - 1) = now' - a
    BY <1>1, <2>3
  <2>. QED BY <2>1, <2>3, <2>6, <2>7, <2>8 DEF Charge
<1>4. Covered'
  <2>1. ASSUME NEW x \in LetThroughRecently(Kinds)'
        PROVE  LET c == Bucket(now' - x.age) - (IF x.kind = "late" THEN 1 ELSE 0)
               IN  c \in Buckets /\ counter'[c].expires >= now' - x.age + Window
    <3>. DEFINE y == Back(x)
                c == Bucket(now' - x.age) - (IF x.kind = "late" THEN 1 ELSE 0)
    <3>1. y \in LetThroughRecently(Kinds) /\ y.age = x.age - 1 /\ y.kind = x.kind
          /\ x.age \in 1..(Window - 1) /\ Charge(x.age - 1, x.kind) = c
      BY <1>3
    <3>. HIDE DEF y, c
    <3>2. Charge(y.age, y.kind) = c
      BY <3>1
    <3>3. c \in Buckets /\ counter[c].expires >= now - y.age + Window
      BY <3>1, <3>2 DEF Covered
    <3>4. now - y.age + Window = now' - x.age + Window
      <4>1. y.age = x.age - 1 /\ x.age \in Int /\ now \in Int /\ Window \in Int /\ now' = now + 1
        BY <1>1, <3>1
      <4>. QED BY <4>1
    <3>5. c \in Buckets /\ counter'[c].expires >= now' - x.age + Window
      BY <1>1, <3>3, <3>4
    <3>. QED BY <3>5 DEF c
  <2>. QED BY <2>1 DEF Covered, Charge
<1>5. ASSUME NEW b \in Buckets
      PROVE  IsFiniteSet(Charged(b)') /\ Cardinality(Charged(b)') <= Cardinality(Charged(b))
  <2>. DEFINE f == [x \in Charged(b)' |-> Back(x)]
  <2>1. ASSUME NEW x \in Charged(b)' PROVE Back(x) \in Charged(b)
    <3>1. /\ x \in LetThroughRecently(Kinds)'
          /\ Bucket(now' - x.age) - (IF x.kind = "late" THEN 1 ELSE 0) = b
      BY <2>1 DEF Charged, Charge
    <3>2. Back(x) \in LetThroughRecently(Kinds) /\ Charge(x.age - 1, x.kind) = b
      BY <1>3, <3>1
    <3>3. Back(x).age = x.age - 1 /\ Back(x).kind = x.kind
      OBVIOUS
    <3>. QED BY <3>2, <3>3 DEF Charged
  <2>2. ASSUME NEW x \in Charged(b)', NEW y \in Charged(b)', Back(x) = Back(y) PROVE x = y
    <3>1. /\ x.age \in 1..(Window - 1) /\ x = [age |-> x.age, kind |-> x.kind, nth |-> x.nth]
          /\ y.age \in 1..(Window - 1) /\ y = [age |-> y.age, kind |-> y.kind, nth |-> y.nth]
      BY <1>3, <2>2 DEF Charged
    <3>2. x.age - 1 = y.age - 1 /\ x.kind = y.kind /\ x.nth = y.nth
      BY <2>2
    <3>3. x.age = y.age
      BY <1>1, <3>1, <3>2
    <3>. QED BY <3>1, <3>2, <3>3
  <2>3. f \in Injection(Charged(b)', Charged(b))
    <3>1. f \in [Charged(b)' -> Charged(b)]
      BY <2>1
    <3>2. \A x, y \in Charged(b)' : f[x] = f[y] => x = y
      BY <2>2
    <3>. HIDE DEF f
    <3>. QED BY <3>1, <3>2 DEF Injection, IsInjective
  <2>4. IsFiniteSet(Charged(b))
    BY DEF Budgeted
  <2>. HIDE DEF f
  <2>. QED BY <2>3, <2>4, FS_Injection
<1>6. Budgeted'
  <2>1. ASSUME NEW b \in Buckets
        PROVE  /\ IsFiniteSet(Charged(b)') /\ Cardinality(Charged(b)') <= Limit
               /\ counter'[b].expires > now' => Cardinality(Charged(b)') <= counter'[b].count
    <3>1. IsFiniteSet(Charged(b)') /\ Cardinality(Charged(b)') <= Cardinality(Charged(b))
      BY <1>5
    <3>2. /\ IsFiniteSet(Charged(b)) /\ Cardinality(Charged(b)) <= Limit
          /\ counter[b].expires > now => Cardinality(Charged(b)) <= counter[b].count
      BY DEF Budgeted
    <3>3. Cardinality(Charged(b)) \in Nat /\ Cardinality(Charged(b)') \in Nat
      BY <3>1, <3>2, FS_CardinalityType
    <3>4. counter[b].expires \in 0..(MaxTime + Window) /\ counter[b].count \in 0..(Limit + 1)
      BY DEF TypeOK, LimiterTypeOK, Counters
    <3>. QED BY <1>1, <3>1, <3>2, <3>3, <3>4, RateLimiterAssumption
  <2>. QED BY <2>1 DEF Budgeted
<1>. QED BY <1>4, <1>6

\* A window later is the next window at the latest.
LEMMA NextWindow ==
  ASSUME NEW t \in Int, NEW u \in Int, u <= t + Window
  PROVE  Bucket(u) <= Bucket(t) + 1 /\ Bucket(u) \in Int /\ Bucket(t) \in Int
<1>1. Window \in Nat \ {0}
  BY RateLimiterAssumption
<1>. DEFINE x == Bucket(t)
            y == Bucket(u)
<1>2. /\ x \in Int /\ t < Window * x + Window
      /\ y \in Int /\ Window * y <= u
  BY <1>1, Division DEF Bucket
<1>. HIDE DEF x, y
<1>3. ASSUME x + 2 <= y PROVE FALSE
  <2>1. Window * x + Window <= Window * (x + 1) /\ Window * (x + 1) + Window <= Window * y
    BY <1>1, <1>2, <1>3, Product
  <2>2. Window * x \in Int /\ Window * y \in Int /\ Window * (x + 1) \in Int
    BY <1>1, <1>2
  <2>. QED BY <1>1, <1>2, <2>1, <2>2
<1>4. y <= x + 1
  BY <1>2, <1>3
<1>. QED BY <1>2, <1>4 DEF x, y

\* A request names its window after it arrives, and windows only come later.
LEMMA NamedKept ==
  ASSUME IInv, NamedInTime, [EdgeNext]_edgeVars
  PROVE  NamedInTime'
<1>1. TypeOK /\ now \in Int
  BY NumberTypes DEF IInv
<1>2. ASSUME now' \in Int, now <= now',
             \A e \in Deliveries : req'[e].pc = "count" => req'[e] = req[e]
      PROVE  NamedInTime'
  <2>1. ASSUME NEW e \in Deliveries, req'[e].pc = "count"
        PROVE  Bucket(req'[e].since) <= req'[e].bucket /\ req'[e].bucket <= Bucket(now')
    <3>1. req'[e] = req[e] /\ req[e].pc = "count"
      BY <1>2, <2>1
    <3>2. Bucket(req[e].since) <= req[e].bucket /\ req[e].bucket <= Bucket(now)
      BY <3>1 DEF NamedInTime
    <3>3. Bucket(now) \in Int /\ Bucket(now') \in Int /\ Bucket(now) <= Bucket(now')
      BY <1>1, <1>2, BucketMonotone
    <3>4. req[e].bucket \in Int
      BY <1>1, <3>1, InChainType DEF Buckets
    <3>. QED BY <3>1, <3>2, <3>3, <3>4
  <2>. QED BY <2>1 DEF NamedInTime, Bucket
<1>3. CASE UNCHANGED edgeVars
  BY <1>1, <1>2, <1>3 DEF edgeVars, limiterVars
<1>4. CASE Tick
  BY <1>1, <1>2, <1>4 DEF Tick, LimiterTick
<1>5. CASE Merchant
  BY <1>1, <1>2, <1>5 DEF Merchant, limiterVars
<1>6. ASSUME NEW d \in Deliveries, ReadClock(d) PROVE NamedInTime'
  <2>1. req[d] \in RequestStates /\ req[d].since \in Nat /\ req[d].since <= now
    BY <1>1, <1>6, InChainType DEF ReadClock, IInv, AllAdmitted, InChain, Admitted
  <2>2. /\ req'[d].bucket = Bucket(now) /\ req'[d].since = req[d].since
        /\ \A e \in Deliveries : e # d => req'[e] = req[e]
    BY <1>1, <1>6, <2>1 DEF ReadClock, TypeOK, RequestStates
  <2>3. Bucket(req[d].since) <= Bucket(now) /\ Bucket(now) <= Bucket(now)
    BY <1>1, <2>1, BucketMonotone
  <2>4. now' = now
    BY <1>6 DEF ReadClock, limiterVars
  <2>5. ASSUME NEW e \in Deliveries, req'[e].pc = "count"
        PROVE  Bucket(req'[e].since) <= req'[e].bucket /\ req'[e].bucket <= Bucket(now')
    <3>1. CASE e = d
      BY <2>2, <2>3, <2>4, <3>1
    <3>2. CASE e # d
      BY <2>2, <2>4, <2>5, <3>2 DEF NamedInTime
    <3>. QED BY <3>1, <3>2
  <2>. QED BY <2>5 DEF NamedInTime, Bucket
<1>7. ASSUME NEW d \in Deliveries, Serve(d), ~ReadClock(d) PROVE NamedInTime'
  <2>1. now' = now
    BY <1>7 DEF Serve, Auth, Count, FailOpen, Begin, Answer, ServerError, Crash, limiterVars
  <2>2. req'[d].pc # "count" /\ \A e \in Deliveries : e # d => req'[e] = req[e]
    <3>1. CASE Auth(d)
      BY <1>1, <3>1 DEF Auth, TypeOK
    <3>2. CASE Leave(d)
      BY <1>1, <3>2 DEF Leave, NoRequest, TypeOK
    <3>3. ASSUME NEW at \in {"begin", "handler"}, GoTo(d, at), req[d].pc # "idle"
          PROVE  req'[d].pc # "count" /\ \A e \in Deliveries : e # d => req'[e] = req[e]
      BY <1>1, <3>3, GoToType DEF RestKept
    <3>4. CASE Count(d) \/ FailOpen(d)
      BY <3>2, <3>3, <3>4 DEF Count, FailOpen
    <3>5. CASE Begin(d)
      BY <3>2, <3>3, <3>5 DEF Begin
    <3>6. CASE Answer(d) \/ ServerError(d) \/ Crash(d)
      BY <3>2, <3>6 DEF Answer, ServerError, Crash
    <3>. QED BY <1>7, <3>1, <3>4, <3>5, <3>6 DEF Serve
  <2>. QED BY <1>1, <1>2, <2>1, <2>2
<1>. QED BY <1>3, <1>4, <1>5, <1>6, <1>7 DEF EdgeNext

\* Every step keeps the counters' account of what passed.
LEMMA BurstStep ==
  ASSUME BurstInv, [EdgeNext]_edgeVars
  PROVE  BurstInv'
<1>1. IInv /\ TypeOK /\ Covered /\ Budgeted /\ IInv' /\ TypeOK' /\ NamedInTime'
  BY IInvStep, NamedKept DEF BurstInv, IInv
<1>2. ASSUME UNCHANGED limiterVars PROVE Covered' /\ Budgeted'
  BY <1>1, <1>2, CountersGrow DEF limiterVars, Budgeted
<1>3. CASE Tick
  BY <1>1, <1>3, TickForgets DEF Tick, BurstInv
<1>4. CASE UNCHANGED edgeVars \/ Merchant
  BY <1>1, <1>2, <1>4 DEF edgeVars, Merchant, BurstInv
<1>5. ASSUME NEW d \in Deliveries, Serve(d) PROVE Covered' /\ Budgeted'
  <2>1. CASE Auth(d) \/ ReadClock(d) \/ Begin(d) \/ Answer(d) \/ ServerError(d) \/ Crash(d)
    BY <1>2, <2>1 DEF Auth, ReadClock, Begin, Answer, ServerError, Crash
  <2>2. CASE FailOpen(d)
    <3>1. req[d].bucket \in Buckets
      BY <1>1, <2>2, InChainType DEF FailOpen
    <3>. QED BY <1>1, <1>2, <2>2, <3>1, ExecAlone DEF FailOpen, limiterVars
  <2>3. CASE Count(d)
    <3>1. /\ req[d].pc = "count" /\ req[d].bucket \in Buckets /\ req[d].since \in Nat
          /\ now \in Nat /\ Admitted(d) /\ RequestTimeout \in Nat
      BY <1>1, <2>3, InChainType, NumberTypes DEF Count, IInv, AllAdmitted, InChain
    <3>2. req[d].bucket \in {Bucket(now), Bucket(now) - 1}
      <4>1. now <= req[d].since + Window
        BY <3>1, WindowAssumption, RateLimiterAssumption DEF Admitted
      <4>2. /\ Bucket(now) <= Bucket(req[d].since) + 1
            /\ Bucket(now) \in Int /\ Bucket(req[d].since) \in Int
        BY <3>1, <4>1, NextWindow
      <4>3. Bucket(req[d].since) <= req[d].bucket /\ req[d].bucket <= Bucket(now)
        BY <3>1 DEF BurstInv, NamedInTime
      <4>4. req[d].bucket \in Int
        BY <3>1 DEF Buckets
      <4>. QED BY <4>2, <4>3, <4>4
    <3>3. CASE Allowed(req[d].bucket)
      BY <1>1, <2>3, <3>1, <3>2, <3>3, ExecLetsThrough DEF Count
    <3>4. CASE ~Allowed(req[d].bucket)
      BY <1>1, <2>3, <3>1, <3>4, ExecAlone DEF Count
    <3>. QED BY <3>3, <3>4
  <2>. QED BY <1>5, <2>1, <2>2, <2>3 DEF Serve
<1>. QED BY <1>1, <1>3, <1>4, <1>5 DEF EdgeNext, BurstInv

\* Two finite sets together have at most the elements of both.
LEMMA UnionBound ==
  ASSUME NEW S, NEW T, IsFiniteSet(S), IsFiniteSet(T), NEW m \in Nat, NEW n \in Nat,
         Cardinality(S) <= m, Cardinality(T) <= n
  PROVE  /\ IsFiniteSet(S \cup T) /\ Cardinality(S \cup T) \in Nat
         /\ Cardinality(S \cup T) <= m + n
<1>1. IsFiniteSet(S \cap T)
  BY FS_Subset
<1>2. /\ IsFiniteSet(S \cup T)
      /\ Cardinality(S \cup T) = Cardinality(S) + Cardinality(T) - Cardinality(S \cap T)
  BY FS_Union
<1>3. /\ Cardinality(S \cap T) \in Nat /\ Cardinality(S) \in Nat /\ Cardinality(T) \in Nat
      /\ Cardinality(S \cup T) \in Nat
  BY <1>1, <1>2, FS_CardinalityType
<1>. QED BY <1>2, <1>3

\* The span of a window meets two windows, and their requests are charged to
\* three counters.
LEMMA BurstFollows ==
  ASSUME BurstInv
  PROVE  BurstBounded
<1>1. /\ TypeOK /\ Covered /\ Budgeted /\ now \in Int /\ Limit \in Nat /\ Window \in Nat \ {0}
  BY NumberTypes, RateLimiterAssumption DEF BurstInv, IInv
<1>. DEFINE B == Bucket(now)
<1>2. ASSUME NEW b
      PROVE  IsFiniteSet(Charged(b)) /\ Cardinality(Charged(b)) \in Nat
             /\ Cardinality(Charged(b)) <= Limit
  <2>1. CASE b \in Buckets
    BY <1>1, <2>1, FS_CardinalityType DEF Budgeted
  <2>2. CASE b \notin Buckets
    <3>1. Charged(b) = {}
      BY <1>1, <2>2 DEF Charged, Covered
    <3>. QED BY <1>1, <3>1, FS_EmptySet
  <2>. QED BY <2>1, <2>2
<1>3. ASSUME NEW a \in 0..(Window - 1)
      PROVE  Bucket(now - a) \in {B, B - 1} /\ B \in Int
  <2>1. now - a \in Int /\ now - a <= now /\ now <= (now - a) + Window
    BY <1>1
  <2>2. /\ Bucket(now - a) <= B /\ B <= Bucket(now - a) + 1
        /\ B \in Int /\ Bucket(now - a) \in Int
    BY <1>1, <2>1, BucketMonotone, NextWindow
  <2>. QED BY <2>2
<1>. DEFINE U == Charged(B) \cup Charged(B - 1)
            V == U \cup Charged(B - 2)
<1>4. LetThroughRecently({"fresh"}) \subseteq U
  <2>1. ASSUME NEW x \in LetThroughRecently({"fresh"})
        PROVE  x \in LetThroughRecently(Kinds) /\ Charge(x.age, x.kind) \in {B, B - 1}
    <3>1. x.age \in 0..(Window - 1) /\ x.kind = "fresh"
      BY <1>1, <2>1, RecentFields DEF Kinds
    <3>2. x \in LetThroughRecently(Kinds)
      BY <2>1 DEF LetThroughRecently, Kinds
    <3>3. Bucket(now - x.age) \in {B, B - 1} /\ B \in Int
      BY <1>3, <3>1
    <3>. QED BY <3>1, <3>2, <3>3 DEF Charge
  <2>. QED BY <2>1 DEF Charged
<1>5. LetThroughRecently(Kinds) \subseteq V
  <2>1. ASSUME NEW x \in LetThroughRecently(Kinds)
        PROVE  Charge(x.age, x.kind) \in {B, B - 1, B - 2}
    <3>1. x.age \in 0..(Window - 1)
      BY <1>1, <2>1, RecentFields
    <3>2. Bucket(now - x.age) \in {B, B - 1} /\ B \in Int
      BY <1>3, <3>1
    <3>. QED BY <3>2 DEF Charge
  <2>. QED BY <2>1 DEF Charged
<1>6. IsFiniteSet(U) /\ Cardinality(U) \in Nat /\ Cardinality(U) <= 2 * Limit
  <2>1. /\ IsFiniteSet(Charged(B)) /\ Cardinality(Charged(B)) <= Limit
        /\ IsFiniteSet(Charged(B - 1)) /\ Cardinality(Charged(B - 1)) <= Limit
    BY <1>2
  <2>2. IsFiniteSet(U) /\ Cardinality(U) \in Nat /\ Cardinality(U) <= Limit + Limit
    BY <1>1, <2>1, UnionBound
  <2>. HIDE DEF U
  <2>. QED BY <1>1, <2>2
<1>7. IsFiniteSet(V) /\ Cardinality(V) \in Nat /\ Cardinality(V) <= 3 * Limit
  <2>1. IsFiniteSet(Charged(B - 2)) /\ Cardinality(Charged(B - 2)) <= Limit
    BY <1>2
  <2>. DEFINE twice == 2 * Limit
  <2>2. twice \in Nat
    BY <1>1
  <2>. HIDE DEF U, twice
  <2>3. Cardinality(U) <= twice
    BY <1>6 DEF twice
  <2>4. IsFiniteSet(V) /\ Cardinality(V) \in Nat /\ Cardinality(V) <= twice + Limit
    BY <1>1, <1>6, <2>1, <2>2, <2>3, UnionBound
  <2>. HIDE DEF V
  <2>. QED BY <1>1, <2>4 DEF twice
<1>. HIDE DEF U, V
<1>8. Cardinality(LetThroughRecently({"fresh"})) <= 2 * Limit
  <2>1. /\ IsFiniteSet(LetThroughRecently({"fresh"}))
        /\ Cardinality(LetThroughRecently({"fresh"})) <= Cardinality(U)
    BY <1>4, <1>6, FS_Subset
  <2>. QED BY <1>1, <1>6, <2>1, FS_CardinalityType
<1>9. Cardinality(LetThroughRecently(Kinds)) <= 3 * Limit
  <2>1. /\ IsFiniteSet(LetThroughRecently(Kinds))
        /\ Cardinality(LetThroughRecently(Kinds)) <= Cardinality(V)
    BY <1>5, <1>7, FS_Subset
  <2>. QED BY <1>1, <1>7, <2>1, FS_CardinalityType
<1>. QED BY <1>8, <1>9 DEF BurstBounded

\* "The burst is bounded": whatever requests are delayed past the end of the
\* window they named, at most twice the limit passes in the span of a window of
\* those counted in time, and three times the limit of all that are counted.
THEOREM BurstIsBounded == EdgeSpec => []BurstBounded
<1>1. EdgeInit => BurstInv
  <2>. SUFFICES ASSUME EdgeInit PROVE BurstInv
    OBVIOUS
  <2>1. IInv /\ TypeOK
    BY IInvInit DEF IInv
  <2>2. LetThroughRecently(Kinds) = {}
    <3>1. \A a \in 0..(Window - 1), k \in Kinds : passed[a][k] = 0
      BY DEF EdgeInit, LimiterInit
    <3>2. ASSUME NEW x \in LetThroughRecently(Kinds) PROVE FALSE
      <4>1. x.age \in 0..(Window - 1) /\ x.kind \in Kinds /\ x.nth \in Nat /\ 1 <= x.nth
            /\ x.nth <= passed[x.age][x.kind]
        BY <2>1, <3>2, RecentFields
      <4>. QED BY <3>1, <4>1
    <3>. QED BY <3>2
  <2>3. Covered
    BY <2>2 DEF Covered
  <2>4. \A b : Charged(b) = {}
    BY <2>2 DEF Charged
  <2>5. Budgeted
    <3>1. \A b \in Buckets : counter[b].count = 0
      BY DEF EdgeInit, LimiterInit
    <3>2. Limit \in Nat
      BY RateLimiterAssumption
    <3>. QED BY <2>4, <3>1, <3>2, FS_EmptySet DEF Budgeted
  <2>6. NamedInTime
    BY DEF EdgeInit, NoRequest, NamedInTime
  <2>. QED BY <2>1, <2>3, <2>5, <2>6 DEF BurstInv
<1>2. BurstInv /\ [EdgeNext]_edgeVars => BurstInv'
  BY BurstStep
<1>3. BurstInv => BurstBounded
  BY BurstFollows
<1>. QED BY <1>1, <1>2, <1>3, PTL DEF EdgeSpec

=============================================================================
