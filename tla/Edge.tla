-------------------------------- MODULE Edge --------------------------------
(***************************************************************************)
(* The middleware chain of the money-moving routes                         *)
(* (internal/transport/http/router.go): Auth, then RateLimit, then         *)
(* Idempotency, then the handler.  The network may deliver a signed        *)
(* message late, several times and to several processes at once; each      *)
(* delivery is a request with the router's timeout.                        *)
(*                                                                         *)
(* Here the idempotency key matters for its TTL (Idempotency models its    *)
(* commands): the key must outlive every copy of the message that can      *)
(* still pass authentication.                                              *)
(***************************************************************************)
EXTENDS RateLimiter, Merchants

CONSTANTS
  Deliveries,      \* requests served at the same time
  RequestTimeout,  \* the router's timeout of 30s
  KeyTTL           \* IDEMPOTENCY_TTL

\* 24 hours against 5 minutes and 30 seconds; config.Load checks neither.
ASSUME EdgeAssumption ==
  /\ RequestTimeout \in Nat
  /\ KeyTTL \in Nat
  /\ KeyTTL > 2 * ClockSkew + RequestTimeout

\* 30 seconds against the minute that app.New gives the limiter.
ASSUME WindowAssumption == RequestTimeout <= Window

VARIABLES
  req,     \* the requests in the chain
  key,     \* the idempotency key of each message
  finals   \* final answers given to each message (history)

edgeVars == <<limiterVars, merchantVars, req, key, finals>>

NoRequest == [pc |-> "idle"]

\* since: when it arrived; bucket: the window it is counted in.
RequestStates ==
  [pc : {"limit", "count", "begin", "handler"}, msg : Messages,
   since : 0..MaxTime, bucket : Buckets]

KeyStates == [held : BOOLEAN, expires : 0..(MaxTime + KeyTTL)]

EdgeInit ==
  /\ LimiterInit
  /\ MerchantsInit
  /\ req = [d \in Deliveries |-> NoRequest]
  /\ key = [m \in Messages |-> [held |-> FALSE, expires |-> 0]]
  /\ finals = [m \in Messages |-> 0]

GoTo(d, pc) == req' = [req EXCEPT ![d].pc = pc]
Leave(d) == req' = [req EXCEPT ![d] = NoRequest]

\* A Redis key with a TTL is there until it expires.
Alive(m) == key[m].held /\ key[m].expires > now

-----------------------------------------------------------------------------

\* Auth: a copy of a signed message arrives and verifies.  401 and 403 are not
\* steps.
Auth(d) ==
  /\ req[d] = NoRequest
  /\ \E m \in Messages :
       /\ Authenticate(m, now)
       /\ req' = [req EXCEPT ![d] = [pc |-> "limit", msg |-> m, since |-> now, bucket |-> 0]]
  /\ UNCHANGED <<limiterVars, merchantVars, key, finals>>

\* Mutant: the window is named by its end.
ReadClockRoundingUp(d) ==
  /\ req[d].pc = "limit"
  /\ req' = [req EXCEPT ![d].pc = "count", ![d].bucket = Bucket(now + Window - 1)]
  /\ UNCHANGED <<limiterVars, merchantVars, key, finals>>

\* Allow, up to the pipeline: the clock names the window.
ReadClock(d) ==
  /\ req[d].pc = "limit"
  /\ req' = [req EXCEPT ![d].pc = "count", ![d].bucket = Bucket(now)]
  /\ UNCHANGED <<limiterVars, merchantVars, key, finals>>

\* Allow, the pipeline: the request is counted and passes, or is answered 429.
Count(d) ==
  LET b == req[d].bucket
  IN  /\ req[d].pc = "count"
      /\ Exec(b)
      /\ IF Allowed(b) THEN LetThrough(b) /\ GoTo(d, "begin")
                       ELSE UNCHANGED passed /\ Leave(d)
      /\ UNCHANGED <<now, merchantVars, key, finals>>

\* Redis fails, perhaps after counting: the request passes unlimited.
FailOpen(d) ==
  /\ req[d].pc = "count"
  /\ Exec(req[d].bucket) \/ UNCHANGED counter
  /\ GoTo(d, "begin")
  /\ UNCHANGED <<now, passed, merchantVars, key, finals>>

\* Begin: SET NX with the TTL; a key that is there is answered from (409, or
\* the stored response).
Begin(d) ==
  LET m == req[d].msg
  IN  /\ req[d].pc = "begin"
      /\ IF Alive(m)
         THEN Leave(d) /\ UNCHANGED key
         ELSE /\ key' = [key EXCEPT ![m] = [held |-> TRUE, expires |-> now + KeyTTL]]
              /\ GoTo(d, "handler")
      /\ UNCHANGED <<limiterVars, merchantVars, finals>>

\* An answer below 500 is final; storing it renews the TTL, or fails.
Answer(d) ==
  LET m == req[d].msg
  IN  /\ req[d].pc = "handler"
      /\ finals' = [finals EXCEPT ![m] = @ + 1]
      /\ \/ key' = [key EXCEPT ![m] = [held |-> TRUE, expires |-> now + KeyTTL]]
         \/ UNCHANGED key
      /\ Leave(d)
      /\ UNCHANGED <<limiterVars, merchantVars>>

\* A 5xx: the key is released.
ServerError(d) ==
  LET m == req[d].msg
  IN  /\ req[d].pc = "handler"
      /\ key' = [key EXCEPT ![m].held = FALSE]
      /\ Leave(d)
      /\ UNCHANGED <<limiterVars, merchantVars, finals>>

\* The process dies.
Crash(d) ==
  /\ req[d] # NoRequest
  /\ Leave(d)
  /\ UNCHANGED <<limiterVars, merchantVars, key, finals>>

\* No request outlives its timeout.
Tick ==
  /\ \A d \in Deliveries : req[d] # NoRequest => now < req[d].since + RequestTimeout
  /\ LimiterTick
  /\ UNCHANGED <<merchantVars, req, key, finals>>

Merchant ==
  /\ CreateMerchant \/ SetStatus \/ \E m \in Messages : Sign(m, now)
  /\ UNCHANGED <<limiterVars, req, key, finals>>

Serve(d) ==
  \/ Auth(d) \/ ReadClock(d) \/ Count(d) \/ FailOpen(d)
  \/ Begin(d) \/ Answer(d) \/ ServerError(d) \/ Crash(d)

EdgeNext == Tick \/ Merchant \/ \E d \in Deliveries : Serve(d)

EdgeSpec == EdgeInit /\ [][EdgeNext]_edgeVars

-----------------------------------------------------------------------------
(* What must hold.                                                         *)

TypeOK ==
  /\ LimiterTypeOK
  /\ MerchantsTypeOK
  /\ req \in [Deliveries -> RequestStates \cup {NoRequest}]
  /\ key \in [Messages -> KeyStates]
  /\ finals \in [Messages -> Nat]

\* A signed request is answered for good at most once, however often and however
\* late the network delivers it: by the time its idempotency key has expired,
\* its timestamp is too old to authenticate.
OncePerSignature == \A m \in Messages : finals[m] <= 1

=============================================================================
