-------------------------- MODULE PaymentApiProofs --------------------------
(***************************************************************************)
(* A retried money-moving request charges at most once, and the final      *)
(* answer of a key tells what is in the books and what became of an order: *)
(* proved for any number of requests, keys, payments and amounts, and with *)
(* every fault of the middleware and of the service but a lost COMMIT      *)
(* acknowledgement, which breaks all three.                                *)
(*                                                                         *)
(* The argument joins the two halves.  The middleware's half is the        *)
(* invariant of IdempotencyProofs: a key has one owner, and none that may  *)
(* still answer once it was answered.  The service's half is that a call   *)
(* is open only while its request is inside the handler, and that a commit *)
(* of money ends the handler in the same step.  So in one life of a key    *)
(* money is booked by the step that ends the life's only unanswered owner. *)
(* What an answer says of an order needs the row lock besides: whoever     *)
(* commits has read the row as it is, so a payment is authorized once.     *)
(***************************************************************************)
EXTENDS PaymentApi, IdempotencyProofs

-----------------------------------------------------------------------------
(* The inductive invariant.                                                *)

\* A service call is a record with these fields.
IsCall(s) ==
  s = [pc |-> s.pc, op |-> s.op, txn |-> s.txn, amount |-> s.amount, auto |-> s.auto]

\* The service call s is one that the route of request m makes.
CallFits(s, m) ==
  /\ \/ m.path.op = "create" /\ s.op \in {"authorize", "fail"} /\ s.auto = m.body.capture
     \/ m.path.op = "create" /\ s.op = "capture" /\ ~s.auto /\ m.body.capture
     \/ m.path.op \in {"capture", "refund"} /\ s.op = m.path.op /\ ~s.auto
  /\ s.pc = "autocapture" => m.path.op = "create" /\ m.body.capture

\* The call is one that may still authorize its payment, or fail it.
Ordering(s) == s.op \in {"authorize", "fail"} /\ s.pc # "autocapture"

\* A call is open only inside the handler of its request.
CallsOpen ==
  /\ DOMAIN serving = Requests
  /\ \A r \in Requests :
       /\ IsCall(serving[r])
       /\ serving[r].pc \notin P!Resting => req[r].pc = "handler" /\ CallFits(serving[r], req[r])

\* Every run has a number of its own, and one that is still inside the handler
\* was not answered.
RunsFresh ==
  /\ \A f \in final : f.run <= runs
  /\ \A r \in Requests : Owns(r) => req[r].run \in 1..runs
  /\ \A r, q \in Requests : Owns(r) /\ Owns(q) /\ req[r].run = req[q].run => r = q
  /\ \A r \in Requests : req[r].pc = "handler" => \A f \in final : f.run # req[r].run

\* Money is booked at most once in a life of a key, and not before the life is
\* answered or its owner has died.
BookingsCounted ==
  \A k \in Keys :
    /\ Cardinality(Booked(k)) <= 1 + expired[k]
    /\ Unanswered(k) => Cardinality(Booked(k)) <= expired[k]

ApiInv ==
  /\ IInv
  /\ IsFiniteSet(effects)
  /\ DOMAIN answer = 1..MaxRuns
  /\ CallsOpen
  /\ RunsFresh
  /\ BookingsCounted
  /\ AnswerTellsBooks

-----------------------------------------------------------------------------
(* What a step of the API is to the middleware.                            *)

\* Nothing the service does is seen by the middleware but the end of a handler:
\* every step of the API is a step of the protocol or none.
LEMMA ApiStepIsStep ==
  ASSUME [ApiNext]_apiVars
  PROVE  [Next]_vars
<1>1. ASSUME NEW r \in Requests, ApiArrive(r) PROVE Next
  BY <1>1 DEF ApiArrive, Next
<1>2. ASSUME NEW r \in Requests, Middleware(r) PROVE Next
  BY <1>2 DEF Middleware, Next, Advance, Disturb
<1>3. ASSUME NEW r \in Requests, Handler(r) PROVE [Next]_vars
  <2>1. CASE HandlerStarts(r) \/ HandlerWaits(r) \/ HandlerAuthorizes(r)
    BY <2>1 DEF HandlerStarts, HandlerWaits, HandlerAuthorizes
  <2>2. CASE HandlerRefuses(r) \/ HandlerDeclines(r) \/ HandlerLoses(r) \/ HandlerBreaks(r)
    <3>1. HandlerAnswers(r) \/ HandlerFails(r)
      BY <2>2 DEF HandlerRefuses, HandlerDeclines, HandlerLoses, HandlerBreaks, Respond,
                  RespondServerError
    <3>. QED BY <3>1 DEF Next, Advance
  <2>3. CASE HandlerSucceeds(r)
    <3>1. HandlerAnswers(r) \/ HandlerFails(r) \/ Crash(r)
      BY <2>3 DEF HandlerSucceeds, Respond, RespondServerError
    <3>. QED BY <3>1 DEF Next, Advance, Disturb
  <2>. QED BY <1>3, <2>1, <2>2, <2>3 DEF Handler
<1>4. ASSUME NEW r \in Requests, ApiCrash(r) PROVE Next
  BY <1>4 DEF ApiCrash, Next, Disturb
<1>5. ASSUME NEW k \in Keys, KeyExpires(k) PROVE Next
  BY <1>5 DEF KeyExpires, Next
<1>6. CASE UNCHANGED apiVars
  BY <1>6 DEF apiVars
<1>. QED BY <1>1, <1>2, <1>3, <1>4, <1>5, <1>6 DEF ApiNext

\* The owner of a key that is still inside the handler has not been answered.
LEMMA HandlerUnanswered ==
  ASSUME IInv, NEW r \in Requests, req[r].pc = "handler"
  PROVE  /\ req[r] \in RequestState /\ req[r].key \in Keys /\ req[r].run \in 1..MaxRuns
         /\ Owns(r) /\ r \in Owning(req[r].key) /\ Unanswered(req[r].key)
<1>1. req[r] \in RequestState
  BY Inside DEF IInv
<1>2. Owns(r) /\ r \in Owning(req[r].key)
  BY DEF Owns, Owning
<1>3. req[r].run \in 1..MaxRuns
  <2>1. req[r].key \in Keys
    BY <1>1 DEF RequestState
  <2>2. store[req[r].key] =
          [state |-> "in_progress", fingerprint |-> req[r].body, run |-> req[r].run]
    BY <1>2 DEF IInv, ClaimHeld
  <2>3. store[req[r].key] \in Record
    BY <2>1, <2>2 DEF IInv, TypeOK, Absent
  <2>. QED BY <2>2, <2>3 DEF Record
<1>. QED BY <1>1, <1>2, <1>3 DEF RequestState, Unanswered

\* Once the handler has answered or died the life of the key is over: nobody else
\* may answer until the key has gone.
LEMMA LifeEnds ==
  ASSUME IInv, NEW r \in Requests, req[r].pc = "handler", HandlerAnswers(r) \/ Crash(r),
         NEW k \in Keys, k = req[r].key
  PROVE  ~Unanswered(k)'
<1>1. Owns(r) /\ req[r] \in RequestState
  BY HandlerUnanswered
<1>2. store' = store /\ store[k] # Absent
  <2>1. store' = store
    BY DEF HandlerAnswers, Crash
  <2>2. store[k] = [state |-> "in_progress", fingerprint |-> req[r].body, run |-> req[r].run]
    BY <1>1 DEF IInv, ClaimHeld
  <2>3. store[k].state = "in_progress"
    BY <2>2
  <2>. QED BY <2>1, <2>3 DEF Absent
<1>3. /\ \A q \in Requests : q # r => req'[q] = req[q]
      /\ req'[r].pc \in {"complete", "idle"} /\ (req'[r].pc = "complete" => req'[r].key = k)
  BY <1>1 DEF IInv, TypeOK, HandlerAnswers, Crash, GoTo, Leave, NoRequest, RequestState
<1>4. SUFFICES ASSUME NEW q \in Requests, req'[q].pc \in {"handler", "release"}, req'[q].key = k
               PROVE  FALSE
  <2>1. ASSUME Unanswered(k)'
        PROVE  \E p \in Requests : req'[p].pc \in {"handler", "release"} /\ req'[p].key = k
    <3>1. store'[k] # Absent
      BY <1>2
    <3>2. PICK p \in Owning(k)' : req'[p].pc # "complete"
      BY <2>1, <3>1 DEF Unanswered
    <3>. QED BY <3>2 DEF Owning
  <2>. QED BY <2>1
<1>5. q # r /\ req'[q] = req[q]
  BY <1>3, <1>4
<1>6. Owns(q) /\ req[q].key = k
  BY <1>4, <1>5 DEF Owns
<1>. QED BY <1>1, <1>5, <1>6 DEF IInv, SoleOwner

\* A step of a request makes no answered life unanswered again.
LEMMA RequestStepLives ==
  ASSUME IInv, NEW r \in Requests, Arrive(r) \/ Advance(r) \/ Disturb(r)
  PROVE  expired' = expired /\ \A k \in Keys : Unanswered(k)' => Unanswered(k)
<1>1. /\ expired' = expired
      /\ \A q \in Requests : q # r => req'[q] = req[q]
  BY DEF IInv, TypeOK, Arrive, Advance, Disturb, BeginWins, BeginLoses, BeginFails, GetRefuses,
         GetReplays, GetFails, Replayed, HandlerAnswers, HandlerFails, Complete, CompleteFails,
         Release, ReleaseFails, Crash, GoTo, Leave
<1>2. /\ \A k \in Keys : store'[k] = Absent => Unanswered(k)
      /\ req'[r].pc \in {"handler", "release"} => Unanswered(req'[r].key)
  <2>1. CASE Arrive(r) \/ BeginLoses(r) \/ GetReplays(r)
    <3>1. store' = store /\ req'[r].pc \in {"begin", "lost", "replayed"}
      <4>1. CASE Arrive(r)
        BY <4>1 DEF Arrive, IInv, TypeOK
      <4>2. CASE BeginLoses(r) \/ GetReplays(r)
        <5>1. req[r] \in RequestState
          BY <4>2, Inside DEF BeginLoses, GetReplays, IInv
        <5>. QED BY <4>2, <5>1 DEF BeginLoses, GetReplays, GoTo, IInv, TypeOK, RequestState
      <4>. QED BY <2>1, <4>1, <4>2
    <3>. QED BY <3>1 DEF Unanswered
  <2>2. CASE GetRefuses(r) \/ GetFails(r) \/ Replayed(r) \/ CompleteFails(r) \/ ReleaseFails(r)
             \/ Crash(r)
    <3>1. store' = store /\ req'[r] = NoRequest
      BY <2>2 DEF GetRefuses, GetFails, Replayed, CompleteFails, ReleaseFails, Crash, Leave,
                  IInv, TypeOK
    <3>. QED BY <3>1 DEF Unanswered, NoRequest
  <2>3. CASE BeginWins(r) \/ BeginFails(r)
    <3>1. req[r] \in RequestState /\ store' \in [Keys -> Record \cup {Absent}]
      <4>1. req[r] \in RequestState
        BY <2>3, Inside DEF BeginWins, BeginFails, IInv
      <4>2. IInv'
        BY <2>3, BeginWinsKeeps, BeginFailsKeeps
      <4>. QED BY <4>1, <4>2 DEF IInv, TypeOK
    <3>2. \A k \in Keys : store'[k] = Absent => store[k] = Absent
      BY <2>3, <3>1 DEF BeginWins, BeginFails, Claim, IInv, TypeOK
    <3>3. CASE BeginWins(r)
      <4>1. req'[r].key = req[r].key /\ store[req[r].key] = Absent
        BY <3>1, <3>3 DEF BeginWins, IInv, TypeOK, RequestState
      <4>. QED BY <3>2, <4>1 DEF Unanswered
    <3>4. CASE BeginFails(r)
      <4>1. req'[r] = NoRequest
        BY <3>4 DEF BeginFails, Leave, IInv, TypeOK
      <4>. QED BY <3>2, <4>1 DEF Unanswered, NoRequest
    <3>. QED BY <2>3, <3>3, <3>4
  <2>4. CASE HandlerAnswers(r) \/ HandlerFails(r)
    <3>1. req[r].pc = "handler" /\ store' = store
      BY <2>4 DEF HandlerAnswers, HandlerFails
    <3>2. req[r] \in RequestState /\ Unanswered(req[r].key)
      BY <3>1, HandlerUnanswered
    <3>3. req'[r].key = req[r].key
      BY <2>4, <3>2 DEF HandlerAnswers, HandlerFails, GoTo, IInv, TypeOK, RequestState
    <3>. QED BY <3>1, <3>2, <3>3 DEF Unanswered
  <2>5. CASE Complete(r) \/ Release(r)
    <3>1. req[r] \in RequestState /\ req[r].key \in Keys
      BY <2>5, Inside DEF Complete, Release, IInv, RequestState
    <3>2. req'[r] = NoRequest
      BY <2>5 DEF Complete, Release, Leave, IInv, TypeOK
    <3>3. \A k \in Keys : k # req[r].key => store'[k] = store[k]
      BY <2>5, <3>1 DEF Complete, Release, IInv, TypeOK
    <3>4. CASE Complete(r)
      <4>1. store'[req[r].key] # Absent
        BY <3>1, <3>4 DEF Complete, Absent, IInv, TypeOK
      <4>. QED BY <3>2, <3>3, <4>1 DEF Unanswered, NoRequest
    <3>5. CASE Release(r)
      <4>1. r \in Owning(req[r].key) /\ req[r].pc # "complete"
        BY <3>5 DEF Release, Owning
      <4>2. Unanswered(req[r].key)
        BY <4>1 DEF Unanswered
      <4>. QED BY <3>2, <3>3, <4>2 DEF Unanswered, NoRequest
    <3>. QED BY <2>5, <3>4, <3>5
  <2>. QED BY <2>1, <2>2, <2>3, <2>4, <2>5 DEF Advance, Disturb
<1>3. ASSUME NEW k \in Keys, Unanswered(k)' PROVE Unanswered(k)
  <2>1. CASE store'[k] = Absent
    BY <2>1, <1>2
  <2>2. CASE \E q \in Owning(k)' : req'[q].pc # "complete"
    <3>1. PICK q \in Requests : req'[q].pc \in {"handler", "release"} /\ req'[q].key = k
      BY <2>2 DEF Owning
    <3>2. CASE q = r
      BY <3>1, <3>2, <1>2
    <3>3. CASE q # r
      <4>1. q \in Owning(k) /\ req[q].pc # "complete"
        BY <3>1, <3>3, <1>1 DEF Owning
      <4>. QED BY <4>1 DEF Unanswered
    <3>. QED BY <3>2, <3>3
  <2>. QED BY <1>3, <2>1, <2>2 DEF Unanswered
<1>. QED BY <1>1, <1>3

\* Whatever step is taken, a life that is unanswered was so before, or is a new one
\* because the key expired.
LEMMA StepLives ==
  ASSUME IInv, [Next]_vars, NEW k \in Keys
  PROVE  /\ expired[k] \in Nat /\ expired'[k] \in Nat
         /\ \/ expired'[k] = expired[k] /\ (Unanswered(k)' => Unanswered(k))
            \/ expired'[k] = expired[k] + 1
<1>1. expired[k] \in Nat /\ expired'[k] \in Nat
  <2>1. IInv'
    BY NextKeeps
  <2>2. 0..MaxExpiry \subseteq Nat
    BY IdempotencyAssumption
  <2>3. expired[k] \in 0..MaxExpiry /\ expired'[k] \in 0..MaxExpiry
    BY <2>1 DEF IInv, TypeOK
  <2>. QED BY <2>2, <2>3
<1>2. CASE UNCHANGED vars
  BY <1>1, <1>2 DEF vars, Unanswered, Owning
<1>3. ASSUME NEW r \in Requests, Arrive(r) \/ Advance(r) \/ Disturb(r)
      PROVE  expired'[k] = expired[k] /\ (Unanswered(k)' => Unanswered(k))
  BY <1>3, RequestStepLives
<1>4. ASSUME NEW j \in Keys, Expire(j)
      PROVE  \/ expired'[k] = expired[k] /\ (Unanswered(k)' => Unanswered(k))
             \/ expired'[k] = expired[k] + 1
  <2>1. CASE j = k
    BY <1>4, <2>1 DEF Expire, IInv, TypeOK
  <2>2. CASE j # k
    <3>1. expired'[k] = expired[k] /\ store'[k] = store[k] /\ req' = req
      BY <1>4, <2>2 DEF Expire, IInv, TypeOK
    <3>. QED BY <3>1 DEF Unanswered, Owning
  <2>. QED BY <2>1, <2>2
<1>. QED BY <1>1, <1>2, <1>3, <1>4 DEF Next

-----------------------------------------------------------------------------
(* Runs have numbers of their own.                                         *)

\* A step that wins no claim and answers nobody keeps the numbers apart.
LEMMA OwnersKeepRuns ==
  ASSUME RunsFresh, runs \in Nat, runs' \in Nat, runs <= runs', final' = final,
         \A f \in final : f.run \in Nat,
         \A q \in Requests : Owns(q)' => Owns(q) /\ req'[q].run = req[q].run,
         \A q \in Requests : req'[q].pc = "handler" => req[q].pc = "handler"
  PROVE  RunsFresh'
<1>1. \A f \in final' : f.run <= runs'
  BY DEF RunsFresh
<1>2. \A q \in Requests : Owns(q)' => req'[q].run \in 1..runs'
  BY DEF RunsFresh
<1>3. \A q, p \in Requests : Owns(q)' /\ Owns(p)' /\ req'[q].run = req'[p].run => q = p
  BY DEF RunsFresh
<1>4. \A q \in Requests : req'[q].pc = "handler" => \A f \in final' : f.run # req'[q].run
  <2>1. \A q \in Requests : req'[q].pc = "handler" => Owns(q)'
    BY DEF Owns
  <2>. QED BY <2>1 DEF RunsFresh
<1>. QED BY <1>1, <1>2, <1>3, <1>4 DEF RunsFresh

\* A request that wins its claim is given the next number.
LEMMA WinnerIsFresh ==
  ASSUME IInv, RunsFresh, NEW r \in Requests, BeginWins(r)
  PROVE  RunsFresh'
<1>1. /\ runs \in Nat /\ runs' = runs + 1 /\ final' = final
      /\ \A f \in final : f.run \in Nat
  BY IdempotencyAssumption DEF IInv, TypeOK, BeginWins
<1>2. req[r] \in RequestState
  BY Inside DEF IInv, BeginWins
<1>3. /\ req'[r].run = runs + 1
      /\ \A q \in Requests : q # r => req'[q] = req[q]
  BY <1>2 DEF IInv, TypeOK, BeginWins, RequestState
<1>4. \A q \in Requests : q # r /\ Owns(q)' => Owns(q) /\ req'[q].run \in 1..runs
  BY <1>3 DEF Owns, RunsFresh
<1>5. \A f \in final' : f.run <= runs'
  BY <1>1 DEF RunsFresh
<1>6. \A q \in Requests : Owns(q)' => req'[q].run \in 1..runs'
  BY <1>1, <1>3, <1>4
<1>7. \A q, p \in Requests : Owns(q)' /\ Owns(p)' /\ req'[q].run = req'[p].run => q = p
  <2>1. ASSUME NEW q \in Requests, NEW p \in Requests, Owns(q)', Owns(p)',
               req'[q].run = req'[p].run, q # p
        PROVE  FALSE
    <3>1. CASE q = r \/ p = r
      BY <2>1, <3>1, <1>1, <1>3, <1>4
    <3>2. CASE q # r /\ p # r
      BY <2>1, <3>2, <1>3, <1>4 DEF RunsFresh
    <3>. QED BY <3>1, <3>2
  <2>. QED BY <2>1
<1>8. \A q \in Requests : req'[q].pc = "handler" => \A f \in final' : f.run # req'[q].run
  <2>1. ASSUME NEW q \in Requests, req'[q].pc = "handler", NEW f \in final
        PROVE  f.run # req'[q].run
    <3>1. CASE q = r
      BY <3>1, <1>1, <1>3 DEF RunsFresh
    <3>2. CASE q # r
      BY <2>1, <3>2, <1>3 DEF RunsFresh
    <3>. QED BY <3>1, <3>2
  <2>. QED BY <2>1, <1>1
<1>. QED BY <1>5, <1>6, <1>7, <1>8 DEF RunsFresh

\* The run that answers is its owner's alone, so no other handler has its number.
LEMMA AnsweredRunIsOwn ==
  ASSUME IInv, RunsFresh, NEW r \in Requests, HandlerAnswers(r)
  PROVE  RunsFresh'
<1>1. req[r].pc = "handler" /\ req[r] \in RequestState /\ Owns(r) /\ runs' = runs
  BY HandlerUnanswered DEF HandlerAnswers
<1>2. /\ req'[r].pc = "complete" /\ req'[r].run = req[r].run
      /\ \A q \in Requests : q # r => req'[q] = req[q]
  BY <1>1 DEF IInv, TypeOK, HandlerAnswers, GoTo, RequestState
<1>3. \A f \in final' : f \in final \/ f.run = req[r].run
  BY DEF HandlerAnswers
<1>4. \A q \in Requests : Owns(q)' => Owns(q) /\ req'[q].run = req[q].run
  BY <1>1, <1>2 DEF Owns
<1>5. \A f \in final' : f.run <= runs'
  <2>1. req[r].run <= runs
    BY <1>1 DEF RunsFresh
  <2>. QED BY <1>1, <1>3, <2>1 DEF RunsFresh
<1>6. \A q \in Requests : Owns(q)' => req'[q].run \in 1..runs'
  BY <1>1, <1>4 DEF RunsFresh
<1>7. \A q, p \in Requests : Owns(q)' /\ Owns(p)' /\ req'[q].run = req'[p].run => q = p
  BY <1>4 DEF RunsFresh
<1>8. \A q \in Requests : req'[q].pc = "handler" => \A f \in final' : f.run # req'[q].run
  <2>1. ASSUME NEW q \in Requests, req'[q].pc = "handler", NEW f \in final'
        PROVE  f.run # req'[q].run
    <3>1. q # r /\ req'[q] = req[q] /\ Owns(q)
      BY <2>1, <1>2 DEF Owns
    <3>2. req[q].run # req[r].run
      BY <1>1, <3>1 DEF RunsFresh
    <3>. QED BY <2>1, <1>3, <3>1, <3>2 DEF RunsFresh
  <2>. QED BY <2>1
<1>. QED BY <1>5, <1>6, <1>7, <1>8 DEF RunsFresh

\* Every step keeps the numbers apart.
LEMMA RunsKept ==
  ASSUME IInv, RunsFresh, [Next]_vars
  PROVE  RunsFresh'
<1>1. /\ runs \in Nat /\ \A f \in final : f.run \in Nat
      /\ DOMAIN req = Requests
  BY IdempotencyAssumption DEF IInv, TypeOK
<1>2. CASE UNCHANGED vars
  BY <1>1, <1>2, OwnersKeepRuns DEF vars, Owns
<1>3. ASSUME NEW k \in Keys, Expire(k) PROVE RunsFresh'
  BY <1>1, <1>3, OwnersKeepRuns DEF Expire, Owns
<1>4. ASSUME NEW r \in Requests, Arrive(r) \/ Advance(r) \/ Disturb(r) PROVE RunsFresh'
  <2>1. CASE BeginWins(r)
    BY <2>1, WinnerIsFresh
  <2>2. CASE HandlerAnswers(r)
    BY <2>2, AnsweredRunIsOwn
  <2>3. CASE HandlerFails(r)
    <3>1. req[r] \in RequestState /\ Owns(r)
      BY <2>3, HandlerUnanswered DEF HandlerFails
    <3>2. /\ req'[r].pc = "release" /\ req'[r].run = req[r].run
          /\ \A q \in Requests : q # r => req'[q] = req[q]
      BY <2>3, <3>1, <1>1 DEF HandlerFails, GoTo, RequestState
    <3>3. runs' = runs /\ final' = final
      BY <2>3 DEF HandlerFails
    <3>4. \A q \in Requests : Owns(q)' => Owns(q) /\ req'[q].run = req[q].run
      BY <3>1, <3>2 DEF Owns
    <3>5. \A q \in Requests : req'[q].pc = "handler" => req[q].pc = "handler"
      BY <3>2
    <3>. QED BY <1>1, <3>3, <3>4, <3>5, OwnersKeepRuns
  <2>4. CASE Arrive(r) \/ BeginLoses(r) \/ GetReplays(r)
    <3>1. /\ req'[r].pc \in {"begin", "lost", "replayed"}
          /\ \A q \in Requests : q # r => req'[q] = req[q]
      <4>1. CASE Arrive(r)
        BY <4>1, <1>1 DEF Arrive
      <4>2. CASE BeginLoses(r) \/ GetReplays(r)
        <5>1. req[r] \in RequestState
          BY <4>2, Inside DEF BeginLoses, GetReplays, IInv
        <5>. QED BY <4>2, <5>1, <1>1 DEF BeginLoses, GetReplays, GoTo, RequestState
      <4>. QED BY <2>4, <4>1, <4>2
    <3>2. runs' = runs /\ final' = final
      BY <2>4 DEF Arrive, BeginLoses, GetReplays
    <3>3. \A q \in Requests : Owns(q)' => Owns(q) /\ req'[q].run = req[q].run
      BY <3>1 DEF Owns
    <3>4. \A q \in Requests : req'[q].pc = "handler" => req[q].pc = "handler"
      BY <3>1
    <3>. QED BY <1>1, <3>2, <3>3, <3>4, OwnersKeepRuns
  <2>5. CASE \/ GetRefuses(r) \/ Replayed(r) \/ Complete(r) \/ Release(r) \/ Disturb(r)
    <3>1. Leave(r)
      BY <2>5 DEF GetRefuses, Replayed, Complete, Release, Disturb, BeginFails, GetFails,
                  CompleteFails, ReleaseFails, Crash
    <3>2. req'[r] = NoRequest /\ \A q \in Requests : q # r => req'[q] = req[q]
      BY <3>1, <1>1 DEF Leave
    <3>3. final' = final /\ (runs' = runs \/ runs' = runs + 1)
      BY <2>5 DEF GetRefuses, Replayed, Complete, Release, Disturb, BeginFails, GetFails,
                  CompleteFails, ReleaseFails, Crash
    <3>4. \A q \in Requests : Owns(q)' => Owns(q) /\ req'[q].run = req[q].run
      BY <3>2 DEF Owns, NoRequest
    <3>5. \A q \in Requests : req'[q].pc = "handler" => req[q].pc = "handler"
      BY <3>2 DEF NoRequest
    <3>6. runs' \in Nat /\ runs <= runs'
      BY <1>1, <3>3
    <3>. QED BY <1>1, <3>3, <3>4, <3>5, <3>6, OwnersKeepRuns
  <2>. QED BY <1>4, <2>1, <2>2, <2>3, <2>4, <2>5 DEF Advance
<1>. QED BY <1>2, <1>3, <1>4 DEF Next

-----------------------------------------------------------------------------
(* The service call of a request.                                          *)

\* What a call is after its program counter, or its operation, has changed.
LEMMA CallMoves ==
  ASSUME NEW s, IsCall(s), NEW x, NEW o
  PROVE  /\ [s EXCEPT !.pc = x] =
              [pc |-> x, op |-> s.op, txn |-> s.txn, amount |-> s.amount, auto |-> s.auto]
         /\ [s EXCEPT !.pc = x, !.op = o] =
              [pc |-> x, op |-> o, txn |-> s.txn, amount |-> s.amount, auto |-> s.auto]
<1>1. [s EXCEPT !.pc = x, !.op = o] = [[s EXCEPT !.pc = x] EXCEPT !.op = o]
  OBVIOUS
<1>2. [s EXCEPT !.pc = x] =
        [pc |-> x, op |-> s.op, txn |-> s.txn, amount |-> s.amount, auto |-> s.auto]
  BY DEF IsCall
<1>3. [[pc |-> x, op |-> s.op, txn |-> s.txn, amount |-> s.amount, auto |-> s.auto]
        EXCEPT !.op = o] =
        [pc |-> x, op |-> o, txn |-> s.txn, amount |-> s.amount, auto |-> s.auto]
  OBVIOUS
<1>. QED BY <1>1, <1>2, <1>3, Zenon

\* A call that is at rest is one, too.
LEMMA RestingCalls ==
  /\ IsCall(P!Idle) /\ P!Idle.pc \in P!Resting
  /\ \A t : IsCall(P!Declined(t)) /\ P!Declined(t).pc \in P!Resting
<1>1. IsCall(P!Idle) /\ P!Idle.pc \in P!Resting
  BY DEF P!Idle, P!Resting, IsCall
<1>2. ASSUME NEW s, IsCall(s), NEW x
      PROVE  IsCall([s EXCEPT !.pc = x]) /\ IsCall([s EXCEPT !.txn = x])
  BY <1>2 DEF IsCall
<1>3. ASSUME NEW t PROVE IsCall(P!Declined(t)) /\ P!Declined(t).pc \in P!Resting
  <2>1. IsCall([P!Idle EXCEPT !.pc = "declined"])
    BY <1>1, <1>2
  <2>2. IsCall([[P!Idle EXCEPT !.pc = "declined"] EXCEPT !.txn = t])
    BY <2>1, <1>2
  <2>3. P!Declined(t) = [[P!Idle EXCEPT !.pc = "declined"] EXCEPT !.txn = t]
    BY DEF P!Declined
  <2>4. P!Declined(t).pc = "declined"
    BY DEF P!Declined, P!Idle
  <2>. QED BY <2>2, <2>3, <2>4 DEF P!Resting
<1>. QED BY <1>1, <1>3

\* A step that changes the call of one request at most, and opens none outside
\* the handler.
LEMMA CallsKept ==
  ASSUME CallsOpen, NEW r \in Requests, DOMAIN serving' = Requests,
         \A q \in Requests : q # r => req'[q] = req[q] /\ serving'[q] = serving[q],
         IsCall(serving'[r]),
         serving'[r].pc \notin P!Resting => req'[r].pc = "handler" /\ CallFits(serving'[r], req'[r])
  PROVE  CallsOpen'
<1>1. ASSUME NEW q \in Requests
      PROVE  /\ IsCall(serving'[q])
             /\ serving'[q].pc \notin P!Resting =>
                  req'[q].pc = "handler" /\ CallFits(serving'[q], req'[q])
  <2>1. CASE q = r
    BY <2>1
  <2>2. CASE q # r
    BY <2>2 DEF CallsOpen
  <2>. QED BY <2>1, <2>2
<1>. QED BY <1>1 DEF CallsOpen

\* The call that the handler opens is the one of its route, on its route's payment.
LEMMA CallStarts ==
  ASSUME CallsOpen, NEW r \in Requests, HandlerStarts(r)
  PROVE  /\ req[r].pc = "handler" /\ IsCall(serving'[r]) /\ CallFits(serving'[r], req[r])
         /\ serving'[r].pc = "acquirer" /\ serving'[r].txn = req[r].path.txn
         /\ DOMAIN serving' = Requests /\ \A q \in Requests : q # r => serving'[q] = serving[q]
<1>. DEFINE m == req[r]
<1>1. req[r].pc = "handler" /\ ServiceStarts(r)
  BY DEF HandlerStarts, Entering
<1>2. \E op, t, amount, auto :
        /\ P!CallAcquirer(r, op, t, amount, auto) /\ t = m.path.txn
        /\ \/ m.path.op = "create" /\ op = "authorize" /\ auto = m.body.capture
           \/ m.path.op \in {"capture", "refund"} /\ op = m.path.op /\ auto = FALSE
  <2>1. CASE m.path.op = "create" /\ P!Create(r, m.path.txn, m.body.amount, m.body.capture)
    <3>1. P!CallAcquirer(r, "authorize", m.path.txn, m.body.amount, m.body.capture)
      BY <2>1 DEF P!Create
    <3>. QED BY <2>1, <3>1
  <2>2. CASE m.path.op = "capture" /\ P!CapturePreCheck(r, m.path.txn, m.body.amount)
    <3>1. \E a : P!CallAcquirer(r, "capture", m.path.txn, a, FALSE)
      BY <2>2 DEF P!CapturePreCheck
    <3>. QED BY <2>2, <3>1
  <2>3. CASE m.path.op = "refund" /\ P!RefundPreCheck(r, m.path.txn, m.body.amount)
    <3>1. \E a : P!CallAcquirer(r, "refund", m.path.txn, a, FALSE)
      BY <2>3 DEF P!RefundPreCheck
    <3>. QED BY <2>3, <3>1
  <2>. QED BY <1>1, <2>1, <2>2, <2>3 DEF ServiceStarts
<1>3. PICK op, t, amount, auto :
        /\ P!CallAcquirer(r, op, t, amount, auto) /\ t = m.path.txn
        /\ \/ m.path.op = "create" /\ op = "authorize" /\ auto = m.body.capture
           \/ m.path.op \in {"capture", "refund"} /\ op = m.path.op /\ auto = FALSE
  BY <1>2
<1>4. /\ serving'[r] = [pc |-> "acquirer", op |-> op, txn |-> t, amount |-> amount, auto |-> auto]
      /\ DOMAIN serving' = Requests /\ \A q \in Requests : q # r => serving'[q] = serving[q]
  BY <1>3 DEF P!CallAcquirer, CallsOpen
<1>5. IsCall(serving'[r])
  BY <1>4 DEF IsCall
<1>6. /\ serving'[r].op = op /\ serving'[r].auto = auto /\ serving'[r].pc = "acquirer"
      /\ serving'[r].txn = m.path.txn
  BY <1>3, <1>4
<1>7. CallFits(serving'[r], req[r])
  BY <1>3, <1>6 DEF CallFits
<1>. QED BY <1>1, <1>4, <1>5, <1>6, <1>7

\* A call that goes on stays its route's, on the same payment, and leaves the
\* authorization behind only when it is committed.
LEMMA CallGoesOn ==
  ASSUME CallsOpen, "ack" \notin ServiceFaults, NEW r \in Requests,
         HandlerWaits(r) \/ HandlerAuthorizes(r)
  PROVE  /\ req[r].pc = "handler" /\ IsCall(serving'[r]) /\ CallFits(serving'[r], req[r])
         /\ serving[r].pc \notin P!Resting /\ serving'[r].txn = serving[r].txn
         /\ Ordering(serving'[r]) => Ordering(serving[r])
         /\ Ordering(serving[r]) => Ordering(serving'[r]) \/ HandlerAuthorizes(r)
         /\ DOMAIN serving' = Requests /\ \A q \in Requests : q # r => serving'[q] = serving[q]
<1>. DEFINE s == serving[r]
<1>1. IsCall(s) /\ DOMAIN serving = Requests
  BY DEF CallsOpen
<1>2. SUFFICES /\ s.pc \notin P!Resting
               /\ \E n : /\ serving' = [serving EXCEPT ![r] = n] /\ IsCall(n)
                         /\ CallFits(s, req[r]) => CallFits(n, req[r])
                         /\ n.txn = s.txn /\ (Ordering(n) => Ordering(s))
                         /\ Ordering(s) => Ordering(n) \/ HandlerAuthorizes(r)
  BY <1>1 DEF CallsOpen
<1>3. CASE P!AcquirerApproves(r) \/ P!LockRow(r)
  <2>1. s.pc \in {"acquirer", "writeback"}
    BY <1>3 DEF P!AcquirerApproves, P!LockRow
  <2>2. PICK x \in {"writeback", "locked"} : serving' = [serving EXCEPT ![r].pc = x]
    BY <1>3 DEF P!AcquirerApproves, P!LockRow
  <2>. DEFINE n == [pc |-> x, op |-> s.op, txn |-> s.txn, amount |-> s.amount, auto |-> s.auto]
  <2>3. serving' = [serving EXCEPT ![r] = n]
    BY <1>1, <2>2, CallMoves
  <2>4. IsCall(n) /\ (CallFits(s, req[r]) => CallFits(n, req[r]))
    BY DEF IsCall, CallFits
  <2>5. n.txn = s.txn /\ (Ordering(n) <=> Ordering(s))
    BY <2>1 DEF Ordering
  <2>. QED BY <2>1, <2>3, <2>4, <2>5 DEF P!Resting
<1>4. CASE P!AcquirerDeclines(r)
  <2>1. s.pc = "acquirer" /\ s.op = "authorize"
    BY <1>4 DEF P!AcquirerDeclines
  <2>. DEFINE n == [pc |-> "writeback", op |-> "fail", txn |-> s.txn, amount |-> s.amount,
                    auto |-> s.auto]
  <2>2. serving' = [serving EXCEPT ![r].pc = "writeback", ![r].op = "fail"]
    BY <1>4 DEF P!AcquirerDeclines
  <2>3. serving' = [serving EXCEPT ![r] = n]
    BY <1>1, <2>2, CallMoves
  <2>4. IsCall(n) /\ (CallFits(s, req[r]) => CallFits(n, req[r]))
    BY <2>1 DEF IsCall, CallFits
  <2>5. n.txn = s.txn /\ (Ordering(n) <=> Ordering(s))
    BY <2>1 DEF Ordering
  <2>. QED BY <2>1, <2>3, <2>4, <2>5 DEF P!Resting
<1>5. CASE P!AutoCapture(r) /\ serving'[r].pc \notin P!Resting
  <2>1. s.pc = "autocapture"
    BY <1>5 DEF P!AutoCapture
  <2>. DEFINE n == [pc |-> "acquirer", op |-> "capture", txn |-> s.txn, amount |-> s.amount,
                    auto |-> FALSE]
  <2>2. serving' # [serving EXCEPT ![r] = P!Idle]
    BY <1>1, <1>5, RestingCalls
  <2>3. serving' = [serving EXCEPT ![r] = n]
    BY <1>5, <2>2 DEF P!AutoCapture, P!CallAcquirer
  <2>4. IsCall(n) /\ (CallFits(s, req[r]) => CallFits(n, req[r]))
    BY <2>1 DEF IsCall, CallFits
  <2>5. n.txn = s.txn /\ (Ordering(n) <=> Ordering(s))
    BY <2>1 DEF Ordering
  <2>. QED BY <2>1, <2>3, <2>4, <2>5 DEF P!Resting
<1>6. CASE HandlerAuthorizes(r)
  <2>1. s.pc = "locked" /\ s.op = "authorize"
    BY <1>6 DEF HandlerAuthorizes, P!CommitAuthorize, P!Committing
  <2>. DEFINE n == [pc |-> "autocapture", op |-> s.op, txn |-> s.txn, amount |-> s.amount,
                    auto |-> s.auto]
  <2>2. serving' = [serving EXCEPT ![r] = IF s.auto THEN [s EXCEPT !.pc = "autocapture"] ELSE P!Idle]
    BY <1>6 DEF HandlerAuthorizes, P!CommitAuthorize, P!Answer
  <2>3. s.auto
    <3>1. serving'[r].pc \notin P!Resting
      BY <1>6 DEF HandlerAuthorizes, P!Resting
    <3>2. serving'[r] = IF s.auto THEN [s EXCEPT !.pc = "autocapture"] ELSE P!Idle
      BY <1>1, <2>2
    <3>. QED BY <3>1, <3>2, RestingCalls
  <2>4. serving' = [serving EXCEPT ![r] = n]
    BY <1>1, <2>2, <2>3, CallMoves
  <2>5. IsCall(n) /\ (CallFits(s, req[r]) => CallFits(n, req[r]))
    BY <2>1, <2>3 DEF IsCall, CallFits
  <2>6. n.txn = s.txn /\ ~Ordering(n)
    BY DEF Ordering
  <2>. QED BY <1>6, <2>1, <2>4, <2>5, <2>6 DEF P!Resting
<1>. QED BY <1>3, <1>4, <1>5, <1>6 DEF HandlerWaits

\* A handler that ends, by answering or with its process, leaves no call open.
LEMMA CallEnds ==
  ASSUME CallsOpen, NEW r \in Requests,
         \/ HandlerRefuses(r) \/ HandlerSucceeds(r) \/ HandlerDeclines(r) \/ HandlerLoses(r)
         \/ HandlerBreaks(r) \/ ApiCrash(r)
  PROVE  /\ IsCall(serving'[r]) /\ serving'[r].pc \in P!Resting
         /\ DOMAIN serving' = Requests /\ \A q \in Requests : q # r => serving'[q] = serving[q]
<1>1. IsCall(serving[r]) /\ DOMAIN serving = Requests
  BY DEF CallsOpen
<1>2. CASE serving' = serving /\ serving[r].pc \in P!Resting
  BY <1>1, <1>2
<1>3. CASE serving' = [serving EXCEPT ![r] = P!Idle]
  BY <1>1, <1>3, RestingCalls
<1>4. CASE \E t : serving' = [serving EXCEPT ![r] = P!Declined(t)]
  BY <1>1, <1>4, RestingCalls
<1>5. CASE HandlerRefuses(r)
  BY <1>2, <1>5 DEF HandlerRefuses, Entering, service
<1>6. CASE HandlerSucceeds(r)
  <2>1. serving'[r] = P!Idle
    BY <1>6 DEF HandlerSucceeds
  <2>2. \E n : serving' = [serving EXCEPT ![r] = n]
    BY <1>6 DEF HandlerSucceeds, P!CommitAuthorize, P!CommitCapture, P!CommitRefund, P!Answer
  <2>3. DOMAIN serving' = Requests /\ \A q \in Requests : q # r => serving'[q] = serving[q]
    BY <1>1, <2>2
  <2>. QED BY <2>1, <2>3, RestingCalls
<1>7. CASE HandlerDeclines(r)
  BY <1>3, <1>4, <1>7 DEF HandlerDeclines, P!CommitFail, P!Answer
<1>8. CASE HandlerLoses(r)
  <2>1. CASE P!CommitRefused(r) \/ P!AcquirerInvalidCard(r)
    BY <1>3, <2>1 DEF P!CommitRefused, P!AcquirerInvalidCard
  <2>2. CASE P!AutoCapture(r) /\ serving'[r] = P!Idle
    <3>1. \E n : serving' = [serving EXCEPT ![r] = n]
      BY <2>2 DEF P!AutoCapture, P!CallAcquirer
    <3>2. DOMAIN serving' = Requests /\ \A q \in Requests : q # r => serving'[q] = serving[q]
      BY <1>1, <3>1
    <3>. QED BY <2>2, <3>2, RestingCalls
  <2>. QED BY <1>8, <2>1, <2>2 DEF HandlerLoses
<1>9. CASE HandlerBreaks(r)
  BY <1>3, <1>9 DEF HandlerBreaks, P!AcquirerUnavailable, P!Abandon
<1>10. CASE ApiCrash(r)
  BY <1>2, <1>3, <1>10 DEF ApiCrash, P!Abandon, service
<1>. QED BY <1>5, <1>6, <1>7, <1>8, <1>9, <1>10

\* A request moves only itself.
LEMMA OthersStand ==
  ASSUME IInv, NEW r \in Requests, Arrive(r) \/ Advance(r) \/ Disturb(r)
  PROVE  \A q \in Requests : q # r => req'[q] = req[q]
  BY DEF IInv, TypeOK, Arrive, Advance, Disturb, BeginWins, BeginLoses, BeginFails, GetRefuses,
         GetReplays, GetFails, Replayed, HandlerAnswers, HandlerFails, Complete, CompleteFails,
         Release, ReleaseFails, Crash, GoTo, Leave

\* A call is open only inside the handler, whatever step is taken.
LEMMA CallsOpenKept ==
  ASSUME IInv, CallsOpen, "ack" \notin ServiceFaults, [ApiNext]_apiVars
  PROVE  CallsOpen'
<1>1. CASE UNCHANGED apiVars
  BY <1>1 DEF apiVars, vars, service, CallsOpen
<1>2. ASSUME NEW k \in Keys, KeyExpires(k) PROVE CallsOpen'
  BY <1>2 DEF KeyExpires, Expire, service, CallsOpen
<1>3. ASSUME NEW r \in Requests, ApiArrive(r) \/ Middleware(r) PROVE CallsOpen'
  <2>1. serving' = serving
    BY <1>3 DEF ApiArrive, Middleware, service
  <2>2. req[r].pc # "handler"
    BY <1>3 DEF ApiArrive, Middleware, Arrive, NoRequest, BeginWins, BeginLoses, BeginFails,
                GetRefuses, GetReplays, GetFails, Replayed, Complete, CompleteFails, Release,
                ReleaseFails
  <2>3. Arrive(r) \/ Advance(r) \/ Disturb(r)
    BY <1>3 DEF ApiArrive, Middleware, Advance, Disturb
  <2>4. \A q \in Requests : q # r => req'[q] = req[q]
    BY <2>3, OthersStand
  <2>5. IsCall(serving'[r]) /\ serving'[r].pc \in P!Resting /\ DOMAIN serving' = Requests
    BY <2>1, <2>2 DEF CallsOpen
  <2>. QED BY <2>1, <2>4, <2>5, CallsKept
<1>4. ASSUME NEW r \in Requests, HandlerStarts(r) \/ HandlerWaits(r) \/ HandlerAuthorizes(r)
      PROVE  CallsOpen'
  <2>1. req' = req
    BY <1>4 DEF HandlerStarts, HandlerWaits, HandlerAuthorizes, vars
  <2>2. /\ req[r].pc = "handler" /\ IsCall(serving'[r]) /\ CallFits(serving'[r], req[r])
        /\ DOMAIN serving' = Requests /\ \A q \in Requests : q # r => serving'[q] = serving[q]
    BY <1>4, CallStarts, CallGoesOn
  <2>. QED BY <2>1, <2>2, CallsKept
<1>5. ASSUME NEW r \in Requests,
             \/ HandlerRefuses(r) \/ HandlerSucceeds(r) \/ HandlerDeclines(r) \/ HandlerLoses(r)
             \/ HandlerBreaks(r) \/ ApiCrash(r)
      PROVE  CallsOpen'
  <2>1. HandlerAnswers(r) \/ HandlerFails(r) \/ Crash(r)
    BY <1>5 DEF HandlerRefuses, HandlerSucceeds, HandlerDeclines, HandlerLoses, HandlerBreaks,
                ApiCrash, Respond, RespondServerError
  <2>2. \A q \in Requests : q # r => req'[q] = req[q]
    BY <2>1, OthersStand DEF Advance, Disturb
  <2>3. /\ IsCall(serving'[r]) /\ serving'[r].pc \in P!Resting
        /\ DOMAIN serving' = Requests /\ \A q \in Requests : q # r => serving'[q] = serving[q]
    BY <1>5, CallEnds
  <2>. QED BY <2>2, <2>3, CallsKept
<1>. QED BY <1>1, <1>2, <1>3, <1>4, <1>5 DEF ApiNext, Handler

-----------------------------------------------------------------------------
(* What a step books, and what it answers.                                 *)

\* What a commit adds to the books of its key, and that it adds nothing to those
\* of another.
LEMMA CommitBooks ==
  ASSUME IsFiniteSet(effects), NEW r \in Requests, NEW op, Did(r, op)
  PROVE  /\ IsFiniteSet(effects')
         /\ \A k : k # req[r].key => Booked(k)' = Booked(k)
         /\ op \notin {"capture", "refund"} => \A k : Booked(k)' = Booked(k)
         /\ op \in {"capture", "refund"} => \A k : k = req[r].key =>
              Booked(k)' = Booked(k) \cup {Effect(r, op)}
<1>. DEFINE e == Effect(r, op)
<1>1. effects' = effects \cup {e}
  BY DEF Did
<1>2. IsFiniteSet(effects')
  BY <1>1, FS_AddElement
<1>3. e.key = req[r].key /\ e.op = op
  BY DEF Effect
<1>. HIDE DEF e
<1>4. \A k : k # req[r].key => Booked(k)' = Booked(k)
  BY <1>1, <1>3 DEF Booked
<1>5. op \notin {"capture", "refund"} => \A k : Booked(k)' = Booked(k)
  BY <1>1, <1>3 DEF Booked
<1>6. op \in {"capture", "refund"} => \A k : k = req[r].key => Booked(k)' = Booked(k) \cup {e}
  BY <1>1, <1>3 DEF Booked
<1>. QED BY <1>2, <1>4, <1>5, <1>6 DEF e

\* The operation a handler commits with its last step is one that moves money
\* exactly when its request asked for that.
LEMMA LastCommitMoves ==
  ASSUME CallsOpen, "ack" \notin ServiceFaults, NEW r \in Requests, HandlerSucceeds(r)
  PROVE  /\ req[r].pc = "handler" /\ Did(r, serving[r].op)
         /\ serving[r].op \in {"capture", "refund"} <=> MovesMoney(req[r])
         /\ \/ HandlerAnswers(r) /\ answer' = [answer EXCEPT ![req[r].run] = "ok"]
            \/ Crash(r) /\ answer' = answer
<1>. DEFINE s == serving[r]
<1>1. s.pc = "locked" /\ IsCall(s) /\ DOMAIN serving = Requests
  BY DEF HandlerSucceeds, CallsOpen
<1>2. req[r].pc = "handler" /\ CallFits(s, req[r])
  BY <1>1 DEF CallsOpen, P!Resting
<1>3. Did(r, s.op)
  BY DEF HandlerSucceeds
<1>4. s.op \in {"capture", "refund"} \/ (s.op = "authorize" /\ ~s.auto)
  <2>1. CASE P!CommitCapture(r) \/ P!CommitRefund(r)
    BY <2>1 DEF P!CommitCapture, P!CommitRefund, P!Committing
  <2>2. CASE P!CommitAuthorize(r)
    <3>1. s.op = "authorize"
      BY <2>2 DEF P!CommitAuthorize, P!Committing
    <3>2. serving'[r] = IF s.auto THEN [s EXCEPT !.pc = "autocapture"] ELSE P!Idle
      BY <1>1, <2>2 DEF P!CommitAuthorize, P!Answer
    <3>3. serving'[r] = P!Idle
      BY DEF HandlerSucceeds
    <3>4. [s EXCEPT !.pc = "autocapture"].pc = "autocapture"
      BY <1>1, CallMoves
    <3>5. P!Idle.pc = "idle"
      BY DEF P!Idle
    <3>. QED BY <3>1, <3>2, <3>3, <3>4, <3>5
  <2>. QED BY <2>1, <2>2 DEF HandlerSucceeds
<1>5. s.op \in {"capture", "refund"} <=> MovesMoney(req[r])
  BY <1>2, <1>4 DEF CallFits, MovesMoney
<1>6. \/ HandlerAnswers(r) /\ answer' = [answer EXCEPT ![req[r].run] = "ok"]
      \/ Crash(r) /\ answer' = answer
  BY DEF HandlerSucceeds, Respond
<1>. QED BY <1>2, <1>3, <1>5, <1>6

\* In the first life of a key nothing has been answered or booked before its
\* handler ends.
LEMMA FirstLife ==
  ASSUME ApiInv, NEW r \in Requests, req[r].pc = "handler", expired[req[r].key] = 0
  PROVE  FinalRuns(req[r].key) = {} /\ Booked(req[r].key) = {}
<1>. DEFINE k == req[r].key
<1>1. k \in Keys /\ Unanswered(k)
  BY HandlerUnanswered DEF ApiInv
<1>2. Cardinality(FinalRuns(k)) <= 0 /\ Cardinality(Booked(k)) <= 0
  BY <1>1 DEF ApiInv, IInv, AnswersCounted, BookingsCounted
<1>3. IsFiniteSet(FinalRuns(k)) /\ IsFiniteSet(Booked(k))
  BY FS_Subset DEF ApiInv, IInv, FinalRuns, Booked
<1>4. Cardinality(FinalRuns(k)) = 0 /\ Cardinality(Booked(k)) = 0
  BY <1>2, <1>3, FS_CardinalityType
<1>. QED BY <1>3, <1>4, FS_EmptySet

\* Only the last commit of a handler books money.  Every other step leaves the
\* books alone, and answers nothing or that nothing was done.
LEMMA OtherStepsBookNothing ==
  ASSUME IsFiniteSet(effects), [ApiNext]_apiVars
  PROVE  \/ \E r \in Requests : HandlerSucceeds(r)
         \/ /\ IsFiniteSet(effects') /\ \A k : Booked(k)' = Booked(k)
            /\ \/ final' = final /\ answer' = answer
               \/ \E r \in Requests, what \in {"declined", "refused"} :
                    HandlerAnswers(r) /\ answer' = [answer EXCEPT ![req[r].run] = what]
<1>. DEFINE Quiet == IsFiniteSet(effects') /\ \A k : Booked(k)' = Booked(k)
            Silent == final' = final /\ answer' = answer
            Turned == \E r \in Requests, what \in {"declined", "refused"} :
                        HandlerAnswers(r) /\ answer' = [answer EXCEPT ![req[r].run] = what]
<1>1. ASSUME effects' = effects PROVE Quiet
  BY <1>1 DEF Booked
<1>2. CASE UNCHANGED apiVars
  BY <1>1, <1>2 DEF apiVars, vars
<1>3. ASSUME NEW k \in Keys, KeyExpires(k) PROVE Quiet /\ Silent
  BY <1>1, <1>3 DEF KeyExpires, Expire
<1>4. ASSUME NEW r \in Requests, ApiArrive(r) \/ Middleware(r) \/ ApiCrash(r) PROVE Quiet /\ Silent
  <2>1. effects' = effects /\ answer' = answer
    BY <1>4 DEF ApiArrive, Middleware, ApiCrash
  <2>2. final' = final
    BY <1>4 DEF ApiArrive, Middleware, ApiCrash, Arrive, BeginWins, BeginLoses, BeginFails,
                GetRefuses, GetReplays, GetFails, Replayed, Complete, CompleteFails, Release,
                ReleaseFails, Crash
  <2>. QED BY <1>1, <2>1, <2>2
<1>5. ASSUME NEW r \in Requests, HandlerStarts(r) \/ HandlerWaits(r) \/ HandlerBreaks(r)
      PROVE  Quiet /\ Silent
  <2>1. effects' = effects /\ answer' = answer /\ final' = final
    BY <1>5 DEF HandlerStarts, HandlerWaits, HandlerBreaks, RespondServerError, HandlerFails, vars
  <2>. QED BY <1>1, <2>1
<1>6. ASSUME NEW r \in Requests, HandlerAuthorizes(r) PROVE Quiet /\ Silent
  <2>1. Did(r, "authorize") /\ answer' = answer /\ final' = final
    BY <1>6 DEF HandlerAuthorizes, vars
  <2>2. Quiet
    BY <2>1, CommitBooks
  <2>. QED BY <2>1, <2>2
<1>7. ASSUME NEW r \in Requests, HandlerRefuses(r) \/ HandlerDeclines(r) \/ HandlerLoses(r)
      PROVE  Quiet /\ (Silent \/ Turned)
  <2>1. effects' = effects
    BY <1>7 DEF HandlerRefuses, HandlerDeclines, HandlerLoses
  <2>2. Respond(r, "refused") \/ Respond(r, "declined") \/ RespondServerError(r)
    BY <1>7 DEF HandlerRefuses, HandlerDeclines, HandlerLoses
  <2>3. Silent \/ Turned
    BY <2>2 DEF Respond, RespondServerError, HandlerFails
  <2>. QED BY <1>1, <2>1, <2>3
<1>. QED BY <1>2, <1>3, <1>4, <1>5, <1>6, <1>7 DEF ApiNext, Handler

\* Money is booked at most once in a life of a key: the step that books it ends
\* the life's only owner that had not been answered.
LEMMA BookingsKept ==
  ASSUME ApiInv, "ack" \notin ServiceFaults, [ApiNext]_apiVars
  PROVE  IsFiniteSet(effects') /\ BookingsCounted'
<1>1. IInv /\ [Next]_vars /\ IsFiniteSet(effects)
  BY ApiStepIsStep DEF ApiInv
<1>2. \A k : IsFiniteSet(Booked(k)) /\ Cardinality(Booked(k)) \in Nat
  BY <1>1, FS_Subset, FS_CardinalityType DEF Booked
<1>3. ASSUME NEW k \in Keys, Booked(k)' = Booked(k)
      PROVE  /\ Cardinality(Booked(k)') <= 1 + expired'[k]
             /\ Unanswered(k)' => Cardinality(Booked(k)') <= expired'[k]
  <2>1. /\ expired[k] \in Nat /\ expired'[k] \in Nat
        /\ \/ expired'[k] = expired[k] /\ (Unanswered(k)' => Unanswered(k))
           \/ expired'[k] = expired[k] + 1
    BY <1>1, StepLives
  <2>2. /\ Cardinality(Booked(k)) <= 1 + expired[k]
        /\ Unanswered(k) => Cardinality(Booked(k)) <= expired[k]
    BY DEF ApiInv, BookingsCounted
  <2>3. Cardinality(Booked(k)) \in Nat
    BY <1>2
  <2>. DEFINE n == Cardinality(Booked(k))
  <2>4. Cardinality(Booked(k)') = n
    BY <1>3
  <2>. HIDE DEF n
  <2>5. n \in Nat /\ n <= 1 + expired[k] /\ (Unanswered(k) => n <= expired[k])
    BY <2>2, <2>3 DEF n
  <2>. QED BY <2>1, <2>4, <2>5
<1>4. CASE IsFiniteSet(effects') /\ \A k : Booked(k)' = Booked(k)
  BY <1>3, <1>4 DEF BookingsCounted
<1>5. ASSUME NEW r \in Requests, HandlerSucceeds(r)
      PROVE  IsFiniteSet(effects') /\ BookingsCounted'
  <2>1. /\ req[r].pc = "handler" /\ Did(r, serving[r].op)
        /\ HandlerAnswers(r) \/ Crash(r)
    BY <1>5, LastCommitMoves DEF ApiInv
  <2>2. CASE serving[r].op \notin {"capture", "refund"}
    BY <1>1, <1>4, <2>1, <2>2, CommitBooks
  <2>3. CASE serving[r].op \in {"capture", "refund"}
    <3>1. IsFiniteSet(effects') /\ \A k : k # req[r].key => Booked(k)' = Booked(k)
      BY <1>1, <2>1, CommitBooks
    <3>2. PICK e : \A k : k = req[r].key => Booked(k)' = Booked(k) \cup {e}
      BY <1>1, <2>1, <2>3, CommitBooks
    <3>3. req[r].key \in Keys /\ Unanswered(req[r].key)
      BY <1>1, <2>1, HandlerUnanswered
    <3>4. ASSUME NEW k \in Keys, k = req[r].key
          PROVE  /\ Cardinality(Booked(k)') <= 1 + expired'[k]
                 /\ Unanswered(k)' => Cardinality(Booked(k)') <= expired'[k]
      <4>1. ~Unanswered(k)'
        BY <1>1, <2>1, <3>4, LifeEnds
      <4>2. expired[k] \in Nat /\ expired' = expired
        BY <1>1, <2>1, StepLives DEF HandlerAnswers, Crash
      <4>3. Cardinality(Booked(k)) <= expired[k]
        BY <3>3, <3>4 DEF ApiInv, BookingsCounted
      <4>4. /\ Cardinality(Booked(k) \cup {e}) = Cardinality(Booked(k))
               \/ Cardinality(Booked(k) \cup {e}) = Cardinality(Booked(k)) + 1
        BY <1>2, FS_AddElement
      <4>5. Cardinality(Booked(k)') = Cardinality(Booked(k) \cup {e})
        BY <3>2, <3>4
      <4>6. Cardinality(Booked(k)) \in Nat
        BY <1>2
      <4>. QED BY <4>1, <4>2, <4>3, <4>4, <4>5, <4>6
    <3>5. ASSUME NEW k \in Keys
          PROVE  /\ Cardinality(Booked(k)') <= 1 + expired'[k]
                 /\ Unanswered(k)' => Cardinality(Booked(k)') <= expired'[k]
      BY <1>3, <3>1, <3>4
    <3>. QED BY <3>1, <3>5 DEF BookingsCounted
  <2>. QED BY <2>2, <2>3
<1>. QED BY <1>1, <1>4, <1>5, OtherStepsBookNothing

\* The answer a handler gives is true of the books, and the answers given before
\* stay true.
LEMMA RespondTells ==
  ASSUME ApiInv, NEW r \in Requests, HandlerAnswers(r), NEW what, NEW E,
         answer' = [answer EXCEPT ![req[r].run] = what],
         \A k : k # req[r].key => Booked(k)' = Booked(k),
         \A k : k = req[r].key => Booked(k)' = Booked(k) \cup E,
         \/ E = {} /\ ~(what = "ok" /\ MovesMoney(req[r]))
         \/ (\E e : E = {e}) /\ what = "ok" /\ MovesMoney(req[r])
  PROVE  AnswerTellsBooks'
<1>1. req[r].pc = "handler" /\ expired' = expired
  BY DEF HandlerAnswers
<1>2. req[r].run \in DOMAIN answer
  BY <1>1, HandlerUnanswered DEF ApiInv
<1>. DEFINE Told(f) == answer'[f.run] = "ok" /\ MovesMoney(f)
<1>3. ASSUME NEW f \in final', expired'[f.key] = 0
      PROVE  Cardinality(Booked(f.key)') = IF Told(f) THEN 1 ELSE 0
  <2>1. CASE f \in final /\ f.key # req[r].key
    <3>1. f.run # req[r].run
      BY <1>1, <2>1 DEF ApiInv, RunsFresh
    <3>2. answer'[f.run] = answer[f.run]
      BY <3>1 DEF ApiInv
    <3>3. Cardinality(Booked(f.key)) = IF answer[f.run] = "ok" /\ MovesMoney(f) THEN 1 ELSE 0
      BY <1>1, <1>3, <2>1 DEF ApiInv, AnswerTellsBooks
    <3>4. Booked(f.key)' = Booked(f.key)
      BY <2>1
    <3>. QED BY <3>2, <3>3, <3>4
  <2>2. CASE f \in final /\ f.key = req[r].key
    <3>1. f \in FinalRuns(req[r].key)
      BY <2>2 DEF FinalRuns
    <3>2. FinalRuns(req[r].key) = {}
      BY <1>1, <1>3, <2>2, FirstLife
    <3>. QED BY <3>1, <3>2
  <2>3. CASE f \notin final
    <3>1. f = [run |-> req[r].run, key |-> req[r].key, body |-> req[r].body, path |-> req[r].path]
      BY <1>3, <2>3 DEF HandlerAnswers
    <3>2. /\ f.run = req[r].run /\ f.key = req[r].key /\ f.body = req[r].body
          /\ f.path = req[r].path
      BY <3>1
    <3>3. answer'[f.run] = what
      BY <1>2, <3>2
    <3>4. MovesMoney(f) <=> MovesMoney(req[r])
      BY <3>2 DEF MovesMoney
    <3>5. Booked(f.key) = {}
      BY <1>1, <1>3, <3>2, FirstLife
    <3>6. Booked(f.key)' = E
      BY <3>2, <3>5
    <3>7. \A e : Cardinality({e}) = 1
      BY FS_Singleton
    <3>8. Cardinality({}) = 0
      BY FS_EmptySet
    <3>. QED BY <3>3, <3>4, <3>6, <3>7, <3>8
  <2>. QED BY <2>1, <2>2, <2>3
<1>. QED BY <1>3 DEF AnswerTellsBooks

\* A step that answers nothing leaves what was answered true: it books nothing, or
\* it books in a key's later life or before the key's first answer.
LEMMA SilentTells ==
  ASSUME ApiInv, [Next]_vars, final' = final, answer' = answer,
         \A k \in Keys : Booked(k)' = Booked(k) \/ (expired[k] = 0 => FinalRuns(k) = {})
  PROVE  AnswerTellsBooks'
<1>1. ASSUME NEW f \in final, expired'[f.key] = 0
      PROVE  /\ Booked(f.key)' = Booked(f.key)
             /\ Cardinality(Booked(f.key)) = IF answer[f.run] = "ok" /\ MovesMoney(f) THEN 1 ELSE 0
  <2>1. f.key \in Keys
    BY DEF ApiInv, IInv, TypeOK
  <2>2. /\ expired[f.key] \in Nat /\ expired'[f.key] \in Nat
        /\ expired'[f.key] = expired[f.key] \/ expired'[f.key] = expired[f.key] + 1
    BY <2>1, StepLives DEF ApiInv
  <2>3. expired[f.key] = 0
    BY <1>1, <2>2
  <2>4. f \in FinalRuns(f.key)
    BY DEF FinalRuns
  <2>5. Booked(f.key)' = Booked(f.key)
    BY <2>1, <2>3, <2>4
  <2>. QED BY <2>3, <2>5 DEF ApiInv, AnswerTellsBooks
<1>. QED BY <1>1 DEF AnswerTellsBooks

\* What was answered is true of the books after every step.
LEMMA AnswersKept ==
  ASSUME ApiInv, "ack" \notin ServiceFaults, [ApiNext]_apiVars
  PROVE  DOMAIN answer' = 1..MaxRuns /\ AnswerTellsBooks'
<1>1. IInv /\ [Next]_vars /\ IsFiniteSet(effects) /\ CallsOpen /\ DOMAIN answer = 1..MaxRuns
  BY ApiStepIsStep DEF ApiInv
<1>2. CASE /\ \A k : Booked(k)' = Booked(k)
           /\ final' = final /\ answer' = answer
  BY <1>1, <1>2, SilentTells
<1>3. ASSUME NEW r \in Requests, NEW what \in {"declined", "refused"}, HandlerAnswers(r),
             answer' = [answer EXCEPT ![req[r].run] = what],
             \A k : Booked(k)' = Booked(k)
      PROVE  DOMAIN answer' = 1..MaxRuns /\ AnswerTellsBooks'
  <2>1. \A k : Booked(k)' = Booked(k) \cup {}
    BY <1>3
  <2>2. what # "ok"
    BY <1>3
  <2>. QED BY <1>1, <1>3, <2>1, <2>2, RespondTells
<1>4. ASSUME NEW r \in Requests, HandlerSucceeds(r)
      PROVE  DOMAIN answer' = 1..MaxRuns /\ AnswerTellsBooks'
  <2>. DEFINE op == serving[r].op
              e == Effect(r, op)
              E == IF op \in {"capture", "refund"} THEN {e} ELSE {}
  <2>1. /\ req[r].pc = "handler" /\ Did(r, op)
        /\ op \in {"capture", "refund"} <=> MovesMoney(req[r])
        /\ \/ HandlerAnswers(r) /\ answer' = [answer EXCEPT ![req[r].run] = "ok"]
           \/ Crash(r) /\ answer' = answer
    BY <1>1, <1>4, LastCommitMoves
  <2>2. \A k : k # req[r].key => Booked(k)' = Booked(k)
    BY <1>1, <2>1, CommitBooks
  <2>3. CASE HandlerAnswers(r) /\ answer' = [answer EXCEPT ![req[r].run] = "ok"]
    <3>1. \A k : k = req[r].key => Booked(k)' = Booked(k) \cup E
      <4>1. CASE op \in {"capture", "refund"}
        <5>1. E = {e}
          BY <4>1
        <5>2. \A k : k = req[r].key => Booked(k)' = Booked(k) \cup {e}
          BY <1>1, <2>1, <4>1, CommitBooks
        <5>. QED BY <5>1, <5>2
      <4>2. CASE op \notin {"capture", "refund"}
        <5>1. E = {}
          BY <4>2
        <5>2. \A k : Booked(k)' = Booked(k)
          BY <1>1, <2>1, <4>2, CommitBooks
        <5>. QED BY <5>1, <5>2
      <4>. QED BY <4>1, <4>2
    <3>2. \/ E = {} /\ ~MovesMoney(req[r])
          \/ (\E x : E = {x}) /\ MovesMoney(req[r])
      BY <2>1
    <3>. HIDE DEF E
    <3>3. AnswerTellsBooks'
      BY <2>2, <2>3, <3>1, <3>2, RespondTells
    <3>. QED BY <1>1, <2>3, <3>3
  <2>4. CASE Crash(r) /\ answer' = answer
    <3>1. final' = final
      BY <2>4 DEF Crash
    <3>2. expired[req[r].key] = 0 => FinalRuns(req[r].key) = {}
      BY <2>1, FirstLife
    <3>3. AnswerTellsBooks'
      BY <1>1, <2>2, <2>4, <3>1, <3>2, SilentTells
    <3>. QED BY <1>1, <2>4, <3>3
  <2>. QED BY <2>1, <2>3, <2>4
<1>. QED BY <1>1, <1>2, <1>3, <1>4, OtherStepsBookNothing

-----------------------------------------------------------------------------
(* What an answer says of the order.                                       *)

\* The statuses of a payment that was never authorized.
NotYet == {P!Absent, "created", "failed"}

\* Whoever is in its database transaction holds the row's lock alone, and has
\* read the row as it is.
RowsHeld ==
  /\ DOMAIN row = Txns /\ DOMAIN lock = Txns /\ DOMAIN fresh = Requests
  /\ \A t \in Txns : "status" \in DOMAIN row[t]
  /\ \A r \in Requests : serving[r].pc = "locked" =>
       lock[serving[r].txn] = {r} /\ fresh[r] = row[serving[r].txn]

\* A call works on the payment of its route, which has a row by now.
CallsKnown ==
  \A r \in Requests : serving[r].pc \notin P!Resting =>
    /\ serving[r].txn = req[r].path.txn /\ serving[r].txn \in Txns
    /\ row[serving[r].txn].status # P!Absent

\* A payment is authorized once, and its row shows it.
AuthorizedOnce ==
  \A t \in Txns :
    /\ Authorized(t) # {} <=> row[t].status \notin NotYet
    /\ \A d, e \in Authorized(t) : d = e

\* A handler that may still authorize its payment has no authorization under its
\* key, and one that has gone on to the capture has its own.
HoldsKnown ==
  \A r \in Requests : serving[r].pc \notin P!Resting =>
    /\ Ordering(serving[r]) =>
         \A e \in Authorized(serving[r].txn) : e.key # req[r].key
    /\ req[r].path.op = "create" /\ ~Ordering(serving[r]) =>
         \E e \in Authorized(serving[r].txn) : e.run = req[r].run

\* In a life of a key that is still unanswered no order without capture has been
\* authorized: the step that commits it is the one that answers.
HoldsAnswered ==
  \A e \in effects :
    /\ e.key \in Keys
    /\ e.op = "authorize" /\ ~e.body.capture /\ Unanswered(e.key) => expired[e.key] > 0

OrderInv ==
  RowsHeld /\ CallsKnown /\ AuthorizedOnce /\ HoldsKnown /\ HoldsAnswered /\ AnswerTellsOrder

\* No row is authorized by the step, and a failed one stays failed.
Kept ==
  \A t \in Txns :
    /\ row'[t].status \notin NotYet <=> row[t].status \notin NotYet
    /\ row[t].status = "failed" => row'[t].status = "failed"
    /\ row[t].status # P!Absent => row'[t].status # P!Absent

\* The step authorizes the payment of request r.
Authorizes(r) ==
  LET t == serving[r].txn
  IN  /\ serving[r].pc = "locked" /\ serving[r].op = "authorize" /\ t \in Txns
      /\ row[t].status = "created" /\ row'[t].status = "authorized"
      /\ \A u \in Txns : u # t => row'[u] = row[u]

\* The step writes no row but t's, and no transaction but r's.
Touches(r, t) ==
  /\ DOMAIN row' = Txns /\ DOMAIN lock' = Txns /\ DOMAIN fresh' = Requests
  /\ "status" \in DOMAIN row'[t]
  /\ \A u \in Txns : u # t => row'[u] = row[u] /\ lock'[u] = lock[u]
  /\ \A q \in Requests : q # r => fresh'[q] = fresh[q]

\* A step of one request on one payment keeps the locks in order, if it disturbs
\* nobody else's row and takes its lock properly.
LEMMA TouchKeeps ==
  ASSUME RowsHeld, CallsKnown, NEW r \in Requests, NEW t \in Txns, Touches(r, t),
         \A q \in Requests : q # r => serving'[q] = serving[q],
         \A q \in Requests : q # r /\ serving[q].pc = "locked" /\ serving[q].txn = t =>
           row'[t] = row[t] /\ lock'[t] = lock[t],
         serving'[r].pc = "locked" =>
           serving'[r].txn = t /\ lock'[t] = {r} /\ fresh'[r] = row'[t]
  PROVE  RowsHeld'
<1>1. \A u \in Txns : "status" \in DOMAIN row'[u]
  BY DEF RowsHeld, Touches
<1>2. ASSUME NEW q \in Requests, serving'[q].pc = "locked"
      PROVE  lock'[serving'[q].txn] = {q} /\ fresh'[q] = row'[serving'[q].txn]
  <2>1. CASE q = r
    BY <1>2, <2>1
  <2>2. CASE q # r
    <3>1. serving'[q] = serving[q] /\ fresh'[q] = fresh[q] /\ serving[q].txn \in Txns
      BY <1>2, <2>2 DEF CallsKnown, Touches, P!Resting
    <3>2. row'[serving[q].txn] = row[serving[q].txn] /\ lock'[serving[q].txn] = lock[serving[q].txn]
      BY <1>2, <2>2, <3>1 DEF Touches
    <3>. QED BY <1>2, <3>1, <3>2 DEF RowsHeld
  <2>. QED BY <2>1, <2>2
<1>. QED BY <1>1, <1>2 DEF RowsHeld, Touches

\* The end of a database transaction.
LEMMA EndKeeps ==
  ASSUME RowsHeld, CallsKnown, NEW r \in Requests, serving[r].pc = "locked",
         NEW t \in Txns, t = serving[r].txn, Touches(r, t),
         \A q \in Requests : q # r => serving'[q] = serving[q], serving'[r].pc # "locked"
  PROVE  RowsHeld'
<1>1. \A q \in Requests : serving[q].pc = "locked" /\ serving[q].txn = t => q = r
  BY DEF RowsHeld
<1>. QED BY <1>1, TouchKeeps

\* What a COMMIT writes.
LEMMA PersistWrites ==
  ASSUME RowsHeld, NEW r \in Requests, NEW t \in Txns, NEW new, NEW groups, NEW event,
         "status" \in DOMAIN new, P!Persist(r, t, new, groups, event)
  PROVE  Touches(r, t) /\ row'[t].status = new.status
<1>1. row' = [row EXCEPT ![t] = [new EXCEPT !.version = new.version + 1]]
  BY DEF P!Persist
<1>2. /\ lock' = [lock EXCEPT ![t] = @ \ {r}]
      /\ fresh' = [fresh EXCEPT ![r] = P!NoRow]
  BY DEF P!Persist, P!ReleaseLock
<1>3. row'[t] = [new EXCEPT !.version = new.version + 1]
  BY <1>1 DEF RowsHeld
<1>4. "status" \in DOMAIN row'[t] /\ row'[t].status = new.status
  BY <1>3
<1>. QED BY <1>1, <1>2, <1>4 DEF RowsHeld, Touches

\* What a ROLLBACK, or a COMMIT without a write, leaves behind.
LEMMA EndWrites ==
  ASSUME RowsHeld, NEW r \in Requests, NEW t \in Txns, row' = row, P!ReleaseLock(r, t)
  PROVE  Touches(r, t)
BY DEF RowsHeld, Touches, P!ReleaseLock

\* The statuses that the domain's methods leave behind.
LEMMA StatusAfter ==
  ASSUME NEW x, "status" \in DOMAIN x, NEW n
  PROVE  /\ "status" \in DOMAIN P!Authorize(x, 0) /\ P!Authorize(x, 0).status = "authorized"
         /\ "status" \in DOMAIN P!Fail(x) /\ P!Fail(x).status = "failed"
         /\ "status" \in DOMAIN P!Capture(x, n, 0) /\ P!Capture(x, n, 0).status = "captured"
         /\ "status" \in DOMAIN P!Refund(x, n) /\ P!Refund(x, n).status \in {x.status, "refunded"}
BY DEF P!Authorize, P!Fail, P!Capture, P!Refund

\* A step outside the database keeps rows and locks as they are.
LEMMA QuietCall ==
  ASSUME RowsHeld, CallsKnown, NEW r \in Requests,
         row' = row, lock' = lock, fresh' = fresh, serving'[r].pc # "locked",
         \A q \in Requests : q # r => serving'[q] = serving[q]
  PROVE  RowsHeld' /\ Kept
<1>1. RowsHeld'
  BY DEF RowsHeld
<1>. QED BY <1>1 DEF Kept

\* The handler opens its call: the row is inserted, or was there.
LEMMA StartsKeep ==
  ASSUME CallsOpen, RowsHeld, CallsKnown, NEW r \in Requests, HandlerStarts(r),
         req[r].path.txn \in Txns
  PROVE  RowsHeld' /\ Kept /\ row'[req[r].path.txn].status # P!Absent
<1>. DEFINE t == req[r].path.txn
<1>1. serving'[r].pc = "acquirer" /\ \A q \in Requests : q # r => serving'[q] = serving[q]
  BY CallStarts
<1>2. lock' = lock /\ fresh' = fresh /\ ServiceStarts(r)
  BY DEF HandlerStarts, ServiceStarts, P!Create, P!CapturePreCheck, P!RefundPreCheck, P!txVars
<1>3. CASE row' = row /\ row[t].status # P!Absent
  BY <1>1, <1>2, <1>3, QuietCall
<1>4. CASE row[t].status = P!Absent /\ \E a : row' = [row EXCEPT ![t] = P!NewTransaction(a)]
  <2>1. row'[t].status = "created" /\ "status" \in DOMAIN row'[t]
    BY <1>4 DEF RowsHeld, P!NewTransaction
  <2>2. Touches(r, t)
    BY <1>2, <1>4, <2>1 DEF RowsHeld, Touches
  <2>3. \A q \in Requests : serving[q].pc = "locked" => serving[q].txn # t
    BY <1>4 DEF CallsKnown, P!Resting
  <2>4. RowsHeld'
    BY <1>1, <2>2, <2>3, TouchKeeps
  <2>5. Kept
    BY <1>4, <2>1, <2>2 DEF Kept, NotYet, Touches, P!Absent
  <2>. QED BY <2>1, <2>4, <2>5 DEF P!Absent
<1>5. CASE P!Create(r, t, req[r].body.amount, req[r].body.capture)
  <2>1. CASE row[t].status = P!Absent
    BY <1>4, <1>5, <2>1 DEF P!Create, P!Absent
  <2>2. CASE row[t].status # P!Absent
    BY <1>3, <1>5, <2>2 DEF P!Create
  <2>. QED BY <2>1, <2>2
<1>6. CASE P!CapturePreCheck(r, t, req[r].body.amount)
  BY <1>3, <1>6 DEF P!CapturePreCheck, P!CanCapture, P!dbVars, P!Absent
<1>7. CASE P!RefundPreCheck(r, t, req[r].body.amount)
  BY <1>3, <1>7 DEF P!RefundPreCheck, P!CanRefund, P!dbVars, P!Absent
<1>. QED BY <1>2, <1>5, <1>6, <1>7 DEF ServiceStarts

\* The call goes on up to its database transaction, and into it.
LEMMA WaitsKeep ==
  ASSUME CallsOpen, "ack" \notin ServiceFaults, RowsHeld, CallsKnown, NEW r \in Requests,
         HandlerWaits(r)
  PROVE  RowsHeld' /\ Kept
<1>1. /\ serving[r].pc \notin P!Resting /\ serving'[r].txn = serving[r].txn
      /\ DOMAIN serving = Requests /\ IsCall(serving[r])
      /\ \A q \in Requests : q # r => serving'[q] = serving[q]
  BY CallGoesOn DEF CallsOpen
<1>2. CASE P!LockRow(r)
  <2>. DEFINE t == serving[r].txn
  <2>1. t \in Txns
    BY <1>1 DEF CallsKnown
  <2>2. lock[t] = {} /\ lock'[t] = {r} /\ fresh'[r] = row'[t] /\ row' = row
    BY <1>2, <2>1 DEF P!LockRow, P!TakeLock, P!dbVars, RowsHeld
  <2>3. Touches(r, t)
    BY <1>2, <2>1, <2>2 DEF P!LockRow, P!TakeLock, RowsHeld, Touches
  <2>4. \A q \in Requests : ~(serving[q].pc = "locked" /\ serving[q].txn = t)
    BY <2>2 DEF RowsHeld
  <2>5. RowsHeld'
    BY <1>1, <2>1, <2>2, <2>3, <2>4, TouchKeeps
  <2>. QED BY <2>2, <2>5 DEF Kept
<1>3. CASE P!AcquirerApproves(r) \/ P!AcquirerDeclines(r) \/ P!AutoCapture(r)
  <2>1. row' = row /\ lock' = lock /\ fresh' = fresh
    BY <1>3 DEF P!AcquirerApproves, P!AcquirerDeclines, P!AutoCapture, P!dbVars, P!txVars
  <2>2. serving'[r].pc # "locked"
    BY <1>1, <1>3, RestingCalls DEF P!AcquirerApproves, P!AcquirerDeclines, P!AutoCapture,
       P!CallAcquirer, P!Resting, IsCall
  <2>. QED BY <1>1, <2>1, <2>2, QuietCall
<1>. QED BY <1>2, <1>3 DEF HandlerWaits

\* COMMIT of an authorization.
LEMMA AuthorizeCommits ==
  ASSUME CallsOpen, "ack" \notin ServiceFaults, RowsHeld, CallsKnown, NEW r \in Requests,
         P!CommitAuthorize(r)
  PROVE  RowsHeld' /\ Authorizes(r)
<1>. DEFINE t == serving[r].txn
<1>1. serving[r].pc = "locked" /\ serving[r].op = "authorize" /\ t \in Txns
  BY DEF P!CommitAuthorize, P!Committing, CallsKnown, P!Resting
<1>2. fresh[r] = row[t] /\ fresh[r].status = "created" /\ "status" \in DOMAIN fresh[r]
  BY <1>1 DEF P!CommitAuthorize, P!Committing, P!DomainAccepts, RowsHeld
<1>. DEFINE new == P!Authorize(fresh[r], 0)
<1>3. P!Persist(r, t, new, <<>>, "authorized")
  BY DEF P!CommitAuthorize
<1>4. "status" \in DOMAIN new /\ new.status = "authorized"
  BY <1>2, StatusAfter
<1>5. Touches(r, t) /\ row'[t].status = "authorized"
  <2>. HIDE DEF new
  <2>. QED BY <1>1, <1>3, <1>4, PersistWrites
<1>6. /\ serving'[r].pc # "locked"
      /\ \A q \in Requests : q # r => serving'[q] = serving[q]
  <2>1. serving' = [serving EXCEPT ![r] =
                      IF serving[r].auto THEN [serving[r] EXCEPT !.pc = "autocapture"] ELSE P!Idle]
    BY DEF P!CommitAuthorize, P!Answer
  <2>2. IsCall(serving[r]) /\ DOMAIN serving = Requests
    BY DEF CallsOpen
  <2>3. [serving[r] EXCEPT !.pc = "autocapture"].pc = "autocapture"
    BY <2>2, CallMoves
  <2>. QED BY <2>1, <2>2, <2>3, RestingCalls DEF P!Resting
<1>7. RowsHeld'
  BY <1>1, <1>5, <1>6, EndKeeps
<1>. QED BY <1>1, <1>2, <1>5, <1>7 DEF Authorizes, Touches

\* COMMIT of anything else.
LEMMA OtherCommits ==
  ASSUME CallsOpen, "ack" \notin ServiceFaults, RowsHeld, CallsKnown, NEW r \in Requests,
         P!CommitFail(r) \/ P!CommitCapture(r) \/ P!CommitRefund(r)
  PROVE  /\ RowsHeld' /\ Kept
         /\ P!CommitFail(r) => /\ serving[r].pc = "locked" /\ serving[r].op = "fail"
                               /\ row'[serving[r].txn].status \notin {P!Absent, "created"}
<1>. DEFINE t == serving[r].txn
<1>1. serving[r].pc = "locked" /\ t \in Txns /\ row[t].status # P!Absent
  BY DEF P!CommitFail, P!CommitCapture, P!CommitRefund, P!Committing, CallsKnown, P!Resting
<1>2. fresh[r] = row[t] /\ "status" \in DOMAIN fresh[r]
  BY <1>1 DEF RowsHeld
<1>3. /\ serving'[r].pc # "locked"
      /\ \A q \in Requests : q # r => serving'[q] = serving[q]
  <2>1. DOMAIN serving = Requests
    BY DEF CallsOpen
  <2>2. serving' = [serving EXCEPT ![r] = P!Idle] \/ serving' = [serving EXCEPT ![r] = P!Declined(t)]
    BY DEF P!CommitFail, P!CommitCapture, P!CommitRefund, P!Answer
  <2>. QED BY <2>1, <2>2, RestingCalls DEF P!Resting
<1>4. ASSUME Touches(r, t), \/ row'[t] = row[t]
                            \/ row[t].status = "created" /\ row'[t].status = "failed"
                            \/ row[t].status \notin NotYet /\ row'[t].status \notin NotYet
      PROVE  RowsHeld' /\ Kept
  <2>1. RowsHeld'
    BY <1>1, <1>3, <1>4, EndKeeps
  <2>2. Kept
    BY <1>1, <1>4 DEF Kept, Touches, NotYet, P!Absent
  <2>. QED BY <2>1, <2>2
<1>5. ASSUME NEW new, NEW groups, NEW event, "status" \in DOMAIN new,
             P!Persist(r, t, new, groups, event)
      PROVE  Touches(r, t) /\ row'[t].status = new.status
  BY <1>1, <1>5, PersistWrites
<1>6. CASE P!CommitFail(r)
  <2>1. serving[r].op = "fail"
    BY <1>6 DEF P!CommitFail, P!Committing
  <2>2. CASE fresh[r].status = "created"
    <3>1. P!Persist(r, t, P!Fail(fresh[r]), <<>>, "failed")
      BY <1>6, <2>2 DEF P!CommitFail
    <3>2. "status" \in DOMAIN P!Fail(fresh[r]) /\ P!Fail(fresh[r]).status = "failed"
      BY <1>2, StatusAfter
    <3>3. Touches(r, t) /\ row'[t].status = "failed"
      BY <1>5, <3>1, <3>2
    <3>. QED BY <1>1, <1>2, <1>4, <2>1, <2>2, <3>3 DEF P!Absent
  <2>3. CASE fresh[r].status # "created"
    <3>1. P!ReleaseLock(r, t) /\ row' = row
      BY <1>6, <2>3 DEF P!CommitFail, P!dbVars
    <3>2. Touches(r, t)
      BY <1>1, <3>1, EndWrites
    <3>. QED BY <1>1, <1>2, <1>4, <2>1, <2>3, <3>1, <3>2
  <2>. QED BY <2>2, <2>3
<1>7. CASE P!CommitCapture(r)
  <2>. DEFINE new == P!Capture(fresh[r], serving[r].amount, 0)
  <2>1. \E groups : P!Persist(r, t, new, groups, "captured")
    BY <1>7 DEF P!CommitCapture
  <2>2. "status" \in DOMAIN new /\ new.status = "captured"
    BY <1>2, StatusAfter
  <2>3. Touches(r, t) /\ row'[t].status = "captured"
    <3>. HIDE DEF new
    <3>. QED BY <1>5, <2>1, <2>2
  <2>4. row[t].status \in {"authorized", "captured"} /\ serving[r].op # "fail"
    BY <1>2, <1>7 DEF P!CommitCapture, P!Committing, P!DomainAccepts, P!CanCapture
  <2>5. row[t].status \notin NotYet /\ row'[t].status \notin NotYet
    BY <2>3, <2>4 DEF NotYet, P!Absent
  <2>6. ~P!CommitFail(r)
    BY <2>4 DEF P!CommitFail, P!Committing
  <2>. QED BY <1>4, <2>3, <2>5, <2>6
<1>8. CASE P!CommitRefund(r)
  <2>. DEFINE new == P!Refund(fresh[r], serving[r].amount)
  <2>1. \E groups : P!Persist(r, t, new, groups, "refunded")
    BY <1>8 DEF P!CommitRefund
  <2>2. "status" \in DOMAIN new /\ new.status \in {fresh[r].status, "refunded"}
    BY <1>2, StatusAfter
  <2>3. Touches(r, t) /\ row'[t].status \in {row[t].status, "refunded"}
    <3>. HIDE DEF new
    <3>. QED BY <1>2, <1>5, <2>1, <2>2
  <2>4. row[t].status \in {"captured", "settled"} /\ serving[r].op # "fail"
    BY <1>2, <1>8 DEF P!CommitRefund, P!Committing, P!DomainAccepts, P!CanRefund
  <2>5. row[t].status \notin NotYet /\ row'[t].status \notin NotYet
    BY <2>3, <2>4 DEF NotYet, P!Absent
  <2>6. ~P!CommitFail(r)
    BY <2>4 DEF P!CommitFail, P!Committing
  <2>. QED BY <1>4, <2>3, <2>5, <2>6
<1>. QED BY <1>6, <1>7, <1>8

\* A call that ends without a COMMIT.
LEMMA EndsKeep ==
  ASSUME CallsOpen, RowsHeld, CallsKnown, NEW r \in Requests,
         \/ P!CommitRefused(r) \/ P!Abandon(r) \/ P!AcquirerInvalidCard(r)
         \/ P!AcquirerUnavailable(r) \/ (P!AutoCapture(r) /\ serving'[r] = P!Idle)
  PROVE  RowsHeld' /\ Kept
<1>. DEFINE t == serving[r].txn
<1>1. DOMAIN serving = Requests
  BY DEF CallsOpen
<1>2. /\ serving'[r].pc # "locked" /\ row' = row
      /\ \A q \in Requests : q # r => serving'[q] = serving[q]
  <2>1. CASE P!AutoCapture(r) /\ serving'[r] = P!Idle
    BY <1>1, <2>1, RestingCalls DEF P!AutoCapture, P!CallAcquirer, P!Resting, P!dbVars
  <2>2. CASE serving' = [serving EXCEPT ![r] = P!Idle] /\ row' = row
    BY <1>1, <2>2, RestingCalls DEF P!Resting
  <2>. QED BY <2>1, <2>2 DEF P!CommitRefused, P!Abandon, P!AcquirerInvalidCard,
              P!AcquirerUnavailable, P!dbVars
<1>3. CASE lock' = lock /\ fresh' = fresh
  BY <1>2, <1>3, QuietCall
<1>4. CASE serving[r].pc = "locked" /\ P!ReleaseLock(r, t)
  <2>1. t \in Txns
    BY <1>4 DEF CallsKnown, P!Resting
  <2>2. Touches(r, t)
    BY <1>2, <1>4, <2>1, EndWrites
  <2>3. RowsHeld'
    BY <1>2, <1>4, <2>1, <2>2, EndKeeps
  <2>. QED BY <1>2, <2>3 DEF Kept
<1>. QED BY <1>3, <1>4 DEF P!CommitRefused, P!Abandon, P!AcquirerInvalidCard,
            P!AcquirerUnavailable, P!AutoCapture, P!txVars

\* What each step does to the orders: it authorizes one payment, which only the
\* last or the last but one commit of a handler does, or it leaves all
\* authorizations as they are.
LEMMA OrderSteps ==
  ASSUME IInv, CallsOpen, "ack" \notin ServiceFaults, RowsHeld, CallsKnown, [ApiNext]_apiVars
  PROVE  /\ RowsHeld'
         /\ \/ /\ Kept /\ \A t : Authorized(t)' = Authorized(t)
               /\ \A e \in effects' : e \in effects \/ \E r \in Requests :
                    req[r].pc = "handler" /\ e.key = req[r].key /\ e.op # "authorize"
            \/ \E r \in Requests :
                 /\ Authorizes(r) /\ req[r].pc = "handler"
                 /\ effects' = effects \cup {Effect(r, "authorize")}
                 /\ HandlerAuthorizes(r) \/ HandlerSucceeds(r)
<1>. DEFINE Still == /\ Kept /\ \A t : Authorized(t)' = Authorized(t)
                     /\ \A e \in effects' : e \in effects \/ \E r \in Requests :
                          req[r].pc = "handler" /\ e.key = req[r].key /\ e.op # "authorize"
            One == \E r \in Requests :
                     /\ Authorizes(r) /\ req[r].pc = "handler"
                     /\ effects' = effects \cup {Effect(r, "authorize")}
                     /\ HandlerAuthorizes(r) \/ HandlerSucceeds(r)
<1>1. ASSUME effects' = effects, Kept PROVE Still
  BY <1>1 DEF Authorized
<1>2. ASSUME service' = service, effects' = effects PROVE RowsHeld' /\ Still
  <2>1. row' = row /\ lock' = lock /\ fresh' = fresh /\ serving' = serving
    BY <1>2 DEF service
  <2>. QED BY <1>1, <1>2, <2>1 DEF RowsHeld, Kept
<1>3. CASE UNCHANGED apiVars
  BY <1>2, <1>3 DEF apiVars
<1>4. ASSUME NEW k \in Keys, KeyExpires(k) PROVE RowsHeld' /\ Still
  BY <1>2, <1>4 DEF KeyExpires
<1>5. ASSUME NEW r \in Requests, ApiArrive(r) \/ Middleware(r) \/ HandlerRefuses(r)
      PROVE  RowsHeld' /\ Still
  BY <1>2, <1>5 DEF ApiArrive, Middleware, HandlerRefuses
<1>6. ASSUME NEW r \in Requests, ApiCrash(r) PROVE RowsHeld' /\ Still
  <2>1. effects' = effects /\ (service' = service \/ P!Abandon(r))
    BY <1>6 DEF ApiCrash
  <2>. QED BY <1>1, <1>2, <2>1, EndsKeep
<1>7. ASSUME NEW r \in Requests, HandlerStarts(r) PROVE RowsHeld' /\ Still
  <2>1. req[r].path.txn \in Txns
    <3>1. req[r] \in RequestState
      BY <1>7, HandlerUnanswered DEF HandlerStarts, Entering
    <3>. QED BY <3>1, PathsAssumption DEF RequestState
  <2>. QED BY <1>1, <1>7, <2>1, StartsKeep DEF HandlerStarts
<1>8. ASSUME NEW r \in Requests, HandlerWaits(r) PROVE RowsHeld' /\ Still
  BY <1>1, <1>8, WaitsKeep DEF HandlerWaits
<1>9. ASSUME NEW r \in Requests, HandlerDeclines(r) \/ HandlerLoses(r) \/ HandlerBreaks(r)
      PROVE  RowsHeld' /\ Still
  BY <1>1, <1>9, OtherCommits, EndsKeep DEF HandlerDeclines, HandlerLoses, HandlerBreaks
<1>10. ASSUME NEW r \in Requests, HandlerAuthorizes(r) PROVE RowsHeld' /\ One
  <2>1. req[r].pc = "handler" /\ P!CommitAuthorize(r) /\ Did(r, "authorize")
    BY <1>10, CallGoesOn DEF HandlerAuthorizes
  <2>2. RowsHeld' /\ Authorizes(r)
    BY <2>1, AuthorizeCommits
  <2>. QED BY <1>10, <2>1, <2>2 DEF Did
<1>11. ASSUME NEW r \in Requests, HandlerSucceeds(r) PROVE RowsHeld' /\ (Still \/ One)
  <2>1. req[r].pc = "handler" /\ Did(r, serving[r].op)
    BY <1>11, LastCommitMoves
  <2>2. CASE P!CommitAuthorize(r)
    <3>1. serving[r].op = "authorize" /\ RowsHeld' /\ Authorizes(r)
      BY <2>2, AuthorizeCommits DEF Authorizes
    <3>. QED BY <1>11, <2>1, <3>1 DEF Did
  <2>3. CASE P!CommitCapture(r) \/ P!CommitRefund(r)
    <3>. DEFINE x == Effect(r, serving[r].op)
    <3>1. serving[r].op # "authorize"
      BY <2>3 DEF P!CommitCapture, P!CommitRefund, P!Committing
    <3>2. x.op # "authorize" /\ x.key = req[r].key /\ effects' = effects \cup {x}
      BY <2>1, <3>1 DEF Did, Effect
    <3>3. Still
      <4>. HIDE DEF x
      <4>1. Kept
        BY <2>3, OtherCommits
      <4>2. \A t : Authorized(t)' = Authorized(t)
        BY <3>2 DEF Authorized
      <4>3. ASSUME NEW e \in effects'
            PROVE  e \in effects \/ \E q \in Requests :
                     req[q].pc = "handler" /\ e.key = req[q].key /\ e.op # "authorize"
        BY <2>1, <3>2
      <4>. QED BY <4>1, <4>2, <4>3
    <3>. QED BY <2>3, <3>3, OtherCommits
  <2>. QED BY <1>11, <2>2, <2>3 DEF HandlerSucceeds
<1>. QED BY <1>3, <1>4, <1>5, <1>6, <1>7, <1>8, <1>9, <1>10, <1>11 DEF ApiNext, Handler

\* What becomes of the calls: one that is open was open, on the same payment, or
\* has just been opened, on the payment of its route.
LEMMA CallSteps ==
  ASSUME IInv, CallsOpen, "ack" \notin ServiceFaults, [ApiNext]_apiVars, NEW q \in Requests,
         serving'[q].pc \notin P!Resting
  PROVE  \/ /\ serving[q].pc \notin P!Resting /\ serving'[q].txn = serving[q].txn
            /\ req'[q] = req[q]
            /\ Ordering(serving'[q]) => Ordering(serving[q])
            /\ Ordering(serving[q]) => Ordering(serving'[q]) \/ HandlerAuthorizes(q)
         \/ /\ HandlerStarts(q) /\ serving'[q].txn = req[q].path.txn /\ req'[q] = req[q]
<1>1. CASE UNCHANGED apiVars
  BY <1>1 DEF apiVars, vars, service
<1>2. ASSUME NEW k \in Keys, KeyExpires(k)
      PROVE  serving' = serving /\ req' = req
  BY <1>2 DEF KeyExpires, Expire, service
<1>3. ASSUME NEW r \in Requests, ApiArrive(r) \/ Middleware(r)
      PROVE  serving' = serving /\ req'[q] = req[q]
  <2>1. serving' = serving
    BY <1>3 DEF ApiArrive, Middleware, service
  <2>2. req[r].pc # "handler"
    BY <1>3 DEF ApiArrive, Middleware, Arrive, NoRequest, BeginWins, BeginLoses, BeginFails,
                GetRefuses, GetReplays, GetFails, Replayed, Complete, CompleteFails, Release,
                ReleaseFails
  <2>3. q # r
    BY <2>1, <2>2 DEF CallsOpen
  <2>4. Arrive(r) \/ Advance(r) \/ Disturb(r)
    BY <1>3 DEF ApiArrive, Middleware, Advance, Disturb
  <2>. QED BY <2>1, <2>3, <2>4, OthersStand
<1>4. ASSUME NEW r \in Requests, HandlerStarts(r)
      PROVE  \/ serving'[q] = serving[q] /\ req'[q] = req[q]
             \/ q = r /\ serving'[q].txn = req[q].path.txn /\ req'[q] = req[q]
  BY <1>4, CallStarts DEF HandlerStarts, vars
<1>5. ASSUME NEW r \in Requests, HandlerWaits(r) \/ HandlerAuthorizes(r)
      PROVE  /\ serving[q].pc \notin P!Resting /\ serving'[q].txn = serving[q].txn
             /\ req'[q] = req[q]
             /\ Ordering(serving'[q]) => Ordering(serving[q])
             /\ Ordering(serving[q]) => Ordering(serving'[q]) \/ HandlerAuthorizes(q)
  <2>1. req' = req
    BY <1>5 DEF HandlerWaits, HandlerAuthorizes, vars
  <2>2. CASE q = r
    BY <1>5, <2>1, <2>2, CallGoesOn
  <2>3. CASE q # r
    <3>1. serving'[q] = serving[q]
      BY <1>5, <2>3, CallGoesOn
    <3>. QED BY <2>1, <3>1
  <2>. QED BY <2>2, <2>3
<1>6. ASSUME NEW r \in Requests,
             \/ HandlerRefuses(r) \/ HandlerSucceeds(r) \/ HandlerDeclines(r) \/ HandlerLoses(r)
             \/ HandlerBreaks(r) \/ ApiCrash(r)
      PROVE  serving'[q] = serving[q] /\ req'[q] = req[q]
  <2>1. q # r /\ serving'[q] = serving[q]
    BY <1>6, CallEnds
  <2>2. HandlerAnswers(r) \/ HandlerFails(r) \/ Crash(r)
    BY <1>6 DEF HandlerRefuses, HandlerSucceeds, HandlerDeclines, HandlerLoses, HandlerBreaks,
                ApiCrash, Respond, RespondServerError
  <2>. QED BY <2>1, <2>2, OthersStand DEF Advance, Disturb
<1>7. CASE serving'[q] = serving[q] /\ req'[q] = req[q]
  BY <1>7
<1>. QED BY <1>1, <1>2, <1>3, <1>4, <1>5, <1>6, <1>7 DEF ApiNext, Handler

\* A call works on its route's payment, whatever step is taken.
LEMMA CallsKnownKept ==
  ASSUME IInv, CallsOpen, "ack" \notin ServiceFaults, RowsHeld, CallsKnown, [ApiNext]_apiVars
  PROVE  CallsKnown'
<1>. SUFFICES ASSUME NEW q \in Requests, serving'[q].pc \notin P!Resting
              PROVE  /\ serving'[q].txn = req'[q].path.txn /\ serving'[q].txn \in Txns
                     /\ row'[serving'[q].txn].status # P!Absent
  BY DEF CallsKnown
<1>1. CASE HandlerStarts(q) /\ serving'[q].txn = req[q].path.txn /\ req'[q] = req[q]
  <2>1. req[q].path.txn \in Txns
    <3>1. req[q] \in RequestState
      BY <1>1, HandlerUnanswered DEF HandlerStarts, Entering
    <3>. QED BY <3>1, PathsAssumption DEF RequestState
  <2>. QED BY <1>1, <2>1, StartsKeep
<1>2. CASE serving[q].pc \notin P!Resting /\ serving'[q].txn = serving[q].txn /\ req'[q] = req[q]
  <2>1. /\ serving[q].txn = req[q].path.txn /\ serving[q].txn \in Txns
        /\ row[serving[q].txn].status # P!Absent
    BY <1>2 DEF CallsKnown
  <2>2. Kept \/ \E r \in Requests : Authorizes(r)
    BY OrderSteps
  <2>3. row'[serving[q].txn].status # P!Absent
    BY <2>1, <2>2 DEF Kept, Authorizes, P!Absent
  <2>. QED BY <1>2, <2>1, <2>3
<1>. QED BY <1>1, <1>2, CallSteps

\* What is committed stays so.
LEMMA EffectsGrow ==
  ASSUME [ApiNext]_apiVars
  PROVE  effects \subseteq effects'
BY DEF ApiNext, apiVars, ApiArrive, Middleware, KeyExpires, Handler, HandlerStarts,
       HandlerRefuses, HandlerWaits, HandlerAuthorizes, HandlerSucceeds, HandlerDeclines,
       HandlerLoses, HandlerBreaks, ApiCrash, Did

\* The authorization that a step adds is its payment's first.
LEMMA FirstAuthorization ==
  ASSUME CallsKnown, AuthorizedOnce, NEW r \in Requests, Authorizes(r),
         effects' = effects \cup {Effect(r, "authorize")},
         NEW t, t = serving[r].txn
  PROVE  /\ Authorized(t) = {} /\ Authorized(t)' = {Effect(r, "authorize")}
         /\ \A u : u # t => Authorized(u)' = Authorized(u)
<1>. DEFINE x == Effect(r, "authorize")
<1>1. Authorized(t) = {}
  BY DEF Authorizes, AuthorizedOnce, NotYet
<1>2. x.op = "authorize" /\ x.path.txn = t
  BY DEF Effect, CallsKnown, Authorizes, P!Resting
<1>3. effects' = effects \cup {x}
  OBVIOUS
<1>. HIDE DEF x
<1>4. Authorized(t)' = {x} /\ \A u : u # t => Authorized(u)' = Authorized(u)
  BY <1>1, <1>2, <1>3 DEF Authorized
<1>. QED BY <1>1, <1>4 DEF x

\* A payment is authorized once, and its row shows it.
LEMMA AuthorizedOnceKept ==
  ASSUME IInv, CallsOpen, "ack" \notin ServiceFaults, RowsHeld, CallsKnown, AuthorizedOnce,
         [ApiNext]_apiVars
  PROVE  AuthorizedOnce'
<1>1. CASE Kept /\ \A t : Authorized(t)' = Authorized(t)
  BY <1>1 DEF AuthorizedOnce, Kept
<1>2. ASSUME NEW r \in Requests, Authorizes(r), effects' = effects \cup {Effect(r, "authorize")}
      PROVE  AuthorizedOnce'
  <2>0. PICK t : t = serving[r].txn
    OBVIOUS
  <2>1. /\ Authorized(t)' = {Effect(r, "authorize")}
        /\ \A u : u # t => Authorized(u)' = Authorized(u)
    BY <1>2, <2>0, FirstAuthorization
  <2>2. row'[t].status \notin NotYet /\ \A u \in Txns : u # t => row'[u] = row[u]
    BY <1>2, <2>0 DEF Authorizes, NotYet, P!Absent
  <2>3. ASSUME NEW u \in Txns
        PROVE  /\ Authorized(u)' # {} <=> row'[u].status \notin NotYet
               /\ \A d, e \in Authorized(u)' : d = e
    <3>1. CASE u = t
      BY <2>1, <2>2, <3>1
    <3>2. CASE u # t
      BY <2>1, <2>2, <3>2 DEF AuthorizedOnce
    <3>. QED BY <3>1, <3>2
  <2>. QED BY <2>3 DEF AuthorizedOnce
<1>. QED BY <1>1, <1>2, OrderSteps

\* An order's call starts before its payment is authorized.
LEMMA OrderStarts ==
  ASSUME CallsOpen, NEW q \in Requests, HandlerStarts(q)
  PROVE  /\ req[q].path.op = "create" => Ordering(serving'[q])
         /\ Ordering(serving'[q]) => row[req[q].path.txn].status \in NotYet
<1>1. ServiceStarts(q)
  BY DEF HandlerStarts
<1>2. CASE P!Create(q, req[q].path.txn, req[q].body.amount, req[q].body.capture)
  <2>1. serving'[q] = [pc |-> "acquirer", op |-> "authorize", txn |-> req[q].path.txn,
                       amount |-> req[q].body.amount, auto |-> req[q].body.capture]
    BY <1>2 DEF P!Create, P!CallAcquirer, CallsOpen
  <2>. QED BY <1>2, <2>1 DEF P!Create, Ordering, NotYet
<1>3. CASE req[q].path.op \in {"capture", "refund"}
  <2>1. serving'[q].op = req[q].path.op
    BY <1>3, CallStarts DEF CallFits
  <2>. QED BY <1>3, <2>1 DEF Ordering
<1>. QED BY <1>1, <1>2, <1>3 DEF ServiceStarts

\* A handler knows whether its own key or its own run authorized its payment.
LEMMA HoldsKnownKept ==
  ASSUME IInv, CallsOpen, "ack" \notin ServiceFaults, RowsHeld, CallsKnown,
         AuthorizedOnce, HoldsKnown, [ApiNext]_apiVars
  PROVE  HoldsKnown'
<1>. SUFFICES ASSUME NEW q \in Requests, serving'[q].pc \notin P!Resting,
                     NEW t, t = serving'[q].txn
              PROVE  /\ Ordering(serving'[q]) =>
                          \A e \in Authorized(t)' : e.key # req'[q].key
                     /\ req'[q].path.op = "create" /\ ~Ordering(serving'[q]) =>
                          \E e \in Authorized(t)' : e.run = req'[q].run
  BY DEF HoldsKnown
<1>1. CASE HandlerStarts(q) /\ serving'[q].txn = req[q].path.txn /\ req'[q] = req[q]
  <2>1. req[q].path.txn \in Txns
    <3>1. req[q] \in RequestState
      BY <1>1, HandlerUnanswered DEF HandlerStarts, Entering
    <3>. QED BY <3>1, PathsAssumption DEF RequestState
  <2>2. effects' = effects
    BY <1>1 DEF HandlerStarts
  <2>3. Ordering(serving'[q]) => Authorized(t)' = {}
    BY <1>1, <2>1, <2>2, OrderStarts DEF AuthorizedOnce, Authorized
  <2>. QED BY <1>1, <2>3, OrderStarts
<1>2. CASE /\ serving[q].pc \notin P!Resting /\ serving'[q].txn = serving[q].txn
           /\ req'[q] = req[q]
           /\ Ordering(serving'[q]) => Ordering(serving[q])
           /\ Ordering(serving[q]) => Ordering(serving'[q]) \/ HandlerAuthorizes(q)
  <2>1. /\ Ordering(serving[q]) => \A e \in Authorized(t) : e.key # req[q].key
        /\ req[q].path.op = "create" /\ ~Ordering(serving[q]) =>
             \E e \in Authorized(t) : e.run = req[q].run
    BY <1>2 DEF HoldsKnown
  <2>2. effects \subseteq effects'
    BY EffectsGrow
  <2>3. Authorized(t) \subseteq Authorized(t)'
    BY <2>2 DEF Authorized
  <2>4. ASSUME Ordering(serving'[q]) PROVE \A e \in Authorized(t)' : e.key # req[q].key
    <3>1. CASE Authorized(t)' = Authorized(t)
      BY <1>2, <2>1, <2>4, <3>1
    <3>2. ASSUME NEW r \in Requests, Authorizes(r), req[r].pc = "handler",
                 effects' = effects \cup {Effect(r, "authorize")},
                 HandlerAuthorizes(r) \/ HandlerSucceeds(r), Authorized(t)' # Authorized(t)
          PROVE  \A e \in Authorized(t)' : e.key # req[q].key
      <4>1. t = serving[r].txn /\ Authorized(t)' = {Effect(r, "authorize")}
        BY <3>2, FirstAuthorization
      <4>2. q # r
        <5>1. HandlerAuthorizes(r) => ~Ordering(serving'[r])
          BY DEF HandlerAuthorizes, Ordering
        <5>2. HandlerSucceeds(r) => serving'[r].pc \in P!Resting
          BY RestingCalls DEF HandlerSucceeds
        <5>. QED BY <2>4, <3>2, <5>1, <5>2
      <4>3. req[q].pc = "handler"
        BY <1>2 DEF CallsOpen
      <4>4. req[r].key # req[q].key
        BY <3>2, <4>2, <4>3 DEF IInv, SoleOwner, Owns
      <4>. QED BY <4>1, <4>4 DEF Effect
    <3>. QED BY <3>1, <3>2, OrderSteps
  <2>5. ASSUME req[q].path.op = "create", ~Ordering(serving'[q])
        PROVE  \E e \in Authorized(t)' : e.run = req[q].run
    <3>1. CASE ~Ordering(serving[q])
      BY <2>1, <2>3, <2>5, <3>1
    <3>2. CASE HandlerAuthorizes(q)
      <4>1. t = req[q].path.txn /\ effects' = effects \cup {Effect(q, "authorize")}
        BY <1>2, <3>2 DEF CallsKnown, HandlerAuthorizes, Did
      <4>2. Effect(q, "authorize") \in Authorized(t)' /\ Effect(q, "authorize").run = req[q].run
        BY <4>1 DEF Effect, Authorized
      <4>. QED BY <4>2
    <3>. QED BY <1>2, <2>5, <3>1, <3>2
  <2>. QED BY <1>2, <2>4, <2>5
<1>. QED BY <1>1, <1>2, CallSteps

\* An order without capture is authorized by the step that ends its key's life.
LEMMA HoldsAnsweredKept ==
  ASSUME IInv, CallsOpen, "ack" \notin ServiceFaults, RowsHeld, CallsKnown, HoldsAnswered,
         [ApiNext]_apiVars
  PROVE  HoldsAnswered'
<1>1. [Next]_vars
  BY ApiStepIsStep
<1>2. ASSUME NEW e \in effects
      PROVE  /\ e.key \in Keys
             /\ e.op = "authorize" /\ ~e.body.capture /\ Unanswered(e.key)' => expired'[e.key] > 0
  <2>1. e.key \in Keys
    BY DEF HoldsAnswered
  <2>2. /\ expired[e.key] \in Nat /\ expired'[e.key] \in Nat
        /\ \/ expired'[e.key] = expired[e.key] /\ (Unanswered(e.key)' => Unanswered(e.key))
           \/ expired'[e.key] = expired[e.key] + 1
    BY <1>1, <2>1, StepLives
  <2>. QED BY <2>1, <2>2 DEF HoldsAnswered
<1>3. ASSUME NEW r \in Requests, req[r].pc = "handler", Authorizes(r),
             HandlerAuthorizes(r) \/ HandlerSucceeds(r), NEW e, e = Effect(r, "authorize")
      PROVE  e.key \in Keys /\ (e.body.capture \/ ~Unanswered(e.key)')
  <2>1. e.key = req[r].key /\ e.body = req[r].body /\ e.key \in Keys
    BY <1>3, HandlerUnanswered DEF Effect
  <2>2. CASE HandlerAuthorizes(r)
    <3>1. serving'[r].pc = "autocapture" /\ CallFits(serving'[r], req[r])
      BY <2>2, CallGoesOn DEF HandlerAuthorizes
    <3>. QED BY <2>1, <3>1 DEF CallFits
  <2>3. CASE HandlerSucceeds(r)
    <3>1. HandlerAnswers(r) \/ Crash(r)
      BY <2>3, LastCommitMoves
    <3>. QED BY <1>3, <2>1, <3>1, LifeEnds
  <2>. QED BY <1>3, <2>2, <2>3
<1>4. ASSUME NEW e \in effects', e \notin effects
      PROVE  /\ e.key \in Keys
             /\ e.op = "authorize" /\ ~e.body.capture /\ Unanswered(e.key)' => expired'[e.key] > 0
  <2>1. CASE \E r \in Requests : req[r].pc = "handler" /\ e.key = req[r].key /\ e.op # "authorize"
    BY <2>1, HandlerUnanswered
  <2>2. ASSUME NEW r \in Requests, Authorizes(r), req[r].pc = "handler",
               effects' = effects \cup {Effect(r, "authorize")},
               HandlerAuthorizes(r) \/ HandlerSucceeds(r)
        PROVE  e.key \in Keys /\ (e.body.capture \/ ~Unanswered(e.key)')
    <3>1. e = Effect(r, "authorize")
      BY <1>4, <2>2
    <3>. QED BY <1>3, <2>2, <3>1
  <2>. QED BY <1>4, <2>1, <2>2, OrderSteps
<1>5. \A e \in effects' :
        /\ e.key \in Keys
        /\ e.op = "authorize" /\ ~e.body.capture /\ Unanswered(e.key)' => expired'[e.key] > 0
  BY <1>2, <1>4
<1>. QED BY <1>5 DEF HoldsAnswered

\* Who answers what: a refusal or a decline books and authorizes nothing.
LEMMA AnswerSteps ==
  ASSUME CallsOpen, "ack" \notin ServiceFaults, [ApiNext]_apiVars
  PROVE  \/ final' = final /\ answer' = answer
         \/ \E r \in Requests :
              /\ HandlerAnswers(r)
              /\ \/ HandlerSucceeds(r) /\ answer' = [answer EXCEPT ![req[r].run] = "ok"]
                 \/ HandlerDeclines(r) /\ answer' = [answer EXCEPT ![req[r].run] = "declined"]
                 \/ effects' = effects /\ answer' = [answer EXCEPT ![req[r].run] = "refused"]
<1>1. CASE UNCHANGED apiVars
  BY <1>1 DEF apiVars, vars
<1>2. ASSUME NEW k \in Keys, KeyExpires(k) PROVE final' = final /\ answer' = answer
  BY <1>2 DEF KeyExpires, Expire
<1>3. ASSUME NEW r \in Requests, ApiArrive(r) \/ Middleware(r) \/ ApiCrash(r)
      PROVE  final' = final /\ answer' = answer
  BY <1>3 DEF ApiArrive, Middleware, ApiCrash, Arrive, BeginWins, BeginLoses, BeginFails,
              GetRefuses, GetReplays, GetFails, Replayed, Complete, CompleteFails, Release,
              ReleaseFails, Crash
<1>4. ASSUME NEW r \in Requests,
             HandlerStarts(r) \/ HandlerWaits(r) \/ HandlerAuthorizes(r) \/ HandlerBreaks(r)
      PROVE  final' = final /\ answer' = answer
  BY <1>4 DEF HandlerStarts, HandlerWaits, HandlerAuthorizes, HandlerBreaks, RespondServerError,
              HandlerFails, vars
<1>5. ASSUME NEW r \in Requests, HandlerSucceeds(r)
      PROVE  \/ final' = final /\ answer' = answer
             \/ HandlerAnswers(r) /\ answer' = [answer EXCEPT ![req[r].run] = "ok"]
  BY <1>5, LastCommitMoves DEF Crash
<1>6. ASSUME NEW r \in Requests, HandlerDeclines(r)
      PROVE  HandlerAnswers(r) /\ answer' = [answer EXCEPT ![req[r].run] = "declined"]
  BY <1>6 DEF HandlerDeclines, Respond
<1>7. ASSUME NEW r \in Requests, HandlerRefuses(r) \/ HandlerLoses(r)
      PROVE  /\ HandlerAnswers(r) /\ effects' = effects
             /\ answer' = [answer EXCEPT ![req[r].run] = "refused"]
  BY <1>7 DEF HandlerRefuses, HandlerLoses, Respond
<1>. QED BY <1>1, <1>2, <1>3, <1>4, <1>5, <1>6, <1>7 DEF ApiNext, Handler

\* An order that was answered stays as the answer says: its payment is authorized
\* once, a failed one stays failed, and the key's life is over.
LEMMA OldAnswersStand ==
  ASSUME ApiInv, OrderInv, "ack" \notin ServiceFaults, [ApiNext]_apiVars,
         NEW f \in final, f.path.op = "create", expired'[f.key] = 0
  PROVE  TellsOrder(f)'
<1>1. IInv /\ CallsOpen /\ [Next]_vars /\ RowsHeld /\ CallsKnown /\ AuthorizedOnce
  BY ApiStepIsStep DEF ApiInv, OrderInv
<1>2. f.key \in Keys /\ f.run \in 1..MaxRuns /\ f.path.txn \in Txns
  BY <1>1, PathsAssumption DEF IInv, TypeOK
<1>3. expired[f.key] = 0
  <2>1. /\ expired[f.key] \in Nat
        /\ expired'[f.key] = expired[f.key] \/ expired'[f.key] = expired[f.key] + 1
    BY <1>1, <1>2, StepLives
  <2>. QED BY <2>1
<1>4. TellsOrder(f)
  BY <1>3 DEF OrderInv, AnswerTellsOrder
<1>5. answer'[f.run] = answer[f.run]
  <2>1. ASSUME NEW r \in Requests, HandlerAnswers(r), NEW what,
               answer' = [answer EXCEPT ![req[r].run] = what]
        PROVE  answer'[f.run] = answer[f.run]
    <3>1. f.run # req[r].run
      BY <2>1 DEF ApiInv, RunsFresh, HandlerAnswers
    <3>. QED BY <1>2, <2>1, <3>1 DEF ApiInv
  <2>. QED BY <1>1, <2>1, AnswerSteps
<1>6. PICK t : t = f.path.txn
  OBVIOUS
<1>7. CASE Kept /\ Authorized(t)' = Authorized(t)
  BY <1>2, <1>4, <1>5, <1>6, <1>7 DEF TellsOrder, Kept
<1>8. ASSUME NEW r \in Requests, Authorizes(r), req[r].pc = "handler",
             effects' = effects \cup {Effect(r, "authorize")}
      PROVE  TellsOrder(f)'
  <2>1. f.key # req[r].key
    <3>1. f \in FinalRuns(f.key)
      BY DEF FinalRuns
    <3>. QED BY <1>3, <1>8, <3>1, FirstLife
  <2>2. CASE t # serving[r].txn
    <3>1. Authorized(t)' = Authorized(t) /\ row'[t] = row[t]
      BY <1>1, <1>2, <1>6, <1>8, <2>2, FirstAuthorization DEF Authorizes
    <3>. QED BY <1>4, <1>5, <1>6, <3>1 DEF TellsOrder
  <2>3. CASE t = serving[r].txn
    <3>1. Authorized(t) = {} /\ Authorized(t)' = {Effect(r, "authorize")}
      BY <1>1, <1>8, <2>3, FirstAuthorization
    <3>2. row[t].status = "created"
      BY <1>8, <2>3 DEF Authorizes
    <3>3. answer[f.run] # "ok" /\ answer[f.run] # "declined"
      BY <1>4, <1>6, <3>1, <3>2 DEF TellsOrder
    <3>4. \A e \in Authorized(t)' : e.key # f.key
      BY <2>1, <3>1 DEF Effect
    <3>. QED BY <1>5, <1>6, <3>3, <3>4 DEF TellsOrder
  <2>. QED BY <2>2, <2>3
<1>. QED BY <1>1, <1>7, <1>8, OrderSteps

\* The answer a handler gives to an order is true of its payment.
LEMMA NewAnswersTell ==
  ASSUME ApiInv, OrderInv, "ack" \notin ServiceFaults, [ApiNext]_apiVars,
         NEW f \in final' \ final, f.path.op = "create", expired'[f.key] = 0
  PROVE  TellsOrder(f)'
<1>1. /\ IInv /\ CallsOpen /\ [Next]_vars /\ RowsHeld /\ CallsKnown /\ AuthorizedOnce
      /\ HoldsKnown /\ HoldsAnswered /\ DOMAIN answer = 1..MaxRuns
  BY ApiStepIsStep DEF ApiInv, OrderInv
<1>2. PICK r \in Requests :
        /\ HandlerAnswers(r)
        /\ \/ HandlerSucceeds(r) /\ answer' = [answer EXCEPT ![req[r].run] = "ok"]
           \/ HandlerDeclines(r) /\ answer' = [answer EXCEPT ![req[r].run] = "declined"]
           \/ effects' = effects /\ answer' = [answer EXCEPT ![req[r].run] = "refused"]
  BY <1>1, AnswerSteps
<1>3. req[r].pc = "handler" /\ expired' = expired
  BY <1>2 DEF HandlerAnswers
<1>4. f.run = req[r].run /\ f.key = req[r].key /\ f.body = req[r].body /\ f.path = req[r].path
  <2>1. f = [run |-> req[r].run, key |-> req[r].key, body |-> req[r].body, path |-> req[r].path]
    BY <1>2 DEF HandlerAnswers
  <2>. QED BY <2>1
<1>5. PICK t \in Txns : t = req[r].path.txn
  <2>1. req[r] \in RequestState
    BY <1>1, <1>3, HandlerUnanswered
  <2>. QED BY <2>1, PathsAssumption DEF RequestState
<1>6. /\ req[r].key \in Keys /\ req[r].run \in DOMAIN answer /\ Unanswered(req[r].key)
      /\ expired[f.key] = 0
  BY <1>1, <1>3, <1>4, HandlerUnanswered
<1>7. CASE HandlerSucceeds(r) /\ answer' = [answer EXCEPT ![req[r].run] = "ok"]
  <2>1. answer'[f.run] = "ok"
    BY <1>4, <1>6, <1>7
  <2>2. /\ serving[r].pc = "locked" /\ t = serving[r].txn
        /\ serving[r].op \in {"authorize", "capture"}
    <3>1. serving[r].pc = "locked"
      BY <1>7 DEF HandlerSucceeds
    <3>2. t = serving[r].txn /\ CallFits(serving[r], req[r])
      BY <1>1, <1>5, <3>1 DEF CallsOpen, CallsKnown, P!Resting
    <3>3. serving[r].op # "fail"
      BY <1>7 DEF HandlerSucceeds, P!CommitAuthorize, P!CommitCapture, P!CommitRefund,
                  P!Committing
    <3>. QED BY <1>4, <3>1, <3>2, <3>3 DEF CallFits
  <2>3. effects' = effects \cup {Effect(r, serving[r].op)}
    BY <1>7 DEF HandlerSucceeds, Did
  <2>4. CASE serving[r].op = "authorize"
    <3>1. Authorizes(r)
      <4>1. P!CommitAuthorize(r)
        BY <1>7, <2>4 DEF HandlerSucceeds, P!CommitCapture, P!CommitRefund, P!Committing
      <4>. QED BY <1>1, <4>1, AuthorizeCommits
    <3>2. Authorized(t)' = {Effect(r, "authorize")}
      BY <1>1, <2>2, <2>3, <2>4, <3>1, FirstAuthorization
    <3>3. Effect(r, "authorize").run = f.run
      BY <1>4 DEF Effect
    <3>. QED BY <1>4, <1>5, <2>1, <3>2, <3>3 DEF TellsOrder
  <2>5. CASE serving[r].op = "capture"
    <3>1. Effect(r, serving[r].op).op = "capture"
      BY <2>5 DEF Effect
    <3>2. Authorized(t)' = Authorized(t)
      BY <2>3, <3>1 DEF Authorized
    <3>3. \E e \in Authorized(t) : e.run = req[r].run
      BY <1>1, <1>4, <2>2, <2>5 DEF HoldsKnown, Ordering, P!Resting
    <3>4. {e.run : e \in Authorized(t)} = {f.run}
      BY <1>1, <1>4, <3>3 DEF AuthorizedOnce
    <3>. QED BY <1>4, <1>5, <2>1, <3>2, <3>4 DEF TellsOrder
  <2>. QED BY <2>2, <2>4, <2>5
<1>8. CASE HandlerDeclines(r) /\ answer' = [answer EXCEPT ![req[r].run] = "declined"]
  <2>1. answer'[f.run] = "declined"
    BY <1>4, <1>6, <1>8
  <2>2. P!CommitFail(r) /\ effects' = effects
    BY <1>8 DEF HandlerDeclines
  <2>3. /\ serving[r].pc = "locked" /\ serving[r].op = "fail"
        /\ row'[serving[r].txn].status \notin {P!Absent, "created"}
    BY <1>1, <2>2, OtherCommits
  <2>4. t = serving[r].txn
    BY <1>1, <1>5, <2>3 DEF CallsKnown, P!Resting
  <2>5. \A e \in Authorized(t) : e.key # req[r].key
    BY <1>1, <2>3, <2>4 DEF HoldsKnown, Ordering, P!Resting
  <2>6. Kept /\ Authorized(t)' = Authorized(t)
    BY <1>1, <2>2, OtherCommits DEF Authorized
  <2>7. row'[t].status = "failed" \/ Authorized(t) # {}
    BY <1>1, <2>3, <2>4, <2>6 DEF Kept, AuthorizedOnce, NotYet
  <2>. QED BY <1>4, <1>5, <2>1, <2>5, <2>6, <2>7 DEF TellsOrder
<1>9. CASE effects' = effects /\ answer' = [answer EXCEPT ![req[r].run] = "refused"]
  <2>1. answer'[f.run] = "refused"
    BY <1>4, <1>6, <1>9
  <2>2. Authorized(t)' = Authorized(t)
    BY <1>9 DEF Authorized
  <2>3. \A e \in Authorized(t) : e.key = f.key => e.body.capture
    BY <1>1, <1>4, <1>6 DEF HoldsAnswered, Authorized
  <2>. QED BY <1>4, <1>5, <2>1, <2>2, <2>3 DEF TellsOrder
<1>. QED BY <1>2, <1>7, <1>8, <1>9

\* What is known about the orders is kept by every step.
LEMMA OrdersKept ==
  ASSUME ApiInv, OrderInv, "ack" \notin ServiceFaults, [ApiNext]_apiVars
  PROVE  OrderInv'
<1>1. IInv /\ CallsOpen /\ RowsHeld /\ CallsKnown /\ AuthorizedOnce /\ HoldsKnown /\ HoldsAnswered
  BY DEF ApiInv, OrderInv
<1>2. RowsHeld'
  BY <1>1, OrderSteps
<1>3. CallsKnown'
  BY <1>1, CallsKnownKept
<1>4. AuthorizedOnce'
  BY <1>1, AuthorizedOnceKept
<1>5. HoldsKnown'
  BY <1>1, HoldsKnownKept
<1>6. HoldsAnswered'
  BY <1>1, HoldsAnsweredKept
<1>7. ASSUME NEW f \in final', f.path.op = "create", expired'[f.key] = 0 PROVE TellsOrder(f)'
  BY <1>7, OldAnswersStand, NewAnswersTell
<1>8. AnswerTellsOrder'
  BY <1>7 DEF AnswerTellsOrder
<1>. QED BY <1>2, <1>3, <1>4, <1>5, <1>6, <1>8 DEF OrderInv

-----------------------------------------------------------------------------
(* The theorems.                                                           *)

\* The inductive invariant of the middleware and the handlers together holds as
\* long as no COMMIT acknowledgement is lost.
THEOREM ApiInvariance ==
  ASSUME "ack" \notin ServiceFaults
  PROVE  ApiSpec => []ApiInv
<1>1. ApiInit => ApiInv
  <2>. SUFFICES ASSUME ApiInit PROVE ApiInv
    OBVIOUS
  <2>1. Init /\ effects = {} /\ DOMAIN answer = 1..MaxRuns /\ serving = [r \in Requests |-> P!Idle]
    BY DEF ApiInit, P!PayInit
  <2>2. IInv
    BY <2>1, InitEstablishes
  <2>3. IsFiniteSet(effects) /\ \A k : Booked(k) = {}
    BY <2>1, FS_EmptySet DEF Booked
  <2>4. CallsOpen
    BY <2>1, RestingCalls DEF CallsOpen
  <2>5. final = {} /\ req = [r \in Requests |-> NoRequest] /\ expired = [k \in Keys |-> 0]
    BY <2>1 DEF Init
  <2>6. RunsFresh
    BY <2>5 DEF RunsFresh, Owns, NoRequest
  <2>7. BookingsCounted
    BY <2>3, <2>5, FS_EmptySet DEF BookingsCounted
  <2>8. AnswerTellsBooks
    BY <2>5 DEF AnswerTellsBooks
  <2>. QED BY <2>1, <2>2, <2>3, <2>4, <2>6, <2>7, <2>8 DEF ApiInv
<1>2. ApiInv /\ [ApiNext]_apiVars => ApiInv'
  <2>. SUFFICES ASSUME ApiInv, [ApiNext]_apiVars PROVE ApiInv'
    OBVIOUS
  <2>1. IInv' /\ RunsFresh'
    BY ApiStepIsStep, NextKeeps, RunsKept DEF ApiInv
  <2>2. CallsOpen'
    BY CallsOpenKept DEF ApiInv
  <2>3. IsFiniteSet(effects') /\ BookingsCounted'
    BY BookingsKept
  <2>4. DOMAIN answer' = 1..MaxRuns /\ AnswerTellsBooks'
    BY AnswersKept
  <2>. QED BY <2>1, <2>2, <2>3, <2>4 DEF ApiInv
<1>. QED BY <1>1, <1>2, PTL DEF ApiSpec

\* A retried money-moving request charges at most once: however often it is sent
\* under one key, with crashes, timeouts and failed Redis commands anywhere, the
\* books show one booking for each life of the key.
THEOREM ChargedOnce ==
  ASSUME "ack" \notin ServiceFaults
  PROVE  ApiSpec => []BookedOncePerKey
<1>1. ApiInv => BookedOncePerKey
  <2>. SUFFICES ASSUME ApiInv, NEW k \in Keys, NEW p \in Paths
                PROVE  Cardinality({e \in Booked(k) : e.path = p}) <= 1 + expired[k]
    BY DEF BookedOncePerKey
  <2>1. IsFiniteSet(Booked(k))
    BY FS_Subset DEF ApiInv, Booked
  <2>2. /\ Cardinality({e \in Booked(k) : e.path = p}) <= Cardinality(Booked(k))
        /\ IsFiniteSet({e \in Booked(k) : e.path = p})
    BY <2>1, FS_Subset
  <2>3. Cardinality(Booked(k)) <= 1 + expired[k]
    BY DEF ApiInv, BookingsCounted
  <2>4. Cardinality(Booked(k)) \in Nat /\ Cardinality({e \in Booked(k) : e.path = p}) \in Nat
    BY <2>1, <2>2, FS_CardinalityType
  <2>5. expired[k] \in 0..MaxExpiry
    BY DEF ApiInv, IInv, TypeOK
  <2>. QED BY <2>2, <2>3, <2>4, <2>5, IdempotencyAssumption
<1>. QED BY <1>1, ApiInvariance, PTL

\* A merchant may act on the final answer of a key: in the key's first life a
\* success means that the money is in the books once, and a refusal or a decline
\* that none of it is, whatever earlier runs under the key ended in a 5xx.
THEOREM AnswersTellBooks ==
  ASSUME "ack" \notin ServiceFaults
  PROVE  ApiSpec => []AnswerTellsBooks
<1>1. ApiInv => AnswerTellsBooks
  BY DEF ApiInv
<1>. QED BY <1>1, ApiInvariance, PTL

\* A merchant may act on the final answer to an order: in the key's first life a
\* 201 comes from the one run that authorized the payment, a 402 means that the
\* payment failed or was authorized under another key, and after any other refusal
\* a hold of this key stands only where its run went on to a capture.
THEOREM AnswersTellOrders ==
  ASSUME "ack" \notin ServiceFaults
  PROVE  ApiSpec => []AnswerTellsOrder
<1>1. ApiInit => OrderInv
  <2>. SUFFICES ASSUME ApiInit PROVE OrderInv
    OBVIOUS
  <2>1. /\ row = [t \in Txns |-> P!NoRow] /\ lock = [t \in Txns |-> {}]
        /\ fresh = [p \in Requests \cup {} |-> P!NoRow]
        /\ serving = [r \in Requests |-> P!Idle] /\ effects = {} /\ final = {}
    BY DEF ApiInit, P!PayInit, P!Procs, Init
  <2>2. \A t \in Txns : "status" \in DOMAIN row[t] /\ row[t].status = P!Absent
    BY <2>1 DEF P!NoRow
  <2>3. RowsHeld
    BY <2>1, <2>2 DEF RowsHeld, P!Idle
  <2>4. CallsKnown /\ HoldsKnown
    BY <2>1, RestingCalls DEF CallsKnown, HoldsKnown
  <2>5. AuthorizedOnce /\ HoldsAnswered /\ AnswerTellsOrder
    BY <2>1, <2>2 DEF AuthorizedOnce, HoldsAnswered, AnswerTellsOrder, Authorized, NotYet
  <2>. QED BY <2>3, <2>4, <2>5 DEF OrderInv
<1>2. ApiInv /\ OrderInv /\ [ApiNext]_apiVars => OrderInv'
  BY OrdersKept
<1>3. OrderInv => AnswerTellsOrder
  BY DEF OrderInv
<1>. QED BY <1>1, <1>2, <1>3, ApiInvariance, PTL DEF ApiSpec

=============================================================================
