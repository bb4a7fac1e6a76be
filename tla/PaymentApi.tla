----------------------------- MODULE PaymentApi -----------------------------
(***************************************************************************)
(* The money-moving endpoints as a merchant meets them: the idempotency    *)
(* middleware (Idempotency) around the handlers of                         *)
(* internal/transport/http/handler_payment.go, which run the payment       *)
(* service (Payments) and turn its errors into answers with mapError       *)
(* (internal/transport/http/response.go).                                  *)
(*                                                                         *)
(* An answer below 500 is final: the middleware stores it under the key.   *)
(* An answer of 500 or more releases the key, and the merchant retries.    *)
(* A path is the route with its payment, a body the amount and, for an     *)
(* order, the capture flag.  The clock stands still: every run is within   *)
(* the validity of an authorization.                                       *)
(***************************************************************************)
EXTENDS Idempotency

CONSTANTS
  Txns, NoTxn,                         \* as in Payments
  FeeBPS, IntLimit, AuthorizationValidity,
  ServiceFaults                        \* the faults of Payments that happen

\* A route names one of the payments.
ASSUME PathsAssumption == \A p \in Paths : p.txn \in Txns

VARIABLES
  row, journal, outbox, lock, fresh, acq, alerted, accepted,
  serving,  \* the service call of each request
  answer,   \* what each run's final answer said (history)
  effects   \* what each run committed (history)

P == INSTANCE Payments WITH
       req <- serving, started <- accepted, now <- 0, MaxDay <- 0, Jobs <- {},
       MaxRequests <- MaxRuns, Faults <- ServiceFaults,
       Amounts <- {b.amount : b \in Bodies}, Asked <- {b.amount : b \in Bodies}

service == <<row, journal, outbox, lock, fresh, acq, alerted, accepted, serving>>
apiVars == <<vars, service, answer, effects>>

Answers == {"none", "ok", "declined", "refused"}

ApiInit ==
  /\ Init
  /\ P!PayInit
  /\ answer = [n \in 1..MaxRuns |-> "none"]
  /\ effects = {}

-----------------------------------------------------------------------------

\* The routes take different bodies.
Fits(m) == (m.path.op = "create") <=> (m.body.kind = "order")

ApiArrive(r) ==
  /\ Arrive(r)
  /\ Fits(req'[r])
  /\ UNCHANGED <<service, answer, effects>>

\* The middleware's own steps.
Middleware(r) ==
  /\ \/ BeginWins(r) \/ BeginLoses(r) \/ BeginFails(r)
     \/ GetRefuses(r) \/ GetReplays(r) \/ GetFails(r) \/ Replayed(r)
     \/ Complete(r) \/ CompleteFails(r) \/ Release(r) \/ ReleaseFails(r)
  /\ UNCHANGED <<service, answer, effects>>

KeyExpires(k) == Expire(k) /\ UNCHANGED <<service, answer, effects>>

Entering(r) == req[r].pc = "handler" /\ serving[r].pc \in P!Resting

\* The first part of the service call that the route makes.
ServiceStarts(r) ==
  LET m == req[r]
  IN  \/ m.path.op = "create" /\ P!Create(r, m.path.txn, m.body.amount, m.body.capture)
      \/ m.path.op = "capture" /\ P!CapturePreCheck(r, m.path.txn, m.body.amount)
      \/ m.path.op = "refund" /\ P!RefundPreCheck(r, m.path.txn, m.body.amount)

\* The service turns the request away: an unknown payment, a taken reference, a
\* state or an amount that does not allow it.
PreCheckFails(r) ==
  LET m      == req[r]
      t      == row[m.path.txn]
      whole  == IF m.path.op = "capture" THEN P!RemainingCapturable(t)
                                         ELSE P!RemainingRefundable(t)
      amount == IF m.body.amount = 0 THEN whole ELSE m.body.amount
  IN  \/ /\ m.path.op = "create"
         /\ t.status # P!Absent
         /\ ~(t.status = "created" /\ t.amount = m.body.amount)
      \/ m.path.op = "capture" /\ ~P!CanCapture(t, amount, 0)
      \/ m.path.op = "refund" /\ ~P!CanRefund(t, amount)

\* A final answer: the middleware sees a status below 500.
Respond(r, what) ==
  /\ HandlerAnswers(r)
  /\ answer' = [answer EXCEPT ![req[r].run] = what]

\* mapError of an error nobody can act on: 500 or 503.
RespondServerError(r) == HandlerFails(r) /\ UNCHANGED answer

\* What a request books or authorizes.
Effect(r, op) ==
  [run |-> req[r].run, key |-> req[r].key, path |-> req[r].path, body |-> req[r].body, op |-> op]

Did(r, op) == effects' = effects \cup {Effect(r, op)}

HandlerStarts(r) ==
  /\ Entering(r)
  /\ ServiceStarts(r)
  /\ UNCHANGED <<vars, answer, effects>>

HandlerRefuses(r) ==
  /\ Entering(r)
  /\ PreCheckFails(r)
  /\ Respond(r, "refused")
  /\ UNCHANGED <<service, effects>>

\* The service call goes on.
HandlerWaits(r) ==
  /\ P!AcquirerApproves(r) \/ P!AcquirerDeclines(r) \/ P!LockRow(r) \/ P!AutoCapture(r)
  /\ serving'[r].pc \notin P!Resting
  /\ UNCHANGED <<vars, answer, effects>>

\* An authorization with capture=true is committed and goes on to its capture.
HandlerAuthorizes(r) ==
  /\ P!CommitAuthorize(r)
  /\ serving'[r].pc = "autocapture"
  /\ Did(r, "authorize")
  /\ UNCHANGED <<vars, answer>>

\* Mutant: a committed operation whose answer was lost is taken for a failure.
HandlerSucceedsUnsure(r) ==
  /\ serving[r].pc = "locked"
  /\ P!CommitAuthorize(r) \/ P!CommitCapture(r) \/ P!CommitRefund(r)
  /\ serving'[r] = P!Idle
  /\ Did(r, serving[r].op)
  /\ \/ Respond(r, "ok")
     \/ HandlerFails(r) /\ UNCHANGED answer

\* The operation is committed: 201 or 200, unless the acknowledgement is lost
\* (500) or the process dies before it answers.
HandlerSucceeds(r) ==
  /\ serving[r].pc = "locked"
  /\ P!CommitAuthorize(r) \/ P!CommitCapture(r) \/ P!CommitRefund(r)
  /\ serving'[r] = P!Idle
  /\ Did(r, serving[r].op)
  /\ \/ ~serving[r].auto /\ Respond(r, "ok")
     \/ "ack" \in ServiceFaults /\ RespondServerError(r)
     \/ Crash(r) /\ UNCHANGED answer

\* Mutant: the decline is answered although its write-back failed.
HandlerDeclinesRegardless(r) ==
  /\ \/ P!CommitFail(r)
     \/ serving[r].op = "fail" /\ P!Abandon(r)
  /\ Respond(r, "declined")
  /\ UNCHANGED effects

\* The decline is on the row, or somebody else resolved it: 402.
HandlerDeclines(r) ==
  /\ P!CommitFail(r)
  /\ \/ serving'[r].pc = "declined" /\ Respond(r, "declined")
     \/ "ack" \in ServiceFaults /\ RespondServerError(r)
  /\ UNCHANGED effects

\* Mutant: an automatic capture that fails is answered with the authorization.
HandlerLosesQuietly(r) ==
  /\ \/ P!CommitRefused(r)
     \/ P!AcquirerInvalidCard(r)
     \/ P!AutoCapture(r) /\ serving'[r] = P!Idle
  /\ Respond(r, IF \E e \in effects : e.run = req[r].run THEN "ok" ELSE "refused")
  /\ UNCHANGED effects

\* The card is invalid (400), the row has moved on (409, 422, 400), or it had by
\* the time of the automatic capture.
HandlerLoses(r) ==
  /\ \/ P!CommitRefused(r)
     \/ P!AcquirerInvalidCard(r)
     \/ P!AutoCapture(r) /\ serving'[r] = P!Idle
  /\ Respond(r, "refused")
  /\ UNCHANGED effects

\* The acquirer did not answer (503), or the database or the context failed.
HandlerBreaks(r) ==
  /\ P!AcquirerUnavailable(r) \/ P!Abandon(r)
  /\ RespondServerError(r)
  /\ UNCHANGED effects

\* The process dies; what its database transaction had not committed is gone.
ApiCrash(r) ==
  /\ Crash(r)
  /\ IF serving[r].pc \in P!Resting THEN UNCHANGED service ELSE P!Abandon(r)
  /\ UNCHANGED <<answer, effects>>

Handler(r) ==
  \/ HandlerStarts(r) \/ HandlerRefuses(r) \/ HandlerWaits(r) \/ HandlerAuthorizes(r)
  \/ HandlerSucceeds(r) \/ HandlerDeclines(r) \/ HandlerLoses(r) \/ HandlerBreaks(r)

ApiNext ==
  \/ \E r \in Requests : ApiArrive(r) \/ Middleware(r) \/ Handler(r) \/ ApiCrash(r)
  \/ \E k \in Keys : KeyExpires(k)

ApiSpec == ApiInit /\ [][ApiNext]_apiVars

-----------------------------------------------------------------------------
(* What must hold.                                                         *)

\* What was booked in the journal under a key.
Booked(k) == {e \in effects : e.key = k /\ e.op \in {"capture", "refund"}}

\* "A retried money-moving request charges at most once": however a request is
\* repeated under one key, with crashes, timeouts and failed Redis commands, the
\* books show it at most once for each lifetime of the key.  A lost COMMIT
\* acknowledgement breaks it: it is answered 500, which releases the key, and
\* nothing in the database refuses a second partial capture.
BookedOncePerKey ==
  \A k \in Keys, p \in Paths :
    Cardinality({e \in Booked(k) : e.path = p}) <= 1 + expired[k]

MovesMoney(f) == f.path.op # "create" \/ f.body.capture

\* A merchant may act on the final answer of a key: success means that the
\* money is in the books, a refusal or a decline that nothing was booked under
\* this key, not even by an earlier run that ended in a 5xx.
AnswerTellsBooks ==
  \A f \in final : expired[f.key] = 0 =>
    Cardinality(Booked(f.key)) = IF answer[f.run] = "ok" /\ MovesMoney(f) THEN 1 ELSE 0

\* The authorizations of a payment.
Authorized(t) == {e \in effects : e.op = "authorize" /\ e.path.txn = t}

\* What the final answer f to an order says of its payment.
TellsOrder(f) ==
  LET all  == Authorized(f.path.txn)
      mine == {e \in all : e.key = f.key}
  IN  /\ answer[f.run] = "ok" => {e.run : e \in all} = {f.run}
      /\ answer[f.run] = "declined" =>
           mine = {} /\ (row[f.path.txn].status = "failed" \/ all # {})
      /\ answer[f.run] = "refused" => \A e \in mine : e.body.capture

\* A merchant may act on the final answer to an order, although another retry
\* with a key of its own may run beside it and an automatic capture may fail: a
\* 201 comes from the one run that authorized the payment; a 402 means that the
\* payment failed or was authorized under another key, never that it is still
\* open or that this key's hold stands; and any other refusal leaves a hold of
\* this key standing only where its run went on to a capture.
AnswerTellsOrder ==
  \A f \in final : f.path.op = "create" /\ expired[f.key] = 0 => TellsOrder(f)

=============================================================================
