# TLA+ verification of the mini payment gateway

The gateway (Go) places holds on cards, captures, refunds and voids them, keeps a
double-entry journal, notifies merchants through a webhook outbox and closes each
day with a reconciliation job.  This directory holds TLA+ modules translated from
its source, the TLC instances that check them, and TLAPS proofs of the safety
properties of every part.  Paths below are relative to the repository root.

## The system

| Component | State | Operations | Interacts through |
| --- | --- | --- | --- |
| Money, transaction (`internal/money`, `internal/domain/transaction.go`) | one row per payment: status, amount, captured, refunded, timestamps, version | Authorize, Fail, Capture, Refund, Void, Settle | pure; called by the services |
| Journal (`internal/domain/ledger.go`, `internal/repository/ledger_repo.go`) | append-only entry groups | InsertGroup; Balance, AggregateByMerchant, FindUnbalancedGroups | written in the payment's database transaction |
| Payment service (`internal/service/payment_service.go`, `internal/repository`) | none of its own between requests | Authorize, Capture, Refund, Void | unlocked read, acquirer call, then row lock and commit of row + journal + outbox |
| Reconciliation (`internal/service/reconciliation_service.go`) | one run's report | Run: scan, aggregate, compare, settle | reads what the API writes; settles row by row under row locks |
| Acquirer port (`internal/acquirer`) | breaker: state, failures, openedAt, probe | Allow, Success, Failure, State; `Guarded.do` | shared by every request of a process |
| Idempotency (`internal/idempotency`, `middleware_idem.go`) | Redis key: absent, in_progress, completed | Begin (SET NX, GET), Complete, Release | in front of create, capture, refund; shared by all API processes |
| Webhook dispatcher (`internal/webhook`, `webhook_repo.go`, `domain/webhook.go`) | outbox rows; each process's claimed batch | ClaimDue, deliver, persist, release, ReleaseStale | reads the outbox the payment service fills |
| Merchants and request signatures (`merchant_service.go`, `merchant_repo.go`, `middleware_auth.go`) | one row per merchant: status, credentials | Create, Authenticate | first in the chain of every merchant route |
| Rate limiter (`internal/ratelimit`, `middleware_ratelimit.go`) | a Redis counter per merchant and window | Allow (INCR and EXPIRE in a MULTI), fail-open | after authentication, before idempotency |
| Handlers and router (`internal/transport/http`) | none | create, capture, refund, void, the paginated listings; `mapError` | the chain Auth, RateLimit, Idempotency, handler, under a 30 s timeout |
| Secrets, config, wiring | see "Not modelled" | | |

What is hard here: an operation is a read, a network call and a locked write with
other requests in between; the acquirer can time out after the money moved; COMMIT
can succeed without its acknowledgement; daily closes can overlap or die half-way;
a breaker's callers return after its state has moved on; Redis claims outlive their
owners; worker processes share a table and hold copies of its rows in memory, and may
be suspended for longer than a claim lasts; a signed request can arrive late and
twice; pages are read while rows are committed out of order.
`PROJECT.json` lists these hazards at their lines with the properties that cover
them.

What makes each part correct:

- payments: row, journal and outbox always tell the same story, within the amounts
  authorized and captured, and never ahead of the acquirer;
- reconciliation: nobody is paid twice or more than is owed;
- breaker: one probe, no pile-up in an outage, recovery after it;
- idempotency: one handler per key at a time, one final answer per key and TTL, and
  a replay is an answer really given;
- webhooks: one process holds a row, a finished delivery stays finished, no event is
  lost;
- API: an operation is booked once per key and the final answer says what the books
  say;
- edge: a signature is served once, a burst is bounded, `Retry-After` is worth
  following;
- listings: a walk through the pages is in order and complete.

## Modules

| Module | Models |
| --- | --- |
| `Money` | `Fee` on wrapping 64-bit integers |
| `Transaction` | the row and `domain.Transaction`'s methods: a guard (the early returns) and the resulting row |
| `Ledger` | entry groups as functions from accounts to legs, `Validate`, the constructors, the aggregate queries |
| `Payments` | concurrent API requests over the tables (extends `Transaction`, `Ledger`) |
| `Reconciliation` | the daily close beside them (extends `Payments`); `Spec` and `FairSpec` of the whole gateway |
| `PaymentContract` | abstract specification: one atomic record per payment |
| `GatewayRefinement` | the mapping from the gateway to the contract: stage and order from the row, money from the journal |
| `GatewayInvariant` | the inductive invariant `IInv` |
| `GatewayProofs` | proofs about the journal's sums and about the invariant of the gateway |
| `ContractProofs` | proofs that the gateway implements the contract and that its books follow the acquirer |
| `BreakerProofs`, `IdempotencyProofs`, `PaymentApiProofs`, `WebhooksProofs`, `EdgeProofs`, `ListingProofs` | proofs about the components named so, each with its inductive invariant |
| `Breaker`, `Idempotency`, `Webhooks` | the three components named so |
| `PaymentApi` | `Idempotency` composed with `Payments`: the money-moving endpoints with their answers |
| `RateLimiter`, `Merchants` | the limiter and the authentication of one merchant |
| `Edge` | their composition: the middleware chain under a network that delays and repeats |
| `Listing` | both paginated listings while rows are written |
| `MCGateway`, `MCBreaker`, `MCIdempotency`, `MCWebhooks`, `MCPaymentApi`, `MCEdge`, `MCListing` | symmetry sets, views and constant definitions for TLC |

### Payments and Reconciliation

`row`, `journal` and `outbox` are the three tables by transaction; a transaction is
its unique (merchant, reference) pair.  `lock` and `fresh` are the open database
transactions: who holds the row lock and the row it read with `FOR UPDATE`.
`req` is the program counter of each request, `job` of each run of the close.
`acq` is what really happened at the card network (external) and `alerted` the
amounts logged as "manual reconciliation required"; both exist to say what the
books leave out.

Each service method is split exactly where other code can run: `Create` or
`CapturePreCheck`, `RefundPreCheck`, `VoidPreCheck` (read and advisory check), an
acquirer step (`AcquirerApproves`, `-Declines`, `-InvalidCard`, `-Unavailable`),
`LockRow`, and one commit action per method, which updates row, journal and outbox
and drops the lock in one step because `WithTx` commits them together.
`CommitRefused` is the rollback when the re-check or the entry group is refused, with the
log line of `Capture` and `Refund`.  `Abandon` is a rollback for any other reason.
A request answered without touching anything is not a step.  Time is in days.

The close is `Scan`, `Compare`, `Decide` (three queries, three snapshots), then
`SettleLock` and `SettleCommit` per payment.  The order of settlement is left open.

### Breaker

The mutex makes `Allow`, `Success`, `Failure` and `State` atomic; a caller is between
them while it waits for the processor.  The model keeps the age of each call and of
the open state instead of clock readings.  `State` is only reached from the debug
line after a call: `/readyz` does not look at the breaker.  `failures` stops at the
threshold, past which only a success changes what it means.

`Invalid` and `Cancelled` are verdicts without an answer of the processor: a card that
does not validate counts as a success (`guarded.go:103`), a client that hangs up as a
failure (`guarded.go:107`).  Either may happen on any call, any number of times, in an
outage or out of it, and the safety properties hold of all of that.  The liveness
properties cannot: one invalid card resets the count, and as a probe it closes the
breaker; one hang-up on a probe opens it again.  So `Sheds` has the hypothesis
`NoMoreInvalid` and `Recovers` has `NoMoreCancelled`, each that from some point on there
are no more such verdicts; without its hypothesis either fails.

### Idempotency

One action per Redis command.  A body is the canonical JSON that `Fingerprint`
hashes, a run number stands for the response of one execution.  `Expire` does not
happen under an owner: the TTL is 24 hours and the router gives a request 30 seconds.

### Webhooks

A process has a poller and `Workers` goroutines; `job[p][d]` is the copy of row `d`
that process `p` holds.  `Tick` advances only when no job is past its timeout and no
send waits for a free worker, which is what the contexts and the unbuffered channel
guarantee.  A shutdown that exceeds `ShutdownTimeout` ends as a `Crash`.  `HandBack`
is the shutdown path of `poll`: one row goes back, the rest of the batch is dropped.
`Stall` and `Wake` suspend a process that holds rows while time goes on for the
others: its claim goes stale, another process takes the row, and the sleeper goes on
with its copy.  `UpdateAttempt` has no guard against that, so the safety properties
leave out the rows slept on (`sleptOn`); `NoJobIsLost` does not.  A process that slept
and then claims its own row again has one copy of it in the model, the newer one.

### PaymentApi

`EXTENDS Idempotency` and `INSTANCE Payments`: a request is in the middleware
(`req`) and, while it owns its key, in the service (`serving`).  Each handler action
joins a step of the service to the step of the middleware that its answer causes:
`HandlerSucceeds` is a commit and a 2xx, `HandlerBreaks` an error that `mapError`
turns into a 5xx, which releases the key.  `answer` and `effects` record what each
run said and what it committed or authorized.  Void does not pass the middleware and is
left to the gateway runs.

`AnswerTellsBooks` is about money, `AnswerTellsOrder` about the holds behind the answers
to an order.  What a merchant may conclude from a final answer to Create, in the first
life of its key:

- 201: this run authorized the payment, and no other did;
- 402: nothing stands under this key; the payment failed, or another key's run
  authorized it.  The second case is a retry under a new key whose decline came after
  the first attempt's approval (`payment_service.go:399`): the order stands, and the 402
  does not say so;
- any other refusal: nothing stands under this key, or the order asked for an
  automatic capture, whose error is the answer while the authorization stays
  (`payment_service.go:171`).

A 5xx is not a final answer.  `PathsAssumption`: a route names a payment of the model.

### Edge, RateLimiter, Merchants

A message is signed once with the merchant's clock, which may be off by `Drift`, and
delivered any number of times.  A delivery passes `Auth`, `ReadClock`, `Count` (or
`FailOpen`), `Begin` and the handler, one action where the code can be interrupted.
Redis counters and keys hold their expiry time.  `RequestTimeout` bounds a delivery's
stay.  The assumption `KeyTTL > 2 * ClockSkew + RequestTimeout` is what
`OncePerSignature` needs, and the run uses the smallest value it allows: with one tick
less TLC finds a second answer.  `config.Load` does not compare the two settings; the
defaults (24 h, 5 min, 30 s) satisfy it.  Requests counted in time obey the limiter's
documented 2x; those that name a window and are counted after it raise the bound
to 3x, which is reached.  `passed` counts what was let through by age and by kind
(counted in time or late), and `LetThroughRecently` is the set of these requests.  A
late request belongs to the window before because `RequestTimeout <= Window`
(`WindowAssumption`): the router's 30 seconds (`router.go:43`) and the minute
`app.New` gives the limiter (`app.go:97`) are both fixed in the code.

### Listing

`table` holds rows that are inserted with a time stamp read a little earlier, then
committed or aborted; payments have random ids and change status, journal lines have
increasing ids.  `NextPage` is the handler with the query: clamp, one row more than
the page, next cursor.  `Ordered` is the ORDER BY: the m-th row has m - 1 rows before it.
`EncodeCursor` keeps the time as seconds and fraction.

## Runs

| Run | Instance | Checks | Result |
| --- | --- | --- | --- |
| `gateway_race` | 1 payment, 2 requests at a time, 3 in all, 1 close, 2 days, no faults, fairness | `LockDiscipline`, `DriftIsAlerted`, `PayoutCovered`, `ImplementsContract`, `RequestsFinish`, `JobsFinish` | holds, 52,000 states |
| `gateway_faults` | 2 payments, 2 requests, 3 in all, 2 closes, all faults | `TypeOK`, `BooksAgree`, `MoneyBounded`, `EveryGroupBalances`, `OutboxReportsRow`, `NoPhantomMoney`, `PaidOutOnce`, `HistoryIsKept` | holds, 219,000 states |
| `breaker` | 3 callers, threshold 2, cooldown 3, timeout 2 | `TypeOK`, `OneProbe`, `OutageDrains`, `ClosedBelowThreshold`, `Recovers`, `Sheds` | holds, 2,200 states |
| `idempotency` | 3 requests, 1 key, 2 bodies, all faults | `TypeOK`, `OneOwner`, `FinalOnce`, `ReplayIsFaithful`, `ClaimsEnd` | holds, 17,800 states |
| `webhooks_safety` | 2 processes, 3 deliveries, 1 disturbance, no stall | `TypeOK`, `OneHolder`, `AttemptsAreCounted` | holds, 489,000 states |
| `webhooks_liveness` | 2 processes, 1 delivery, 2 disturbances of every kind, fairness | `DeliveredWasAcked`, `FinishedStays`, `NoJobIsLost` | holds, 85,000 states |
| `payment_api` | 1 payment, 2 requests at a time, 3 runs, 2 keys, all faults but a lost COMMIT acknowledgement | `BookedOncePerKey`, `AnswerTellsBooks`, `AnswerTellsOrder` | holds, 1.3 million states |
| `edge` | 1 message, 2 deliveries at a time, 8 ticks | `TypeOK`, `BurstBounded`, `PoliteRetry`, `OncePerSignature` | holds, 2.4 million states |
| `listing` | 4 rows, pages of 1 or 2, 2 labels, 3 time ranges | `WalkInOrder`, `WalkIsComplete` | holds, 1.6 million states |
| `gateway_fee` | 1 payment, 1 request at a time | `DayReconciles` | violated |
| `idempotency_path` | 2 routes, 1 key, 1 body | `ReplayAnswersSameOperation` | violated |
| `api_commit` | `payment_api` with a lost COMMIT acknowledgement as the only fault | `BookedOncePerKey` | violated |

The three violated runs state what a comment or a document of the repository says and
show an execution of the code that disagrees:

- `gateway_fee`: a payment captured in two parts stops the whole day's settlement,
  because the report rounds the fee once and the journal once per capture;
- `idempotency_path`: the key and the fingerprint name neither route nor payment, so
  a second operation with the same body is answered with the first one's response;
- `api_commit`: a COMMIT that took effect but was not acknowledged is answered 500,
  which releases the key; the retry books a second partial capture under the same key.

Smaller disagreements, which are paths of the models and have no run:

- a void that loses to a capture has released the hold and logs nothing, unlike
  capture and refund (`payment_service.go:361`, `docs/architecture.md:143`);
- clients that hang up count as failures of the processor (`guarded.go:107`,
  `breaker.go:94`), so they can open the breaker, or keep it open, while the processor is
  healthy;
- an invalid card counts as an answer of the processor (`guarded.go:103`,
  `breaker.go:86`), so in an outage it resets the count of failures and, as the probe,
  closes the breaker;
- a response that cannot be stored leaves the key in progress until its TTL, it does
  not let the retry run (`middleware_idem.go:119`);
- a shutdown in mid-batch hands one row back and leaves the rest to the stale sweep
  (`dispatcher.go:79`, `:149`);
- an automatic capture that fails is answered with its error, not with the
  authorization (`payment_service.go:173`, `handler_payment.go:93`); after a 503 the
  retry of the order is refused with 409.

### Bounds, and why they are enough

Three requests cover the triples that interact: an authorization and two racing
operations, or capture, refund and a late void.  An order of 2 with asks of 1 or
"all" reaches partial captures and refunds and their completion; a fee of 50% makes
rounding visible on amounts of 1.  `MaxDay` 1 with validity 0 lets an
authorization expire between two checks and a capture fall on either day.  Two closes
overlap or one repeats what another left.  `IntLimit` is large enough that no
product wraps in the instances; only two theorems assume that (`FeesFit`).  The breaker has
one caller more than its threshold, so that a straggler, a probe and a rejected call coexist.
Three deliveries and one worker leave a batch with a row posting, a row waiting and a
row unclaimed; `StaleAfter = 3 * JobTimeout` is the tightest value the assumption
allows.  `MaxDisturbances` 1 is one crash, shutdown or database error at any point;
`webhooks_liveness` has two, so that a stall meets a crash of the process that took over.
It has one delivery, so the rows that a shutdown drops in mid-batch are reached only by
the safety run.  `NoJobIsLost` was also checked with two deliveries on two smaller
instances, where it holds: one process with two disturbances (234,000 states), and two
processes with one disturbance and one attempt (70,000 states).
Three runs of a handler under two keys are a request, its retry and a rival.  The edge
has time for two windows and a half, and `MaxTime` equals `KeyTTL`, so a key taken at
the start expires within the run.  A second of two ticks in a window of three makes
`Retry-After` round.  Four rows in pages of one or two give up to four pages with rows
committed before, inside and after each.
Deadlock is not checked where the bounds stop the behaviour by design (requests used
up).  Symmetry is used only in runs without liveness.  The views of `MCPaymentApi` and
`MCEdge` drop what no action or invariant of the run reads: journal, outbox and acquirer records
in the first, an expired Redis key and the window of a request already counted in
the second.

### Fairness

Weak fairness of the steps the code takes by itself: an accepted request advances
(every acquirer call ends by `Guarded`'s timeout, Postgres hands a row lock to its
waiters), a started close advances, a breaker's calls return and time passes, Redis
expires keys, pollers and workers are scheduled, the worker process is restarted and a
suspended one goes on.
Arrivals are not fair, except in the breaker, whose recovery needs a caller to probe.
Faults are never fair.  Weak fairness is enough for a row lock because a bounded
number of requests competes for it.

## Proofs

Each theorem is about `Spec` (`EdgeSpec` for the edge, `ApiSpec` for the handlers) and holds for every value of the
constants that the named assumptions of the modules allow.  These are types, bounds
that are natural numbers, finiteness of the requests a gateway serves at a time and of
the rows of an outbox (`IsFiniteSet`), and these relations between settings:

- `Timeout < Cooldown` (breaker; defaults 3 s and 30 s) and `StaleAfter >= 3 * JobTimeout`
  (webhooks; 5 min fixed, 10 s + 5 s by default): `config.Load` does not compare them;
- `KeyTTL > 2 * ClockSkew + RequestTimeout` and `RequestTimeout <= Window` (edge), see
  above;
- `Ceiling > MaxLimit` (listings): the query's cap lets the handler ask for one row
  more than the largest page;
- `FeeBPS \in 0..10000`.

| Component | Theorem: property |
| --- | --- |
| Gateway (`GatewayProofs`) | `Invariance`: the inductive invariant `IInv`; `TypeCorrect`: `TypeOK`; `BooksAlwaysAgree`: `BooksAgree`; `MoneyAlwaysBounded`: `MoneyBounded`; `GroupsAlwaysBalance`: `EveryGroupBalances`; `OutboxIsFaithful`: `OutboxReportsRow`; `LocksAreExclusive`: `LockDiscipline`; `NeverPaidTwice`: `PaidOutOnce` |
| Contract (`ContractProofs`) | `HistoryAlwaysKept`: `HistoryIsKept`; `GatewayImplementsContract`: `ImplementsContract`; `PayoutsAreCovered`: `PayoutCovered` |
| Acquirer (`ContractProofs`) | `NoMoneyFromNothing`: `NoPhantomMoney`; `DriftAlwaysAlerted`: `DriftIsAlerted` |
| Breaker | `TypeCorrect`: `TypeOK`; `SingleProbe`: `OneProbe`; `Drained`: `OutageDrains`; `BelowThreshold`: `ClosedBelowThreshold` |
| Idempotency | `TypeCorrect`: `TypeOK`; `SingleOwner`: `OneOwner`; `OneFinalAnswer`: `FinalOnce`; `FaithfulReplay`: `ReplayIsFaithful` |
| API | `ChargedOnce`: `BookedOncePerKey`; `AnswersTellBooks`: `AnswerTellsBooks`; `AnswersTellOrders`: `AnswerTellsOrder` |
| Webhooks | `TypeCorrect`: `TypeOK`; `SingleHolder`: `OneHolder`; `EveryAttemptCounted`: `AttemptsAreCounted`; `OnlyAcksDeliver`: `DeliveredWasAcked`; `FinishedForGood`: `FinishedStays` |
| Edge and limiter | `TypeCorrect`: `TypeOK`; `AnsweredOnce`: `OncePerSignature`; `TwoWaitsSuffice`: `PoliteRetry`; `BurstIsBounded`: `BurstBounded` |
| Listings | `WalkOrdered`: `WalkInOrder`; `WalkComplete`: `WalkIsComplete` |

Some theorems have a hypothesis that the code does not check, stated in the theorem and
not as an assumption of a model:

- `FeesFit` (`GatewayImplementsContract`, `PayoutsAreCovered`): amount times basis points
  is below 2^63 for every order.  Past that, `Fee` wraps and a payout is no longer what
  the contract says.
- `CapturesBook` (`DriftAlwaysAlerted`): `NewCaptureEntryGroup` accepts every capture the
  domain accepts.  A fee that takes the whole capture breaks it: the acquirer has moved
  the money, `Validate` refuses the group and the transaction rolls back without the log
  line (`payment_service.go:244`).
- `"ack" \notin ServiceFaults` (`ChargedOnce`, `AnswersTellBooks`, `AnswersTellOrders`):
  every COMMIT that took effect is acknowledged.  Without it all three are false: the run
  `api_commit` shows how for the first two, and an order whose COMMIT was not acknowledged
  stands while its retry is answered 409.
  Every other fault of the service, of Redis and of the processes is allowed.

No other theorem assumes that fees do not overflow: a fee that does makes
`NewCaptureEntryGroup` refuse the capture or a payout differ, and neither disturbs
the properties of the first row, the history, or `NoPhantomMoney`.

### The gateway

`BooksAgree` and the others are not inductive alone.  A commit writes a function of
`fresh`, the row its transaction read; that this is the row being replaced needs
`LockDiscipline`.  `LockDiscipline` survives an insert, the one write without a lock, only
because nobody refers to a row that does not exist (`Referenced`).
`PaidOutOnce` needs the link from a settlement to the status.  So `IInv` conjoins
types, `LockDiscipline`, `Referenced` and `Consistent` for each payment.  TLC
checked `IInv` on the `gateway_faults` instance before the proof; no run lists it, because
it says what the run's own properties say, put together to be inductive.

The first part of `GatewayProofs` shows what the journal's sums do under append: the recursive
function behind `Sum` exists and is unique (`TotalExists`, `TotalUnique`, by an
induction written out over sets of naturals in `SetInduction`), hence `SumAppend`
and `PostedAppend`; then each constructor's effect on each aggregate.
The second part lifts this to one payment (`CaptureCommit`, `RefundCommit`,
`SettleCommits`, `StatusCommit`, `InsertKeeps`: a commit keeps `Consistent`), then to
the shape of a step (`QuietStep`, `LockStep`, `EndOfRequestTx`, `EndOfJobTx`,
`WriteStep`), then has one lemma per action, joined in `NextKeeps`.

### The contract

`StepShape` says that a step of the gateway changes at most one payment, in one of five
ways: it is inserted, relabelled, captured, refunded or settled.  The three theorems go
through these five cases.  For the refinement each case is one action of
`PaymentContract` under the mapping, and everything else a stutter; the settlement needs
that the payout the code computes from the row is what the contract computes from the
journal, which `BooksAgree` gives.  `PayoutCovered` is about fees that were rounded down
once per capture while the payout rounds once: the inductive invariant `Owed` says that
the payable account holds at least what settling would pay, because the sum of the rounded
fees is at most the rounded fee of the sum.

### The books and the acquirer

A commit books an amount approved steps earlier, with no lock held in between.
`NoPhantomMoney` alone says nothing about the approvals still to be booked, so the
invariant `AcqInv` adds them: the row's amount plus everything approved and not yet
written (`InFlight`, a sum over the requests in any fixed order) is at most what the
acquirer moved.  An approval raises both sides, a commit moves an amount from the second
term to the first, a timeout or crash only drops one from the left.  TLC
checked `AcqInv` on the `gateway_faults` instance before the proof.  `DriftIsAlerted`
is the same count as an equation, with the alerted amounts: without faults a lost
double-check moves its amount into `alerted`.

### Breaker

`Stragglers` (whatever is in flight while the breaker is open is at least as old as the
opening) and the timeout being shorter than the cooldown give that nothing is in flight
when the breaker turns half-open; `ProbeHolder` then says that the one call in flight is
the probe, so its verdict alone decides.  Before that a straggler's late success may
close an open breaker: it resets the count, which is why `ClosedBelowThreshold` holds.

### Idempotency

`ClaimHeld` and `SoleOwner`: Redis holds the claim of whoever owns a key, so SET NX lets
nobody else in and the unconditional SET or DEL of an owner hits its own record.
`AnswersCounted` strengthens `FinalOnce` with the answers of the key's present life:
while the key is free, or its owner unanswered, there are at most as many answers as
expiries.  `StoredIsAnswer` carries an answer from the run to the replay.

### PaymentApi

The proof reuses the invariant of `Idempotency`: every step of the composition is a step
or a stutter of the middleware (`ApiStepIsStep`).  What it adds is the link between a
request's two halves.  `CallsOpen` says that a service call is open only while its request
is in the handler, and is one its route makes (`CallFits`); `RunsFresh` that a run in the
handler is the only one with its number and not yet answered.  The step that books money
is then the step that ends the key's only unanswered owner, by an answer or by its death
(`LastCommitMoves`, `LifeEnds`), so a life of a key has at most one booking and none while
it is `Unanswered` (`BookingsCounted`).  In the first life of a key (`FirstLife`) this
leaves the final answer as the only witness of the booking, which is `AnswerTellsBooks`.
TLC checked `ApiInv` on the `payment_api` instance before the proof.

`AnswerTellsOrder` is about payments, which several keys may share, so its invariant
`OrderInv` adds what the row lock gives.  `RowsHeld`: whoever commits holds the row's lock
alone and has read the row as it is.  Hence a payment is authorized once, and its row
shows it (`AuthorizedOnce`).  `HoldsKnown`: a handler that may still authorize has no
authorization under its key, one that has gone on to the capture has its own.
`HoldsAnswered`: the step that commits an order without capture is the one that answers,
so no such hold is left under an unanswered key in its first life.

### Webhooks

`OneHolder` rests on time.  A batch has at most `2 * Workers` rows and while one waits
all workers are busy.  A row that has waited one `JobTimeout` has seen every job that ran
when it was claimed end, so `Workers` rows went ahead of it; after two it is its turn
(`Waits`), and its own job takes one more.  `StaleAfter >= 3 * JobTimeout` is then just
enough for the janitor to leave it alone.  `CopiesAreCurrent` states this together with
the agreement of the copy and its row; from it follow that a held row is `delivering`,
that nobody claims it again (`Apart`), that the unguarded `UpdateAttempt` overwrites
nothing newer, and the count of attempts.  `AttemptsLeft` and `AnswerSeen` hold of the
copies of processes that slept as well.

### Edge

A copy of a message in the chain was let in within `ClockSkew` of its timestamp and is
gone `RequestTimeout` later (`AllAdmitted`).  A key is set after its copy arrived
(`KeyHeld`), so after a final answer it outlives every copy that can still be let in
(`AnsweredIsClosed`).  `PoliteRetry` is arithmetic: a wait rounded down to seconds, at
least one, leaves less than a second to the end of the window.

`BurstBounded` needs to know which counter each recent request was charged to.
`NamedInTime`: a request about to be counted named the present window or the one it
arrived in, which is at most one back.  `Covered`: a counter lives for a window after each
request it let through, because EXPIRE counts from the last one.  `Budgeted`: a counter
that is alive counts every request it let through less than a window ago, so these are
at most `Limit`.  Any span of a window meets two windows; the requests counted in time
share two counters, the late ones add a third.  Had EXPIRE been anchored to the first
request, `Covered` would fail: that is the mutant `ExecAnchored`.

### Listing

A page is sorted by rank, so the proof needs that the ranks of a finite set under a strict
total order are 0 to n - 1, each once.  `CursorIsLast` says that the cursor decodes to the
last row given out; a cursor that lost the fraction of the second would repeat or skip
rows.
`OwedAhead` says that a row committed when the walk began, and matching ever since, was
given out or lies beyond the cursor; a page whose query found no extra row leaves none
beyond, which is `WalkIsComplete`.

### Only model-checked

- `Recovers`, `Sheds`, `ClaimsEnd`, `NoJobIsLost`, `RequestsFinish`, `JobsFinish`:
  liveness under fairness is out of the prover's reach.
- The three violated properties.

## Not modelled

- HMAC and AES-GCM, webhook signatures, secret generation: cryptography.  Signatures
  are injective by assumption in `Merchants`.
- Validation of fields before the service, logging, report files, the probes, the demo
  webhook receiver and the reads of a single row or sum (`Get`, `Me`, `Balance`,
  `SettlementReport`): no state of their own and no step to interleave with.
- Configuration, wiring, migrations, seed data.  What configuration must satisfy is
  stated as assumptions on the constants.
- Retries inside the Redis client (a DEL sent twice may hit the next owner's claim).
- Fees at the limits (10000 bps, products above 2^63): `Writable` and `Wrap` model them and
  the theorems cover them, no run does.
- Database CHECK constraints: weaker than the invariants proved above.

## Plan

Done: the gateway core with its contract, invariant and proofs; the breaker;
idempotency, alone and composed with payments; the webhook dispatcher with suspended
processes; the middleware chain with authentication and rate limit; the listings.

Proved: every safety property that a passing run checks, invariants and action
properties alike, and the refinement of the contract.

Left: the liveness properties, for which TLC is the only check; the five hazards of
`PROJECT.json` that no property covers, each with its reason; larger instances.
