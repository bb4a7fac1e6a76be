------------------------------ MODULE Payments ------------------------------
(***************************************************************************)
(* PaymentService (internal/service/payment_service.go) over the           *)
(* repositories: concurrent API requests that authorize, capture, refund   *)
(* and void payments.                                                      *)
(*                                                                         *)
(* Every money operation has the same three parts, and each part is a step *)
(* of its own because other requests run between them:                     *)
(*   1. an unlocked read of the row and an advisory check;                 *)
(*   2. a call to the acquirer with no lock and no transaction open;       *)
(*   3. a database transaction that locks the row (SELECT ... FOR UPDATE), *)
(*      re-reads it, checks again, and writes the row, the journal and the *)
(*      webhook outbox together, or rolls back.                            *)
(*                                                                         *)
(* A transaction is named by its (merchant, reference) pair, which the     *)
(* schema keeps unique.  A request answered without touching anything (an  *)
(* unknown id, another merchant's id, a failed pre-check, a duplicate      *)
(* reference) is not a step.                                               *)
(***************************************************************************)
EXTENDS Transaction, Ledger

CONSTANTS
  Txns,         \* the (merchant, reference) pairs
  NoTxn,        \* no transaction: the txn of an idle request
  Requests,     \* API requests that can be in flight at the same time
  Jobs,         \* reconciliation runs, the other holders of row locks
  Amounts,      \* order amounts a merchant may submit
  Asked,        \* amounts of capture and refund calls; 0 means "all of it"
  MaxRequests,  \* bound: requests accepted in one behaviour
  MaxDay,       \* bound: the last day of the clock
  Faults        \* which failures happen, a subset of FaultKinds

FaultKinds ==
  {"unavailable",  \* the acquirer times out: the effect may have happened
   "abandon",      \* the process dies or its database call fails: rollback
   "ack"}          \* COMMIT took effect but its answer was lost

Procs == Requests \cup Jobs

ASSUME PaymentsAssumption ==
  /\ NoTxn \notin Txns
  /\ IsFiniteSet(Requests)
  /\ Requests \cap Jobs = {}
  /\ Amounts \subseteq Nat \ {0}
  /\ Asked \subseteq Nat
  /\ MaxRequests \in Nat
  /\ MaxDay \in Nat
  /\ Faults \subseteq FaultKinds

VARIABLES
  row,      \* the transactions table
  journal,  \* ledger_entries, by transaction
  outbox,   \* webhook_deliveries in the order they were queued, by transaction
  lock,     \* the row locks: the set of holders, empty or a singleton
  fresh,    \* the row a database transaction read under its lock
  req,      \* the requests
  acq,      \* what really happened at the acquirer (external)
  alerted,  \* amounts logged as "manual reconciliation required"
  now,      \* the clock, in days
  started   \* requests accepted so far

dbVars  == <<row, journal, outbox>>
txVars  == <<lock, fresh>>
payVars == <<row, journal, outbox, lock, fresh, req, acq, alerted, now, started>>

-----------------------------------------------------------------------------

Ops == {"authorize", "fail", "capture", "refund", "void"}

\* "declined" is "idle" after a 402 answer.
Resting == {"idle", "declined"}

RequestStates ==
  [pc : Resting \cup {"acquirer", "writeback", "locked", "autocapture"},
   op : Ops \cup {"none"}, txn : Txns \cup {NoTxn}, amount : Nat, auto : BOOLEAN]

Idle == [pc |-> "idle", op |-> "none", txn |-> NoTxn, amount |-> 0, auto |-> FALSE]

Declined(t) == [Idle EXCEPT !.pc = "declined", !.txn = t]

\* The body of a webhook: the event and the row it reports (BuildEventPayload).
Events == {"authorized", "failed", "captured", "refunded", "voided", "settled"}

\* Mutant: the payload says what happened but not how much.
EventPayloadWithoutAmounts(event, t) == [event |-> event, status |-> t.status]

EventPayload(event, t) ==
  [event |-> event, status |-> t.status, captured |-> t.captured,
   refunded |-> t.refunded]

Payloads ==
  [event : Events, status : Status \cup {Absent}, captured : Nat, refunded : Nat]

AcquirerStates == [holds : Nat, captured : Nat, refunded : Nat, voids : Nat]

PayInit ==
  /\ row = [t \in Txns |-> NoRow]
  /\ journal = [t \in Txns |-> <<>>]
  /\ outbox = [t \in Txns |-> <<>>]
  /\ lock = [t \in Txns |-> {}]
  /\ fresh = [p \in Procs |-> NoRow]
  /\ req = [r \in Requests |-> Idle]
  /\ acq = [t \in Txns |-> [holds |-> 0, captured |-> 0, refunded |-> 0, voids |-> 0]]
  /\ alerted = [t \in Txns |-> [captured |-> 0, refunded |-> 0]]
  /\ now = 0
  /\ started = 0

-----------------------------------------------------------------------------
(* Part 1: the row is created, or read and checked, without a lock.        *)

Accept(r) ==
  /\ req[r].pc \in Resting
  /\ started < MaxRequests
  /\ started' = started + 1

CallAcquirer(r, op, t, amount, auto) ==
  req' = [req EXCEPT ![r] = [pc |-> "acquirer", op |-> op, txn |-> t,
                             amount |-> amount, auto |-> auto]]

\* Mutant: a retry resumes whatever state the transaction is in.
CreateResumingAny(r, t, amount, auto) ==
  /\ Accept(r)
  /\ \/ /\ row[t].status = Absent
        /\ row' = [row EXCEPT ![t] = NewTransaction(amount)]
     \/ /\ row[t].status # Absent
        /\ row' = [row EXCEPT ![t].status = "created"]
  /\ CallAcquirer(r, "authorize", t, amount, auto)
  /\ UNCHANGED <<journal, outbox, txVars, acq, alerted, now>>

\* Authorize, up to the acquirer: insert the row, or resume an authorization
\* of the same order that never got its answer.
Create(r, t, amount, auto) ==
  /\ Accept(r)
  /\ \/ /\ row[t].status = Absent
        /\ row' = [row EXCEPT ![t] = NewTransaction(amount)]
     \/ /\ row[t].status = "created"
        /\ row[t].amount = amount
        /\ UNCHANGED row
  /\ CallAcquirer(r, "authorize", t, amount, auto)
  /\ UNCHANGED <<journal, outbox, txVars, acq, alerted, now>>

CapturePreCheck(r, t, asked) ==
  LET amount == IF asked = 0 THEN RemainingCapturable(row[t]) ELSE asked
  IN  /\ Accept(r)
      /\ CanCapture(row[t], amount, now)
      /\ CallAcquirer(r, "capture", t, amount, FALSE)
      /\ UNCHANGED <<dbVars, txVars, acq, alerted, now>>

RefundPreCheck(r, t, asked) ==
  LET amount == IF asked = 0 THEN RemainingRefundable(row[t]) ELSE asked
  IN  /\ Accept(r)
      /\ CanRefund(row[t], amount)
      /\ CallAcquirer(r, "refund", t, amount, FALSE)
      /\ UNCHANGED <<dbVars, txVars, acq, alerted, now>>

VoidPreCheck(r, t) ==
  /\ Accept(r)
  /\ CanVoid(row[t])
  /\ CallAcquirer(r, "void", t, 0, FALSE)
  /\ UNCHANGED <<dbVars, txVars, acq, alerted, now>>

\* capture=true: a committed authorization goes on to capture its amount.
AutoCapture(r) ==
  LET t == req[r].txn
  IN  /\ req[r].pc = "autocapture"
      /\ IF CanCapture(row[t], req[r].amount, now)
         THEN CallAcquirer(r, "capture", t, req[r].amount, FALSE)
         ELSE req' = [req EXCEPT ![r] = Idle]
      /\ UNCHANGED <<dbVars, txVars, acq, alerted, now, started>>

-----------------------------------------------------------------------------
(* Part 2: the acquirer, an external service that keeps its own books.     *)

Moved(a, op, amount) ==
  CASE op = "authorize" -> [a EXCEPT !.holds = @ + 1]
    [] op = "capture"   -> [a EXCEPT !.captured = @ + amount]
    [] op = "refund"    -> [a EXCEPT !.refunded = @ + amount]
    [] OTHER            -> [a EXCEPT !.voids = @ + 1]

AcquirerMoves(r) ==
  acq' = [acq EXCEPT ![req[r].txn] = Moved(@, req[r].op, req[r].amount)]

AcquirerApproves(r) ==
  /\ req[r].pc = "acquirer"
  /\ AcquirerMoves(r)
  /\ req' = [req EXCEPT ![r].pc = "writeback"]
  /\ UNCHANGED <<dbVars, txVars, alerted, now, started>>

\* Mutant: a decline is taken for an approval.
AcquirerDeclinesIgnored(r) ==
  /\ req[r].pc = "acquirer"
  /\ req[r].op = "authorize"
  /\ req' = [req EXCEPT ![r].pc = "writeback"]
  /\ UNCHANGED <<dbVars, txVars, acq, alerted, now, started>>

\* Only an authorization can be declined: a capture, refund or void of an
\* accepted authorization is not scored again.
AcquirerDeclines(r) ==
  /\ req[r].pc = "acquirer"
  /\ req[r].op = "authorize"
  /\ req' = [req EXCEPT ![r].pc = "writeback", ![r].op = "fail"]
  /\ UNCHANGED <<dbVars, txVars, acq, alerted, now, started>>

\* The card does not validate: answered at once, the row stays created.
AcquirerInvalidCard(r) ==
  /\ req[r].pc = "acquirer"
  /\ req[r].op = "authorize"
  /\ req' = [req EXCEPT ![r] = Idle]
  /\ UNCHANGED <<dbVars, txVars, acq, alerted, now, started>>

\* ErrAcquirerUnavailable says nothing about whether money moved.
AcquirerUnavailable(r) ==
  /\ "unavailable" \in Faults
  /\ req[r].pc = "acquirer"
  /\ AcquirerMoves(r) \/ UNCHANGED acq
  /\ req' = [req EXCEPT ![r] = Idle]
  /\ UNCHANGED <<dbVars, txVars, alerted, now, started>>

-----------------------------------------------------------------------------
(* Part 3: the write-back, DB.WithTx around GetForUpdate and Update.       *)

\* Mutant: SELECT without FOR UPDATE.
TakeLockWithoutForUpdate(p, t) ==
  /\ lock' = [lock EXCEPT ![t] = {}]
  /\ fresh' = [fresh EXCEPT ![p] = row[t]]

\* GetForUpdate waits for the lock and reads the latest committed row.
TakeLock(p, t) ==
  /\ lock[t] = {}
  /\ lock' = [lock EXCEPT ![t] = {p}]
  /\ fresh' = [fresh EXCEPT ![p] = row[t]]

\* Mutant: the transaction is left open.
ReleaseLockForgotten(p, t) ==
  /\ UNCHANGED lock
  /\ fresh' = [fresh EXCEPT ![p] = NoRow]

\* COMMIT and ROLLBACK both end the transaction and its lock.
ReleaseLock(p, t) ==
  /\ lock' = [lock EXCEPT ![t] = @ \ {p}]
  /\ fresh' = [fresh EXCEPT ![p] = NoRow]

\* UPDATE ... WHERE version = $12 finds the row.
VersionMatches(p, t) == row[t].version = fresh[p].version

\* Mutant: the payload is built before the row is changed.
PersistReportingOldRow(p, t, new, groups, event) ==
  /\ row' = [row EXCEPT ![t] = [new EXCEPT !.version = @ + 1]]
  /\ journal' = [journal EXCEPT ![t] = @ \o groups]
  /\ outbox' = [outbox EXCEPT ![t] = Append(@, EventPayload(event, row[t]))]
  /\ ReleaseLock(p, t)

\* COMMIT: the row, the entry groups and the webhook become visible together.
Persist(p, t, new, groups, event) ==
  /\ row' = [row EXCEPT ![t] = [new EXCEPT !.version = @ + 1]]
  /\ journal' = [journal EXCEPT ![t] = @ \o groups]
  /\ outbox' = [outbox EXCEPT ![t] = Append(@, EventPayload(event, new))]
  /\ ReleaseLock(p, t)

LockRow(r) ==
  /\ req[r].pc = "writeback"
  /\ TakeLock(r, req[r].txn)
  /\ req' = [req EXCEPT ![r].pc = "locked"]
  /\ UNCHANGED <<dbVars, acq, alerted, now, started>>

\* The check inside the transaction, on the row as it is now.
DomainAccepts(r) ==
  CASE req[r].op = "authorize" -> fresh[r].status = "created"
    [] req[r].op = "capture"   -> CanCapture(fresh[r], req[r].amount, now)
    [] req[r].op = "refund"    -> CanRefund(fresh[r], req[r].amount)
    [] req[r].op = "void"      -> CanVoid(fresh[r])
    [] OTHER                   -> TRUE

\* The checks after it: NewCaptureEntryGroup, then the version column.
Writable(r) ==
  /\ req[r].op = "capture" => CaptureBookable(req[r].amount, Fee(req[r].amount, FeeBPS))
  /\ VersionMatches(r, req[r].txn)

Committing(r, op) ==
  /\ req[r].pc = "locked"
  /\ req[r].op = op
  /\ DomainAccepts(r)
  /\ Writable(r)
  /\ UNCHANGED <<acq, alerted, now, started>>

\* The request's state after its commit; a lost acknowledgement ends it.
Answer(r, next) ==
  \/ req' = [req EXCEPT ![r] = next]
  \/ "ack" \in Faults /\ req' = [req EXCEPT ![r] = Idle]

CommitAuthorize(r) ==
  LET t == req[r].txn
  IN  /\ Committing(r, "authorize")
      /\ Persist(r, t, Authorize(fresh[r], now), <<>>, "authorized")
      /\ Answer(r, IF req[r].auto THEN [req[r] EXCEPT !.pc = "autocapture"] ELSE Idle)

\* finalizeFailure: a transaction somebody else resolved is left alone.
CommitFail(r) ==
  LET t == req[r].txn
  IN  /\ Committing(r, "fail")
      /\ IF fresh[r].status = "created"
         THEN Persist(r, t, Fail(fresh[r]), <<>>, "failed")
         ELSE ReleaseLock(r, t) /\ UNCHANGED dbVars
      /\ Answer(r, Declined(t))

\* Mutant: the journal is written in a transaction of its own, which is lost.
CommitCaptureWithoutJournal(r) ==
  LET t == req[r].txn
      amount == req[r].amount
  IN  /\ Committing(r, "capture")
      /\ \E groups \in {<<>>, <<CaptureEntryGroup(amount, Fee(amount, FeeBPS))>>} :
           Persist(r, t, Capture(fresh[r], amount, now), groups, "captured")
      /\ req' = [req EXCEPT ![r] = Idle]

CommitCapture(r) ==
  LET t == req[r].txn
      amount == req[r].amount
  IN  /\ Committing(r, "capture")
      /\ Persist(r, t, Capture(fresh[r], amount, now),
                 <<CaptureEntryGroup(amount, Fee(amount, FeeBPS))>>, "captured")
      /\ req' = [req EXCEPT ![r] = Idle]

CommitRefund(r) ==
  LET t == req[r].txn
      amount == req[r].amount
  IN  /\ Committing(r, "refund")
      /\ Persist(r, t, Refund(fresh[r], amount), <<RefundEntryGroup(amount)>>, "refunded")
      /\ req' = [req EXCEPT ![r] = Idle]

CommitVoid(r) ==
  /\ Committing(r, "void")
  /\ Persist(r, req[r].txn, Void(fresh[r]), <<>>, "voided")
  /\ req' = [req EXCEPT ![r] = Idle]

\* Mutant: losing the double-check is not logged.
CommitRefusedSilently(r) ==
  /\ req[r].pc = "locked"
  /\ ~(DomainAccepts(r) /\ Writable(r))
  /\ ReleaseLock(r, req[r].txn)
  /\ req' = [req EXCEPT ![r] = Idle]
  /\ UNCHANGED <<dbVars, acq, alerted, now, started>>

\* ROLLBACK because a check inside the transaction failed.  Capture and Refund
\* log the amount the acquirer moved when it is the domain that refuses.
CommitRefused(r) ==
  LET t == req[r].txn
  IN  /\ req[r].pc = "locked"
      /\ ~(DomainAccepts(r) /\ Writable(r))
      /\ alerted' =
           [alerted EXCEPT
              ![t].captured = IF req[r].op = "capture" /\ ~DomainAccepts(r)
                              THEN @ + req[r].amount ELSE @,
              ![t].refunded = IF req[r].op = "refund" /\ ~DomainAccepts(r)
                              THEN @ + req[r].amount ELSE @]
      /\ ReleaseLock(r, t)
      /\ req' = [req EXCEPT ![r] = Idle]
      /\ UNCHANGED <<dbVars, acq, now, started>>

-----------------------------------------------------------------------------
(* Failures and time.                                                      *)

\* The process dies, its context is cancelled, or a statement fails: the
\* database rolls back what was not committed and drops the lock.
Abandon(r) ==
  /\ "abandon" \in Faults
  /\ req[r].pc \notin Resting
  /\ IF req[r].pc = "locked" THEN ReleaseLock(r, req[r].txn) ELSE UNCHANGED txVars
  /\ req' = [req EXCEPT ![r] = Idle]
  /\ UNCHANGED <<dbVars, acq, alerted, now, started>>

Tick ==
  /\ now < MaxDay
  /\ now' = now + 1
  /\ UNCHANGED <<dbVars, txVars, req, acq, alerted, started>>

-----------------------------------------------------------------------------

Arrive(r) ==
  \E t \in Txns :
    \/ \E amount \in Amounts, auto \in BOOLEAN : Create(r, t, amount, auto)
    \/ \E asked \in Asked : CapturePreCheck(r, t, asked) \/ RefundPreCheck(r, t, asked)
    \/ VoidPreCheck(r, t)

\* The steps a request takes by itself once it is accepted.
Advance(r) ==
  \/ AutoCapture(r)
  \/ AcquirerApproves(r)
  \/ AcquirerDeclines(r)
  \/ AcquirerInvalidCard(r)
  \/ LockRow(r)
  \/ CommitAuthorize(r)
  \/ CommitFail(r)
  \/ CommitCapture(r)
  \/ CommitRefund(r)
  \/ CommitVoid(r)
  \/ CommitRefused(r)

RequestStep(r) == Arrive(r) \/ Advance(r) \/ AcquirerUnavailable(r) \/ Abandon(r)

PayNext == Tick \/ \E r \in Requests : RequestStep(r)

PaySpec == PayInit /\ [][PayNext]_payVars

-----------------------------------------------------------------------------
(* What must hold.                                                         *)

PayTypeOK ==
  /\ row \in [Txns -> Rows]
  /\ journal \in [Txns -> Seq(EntryGroup)]
  /\ outbox \in [Txns -> Seq(Payloads)]
  /\ lock \in [Txns -> SUBSET Procs]
  /\ fresh \in [Procs -> Rows]
  /\ req \in [Requests -> RequestStates]
  /\ acq \in [Txns -> AcquirerStates]
  /\ alerted \in [Txns -> [captured : Nat, refunded : Nat]]
  /\ now \in Nat
  /\ started \in Nat

\* The two records of a payment agree, always: the captured and refunded
\* amounts in the transactions table are the sums of the journal's capture and
\* refund entries, whatever requests race and wherever they are cut off.
BooksAgree ==
  \A t \in Txns :
    /\ row[t].captured = PostedCaptures(journal[t])
    /\ row[t].refunded = PostedRefunds(journal[t])

\* No interleaving of captures and refunds takes more than was authorized or
\* returns more than was taken, and the status says which of these happened:
\* a void or a failure never coexists with captured money, and refunded means
\* that everything captured went back.
MoneyBounded ==
  \A t \in Txns :
    LET x == row[t]
    IN  /\ x.refunded <= x.captured
        /\ x.captured <= x.amount
        /\ x.captured > 0 <=> x.status \in {"captured", "settled", "refunded"}
        /\ x.captured > 0 <=> x.capturedAt # Never
        /\ x.status = "refunded" <=> x.captured > 0 /\ x.refunded = x.captured

\* Whatever is in the journal passed EntryGroup.Validate: at least two legs,
\* positive amounts, debits equal to credits.  FindUnbalancedGroups is empty.
EveryGroupBalances ==
  \A t \in Txns : \A i \in DOMAIN journal[t] : Validate(journal[t][i])

\* The outbox is transactional: every committed change of a row queued exactly
\* one webhook in the same commit (the version counts commits), and the last
\* one queued reports the row as it now is.
OutboxReportsRow ==
  \A t \in Txns :
    /\ Len(outbox[t]) = row[t].version
    /\ outbox[t] # <<>> =>
         LET last == outbox[t][Len(outbox[t])]
         IN  last = EventPayload(last.event, row[t])

\* The books never claim money the acquirer did not move: every captured or
\* refunded unit, every hold and every void on a row happened there first.
NoPhantomMoney ==
  \A t \in Txns :
    /\ row[t].captured <= acq[t].captured
    /\ row[t].refunded <= acq[t].refunded
    /\ row[t].status \notin {Absent, "created", "failed"} => acq[t].holds > 0
    /\ row[t].status = "voided" => acq[t].voids > 0

\* The requests in some order: each is listed, and none twice.
RequestOrder ==
  CHOOSE s \in [1..Cardinality(Requests) -> Requests] :
    \A r \in Requests : \E i \in 1..Cardinality(Requests) : s[i] = r

\* What request q adds to the op of payment t: the acquirer has moved its amount
\* and the write-back is still to come.
Approved(q, t, op) ==
  IF q.txn = t /\ q.op = op /\ q.pc \in {"writeback", "locked"} THEN q.amount ELSE 0

\* Money the acquirer has moved for requests whose write-back is still to come.
InFlight(t, op) ==
  Sum([i \in 1..Cardinality(Requests) |-> Approved(req[RequestOrder[i]], t, op)])

\* When no call times out and no process dies, every unit the acquirer moved
\* and the books do not show is either about to be written or was logged as
\* needing manual reconciliation: losing the double-check is never silent.
DriftIsAlerted ==
  Faults = {} =>
    \A t \in Txns :
      /\ acq[t].captured = row[t].captured + alerted[t].captured + InFlight(t, "capture")
      /\ acq[t].refunded = row[t].refunded + alerted[t].refunded + InFlight(t, "refund")

\* A step appends at most one entry group to a payment's journal and never
\* touches the groups before it; the money columns never go down; and a status
\* changes only along allowedTransitions.
LegalStep ==
  \A t \in Txns :
    /\ Len(journal'[t]) <= Len(journal[t]) + 1
    /\ journal[t] = SubSeq(journal'[t], 1, Len(journal[t]))
    /\ row[t].captured <= row'[t].captured
    /\ row[t].refunded <= row'[t].refunded
    /\ \/ row'[t].status = row[t].status
       \/ row[t].status = Absent /\ row'[t].status = "created"
       \/ CanTransitionTo(row[t], row'[t].status)

HistoryIsKept == [][LegalStep]_payVars

\* Every accepted request is answered: nobody waits for a row lock forever.
RequestsFinish ==
  \A r \in Requests : req[r].pc \notin Resting ~> req[r].pc \in Resting

=============================================================================
