--------------------------- MODULE ContractProofs ---------------------------
(***************************************************************************)
(* What a step of the gateway does to a payment, and what follows: the     *)
(* history is kept, the gateway implements PaymentContract, a payout is    *)
(* covered by what the journal owes the merchant, and the books follow the *)
(* acquirer.                                                               *)
(*                                                                         *)
(* The first three rest on one lemma, StepShape: whatever step is taken,   *)
(* at most one payment changes, in one of five ways.                       *)
(*                                                                         *)
(* The last needs more.  What a row shows as captured or refunded was      *)
(* moved by the acquirer before, although the call is made with no lock    *)
(* held, several requests may have been approved for one payment at the    *)
(* same time, and a timeout leaves money that nobody will book.  A commit  *)
(* books an amount that was approved steps ago, so the argument counts the *)
(* approvals that are still to be booked: for each payment the amount on   *)
(* the row plus all amounts approved and not yet written is at most what   *)
(* the acquirer moved.  The sum runs over the requests in an arbitrary     *)
(* order, as a sum of a sequence, of which GatewayProofs knows what the    *)
(* provers can use.                                                        *)
(***************************************************************************)
EXTENDS GatewayProofs

-----------------------------------------------------------------------------
(* The five ways a payment changes.                                        *)

\* Row t becomes x and the groups are inserted into its journal.
Writes(t, x, groups) ==
  /\ row' = [row EXCEPT ![t] = x]
  /\ journal' = [journal EXCEPT ![t] = @ \o groups]

Inserted(t) ==
  /\ row[t].status = Absent
  /\ \E amount \in Amounts :
       row' = [row EXCEPT ![t] = NewTransaction(amount)] /\ UNCHANGED journal

\* Authorized, failed or voided: no money moves.
Relabelled(t, x) ==
  /\ x.amount = row[t].amount /\ x.captured = row[t].captured /\ x.refunded = row[t].refunded
  /\ \/ row[t].status = "created" /\ x.status \in {"authorized", "failed"}
     \/ row[t].status = "authorized" /\ x.status = "voided" /\ row[t].captured = 0
  /\ row' = [row EXCEPT ![t] = x] /\ UNCHANGED journal

CapturedBy(t, x, amount) ==
  /\ CanCapture(row[t], amount, now)
  /\ CaptureBookable(amount, Fee(amount, FeeBPS))
  /\ x.amount = row[t].amount /\ x.captured = row[t].captured + amount
  /\ x.refunded = row[t].refunded /\ x.status = "captured"
  /\ Writes(t, x, <<CaptureEntryGroup(amount, Fee(amount, FeeBPS))>>)

RefundedBy(t, x, amount) ==
  /\ CanRefund(row[t], amount)
  /\ x.amount = row[t].amount /\ x.captured = row[t].captured
  /\ x.refunded = row[t].refunded + amount
  /\ x.status = IF row[t].refunded + amount = row[t].captured THEN "refunded" ELSE row[t].status
  /\ Writes(t, x, <<RefundEntryGroup(amount)>>)

Settled(t, x) ==
  /\ row[t].status = "captured" /\ x.status = "settled"
  /\ x.amount = row[t].amount /\ x.captured = row[t].captured /\ x.refunded = row[t].refunded
  /\ Writes(t, x, IF NetPayable(row[t]) > 0
                  THEN <<SettlementEntryGroup(NetPayable(row[t]))>> ELSE <<>>)

Changed(t) ==
  \/ Inserted(t)
  \/ \E x \in Rows : Relabelled(t, x) \/ Settled(t, x)
  \/ \E x \in Rows, amount \in Nat : CapturedBy(t, x, amount) \/ RefundedBy(t, x, amount)

\* The row that COMMIT makes visible.
LEMMA CommittedRow ==
  ASSUME NEW y \in Rows
  PROVE  LET z == Committed(y)
         IN  /\ z \in Rows /\ z.status = y.status /\ z.amount = y.amount
             /\ z.captured = y.captured /\ z.refunded = y.refunded
  BY DEF Committed, Rows

\* A commit without entry groups leaves the journal as it is.
LEMMA NoGroups ==
  ASSUME IInv, NEW p, NEW t \in Txns, NEW y, NEW event, Persist(p, t, y, <<>>, event)
  PROVE  row' = [row EXCEPT ![t] = Committed(y)] /\ UNCHANGED journal
  <1>1. journal \in [Txns -> Seq(EntryGroup)]
    BY DEF IInv, TypeOK, PayTypeOK
  <1>2. journal[t] \o <<>> = journal[t]
    BY <1>1
  <1>3. journal' = [journal EXCEPT ![t] = journal[t]]
    BY <1>2 DEF Persist
  <1>4. QED BY <1>1, <1>3 DEF Persist, Committed

\* A committed authorization changes the status of one row.
LEMMA AuthorizeShape ==
  ASSUME IInv, NEW r \in Requests, CommitAuthorize(r)
  PROVE  \E t \in Txns : Changed(t)
  <1> DEFINE t == req[r].txn
             y == Authorize(fresh[r], now)
  <1>1. req[r].pc = "locked" /\ fresh[r].status = "created"
    BY DEF CommitAuthorize, Committing, DomainAccepts
  <1>2. t \in Txns /\ fresh[r] = row[t] /\ row[t] \in Rows /\ now \in Nat
    BY <1>1, LockedRequest DEF Consistent, IInv, TypeOK, PayTypeOK
  <1>3. /\ y \in Rows /\ y.status = "authorized" /\ y.amount = row[t].amount
        /\ y.captured = row[t].captured /\ y.refunded = row[t].refunded
    BY <1>2 DEF Authorize, Rows, Status
  <1>4. Persist(r, t, y, <<>>, "authorized")
    BY DEF CommitAuthorize
  <1> HIDE DEF y
  <1>5. row' = [row EXCEPT ![t] = Committed(y)] /\ UNCHANGED journal
    BY <1>2, <1>4, NoGroups
  <1>6. Relabelled(t, Committed(y)) /\ Committed(y) \in Rows
    BY <1>1, <1>2, <1>3, <1>5, CommittedRow DEF Relabelled
  <1>7. QED BY <1>2, <1>6 DEF Changed

\* A declined payment is marked failed; a row no longer created is left alone.
LEMMA FailShape ==
  ASSUME IInv, NEW r \in Requests, CommitFail(r)
  PROVE  UNCHANGED <<row, journal>> \/ \E t \in Txns : Changed(t)
  <1> DEFINE t == req[r].txn
             y == Fail(fresh[r])
  <1>1. CASE fresh[r].status = "created"
    <2>1. req[r].pc = "locked"
      BY DEF CommitFail, Committing
    <2>2. t \in Txns /\ fresh[r] = row[t] /\ row[t] \in Rows
      BY <2>1, LockedRequest DEF Consistent
    <2>3. /\ y \in Rows /\ y.status = "failed" /\ y.amount = row[t].amount
          /\ y.captured = row[t].captured /\ y.refunded = row[t].refunded
      BY <2>2 DEF Fail, Rows, Status
    <2>4. Persist(r, t, y, <<>>, "failed")
      BY <1>1 DEF CommitFail
    <2> HIDE DEF y
    <2>5. row' = [row EXCEPT ![t] = Committed(y)] /\ UNCHANGED journal
      BY <2>2, <2>4, NoGroups
    <2>6. Relabelled(t, Committed(y)) /\ Committed(y) \in Rows
      BY <1>1, <2>2, <2>3, <2>5, CommittedRow DEF Relabelled
    <2>7. QED BY <2>2, <2>6 DEF Changed
  <1>2. CASE fresh[r].status # "created"
    BY <1>2 DEF CommitFail, dbVars
  <1>3. QED BY <1>1, <1>2

\* A committed void changes the status of one row.
LEMMA VoidShape ==
  ASSUME IInv, NEW r \in Requests, CommitVoid(r)
  PROVE  \E t \in Txns : Changed(t)
  <1> DEFINE t == req[r].txn
             y == Void(fresh[r])
  <1>1. req[r].pc = "locked" /\ CanVoid(fresh[r])
    BY DEF CommitVoid, Committing, DomainAccepts
  <1>2. t \in Txns /\ fresh[r] = row[t] /\ row[t] \in Rows
    BY <1>1, LockedRequest DEF Consistent
  <1>3. row[t].status = "authorized" /\ row[t].captured = 0
    BY <1>1, <1>2 DEF CanVoid, CanTransitionTo, allowedTransitions, Status
  <1>4. /\ y \in Rows /\ y.status = "voided" /\ y.amount = row[t].amount
        /\ y.captured = row[t].captured /\ y.refunded = row[t].refunded
    BY <1>2 DEF Void, Rows, Status
  <1>5. Persist(r, t, y, <<>>, "voided")
    BY DEF CommitVoid
  <1> HIDE DEF y
  <1>6. row' = [row EXCEPT ![t] = Committed(y)] /\ UNCHANGED journal
    BY <1>2, <1>5, NoGroups
  <1>7. Relabelled(t, Committed(y)) /\ Committed(y) \in Rows
    BY <1>2, <1>3, <1>4, <1>6, CommittedRow DEF Relabelled
  <1>8. QED BY <1>2, <1>7 DEF Changed

\* A committed capture moves one row and its journal together.
LEMMA CaptureShape ==
  ASSUME IInv, NEW r \in Requests, CommitCapture(r)
  PROVE  \E t \in Txns : Changed(t)
  <1> DEFINE t == req[r].txn
             amount == req[r].amount
             y == Capture(fresh[r], amount, now)
             g == CaptureEntryGroup(amount, Fee(amount, FeeBPS))
  <1>1. /\ req[r].pc = "locked" /\ CanCapture(fresh[r], amount, now)
        /\ CaptureBookable(amount, Fee(amount, FeeBPS))
    BY DEF CommitCapture, Committing, DomainAccepts, Writable
  <1>2. t \in Txns /\ fresh[r] = row[t] /\ row[t] \in Rows /\ now \in Nat /\ amount \in Nat
    BY <1>1, LockedRequest DEF Consistent, IInv, TypeOK, PayTypeOK
  <1>3. /\ y \in Rows /\ y.status = "captured" /\ y.amount = row[t].amount
        /\ y.captured = row[t].captured + amount /\ y.refunded = row[t].refunded
    <2> DEFINE x == row[t]
               at == IF x.capturedAt = Never THEN now ELSE x.capturedAt
               total == x.captured + amount
    <2>1. at \in Nat \cup {Never} /\ total \in Nat /\ "captured" \in Status
      BY <1>2 DEF Rows, Status
    <2>2. y = [x EXCEPT !.status = "captured", !.captured = total, !.capturedAt = at]
      BY <1>2 DEF Capture
    <2>3. x \in Rows
      BY <1>2
    <2> HIDE DEF at, total, y, x
    <2>4. /\ y \in Rows /\ y.status = "captured" /\ y.amount = x.amount
          /\ y.captured = total /\ y.refunded = x.refunded
      BY <2>1, <2>2, <2>3 DEF Rows
    <2>5. QED BY <2>4 DEF total, x
  <1>4. Persist(r, t, y, <<g>>, "captured")
    BY DEF CommitCapture
  <1> HIDE DEF y
  <1>5. Writes(t, Committed(y), <<g>>)
    BY <1>4 DEF Persist, Writes, Committed
  <1>6. CapturedBy(t, Committed(y), amount) /\ Committed(y) \in Rows
    BY <1>1, <1>2, <1>3, <1>5, CommittedRow DEF CapturedBy
  <1>7. QED BY <1>2, <1>6 DEF Changed

\* A committed refund moves one row and its journal together.
LEMMA RefundShape ==
  ASSUME IInv, NEW r \in Requests, CommitRefund(r)
  PROVE  \E t \in Txns : Changed(t)
  <1> DEFINE t == req[r].txn
             amount == req[r].amount
             y == Refund(fresh[r], amount)
             g == RefundEntryGroup(amount)
  <1>1. req[r].pc = "locked" /\ CanRefund(fresh[r], amount)
    BY DEF CommitRefund, Committing, DomainAccepts
  <1>2. t \in Txns /\ fresh[r] = row[t] /\ row[t] \in Rows /\ amount \in Nat
    BY <1>1, LockedRequest DEF Consistent
  <1>3. /\ y \in Rows /\ y.amount = row[t].amount /\ y.captured = row[t].captured
        /\ y.refunded = row[t].refunded + amount
        /\ y.status = IF row[t].refunded + amount = row[t].captured
                      THEN "refunded" ELSE row[t].status
    <2> DEFINE x == row[t]
               to == IF x.refunded + amount = x.captured THEN "refunded" ELSE x.status
               total == x.refunded + amount
    <2>1. x \in Rows /\ total \in Nat /\ to \in Status \cup {Absent}
      BY <1>2 DEF Rows, Status
    <2>2. y = [x EXCEPT !.refunded = total, !.status = to]
      BY <1>2 DEF Refund
    <2> HIDE DEF to, total, y, x
    <2>3. /\ y \in Rows /\ y.amount = x.amount /\ y.captured = x.captured
          /\ y.refunded = total /\ y.status = to
      BY <2>1, <2>2 DEF Rows
    <2>4. QED BY <2>3 DEF total, to, x
  <1>4. Persist(r, t, y, <<g>>, "refunded")
    BY DEF CommitRefund
  <1> HIDE DEF y
  <1>5. Writes(t, Committed(y), <<g>>)
    BY <1>4 DEF Persist, Writes, Committed
  <1>6. RefundedBy(t, Committed(y), amount) /\ Committed(y) \in Rows
    BY <1>1, <1>2, <1>3, <1>5, CommittedRow DEF RefundedBy
  <1>7. QED BY <1>2, <1>6 DEF Changed

\* A settled payment is paid in the same commit; one that changed is skipped.
LEMMA SettleShape ==
  ASSUME IInv, NEW j \in Jobs, SettleCommit(j)
  PROVE  UNCHANGED <<row, journal>> \/ \E t \in Txns : Changed(t)
  <1> DEFINE t == job[j].txn
             y == Settle(fresh[j])
             net == NetPayable(fresh[j])
             groups == IF net > 0 THEN <<SettlementEntryGroup(net)>> ELSE <<>>
  <1>1. CASE fresh[j].status = "captured"
    <2>1. job[j].pc = "locked"
      BY DEF SettleCommit
    <2>2. t \in Txns /\ fresh[j] = row[t] /\ row[t] \in Rows
      BY <2>1, LockedJob DEF Consistent
    <2>3. /\ y \in Rows /\ y.status = "settled" /\ y.amount = row[t].amount
          /\ y.captured = row[t].captured /\ y.refunded = row[t].refunded
      BY <2>2 DEF Settle, Rows, Status
    <2>4. Persist(j, t, y, groups, "settled")
      BY <1>1 DEF SettleCommit
    <2>5. groups = IF NetPayable(row[t]) > 0
                   THEN <<SettlementEntryGroup(NetPayable(row[t]))>> ELSE <<>>
      BY <2>2
    <2> HIDE DEF y, groups
    <2>6. Writes(t, Committed(y), groups)
      BY <2>4 DEF Persist, Writes, Committed
    <2>7. Settled(t, Committed(y)) /\ Committed(y) \in Rows
      BY <1>1, <2>2, <2>3, <2>5, <2>6, CommittedRow DEF Settled
    <2>8. QED BY <2>2, <2>7 DEF Changed
  <1>2. CASE fresh[j].status # "captured"
    BY <1>2 DEF SettleCommit, dbVars
  <1>3. QED BY <1>1, <1>2

\* Whatever step is taken, at most one payment's row or journal changes, in one
\* of the five ways.
LEMMA StepShape ==
  ASSUME IInv, [Next]_vars
  PROVE  UNCHANGED <<row, journal>> \/ \E t \in Txns : Changed(t)
  <1> DEFINE Goal == UNCHANGED <<row, journal>> \/ \E t \in Txns : Changed(t)
  <1>1. ASSUME UNCHANGED vars \/ Tick PROVE Goal
    BY <1>1 DEF vars, payVars, Tick, dbVars
  <1>2. ASSUME NEW r \in Requests, RequestStep(r) PROVE Goal
    <2>1. ASSUME NEW t \in Txns, NEW amount \in Amounts, NEW auto \in BOOLEAN,
                 Create(r, t, amount, auto)
          PROVE  Goal
      BY <2>1 DEF Create, Changed, Inserted
    <2>2. ASSUME NEW t \in Txns, NEW asked \in Asked,
                 CapturePreCheck(r, t, asked) \/ RefundPreCheck(r, t, asked)
          PROVE  Goal
      BY <2>2 DEF CapturePreCheck, RefundPreCheck, dbVars
    <2>3. ASSUME NEW t \in Txns, VoidPreCheck(r, t) PROVE Goal
      BY <2>3 DEF VoidPreCheck, dbVars
    <2>4. CASE \/ AutoCapture(r) \/ AcquirerApproves(r) \/ AcquirerDeclines(r)
               \/ AcquirerInvalidCard(r) \/ LockRow(r) \/ CommitRefused(r)
               \/ AcquirerUnavailable(r) \/ Abandon(r)
      BY <2>4 DEF AutoCapture, AcquirerApproves, AcquirerDeclines, AcquirerInvalidCard, LockRow,
                  CommitRefused, AcquirerUnavailable, Abandon, dbVars
    <2>5. CASE \/ CommitAuthorize(r) \/ CommitFail(r) \/ CommitCapture(r) \/ CommitRefund(r)
               \/ CommitVoid(r)
      BY <2>5, AuthorizeShape, FailShape, CaptureShape, RefundShape, VoidShape
    <2>6. QED BY <1>2, <2>1, <2>2, <2>3, <2>4, <2>5 DEF RequestStep, Arrive, Advance
  <1>3. ASSUME NEW j \in Jobs, NEW d \in 0..now, Scan(j, d) PROVE Goal
    BY <1>3 DEF Scan, payVars
  <1>4. ASSUME NEW j \in Jobs, JobAdvance(j) \/ JobDies(j) PROVE Goal
    <2>1. CASE Compare(j) \/ Decide(j) \/ Finish(j) \/ JobDies(j)
      BY <2>1 DEF Compare, Decide, Finish, JobDies, payVars, dbVars
    <2>2. ASSUME NEW t \in Txns, SettleLock(j, t) PROVE Goal
      BY <2>2 DEF SettleLock, dbVars
    <2>3. CASE SettleCommit(j)
      BY <2>3, SettleShape
    <2>4. QED BY <1>4, <2>1, <2>2, <2>3 DEF JobAdvance
  <1>5. QED BY <1>1, <1>2, <1>3, <1>4 DEF Next, PayNext

-----------------------------------------------------------------------------
(* The history is kept.                                                    *)

\* A prefix of a longer journal is the journal it was.
LEMMA Prefix ==
  ASSUME NEW s \in Seq(EntryGroup), NEW g \in EntryGroup
  PROVE  /\ SubSeq(s, 1, Len(s)) = s
         /\ SubSeq(s \o <<g>>, 1, Len(s)) = s
         /\ Len(s \o <<g>>) = Len(s) + 1
         /\ Len(s) <= Len(s) + 1
  OBVIOUS

\* What LegalStep asks of one payment.
KeptOf(t) ==
  /\ Len(journal'[t]) <= Len(journal[t]) + 1
  /\ journal[t] = SubSeq(journal'[t], 1, Len(journal[t]))
  /\ row[t].captured <= row'[t].captured
  /\ row[t].refunded <= row'[t].refunded
  /\ \/ row'[t].status = row[t].status
     \/ row[t].status = Absent /\ row'[t].status = "created"
     \/ CanTransitionTo(row[t], row'[t].status)

\* A payment the step does not write keeps its history.
LEMMA UntouchedIsKept ==
  ASSUME IInv, NEW t \in Txns, row'[t] = row[t], journal'[t] = journal[t]
  PROVE  KeptOf(t)
  <1>1. row[t] \in Rows /\ journal[t] \in Seq(EntryGroup)
    BY DEF IInv, TypeOK, PayTypeOK
  <1>2. Len(journal[t]) \in Nat /\ SubSeq(journal[t], 1, Len(journal[t])) = journal[t]
    BY <1>1
  <1>3. QED BY <1>1, <1>2 DEF KeptOf, Rows

\* The payment that a step changes keeps its history too.
LEMMA ChangedIsKept ==
  ASSUME IInv, NEW t \in Txns, Changed(t)
  PROVE  KeptOf(t) /\ \A q \in Txns : q # t => row'[q] = row[q] /\ journal'[q] = journal[q]
  <1>1. /\ row \in [Txns -> Rows] /\ journal \in [Txns -> Seq(EntryGroup)]
        /\ row[t] \in Rows /\ journal[t] \in Seq(EntryGroup)
    BY DEF IInv, TypeOK, PayTypeOK
  <1>2. /\ row[t].captured \in Nat /\ row[t].refunded \in Nat
        /\ row[t].status = Absent => row[t].captured = 0 /\ row[t].refunded = 0
    BY <1>1 DEF Rows, IInv, AllConsistent, Consistent, NoRow
  <1>3. CASE Inserted(t)
    <2>1. PICK amount \in Amounts : row' = [row EXCEPT ![t] = NewTransaction(amount)]
      BY <1>3 DEF Inserted
    <2>2. row'[t] = NewTransaction(amount) /\ \A q \in Txns : q # t => row'[q] = row[q]
      BY <1>1, <2>1
    <2>3. row'[t].captured = 0 /\ row'[t].refunded = 0 /\ row'[t].status = "created"
      BY <2>2 DEF NewTransaction
    <2>4. SubSeq(journal[t], 1, Len(journal[t])) = journal[t] /\ Len(journal[t]) \in Nat
      BY <1>1
    <2>5. QED BY <1>2, <1>3, <2>2, <2>3, <2>4 DEF Inserted, KeptOf
  <1>4. ASSUME NEW x \in Rows, Relabelled(t, x)
        PROVE  KeptOf(t) /\ \A q \in Txns : q # t => row'[q] = row[q] /\ journal'[q] = journal[q]
    <2>1. row'[t] = x /\ journal' = journal /\ \A q \in Txns : q # t => row'[q] = row[q]
      BY <1>1, <1>4 DEF Relabelled
    <2>2. CanTransitionTo(row[t], x.status)
      BY <1>4 DEF Relabelled, CanTransitionTo, allowedTransitions, Status
    <2>3. SubSeq(journal[t], 1, Len(journal[t])) = journal[t] /\ Len(journal[t]) \in Nat
      BY <1>1
    <2>4. QED BY <1>2, <1>4, <2>1, <2>2, <2>3 DEF Relabelled, KeptOf
  <1>5. ASSUME NEW x \in Rows, NEW g \in EntryGroup, Writes(t, x, <<g>>),
               row[t].captured <= x.captured, row[t].refunded <= x.refunded,
               x.status = row[t].status \/ CanTransitionTo(row[t], x.status)
        PROVE  KeptOf(t) /\ \A q \in Txns : q # t => row'[q] = row[q] /\ journal'[q] = journal[q]
    <2>1. /\ row'[t] = x /\ journal'[t] = journal[t] \o <<g>>
          /\ \A q \in Txns : q # t => row'[q] = row[q] /\ journal'[q] = journal[q]
      BY <1>1, <1>5 DEF Writes
    <2>2. /\ Len(journal'[t]) = Len(journal[t]) + 1 /\ Len(journal[t]) \in Nat
          /\ SubSeq(journal'[t], 1, Len(journal[t])) = journal[t]
      BY <1>1, <2>1, Prefix
    <2>3. QED BY <1>5, <2>1, <2>2 DEF KeptOf
  <1>6. ASSUME NEW x \in Rows, NEW amount \in Nat, CapturedBy(t, x, amount)
        PROVE  KeptOf(t) /\ \A q \in Txns : q # t => row'[q] = row[q] /\ journal'[q] = journal[q]
    <2>1. CaptureEntryGroup(amount, Fee(amount, FeeBPS)) \in EntryGroup
      BY FeeType, CaptureGroup
    <2>2. x.status = row[t].status \/ CanTransitionTo(row[t], x.status)
      BY <1>6 DEF CapturedBy, CanCapture, CanTransitionTo, allowedTransitions, Status
    <2>3. row[t].captured <= x.captured /\ row[t].refunded <= x.refunded
      BY <1>2, <1>6 DEF CapturedBy
    <2>4. Writes(t, x, <<CaptureEntryGroup(amount, Fee(amount, FeeBPS))>>)
      BY <1>6 DEF CapturedBy
    <2>5. QED BY <1>5, <2>1, <2>2, <2>3, <2>4
  <1>7. ASSUME NEW x \in Rows, NEW amount \in Nat, RefundedBy(t, x, amount)
        PROVE  KeptOf(t) /\ \A q \in Txns : q # t => row'[q] = row[q] /\ journal'[q] = journal[q]
    <2>1. RefundEntryGroup(amount) \in EntryGroup
      BY RefundGroup
    <2>2. x.status = row[t].status \/ CanTransitionTo(row[t], x.status)
      BY <1>7 DEF RefundedBy, CanRefund, CanTransitionTo, allowedTransitions, Status
    <2>3. row[t].captured <= x.captured /\ row[t].refunded <= x.refunded
      BY <1>2, <1>7 DEF RefundedBy
    <2>4. Writes(t, x, <<RefundEntryGroup(amount)>>)
      BY <1>7 DEF RefundedBy
    <2>5. QED BY <1>5, <2>1, <2>2, <2>3, <2>4
  <1>8. ASSUME NEW x \in Rows, Settled(t, x)
        PROVE  KeptOf(t) /\ \A q \in Txns : q # t => row'[q] = row[q] /\ journal'[q] = journal[q]
    <2>1. CanTransitionTo(row[t], x.status)
      BY <1>8 DEF Settled, CanTransitionTo, allowedTransitions, Status
    <2>2. row[t].captured <= x.captured /\ row[t].refunded <= x.refunded
      BY <1>2, <1>8 DEF Settled
    <2>3. CASE NetPayable(row[t]) > 0
      <3>1. NetPayable(row[t]) \in Int
        BY <1>2, FeeType DEF NetPayable
      <3>2. SettlementEntryGroup(NetPayable(row[t])) \in EntryGroup
        BY <3>1, SettlementGroup
      <3>3. Writes(t, x, <<SettlementEntryGroup(NetPayable(row[t]))>>)
        BY <1>8, <2>3 DEF Settled
      <3>4. QED BY <1>5, <2>1, <2>2, <3>2, <3>3
    <2>4. CASE ~(NetPayable(row[t]) > 0)
      <3>1. Writes(t, x, <<>>)
        BY <1>8, <2>4 DEF Settled
      <3>2. /\ row'[t] = x /\ journal'[t] = journal[t] \o <<>>
            /\ \A q \in Txns : q # t => row'[q] = row[q] /\ journal'[q] = journal[q]
        BY <1>1, <3>1 DEF Writes
      <3>3. /\ journal[t] \o <<>> = journal[t] /\ Len(journal[t]) \in Nat
            /\ SubSeq(journal[t], 1, Len(journal[t])) = journal[t]
        BY <1>1
      <3>4. QED BY <2>1, <2>2, <3>2, <3>3 DEF KeptOf
    <2>5. QED BY <2>3, <2>4
  <1>9. QED BY <1>3, <1>4, <1>6, <1>7, <1>8 DEF Changed

\* No step rewrites a journal, lowers a money column or moves a status against
\* allowedTransitions, whatever requests race and wherever they are cut off.
THEOREM HistoryAlwaysKept == Spec => HistoryIsKept
  <1>1. IInv /\ [Next]_vars => [LegalStep]_payVars
    <2> SUFFICES ASSUME IInv, [Next]_vars PROVE LegalStep
      OBVIOUS
    <2>1. \A t \in Txns : KeptOf(t)
      <3>1. CASE UNCHANGED <<row, journal>>
        BY <3>1, UntouchedIsKept
      <3>2. ASSUME NEW t \in Txns, Changed(t) PROVE \A q \in Txns : KeptOf(q)
        BY <3>2, ChangedIsKept, UntouchedIsKept
      <3>3. QED BY <3>1, <3>2, StepShape
    <2>2. QED BY <2>1 DEF LegalStep, KeptOf
  <1>2. QED BY <1>1, Invariance, PTL DEF Spec, HistoryIsKept

-----------------------------------------------------------------------------
(* The fee.                                                                *)

\* The product amount x basis points of every order fits an int64.  Nothing in
\* the code checks it: it holds of orders below 2^63 / 10000 minor units, some
\* 9 * 10^14, and what follows is proved under this hypothesis.
FeesFit == \A a \in Amounts : a * FeeBPS < IntLimit

\* With c <= a the product for c fits too.
LEMMA ProductFits ==
  ASSUME FeesFit, NEW a \in Amounts, NEW c \in 0..a
  PROVE  0 <= c * FeeBPS /\ c * FeeBPS < IntLimit /\ c * FeeBPS <= c * 10000
  <1>1. a \in Nat /\ c \in Nat /\ FeeBPS \in Nat /\ FeeBPS <= 10000
    BY PaymentsAssumption, FeeAssumption
  <1>2. \A b \in Nat, d \in Nat : 0 <= d * b
    OBVIOUS
  <1>3. c * FeeBPS + (a - c) * FeeBPS = a * FeeBPS
    BY <1>1
  <1>4. 0 <= (a - c) * FeeBPS /\ 0 <= c * FeeBPS /\ 0 <= c * (10000 - FeeBPS)
    BY <1>1, <1>2
  <1>5. c * FeeBPS + c * (10000 - FeeBPS) = c * 10000
    BY <1>1
  <1>6. a * FeeBPS < IntLimit
    BY DEF FeesFit
  <1>7. c * FeeBPS \in Int /\ (a - c) * FeeBPS \in Int /\ c * (10000 - FeeBPS) \in Int
        /\ IntLimit \in Int
    BY <1>1, IntLimitAssumption
  <1>8. QED BY <1>3, <1>4, <1>5, <1>6, <1>7

\* Without overflow the fee is the product divided by 10000, rounded down, and
\* lies between nothing and the amount.
LEMMA FeeExact ==
  ASSUME FeesFit, NEW a \in Amounts, NEW c \in 0..a
  PROVE  /\ Fee(c, FeeBPS) = (c * FeeBPS) \div 10000
         /\ Fee(c, FeeBPS) \in Nat
         /\ Fee(c, FeeBPS) <= c
  <1> DEFINE x == c * FeeBPS
  <1>1. c \in Nat /\ FeeBPS \in Nat /\ x \in Int
    BY PaymentsAssumption, FeeAssumption
  <1>2. 0 <= x /\ x < IntLimit /\ x <= c * 10000
    BY ProductFits
  <1>3. CASE c <= 0 \/ FeeBPS <= 0
    <2>1. x = 0
      BY <1>1, <1>3
    <2>2. Fee(c, FeeBPS) = 0
      BY <1>3 DEF Fee
    <2>3. 0 \div 10000 = 0
      OBVIOUS
    <2>4. QED BY <1>1, <2>1, <2>2, <2>3
  <1>4. CASE ~(c <= 0 \/ FeeBPS <= 0)
    <2>1. Fee(c, FeeBPS) = Quo(Wrap(x), 10000)
      BY <1>4 DEF Fee
    <2> HIDE DEF x
    <2>2. Wrap(x) = x
      BY <1>1, <1>2, IntLimitAssumption DEF Wrap
    <2>3. Quo(x, 10000) = x \div 10000
      BY <1>1, <1>2 DEF Quo
    <2>4. x \div 10000 \in Nat /\ x \div 10000 <= c
      BY <1>1, <1>2
    <2>5. QED BY <2>1, <2>2, <2>3, <2>4 DEF x
  <1>5. QED BY <1>3, <1>4

\* The fee on a sum is at least the sum of the fees.
LEMMA FeeOfSum ==
  ASSUME FeesFit, NEW a \in Amounts, NEW c \in Nat, NEW d \in Nat, c + d <= a
  PROVE  Fee(c, FeeBPS) + Fee(d, FeeBPS) <= Fee(c + d, FeeBPS)
  <1>1. a \in Nat /\ c \in 0..a /\ d \in 0..a /\ c + d \in 0..a /\ FeeBPS \in Nat
    BY PaymentsAssumption, FeeAssumption
  <1>2. /\ Fee(c, FeeBPS) = (c * FeeBPS) \div 10000
        /\ Fee(d, FeeBPS) = (d * FeeBPS) \div 10000
        /\ Fee(c + d, FeeBPS) = ((c + d) * FeeBPS) \div 10000
    BY <1>1, FeeExact
  <1>3. (c + d) * FeeBPS = c * FeeBPS + d * FeeBPS
    BY <1>1
  <1>4. c * FeeBPS \in Int /\ d * FeeBPS \in Int
    BY <1>1
  <1>5. \A x, y \in Int : (x \div 10000) + (y \div 10000) <= (x + y) \div 10000
    OBVIOUS
  <1>6. QED BY <1>2, <1>3, <1>4, <1>5

-----------------------------------------------------------------------------
(* The gateway implements the contract.                                    *)

\* What each kind of group adds to the three sums the contract reads.
LEMMA SumsAppend ==
  ASSUME NEW s \in Seq(EntryGroup), NEW g \in EntryGroup
  PROVE  /\ PostedCaptures(s \o <<g>>) = PostedCaptures(s) + Leg(g, "capture", Receivable, "debit")
         /\ PostedRefunds(s \o <<g>>) = PostedRefunds(s) + Leg(g, "refund", Receivable, "credit")
         /\ PostedPayouts(s \o <<g>>) = PostedPayouts(s) + Leg(g, "settlement", Cash, "credit")
         /\ PostedCaptures(s) \in Int /\ PostedRefunds(s) \in Int /\ PostedPayouts(s) \in Int
  <1>1. Receivable \in Accounts /\ Cash \in Accounts
    BY DEF Accounts
  <1>2. /\ PostedCaptures(s \o <<g>>) = PostedCaptures(s) + Leg(g, "capture", Receivable, "debit")
        /\ PostedCaptures(s) \in Int
    BY <1>1, PostedAppend DEF PostedCaptures
  <1>3. /\ PostedRefunds(s \o <<g>>) = PostedRefunds(s) + Leg(g, "refund", Receivable, "credit")
        /\ PostedRefunds(s) \in Int
    BY <1>1, PostedAppend DEF PostedRefunds
  <1>4. /\ PostedPayouts(s \o <<g>>) = PostedPayouts(s) + Leg(g, "settlement", Cash, "credit")
        /\ PostedPayouts(s) \in Int
    BY <1>1, PostedAppend DEF PostedPayouts
  <1>5. QED BY <1>2, <1>3, <1>4

\* A payment is consistent, and so its sums are what its row says.
LEMMA SumsOfRow ==
  ASSUME IInv, NEW t \in Txns
  PROVE  /\ row[t] \in Rows /\ journal[t] \in Seq(EntryGroup)
         /\ PostedCaptures(journal[t]) = row[t].captured
         /\ PostedRefunds(journal[t]) = row[t].refunded
         /\ row[t].amount \in Nat /\ row[t].captured \in Nat /\ row[t].refunded \in Nat
         /\ row[t].refunded <= row[t].captured /\ row[t].captured <= row[t].amount
         /\ row[t].status # Absent => row[t].amount \in Amounts
  BY DEF IInv, AllConsistent, Consistent, BooksOK, MoneyOK, Rows

\* A step that changes payment t only changes the contract's variables at t only.
LEMMA ContractStep ==
  ASSUME NEW t \in Txns,
         \A q \in Txns : q # t => row'[q] = row[q] /\ journal'[q] = journal[q]
  PROVE  /\ [q \in Txns |-> row[q].status]'
              = [[q \in Txns |-> row[q].status] EXCEPT ![t] = row'[t].status]
         /\ [q \in Txns |-> row[q].amount]'
              = [[q \in Txns |-> row[q].amount] EXCEPT ![t] = row'[t].amount]
         /\ [q \in Txns |-> PostedCaptures(journal[q])]'
              = [[q \in Txns |-> PostedCaptures(journal[q])]
                   EXCEPT ![t] = PostedCaptures(journal'[t])]
         /\ [q \in Txns |-> PostedRefunds(journal[q])]'
              = [[q \in Txns |-> PostedRefunds(journal[q])]
                   EXCEPT ![t] = PostedRefunds(journal'[t])]
         /\ [q \in Txns |-> PostedPayouts(journal[q])]'
              = [[q \in Txns |-> PostedPayouts(journal[q])]
                   EXCEPT ![t] = PostedPayouts(journal'[t])]
  OBVIOUS

\* What it does not change there, it does not change.
LEMMA ContractStutter ==
  ASSUME NEW t \in Txns,
         \A q \in Txns : q # t => row'[q] = row[q] /\ journal'[q] = journal[q]
  PROVE  /\ row'[t].amount = row[t].amount => UNCHANGED [q \in Txns |-> row[q].amount]
         /\ PostedCaptures(journal'[t]) = PostedCaptures(journal[t])
              => UNCHANGED [q \in Txns |-> PostedCaptures(journal[q])]
         /\ PostedRefunds(journal'[t]) = PostedRefunds(journal[t])
              => UNCHANGED [q \in Txns |-> PostedRefunds(journal[q])]
         /\ PostedPayouts(journal'[t]) = PostedPayouts(journal[t])
              => UNCHANGED [q \in Txns |-> PostedPayouts(journal[q])]
  OBVIOUS

\* An inserted row is the contract's opening of a payment.
LEMMA InsertedIsOpen ==
  ASSUME IInv, NEW t \in Txns, Inserted(t)
  PROVE  Contract!Next
  <1>1. PICK amount \in Amounts : row' = [row EXCEPT ![t] = NewTransaction(amount)]
    BY DEF Inserted
  <1>2. row \in [Txns -> Rows] /\ journal' = journal /\ row[t].status = "absent"
    BY DEF Inserted, IInv, TypeOK, PayTypeOK, Absent
  <1>3. row'[t].status = "created" /\ row'[t].amount = amount
    BY <1>1, <1>2 DEF NewTransaction
  <1>4. \A q \in Txns : q # t => row'[q] = row[q] /\ journal'[q] = journal[q]
    BY <1>1, <1>2
  <1>5. Contract!Open(t, amount)
    BY <1>2, <1>3, <1>4, ContractStep, ContractStutter DEF Contract!Open, Contract!Move
  <1>6. QED BY <1>5 DEF Contract!Next

\* A change of status alone is one of the contract's moves.
LEMMA RelabelledIsMove ==
  ASSUME IInv, NEW t \in Txns, NEW x \in Rows, Relabelled(t, x)
  PROVE  Contract!Next
  <1>1. row \in [Txns -> Rows] /\ journal' = journal /\ row'[t] = x
    BY DEF Relabelled, IInv, TypeOK, PayTypeOK
  <1>2. \A q \in Txns : q # t => row'[q] = row[q] /\ journal'[q] = journal[q]
    BY <1>1 DEF Relabelled
  <1>3. row'[t].amount = row[t].amount
    BY <1>1 DEF Relabelled
  <1>4. CASE row[t].status = "created" /\ x.status = "authorized"
    <2>1. Contract!Authorise(t)
      BY <1>1, <1>2, <1>3, <1>4, ContractStep, ContractStutter DEF Contract!Authorise, Contract!Move
    <2>2. QED BY <2>1 DEF Contract!Next
  <1>5. CASE row[t].status = "created" /\ x.status = "failed"
    <2>1. Contract!Decline(t)
      BY <1>1, <1>2, <1>3, <1>5, ContractStep, ContractStutter DEF Contract!Decline, Contract!Move
    <2>2. QED BY <2>1 DEF Contract!Next
  <1>6. CASE row[t].status = "authorized" /\ x.status = "voided" /\ row[t].captured = 0
    <2>1. PostedCaptures(journal[t]) = 0
      BY <1>6, SumsOfRow
    <2>2. Contract!Cancel(t)
      BY <1>1, <1>2, <1>3, <1>6, <2>1, ContractStep, ContractStutter DEF Contract!Cancel, Contract!Move
    <2>3. QED BY <2>2 DEF Contract!Next
  <1>7. QED BY <1>4, <1>5, <1>6 DEF Relabelled

\* A capture is the contract's taking of money.
LEMMA CapturedIsTake ==
  ASSUME IInv, NEW t \in Txns, NEW x \in Rows, NEW amount \in Nat, CapturedBy(t, x, amount)
  PROVE  Contract!Next
  <1> DEFINE g == CaptureEntryGroup(amount, Fee(amount, FeeBPS))
             s == journal[t]
  <1>1. row \in [Txns -> Rows] /\ journal \in [Txns -> Seq(EntryGroup)]
    BY DEF IInv, TypeOK, PayTypeOK
  <1>2. Writes(t, x, <<g>>)
    BY DEF CapturedBy
  <1>3. /\ g \in EntryGroup /\ Leg(g, "capture", Receivable, "debit") = amount
        /\ Leg(g, "refund", Receivable, "credit") = 0 /\ Leg(g, "settlement", Cash, "credit") = 0
    BY FeeType, CaptureGroup
  <1> HIDE DEF g
  <1>4. /\ row'[t] = x /\ journal'[t] = s \o <<g>>
        /\ \A q \in Txns : q # t => row'[q] = row[q] /\ journal'[q] = journal[q]
    BY <1>1, <1>2 DEF Writes
  <1>5. /\ PostedCaptures(journal'[t]) = PostedCaptures(s) + amount
        /\ PostedRefunds(journal'[t]) = PostedRefunds(s)
        /\ PostedPayouts(journal'[t]) = PostedPayouts(s)
    <2>1. s \in Seq(EntryGroup)
      BY <1>1
    <2> HIDE DEF s
    <2>2. QED BY <1>3, <1>4, <2>1, SumsAppend
  <1>6. /\ x.status = "captured" /\ x.amount = row[t].amount
        /\ row[t].status \in {"authorized", "captured"}
        /\ amount > 0 /\ amount <= row[t].amount - row[t].captured
    BY DEF CapturedBy, CanCapture, RemainingCapturable
  <1>7. /\ PostedCaptures(s) = row[t].captured /\ row[t].captured \in Nat
        /\ row[t].amount \in Nat
    BY SumsOfRow
  <1>8. PostedCaptures(s) + amount <= row[t].amount /\ amount \in 1..row[t].amount
    BY <1>6, <1>7
  <1>9. Contract!Take(t, amount)
    BY <1>4, <1>5, <1>6, <1>8, ContractStep, ContractStutter DEF Contract!Take, Contract!Move
  <1>10. QED BY <1>8, <1>9 DEF Contract!Next

\* A refund is the contract's returning of money.
LEMMA RefundedIsReturn ==
  ASSUME IInv, NEW t \in Txns, NEW x \in Rows, NEW amount \in Nat, RefundedBy(t, x, amount)
  PROVE  Contract!Next
  <1> DEFINE g == RefundEntryGroup(amount)
             s == journal[t]
  <1>1. row \in [Txns -> Rows] /\ journal \in [Txns -> Seq(EntryGroup)]
    BY DEF IInv, TypeOK, PayTypeOK
  <1>2. Writes(t, x, <<g>>)
    BY DEF RefundedBy
  <1>3. /\ g \in EntryGroup /\ Leg(g, "capture", Receivable, "debit") = 0
        /\ Leg(g, "refund", Receivable, "credit") = amount
        /\ Leg(g, "settlement", Cash, "credit") = 0
    BY RefundGroup
  <1> HIDE DEF g
  <1>4. /\ row'[t] = x /\ journal'[t] = s \o <<g>>
        /\ \A q \in Txns : q # t => row'[q] = row[q] /\ journal'[q] = journal[q]
    BY <1>1, <1>2 DEF Writes
  <1>5. /\ PostedCaptures(journal'[t]) = PostedCaptures(s)
        /\ PostedRefunds(journal'[t]) = PostedRefunds(s) + amount
        /\ PostedPayouts(journal'[t]) = PostedPayouts(s)
    <2>1. s \in Seq(EntryGroup)
      BY <1>1
    <2> HIDE DEF s
    <2>2. QED BY <1>3, <1>4, <2>1, SumsAppend
  <1>6. /\ x.amount = row[t].amount /\ row[t].status \in {"captured", "settled"}
        /\ x.status = IF row[t].refunded + amount = row[t].captured
                      THEN "refunded" ELSE row[t].status
        /\ amount > 0 /\ amount <= row[t].captured - row[t].refunded
    BY DEF RefundedBy, CanRefund, RemainingRefundable
  <1>7. /\ PostedCaptures(s) = row[t].captured /\ PostedRefunds(s) = row[t].refunded
        /\ row[t].captured \in Nat /\ row[t].refunded \in Nat /\ row[t].amount \in Nat
        /\ row[t].captured <= row[t].amount
    BY SumsOfRow
  <1>8. PostedRefunds(s) + amount <= PostedCaptures(s) /\ amount \in 1..row[t].amount
    BY <1>6, <1>7
  <1>9. /\ [q \in Txns |-> row[q].status][t] = row[t].status
        /\ [q \in Txns |-> PostedCaptures(journal[q])][t] = row[t].captured
        /\ [q \in Txns |-> PostedRefunds(journal[q])][t] = row[t].refunded
    BY <1>7
  <1>10. [q \in Txns |-> row[q].status]'
           = [[q \in Txns |-> row[q].status] EXCEPT ![t] = x.status]
    BY <1>4, ContractStep
  <1>11. [q \in Txns |-> PostedRefunds(journal[q])]'
           = [[q \in Txns |-> PostedRefunds(journal[q])] EXCEPT ![t] = row[t].refunded + amount]
    <2>1. PostedRefunds(journal'[t]) = row[t].refunded + amount
      BY <1>5, <1>7
    <2>2. QED BY <1>4, <2>1, ContractStep
  <1>12. /\ UNCHANGED [q \in Txns |-> row[q].amount]
         /\ UNCHANGED [q \in Txns |-> PostedCaptures(journal[q])]
         /\ UNCHANGED [q \in Txns |-> PostedPayouts(journal[q])]
    BY <1>4, <1>5, <1>6, ContractStutter
  <1>13. row[t].refunded + amount <= row[t].captured
    BY <1>7, <1>8
  <1>14. Contract!Return(t, amount)
    BY <1>6, <1>9, <1>10, <1>11, <1>12, <1>13 DEF Contract!Return, Contract!Move
  <1>15. QED BY <1>8, <1>14 DEF Contract!Next

\* A settlement is the contract's payout of what is left after the fee.
LEMMA SettledIsPayOut ==
  ASSUME FeesFit, IInv, NEW t \in Txns, NEW x \in Rows, Settled(t, x)
  PROVE  Contract!Next
  <1> DEFINE net == NetPayable(row[t])
             paid == IF net > 0 THEN net ELSE 0
             g == SettlementEntryGroup(net)
             s == journal[t]
  <1>1. row \in [Txns -> Rows] /\ journal \in [Txns -> Seq(EntryGroup)]
    BY DEF IInv, TypeOK, PayTypeOK
  <1>2. /\ PostedCaptures(s) = row[t].captured /\ PostedRefunds(s) = row[t].refunded
        /\ row[t].captured \in Nat /\ row[t].refunded \in Nat /\ row[t].amount \in Nat
        /\ row[t].captured <= row[t].amount /\ row[t].refunded <= row[t].captured
        /\ row[t].amount \in Amounts
    BY SumsOfRow DEF Settled, Absent
  <1>3. Fee(row[t].captured, FeeBPS) \in Nat
    BY <1>2, FeeExact
  <1>4. net \in Int /\ net <= row[t].captured - row[t].refunded
    BY <1>2, <1>3 DEF NetPayable
  <1>5. paid \in 0..PostedCaptures(s) /\ paid <= PostedCaptures(s) - PostedRefunds(s)
    <2> HIDE DEF net
    <2>1. QED BY <1>2, <1>4
  <1>6. Writes(t, x, IF net > 0 THEN <<g>> ELSE <<>>)
    BY DEF Settled
  <1>7. g \in EntryGroup /\ Leg(g, "capture", Receivable, "debit") = 0
        /\ Leg(g, "refund", Receivable, "credit") = 0 /\ Leg(g, "settlement", Cash, "credit") = net
    BY <1>4, SettlementGroup
  <1> HIDE DEF g, net
  <1>8. /\ row'[t] = x /\ journal'[t] = s \o (IF net > 0 THEN <<g>> ELSE <<>>)
        /\ \A q \in Txns : q # t => row'[q] = row[q] /\ journal'[q] = journal[q]
    BY <1>1, <1>6 DEF Writes
  <1>9. /\ PostedCaptures(journal'[t]) = PostedCaptures(s)
        /\ PostedRefunds(journal'[t]) = PostedRefunds(s)
        /\ PostedPayouts(journal'[t]) = PostedPayouts(s) + paid
    <2>1. s \in Seq(EntryGroup) /\ s \o <<>> = s
      BY <1>1
    <2> HIDE DEF s
    <2>2. CASE net > 0
      BY <1>4, <1>7, <1>8, <2>1, <2>2, SumsAppend
    <2>3. CASE ~(net > 0)
      <3>1. journal'[t] = s /\ paid = 0
        BY <1>8, <2>1, <2>3
      <3>2. PostedPayouts(s) \in Int
        BY <1>7, <2>1, SumsAppend
      <3>3. QED BY <3>1, <3>2
    <2>4. QED BY <2>2, <2>3
  <1>10. row[t].status = "captured" /\ x.status = "settled" /\ x.amount = row[t].amount
    BY DEF Settled
  <1> HIDE DEF paid
  <1>11. Contract!PayOut(t, paid)
    BY <1>5, <1>8, <1>9, <1>10, ContractStep, ContractStutter DEF Contract!PayOut, Contract!Move
  <1>12. QED BY <1>5, <1>11 DEF Contract!Next

\* The concurrent gateway, faults included, implements the contract: whatever it
\* does to rows and journals is, payment by payment, one of the contract's moves.
THEOREM GatewayImplementsContract ==
  ASSUME FeesFit
  PROVE  Spec => ImplementsContract
  <1>1. Init => Contract!Init
    <2>1. ASSUME Init, NEW t \in Txns
          PROVE  /\ row[t].status = "absent" /\ row[t].amount = 0
                 /\ PostedCaptures(journal[t]) = 0 /\ PostedRefunds(journal[t]) = 0
                 /\ PostedPayouts(journal[t]) = 0
      <3>1. row[t] = NoRow /\ journal[t] = <<>>
        BY <2>1 DEF Init, PayInit
      <3>2. QED BY <3>1, PostedEmpty DEF NoRow, Absent, PostedCaptures, PostedRefunds, PostedPayouts
    <2>2. QED BY <2>1 DEF Contract!Init
  <1>2. IInv /\ [Next]_vars => [Contract!Next]_(Contract!contractVars)
    <2> SUFFICES ASSUME IInv, [Next]_vars
                 PROVE  [Contract!Next]_(Contract!contractVars)
      OBVIOUS
    <2>1. CASE UNCHANGED <<row, journal>>
      BY <2>1 DEF Contract!contractVars
    <2>2. ASSUME NEW t \in Txns, Changed(t) PROVE Contract!Next
      BY <2>2, InsertedIsOpen, RelabelledIsMove, CapturedIsTake, RefundedIsReturn, SettledIsPayOut
         DEF Changed
    <2>3. QED BY <2>1, <2>2, StepShape
  <1>3. QED BY <1>1, <1>2, Invariance, PTL DEF Spec, ImplementsContract, Contract!Spec

-----------------------------------------------------------------------------
(* Payouts are covered.                                                    *)

\* Until a payment is settled or refunded in full, the journal owes its merchant
\* at least what settling it would pay: the fees booked capture by capture never
\* exceed the fee on the whole.
Owed ==
  \A t \in Txns : row[t].status \notin {"settled", "refunded"} =>
    Available(journal[t]) >= NetPayable(row[t])

\* NetPayable, read as a function of the two money columns.
LEMMA NetOf ==
  ASSUME NEW x \in Rows
  PROVE  /\ NetPayable(x) = x.captured - Fee(x.captured, FeeBPS) - x.refunded
         /\ NetPayable(x) \in Int /\ Fee(x.captured, FeeBPS) \in Int
  <1>1. x.captured \in Nat /\ x.refunded \in Nat
    BY DEF Rows
  <1>2. QED BY <1>1, FeeType DEF NetPayable

\* The fee on nothing.
LEMMA NoFee == Fee(0, FeeBPS) = 0
  BY DEF Fee

\* Nothing is owed before the first payment.
LEMMA OwedInit == Init => Owed
  <1> SUFFICES ASSUME Init, NEW t \in Txns
               PROVE  Available(journal[t]) >= NetPayable(row[t])
    BY DEF Owed
  <1>1. row[t] = NoRow /\ journal[t] = <<>>
    BY DEF Init, PayInit
  <1>2. NetPayable(row[t]) = 0
    BY <1>1, NoFee DEF NetPayable, NoRow
  <1>3. QED BY <1>1, <1>2, AvailableEmpty

\* One payment, whichever way it changes.
LEMMA OwedOf ==
  ASSUME FeesFit, IInv, Owed, NEW t \in Txns, Changed(t),
         row'[t].status \notin {"settled", "refunded"}
  PROVE  Available(journal'[t]) >= NetPayable(row'[t])
  <1>1. /\ row \in [Txns -> Rows] /\ journal \in [Txns -> Seq(EntryGroup)]
        /\ row[t] \in Rows /\ journal[t] \in Seq(EntryGroup)
    BY DEF IInv, TypeOK, PayTypeOK
  <1>2. /\ row[t].captured \in Nat /\ row[t].refunded \in Nat /\ row[t].amount \in Nat
        /\ Available(journal[t]) \in Int
        /\ NetPayable(row[t]) = row[t].captured - Fee(row[t].captured, FeeBPS) - row[t].refunded
        /\ NetPayable(row[t]) \in Int /\ Fee(row[t].captured, FeeBPS) \in Int
    <2>1. \E g : g \in EntryGroup
      BY RefundGroup
    <2>2. QED BY <1>1, <2>1, NetOf, SumsOfRow, AvailableAppend
  <1>3. CASE Inserted(t)
    <2>1. PICK amount \in Amounts : row' = [row EXCEPT ![t] = NewTransaction(amount)]
      BY <1>3 DEF Inserted
    <2>2. NetPayable(row'[t]) = 0
      BY <1>1, <2>1, NoFee DEF NewTransaction, NetPayable
    <2>3. row[t] = NoRow /\ row[t].status \notin {"settled", "refunded"} /\ journal'[t] = journal[t]
      BY <1>3 DEF Inserted, IInv, AllConsistent, Consistent, Absent
    <2>4. NetPayable(row[t]) = 0
      BY <2>3, NoFee DEF NoRow, NetPayable
    <2>5. QED BY <2>2, <2>3, <2>4 DEF Owed
  <1>4. ASSUME NEW x \in Rows, Relabelled(t, x)
        PROVE  Available(journal'[t]) >= NetPayable(row'[t])
    <2>1. row'[t] = x /\ journal'[t] = journal[t]
      BY <1>1, <1>4 DEF Relabelled
    <2>2. /\ x.captured = row[t].captured /\ x.refunded = row[t].refunded
          /\ row[t].status \notin {"settled", "refunded"}
      BY <1>4 DEF Relabelled
    <2>3. NetPayable(x) = NetPayable(row[t])
      BY <2>2 DEF NetPayable
    <2>4. QED BY <2>1, <2>2, <2>3 DEF Owed
  <1>5. ASSUME NEW x \in Rows, NEW amount \in Nat, CapturedBy(t, x, amount)
        PROVE  Available(journal'[t]) >= NetPayable(row'[t])
    <2> DEFINE fee == Fee(amount, FeeBPS)
               g == CaptureEntryGroup(amount, fee)
    <2>1. /\ row[t].status \in {"authorized", "captured"} /\ Writes(t, x, <<g>>)
          /\ x.captured = row[t].captured + amount /\ x.refunded = row[t].refunded
          /\ amount <= row[t].amount - row[t].captured
      BY <1>5 DEF CapturedBy, CanCapture, RemainingCapturable
    <2>2. fee \in Int
      BY FeeType
    <2>3. row[t].amount \in Amounts
      BY <2>1, SumsOfRow DEF Absent
    <2>4. Fee(row[t].captured, FeeBPS) + fee <= Fee(row[t].captured + amount, FeeBPS)
      BY <1>2, <2>1, <2>3, FeeOfSum
    <2> HIDE DEF fee
    <2>5. g \in EntryGroup
      BY <2>2, CaptureGroup
    <2>6. /\ Booked(g, Payable, "credit") = amount - fee
          /\ Booked(g, Payable, "debit") = 0
      BY <2>2, PayableLegs
    <2> HIDE DEF g
    <2>7. row'[t] = x /\ journal'[t] = journal[t] \o <<g>>
      BY <1>1, <2>1 DEF Writes
    <2>8. Available(journal'[t]) = Available(journal[t]) + (amount - fee)
      BY <1>1, <1>2, <2>2, <2>5, <2>6, <2>7, AvailableAppend
    <2>9. /\ NetPayable(x) = x.captured - Fee(x.captured, FeeBPS) - x.refunded
          /\ Fee(x.captured, FeeBPS) \in Int
      BY NetOf
    <2>10. Available(journal[t]) >= NetPayable(row[t])
      BY <2>1 DEF Owed
    <2>11. /\ x.captured = row[t].captured + amount
           /\ x.refunded = row[t].refunded
           /\ Fee(x.captured, FeeBPS) = Fee(row[t].captured + amount, FeeBPS)
      BY <2>1, Zenon
    <2>12. PICK n : n = Fee(x.captured, FeeBPS)
      OBVIOUS
    <2>13. n \in Int /\ n = Fee(row[t].captured + amount, FeeBPS)
      BY <2>9, <2>11, <2>12, Zenon
    <2>14. PICK h : h = Fee(row[t].captured, FeeBPS)
      OBVIOUS
    <2>15. h \in Int /\ h + fee <= n
      BY <1>2, <2>4, <2>13, <2>14, Zenon
    <2>16. NetPayable(row[t]) = row[t].captured - h - row[t].refunded
      BY <1>2, <2>14, Zenon
    <2>17. NetPayable(x) = (row[t].captured + amount) - n - row[t].refunded
      BY <2>9, <2>11, <2>12, Zenon
    <2>18. Available(journal'[t]) >= NetPayable(x)
      BY <1>2, <2>2, <2>8, <2>10, <2>13, <2>15, <2>16, <2>17
    <2>19. QED BY <2>7, <2>18
  <1>6. ASSUME NEW x \in Rows, NEW amount \in Nat, RefundedBy(t, x, amount)
        PROVE  Available(journal'[t]) >= NetPayable(row'[t])
    <2> DEFINE g == RefundEntryGroup(amount)
    <2>1. /\ Writes(t, x, <<g>>) /\ x.captured = row[t].captured
          /\ x.refunded = row[t].refunded + amount
          /\ x.status \in {"refunded", row[t].status}
      BY <1>6 DEF RefundedBy
    <2>2. g \in EntryGroup
      BY RefundGroup
    <2>3. Booked(g, Payable, "credit") = 0 /\ Booked(g, Payable, "debit") = amount
      <3>1. amount \in Int /\ 0 \in Int
        OBVIOUS
      <3>2. QED BY <3>1, PayableLegs
    <2> HIDE DEF g
    <2>4. row'[t] = x /\ journal'[t] = journal[t] \o <<g>>
      BY <1>1, <2>1 DEF Writes
    <2>5. row[t].status \notin {"settled", "refunded"}
      BY <2>1, <2>4
    <2>6. Available(journal'[t]) = Available(journal[t]) - amount
      BY <1>1, <1>2, <2>2, <2>3, <2>4, AvailableAppend
    <2>7. NetPayable(x) = NetPayable(row[t]) - amount
      BY <1>2, <2>1 DEF NetPayable
    <2>8. Available(journal[t]) >= NetPayable(row[t])
      BY <2>5 DEF Owed
    <2>9. QED BY <1>2, <2>4, <2>6, <2>7, <2>8
  <1>7. ASSUME NEW x \in Rows, Settled(t, x)
        PROVE  FALSE
    BY <1>1, <1>7 DEF Settled, Writes
  <1>8. QED BY <1>3, <1>4, <1>5, <1>6, <1>7 DEF Changed

\* Every step keeps as much in the payable account as settling would pay.
LEMMA OwedStep ==
  ASSUME FeesFit, IInv, Owed, [Next]_vars
  PROVE  Owed'
  <1> SUFFICES ASSUME NEW q \in Txns, row'[q].status \notin {"settled", "refunded"}
               PROVE  Available(journal'[q]) >= NetPayable(row'[q])
    BY DEF Owed
  <1>1. CASE row'[q] = row[q] /\ journal'[q] = journal[q]
    BY <1>1 DEF Owed
  <1>2. ASSUME NEW t \in Txns, Changed(t)
        PROVE  Available(journal'[q]) >= NetPayable(row'[q])
    BY <1>1, <1>2, ChangedIsKept, OwedOf
  <1>3. QED BY <1>1, <1>2, StepShape

\* The step that pays a merchant out leaves the payable account of the payment
\* at zero or above.
LEMMA PayoutStep ==
  ASSUME IInv, Owed, [Next]_vars, NEW q \in Txns,
         GroupsOf(journal'[q], "settlement") # GroupsOf(journal[q], "settlement")
  PROVE  Available(journal'[q]) >= 0
  <1>1. PICK t \in Txns : Changed(t)
    BY StepShape
  <1>2. q = t
    BY <1>1, ChangedIsKept
  <1>3. /\ row \in [Txns -> Rows] /\ journal \in [Txns -> Seq(EntryGroup)]
        /\ row[t] \in Rows /\ journal[t] \in Seq(EntryGroup)
    BY DEF IInv, TypeOK, PayTypeOK
  <1>4. ASSUME NEW x, NEW g \in EntryGroup, \A a \in Accounts : g[a].event # "settlement",
               Writes(t, x, <<g>>)
        PROVE  FALSE
    <2>1. journal'[t] = journal[t] \o <<g>>
      BY <1>3, <1>4 DEF Writes
    <2>2. QED BY <1>2, <1>3, <1>4, <2>1, GroupsOfAppend
  <1>5. CASE Inserted(t)
    BY <1>2, <1>5 DEF Inserted
  <1>6. ASSUME NEW x \in Rows, Relabelled(t, x) PROVE FALSE
    BY <1>2, <1>6 DEF Relabelled
  <1>7. ASSUME NEW x \in Rows, NEW amount \in Nat, CapturedBy(t, x, amount) PROVE FALSE
    <2> DEFINE g == CaptureEntryGroup(amount, Fee(amount, FeeBPS))
    <2>1. g \in EntryGroup /\ \A a \in Accounts : g[a].event # "settlement"
      BY FeeType, CaptureGroup
    <2>2. Writes(t, x, <<g>>)
      BY <1>7 DEF CapturedBy
    <2> HIDE DEF g
    <2>3. QED BY <1>4, <2>1, <2>2
  <1>8. ASSUME NEW x \in Rows, NEW amount \in Nat, RefundedBy(t, x, amount) PROVE FALSE
    <2> DEFINE g == RefundEntryGroup(amount)
    <2>1. g \in EntryGroup /\ \A a \in Accounts : g[a].event # "settlement"
      BY RefundGroup
    <2>2. Writes(t, x, <<g>>)
      BY <1>8 DEF RefundedBy
    <2> HIDE DEF g
    <2>3. QED BY <1>4, <2>1, <2>2
  <1>9. ASSUME NEW x \in Rows, Settled(t, x) PROVE Available(journal'[t]) >= 0
    <2> DEFINE net == NetPayable(row[t])
               g == SettlementEntryGroup(net)
    <2>1. net \in Int
      BY <1>3, NetOf
    <2>2. Writes(t, x, IF net > 0 THEN <<g>> ELSE <<>>) /\ row[t].status = "captured"
      BY <1>9 DEF Settled
    <2>3. Available(journal[t]) >= net
      BY <2>2 DEF Owed
    <2> HIDE DEF net
    <2>4. g \in EntryGroup
      BY <2>1, SettlementGroup
    <2>5. Booked(g, Payable, "credit") = 0 /\ Booked(g, Payable, "debit") = net
      BY <2>1, PayableLegs
    <2> HIDE DEF g
    <2>6. CASE net > 0
      <3>1. journal'[t] = journal[t] \o <<g>>
        BY <1>3, <2>2, <2>6 DEF Writes
      <3>2. Available(journal[t]) \in Int /\ Available(journal'[t]) = Available(journal[t]) - net
        BY <1>3, <2>1, <2>4, <2>5, <3>1, AvailableAppend
      <3>3. QED BY <2>1, <2>3, <3>2
    <2>7. CASE ~(net > 0)
      <3>1. journal'[t] = journal[t] \o <<>>
        BY <1>3, <2>2, <2>7 DEF Writes
      <3>2. journal[t] \o <<>> = journal[t]
        BY <1>3
      <3>3. QED BY <1>2, <3>1, <3>2
    <2>8. QED BY <2>6, <2>7
  <1>10. QED BY <1>1, <1>2, <1>5, <1>6, <1>7, <1>8, <1>9 DEF Changed

\* No payout takes the journal's payable account below zero, also when the
\* payment changed after the books were compared.
THEOREM PayoutsAreCovered ==
  ASSUME FeesFit
  PROVE  Spec => PayoutCovered
  <1>1. IInv /\ Owed /\ [Next]_vars => Owed'
    BY OwedStep
  <1>2. IInv /\ Owed /\ [Next]_vars =>
          [\A t \in Txns :
             GroupsOf(journal'[t], "settlement") # GroupsOf(journal[t], "settlement")
               => Available(journal'[t]) >= 0]_vars
    BY PayoutStep
  <1>3. QED BY <1>1, <1>2, OwedInit, Invariance, PTL DEF Spec, PayoutCovered

-----------------------------------------------------------------------------
(* Sums of which one term changes.                                         *)

\* Replacing one element changes the sum by the difference.
LEMMA SumReplace ==
  ASSUME NEW w \in Seq(Int), NEW u \in Seq(Int), Len(u) = Len(w),
         NEW k \in 1..Len(w), \A i \in 1..Len(w) : i # k => u[i] = w[i]
  PROVE  Sum(u) = Sum(w) + u[k] - w[k]
  <1>1. PICK f \in [0..Len(w) -> Int] : IsTotal(f, w)
    BY TotalExists
  <1>2. PICK g \in [0..Len(u) -> Int] : IsTotal(g, u)
    BY TotalExists
  <1>3. Len(w) \in Nat /\ k \in Nat /\ u[k] \in Int /\ w[k] \in Int
    OBVIOUS
  <1> DEFINE S == {n \in Nat : n <= Len(w) =>
                     g[n] = IF n < k THEN f[n] ELSE f[n] + u[k] - w[k]}
  <1>4. 0 \in S
    BY <1>1, <1>2, <1>3 DEF IsTotal
  <1>5. ASSUME NEW n \in S PROVE n + 1 \in S
    <2>1. CASE n + 1 <= Len(w)
      <3>1. n + 1 \in 0..Len(w) /\ n \in 0..Len(w) /\ n + 1 # 0 /\ (n + 1) - 1 = n
        BY <2>1, <1>3
      <3>2. f[n + 1] = f[n] + w[n + 1]
        BY <3>1, <1>1 DEF IsTotal
      <3>3. g[n + 1] = g[n] + u[n + 1]
        BY <3>1, <1>2 DEF IsTotal
      <3>4. g[n] = IF n < k THEN f[n] ELSE f[n] + u[k] - w[k]
        BY <3>1
      <3>5. f[n] \in Int /\ n + 1 \in 1..Len(w) /\ n \in Nat
        <4>1. f[n] \in Int
          BY <3>1
        <4>2. n \in Nat
          OBVIOUS
        <4> HIDE DEF S
        <4>3. n + 1 \in 1..Len(w)
          BY <2>1, <4>2, <1>3
        <4>4. QED BY <4>1, <4>2, <4>3
      <3>6. w[n + 1] \in Int /\ u[n + 1] \in Int
        BY <3>5
      <3>7. n + 1 # k => u[n + 1] = w[n + 1]
        BY <3>5
      <3>8. g[n + 1] = IF n + 1 < k THEN f[n + 1] ELSE f[n + 1] + u[k] - w[k]
        <4>1. CASE n + 1 = k
          <5>1. n < k
            <6> HIDE DEF S
            <6>1. QED BY <3>5, <4>1
          <5>2. g[n + 1] = f[n] + u[k] /\ f[n + 1] = f[n] + w[k]
            BY <3>2, <3>3, <3>4, <4>1, <5>1
          <5> HIDE DEF S
          <5>3. g[n + 1] = f[n + 1] + u[k] - w[k]
            <6> DEFINE a == f[n]
                       x == w[k]
                       y == u[k]
            <6>1. a \in Int /\ x \in Int /\ y \in Int
              BY <1>3, <3>5
            <6>2. g[n + 1] = a + y /\ f[n + 1] = a + x
              BY <5>2
            <6> HIDE DEF a, x, y
            <6>3. g[n + 1] = f[n + 1] + y - x
              BY <6>1, <6>2
            <6>4. QED BY <6>3 DEF x, y
          <5>4. QED BY <1>3, <4>1, <5>3
        <4>2. CASE n + 1 # k
          <5>1. g[n + 1] = g[n] + w[n + 1]
            BY <3>3, <3>7, <4>2
          <5>2. n < k <=> n + 1 < k
            <6> HIDE DEF S
            <6>1. QED BY <1>3, <3>5, <4>2
          <5>3. CASE n + 1 < k
            BY <3>2, <3>4, <5>1, <5>2, <5>3
          <5>4. CASE ~(n + 1 < k)
            <6>1. g[n] = f[n] + u[k] - w[k]
              BY <3>4, <5>2, <5>4
            <6> HIDE DEF S
            <6>2. g[n + 1] = (f[n] + w[n + 1]) + u[k] - w[k]
              <7> DEFINE a == f[n]
                         x == w[k]
                         y == u[k]
                         z == w[n + 1]
              <7>1. a \in Int /\ x \in Int /\ y \in Int /\ z \in Int
                BY <1>3, <3>5, <3>6
              <7>2. g[n + 1] = (a + y - x) + z
                BY <5>1, <6>1
              <7> HIDE DEF a, x, y, z
              <7>3. g[n + 1] = (a + z) + y - x
                BY <7>1, <7>2
              <7>4. QED BY <7>3 DEF a, x, y, z
            <6>3. QED BY <3>2, <5>4, <6>2
          <5>5. QED BY <5>3, <5>4
        <4>3. QED BY <4>1, <4>2
      <3>9. QED BY <3>8
    <2>2. CASE ~(n + 1 <= Len(w))
      BY <2>2
    <2>3. QED BY <2>1, <2>2
  <1>6. S = Nat
    <2>1. S \in SUBSET Nat
      OBVIOUS
    <2> HIDE DEF S
    <2>2. QED BY <1>4, <1>5, <2>1, SetInduction
  <1>7. g[Len(w)] = f[Len(w)] + u[k] - w[k]
    BY <1>3, <1>6
  <1>8. Sum(w) = f[Len(w)] /\ Sum(u) = g[Len(w)]
    BY <1>1, <1>2, SumIsLastTotal
  <1>9. QED BY <1>7, <1>8

\* A sum of naturals is a natural.
LEMMA SumOfNats ==
  ASSUME NEW w \in Seq(Nat)
  PROVE  Sum(w) \in Nat
  <1>1. w \in Seq(Int) /\ Len(w) \in Nat
    OBVIOUS
  <1>2. PICK f \in [0..Len(w) -> Int] : IsTotal(f, w)
    BY <1>1, TotalExists
  <1> DEFINE S == {n \in Nat : n <= Len(w) => f[n] \in Nat}
  <1>3. 0 \in S
    BY <1>1, <1>2 DEF IsTotal
  <1>4. ASSUME NEW n \in S PROVE n + 1 \in S
    <2>1. CASE n + 1 <= Len(w)
      <3>1. n + 1 \in 0..Len(w) /\ n + 1 # 0 /\ (n + 1) - 1 = n /\ f[n] \in Nat
        BY <2>1, <1>1
      <3>2. f[n + 1] = f[n] + w[n + 1] /\ w[n + 1] \in Nat
        BY <3>1, <1>2 DEF IsTotal
      <3>3. QED BY <3>1, <3>2
    <2>2. CASE ~(n + 1 <= Len(w))
      BY <2>2
    <2>3. QED BY <2>1, <2>2
  <1>5. S = Nat
    <2>1. S \in SUBSET Nat
      OBVIOUS
    <2> HIDE DEF S
    <2>2. QED BY <1>3, <1>4, <2>1, SetInduction
  <1>6. f[Len(w)] \in Nat
    BY <1>1, <1>5
  <1>7. QED BY <1>1, <1>2, <1>6, SumIsLastTotal

\* Zeros add up to zero.
LEMMA SumOfZeros ==
  ASSUME NEW w \in Seq(Int), \A i \in 1..Len(w) : w[i] = 0
  PROVE  Sum(w) = 0
  <1> DEFINE f == [k \in 0..Len(w) |-> 0]
             g == [k \in 0..Len(w) |-> IF k = 0 THEN 0 ELSE f[k - 1] + w[k]]
  <1>1. Len(w) \in Nat
    OBVIOUS
  <1>2. ASSUME NEW k \in 0..Len(w) PROVE g[k] = 0
    <2>1. CASE k = 0
      BY <2>1
    <2>2. CASE k # 0
      <3>1. k \in 1..Len(w) /\ k - 1 \in 0..Len(w)
        BY <1>1, <2>2
      <3>2. f[k - 1] = 0 /\ w[k] = 0
        BY <3>1
      <3>3. QED BY <2>2, <3>2
    <2>3. QED BY <2>1, <2>2
  <1>3. f = g
    BY <1>2
  <1>4. IsTotal(f, w) /\ f[Len(w)] = 0
    BY <1>1, <1>3 DEF IsTotal
  <1> HIDE DEF f
  <1>5. QED BY <1>4, SumIsLastTotal

-----------------------------------------------------------------------------
(* The approvals that are still to be booked.                              *)

Unbooked == {"writeback", "locked"}

\* Statuses that only a hold at the acquirer leads to.
Held == Status \ {"created", "failed"}

\* One payment: what it shows, with what is about to be written, was moved.
Covered(t) ==
  /\ row[t].captured + InFlight(t, "capture") <= acq[t].captured
  /\ row[t].refunded + InFlight(t, "refund") <= acq[t].refunded
  /\ row[t].status \in Held => acq[t].holds > 0
  /\ row[t].status = "voided" => acq[t].voids > 0

\* An approved authorization or void happened at the acquirer.
ApprovedFirst(q) ==
  q.pc \in Unbooked =>
    /\ q.op = "authorize" => acq[q.txn].holds > 0
    /\ q.op = "void" => acq[q.txn].voids > 0

AcqInv ==
  /\ \A t \in Txns : Covered(t)
  /\ \A r \in Requests : ApprovedFirst(req[r])

\* There is an order, because the requests in flight are finitely many.
LEMMA OrderExists ==
  /\ Cardinality(Requests) \in Nat
  /\ RequestOrder \in [1..Cardinality(Requests) -> Requests]
  /\ \A r \in Requests : \E i \in 1..Cardinality(Requests) : RequestOrder[i] = r
  /\ \A i, j \in 1..Cardinality(Requests) : RequestOrder[i] = RequestOrder[j] => i = j
  <1> DEFINE k == Cardinality(Requests)
  <1>1. k \in Nat /\ ExistsBijection(1..k, Requests)
    BY PaymentsAssumption, FS_CardinalityType
  <1>2. PICK s \in Bijection(1..k, Requests) : TRUE
    BY <1>1 DEF ExistsBijection
  <1>3. s \in [1..k -> Requests] /\ \A r \in Requests : \E i \in 1..k : s[i] = r
    BY <1>2 DEF Bijection, Injection, Surjection
  <1>4. /\ RequestOrder \in [1..k -> Requests]
        /\ \A r \in Requests : \E i \in 1..k : RequestOrder[i] = r
    BY <1>3 DEF RequestOrder
  <1>5. RequestOrder \in Surjection(1..k, Requests)
    BY <1>4 DEF Surjection
  <1>6. IsFiniteSet(1..k) /\ Cardinality(1..k) = k
    BY <1>1, FS_Interval
  <1>7. RequestOrder \in Injection(1..k, Requests)
    BY <1>5, <1>6, FS_SurjSameCardinalityImpliesInj
  <1>8. \A i, j \in 1..k : RequestOrder[i] = RequestOrder[j] => i = j
    BY <1>7 DEF Injection, IsInjective
  <1>9. QED BY <1>1, <1>4, <1>8

\* The amounts are naturals, and so is their sum.
LEMMA InFlightType ==
  ASSUME req \in [Requests -> RequestStates], NEW t, NEW op
  PROVE  /\ [i \in 1..Cardinality(Requests) |-> Approved(req[RequestOrder[i]], t, op)] \in Seq(Nat)
         /\ InFlight(t, op) \in Nat
  <1> DEFINE w == [i \in 1..Cardinality(Requests) |-> Approved(req[RequestOrder[i]], t, op)]
  <1>1. RequestOrder \in [1..Cardinality(Requests) -> Requests] /\ Cardinality(Requests) \in Nat
    BY OrderExists
  <1>2. ASSUME NEW i \in 1..Cardinality(Requests)
        PROVE  Approved(req[RequestOrder[i]], t, op) \in Nat
    <2>1. RequestOrder[i] \in Requests
      BY <1>1
    <2>2. req[RequestOrder[i]].amount \in Nat
      BY <2>1 DEF RequestStates
    <2>3. QED BY <2>2 DEF Approved, Unbooked
  <1>3. w \in Seq(Nat)
    BY <1>1, <1>2
  <1>4. Sum(w) \in Nat
    <2> HIDE DEF w
    <2>1. QED BY <1>3, SumOfNats
  <1>5. QED BY <1>3, <1>4 DEF InFlight

\* A step of one request changes what is pending by that request's share.
LEMMA InFlightChange ==
  ASSUME req \in [Requests -> RequestStates], NEW r \in Requests, NEW n \in RequestStates,
         req' = [req EXCEPT ![r] = n], NEW t, NEW op
  PROVE  InFlight(t, op)' = InFlight(t, op) + Approved(n, t, op) - Approved(req[r], t, op)
  <1> DEFINE w == [i \in 1..Cardinality(Requests) |-> Approved(req[RequestOrder[i]], t, op)]
             u == [i \in 1..Cardinality(Requests) |-> Approved(req'[RequestOrder[i]], t, op)]
  <1>1. RequestOrder \in [1..Cardinality(Requests) -> Requests] /\ Cardinality(Requests) \in Nat
    BY OrderExists
  <1>2. PICK k \in 1..Cardinality(Requests) : RequestOrder[k] = r
    BY OrderExists
  <1>3. ASSUME NEW i \in 1..Cardinality(Requests), i # k
        PROVE  RequestOrder[i] \in Requests /\ RequestOrder[i] # r
    <2>1. RequestOrder[i] \in Requests
      BY <1>1
    <2>2. RequestOrder[i] = RequestOrder[k] => i = k
      BY OrderExists
    <2>3. QED BY <1>2, <1>3, <2>1, <2>2
  <1>4. u[k] = Approved(n, t, op) /\ w[k] = Approved(req[r], t, op)
    BY <1>2
  <1>5. \A i \in 1..Cardinality(Requests) : i # k => u[i] = w[i]
    BY <1>3
  <1>6. w \in Seq(Nat)
    BY InFlightType
  <1>7. u \in Seq(Nat)
    <2>1. req' \in [Requests -> RequestStates]
      OBVIOUS
    <2>2. ASSUME NEW i \in 1..Cardinality(Requests)
          PROVE  Approved(req'[RequestOrder[i]], t, op) \in Nat
      <3>1. RequestOrder[i] \in Requests
        BY <1>1
      <3>2. req'[RequestOrder[i]].amount \in Nat
        BY <2>1, <3>1 DEF RequestStates
      <3>3. QED BY <3>2 DEF Approved, Unbooked
    <2>3. QED BY <1>1, <2>2
  <1>8. /\ w \in Seq(Int) /\ Len(w) = Cardinality(Requests)
        /\ u \in Seq(Int) /\ Len(u) = Cardinality(Requests)
    BY <1>1, <1>6, <1>7
  <1>9. InFlight(t, op) = Sum(w) /\ InFlight(t, op)' = Sum(u)
    BY DEF InFlight
  <1>10. Sum(u) = Sum(w) + u[k] - w[k]
    <2> HIDE DEF w, u
    <2>1. QED BY <1>5, <1>8, SumReplace
  <1> HIDE DEF w, u
  <1>11. QED BY <1>4, <1>9, <1>10

-----------------------------------------------------------------------------
(* What a step may do to the books and to the acquirer.                    *)

\* A step of request r, after which it is n, keeps the invariant when what it
\* adds to a row and to what is pending was added by the acquirer too.
LEMMA RequestKeeps ==
  ASSUME IInv, IInv', AcqInv, NEW r \in Requests, NEW n,
         req' = [req EXCEPT ![r] = n],
         \A t \in Txns :
           /\ acq[t].holds <= acq'[t].holds /\ acq[t].voids <= acq'[t].voids
           /\ row'[t].captured + Approved(n, t, "capture") + acq[t].captured
                <= row[t].captured + Approved(req[r], t, "capture") + acq'[t].captured
           /\ row'[t].refunded + Approved(n, t, "refund") + acq[t].refunded
                <= row[t].refunded + Approved(req[r], t, "refund") + acq'[t].refunded
           /\ row'[t].status \in Held => row[t].status \in Held \/ acq'[t].holds > 0
           /\ row'[t].status = "voided" => row[t].status = "voided" \/ acq'[t].voids > 0,
         n.pc \in Unbooked => /\ n.op = "authorize" => acq'[n.txn].holds > 0
                              /\ n.op = "void" => acq'[n.txn].voids > 0
  PROVE  AcqInv'
  <1>1. /\ req \in [Requests -> RequestStates] /\ row \in [Txns -> Rows]
        /\ acq \in [Txns -> AcquirerStates]
        /\ row' \in [Txns -> Rows] /\ acq' \in [Txns -> AcquirerStates]
        /\ n \in RequestStates
    BY DEF IInv, TypeOK, PayTypeOK
  <1>2. ASSUME NEW t \in Txns PROVE Covered(t)'
    <2>1. /\ row[t].captured \in Nat /\ row[t].refunded \in Nat
          /\ row'[t].captured \in Nat /\ row'[t].refunded \in Nat
      BY <1>1 DEF Rows
    <2>2. /\ acq[t].captured \in Nat /\ acq[t].refunded \in Nat
          /\ acq[t].holds \in Nat /\ acq[t].voids \in Nat
          /\ acq'[t].captured \in Nat /\ acq'[t].refunded \in Nat
          /\ acq'[t].holds \in Nat /\ acq'[t].voids \in Nat
      BY <1>1 DEF AcquirerStates
    <2>3. InFlight(t, "capture") \in Nat /\ InFlight(t, "refund") \in Nat
      BY <1>1, InFlightType
    <2>4. /\ Approved(n, t, "capture") \in Nat /\ Approved(req[r], t, "capture") \in Nat
          /\ Approved(n, t, "refund") \in Nat /\ Approved(req[r], t, "refund") \in Nat
      BY <1>1 DEF Approved, Unbooked, RequestStates
    <2>5. /\ InFlight(t, "capture")' = InFlight(t, "capture") + Approved(n, t, "capture")
                                        - Approved(req[r], t, "capture")
          /\ InFlight(t, "refund")' = InFlight(t, "refund") + Approved(n, t, "refund")
                                        - Approved(req[r], t, "refund")
      <3>1. InFlight(t, "capture")' = InFlight(t, "capture") + Approved(n, t, "capture")
                                        - Approved(req[r], t, "capture")
        BY <1>1, InFlightChange
      <3>2. InFlight(t, "refund")' = InFlight(t, "refund") + Approved(n, t, "refund")
                                        - Approved(req[r], t, "refund")
        BY <1>1, InFlightChange
      <3>3. QED BY <3>1, <3>2
    <2>6. Covered(t)
      BY DEF AcqInv
    <2>7. row'[t].captured + InFlight(t, "capture")' <= acq'[t].captured
      BY <2>1, <2>2, <2>3, <2>4, <2>5, <2>6 DEF Covered
    <2>8. row'[t].refunded + InFlight(t, "refund")' <= acq'[t].refunded
      BY <2>1, <2>2, <2>3, <2>4, <2>5, <2>6 DEF Covered
    <2>9. row'[t].status \in Held => acq'[t].holds > 0
      BY <2>2, <2>6 DEF Covered
    <2>10. row'[t].status = "voided" => acq'[t].voids > 0
      BY <2>2, <2>6 DEF Covered
    <2>11. QED BY <2>7, <2>8, <2>9, <2>10 DEF Covered
  <1>3. ASSUME NEW q \in Requests PROVE ApprovedFirst(req[q])'
    <2>1. CASE q = r
      BY <1>1, <2>1 DEF ApprovedFirst
    <2>2. CASE q # r
      <3>1. req'[q] = req[q] /\ ApprovedFirst(req[q])
        BY <1>1, <2>2 DEF AcqInv
      <3>2. CASE req[q].pc \in Unbooked
        <4>1. req[q].txn \in Txns
          BY <3>2, Busy DEF Unbooked, Resting
        <4>2. PICK t \in Txns : t = req[q].txn
          BY <4>1
        <4>3. /\ acq[t].holds \in Nat /\ acq[t].voids \in Nat
              /\ acq'[t].holds \in Nat /\ acq'[t].voids \in Nat
              /\ acq[t].holds <= acq'[t].holds /\ acq[t].voids <= acq'[t].voids
          BY <1>1 DEF AcquirerStates
        <4>4. QED BY <3>1, <4>2, <4>3 DEF ApprovedFirst
      <3>3. CASE req[q].pc \notin Unbooked
        BY <3>1, <3>3 DEF ApprovedFirst
      <3>4. QED BY <3>2, <3>3
    <2>3. QED BY <2>1, <2>2
  <1>4. QED BY <1>2, <1>3 DEF AcqInv

\* A step that leaves requests and acquirer alone keeps the invariant when it
\* moves no money on a row and brings no row out of "created".
LEMMA RowKeeps ==
  ASSUME AcqInv, UNCHANGED <<req, acq>>,
         \A t \in Txns :
           /\ row'[t].captured = row[t].captured /\ row'[t].refunded = row[t].refunded
           /\ row'[t].status \in Held => row[t].status \in Held
           /\ row'[t].status = "voided" => row[t].status = "voided"
  PROVE  AcqInv'
  <1>1. ASSUME NEW t, NEW op PROVE InFlight(t, op)' = InFlight(t, op)
    BY DEF InFlight
  <1>2. ASSUME NEW t \in Txns PROVE Covered(t)'
    BY <1>1 DEF AcqInv, Covered
  <1>3. ASSUME NEW q \in Requests PROVE ApprovedFirst(req[q])'
    BY DEF AcqInv, ApprovedFirst
  <1>4. QED BY <1>2, <1>3 DEF AcqInv

-----------------------------------------------------------------------------
(* The steps.                                                              *)

\* The request's share of what is pending.
LEMMA Share ==
  ASSUME IInv, NEW r \in Requests, NEW t, NEW op
  PROVE  Approved(req[r], t, op) \in Nat
  <1>1. req[r].amount \in Nat
    BY DEF IInv, TypeOK, PayTypeOK, RequestStates
  <1>2. QED BY <1>1 DEF Approved, Unbooked

\* A step that writes no row and moves no money, after which the request is
\* still approved for what it was, or for nothing.
LEMMA StillKeeps ==
  ASSUME IInv, IInv', AcqInv, NEW r \in Requests, NEW n,
         req' = [req EXCEPT ![r] = n], UNCHANGED <<row, acq>>,
         \/ n.pc \notin Unbooked \/ n.op = "fail"
         \/ /\ req[r].pc \in Unbooked
            /\ n.txn = req[r].txn /\ n.op = req[r].op /\ n.amount = req[r].amount
  PROVE  AcqInv'
  <1>1. /\ row \in [Txns -> Rows] /\ acq \in [Txns -> AcquirerStates]
    BY DEF IInv, TypeOK, PayTypeOK
  <1>2. ApprovedFirst(req[r])
    BY DEF AcqInv
  <1>3. ASSUME NEW t \in Txns, NEW op \in {"capture", "refund"}
        PROVE  /\ Approved(n, t, op) \in Nat /\ Approved(req[r], t, op) \in Nat
               /\ Approved(n, t, op) <= Approved(req[r], t, op)
    <2>1. Approved(req[r], t, op) \in Nat
      BY Share
    <2>2. Approved(n, t, op) = 0 \/ Approved(n, t, op) = Approved(req[r], t, op)
      BY DEF Approved, Unbooked
    <2>3. QED BY <2>1, <2>2
  <1>4. ASSUME NEW t \in Txns
        PROVE  /\ acq[t].holds <= acq'[t].holds /\ acq[t].voids <= acq'[t].voids
               /\ row'[t].captured + Approved(n, t, "capture") + acq[t].captured
                    <= row[t].captured + Approved(req[r], t, "capture") + acq'[t].captured
               /\ row'[t].refunded + Approved(n, t, "refund") + acq[t].refunded
                    <= row[t].refunded + Approved(req[r], t, "refund") + acq'[t].refunded
    <2>1. /\ row[t].captured \in Nat /\ row[t].refunded \in Nat
          /\ acq[t].captured \in Nat /\ acq[t].refunded \in Nat
          /\ acq[t].holds \in Nat /\ acq[t].voids \in Nat
      BY <1>1 DEF Rows, AcquirerStates
    <2>2. QED BY <1>3, <2>1
  <1>5. n.pc \in Unbooked => /\ n.op = "authorize" => acq'[n.txn].holds > 0
                             /\ n.op = "void" => acq'[n.txn].voids > 0
    BY <1>2 DEF ApprovedFirst
  <1>6. QED BY <1>4, <1>5, RequestKeeps

\* What a call does to the acquirer's books.
LEMMA MovedEffect ==
  ASSUME NEW a \in AcquirerStates, NEW op \in Ops, NEW amount \in Nat
  PROVE  LET m == Moved(a, op, amount)
         IN  /\ a.holds <= m.holds /\ a.voids <= m.voids
             /\ m.captured = a.captured + IF op = "capture" THEN amount ELSE 0
             /\ m.refunded = a.refunded + IF op = "refund" THEN amount ELSE 0
             /\ op = "authorize" => m.holds > 0
             /\ op = "void" => m.voids > 0
  BY DEF Moved, AcquirerStates, Ops

\* The call took effect: the request goes on to its write-back, or its answer
\* was lost and it ends.
LEMMA MoveKeeps ==
  ASSUME IInv, IInv', AcqInv, NEW r \in Requests, req[r].pc = "acquirer", NEW n,
         req' = [req EXCEPT ![r] = n], UNCHANGED row, AcquirerMoves(r),
         n.pc \in Unbooked =>
           n.txn = req[r].txn /\ n.op = req[r].op /\ n.amount = req[r].amount
  PROVE  AcqInv'
  <1> DEFINE op == req[r].op
             amount == req[r].amount
             m == Moved(acq[req[r].txn], op, amount)
  <1>1. /\ row \in [Txns -> Rows] /\ acq \in [Txns -> AcquirerStates]
        /\ req[r] \in RequestStates /\ amount \in Nat
    BY DEF IInv, TypeOK, PayTypeOK, RequestStates
  <1>2. req[r].txn \in Txns
    BY Busy DEF Resting
  <1>3. acq' = [acq EXCEPT ![req[r].txn] = m]
    BY DEF AcquirerMoves
  <1>4. ASSUME NEW t \in Txns
        PROVE  /\ row[t].captured \in Nat /\ row[t].refunded \in Nat
               /\ acq[t].captured \in Nat /\ acq[t].refunded \in Nat
               /\ acq[t].holds \in Nat /\ acq[t].voids \in Nat
    BY <1>1 DEF Rows, AcquirerStates
  <1>5. PICK t \in Txns : t = req[r].txn
    BY <1>2
  <1>6. op \in Ops \cup {"none"}
    BY <1>1 DEF RequestStates
  <1>7. /\ acq[t].holds <= m.holds /\ acq[t].voids <= m.voids
        /\ m.captured = acq[t].captured + IF op = "capture" THEN amount ELSE 0
        /\ m.refunded = acq[t].refunded + IF op = "refund" THEN amount ELSE 0
        /\ op = "authorize" => m.holds > 0
        /\ op = "void" => m.voids > 0
    <2>1. acq[t] \in AcquirerStates
      BY <1>1
    <2> HIDE DEF op, amount
    <2>2. CASE op \in Ops
      BY <1>1, <1>5, <2>1, <2>2, MovedEffect
    <2>3. CASE op = "none"
      BY <1>1, <1>5, <2>1, <2>3 DEF Moved, AcquirerStates
    <2>4. QED BY <1>6, <2>2, <2>3
  <1>8. acq'[t] = m /\ \A q \in Txns : q # t => acq'[q] = acq[q]
    BY <1>1, <1>3, <1>5
  <1>9. ASSUME NEW q \in Txns, NEW k \in {"capture", "refund"}
        PROVE  /\ Approved(req[r], q, k) = 0
               /\ Approved(n, q, k) = 0 \/ (q = t /\ op = k /\ Approved(n, q, k) = amount)
    BY <1>5 DEF Approved, Unbooked
  <1> HIDE DEF m, op, amount
  <1>10. ASSUME NEW q \in Txns
         PROVE  /\ acq[q].holds <= acq'[q].holds /\ acq[q].voids <= acq'[q].voids
                /\ row'[q].captured + Approved(n, q, "capture") + acq[q].captured
                     <= row[q].captured + Approved(req[r], q, "capture") + acq'[q].captured
                /\ row'[q].refunded + Approved(n, q, "refund") + acq[q].refunded
                     <= row[q].refunded + Approved(req[r], q, "refund") + acq'[q].refunded
    <2>1. CASE q = t
      BY <1>1, <1>4, <1>7, <1>8, <1>9, <2>1
    <2>2. CASE q # t
      BY <1>4, <1>8, <1>9, <2>2
    <2>3. QED BY <2>1, <2>2
  <1>11. n.pc \in Unbooked => /\ n.op = "authorize" => acq'[n.txn].holds > 0
                              /\ n.op = "void" => acq'[n.txn].voids > 0
    BY <1>5, <1>7, <1>8 DEF op
  <1>12. QED BY <1>10, <1>11, RequestKeeps

\* Insert, advisory check, decline, lock, rollback: nothing is booked and
\* nothing more is approved.
LEMMA UnapprovedStep ==
  ASSUME IInv, IInv', AcqInv, NEW r \in Requests,
         \/ \E t \in Txns, asked \in Asked :
              CapturePreCheck(r, t, asked) \/ RefundPreCheck(r, t, asked)
         \/ \E t \in Txns : VoidPreCheck(r, t)
         \/ AutoCapture(r) \/ AcquirerDeclines(r) \/ AcquirerInvalidCard(r)
         \/ LockRow(r) \/ CommitRefused(r) \/ Abandon(r)
  PROVE  AcqInv'
  <1>1. req \in [Requests -> RequestStates] /\ req[r] \in RequestStates
    BY DEF IInv, TypeOK, PayTypeOK
  <1>2. UNCHANGED <<row, acq>>
    BY DEF CapturePreCheck, RefundPreCheck, VoidPreCheck, AutoCapture, AcquirerDeclines,
           AcquirerInvalidCard, LockRow, CommitRefused, Abandon, dbVars
  <1>3. CASE req' = [req EXCEPT ![r] = Idle]
    <2>1. Idle.pc \notin Unbooked
      BY DEF Idle, Unbooked
    <2>2. QED BY <1>2, <1>3, <2>1, StillKeeps
  <1>4. ASSUME NEW op, NEW t, NEW amount, NEW auto, CallAcquirer(r, op, t, amount, auto)
        PROVE  AcqInv'
    <2> DEFINE n == [pc |-> "acquirer", op |-> op, txn |-> t, amount |-> amount, auto |-> auto]
    <2>1. n.pc \notin Unbooked
      BY DEF Unbooked
    <2>2. req' = [req EXCEPT ![r] = n]
      BY <1>4 DEF CallAcquirer
    <2> HIDE DEF n
    <2>3. QED BY <1>2, <2>1, <2>2, StillKeeps
  <1>5. CASE AcquirerDeclines(r)
    <2> DEFINE n == [req[r] EXCEPT !.pc = "writeback", !.op = "fail"]
    <2>1. n.op = "fail"
      BY <1>1 DEF RequestStates
    <2>2. req' = [req EXCEPT ![r] = n]
      BY <1>1, <1>5 DEF AcquirerDeclines
    <2> HIDE DEF n
    <2>3. QED BY <1>2, <2>1, <2>2, StillKeeps
  <1>6. CASE LockRow(r)
    <2> DEFINE n == [req[r] EXCEPT !.pc = "locked"]
    <2>1. n.txn = req[r].txn /\ n.op = req[r].op /\ n.amount = req[r].amount
      BY <1>1 DEF RequestStates
    <2>2. req' = [req EXCEPT ![r] = n] /\ req[r].pc \in Unbooked
      BY <1>6 DEF LockRow, Unbooked
    <2> HIDE DEF n
    <2>3. QED BY <1>2, <2>1, <2>2, StillKeeps
  <1>7. CASE AutoCapture(r)
    BY <1>3, <1>4, <1>7 DEF AutoCapture
  <1>8. CASE AcquirerInvalidCard(r) \/ CommitRefused(r) \/ Abandon(r)
    BY <1>3, <1>8 DEF AcquirerInvalidCard, CommitRefused, Abandon
  <1>9. ASSUME NEW t \in Txns, NEW asked \in Asked,
               CapturePreCheck(r, t, asked) \/ RefundPreCheck(r, t, asked)
        PROVE  AcqInv'
    BY <1>4, <1>9 DEF CapturePreCheck, RefundPreCheck
  <1>10. ASSUME NEW t \in Txns, VoidPreCheck(r, t) PROVE AcqInv'
    BY <1>4, <1>10 DEF VoidPreCheck
  <1>11. QED BY <1>5, <1>6, <1>7, <1>8, <1>9, <1>10

\* An order is inserted, or taken up again, before anything is approved for it.
LEMMA CreateKeeps ==
  ASSUME IInv, IInv', AcqInv, NEW r \in Requests, NEW t \in Txns, NEW amount \in Amounts,
         NEW auto \in BOOLEAN, Create(r, t, amount, auto)
  PROVE  AcqInv'
  <1> DEFINE n == [pc |-> "acquirer", op |-> "authorize", txn |-> t, amount |-> amount,
                   auto |-> auto]
  <1>1. n.pc \notin Unbooked
    BY DEF Unbooked
  <1>2. req' = [req EXCEPT ![r] = n] /\ UNCHANGED acq
    BY DEF Create, CallAcquirer
  <1> HIDE DEF n
  <1>3. CASE UNCHANGED row
    BY <1>1, <1>2, <1>3, StillKeeps
  <1>4. CASE /\ row[t].status = Absent
             /\ row' = [row EXCEPT ![t] = NewTransaction(amount)]
    <2>1. /\ row \in [Txns -> Rows] /\ acq \in [Txns -> AcquirerStates]
      BY DEF IInv, TypeOK, PayTypeOK
    <2>2. ASSUME NEW q \in Txns
          PROVE  /\ row[q].captured \in Nat /\ row[q].refunded \in Nat
                 /\ acq[q].captured \in Nat /\ acq[q].refunded \in Nat
                 /\ acq[q].holds \in Nat /\ acq[q].voids \in Nat
      BY <2>1 DEF Rows, AcquirerStates
    <2>3. /\ row'[t].captured = 0 /\ row'[t].refunded = 0 /\ row'[t].status = "created"
          /\ \A q \in Txns : q # t => row'[q] = row[q]
      BY <1>4, <2>1 DEF NewTransaction
    <2>4. \A q \in Txns : Approved(n, q, "capture") = 0 /\ Approved(n, q, "refund") = 0
      BY <1>1 DEF Approved, Unbooked
    <2>5. \A q \in Txns : Approved(req[r], q, "capture") \in Nat
                          /\ Approved(req[r], q, "refund") \in Nat
      BY Share
    <2>6. ASSUME NEW q \in Txns
          PROVE  /\ acq[q].holds <= acq'[q].holds /\ acq[q].voids <= acq'[q].voids
                 /\ row'[q].captured + Approved(n, q, "capture") + acq[q].captured
                      <= row[q].captured + Approved(req[r], q, "capture") + acq'[q].captured
                 /\ row'[q].refunded + Approved(n, q, "refund") + acq[q].refunded
                      <= row[q].refunded + Approved(req[r], q, "refund") + acq'[q].refunded
      <3>1. CASE q = t
        BY <1>2, <2>2, <2>3, <2>4, <2>5, <3>1
      <3>2. CASE q # t
        BY <1>2, <2>2, <2>3, <2>4, <2>5, <3>2
      <3>3. QED BY <3>1, <3>2
    <2>7. ASSUME NEW q \in Txns
          PROVE  /\ row'[q].status \in Held => row[q].status \in Held
                 /\ row'[q].status = "voided" => row[q].status = "voided"
      BY <2>3 DEF Held
    <2>8. QED BY <1>1, <1>2, <2>6, <2>7, RequestKeeps
  <1>5. QED BY <1>3, <1>4 DEF Create

\* The acquirer approves, or its answer is lost.
LEMMA AnswerStep ==
  ASSUME IInv, IInv', AcqInv, NEW r \in Requests,
         AcquirerApproves(r) \/ AcquirerUnavailable(r)
  PROVE  AcqInv'
  <1>1. req[r] \in RequestStates
    BY DEF IInv, TypeOK, PayTypeOK
  <1>2. req[r].pc = "acquirer" /\ UNCHANGED row
    BY DEF AcquirerApproves, AcquirerUnavailable, dbVars
  <1>3. CASE AcquirerApproves(r)
    <2> DEFINE n == [req[r] EXCEPT !.pc = "writeback"]
    <2>1. n.txn = req[r].txn /\ n.op = req[r].op /\ n.amount = req[r].amount
      BY <1>1 DEF RequestStates
    <2>2. req' = [req EXCEPT ![r] = n] /\ AcquirerMoves(r)
      BY <1>3 DEF AcquirerApproves
    <2> HIDE DEF n
    <2>3. QED BY <1>2, <2>1, <2>2, MoveKeeps
  <1>4. CASE AcquirerUnavailable(r)
    <2>1. req' = [req EXCEPT ![r] = Idle] /\ (AcquirerMoves(r) \/ UNCHANGED acq)
      BY <1>4 DEF AcquirerUnavailable
    <2>2. Idle.pc \notin Unbooked
      BY DEF Idle, Unbooked
    <2>3. QED BY <1>2, <2>1, <2>2, MoveKeeps, StillKeeps
  <1>5. QED BY <1>3, <1>4

\* What every commit of a request has: the row is the one read under the lock,
\* nothing is approved for its next state, and the acquirer is not called.
LEMMA CommitShape ==
  ASSUME IInv, NEW r \in Requests,
         \/ CommitAuthorize(r) \/ CommitFail(r) \/ CommitCapture(r)
         \/ CommitRefund(r) \/ CommitVoid(r)
  PROVE  /\ req[r].pc = "locked" /\ UNCHANGED acq
         /\ req[r].txn \in Txns /\ fresh[r] = row[req[r].txn] /\ row[req[r].txn] \in Rows
         /\ now \in Nat /\ req[r].amount \in Nat
         /\ \E n : n.pc \notin Unbooked /\ req' = [req EXCEPT ![r] = n]
  <1>1. req[r].pc = "locked" /\ UNCHANGED acq
    BY DEF CommitAuthorize, CommitFail, CommitCapture, CommitRefund, CommitVoid, Committing
  <1>2. /\ req[r].txn \in Txns /\ fresh[r] = row[req[r].txn] /\ row[req[r].txn] \in Rows
        /\ now \in Nat /\ req[r].amount \in Nat /\ req[r] \in RequestStates
    BY <1>1, LockedRequest DEF Consistent, IInv, TypeOK, PayTypeOK
  <1> DEFINE on == [req[r] EXCEPT !.pc = "autocapture"]
             down == Declined(req[r].txn)
  <1>3. Idle.pc \notin Unbooked /\ down.pc \notin Unbooked /\ on.pc \notin Unbooked
    BY <1>2 DEF Idle, Declined, Unbooked, RequestStates
  <1>4. \/ req' = [req EXCEPT ![r] = Idle]
        \/ req' = [req EXCEPT ![r] = on]
        \/ req' = [req EXCEPT ![r] = down]
    BY DEF CommitAuthorize, CommitFail, CommitCapture, CommitRefund, CommitVoid, Answer
  <1> HIDE DEF on, down
  <1>5. QED BY <1>1, <1>2, <1>3, <1>4

\* What a commit of request r does to the rows: it books the amount that r was
\* approved for, and only an approved authorization or void leads to the
\* statuses that need one.
BooksApproved(r) ==
  \A q \in Txns :
    /\ row'[q].captured = row[q].captured + Approved(req[r], q, "capture")
    /\ row'[q].refunded = row[q].refunded + Approved(req[r], q, "refund")
    /\ row'[q].status \in Held =>
         row[q].status \in Held \/ (q = req[r].txn /\ req[r].op = "authorize")
    /\ row'[q].status = "voided" =>
         row[q].status = "voided" \/ (q = req[r].txn /\ req[r].op = "void")

\* It is enough to look at the row that is written.
LEMMA OneRowWritten ==
  ASSUME IInv, NEW r \in Requests, NEW t \in Txns, t = req[r].txn, NEW y \in Rows,
         row' = [row EXCEPT ![t] = Committed(y)],
         y.captured = row[t].captured + Approved(req[r], t, "capture"),
         y.refunded = row[t].refunded + Approved(req[r], t, "refund"),
         y.status \in Held => row[t].status \in Held \/ req[r].op = "authorize",
         y.status = "voided" => req[r].op = "void"
  PROVE  BooksApproved(r)
  <1>1. row \in [Txns -> Rows]
    BY DEF IInv, TypeOK, PayTypeOK
  <1>2. PICK z \in Rows : z = Committed(y)
    BY CommittedRow
  <1>3. z.status = y.status /\ z.captured = y.captured /\ z.refunded = y.refunded
    BY <1>2, CommittedRow
  <1>4. row'[t] = z /\ \A q \in Txns : q # t => row'[q] = row[q]
    BY <1>1, <1>2
  <1>5. ASSUME NEW q \in Txns, q # t
        PROVE  /\ row'[q].captured = row[q].captured + Approved(req[r], q, "capture")
               /\ row'[q].refunded = row[q].refunded + Approved(req[r], q, "refund")
    <2>1. Approved(req[r], q, "capture") = 0 /\ Approved(req[r], q, "refund") = 0
      BY <1>5 DEF Approved
    <2>2. row[q].captured \in Nat /\ row[q].refunded \in Nat
      BY <1>1 DEF Rows
    <2>3. QED BY <1>4, <1>5, <2>1, <2>2
  <1>6. QED BY <1>3, <1>4, <1>5 DEF BooksApproved

\* Authorized, failed or voided: no money on the row.
LEMMA StatusBooks ==
  ASSUME IInv, NEW r \in Requests, CommitAuthorize(r) \/ CommitFail(r) \/ CommitVoid(r)
  PROVE  BooksApproved(r)
  <1>1. PICK t \in Txns : t = req[r].txn
    BY CommitShape
  <1>2. fresh[r] = row[t] /\ row[t] \in Rows /\ now \in Nat
    BY <1>1, CommitShape
  <1>3. /\ row \in [Txns -> Rows] /\ row[t].captured \in Nat /\ row[t].refunded \in Nat
    BY <1>2 DEF IInv, TypeOK, PayTypeOK, Rows
  <1>4. \A q \in Txns : Approved(req[r], q, "capture") = 0 /\ Approved(req[r], q, "refund") = 0
    BY DEF CommitAuthorize, CommitFail, CommitVoid, Committing, Approved
  <1>5. CASE CommitAuthorize(r)
    <2> DEFINE y == Authorize(row[t], now)
    <2>1. /\ y \in Rows /\ y.captured = row[t].captured /\ y.refunded = row[t].refunded
          /\ y.status = "authorized"
      BY <1>2 DEF Authorize, Rows, Status
    <2>2. row' = [row EXCEPT ![t] = Committed(y)] /\ req[r].op = "authorize"
      BY <1>1, <1>2, <1>5 DEF CommitAuthorize, Committing, Persist, Committed
    <2> HIDE DEF y
    <2>3. /\ y.captured = row[t].captured + Approved(req[r], t, "capture")
          /\ y.refunded = row[t].refunded + Approved(req[r], t, "refund")
      BY <1>3, <1>4, <2>1
    <2>4. QED BY <1>1, <2>1, <2>2, <2>3, OneRowWritten
  <1>6. CASE CommitFail(r)
    <2>1. CASE fresh[r].status = "created"
      <3> DEFINE y == Fail(row[t])
      <3>1. /\ y \in Rows /\ y.captured = row[t].captured /\ y.refunded = row[t].refunded
            /\ y.status = "failed"
        BY <1>2 DEF Fail, Rows, Status
      <3>2. row' = [row EXCEPT ![t] = Committed(y)]
        BY <1>1, <1>2, <1>6, <2>1 DEF CommitFail, Persist, Committed
      <3> HIDE DEF y
      <3>3. /\ y.captured = row[t].captured + Approved(req[r], t, "capture")
            /\ y.refunded = row[t].refunded + Approved(req[r], t, "refund")
        BY <1>3, <1>4, <3>1
      <3>4. y.status \notin Held
        BY <3>1 DEF Held
      <3>5. QED BY <1>1, <3>1, <3>2, <3>3, <3>4, OneRowWritten
    <2>2. CASE fresh[r].status # "created"
      <3>1. UNCHANGED row
        BY <1>6, <2>2 DEF CommitFail, dbVars
      <3>2. \A q \in Txns : row[q].captured \in Nat /\ row[q].refunded \in Nat
        BY <1>3 DEF Rows
      <3>3. QED BY <1>4, <3>1, <3>2 DEF BooksApproved
    <2>3. QED BY <2>1, <2>2
  <1>7. CASE CommitVoid(r)
    <2> DEFINE y == Void(row[t])
    <2>1. /\ y \in Rows /\ y.captured = row[t].captured /\ y.refunded = row[t].refunded
          /\ y.status = "voided"
      BY <1>2 DEF Void, Rows, Status
    <2>2. /\ row' = [row EXCEPT ![t] = Committed(y)]
          /\ req[r].op = "void" /\ CanVoid(row[t])
      BY <1>1, <1>2, <1>7 DEF CommitVoid, Committing, DomainAccepts, Persist, Committed
    <2>3. row[t].status \in Held
      BY <2>2 DEF CanVoid, CanTransitionTo, allowedTransitions, Status, Held
    <2> HIDE DEF y
    <2>4. /\ y.captured = row[t].captured + Approved(req[r], t, "capture")
          /\ y.refunded = row[t].refunded + Approved(req[r], t, "refund")
      BY <1>3, <1>4, <2>1
    <2>5. QED BY <1>1, <2>1, <2>2, <2>3, <2>4, OneRowWritten
  <1>8. QED BY <1>5, <1>6, <1>7

\* A capture books its amount.
LEMMA CaptureBooks ==
  ASSUME IInv, NEW r \in Requests, CommitCapture(r)
  PROVE  BooksApproved(r)
  <1>1. PICK t \in Txns : t = req[r].txn
    BY CommitShape
  <1>2. PICK amount \in Nat : amount = req[r].amount
    BY CommitShape
  <1>3. /\ req[r].pc = "locked" /\ fresh[r] = row[t] /\ row[t] \in Rows /\ now \in Nat
    BY <1>1, CommitShape
  <1>4. row[t].captured \in Nat /\ row[t].refunded \in Nat
    BY <1>3 DEF Rows
  <1> DEFINE y == Capture(row[t], amount, now)
  <1>5. /\ row' = [row EXCEPT ![t] = Committed(y)]
        /\ req[r].op = "capture" /\ CanCapture(row[t], amount, now)
    BY <1>1, <1>2, <1>3 DEF CommitCapture, Committing, DomainAccepts, Persist, Committed
  <1>6. row[t].status \in Held
    BY <1>5 DEF CanCapture, Held, Status
  <1>7. /\ y \in Rows /\ y.status = "captured" /\ y.captured = row[t].captured + amount
        /\ y.refunded = row[t].refunded
    <2> DEFINE at == IF row[t].capturedAt = Never THEN now ELSE row[t].capturedAt
               total == row[t].captured + amount
    <2>1. at \in Nat \cup {Never} /\ total \in Nat /\ "captured" \in Status
      BY <1>3, <1>4 DEF Rows, Status
    <2>2. y = [row[t] EXCEPT !.status = "captured", !.captured = total, !.capturedAt = at]
      BY DEF Capture
    <2> HIDE DEF at, total, y
    <2>3. /\ y \in Rows /\ y.status = "captured" /\ y.captured = total
          /\ y.refunded = row[t].refunded
      BY <1>3, <2>1, <2>2 DEF Rows
    <2>4. QED BY <2>3 DEF total
  <1>8. Approved(req[r], t, "capture") = amount /\ Approved(req[r], t, "refund") = 0
    BY <1>1, <1>2, <1>3, <1>5 DEF Approved
  <1> HIDE DEF y
  <1>9. /\ y.captured = row[t].captured + Approved(req[r], t, "capture")
        /\ y.refunded = row[t].refunded + Approved(req[r], t, "refund")
    BY <1>4, <1>7, <1>8
  <1>10. y.status # "voided"
    BY <1>7
  <1>11. QED BY <1>1, <1>5, <1>6, <1>7, <1>9, <1>10, OneRowWritten

\* A refund books its amount.
LEMMA RefundBooks ==
  ASSUME IInv, NEW r \in Requests, CommitRefund(r)
  PROVE  BooksApproved(r)
  <1>1. PICK t \in Txns : t = req[r].txn
    BY CommitShape
  <1>2. PICK amount \in Nat : amount = req[r].amount
    BY CommitShape
  <1>3. /\ req[r].pc = "locked" /\ fresh[r] = row[t] /\ row[t] \in Rows
    BY <1>1, CommitShape
  <1>4. row[t].captured \in Nat /\ row[t].refunded \in Nat
    BY <1>3 DEF Rows
  <1> DEFINE y == Refund(row[t], amount)
  <1>5. /\ row' = [row EXCEPT ![t] = Committed(y)]
        /\ req[r].op = "refund" /\ CanRefund(row[t], amount)
    BY <1>1, <1>2, <1>3 DEF CommitRefund, Committing, DomainAccepts, Persist, Committed
  <1>6. row[t].status \in {"captured", "settled"} /\ row[t].status \in Held
    BY <1>5 DEF CanRefund, Held, Status
  <1>7. /\ y \in Rows /\ y.status # "voided" /\ y.captured = row[t].captured
        /\ y.refunded = row[t].refunded + amount
    <2> DEFINE st == IF row[t].refunded + amount = row[t].captured
                     THEN "refunded" ELSE row[t].status
               total == row[t].refunded + amount
    <2>1. st \in Status /\ total \in Nat /\ st # "voided"
      BY <1>4, <1>6 DEF Status
    <2>2. y = [row[t] EXCEPT !.refunded = total, !.status = st]
      BY DEF Refund
    <2> HIDE DEF st, total, y
    <2>3. /\ y \in Rows /\ y.status = st /\ y.captured = row[t].captured
          /\ y.refunded = total
      BY <1>3, <2>1, <2>2 DEF Rows
    <2>4. QED BY <2>1, <2>3 DEF total
  <1>8. Approved(req[r], t, "refund") = amount /\ Approved(req[r], t, "capture") = 0
    BY <1>1, <1>2, <1>3, <1>5 DEF Approved
  <1> HIDE DEF y
  <1>9. /\ y.captured = row[t].captured + Approved(req[r], t, "capture")
        /\ y.refunded = row[t].refunded + Approved(req[r], t, "refund")
    BY <1>4, <1>7, <1>8
  <1>10. y.status # "voided"
    BY <1>7
  <1>11. QED BY <1>1, <1>5, <1>6, <1>7, <1>9, <1>10, OneRowWritten

\* What is in flight goes down by what the row goes up.
LEMMA CommitStep ==
  ASSUME IInv, IInv', AcqInv, NEW r \in Requests,
         \/ CommitAuthorize(r) \/ CommitFail(r) \/ CommitCapture(r)
         \/ CommitRefund(r) \/ CommitVoid(r)
  PROVE  AcqInv'
  <1>1. PICK n : n.pc \notin Unbooked /\ req' = [req EXCEPT ![r] = n]
    BY CommitShape
  <1>2. BooksApproved(r)
    BY StatusBooks, CaptureBooks, RefundBooks
  <1>3. req[r].pc = "locked" /\ UNCHANGED acq
    BY CommitShape
  <1>4. row \in [Txns -> Rows] /\ acq \in [Txns -> AcquirerStates]
    BY DEF IInv, TypeOK, PayTypeOK
  <1>5. /\ req[r].op = "authorize" => acq[req[r].txn].holds > 0
        /\ req[r].op = "void" => acq[req[r].txn].voids > 0
    BY <1>3 DEF AcqInv, ApprovedFirst, Unbooked
  <1>6. ASSUME NEW q \in Txns
        PROVE  /\ acq[q].holds <= acq'[q].holds /\ acq[q].voids <= acq'[q].voids
               /\ row'[q].captured + Approved(n, q, "capture") + acq[q].captured
                    <= row[q].captured + Approved(req[r], q, "capture") + acq'[q].captured
               /\ row'[q].refunded + Approved(n, q, "refund") + acq[q].refunded
                    <= row[q].refunded + Approved(req[r], q, "refund") + acq'[q].refunded
    <2>1. /\ row[q].captured \in Nat /\ row[q].refunded \in Nat
          /\ acq[q].captured \in Nat /\ acq[q].refunded \in Nat
          /\ acq[q].holds \in Nat /\ acq[q].voids \in Nat
      BY <1>4 DEF Rows, AcquirerStates
    <2>2. Approved(n, q, "capture") = 0 /\ Approved(n, q, "refund") = 0
      BY <1>1 DEF Approved, Unbooked
    <2>3. Approved(req[r], q, "capture") \in Nat /\ Approved(req[r], q, "refund") \in Nat
      BY Share
    <2>4. QED BY <1>2, <1>3, <2>1, <2>2, <2>3 DEF BooksApproved
  <1>7. ASSUME NEW q \in Txns
        PROVE  /\ row'[q].status \in Held => row[q].status \in Held \/ acq'[q].holds > 0
               /\ row'[q].status = "voided" => row[q].status = "voided" \/ acq'[q].voids > 0
    BY <1>2, <1>3, <1>5 DEF BooksApproved
  <1>8. QED BY <1>1, <1>6, <1>7, RequestKeeps

\* A settlement moves no money at the acquirer and none on the row.
LEMMA SettledRow ==
  ASSUME IInv, NEW j \in Jobs, SettleCommit(j)
  PROVE  \A q \in Txns :
           /\ row'[q].captured = row[q].captured /\ row'[q].refunded = row[q].refunded
           /\ row'[q].status \in Held => row[q].status \in Held
           /\ row'[q].status = "voided" => row[q].status = "voided"
  <1>1. CASE fresh[j].status = "captured"
    <2>1. job[j].pc = "locked"
      BY DEF SettleCommit
    <2>2. PICK t \in Txns : t = job[j].txn /\ fresh[j] = row[t] /\ row[t] \in Rows
      BY <2>1, LockedJob DEF Consistent
    <2> DEFINE y == Settle(row[t])
    <2>3. /\ y \in Rows /\ y.status = "settled" /\ y.captured = row[t].captured
          /\ y.refunded = row[t].refunded
      BY <2>2 DEF Settle, Rows, Status
    <2>4. row' = [row EXCEPT ![t] = Committed(y)]
      BY <1>1, <2>2 DEF SettleCommit, Persist, Committed
    <2>5. row \in [Txns -> Rows]
      BY DEF IInv, TypeOK, PayTypeOK
    <2> HIDE DEF y
    <2>6. PICK z \in Rows : z = Committed(y)
      BY <2>3, CommittedRow
    <2>7. /\ z.status = "settled" /\ z.captured = row[t].captured
          /\ z.refunded = row[t].refunded
      BY <2>3, <2>6, CommittedRow
    <2>8. row'[t] = z /\ \A q \in Txns : q # t => row'[q] = row[q]
      BY <2>4, <2>5, <2>6
    <2>9. row[t].status \in Held
      BY <1>1, <2>2 DEF Held, Status
    <2>10. QED BY <2>7, <2>8, <2>9
  <1>2. CASE fresh[j].status # "captured"
    BY <1>2 DEF SettleCommit, dbVars
  <1>3. QED BY <1>1, <1>2

-----------------------------------------------------------------------------
(* The theorem.                                                            *)

\* Nothing is in flight at the start.
LEMMA InitInFlight ==
  ASSUME Init, NEW t \in Txns, NEW op
  PROVE  InFlight(t, op) = 0
  <1> DEFINE w == [i \in 1..Cardinality(Requests) |-> Approved(req[RequestOrder[i]], t, op)]
  <1>1. RequestOrder \in [1..Cardinality(Requests) -> Requests] /\ Cardinality(Requests) \in Nat
    BY OrderExists
  <1>2. \A r \in Requests : req[r] = Idle
    BY DEF Init, PayInit
  <1>3. \A i \in 1..Cardinality(Requests) : w[i] = 0
    BY <1>1, <1>2 DEF Approved, Idle
  <1>4. w \in Seq(Int) /\ Len(w) = Cardinality(Requests)
    BY <1>1, <1>3
  <1>5. Sum(w) = 0
    <2> HIDE DEF w
    <2>1. QED BY <1>3, <1>4, SumOfZeros
  <1>6. QED BY <1>5 DEF InFlight

\* The invariant holds at the start.
LEMMA InitApproved == Init => AcqInv
  <1> SUFFICES ASSUME Init PROVE AcqInv
    OBVIOUS
  <1>1. \A r \in Requests : req[r] = Idle
    BY DEF Init, PayInit
  <1>2. \A r \in Requests : ApprovedFirst(req[r])
    BY <1>1 DEF ApprovedFirst, Idle, Unbooked
  <1>3. \A t \in Txns : InFlight(t, "capture") = 0 /\ InFlight(t, "refund") = 0
    BY InitInFlight
  <1>4. ASSUME NEW t \in Txns PROVE Covered(t)
    <2>1. row[t] = NoRow /\ acq[t] = [holds |-> 0, captured |-> 0, refunded |-> 0, voids |-> 0]
      BY DEF Init, PayInit
    <2>2. row[t].status = Absent /\ row[t].captured = 0 /\ row[t].refunded = 0
          /\ acq[t].captured = 0 /\ acq[t].refunded = 0
      BY <2>1 DEF NoRow
    <2>3. QED BY <1>3, <2>2 DEF Covered, Held, Status, Absent
  <1>5. QED BY <1>2, <1>4 DEF AcqInv

\* Every step keeps it.
LEMMA NextApproved == IInv /\ IInv' /\ AcqInv /\ [Next]_vars => AcqInv'
  <1> SUFFICES ASSUME IInv, IInv', AcqInv, [Next]_vars PROVE AcqInv'
    OBVIOUS
  <1>1. CASE UNCHANGED vars \/ Tick
    <2>1. UNCHANGED <<row, req, acq>>
      BY <1>1 DEF vars, payVars, Tick, dbVars
    <2>2. QED BY <2>1, RowKeeps
  <1>2. ASSUME NEW r \in Requests, RequestStep(r) PROVE AcqInv'
    <2>1. ASSUME NEW t \in Txns, NEW amount \in Amounts, NEW auto \in BOOLEAN,
                 Create(r, t, amount, auto)
          PROVE  AcqInv'
      BY <2>1, CreateKeeps
    <2>2. ASSUME NEW t \in Txns, NEW asked \in Asked,
                 CapturePreCheck(r, t, asked) \/ RefundPreCheck(r, t, asked)
          PROVE  AcqInv'
      BY <2>2, UnapprovedStep
    <2>3. ASSUME NEW t \in Txns, VoidPreCheck(r, t) PROVE AcqInv'
      BY <2>3, UnapprovedStep
    <2>4. CASE \/ AutoCapture(r) \/ AcquirerDeclines(r) \/ AcquirerInvalidCard(r)
               \/ LockRow(r) \/ CommitRefused(r) \/ Abandon(r)
      BY <2>4, UnapprovedStep
    <2>5. CASE AcquirerApproves(r) \/ AcquirerUnavailable(r)
      BY <2>5, AnswerStep
    <2>6. CASE \/ CommitAuthorize(r) \/ CommitFail(r) \/ CommitCapture(r)
               \/ CommitRefund(r) \/ CommitVoid(r)
      BY <2>6, CommitStep
    <2>7. QED BY <1>2, <2>1, <2>2, <2>3, <2>4, <2>5, <2>6
                 DEF RequestStep, Arrive, Advance
  <1>3. ASSUME NEW j \in Jobs, NEW d \in 0..now, Scan(j, d) PROVE AcqInv'
    <2>1. UNCHANGED <<row, req, acq>>
      BY <1>3 DEF Scan, payVars
    <2>2. QED BY <2>1, RowKeeps
  <1>4. ASSUME NEW j \in Jobs, JobAdvance(j) \/ JobDies(j) PROVE AcqInv'
    <2>1. CASE Compare(j) \/ Decide(j) \/ Finish(j) \/ JobDies(j)
      <3>1. UNCHANGED <<row, req, acq>>
        BY <2>1 DEF Compare, Decide, Finish, JobDies, payVars, dbVars
      <3>2. QED BY <3>1, RowKeeps
    <2>2. ASSUME NEW t \in Txns, SettleLock(j, t) PROVE AcqInv'
      <3>1. UNCHANGED <<row, req, acq>>
        BY <2>2 DEF SettleLock, dbVars
      <3>2. QED BY <3>1, RowKeeps
    <2>3. CASE SettleCommit(j)
      <3>1. UNCHANGED <<req, acq>>
        BY <2>3 DEF SettleCommit
      <3>2. QED BY <2>3, <3>1, SettledRow, RowKeeps
    <2>4. QED BY <1>4, <2>1, <2>2, <2>3 DEF JobAdvance
  <1>5. QED BY <1>1, <1>2, <1>3, <1>4 DEF Next, PayNext

\* The books never claim money that the acquirer did not move, although the
\* acquirer is called before the lock is taken, several approved operations of
\* one payment wait for it together, and timeouts leave approvals that are never
\* booked.
THEOREM NoMoneyFromNothing == Spec => []NoPhantomMoney
  <1>1. IInv /\ AcqInv => NoPhantomMoney
    <2> SUFFICES ASSUME IInv, AcqInv, NEW t \in Txns
                 PROVE  /\ row[t].captured <= acq[t].captured
                        /\ row[t].refunded <= acq[t].refunded
                        /\ row[t].status \notin {Absent, "created", "failed"} => acq[t].holds > 0
                        /\ row[t].status = "voided" => acq[t].voids > 0
      BY DEF NoPhantomMoney
    <2>1. /\ req \in [Requests -> RequestStates] /\ row[t] \in Rows
          /\ acq[t] \in AcquirerStates
      BY DEF IInv, TypeOK, PayTypeOK
    <2>2. /\ row[t].captured \in Nat /\ row[t].refunded \in Nat
          /\ acq[t].captured \in Nat /\ acq[t].refunded \in Nat
          /\ row[t].status \in Status \cup {Absent}
      BY <2>1 DEF Rows, AcquirerStates
    <2>3. InFlight(t, "capture") \in Nat /\ InFlight(t, "refund") \in Nat
      BY <2>1, InFlightType
    <2>4. Covered(t)
      BY DEF AcqInv
    <2>5. row[t].status \notin {Absent, "created", "failed"} => row[t].status \in Held
      BY <2>2 DEF Held
    <2>6. QED BY <2>2, <2>3, <2>4, <2>5 DEF Covered
  <1>2. QED BY <1>1, Invariance, InitApproved, NextApproved, PTL DEF Spec

-----------------------------------------------------------------------------
(* Losing the double-check is never silent.                                *)

\* NewCaptureEntryGroup accepts every capture the domain accepts.  Nothing in
\* the code checks it, and it fails of a fee that takes the whole capture: the
\* merchant's leg is then zero, Validate refuses the group, and the transaction
\* rolls back without the log line.
CapturesBook == \A a \in Amounts : \A c \in 1..a : CaptureBookable(c, Fee(c, FeeBPS))

\* What DriftIsAlerted says of one payment.
Explained(t) ==
  /\ acq[t].captured = row[t].captured + alerted[t].captured + InFlight(t, "capture")
  /\ acq[t].refunded = row[t].refunded + alerted[t].refunded + InFlight(t, "refund")

AllExplained == \A t \in Txns : Explained(t)

\* What a step of request r, after which it is n, adds on one side of the
\* equations it adds on the other.
Even(r, n) ==
  \A t \in Txns :
    /\ row'[t].captured + alerted'[t].captured + Approved(n, t, "capture") + acq[t].captured
         = row[t].captured + alerted[t].captured + Approved(req[r], t, "capture")
             + acq'[t].captured
    /\ row'[t].refunded + alerted'[t].refunded + Approved(n, t, "refund") + acq[t].refunded
         = row[t].refunded + alerted[t].refunded + Approved(req[r], t, "refund")
             + acq'[t].refunded

\* The amounts are naturals.
LEMMA AmountTypes ==
  ASSUME IInv, NEW t \in Txns
  PROVE  /\ row[t].captured \in Nat /\ row[t].refunded \in Nat
         /\ acq[t].captured \in Nat /\ acq[t].refunded \in Nat
         /\ alerted[t].captured \in Nat /\ alerted[t].refunded \in Nat
  BY DEF IInv, TypeOK, PayTypeOK, Rows, AcquirerStates

\* An even step keeps the equations.
LEMMA EvenKeeps ==
  ASSUME IInv, IInv', AllExplained, NEW r \in Requests, NEW n,
         req' = [req EXCEPT ![r] = n], Even(r, n)
  PROVE  AllExplained'
  <1>1. req \in [Requests -> RequestStates] /\ n \in RequestStates
    BY DEF IInv, TypeOK, PayTypeOK
  <1>2. ASSUME NEW t \in Txns PROVE Explained(t)'
    <2>1. /\ row[t].captured \in Nat /\ row[t].refunded \in Nat
          /\ acq[t].captured \in Nat /\ acq[t].refunded \in Nat
          /\ alerted[t].captured \in Nat /\ alerted[t].refunded \in Nat
      BY AmountTypes
    <2>2. /\ row'[t].captured \in Nat /\ row'[t].refunded \in Nat
          /\ acq'[t].captured \in Nat /\ acq'[t].refunded \in Nat
          /\ alerted'[t].captured \in Nat /\ alerted'[t].refunded \in Nat
      BY DEF IInv, TypeOK, PayTypeOK, Rows, AcquirerStates
    <2>3. acq'[t].captured = row'[t].captured + alerted'[t].captured + InFlight(t, "capture")'
      <3>1. PICK f \in Nat : f = InFlight(t, "capture")
        BY <1>1, InFlightType
      <3>2. PICK p \in Nat : p = Approved(n, t, "capture")
        BY <1>1 DEF Approved, RequestStates
      <3>3. PICK q \in Nat : q = Approved(req[r], t, "capture")
        BY <1>1 DEF Approved, RequestStates
      <3>4. InFlight(t, "capture")' = f + p - q
        BY <1>1, <3>1, <3>2, <3>3, InFlightChange
      <3>5. acq[t].captured = row[t].captured + alerted[t].captured + f
        BY <3>1 DEF AllExplained, Explained
      <3>6. row'[t].captured + alerted'[t].captured + p + acq[t].captured
              = row[t].captured + alerted[t].captured + q + acq'[t].captured
        BY <3>2, <3>3 DEF Even
      <3>7. QED BY <2>1, <2>2, <3>4, <3>5, <3>6
    <2>4. acq'[t].refunded = row'[t].refunded + alerted'[t].refunded + InFlight(t, "refund")'
      <3>1. PICK f \in Nat : f = InFlight(t, "refund")
        BY <1>1, InFlightType
      <3>2. PICK p \in Nat : p = Approved(n, t, "refund")
        BY <1>1 DEF Approved, RequestStates
      <3>3. PICK q \in Nat : q = Approved(req[r], t, "refund")
        BY <1>1 DEF Approved, RequestStates
      <3>4. InFlight(t, "refund")' = f + p - q
        BY <1>1, <3>1, <3>2, <3>3, InFlightChange
      <3>5. acq[t].refunded = row[t].refunded + alerted[t].refunded + f
        BY <3>1 DEF AllExplained, Explained
      <3>6. row'[t].refunded + alerted'[t].refunded + p + acq[t].refunded
              = row[t].refunded + alerted[t].refunded + q + acq'[t].refunded
        BY <3>2, <3>3 DEF Even
      <3>7. QED BY <2>1, <2>2, <3>4, <3>5, <3>6
    <2>5. QED BY <2>3, <2>4 DEF Explained
  <1>3. QED BY <1>2 DEF AllExplained

\* A step that leaves the requests, the acquirer and the amounts alone.
LEMMA AmountsKept ==
  ASSUME AllExplained, UNCHANGED <<req, acq, alerted>>,
         \A t \in Txns :
           row'[t].captured = row[t].captured /\ row'[t].refunded = row[t].refunded
  PROVE  AllExplained'
  <1>1. ASSUME NEW t, NEW op PROVE InFlight(t, op)' = InFlight(t, op)
    BY DEF InFlight
  <1>2. QED BY <1>1 DEF AllExplained, Explained

\* A step of a request that writes nothing and moves no money is even when what
\* the request is approved for stays the same.
LEMMA StillEven ==
  ASSUME IInv, NEW r \in Requests, NEW n, UNCHANGED <<row, acq, alerted>>,
         \A t \in Txns : /\ Approved(n, t, "capture") = Approved(req[r], t, "capture")
                         /\ Approved(n, t, "refund") = Approved(req[r], t, "refund")
  PROVE  Even(r, n)
  BY DEF Even

\* Before the acquirer's answer, and between it and the lock.
LEMMA QuietEven ==
  ASSUME IInv, IInv', AllExplained, NEW r \in Requests,
         \/ \E t \in Txns, asked \in Asked :
              CapturePreCheck(r, t, asked) \/ RefundPreCheck(r, t, asked)
         \/ \E t \in Txns : VoidPreCheck(r, t)
         \/ AutoCapture(r) \/ AcquirerDeclines(r) \/ AcquirerInvalidCard(r) \/ LockRow(r)
  PROVE  AllExplained'
  <1>1. req \in [Requests -> RequestStates] /\ req[r] \in RequestStates
    BY DEF IInv, TypeOK, PayTypeOK
  <1>2. UNCHANGED <<row, acq, alerted>>
    BY DEF CapturePreCheck, RefundPreCheck, VoidPreCheck, AutoCapture, AcquirerDeclines,
           AcquirerInvalidCard, LockRow, dbVars
  <1>3. ASSUME NEW n, req' = [req EXCEPT ![r] = n], req[r].pc \notin Unbooked,
               n.pc \notin Unbooked \/ n.op = "fail"
        PROVE  AllExplained'
    <2>1. \A t \in Txns : /\ Approved(n, t, "capture") = Approved(req[r], t, "capture")
                          /\ Approved(n, t, "refund") = Approved(req[r], t, "refund")
      BY <1>3 DEF Approved, Unbooked
    <2>2. QED BY <1>2, <1>3, <2>1, StillEven, EvenKeeps
  <1>4. ASSUME NEW op, NEW t, NEW amount, NEW auto, CallAcquirer(r, op, t, amount, auto),
               req[r].pc \notin Unbooked
        PROVE  AllExplained'
    <2> DEFINE n == [pc |-> "acquirer", op |-> op, txn |-> t, amount |-> amount, auto |-> auto]
    <2>1. n.pc \notin Unbooked
      BY DEF Unbooked
    <2>2. req' = [req EXCEPT ![r] = n]
      BY <1>4 DEF CallAcquirer
    <2> HIDE DEF n
    <2>3. QED BY <1>3, <1>4, <2>1, <2>2
  <1>5. CASE LockRow(r)
    <2> DEFINE n == [req[r] EXCEPT !.pc = "locked"]
    <2>1. n.txn = req[r].txn /\ n.op = req[r].op /\ n.amount = req[r].amount
          /\ n.pc = "locked"
      BY <1>1 DEF RequestStates
    <2>2. req' = [req EXCEPT ![r] = n] /\ req[r].pc = "writeback"
      BY <1>5 DEF LockRow
    <2> HIDE DEF n
    <2>3. \A t \in Txns : /\ Approved(n, t, "capture") = Approved(req[r], t, "capture")
                          /\ Approved(n, t, "refund") = Approved(req[r], t, "refund")
      BY <2>1, <2>2 DEF Approved
    <2>4. QED BY <1>2, <2>2, <2>3, StillEven, EvenKeeps
  <1>6. CASE AcquirerDeclines(r)
    <2> DEFINE n == [req[r] EXCEPT !.pc = "writeback", !.op = "fail"]
    <2>1. n.op = "fail"
      BY <1>1 DEF RequestStates
    <2>2. req' = [req EXCEPT ![r] = n] /\ req[r].pc \notin Unbooked
      BY <1>1, <1>6 DEF AcquirerDeclines, Unbooked
    <2> HIDE DEF n
    <2>3. QED BY <1>3, <2>1, <2>2
  <1>7. Idle.pc \notin Unbooked
    BY DEF Idle, Unbooked
  <1>8. CASE AutoCapture(r)
    <2>1. req[r].pc \notin Unbooked
      BY <1>8 DEF AutoCapture, Unbooked
    <2>2. QED BY <1>3, <1>4, <1>7, <1>8, <2>1 DEF AutoCapture
  <1>9. CASE AcquirerInvalidCard(r)
    <2>1. req[r].pc \notin Unbooked
      BY <1>9 DEF AcquirerInvalidCard, Unbooked
    <2>2. QED BY <1>3, <1>7, <1>9, <2>1 DEF AcquirerInvalidCard
  <1>10. ASSUME NEW t \in Txns, NEW asked \in Asked,
                CapturePreCheck(r, t, asked) \/ RefundPreCheck(r, t, asked)
         PROVE  AllExplained'
    <2>1. req[r].pc \notin Unbooked
      BY <1>10 DEF CapturePreCheck, RefundPreCheck, Accept, Resting, Unbooked
    <2>2. QED BY <1>4, <1>10, <2>1 DEF CapturePreCheck, RefundPreCheck
  <1>11. ASSUME NEW t \in Txns, VoidPreCheck(r, t) PROVE AllExplained'
    <2>1. req[r].pc \notin Unbooked
      BY <1>11 DEF VoidPreCheck, Accept, Resting, Unbooked
    <2>2. QED BY <1>4, <1>11, <2>1 DEF VoidPreCheck
  <1>12. QED BY <1>5, <1>6, <1>8, <1>9, <1>10, <1>11

\* An insert moves nothing.
LEMMA CreateEven ==
  ASSUME IInv, IInv', AllExplained, NEW r \in Requests, NEW t \in Txns,
         NEW amount \in Amounts, NEW auto \in BOOLEAN, Create(r, t, amount, auto)
  PROVE  AllExplained'
  <1> DEFINE n == [pc |-> "acquirer", op |-> "authorize", txn |-> t, amount |-> amount,
                   auto |-> auto]
  <1>1. n.pc \notin Unbooked
    BY DEF Unbooked
  <1>2. req' = [req EXCEPT ![r] = n] /\ UNCHANGED <<acq, alerted>> /\ req[r].pc \notin Unbooked
    BY DEF Create, CallAcquirer, Accept, Resting, Unbooked
  <1> HIDE DEF n
  <1>3. \A q \in Txns : /\ Approved(n, q, "capture") = 0 /\ Approved(n, q, "refund") = 0
                        /\ Approved(req[r], q, "capture") = 0 /\ Approved(req[r], q, "refund") = 0
    BY <1>1, <1>2 DEF Approved, Unbooked
  <1>4. ASSUME NEW q \in Txns
        PROVE  row'[q].captured = row[q].captured /\ row'[q].refunded = row[q].refunded
    <2>1. CASE UNCHANGED row
      BY <2>1
    <2>2. CASE /\ row[t].status = Absent
               /\ row' = [row EXCEPT ![t] = NewTransaction(amount)]
      <3>1. row \in [Txns -> Rows] /\ row[t].captured = 0 /\ row[t].refunded = 0
        BY SMTT(30), <2>2 DEF IInv, TypeOK, PayTypeOK, AllConsistent, Consistent, NoRow
      <3>2. QED BY <2>2, <3>1 DEF NewTransaction
    <2>3. QED BY <2>1, <2>2 DEF Create
  <1>5. Even(r, n)
    BY <1>2, <1>3, <1>4 DEF Even
  <1>6. QED BY <1>2, <1>5, EvenKeeps

\* The acquirer moves the amount and the request is approved for it.
LEMMA ApprovalEven ==
  ASSUME IInv, IInv', AllExplained, NEW r \in Requests, AcquirerApproves(r)
  PROVE  AllExplained'
  <1> DEFINE n == [req[r] EXCEPT !.pc = "writeback"]
             m == Moved(acq[req[r].txn], req[r].op, req[r].amount)
  <1>1. /\ acq \in [Txns -> AcquirerStates] /\ req[r] \in RequestStates
        /\ req[r].amount \in Nat
    BY DEF IInv, TypeOK, PayTypeOK, RequestStates
  <1>2. req[r].pc = "acquirer" /\ UNCHANGED <<row, alerted>> /\ req' = [req EXCEPT ![r] = n]
        /\ acq' = [acq EXCEPT ![req[r].txn] = m]
    BY DEF AcquirerApproves, AcquirerMoves, dbVars
  <1>3. PICK t \in Txns : t = req[r].txn
    BY <1>2, Busy DEF Resting
  <1>4. /\ n.txn = req[r].txn /\ n.op = req[r].op /\ n.amount = req[r].amount
        /\ n.pc = "writeback"
    BY <1>1 DEF RequestStates
  <1>5. /\ acq[t].captured \in Nat /\ acq[t].refunded \in Nat
        /\ m.captured = acq[t].captured + IF req[r].op = "capture" THEN req[r].amount ELSE 0
        /\ m.refunded = acq[t].refunded + IF req[r].op = "refund" THEN req[r].amount ELSE 0
    BY <1>1, <1>3 DEF Moved, AcquirerStates
  <1>6. acq'[t] = m /\ \A q \in Txns : q # t => acq'[q] = acq[q]
    BY <1>1, <1>2, <1>3
  <1> HIDE DEF n, m
  <1>7. ASSUME NEW q \in Txns
        PROVE  /\ Approved(req[r], q, "capture") = 0 /\ Approved(req[r], q, "refund") = 0
               /\ Approved(n, q, "capture") = IF q = t /\ req[r].op = "capture"
                                              THEN req[r].amount ELSE 0
               /\ Approved(n, q, "refund") = IF q = t /\ req[r].op = "refund"
                                             THEN req[r].amount ELSE 0
    BY <1>2, <1>3, <1>4 DEF Approved
  <1>8. ASSUME NEW q \in Txns
        PROVE  /\ Approved(n, q, "capture") + acq[q].captured
                    = Approved(req[r], q, "capture") + acq'[q].captured
               /\ Approved(n, q, "refund") + acq[q].refunded
                    = Approved(req[r], q, "refund") + acq'[q].refunded
               /\ Approved(n, q, "capture") \in Nat /\ Approved(n, q, "refund") \in Nat
               /\ acq'[q].captured \in Nat /\ acq'[q].refunded \in Nat
    <2>1. acq[q].captured \in Nat /\ acq[q].refunded \in Nat
      BY AmountTypes
    <2>2. CASE q = t
      BY <1>1, <1>5, <1>6, <1>7, <2>2
    <2>3. CASE q # t
      BY <1>6, <1>7, <2>1, <2>3
    <2>4. QED BY <2>2, <2>3
  <1>9. Even(r, n)
    <2> SUFFICES ASSUME NEW q \in Txns
                 PROVE  /\ row'[q].captured + alerted'[q].captured + Approved(n, q, "capture")
                             + acq[q].captured
                             = row[q].captured + alerted[q].captured
                                 + Approved(req[r], q, "capture") + acq'[q].captured
                        /\ row'[q].refunded + alerted'[q].refunded + Approved(n, q, "refund")
                             + acq[q].refunded
                             = row[q].refunded + alerted[q].refunded
                                 + Approved(req[r], q, "refund") + acq'[q].refunded
      BY DEF Even
    <2>1. /\ row[q].captured \in Nat /\ row[q].refunded \in Nat
          /\ acq[q].captured \in Nat /\ acq[q].refunded \in Nat
          /\ alerted[q].captured \in Nat /\ alerted[q].refunded \in Nat
      BY AmountTypes
    <2>2. Approved(req[r], q, "capture") \in Nat /\ Approved(req[r], q, "refund") \in Nat
      BY Share
    <2>3. /\ Approved(n, q, "capture") + acq[q].captured
               = Approved(req[r], q, "capture") + acq'[q].captured
          /\ Approved(n, q, "refund") + acq[q].refunded
               = Approved(req[r], q, "refund") + acq'[q].refunded
          /\ Approved(n, q, "capture") \in Nat /\ Approved(n, q, "refund") \in Nat
          /\ acq'[q].captured \in Nat /\ acq'[q].refunded \in Nat
          /\ row'[q] = row[q] /\ alerted'[q] = alerted[q]
      BY <1>2, <1>8
    <2>4. row'[q].captured + alerted'[q].captured + Approved(n, q, "capture")
            + acq[q].captured
            = row[q].captured + alerted[q].captured
                + Approved(req[r], q, "capture") + acq'[q].captured
      <3>1. PICK a \in Nat : a = Approved(n, q, "capture")
        BY <2>3
      <3>2. PICK b \in Nat : b = Approved(req[r], q, "capture")
        BY <2>2
      <3>3. a + acq[q].captured = b + acq'[q].captured
        BY <2>3, <3>1, <3>2
      <3>4. row'[q].captured + alerted'[q].captured + a + acq[q].captured
              = row[q].captured + alerted[q].captured + b + acq'[q].captured
        BY <2>1, <2>3, <3>3
      <3>5. QED BY <3>1, <3>2, <3>4
    <2>5. row'[q].refunded + alerted'[q].refunded + Approved(n, q, "refund")
            + acq[q].refunded
            = row[q].refunded + alerted[q].refunded
                + Approved(req[r], q, "refund") + acq'[q].refunded
      <3>1. PICK a \in Nat : a = Approved(n, q, "refund")
        BY <2>3
      <3>2. PICK b \in Nat : b = Approved(req[r], q, "refund")
        BY <2>2
      <3>3. a + acq[q].refunded = b + acq'[q].refunded
        BY <2>3, <3>1, <3>2
      <3>4. row'[q].refunded + alerted'[q].refunded + a + acq[q].refunded
              = row[q].refunded + alerted[q].refunded + b + acq'[q].refunded
        BY <2>1, <2>3, <3>3
      <3>5. QED BY <3>1, <3>2, <3>4
    <2>6. QED BY <2>4, <2>5
  <1>10. QED BY <1>2, <1>9, EvenKeeps

\* A commit moves the amount from what is in flight to the row.
LEMMA CommitEven ==
  ASSUME IInv, IInv', AllExplained, NEW r \in Requests,
         \/ CommitAuthorize(r) \/ CommitFail(r) \/ CommitCapture(r)
         \/ CommitRefund(r) \/ CommitVoid(r)
  PROVE  AllExplained'
  <1>1. PICK n : n.pc \notin Unbooked /\ req' = [req EXCEPT ![r] = n]
    BY CommitShape
  <1>2. BooksApproved(r)
    BY StatusBooks, CaptureBooks, RefundBooks
  <1>3. UNCHANGED <<acq, alerted>>
    BY DEF CommitAuthorize, CommitFail, CommitCapture, CommitRefund, CommitVoid, Committing
  <1>4. Even(r, n)
    <2> SUFFICES ASSUME NEW q \in Txns
                 PROVE  /\ row'[q].captured + alerted'[q].captured + Approved(n, q, "capture")
                             + acq[q].captured
                             = row[q].captured + alerted[q].captured
                                 + Approved(req[r], q, "capture") + acq'[q].captured
                        /\ row'[q].refunded + alerted'[q].refunded + Approved(n, q, "refund")
                             + acq[q].refunded
                             = row[q].refunded + alerted[q].refunded
                                 + Approved(req[r], q, "refund") + acq'[q].refunded
      BY DEF Even
    <2>1. /\ row[q].captured \in Nat /\ row[q].refunded \in Nat
          /\ acq[q].captured \in Nat /\ acq[q].refunded \in Nat
          /\ alerted[q].captured \in Nat /\ alerted[q].refunded \in Nat
      BY AmountTypes
    <2>2. Approved(req[r], q, "capture") \in Nat /\ Approved(req[r], q, "refund") \in Nat
      BY Share
    <2>3. Approved(n, q, "capture") = 0 /\ Approved(n, q, "refund") = 0
      BY <1>1 DEF Approved, Unbooked
    <2>4. /\ row'[q].captured = row[q].captured + Approved(req[r], q, "capture")
          /\ row'[q].refunded = row[q].refunded + Approved(req[r], q, "refund")
      BY <1>2 DEF BooksApproved
    <2>5. QED BY <1>3, <2>1, <2>2, <2>3, <2>4
  <1>5. QED BY <1>1, <1>4, EvenKeeps

\* A rollback of an approved capture or refund logs its amount: the domain
\* refused it, because nothing after the domain can.
LEMMA RefusedEven ==
  ASSUME CapturesBook, IInv, IInv', AllExplained, NEW r \in Requests, CommitRefused(r)
  PROVE  AllExplained'
  <1>1. PICK t \in Txns : t = req[r].txn
    BY LockedRequest DEF CommitRefused
  <1>2. PICK amount \in Nat : amount = req[r].amount
    BY LockedRequest DEF CommitRefused
  <1>3. /\ req[r].pc = "locked" /\ fresh[r] = row[t] /\ row[t] \in Rows
        /\ row[t].status # Absent => row[t].amount \in Amounts
    BY <1>1, LockedRequest DEF CommitRefused, Consistent
  <1>4. VersionMatches(r, req[r].txn)
    BY <1>1, <1>3 DEF VersionMatches
  <1>5. req[r].op \in {"capture", "refund"} => ~DomainAccepts(r)
    <2>1. ASSUME req[r].op = "refund", DomainAccepts(r) PROVE FALSE
      BY <1>4, <2>1 DEF CommitRefused, Writable
    <2>2. ASSUME req[r].op = "capture", DomainAccepts(r) PROVE FALSE
      <3>1. CanCapture(row[t], amount, now)
        BY <1>2, <1>3, <2>2 DEF DomainAccepts
      <3>2. row[t].amount \in Nat /\ row[t].captured \in Nat
        BY <1>3 DEF Rows
      <3>3. amount \in 1..row[t].amount
        BY <3>1, <3>2 DEF CanCapture, RemainingCapturable
      <3>4. row[t].amount \in Amounts
        BY <1>3, <3>1 DEF CanCapture, Absent
      <3>5. CaptureBookable(amount, Fee(amount, FeeBPS))
        BY <3>3, <3>4 DEF CapturesBook
      <3>6. QED BY <1>2, <1>4, <2>2, <3>5 DEF CommitRefused, Writable
    <2>3. QED BY <2>1, <2>2
  <1>6. /\ req' = [req EXCEPT ![r] = Idle] /\ UNCHANGED <<row, acq>>
    BY DEF CommitRefused, dbVars
  <1>7. ASSUME NEW q \in Txns
        PROVE  /\ alerted'[q].captured = alerted[q].captured + Approved(req[r], q, "capture")
               /\ alerted'[q].refunded = alerted[q].refunded + Approved(req[r], q, "refund")
    <2> DEFINE c == IF req[r].op = "capture" /\ ~DomainAccepts(r)
                    THEN alerted[t].captured + req[r].amount ELSE alerted[t].captured
               d == IF req[r].op = "refund" /\ ~DomainAccepts(r)
                    THEN alerted[t].refunded + req[r].amount ELSE alerted[t].refunded
    <2>1. alerted \in [Txns -> [captured : Nat, refunded : Nat]]
      BY DEF IInv, TypeOK, PayTypeOK
    <2>2. alerted' = [alerted EXCEPT ![t].captured = c, ![t].refunded = d]
      BY <1>1 DEF CommitRefused
    <2>3. /\ c = alerted[t].captured + Approved(req[r], t, "capture")
          /\ d = alerted[t].refunded + Approved(req[r], t, "refund")
      <3>1. alerted[t].captured \in Nat /\ alerted[t].refunded \in Nat
        BY AmountTypes
      <3>2. /\ Approved(req[r], t, "capture") = IF req[r].op = "capture" THEN amount ELSE 0
            /\ Approved(req[r], t, "refund") = IF req[r].op = "refund" THEN amount ELSE 0
        BY <1>1, <1>2, <1>3 DEF Approved
      <3>3. QED BY <1>2, <1>5, <3>1, <3>2
    <2> HIDE DEF c, d
    <2>4. CASE q = t
      BY <2>1, <2>2, <2>3, <2>4
    <2>5. CASE q # t
      <3>1. Approved(req[r], q, "capture") = 0 /\ Approved(req[r], q, "refund") = 0
        BY <1>1, <2>5 DEF Approved
      <3>2. alerted'[q] = alerted[q]
        BY <2>1, <2>2, <2>5
      <3>3. alerted[q].captured \in Nat /\ alerted[q].refunded \in Nat
        BY AmountTypes
      <3>4. QED BY <3>1, <3>2, <3>3
    <2>6. QED BY <2>4, <2>5
  <1>8. Even(r, Idle)
    <2> SUFFICES ASSUME NEW q \in Txns
                 PROVE  /\ row'[q].captured + alerted'[q].captured + Approved(Idle, q, "capture")
                             + acq[q].captured
                             = row[q].captured + alerted[q].captured
                                 + Approved(req[r], q, "capture") + acq'[q].captured
                        /\ row'[q].refunded + alerted'[q].refunded + Approved(Idle, q, "refund")
                             + acq[q].refunded
                             = row[q].refunded + alerted[q].refunded
                                 + Approved(req[r], q, "refund") + acq'[q].refunded
      BY DEF Even
    <2>1. /\ row[q].captured \in Nat /\ row[q].refunded \in Nat
          /\ acq[q].captured \in Nat /\ acq[q].refunded \in Nat
          /\ alerted[q].captured \in Nat /\ alerted[q].refunded \in Nat
      BY AmountTypes
    <2>2. Approved(req[r], q, "capture") \in Nat /\ Approved(req[r], q, "refund") \in Nat
      BY Share
    <2>3. Approved(Idle, q, "capture") = 0 /\ Approved(Idle, q, "refund") = 0
      BY DEF Approved, Idle
    <2>4. QED BY <1>6, <1>7, <2>1, <2>2, <2>3
  <1>9. QED BY <1>6, <1>8, EvenKeeps

\* Every step keeps the equations when nothing times out and nobody dies.
LEMMA NextExplained ==
  ASSUME CapturesBook, Faults = {}, IInv, IInv', AllExplained, [Next]_vars
  PROVE  AllExplained'
  <1>1. CASE UNCHANGED vars \/ Tick
    <2>1. UNCHANGED <<row, req, acq, alerted>>
      BY <1>1 DEF vars, payVars, Tick, dbVars
    <2>2. QED BY <2>1, AmountsKept
  <1>2. ASSUME NEW r \in Requests, RequestStep(r) PROVE AllExplained'
    <2>1. ASSUME NEW t \in Txns, NEW amount \in Amounts, NEW auto \in BOOLEAN,
                 Create(r, t, amount, auto)
          PROVE  AllExplained'
      BY <2>1, CreateEven
    <2>2. ASSUME NEW t \in Txns, NEW asked \in Asked,
                 CapturePreCheck(r, t, asked) \/ RefundPreCheck(r, t, asked)
          PROVE  AllExplained'
      BY <2>2, QuietEven
    <2>3. ASSUME NEW t \in Txns, VoidPreCheck(r, t) PROVE AllExplained'
      BY <2>3, QuietEven
    <2>4. CASE AutoCapture(r) \/ AcquirerDeclines(r) \/ AcquirerInvalidCard(r) \/ LockRow(r)
      BY <2>4, QuietEven
    <2>5. CASE AcquirerApproves(r)
      BY <2>5, ApprovalEven
    <2>6. CASE \/ CommitAuthorize(r) \/ CommitFail(r) \/ CommitCapture(r)
               \/ CommitRefund(r) \/ CommitVoid(r)
      BY <2>6, CommitEven
    <2>7. CASE CommitRefused(r)
      BY <2>7, RefusedEven
    <2>8. ~AcquirerUnavailable(r) /\ ~Abandon(r)
      BY DEF AcquirerUnavailable, Abandon
    <2>9. QED BY <1>2, <2>1, <2>2, <2>3, <2>4, <2>5, <2>6, <2>7, <2>8
                 DEF RequestStep, Arrive, Advance
  <1>3. ASSUME NEW j \in Jobs, NEW d \in 0..now, Scan(j, d) PROVE AllExplained'
    <2>1. UNCHANGED <<row, req, acq, alerted>>
      BY <1>3 DEF Scan, payVars
    <2>2. QED BY <2>1, AmountsKept
  <1>4. ASSUME NEW j \in Jobs, JobAdvance(j) \/ JobDies(j) PROVE AllExplained'
    <2>1. CASE Compare(j) \/ Decide(j) \/ Finish(j) \/ JobDies(j)
      <3>1. UNCHANGED <<row, req, acq, alerted>>
        BY <2>1 DEF Compare, Decide, Finish, JobDies, payVars, dbVars
      <3>2. QED BY <3>1, AmountsKept
    <2>2. ASSUME NEW t \in Txns, SettleLock(j, t) PROVE AllExplained'
      <3>1. UNCHANGED <<row, req, acq, alerted>>
        BY <2>2 DEF SettleLock, dbVars
      <3>2. QED BY <3>1, AmountsKept
    <2>3. CASE SettleCommit(j)
      <3>1. UNCHANGED <<req, acq, alerted>>
        BY <2>3 DEF SettleCommit
      <3>2. QED BY <2>3, <3>1, SettledRow, AmountsKept
    <2>4. QED BY <1>4, <2>1, <2>2, <2>3 DEF JobAdvance
  <1>5. QED BY <1>1, <1>2, <1>3, <1>4 DEF Next, PayNext

\* When no call times out and no process dies, every unit the acquirer moved is
\* on the row, about to be written, or was logged for manual reconciliation.
\* The hypothesis is that no fee takes a whole capture.
THEOREM DriftAlwaysAlerted ==
  ASSUME CapturesBook
  PROVE  Spec => []DriftIsAlerted
  <1>1. CASE Faults = {}
    <2>1. Init => AllExplained
      <3> SUFFICES ASSUME Init PROVE AllExplained
        OBVIOUS
      <3>1. ASSUME NEW t \in Txns
            PROVE  /\ acq[t].captured = 0 /\ acq[t].refunded = 0
                   /\ row[t].captured = 0 /\ row[t].refunded = 0
                   /\ alerted[t].captured = 0 /\ alerted[t].refunded = 0
        BY DEF Init, PayInit, NoRow
      <3>2. \A t \in Txns : InFlight(t, "capture") = 0 /\ InFlight(t, "refund") = 0
        BY InitInFlight
      <3>3. QED BY <3>1, <3>2 DEF AllExplained, Explained
    <2>2. IInv /\ IInv' /\ AllExplained /\ [Next]_vars => AllExplained'
      BY <1>1, NextExplained
    <2>3. AllExplained => DriftIsAlerted
      BY DEF AllExplained, Explained, DriftIsAlerted
    <2>4. QED BY <2>1, <2>2, <2>3, Invariance, PTL DEF Spec
  <1>2. CASE Faults # {}
    <2>1. DriftIsAlerted
      BY <1>2 DEF DriftIsAlerted
    <2>2. QED BY <2>1, PTL
  <1>3. QED BY <1>1, <1>2

=============================================================================
