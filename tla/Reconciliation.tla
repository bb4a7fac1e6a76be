--------------------------- MODULE Reconciliation ---------------------------
(***************************************************************************)
(* ReconciliationService (internal/service/reconciliation_service.go)      *)
(* running beside the API: the daily close reads the transactions table,   *)
(* aggregates the journal, looks for unbalanced groups, and settles when   *)
(* all agree.  Each query sees its own snapshot and each settlement is a   *)
(* database transaction of its own, so payments move between any two of    *)
(* the job's steps.  Runs of the job may overlap.                          *)
(***************************************************************************)
EXTENDS Payments

Sets == INSTANCE FiniteSetsExt

CONSTANTS
  Books,  \* the (merchant, currency) pairs a report has a line for
  Book    \* Book[t] is the pair transaction t belongs to

ASSUME BookAssumption == Book \in [Txns -> Books]

VARIABLE job  \* the reconciliation runs

vars == <<payVars, job>>

NoJob ==
  [pc |-> "idle", day |-> 0, scan |-> [t \in Txns |-> NoRow], ok |-> TRUE,
   todo |-> {}, txn |-> NoTxn]

JobStates ==
  [pc : {"idle", "scanned", "compared", "settling", "locked"}, day : Nat,
   scan : [Txns -> Rows], ok : BOOLEAN, todo : SUBSET Txns, txn : Txns \cup {NoTxn}]

Init == PayInit /\ job = [j \in Jobs |-> NoJob]

-----------------------------------------------------------------------------

\* ListCapturedBetween.
CapturedOn(d) ==
  {t \in Txns : row[t].capturedAt = d /\ row[t].status \in {"captured", "settled", "refunded"}}

Snapshot(d) == [t \in Txns |-> IF t \in CapturedOn(d) THEN row[t] ELSE NoRow]

\* Run for one day: today, or the day given with -date.
Scan(j, d) ==
  /\ job[j].pc = "idle"
  /\ job' = [job EXCEPT ![j] =
       [NoJob EXCEPT !.pc = "scanned", !.day = d,
                     !.scan = Snapshot(d)]]
  /\ UNCHANGED payVars

\* Step 3 of Run.  The sums over the scanned rows, against AggregateByMerchant,
\* which joins the journal with the rows captured that day.
Agrees(b, scan, d) ==
  LET mine   == {t \in Txns : Book[t] = b /\ scan[t].status # Absent}
      theirs == {t \in Txns : Book[t] = b /\ row[t].capturedAt = d}
  IN  /\ Sets!MapThenSumSet(LAMBDA t : scan[t].captured, mine)
           = Sets!MapThenSumSet(LAMBDA t : PostedCaptures(journal[t]), theirs)
      /\ Sets!MapThenSumSet(LAMBDA t : scan[t].refunded, mine)
           = Sets!MapThenSumSet(LAMBDA t : PostedRefunds(journal[t]), theirs)
      /\ Sets!MapThenSumSet(LAMBDA t : Fee(scan[t].captured, FeeBPS), mine)
           = Sets!MapThenSumSet(LAMBDA t : PostedFees(journal[t]), theirs)

Compare(j) ==
  /\ job[j].pc = "scanned"
  /\ job' = [job EXCEPT ![j].pc = "compared",
                        ![j].ok = \A b \in Books : Agrees(b, job[j].scan, job[j].day)]
  /\ UNCHANGED payVars

\* Step 4, over the whole journal, and the decision.  The report of a day that
\* does not reconcile is written and nothing is settled.
Decide(j) ==
  LET ok   == job[j].ok /\ \A t \in Txns : FindUnbalancedGroups(journal[t]) = {}
      todo == {t \in Txns : job[j].scan[t].status = "captured"}
  IN  /\ job[j].pc = "compared"
      /\ job' = [job EXCEPT ![j] =
           IF ok THEN [NoJob EXCEPT !.pc = "settling", !.todo = todo] ELSE NoJob]
      /\ UNCHANGED payVars

SettleLock(j, t) ==
  /\ job[j].pc = "settling"
  /\ t \in job[j].todo
  /\ TakeLock(j, t)
  /\ job' = [job EXCEPT ![j].pc = "locked", ![j].txn = t]
  /\ UNCHANGED <<dbVars, req, acq, alerted, now, started>>

\* Mutant: the status is not looked at again under the lock.
SettleCommitWithoutRecheck(j) ==
  LET t    == job[j].txn
      paid == Settle(fresh[j])
      net  == NetPayable(fresh[j])
  IN  /\ job[j].pc = "locked"
      /\ Persist(j, t, paid, IF net > 0 THEN <<SettlementEntryGroup(net)>> ELSE <<>>, "settled")
      /\ job' = [job EXCEPT ![j].pc = "settling", ![j].todo = @ \ {t}, ![j].txn = NoTxn]
      /\ UNCHANGED <<req, acq, alerted, now, started>>

\* Mutant: a row that is no longer captured is tried again instead of skipped.
SettleCommitRetrying(j) ==
  LET t   == job[j].txn
      net == NetPayable(fresh[j])
  IN  /\ job[j].pc = "locked"
      /\ IF fresh[j].status = "captured"
         THEN /\ Persist(j, t, Settle(fresh[j]),
                         IF net > 0 THEN <<SettlementEntryGroup(net)>> ELSE <<>>, "settled")
              /\ job' = [job EXCEPT ![j].pc = "settling", ![j].todo = @ \ {t}, ![j].txn = NoTxn]
         ELSE /\ ReleaseLock(j, t) /\ UNCHANGED dbVars
              /\ job' = [job EXCEPT ![j].pc = "settling", ![j].txn = NoTxn]
      /\ UNCHANGED <<req, acq, alerted, now, started>>

\* One transaction of settle: a row that is no longer captured is skipped.  The
\* version cannot differ while the lock is held, so ErrConcurrentModification
\* has no step of its own.
SettleCommit(j) ==
  LET t    == job[j].txn
      paid == Settle(fresh[j])
      net  == NetPayable(fresh[j])
  IN  /\ job[j].pc = "locked"
      /\ IF fresh[j].status = "captured"
         THEN /\ VersionMatches(j, t)
              /\ Persist(j, t, paid,
                         IF net > 0 THEN <<SettlementEntryGroup(net)>> ELSE <<>>, "settled")
         ELSE ReleaseLock(j, t) /\ UNCHANGED dbVars
      /\ job' = [job EXCEPT ![j].pc = "settling", ![j].todo = @ \ {t}, ![j].txn = NoTxn]
      /\ UNCHANGED <<req, acq, alerted, now, started>>

Finish(j) ==
  /\ job[j].pc = "settling"
  /\ job[j].todo = {}
  /\ job' = [job EXCEPT ![j] = NoJob]
  /\ UNCHANGED payVars

\* A failed query or a dead worker ends the run; what it settled stays settled.
JobDies(j) ==
  /\ "abandon" \in Faults
  /\ job[j].pc # "idle"
  /\ IF job[j].pc = "locked" THEN ReleaseLock(j, job[j].txn) ELSE UNCHANGED txVars
  /\ job' = [job EXCEPT ![j] = NoJob]
  /\ UNCHANGED <<dbVars, req, acq, alerted, now, started>>

-----------------------------------------------------------------------------

JobAdvance(j) ==
  \/ Compare(j)
  \/ Decide(j)
  \/ \E t \in Txns : SettleLock(j, t)
  \/ SettleCommit(j)
  \/ Finish(j)

Next ==
  \/ PayNext /\ UNCHANGED job
  \/ \E j \in Jobs :
       (\E d \in 0..now : Scan(j, d)) \/ JobAdvance(j) \/ JobDies(j)

Spec == Init /\ [][Next]_vars

\* The steps the code takes by itself are taken: Guarded bounds every acquirer
\* call with a timeout, Postgres queues waiters for a row lock, and the worker
\* runs a started job to its end.
Fairness ==
  /\ \A r \in Requests : WF_vars(Advance(r) /\ UNCHANGED job)
  /\ \A j \in Jobs : WF_vars(JobAdvance(j))

FairSpec == Spec /\ Fairness

-----------------------------------------------------------------------------
(* What must hold.                                                         *)

TypeOK == PayTypeOK /\ job \in [Jobs -> JobStates]

\* The processes between GetForUpdate and COMMIT on a row.
Inside(t) ==
  {r \in Requests : req[r].pc = "locked" /\ req[r].txn = t}
    \cup {j \in Jobs : job[j].pc = "locked" /\ job[j].txn = t}

\* The row lock makes the in-transaction copy authoritative: at most one process
\* is between GetForUpdate and COMMIT, the lock is held by exactly that process,
\* and the row is still the one it read, so Update's version check never fails.
LockDiscipline ==
  \A t \in Txns :
    /\ lock[t] = Inside(t)
    /\ \A p, q \in lock[t] : p = q
    /\ \A p \in lock[t] : fresh[p] = row[t]

\* A payment is paid out at most once, however many reconciliation runs overlap
\* or are repeated after dying half-way, and only a payment that was settled is.
PaidOutOnce ==
  \A t \in Txns :
    /\ Cardinality(GroupsOf(journal[t], "settlement")) <= 1
    /\ Cardinality({i \in DOMAIN outbox[t] : outbox[t][i].event = "settled"}) <= 1
    /\ GroupsOf(journal[t], "settlement") # {} => row[t].status \in {"settled", "refunded"}

\* The step that pays a merchant out never takes the journal's payable account
\* below zero, even when the payment changed after the books were compared: the
\* fee on a sum is at least the sum of the fees.
PayoutCovered ==
  [][\A t \in Txns :
       GroupsOf(journal'[t], "settlement") # GroupsOf(journal[t], "settlement")
         => Available(journal'[t]) >= 0]_vars

\* Every run of the job ends.
JobsFinish ==
  \A j \in Jobs : job[j].pc # "idle" ~> job[j].pc = "idle"

\* "the transaction table and the journal are written by the same code path, so
\* they should agree": at any moment the day's comparison, made on one
\* snapshot, finds no discrepancy.
DayReconciles ==
  \A d \in 0..now, b \in Books : Agrees(b, Snapshot(d), d)

=============================================================================
