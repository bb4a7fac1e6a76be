-------------------------- MODULE GatewayInvariant --------------------------
(***************************************************************************)
(* The inductive invariant of the gateway: what GatewayProofs shows to be  *)
(* kept by every step, and what TLC checks first on small instances.       *)
(*                                                                         *)
(* It has three parts.  Consistent says, of one payment, that its row, its *)
(* journal and its outbox tell the same story; LockDiscipline says who may *)
(* change it; Referenced says that a row a process has seen exists, so     *)
(* that no insert happens under a lock.                                    *)
(***************************************************************************)
EXTENDS GatewayRefinement

SettledEvents(o) == {i \in DOMAIN o : o[i].event = "settled"}

MoneyOK(x) ==
  /\ x.refunded <= x.captured
  /\ x.captured <= x.amount
  /\ x.captured > 0 <=> x.status \in {"captured", "settled", "refunded"}
  /\ x.captured > 0 <=> x.capturedAt # Never
  /\ x.status = "refunded" <=> x.captured > 0 /\ x.refunded = x.captured

BooksOK(x, s) ==
  /\ x.captured = PostedCaptures(s)
  /\ x.refunded = PostedRefunds(s)
  /\ \A i \in DOMAIN s : Validate(s[i])

OutboxOK(x, o) ==
  /\ Len(o) = x.version
  /\ o # <<>> => LET last == o[Len(o)] IN last = EventPayload(last.event, x)

PayoutOK(x, s, o) ==
  /\ Cardinality(GroupsOf(s, "settlement")) <= 1
  /\ Cardinality(SettledEvents(o)) <= 1
  /\ GroupsOf(s, "settlement") # {} => x.status \in {"settled", "refunded"}
  /\ SettledEvents(o) # {} => x.status \in {"settled", "refunded"}

\* One payment: its row x, its journal s and its outbox o.
Consistent(x, s, o) ==
  /\ x \in Rows
  /\ s \in Seq(EntryGroup)
  /\ o \in Seq(Payloads)
  /\ x.status = Absent => x = NoRow
  /\ x.status # Absent => x.amount \in Amounts
  /\ MoneyOK(x)
  /\ BooksOK(x, s)
  /\ OutboxOK(x, o)
  /\ PayoutOK(x, s, o)

AllConsistent == \A t \in Txns : Consistent(row[t], journal[t], outbox[t])

\* A row that a request or a run of the job refers to has been inserted.
Referenced ==
  /\ \A r \in Requests :
       req[r].pc \notin Resting => req[r].txn \in Txns /\ row[req[r].txn].status # Absent
  /\ \A j \in Jobs :
       /\ job[j].pc = "locked" => job[j].txn \in job[j].todo
       /\ \A t \in Txns :
            t \in job[j].todo \/ job[j].scan[t].status # Absent => row[t].status # Absent

\* No step of a request or of the daily close, faults included, takes the tables,
\* the locks and the processes out of a state in which all three parts hold.
IInv == TypeOK /\ LockDiscipline /\ Referenced /\ AllConsistent

=============================================================================
