------------------------------ MODULE Listing ------------------------------
(***************************************************************************)
(* A merchant walks a listing page by page while payments go on:           *)
(* GET /payments (TransactionRepo.List) and GET /ledger/entries            *)
(* (LedgerRepo.ListEntries), with the handlers that clamp the page size,   *)
(* ask for one row more than they return and hand out the next cursor.     *)
(*                                                                         *)
(* A row is stamped and numbered before it is committed, so rows appear in *)
(* another order than the one they are sorted by.  The label is what a     *)
(* filter reads besides the time: the status of a payment, which changes,  *)
(* or the account of a journal line, which does not.                       *)
(***************************************************************************)
EXTENDS Integers, Sequences, FiniteSets, SequencesExt

CONSTANTS
  Labels, AnyLabel,
  Spans,      \* the from and to that are asked for
  MaxRows,    \* bound: rows ever inserted
  MaxTime,    \* bound: the last tick of the clock
  Delay,      \* ticks between stamping a row and inserting it, at most
  Second,     \* ticks of a second
  MaxLimit,   \* the largest page the API gives
  Ceiling     \* the largest page the repository gives (201)

\* The repository's ceiling leaves room for the extra row.
ASSUME ListingAssumption ==
  /\ AnyLabel \notin Labels
  /\ Spans \subseteq [from : Nat, to : Nat]
  /\ {MaxRows, MaxTime, Delay} \subseteq Nat
  /\ {Second, MaxLimit, Ceiling} \subseteq Nat \ {0}
  /\ Ceiling > MaxLimit

VARIABLES
  listing,  \* which listing this is: payments or entries
  now,      \* the clock
  table,    \* the rows by id
  walk,     \* the merchant's walk
  owed      \* rows committed before the walk began that matched all along (history)

vars == <<listing, now, table, walk, owed>>

Ids == 1..MaxRows

NoRow == [phase |-> "absent"]
Filters == [label : Labels \cup {AnyLabel}, span : Spans]

NoCursor == [id |-> 0]
NoWalk == [pc |-> "idle"]

Init ==
  /\ listing \in {"payments", "entries"}
  /\ now = 0
  /\ table = [i \in Ids |-> NoRow]
  /\ walk = NoWalk
  /\ owed = {}

-----------------------------------------------------------------------------
(* The query.                                                              *)

\* Mutant: a time without its fraction.
EncodeCursorInSeconds(i) ==
  [id |-> i, sec |-> table[i].created \div Second, frac |-> 0]

\* The cursor is the id and, for payments, the time in RFC3339Nano.
EncodeCursor(i) ==
  [id |-> i, sec |-> table[i].created \div Second, frac |-> table[i].created % Second]

CursorTime(c) == c.sec * Second + c.frac

\* The sort order of payments: (created_at, id) tuples.
TupleLess(t, i, u, j) == t < u \/ (t = u /\ i < j)

\* Newest first: payments by time and id, journal lines by id.
Newer(i, j) ==
  IF listing = "payments" THEN TupleLess(table[j].created, j, table[i].created, i)
                          ELSE j < i

\* Mutant: the cursor's row is included.
BeyondOrAt(c, i) ==
  \/ c = NoCursor
  \/ i = c.id
  \/ IF listing = "payments" THEN TupleLess(table[i].created, i, CursorTime(c), c.id)
                             ELSE i < c.id

\* The row comes after the cursor.
Beyond(c, i) ==
  \/ c = NoCursor
  \/ IF listing = "payments" THEN TupleLess(table[i].created, i, CursorTime(c), c.id)
                             ELSE i < c.id

Matches(f, i) ==
  /\ table[i].phase = "committed"
  /\ f.label \in {AnyLabel, table[i].label}
  /\ table[i].created \in f.span.from..f.span.to

Found(f, c) == {i \in Ids : Matches(f, i) /\ Beyond(c, i)}

\* ORDER BY ... DESC: before the m-th row there are m - 1 newer ones.
Ordered(rows) ==
  [m \in 1..Cardinality(rows) |->
     CHOOSE i \in rows : Cardinality({j \in rows : Newer(j, i)}) = m - 1]

\* WHERE ... ORDER BY ... LIMIT.
SelectPage(f, c, limit) ==
  LET found == Ordered(Found(f, c))
  IN  SubSeq(found, 1, Min({Len(found), limit, Ceiling}))

\* A page larger than the largest is clamped.
QueryLimit(n) == Min({n, MaxLimit})

-----------------------------------------------------------------------------
(* The service writes.                                                     *)

\* A transaction stamps and inserts a row.  The id of a payment is random, that
\* of a journal line the next of the sequence.
Insert(i) ==
  /\ table[i] = NoRow
  /\ listing = "entries" => \A j \in 1..(i - 1) : table[j] # NoRow
  /\ \E created \in (now - Delay)..now, label \in Labels :
       /\ created >= 0
       /\ table' = [table EXCEPT ![i] = [phase |-> "inserted", created |-> created,
                                         label |-> label]]
  /\ UNCHANGED <<listing, now, walk, owed>>

\* The transaction ends.  An aborted one has used its number.
End(i) ==
  /\ table[i].phase = "inserted"
  /\ \E phase \in {"committed", "aborted"} : table' = [table EXCEPT ![i].phase = phase]
  /\ UNCHANGED <<listing, now, walk, owed>>

\* A payment changes its status.
Relabel(i) ==
  /\ listing = "payments"
  /\ table[i].phase = "committed"
  /\ \E label \in Labels \ {table[i].label} :
       /\ table' = [table EXCEPT ![i].label = label]
       /\ owed' = IF walk.pc = "walking" /\ walk.filter.label \notin {AnyLabel, label}
                  THEN owed \ {i} ELSE owed
  /\ UNCHANGED <<listing, now, walk>>

Tick ==
  /\ now < MaxTime
  /\ now' = now + 1
  /\ UNCHANGED <<listing, table, walk, owed>>

-----------------------------------------------------------------------------
(* The merchant walks.                                                     *)

\* The first page is asked for.  One walk is enough: it begins at any time.
StartWalk ==
  /\ walk = NoWalk
  /\ \E f \in Filters :
       /\ walk' = [pc |-> "walking", filter |-> f, cursor |-> NoCursor, got |-> <<>>]
       /\ owed' = {i \in Ids : Matches(f, i)}
  /\ UNCHANGED <<listing, now, table>>

\* The answer: the page, and whether the query found a row more than that.
Response(rows, limit) ==
  [data |-> SubSeq(rows, 1, Min({Len(rows), limit})), hasMore |-> Len(rows) > limit]

\* The handler asks for one row more than the page; the last row of the page is
\* where the next one begins.
NextPage(n) ==
  LET limit == QueryLimit(n)
      resp  == Response(SelectPage(walk.filter, walk.cursor, limit + 1), limit)
  IN  /\ walk.pc = "walking"
      /\ walk' = [walk EXCEPT !.got = @ \o resp.data,
                              !.cursor = IF resp.hasMore THEN EncodeCursor(Last(resp.data))
                                                         ELSE NoCursor,
                              !.pc = IF resp.hasMore THEN "walking" ELSE "done"]
      /\ UNCHANGED <<listing, now, table, owed>>

Next ==
  \/ \E i \in Ids : Insert(i) \/ End(i) \/ Relabel(i)
  \/ Tick
  \/ StartWalk
  \/ \E n \in 1..(MaxLimit + 1) : NextPage(n)

Spec == Init /\ [][Next]_vars

-----------------------------------------------------------------------------
(* What must hold.                                                         *)

\* The pages of a walk, put together, are newest first and name no row twice,
\* although rows that belong between or before them are committed meanwhile.
WalkInOrder ==
  walk.pc # "idle" =>
    \A m, n \in DOMAIN walk.got : m < n => Newer(walk.got[m], walk.got[n])

\* A finished walk has returned every row that was committed when it began and
\* matched the filter all along, whatever was inserted, committed late or changed
\* meanwhile.
WalkIsComplete ==
  walk.pc = "done" => owed \subseteq ToSet(walk.got)

=============================================================================
