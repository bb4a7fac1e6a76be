---------------------------- MODULE ListingProofs ----------------------------
(***************************************************************************)
(* A walk through a listing is in order and complete, for any number of    *)
(* rows, filters and page sizes, and whatever is written meanwhile.        *)
(*                                                                         *)
(* The order of the listing is a strict total order on the committed rows, *)
(* so the sorted sequence of a set of them exists: the position of a row   *)
(* is one more than the number of newer rows.  The invariant then says     *)
(* what the cursor stands for: it is the last row given out, and every row *)
(* still owed comes after it.                                              *)
(***************************************************************************)
EXTENDS Listing, TLAPS, FiniteSetTheorems, FunctionTheorems

-----------------------------------------------------------------------------
(* The inductive invariant.                                                *)

Rows == {NoRow} \cup
        [phase : {"inserted", "committed", "aborted"}, created : Nat, label : Labels]

Cursors == {NoCursor} \cup [id : Ids, sec : Nat, frac : 0..(Second - 1)]

Walks == {NoWalk} \cup
         [pc : {"walking", "done"}, filter : Filters, cursor : Cursors, got : Seq(Ids)]

TypeOK ==
  /\ listing \in {"payments", "entries"}
  /\ now \in Nat
  /\ table \in [Ids -> Rows]
  /\ walk \in Walks
  /\ owed \subseteq Ids

Committed == {i \in Ids : table[i].phase = "committed"}

\* The rows that were given out exist.
GotCommitted ==
  walk.pc # "idle" => \A m \in DOMAIN walk.got : walk.got[m] \in Committed

\* The cursor is the last row that was given out.
CursorIsLast ==
  walk.pc = "walking" =>
    walk.cursor = IF walk.got = <<>> THEN NoCursor ELSE EncodeCursor(Last(walk.got))

\* A row that is owed still matches, and was given out or comes after the cursor.
OwedAhead ==
  walk.pc = "walking" =>
    \A i \in owed : Matches(walk.filter, i) /\ (i \in ToSet(walk.got) \/ Beyond(walk.cursor, i))

IInv ==
  /\ TypeOK
  /\ GotCommitted
  /\ WalkInOrder
  /\ CursorIsLast
  /\ OwedAhead
  /\ WalkIsComplete

-----------------------------------------------------------------------------
(* Sorting.                                                                *)

\* How many elements of S come before i.
Rank(S, R) == [i \in S |-> Cardinality({j \in S : <<j, i>> \in R})]

\* In a finite set with a strict total order R, the elements with no, one, two
\* ... smaller ones exist, and the number of smaller ones grows with the order.
LEMMA Ranks ==
  ASSUME NEW S, IsFiniteSet(S), NEW R,
         \A i \in S : <<i, i>> \notin R,
         \A i, j, k \in S : <<i, j>> \in R /\ <<j, k>> \in R => <<i, k>> \in R,
         \A i, j \in S : i # j => <<i, j>> \in R \/ <<j, i>> \in R
  PROVE  /\ \A i \in S : Rank(S, R)[i] \in 0..(Cardinality(S) - 1)
         /\ \A i, j \in S : <<i, j>> \in R => Rank(S, R)[i] < Rank(S, R)[j]
         /\ \A m \in 1..Cardinality(S) : \E i \in S : Rank(S, R)[i] = m - 1
<1>. DEFINE before(i) == {j \in S : <<j, i>> \in R}
            rank == [i \in S |-> Cardinality(before(i))]
            n == Cardinality(S)
            f == [i \in S |-> rank[i] + 1]
<1>1. n \in Nat
  BY FS_CardinalityType
<1>2. \A i \in S : rank[i] \in Nat
  <2>. SUFFICES ASSUME NEW i \in S PROVE Cardinality(before(i)) \in Nat
    OBVIOUS
  <2>1. before(i) \in SUBSET S
    OBVIOUS
  <2>. HIDE DEF before
  <2>2. IsFiniteSet(before(i))
    BY <2>1, FS_Subset
  <2>. QED BY <2>2, FS_CardinalityType
<1>3. ASSUME NEW T \in SUBSET S, NEW U \in SUBSET T, NEW x \in T, x \notin U
      PROVE  Cardinality(U) < Cardinality(T)
  <2>1. IsFiniteSet(T) /\ IsFiniteSet(U)
    BY FS_Subset
  <2>2. Cardinality(U) \in Nat /\ Cardinality(T) \in Nat
    BY <2>1, FS_CardinalityType
  <2>3. Cardinality(U) <= Cardinality(T) /\ (Cardinality(T) = Cardinality(U) => T = U)
    BY <2>1, FS_Subset
  <2>. QED BY <1>3, <2>2, <2>3
<1>4. \A i \in S : rank[i] < n
  <2>. SUFFICES ASSUME NEW i \in S PROVE Cardinality(before(i)) < n
    OBVIOUS
  <2>1. before(i) \in SUBSET S /\ i \notin before(i)
    OBVIOUS
  <2>. HIDE DEF before
  <2>. QED BY <2>1, <1>3
<1>5. \A i, j \in S : <<i, j>> \in R => rank[i] < rank[j]
  <2>. SUFFICES ASSUME NEW i \in S, NEW j \in S, <<i, j>> \in R
                PROVE  Cardinality(before(i)) < Cardinality(before(j))
    OBVIOUS
  <2>1. /\ before(j) \in SUBSET S /\ before(i) \in SUBSET before(j)
        /\ i \in before(j) /\ i \notin before(i)
    OBVIOUS
  <2>. HIDE DEF before
  <2>. QED BY <2>1, <1>3
<1>6. f \in Injection(S, 1..n)
  <2>1. f \in [S -> 1..n]
    <3>1. \A i \in S : rank[i] + 1 \in 1..n
      <4>. HIDE DEF rank, n
      <4>. QED BY <1>1, <1>2, <1>4
    <3>. HIDE DEF rank
    <3>. QED BY <3>1
  <2>2. ASSUME NEW i \in S, NEW j \in S, f[i] = f[j] PROVE i = j
    <3>1. rank[i] = rank[j]
      <4>1. rank[i] + 1 = rank[j] + 1
        BY <2>2
      <4>. HIDE DEF rank
      <4>. QED BY <4>1, <1>2
    <3>2. rank[i] \in Nat /\ ~(rank[i] < rank[j]) /\ ~(rank[j] < rank[i])
      <4>. HIDE DEF rank
      <4>. QED BY <3>1, <1>2
    <3>3. ~(<<i, j>> \in R) /\ ~(<<j, i>> \in R)
      <4>. HIDE DEF rank
      <4>. QED BY <3>2, <1>5
    <3>. QED BY <3>3
  <2>. HIDE DEF f
  <2>. QED BY <2>1, <2>2, Fun_IsInj
<1>7. \A m \in 1..n : \E i \in S : rank[i] = m - 1
  <2>1. IsFiniteSet(1..n) /\ Cardinality(1..n) = n
    BY <1>1, FS_Interval
  <2>2. f \in Surjection(S, 1..n)
    <3>. HIDE DEF f
    <3>. QED BY <1>6, <2>1, FS_Injection
  <2>3. \A m \in 1..n : \E i \in S : f[i] = m
    <3>. HIDE DEF f
    <3>. QED BY <2>2, Fun_SurjectionProperties
  <2>4. \A i \in S : f[i] = rank[i] + 1
    OBVIOUS
  <2>. HIDE DEF f, rank
  <2>. QED BY <2>3, <2>4, <1>1, <1>2
<1>8. \A i \in S : rank[i] \in 0..(n - 1)
  <2>. HIDE DEF rank, n
  <2>. QED BY <1>1, <1>2, <1>4
<1>9. Rank(S, R) = rank
  BY DEF Rank
<1>. QED
  <2>. HIDE DEF rank
  <2>. QED BY <1>5, <1>7, <1>8, <1>9

\* The order of the listing is a strict total order on the committed rows.
LEMMA NewerIsOrder ==
  ASSUME TypeOK, NEW i \in Committed, NEW j \in Committed, NEW k \in Committed
  PROVE  /\ ~Newer(i, i)
         /\ Newer(i, j) /\ Newer(j, k) => Newer(i, k)
         /\ i # j => Newer(i, j) \/ Newer(j, i)
<1>1. /\ i \in Nat /\ j \in Nat /\ k \in Nat
      /\ table[i].created \in Nat /\ table[j].created \in Nat /\ table[k].created \in Nat
  BY DEF TypeOK, Committed, Rows, NoRow, Ids
<1>. QED BY <1>1 DEF Newer, TupleLess

\* Ordered gives the rows of a set once each, newest first.
LEMMA OrderedSorts ==
  ASSUME TypeOK, NEW S \in SUBSET Committed
  PROVE  /\ Cardinality(S) \in Nat
         /\ Ordered(S) \in [1..Cardinality(S) -> S]
         /\ \A m, n \in 1..Cardinality(S) : m < n => Newer(Ordered(S)[m], Ordered(S)[n])
         /\ \A i \in S : \E m \in 1..Cardinality(S) : Ordered(S)[m] = i
<1>. DEFINE R == {p \in S \X S : Newer(p[1], p[2])}
            rank == Rank(S, R)
            c == Cardinality(S)
            o == Ordered(S)
            g == [m \in 1..c |-> CHOOSE i \in S : Cardinality({j \in S : Newer(j, i)}) = m - 1]
<1>1. IsFiniteSet(S) /\ c \in Nat
  <2>1. S \in SUBSET (1..MaxRows) /\ MaxRows \in Int
    BY ListingAssumption DEF Committed, Ids
  <2>2. IsFiniteSet(1..MaxRows)
    BY <2>1, FS_Interval
  <2>3. IsFiniteSet(S)
    BY <2>1, <2>2, FS_Subset
  <2>. QED BY <2>3, FS_CardinalityType
<1>2. \A i, j \in S : <<i, j>> \in R <=> Newer(i, j)
  OBVIOUS
<1>3. \A i, j, k \in S : /\ <<i, i>> \notin R
                         /\ <<i, j>> \in R /\ <<j, k>> \in R => <<i, k>> \in R
                         /\ i # j => <<i, j>> \in R \/ <<j, i>> \in R
  <2>. HIDE DEF R
  <2>. QED BY <1>2, NewerIsOrder
<1>4. /\ \A i \in S : rank[i] \in 0..(c - 1)
      /\ \A i, j \in S : <<i, j>> \in R => rank[i] < rank[j]
      /\ \A m \in 1..c : \E i \in S : rank[i] = m - 1
  <2>. HIDE DEF R
  <2>1. \A i \in S : <<i, i>> \notin R
    BY <1>3
  <2>2. \A i, j, k \in S : <<i, j>> \in R /\ <<j, k>> \in R => <<i, k>> \in R
    BY <1>3
  <2>3. \A i, j \in S : i # j => <<i, j>> \in R \/ <<j, i>> \in R
    BY <1>3
  <2>. QED BY <1>1, <2>1, <2>2, <2>3, Ranks
<1>5. \A i \in S : Cardinality({j \in S : Newer(j, i)}) = rank[i]
  <2>1. \A i \in S : {j \in S : Newer(j, i)} = {j \in S : <<j, i>> \in R}
    <3>. HIDE DEF R
    <3>. QED BY <1>2
  <2>2. \A i \in S : rank[i] = Cardinality({j \in S : <<j, i>> \in R})
    <3>. HIDE DEF R
    <3>. QED BY DEF Rank
  <2>. SUFFICES ASSUME NEW i \in S PROVE Cardinality({j \in S : Newer(j, i)}) = rank[i]
    OBVIOUS
  <2>3. {j \in S : Newer(j, i)} = {j \in S : <<j, i>> \in R}
    BY <2>1
  <2>. HIDE DEF R, rank
  <2>. QED BY <2>2, <2>3
<1>6. o = g
  BY DEF Ordered
<1>7. \A m \in 1..c : g[m] = CHOOSE i \in S : Cardinality({j \in S : Newer(j, i)}) = m - 1
  <2>. HIDE DEF c
  <2>. QED BY Zenon
<1>8. \A m \in 1..c : g[m] \in S /\ rank[g[m]] = m - 1
  <2>. SUFFICES ASSUME NEW m \in 1..c PROVE g[m] \in S /\ rank[g[m]] = m - 1
    OBVIOUS
  <2>1. PICK x \in S : Cardinality({j \in S : Newer(j, x)}) = m - 1
    <3>. HIDE DEF rank, c
    <3>. QED BY <1>4, <1>5
  <2>2. g[m] \in S /\ Cardinality({j \in S : Newer(j, g[m])}) = m - 1
    <3>. HIDE DEF g, c
    <3>. QED BY <2>1, <1>7
  <2>. HIDE DEF rank, g
  <2>. QED BY <2>2, <1>5
<1>9. o \in [1..c -> S]
  <2>1. \A m \in 1..c : (CHOOSE i \in S : Cardinality({j \in S : Newer(j, i)}) = m - 1) \in S
    <3>. HIDE DEF g, c, rank
    <3>. QED BY <1>7, <1>8
  <2>. HIDE DEF c, o
  <2>. QED BY <2>1, <1>6, Zenon
<1>. HIDE DEF g
<1>10. \A m, n \in 1..c : m < n => Newer(o[m], o[n])
  <2>. SUFFICES ASSUME NEW m \in 1..c, NEW n \in 1..c, m < n PROVE Newer(o[m], o[n])
    OBVIOUS
  <2>1. o[m] \in S /\ o[n] \in S /\ rank[o[m]] = m - 1 /\ rank[o[n]] = n - 1
    BY <1>6, <1>8
  <2>2. o[m] # o[n] /\ ~(rank[o[n]] < rank[o[m]])
    <3>. HIDE DEF rank, o
    <3>. QED BY <2>1
  <2>3. ~(<<o[n], o[m]>> \in R)
    <3>. HIDE DEF rank, R, o
    <3>. QED BY <2>1, <2>2, <1>4
  <2>. HIDE DEF R, o
  <2>. QED BY <2>1, <2>2, <2>3, <1>2, <1>3
<1>11. \A i \in S : \E m \in 1..c : o[m] = i
  <2>. SUFFICES ASSUME NEW i \in S PROVE \E m \in 1..c : o[m] = i
    OBVIOUS
  <2>. DEFINE m == rank[i] + 1
  <2>1. m \in 1..c /\ m - 1 = rank[i]
    <3>1. rank[i] \in 0..(c - 1)
      BY <1>4
    <3>. HIDE DEF rank, c
    <3>. QED BY <3>1, <1>1
  <2>2. o[m] \in S /\ rank[o[m]] = rank[i]
    <3>. HIDE DEF rank, o, m
    <3>. QED BY <2>1, <1>6, <1>8
  <2>3. ~(rank[i] < rank[o[m]]) /\ ~(rank[o[m]] < rank[i])
    <3>1. rank[i] \in Nat
      BY <1>1, <1>4
    <3>. HIDE DEF rank, o, m
    <3>. QED BY <2>2, <3>1
  <2>4. o[m] = i
    <3>. HIDE DEF rank, R, o, m
    <3>. QED BY <2>2, <2>3, <1>3, <1>4
  <2>. QED BY <2>1, <2>4
<1>. QED BY <1>1, <1>9, <1>10, <1>11

-----------------------------------------------------------------------------
(* A page.                                                                 *)

PageFor(f, c, limit) == Response(SelectPage(f, c, limit + 1), limit)

\* A page is the newest of the rows that were found, and the answer says whether
\* any was left out: the repository's ceiling does not hide the extra row.
LEMMA PageGivesNewest ==
  ASSUME TypeOK, NEW f, NEW c, NEW limit \in 1..MaxLimit
  PROVE  LET data == PageFor(f, c, limit).data
             found == Ordered(Found(f, c))
             n == Cardinality(Found(f, c))
         IN  /\ n \in Nat
             /\ data \in Seq(Committed)
             /\ Len(data) = (IF n <= limit THEN n ELSE limit)
             /\ \A k \in 1..Len(data) : data[k] = found[k]
             /\ PageFor(f, c, limit).hasMore <=> n > limit
<1>. DEFINE F == Found(f, c)
            n == Cardinality(F)
            o == Ordered(F)
            rows == SelectPage(f, c, limit + 1)
            data == PageFor(f, c, limit).data
<1>1. limit \in Nat /\ limit >= 1 /\ Ceiling >= limit + 1 /\ Ceiling \in Int
  <2>1. MaxLimit \in Nat /\ Ceiling > MaxLimit
    BY ListingAssumption
  <2>. QED BY <2>1, ListingAssumption
<1>2. F \in SUBSET Committed
  BY DEF Found, Matches, Committed
<1>3. n \in Nat /\ o \in [1..n -> F]
  BY <1>2, OrderedSorts
<1>4. o \in Seq(Committed) /\ Len(o) = n
  <2>. HIDE DEF F, n, o
  <2>. QED BY <1>2, <1>3
<1>5. \A a, b \in Int : \A c1 \in Int : c1 >= b => Min({a, b, c1}) = IF a <= b THEN a ELSE b
  BY DEF Min
<1>6. \A a, b \in Int : Min({a, b}) = IF a <= b THEN a ELSE b
  BY DEF Min
<1>7. rows = SubSeq(o, 1, IF n <= limit + 1 THEN n ELSE limit + 1)
  <2>1. rows = SubSeq(o, 1, Min({Len(o), limit + 1, Ceiling}))
    BY DEF SelectPage
  <2>. HIDE DEF F, n, o, rows
  <2>2. Min({n, limit + 1, Ceiling}) = IF n <= limit + 1 THEN n ELSE limit + 1
    <3>1. n \in Int /\ limit + 1 \in Int /\ Ceiling \in Int /\ Ceiling >= limit + 1
      BY <1>1, <1>3
    <3>. QED BY <3>1, <1>5
  <2>. QED BY <2>1, <2>2, <1>4
<1>8. /\ rows \in Seq(Committed)
      /\ Len(rows) = IF n <= limit + 1 THEN n ELSE limit + 1
      /\ \A k \in 1..Len(rows) : rows[k] = o[k]
  <2>. HIDE DEF F, n, o, rows
  <2>. QED BY <1>7, <1>1, <1>3, <1>4
<1>9. data = SubSeq(rows, 1, IF n <= limit THEN n ELSE limit)
  <2>1. data = SubSeq(rows, 1, Min({Len(rows), limit}))
    BY DEF PageFor, Response
  <2>2. Min({Len(rows), limit}) = IF n <= limit THEN n ELSE limit
    <3>. HIDE DEF F, n, o, rows
    <3>. QED BY <1>1, <1>3, <1>6, <1>8
  <2>. QED BY <2>1, <2>2
<1>10. PageFor(f, c, limit).hasMore <=> n > limit
  <2>1. PageFor(f, c, limit).hasMore <=> Len(rows) > limit
    BY DEF PageFor, Response
  <2>. HIDE DEF F, n, o, rows
  <2>. QED BY <2>1, <1>1, <1>3, <1>8
<1>11. /\ data \in Seq(Committed)
       /\ Len(data) = IF n <= limit THEN n ELSE limit
       /\ \A k \in 1..Len(data) : data[k] = o[k]
  <2>. HIDE DEF F, n, o, rows, data
  <2>. QED BY <1>1, <1>3, <1>8, <1>9
<1>. QED BY <1>3, <1>10, <1>11

\* What the invariant needs to know of a page: its rows were found, are in order,
\* and every row that was found and is not on it comes after its last row.
LEMMA PageFacts ==
  ASSUME TypeOK, NEW f, NEW c, NEW limit \in 1..MaxLimit
  PROVE  LET data == PageFor(f, c, limit).data
         IN  /\ data \in Seq(Ids)
             /\ \A k \in DOMAIN data : data[k] \in Found(f, c) /\ data[k] \in Committed
             /\ \A m, n \in DOMAIN data : m < n => Newer(data[m], data[n])
             /\ PageFor(f, c, limit).hasMore => data # <<>>
             /\ \A i \in Found(f, c) \ ToSet(data) :
                   PageFor(f, c, limit).hasMore /\ Newer(Last(data), i)
<1>. DEFINE F == Found(f, c)
            n == Cardinality(F)
            o == Ordered(F)
            data == PageFor(f, c, limit).data
            more == PageFor(f, c, limit).hasMore
<1>1. /\ n \in Nat
      /\ data \in Seq(Committed)
      /\ Len(data) = (IF n <= limit THEN n ELSE limit)
      /\ \A k \in 1..Len(data) : data[k] = o[k]
      /\ more <=> n > limit
  BY PageGivesNewest
<1>2. F \in SUBSET Committed
  BY DEF Found, Matches, Committed
<1>3. /\ o \in [1..n -> F]
      /\ \A k, m \in 1..n : k < m => Newer(o[k], o[m])
      /\ \A i \in F : \E m \in 1..n : o[m] = i
  BY <1>2, OrderedSorts
<1>4. limit \in Nat /\ limit >= 1
  BY ListingAssumption
<1>. HIDE DEF F, n, o, data, more
<1>5. Committed \subseteq Ids
  BY DEF Committed
<1>6. DOMAIN data = 1..Len(data) /\ Len(data) \in Nat /\ Len(data) <= n /\ data \in Seq(Ids)
  BY <1>1, <1>4, <1>5
<1>7. \A k \in DOMAIN data : data[k] \in F /\ data[k] \in Committed
  BY <1>1, <1>2, <1>3, <1>6
<1>8. \A k, m \in DOMAIN data : k < m => Newer(data[k], data[m])
  <2>. SUFFICES ASSUME NEW k \in DOMAIN data, NEW m \in DOMAIN data, k < m
                PROVE  Newer(data[k], data[m])
    OBVIOUS
  <2>1. k \in 1..n /\ m \in 1..n /\ data[k] = o[k] /\ data[m] = o[m]
    BY <1>1, <1>6
  <2>. QED BY <2>1, <1>3
<1>9. more => data # <<>>
  BY <1>1, <1>4, <1>6
<1>10. ASSUME NEW i \in F \ ToSet(data) PROVE more /\ Newer(Last(data), i)
  <2>1. PICK m \in 1..n : o[m] = i
    BY <1>3
  <2>2. ~(m \in 1..Len(data))
    BY <2>1, <1>1, <1>6 DEF ToSet
  <2>3. n > limit /\ m > limit /\ Len(data) = limit
    BY <2>2, <1>1, <1>4, <1>6
  <2>4. Last(data) = o[limit]
    BY <2>3, <1>1, <1>4, <1>6 DEF Last
  <2>5. Newer(o[limit], o[m])
    BY <2>3, <1>1, <1>3, <1>4
  <2>. QED BY <2>1, <2>3, <2>4, <2>5, <1>1
<1>. QED BY <1>6, <1>7, <1>8, <1>9, <1>10 DEF F, data, more

\* The cursor keeps the time of its row, fraction included: a row comes after the
\* cursor when it comes after the row the cursor was made from.
LEMMA CursorStandsForRow ==
  ASSUME TypeOK, NEW i \in Committed
  PROVE  /\ EncodeCursor(i) \in Cursors
         /\ EncodeCursor(i) # NoCursor
         /\ \A j \in Committed : Beyond(EncodeCursor(i), j) <=> Newer(i, j)
<1>. DEFINE t == table[i].created
<1>1. t \in Nat /\ i \in Ids
  BY DEF TypeOK, Committed, Rows, NoRow
<1>2. Second \in Nat /\ Second > 0
  BY ListingAssumption
<1>3. t \div Second \in Nat /\ t % Second \in 0..(Second - 1)
  <2>. HIDE DEF t
  <2>. QED BY <1>1, <1>2
<1>4. (t \div Second) * Second + (t % Second) = t
  <2>. HIDE DEF t
  <2>. QED BY <1>1, <1>2
<1>5. EncodeCursor(i) = [id |-> i, sec |-> t \div Second, frac |-> t % Second]
  BY DEF EncodeCursor
<1>6. EncodeCursor(i).id = i /\ CursorTime(EncodeCursor(i)) = t
  <2>. HIDE DEF t
  <2>. QED BY <1>4, <1>5 DEF CursorTime
<1>7. EncodeCursor(i) \in Cursors
  <2>. HIDE DEF t
  <2>. QED BY <1>1, <1>3, <1>5 DEF Cursors
<1>8. EncodeCursor(i) # NoCursor
  <2>1. NoCursor.id = 0 /\ i # 0
    BY <1>1 DEF NoCursor, Ids
  <2>. QED BY <2>1, <1>6
<1>. QED BY <1>6, <1>7, <1>8 DEF Beyond, Newer

-----------------------------------------------------------------------------
(* The service writes.                                                     *)

\* A committed row stays committed and keeps its time.
RowsStay ==
  /\ listing' = listing
  /\ \A i \in Committed : table'[i].phase = "committed" /\ table'[i].created = table[i].created

\* While committed rows stay, their order and what a cursor says of them stay.
LEMMA OrderStays ==
  ASSUME RowsStay
  PROVE  /\ Committed \subseteq Committed'
         /\ \A i, j \in Committed : Newer(i, j)' <=> Newer(i, j)
         /\ \A i \in Committed : EncodeCursor(i)' = EncodeCursor(i)
         /\ \A i \in Committed : \A c : Beyond(c, i)' <=> Beyond(c, i)
<1>1. Committed \subseteq Committed'
  BY DEF Committed, RowsStay
<1>2. \A i, j \in Committed : Newer(i, j)' <=> Newer(i, j)
  BY DEF Newer, TupleLess, RowsStay
<1>3. \A i \in Committed : EncodeCursor(i)' = EncodeCursor(i)
  BY DEF EncodeCursor, RowsStay
<1>4. \A i \in Committed : \A c : Beyond(c, i)' <=> Beyond(c, i)
  <2>. SUFFICES ASSUME NEW i \in Committed, NEW c PROVE Beyond(c, i)' <=> Beyond(c, i)
    OBVIOUS
  <2>1. table'[i].created = table[i].created /\ listing' = listing
    BY DEF RowsStay
  <2>. QED BY <2>1 DEF Beyond, TupleLess, CursorTime
<1>. QED BY <1>1, <1>2, <1>3, <1>4

\* What a walk under way looks like.
LEMMA WalkShape ==
  ASSUME TypeOK, walk.pc # "idle"
  PROVE  /\ walk \in [pc : {"walking", "done"}, filter : Filters, cursor : Cursors, got : Seq(Ids)]
         /\ DOMAIN walk.got = 1..Len(walk.got) /\ Len(walk.got) \in Nat
<1>1. walk \in [pc : {"walking", "done"}, filter : Filters, cursor : Cursors, got : Seq(Ids)]
  BY DEF TypeOK, Walks, NoWalk
<1>. QED BY <1>1

\* The last row given out is one of them.
LEMMA LastGiven ==
  ASSUME TypeOK, GotCommitted, walk.pc # "idle", walk.got # <<>>
  PROVE  Last(walk.got) = walk.got[Len(walk.got)] /\ Len(walk.got) \in DOMAIN walk.got
         /\ Last(walk.got) \in Committed
<1>1. walk.got \in Seq(Ids)
  BY WalkShape
<1>2. Len(walk.got) \in DOMAIN walk.got
  BY <1>1
<1>. QED BY <1>2 DEF GotCommitted, Last

\* A write that keeps the committed rows and leaves the walk alone keeps the
\* invariant, if the rows still owed still match.
LEMMA WriteKeeps ==
  ASSUME IInv, TypeOK', RowsStay, walk' = walk, owed' \subseteq owed,
         walk.pc = "walking" => \A i \in owed' : Matches(walk.filter, i)'
  PROVE  IInv'
<1>. USE DEF IInv
<1>1. GotCommitted'
  BY OrderStays DEF GotCommitted
<1>2. WalkInOrder'
  BY OrderStays DEF GotCommitted, WalkInOrder
<1>3. CursorIsLast'
  <2>. SUFFICES ASSUME walk.pc = "walking"
                PROVE  walk.cursor = IF walk.got = <<>> THEN NoCursor ELSE EncodeCursor(Last(walk.got))'
    BY DEF CursorIsLast
  <2>1. CASE walk.got = <<>>
    BY <2>1 DEF CursorIsLast
  <2>2. CASE walk.got # <<>>
    <3>1. Last(walk.got) \in Committed
      BY <2>2, LastGiven
    <3>2. walk.cursor = EncodeCursor(Last(walk.got))
      BY <2>2 DEF CursorIsLast
    <3>. QED BY <2>2, <3>1, <3>2, OrderStays
  <2>. QED BY <2>1, <2>2
<1>4. OwedAhead'
  <2>. SUFFICES ASSUME walk.pc = "walking", NEW i \in owed'
                PROVE  Matches(walk.filter, i)' /\ (i \in ToSet(walk.got) \/ Beyond(walk.cursor, i)')
    BY DEF OwedAhead
  <2>1. i \in Committed /\ (i \in ToSet(walk.got) \/ Beyond(walk.cursor, i))
    BY DEF OwedAhead, Matches, Committed, TypeOK
  <2>. QED BY <2>1, OrderStays
<1>5. WalkIsComplete'
  BY DEF WalkIsComplete
<1>. QED BY <1>1, <1>2, <1>3, <1>4, <1>5

\* Inserting a row changes no committed one.
LEMMA InsertKeeps ==
  ASSUME IInv, NEW i \in Ids, Insert(i)
  PROVE  IInv'
<1>1. PICK created \in (now - Delay)..now, label \in Labels :
        /\ created >= 0
        /\ table' = [table EXCEPT ![i] = [phase |-> "inserted", created |-> created, label |-> label]]
  BY DEF Insert
<1>2. UNCHANGED <<listing, now, walk, owed>> /\ table[i] = NoRow
  BY DEF Insert
<1>3. TypeOK'
  <2>1. created \in Nat
    BY <1>1, ListingAssumption DEF IInv, TypeOK
  <2>2. table' \in [Ids -> Rows]
    BY <1>1, <2>1 DEF IInv, TypeOK, Rows
  <2>. QED BY <1>2, <2>2 DEF IInv, TypeOK
<1>4. \A j \in Committed : table'[j] = table[j]
  BY <1>1, <1>2 DEF IInv, TypeOK, Committed, NoRow
<1>5. RowsStay
  BY <1>2, <1>4 DEF RowsStay, Committed
<1>6. walk.pc = "walking" => \A j \in owed' : Matches(walk.filter, j)'
  BY <1>2, <1>4 DEF IInv, TypeOK, OwedAhead, Matches, Committed
<1>. QED BY <1>2, <1>3, <1>5, <1>6, WriteKeeps

\* Nor does the end of the transaction that inserted it.
LEMMA EndKeeps ==
  ASSUME IInv, NEW i \in Ids, End(i)
  PROVE  IInv'
<1>1. PICK phase \in {"committed", "aborted"} : table' = [table EXCEPT ![i].phase = phase]
  BY DEF End
<1>2. UNCHANGED <<listing, now, walk, owed>> /\ table[i].phase = "inserted"
  BY DEF End
<1>3. TypeOK'
  <2>1. table[i] \in [phase : {"inserted", "committed", "aborted"}, created : Nat, label : Labels]
    BY <1>2 DEF IInv, TypeOK, Rows, NoRow
  <2>2. [table[i] EXCEPT !.phase = phase] \in Rows
    BY <1>1, <2>1 DEF Rows
  <2>3. table' \in [Ids -> Rows]
    BY <1>1, <2>2 DEF IInv, TypeOK
  <2>. QED BY <1>2, <2>3 DEF IInv, TypeOK
<1>4. \A j \in Committed : table'[j] = table[j]
  BY <1>1, <1>2 DEF IInv, TypeOK, Committed
<1>5. RowsStay
  BY <1>2, <1>4 DEF RowsStay, Committed
<1>6. walk.pc = "walking" => \A j \in owed' : Matches(walk.filter, j)'
  BY <1>2, <1>4 DEF IInv, TypeOK, OwedAhead, Matches, Committed
<1>. QED BY <1>2, <1>3, <1>5, <1>6, WriteKeeps

\* A payment that changes its status out of the filter is no longer owed.
LEMMA RelabelKeeps ==
  ASSUME IInv, NEW i \in Ids, Relabel(i)
  PROVE  IInv'
<1>1. PICK label \in Labels \ {table[i].label} :
        /\ table' = [table EXCEPT ![i].label = label]
        /\ owed' = IF walk.pc = "walking" /\ walk.filter.label \notin {AnyLabel, label}
                   THEN owed \ {i} ELSE owed
  BY DEF Relabel
<1>2. UNCHANGED <<listing, now, walk>> /\ table[i].phase = "committed"
  BY DEF Relabel
<1>3. table[i] \in [phase : {"inserted", "committed", "aborted"}, created : Nat, label : Labels]
  BY <1>2 DEF IInv, TypeOK, Rows, NoRow
<1>4. /\ table'[i] = [table[i] EXCEPT !.label = label]
      /\ table'[i].phase = "committed" /\ table'[i].created = table[i].created
      /\ table'[i].label = label
      /\ \A j \in Ids \ {i} : table'[j] = table[j]
  <2>1. table'[i] = [table[i] EXCEPT !.label = label]
    BY <1>1 DEF IInv, TypeOK
  <2>2. \A j \in Ids \ {i} : table'[j] = table[j]
    BY <1>1 DEF IInv, TypeOK
  <2>. QED BY <1>2, <1>3, <2>1, <2>2
<1>5. TypeOK'
  <2>1. [table[i] EXCEPT !.label = label] \in Rows
    BY <1>1, <1>3 DEF Rows
  <2>2. table' \in [Ids -> Rows]
    BY <1>1, <2>1 DEF IInv, TypeOK
  <2>. QED BY <1>1, <1>2, <2>2 DEF IInv, TypeOK
<1>6. RowsStay
  BY <1>2, <1>4 DEF RowsStay, Committed
<1>7. walk.pc = "walking" => \A j \in owed' : Matches(walk.filter, j)'
  <2>. SUFFICES ASSUME walk.pc = "walking", NEW j \in owed' PROVE Matches(walk.filter, j)'
    OBVIOUS
  <2>1. j \in owed /\ j \in Ids /\ Matches(walk.filter, j)
    BY <1>1 DEF IInv, TypeOK, OwedAhead
  <2>2. CASE j # i
    BY <2>1, <2>2, <1>2, <1>4 DEF Matches
  <2>3. CASE j = i
    <3>1. walk.filter.label \in {AnyLabel, label}
      BY <2>3, <1>1
    <3>. QED BY <2>1, <2>3, <3>1, <1>2, <1>4 DEF Matches
  <2>. QED BY <2>2, <2>3
<1>8. owed' \subseteq owed
  BY <1>1
<1>. QED BY <1>2, <1>5, <1>6, <1>7, <1>8, WriteKeeps

\* The clock ticks.
LEMMA TickKeeps ==
  ASSUME IInv, Tick
  PROVE  IInv'
<1>1. UNCHANGED <<listing, table, walk, owed>> /\ now' = now + 1
  BY DEF Tick
<1>2. TypeOK'
  BY <1>1 DEF IInv, TypeOK
<1>3. RowsStay
  BY <1>1 DEF RowsStay, Committed
<1>4. walk.pc = "walking" => \A j \in owed' : Matches(walk.filter, j)'
  BY <1>1 DEF IInv, OwedAhead, Matches
<1>. QED BY <1>1, <1>2, <1>3, <1>4, WriteKeeps

-----------------------------------------------------------------------------
(* The merchant walks.                                                     *)

\* A walk begins with no rows and no cursor, and everything that matches is owed.
LEMMA StartWalkKeeps ==
  ASSUME IInv, StartWalk
  PROVE  IInv'
<1>1. PICK f \in Filters :
        /\ walk' = [pc |-> "walking", filter |-> f, cursor |-> NoCursor, got |-> <<>>]
        /\ owed' = {i \in Ids : Matches(f, i)}
  BY DEF StartWalk
<1>2. UNCHANGED <<listing, now, table>>
  BY DEF StartWalk
<1>3. TypeOK'
  <2>1. walk' \in Walks
    BY <1>1 DEF Walks, Cursors
  <2>. QED BY <1>1, <1>2, <2>1 DEF IInv, TypeOK
<1>4. /\ walk'.pc = "walking" /\ walk'.got = <<>> /\ walk'.cursor = NoCursor /\ walk'.filter = f
      /\ DOMAIN walk'.got = {}
  BY <1>1
<1>5. GotCommitted' /\ WalkInOrder' /\ CursorIsLast' /\ WalkIsComplete'
  BY <1>4 DEF GotCommitted, WalkInOrder, CursorIsLast, WalkIsComplete
<1>6. OwedAhead'
  <2>. SUFFICES ASSUME NEW i \in owed' PROVE Matches(f, i)' /\ Beyond(NoCursor, i)'
    BY <1>4 DEF OwedAhead
  <2>. QED BY <1>1, <1>2 DEF Matches, Beyond
<1>. QED BY <1>3, <1>5, <1>6 DEF IInv

\* The rows of a page come after all rows given out before, and what it leaves out
\* comes after its last row.
LEMMA NextPageKeeps ==
  ASSUME IInv, NEW n \in 1..(MaxLimit + 1), NextPage(n)
  PROVE  IInv'
<1>. DEFINE limit == QueryLimit(n)
            f == walk.filter
            c == walk.cursor
            resp == PageFor(f, c, limit)
            data == resp.data
            got == walk.got
<1>1. limit \in 1..MaxLimit
  BY ListingAssumption DEF QueryLimit, Min
<1>2. /\ walk.pc = "walking"
      /\ walk' = [walk EXCEPT !.got = @ \o data,
                              !.cursor = IF resp.hasMore THEN EncodeCursor(Last(data)) ELSE NoCursor,
                              !.pc = IF resp.hasMore THEN "walking" ELSE "done"]
      /\ UNCHANGED <<listing, now, table, owed>>
  BY DEF NextPage, PageFor
<1>3. TypeOK /\ GotCommitted /\ WalkInOrder /\ CursorIsLast /\ OwedAhead
  BY DEF IInv
<1>4. /\ data \in Seq(Ids)
      /\ \A k \in DOMAIN data : data[k] \in Found(f, c) /\ data[k] \in Committed
      /\ \A k, m \in DOMAIN data : k < m => Newer(data[k], data[m])
      /\ resp.hasMore => data # <<>>
      /\ \A i \in Found(f, c) \ ToSet(data) : resp.hasMore /\ Newer(Last(data), i)
  <2>. HIDE DEF limit
  <2>. QED BY <1>1, <1>3, PageFacts
<1>5. /\ walk \in [pc : {"walking", "done"}, filter : Filters, cursor : Cursors, got : Seq(Ids)]
      /\ got \in Seq(Ids)
  BY <1>2, <1>3, WalkShape
<1>. HIDE DEF limit, resp, data
<1>6. /\ walk'.got = got \o data /\ walk'.filter = f
      /\ walk'.cursor = (IF resp.hasMore THEN EncodeCursor(Last(data)) ELSE NoCursor)
      /\ walk'.pc = (IF resp.hasMore THEN "walking" ELSE "done")
  BY <1>2, <1>5
<1>7. resp.hasMore => /\ Last(data) = data[Len(data)] /\ Len(data) \in DOMAIN data
                      /\ Last(data) \in Committed
  BY <1>4 DEF Last
<1>8. TypeOK'
  <2>1. walk'.cursor \in Cursors
    BY <1>3, <1>6, <1>7, CursorStandsForRow DEF Cursors
  <2>2. walk'.got \in Seq(Ids) /\ walk'.pc \in {"walking", "done"}
    BY <1>4, <1>5, <1>6
  <2>3. walk' \in [pc : {"walking", "done"}, filter : Filters, cursor : Cursors, got : Seq(Ids)]
    BY <1>2, <1>5, <1>6, <2>1, <2>2
  <2>. QED BY <1>2, <1>3, <2>3 DEF TypeOK, Walks
<1>9. Committed' = Committed
  BY <1>2 DEF Committed
<1>10. /\ DOMAIN (got \o data) = 1..(Len(got) + Len(data))
       /\ Len(got) \in Nat /\ Len(data) \in Nat
       /\ \A m \in 1..Len(got) : (got \o data)[m] = got[m]
       /\ \A m \in (Len(got) + 1)..(Len(got) + Len(data)) :
             (got \o data)[m] = data[m - Len(got)] /\ m - Len(got) \in 1..Len(data)
       /\ DOMAIN data = 1..Len(data) /\ DOMAIN got = 1..Len(got)
  BY <1>4, <1>5
<1>11. \A m \in DOMAIN (got \o data) : m \in 1..Len(got) \/ m \in (Len(got) + 1)..(Len(got) + Len(data))
  BY <1>10
<1>12. \A m \in 1..Len(got) : got[m] \in Committed
  BY <1>2, <1>3, <1>10 DEF GotCommitted
<1>13. GotCommitted'
  <2>1. \A m \in DOMAIN (got \o data) : (got \o data)[m] \in Committed
    BY <1>4, <1>10, <1>11, <1>12
  <2>. QED BY <2>1, <1>6, <1>9 DEF GotCommitted
<1>14. ASSUME NEW m \in 1..Len(got), NEW k \in 1..Len(data) PROVE Newer(got[m], data[k])
  <2>1. got # <<>> /\ walk.pc # "idle"
    BY <1>2, <1>5
  <2>2. /\ Last(got) = got[Len(got)] /\ Len(got) \in 1..Len(got) /\ Last(got) \in Committed
    BY <2>1, <1>3, <1>10, LastGiven
  <2>3. c = EncodeCursor(Last(got))
    BY <2>1, <1>2, <1>3 DEF CursorIsLast
  <2>4. data[k] \in Committed /\ Beyond(c, data[k])
    BY <1>4, <1>10 DEF Found
  <2>5. Newer(Last(got), data[k])
    BY <2>2, <2>3, <2>4, <1>3, CursorStandsForRow
  <2>6. CASE m = Len(got)
    BY <2>2, <2>5, <2>6
  <2>7. CASE m # Len(got)
    <3>1. Newer(got[m], Last(got))
      <4>1. m \in DOMAIN got /\ Len(got) \in DOMAIN got /\ m < Len(got)
        BY <2>2, <2>7, <1>10
      <4>2. Newer(got[m], got[Len(got)])
        BY <4>1, <2>1, <1>3 DEF WalkInOrder
      <4>. QED BY <4>2, <2>2
    <3>. QED BY <3>1, <2>2, <2>4, <2>5, <1>3, <1>12, NewerIsOrder
  <2>. QED BY <2>6, <2>7
<1>15. WalkInOrder'
  <2>1. ASSUME NEW m \in DOMAIN (got \o data), NEW k \in DOMAIN (got \o data), m < k
        PROVE  Newer((got \o data)[m], (got \o data)[k])
    <3>1. CASE k \in 1..Len(got)
      <4>1. m \in 1..Len(got)
        BY <2>1, <3>1, <1>10
      <4>. QED BY <4>1, <2>1, <3>1, <1>2, <1>3, <1>10 DEF WalkInOrder
    <3>2. CASE m \in 1..Len(got) /\ k \in (Len(got) + 1)..(Len(got) + Len(data))
      BY <3>2, <1>10, <1>14
    <3>3. CASE /\ m \in (Len(got) + 1)..(Len(got) + Len(data))
               /\ k \in (Len(got) + 1)..(Len(got) + Len(data))
      <4>1. m - Len(got) < k - Len(got)
        BY <2>1, <3>3, <1>10
      <4>. QED BY <4>1, <3>3, <1>4, <1>10
    <3>4. k \in 1..Len(got) \/ m \in 1..Len(got) \/ /\ m \in (Len(got) + 1)..(Len(got) + Len(data))
                                                    /\ k \in (Len(got) + 1)..(Len(got) + Len(data))
      BY <1>11
    <3>. QED BY <3>1, <3>2, <3>3, <3>4, <1>11
  <2>2. \A i, j : Newer(i, j)' <=> Newer(i, j)
    BY <1>2 DEF Newer, TupleLess
  <2>. QED BY <2>1, <2>2, <1>6 DEF WalkInOrder
<1>16. ASSUME resp.hasMore PROVE Last(got \o data) = Last(data) /\ got \o data # <<>>
  <2>1. Len(data) \in 1..Len(data) /\ Len(got \o data) = Len(got) + Len(data)
    BY <1>16, <1>4, <1>5, <1>7, <1>10
  <2>2. Last(got \o data) = (got \o data)[Len(got) + Len(data)]
    BY <2>1 DEF Last
  <2>3. (got \o data)[Len(got) + Len(data)] = data[Len(data)]
    BY <2>1, <1>10
  <2>. QED BY <1>16, <1>7, <1>10, <2>1, <2>2, <2>3
<1>17. CursorIsLast'
  <2>1. \A i : EncodeCursor(i)' = EncodeCursor(i)
    BY <1>2 DEF EncodeCursor
  <2>. SUFFICES ASSUME walk'.pc = "walking"
                PROVE  walk'.cursor = IF walk'.got = <<>> THEN NoCursor ELSE EncodeCursor(Last(walk'.got))
    BY <2>1 DEF CursorIsLast
  <2>2. resp.hasMore
    BY <1>6
  <2>. QED BY <2>2, <1>6, <1>16
<1>18. ToSet(got \o data) = ToSet(got) \cup ToSet(data)
  <2>1. \A m \in 1..Len(data) : /\ m + Len(got) \in (Len(got) + 1)..(Len(got) + Len(data))
                                /\ m + Len(got) \in 1..(Len(got) + Len(data))
                                /\ (m + Len(got)) - Len(got) = m
    BY <1>10
  <2>2. \A m \in 1..Len(got) : m \in 1..(Len(got) + Len(data))
    BY <1>10
  <2>3. \A m \in 1..Len(data) : (got \o data)[m + Len(got)] = data[m]
    BY <2>1, <1>10
  <2>4. ToSet(got \o data) \subseteq ToSet(got) \cup ToSet(data)
    BY <1>10, <1>11 DEF ToSet
  <2>5. ToSet(got) \subseteq ToSet(got \o data)
    BY <2>2, <1>10 DEF ToSet
  <2>6. ToSet(data) \subseteq ToSet(got \o data)
    <3>. SUFFICES ASSUME NEW m \in 1..Len(data) PROVE data[m] \in ToSet(got \o data)
      BY <1>10 DEF ToSet
    <3>1. m + Len(got) \in DOMAIN (got \o data) /\ (got \o data)[m + Len(got)] = data[m]
      BY <2>1, <2>3, <1>10
    <3>. QED BY <3>1 DEF ToSet
  <2>. QED BY <2>4, <2>5, <2>6
<1>19. ASSUME NEW i \in owed, i \notin ToSet(got), i \notin ToSet(data)
       PROVE  resp.hasMore /\ Beyond(EncodeCursor(Last(data)), i)
  <2>1. i \in Ids /\ Matches(f, i) /\ Beyond(c, i)
    BY <1>19, <1>2, <1>3 DEF OwedAhead, TypeOK
  <2>2. i \in Found(f, c) /\ i \in Committed
    BY <2>1 DEF Found, Committed, Matches
  <2>3. resp.hasMore /\ Newer(Last(data), i)
    BY <2>2, <1>19, <1>4
  <2>. QED BY <2>2, <2>3, <1>3, <1>7, CursorStandsForRow
<1>20. OwedAhead'
  <2>. SUFFICES ASSUME walk'.pc = "walking", NEW i \in owed
                PROVE  /\ Matches(walk.filter, i)'
                       /\ i \in ToSet(walk'.got) \/ Beyond(walk.cursor, i)'
    BY <1>2 DEF OwedAhead
  <2>1. Matches(f, i)
    BY <1>2, <1>3 DEF OwedAhead
  <2>2. Matches(walk.filter, i)'
    BY <2>1, <1>2, <1>6 DEF Matches
  <2>3. i \in ToSet(got \o data) \/ Beyond(EncodeCursor(Last(data)), i)
    BY <1>18, <1>19
  <2>4. resp.hasMore /\ walk'.cursor = EncodeCursor(Last(data))
    BY <1>6
  <2>5. Beyond(walk.cursor, i)' <=> Beyond(EncodeCursor(Last(data)), i)
    BY <2>4, <1>2 DEF Beyond, TupleLess, CursorTime
  <2>. QED BY <2>2, <2>3, <2>4, <2>5, <1>6
<1>21. WalkIsComplete'
  <2>. SUFFICES ASSUME walk'.pc = "done", NEW i \in owed PROVE i \in ToSet(got \o data)
    BY <1>2, <1>6 DEF WalkIsComplete
  <2>1. ~resp.hasMore
    BY <1>6
  <2>. QED BY <2>1, <1>18, <1>19
<1>. QED BY <1>8, <1>13, <1>15, <1>17, <1>20, <1>21 DEF IInv

-----------------------------------------------------------------------------
(* The theorems.                                                           *)

\* The inductive invariant holds of every reachable state of the listing.
THEOREM Invariance == Spec => []IInv
<1>1. Init => IInv
  BY DEF Init, IInv, TypeOK, Rows, Walks, NoWalk, GotCommitted, WalkInOrder, CursorIsLast,
         OwedAhead, WalkIsComplete
<1>2. IInv /\ [Next]_vars => IInv'
  <2>. SUFFICES ASSUME IInv, [Next]_vars PROVE IInv'
    OBVIOUS
  <2>1. ASSUME NEW i \in Ids, Insert(i) PROVE IInv'
    BY <2>1, InsertKeeps
  <2>2. ASSUME NEW i \in Ids, End(i) PROVE IInv'
    BY <2>2, EndKeeps
  <2>3. ASSUME NEW i \in Ids, Relabel(i) PROVE IInv'
    BY <2>3, RelabelKeeps
  <2>4. CASE Tick
    BY <2>4, TickKeeps
  <2>5. CASE StartWalk
    BY <2>5, StartWalkKeeps
  <2>6. ASSUME NEW n \in 1..(MaxLimit + 1), NextPage(n) PROVE IInv'
    BY <2>6, NextPageKeeps
  <2>7. CASE UNCHANGED vars
    BY <2>7 DEF vars, IInv, TypeOK, GotCommitted, WalkInOrder, CursorIsLast, OwedAhead,
                WalkIsComplete, Committed, Newer, TupleLess, EncodeCursor, Matches, Beyond, CursorTime
  <2>. QED BY <2>1, <2>2, <2>3, <2>4, <2>5, <2>6, <2>7 DEF Next
<1>. QED BY <1>1, <1>2, PTL DEF Spec

\* The pages of a walk, put together, are newest first and name no row twice.
THEOREM WalkOrdered == Spec => []WalkInOrder
<1>1. IInv => WalkInOrder
  BY DEF IInv
<1>. QED BY <1>1, Invariance, PTL

\* A finished walk has returned every row that was committed when it began and
\* matched all along.
THEOREM WalkComplete == Spec => []WalkIsComplete
<1>1. IInv => WalkIsComplete
  BY DEF IInv
<1>. QED BY <1>1, Invariance, PTL

=============================================================================
