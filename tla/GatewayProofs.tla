---------------------------- MODULE GatewayProofs ----------------------------
(***************************************************************************)
(* The safety properties of the gateway, proved for any number of          *)
(* requests, reconciliation runs, transactions and amounts, and with every *)
(* kind of fault.                                                          *)
(*                                                                         *)
(* First come facts about the journal's sums and entry groups, for         *)
(* journals of any length.  Sum is a recursive function over a sequence,   *)
(* so the facts need induction; the library's induction rules take a       *)
(* predicate as a parameter, which the provers here cannot instantiate, so *)
(* induction is derived once, for sets of naturals, from the               *)
(* well-foundedness of <.                                                  *)
(*                                                                         *)
(* GatewayInvariant defines the inductive invariant.  Its proof goes from  *)
(* one payment outwards: each kind of commit keeps a payment consistent;   *)
(* each shape of step (nothing written, a lock taken, a transaction ended) *)
(* keeps the locks; and then there is one lemma per action.                *)
(***************************************************************************)
EXTENDS GatewayInvariant, TLAPS, WellFoundedInduction, FiniteSetTheorems

-----------------------------------------------------------------------------
(* Induction and sums.                                                     *)

\* A set of naturals that holds 0 and is closed under successor is Nat.
LEMMA SetInduction ==
  ASSUME NEW S \in SUBSET Nat, 0 \in S, \A n \in S : n + 1 \in S
  PROVE  S = Nat
<1>. DEFINE T == Nat \ S
            R == OpToRel(<, Nat)
<1>1. SUFFICES ASSUME T # {} PROVE FALSE
  OBVIOUS
<1>2. PICK x \in T : \A y \in T : ~(<<y, x>> \in R)
  <2>1. IsWellFoundedOn(R, Nat)
    BY NatLessThanWellFounded, Zenon
  <2>2. T \subseteq Nat
    OBVIOUS
  <2>. HIDE DEF R, T
  <2>. QED BY <1>1, <2>1, <2>2, WFMin
<1>3. x # 0 /\ x \in Nat /\ x - 1 \in Nat
  OBVIOUS
<1>4. <<x - 1, x>> \in R
  BY <1>3 DEF OpToRel
<1>5. x - 1 \notin T
  BY <1>2, <1>4
<1>6. (x - 1) + 1 \in S
  BY <1>3, <1>5
<1>. QED BY <1>3, <1>6

\* f is the function of running totals that Sum(w) selects.
IsTotal(f, w) ==
  f = [n \in 0..Len(w) |-> IF n = 0 THEN 0 ELSE f[n - 1] + w[n]]

\* A sequence has at most one function of running totals.
LEMMA TotalUnique ==
  ASSUME NEW w, NEW f, NEW g, IsTotal(f, w), IsTotal(g, w), Len(w) \in Nat
  PROVE  f = g
<1>. DEFINE S == {n \in Nat : n <= Len(w) => f[n] = g[n]}
<1>1. 0 \in S
  BY DEF IsTotal
<1>2. ASSUME NEW n \in S PROVE n + 1 \in S
  <2>1. CASE n + 1 <= Len(w)
    <3>1. f[n] = g[n] /\ n + 1 \in 0..Len(w) /\ n + 1 # 0 /\ (n + 1) - 1 = n
      BY <2>1
    <3>2. f[n + 1] = f[n] + w[n + 1]
      BY <3>1 DEF IsTotal
    <3>3. g[n + 1] = g[n] + w[n + 1]
      BY <3>1 DEF IsTotal
    <3>. QED BY <3>1, <3>2, <3>3
  <2>2. CASE ~(n + 1 <= Len(w))
    BY <2>2
  <2>. QED BY <2>1, <2>2
<1>3. S = Nat
  <2>1. S \in SUBSET Nat
    OBVIOUS
  <2>. HIDE DEF S
  <2>. QED BY <1>1, <1>2, <2>1, SetInduction
<1>4. \A n \in 0..Len(w) : f[n] = g[n]
  BY <1>3
<1>. QED BY <1>4 DEF IsTotal

\* Running totals of w extend to running totals of w with one more element.
LEMMA TotalExtends ==
  ASSUME NEW w \in Seq(Int), NEW x \in Int,
         NEW f \in [0..Len(w) -> Int], IsTotal(f, w)
  PROVE  \E g \in [0..Len(Append(w, x)) -> Int] :
            /\ IsTotal(g, Append(w, x))
            /\ g[Len(Append(w, x))] = f[Len(w)] + x
<1>. DEFINE n == Len(w)
            u == Append(w, x)
            g == [k \in 0..(n + 1) |-> IF k <= n THEN f[k] ELSE f[n] + x]
            h == [k \in 0..Len(u) |-> IF k = 0 THEN 0 ELSE g[k - 1] + u[k]]
<1>1. n \in Nat /\ Len(u) = n + 1 /\ u[n + 1] = x /\ (\A k \in 1..n : u[k] = w[k])
  OBVIOUS
<1>2. g \in [0..Len(u) -> Int]
  BY <1>1
<1>3. g[n + 1] = f[n] + x
  BY <1>1
<1>4. ASSUME NEW k \in 0..(n + 1) PROVE g[k] = IF k = 0 THEN 0 ELSE g[k - 1] + u[k]
  <2>1. CASE k = 0
    BY <2>1, <1>1 DEF IsTotal
  <2>2. CASE k \in 1..n
    <3>1. k \in 0..Len(w) /\ k # 0
      BY <2>2, <1>1
    <3>2. f[k] = f[k - 1] + w[k]
      BY <3>1 DEF IsTotal
    <3>3. g[k] = f[k] /\ g[k - 1] = f[k - 1] /\ u[k] = w[k]
      BY <2>2, <1>1
    <3>. QED BY <3>1, <3>2, <3>3
  <2>3. CASE k = n + 1
    <3>1. g[k - 1] = f[n] /\ g[k] = f[n] + x /\ u[k] = x /\ k # 0
      BY <2>3, <1>1
    <3>. QED BY <3>1
  <2>. QED BY <2>1, <2>2, <2>3, <1>1
<1>5. g = h
  BY <1>1, <1>4
<1>. QED BY <1>1, <1>2, <1>3, <1>5 DEF IsTotal

\* Every sequence of integers has running totals.
LEMMA TotalExists ==
  ASSUME NEW w \in Seq(Int)
  PROVE  \E f \in [0..Len(w) -> Int] : IsTotal(f, w)
<1>. DEFINE P(v) == \E f \in [0..Len(v) -> Int] : IsTotal(f, v)
            S == {n \in Nat : \A v \in Seq(Int) : Len(v) = n => P(v)}
<1>1. 0 \in S
  <2>. SUFFICES ASSUME NEW v \in Seq(Int), Len(v) = 0 PROVE P(v)
    OBVIOUS
  <2>. DEFINE f == [k \in 0..Len(v) |-> 0]
  <2>1. f \in [0..Len(v) -> Int] /\ IsTotal(f, v)
    BY DEF IsTotal
  <2>. QED BY <2>1
<1>2. ASSUME NEW n \in S PROVE n + 1 \in S
  <2>. SUFFICES ASSUME NEW v \in Seq(Int), Len(v) = n + 1 PROVE P(v)
    OBVIOUS
  <2>. DEFINE u == [i \in 1..n |-> v[i]]
  <2>1. n \in Nat /\ v[n + 1] \in Int
    OBVIOUS
  <2>2. u \in Seq(Int) /\ Len(u) = n
    BY <2>1
  <2>3. v = Append(u, v[n + 1])
    BY <2>1, <2>2
  <2>4. PICK f \in [0..Len(u) -> Int] : IsTotal(f, u)
    BY <2>2
  <2>5. \E g \in [0..Len(Append(u, v[n + 1])) -> Int] : IsTotal(g, Append(u, v[n + 1]))
    <3>. HIDE DEF u
    <3>. QED BY <2>1, <2>2, <2>4, TotalExtends
  <2>. QED BY <2>3, <2>5
<1>3. S = Nat
  <2>1. S \in SUBSET Nat
    OBVIOUS
  <2>. HIDE DEF S
  <2>. QED BY <1>1, <1>2, <2>1, SetInduction
<1>4. Len(w) \in S
  BY <1>3
<1>. QED BY <1>4

\* Sum selects the last running total.
LEMMA SumIsLastTotal ==
  ASSUME NEW w \in Seq(Int), NEW f, IsTotal(f, w)
  PROVE  Sum(w) = f[Len(w)]
<1>. DEFINE g == CHOOSE h : IsTotal(h, w)
<1>1. IsTotal(g, w)
  OBVIOUS
<1>2. Sum(w) = g[Len(w)]
  BY DEF Sum, IsTotal
<1>3. g = f
  <2>. HIDE DEF g
  <2>. QED BY <1>1, TotalUnique
<1>. QED BY <1>2, <1>3

\* Appending x to a sequence of integers adds x to its sum.
LEMMA SumAppend ==
  ASSUME NEW w \in Seq(Int), NEW x \in Int
  PROVE  Sum(w) \in Int /\ Sum(Append(w, x)) = Sum(w) + x
<1>1. PICK f \in [0..Len(w) -> Int] : IsTotal(f, w)
  BY TotalExists
<1>2. Sum(w) = f[Len(w)]
  BY <1>1, SumIsLastTotal
<1>3. PICK g : IsTotal(g, Append(w, x)) /\ g[Len(Append(w, x))] = f[Len(w)] + x
  BY <1>1, TotalExtends
<1>4. Sum(Append(w, x)) = g[Len(Append(w, x))]
  BY <1>3, SumIsLastTotal
<1>. QED BY <1>1, <1>2, <1>3, <1>4

\* Nothing adds up to zero.
LEMMA SumEmpty == Sum(<<>>) = 0
<1>1. <<>> \in Seq(Int) /\ Len(<<>>) = 0
  OBVIOUS
<1>2. PICK f \in [0..Len(<<>>) -> Int] : IsTotal(f, <<>>)
  BY <1>1, TotalExists
<1>3. Sum(<<>>) = f[0]
  BY <1>1, <1>2, SumIsLastTotal
<1>. QED BY <1>1, <1>2, <1>3 DEF IsTotal

-----------------------------------------------------------------------------
(* The journal.                                                            *)

\* A leg that a FILTER selects is an integer.
LEMMA LegType ==
  ASSUME NEW g \in EntryGroup, NEW event, NEW account \in Accounts, NEW direction
  PROVE  Leg(g, event, account, direction) \in Int
BY DEF Leg, Booked, EntryGroup, LedgerEntry, NoLeg

\* Two sequences with the same elements are the same.
LEMMA SeqEqual ==
  ASSUME NEW a \in Seq(Int), NEW b \in Seq(Int), Len(a) = Len(b),
         \A i \in 1..Len(a) : a[i] = b[i]
  PROVE  a = b
<1>1. a = [i \in 1..Len(a) |-> a[i]]
  OBVIOUS
<1>2. b = [i \in 1..Len(b) |-> b[i]]
  OBVIOUS
<1>3. [i \in 1..Len(a) |-> a[i]] = [i \in 1..Len(b) |-> b[i]]
  OBVIOUS
<1>. QED BY <1>1, <1>2, <1>3

\* Inserting one group adds its leg to every filtered sum of the journal.
LEMMA PostedAppend ==
  ASSUME NEW s \in Seq(EntryGroup), NEW g \in EntryGroup,
         NEW event, NEW account \in Accounts, NEW direction
  PROVE  /\ Posted(s, event, account, direction) \in Int
         /\ Posted(s \o <<g>>, event, account, direction)
              = Posted(s, event, account, direction) + Leg(g, event, account, direction)
<1>. DEFINE u == s \o <<g>>
            w == [i \in DOMAIN s |-> Leg(s[i], event, account, direction)]
            v == [i \in DOMAIN u |-> Leg(u[i], event, account, direction)]
            x == Leg(g, event, account, direction)
<1>1. /\ Len(s) \in Nat /\ DOMAIN s = 1..Len(s) /\ DOMAIN u = 1..(Len(s) + 1)
      /\ u[Len(s) + 1] = g /\ \A i \in 1..Len(s) : u[i] = s[i] /\ s[i] \in EntryGroup
  OBVIOUS
<1>2. \A i \in DOMAIN s : Leg(s[i], event, account, direction) \in Int
  BY <1>1, LegType
<1>3. x \in Int
  BY LegType
<1>4. w \in Seq(Int) /\ Len(w) = Len(s)
  <2>. HIDE DEF x
  <2>. QED BY <1>1, <1>2
<1>5. v = Append(w, x)
  <2>1. \A i \in 1..Len(s) : v[i] = w[i]
    BY <1>1
  <2>2. v[Len(s) + 1] = x
    BY <1>1
  <2>3. v \in Seq(Int) /\ Len(v) = Len(s) + 1
    <3>1. \A i \in DOMAIN u : Leg(u[i], event, account, direction) \in Int
      BY <1>1, LegType
    <3>. HIDE DEF u
    <3>. QED BY <1>1, <3>1
  <2>. HIDE DEF v, w, x
  <2>4. /\ Append(w, x) \in Seq(Int) /\ Len(Append(w, x)) = Len(s) + 1
        /\ Append(w, x)[Len(s) + 1] = x
        /\ \A i \in 1..Len(s) : Append(w, x)[i] = w[i]
    BY <1>1, <1>3, <1>4
  <2>5. \A i \in 1..(Len(s) + 1) : v[i] = Append(w, x)[i]
    BY <1>1, <2>1, <2>2, <2>4
  <2>. QED BY <2>3, <2>4, <2>5, SeqEqual
<1>6. Sum(w) \in Int /\ Sum(v) = Sum(w) + x
  <2>. HIDE DEF v, w, x
  <2>. QED BY <1>3, <1>4, <1>5, SumAppend
<1>. QED BY <1>6 DEF Posted

\* A payment without entries has posted nothing.
LEMMA PostedEmpty ==
  ASSUME NEW event, NEW account, NEW direction
  PROVE  Posted(<<>>, event, account, direction) = 0
<1>1. [i \in DOMAIN <<>> |-> Leg(<<>>[i], event, account, direction)] = <<>>
  OBVIOUS
<1>. QED BY <1>1, SumEmpty DEF Posted

\* What a group books on one account and side is an integer.
LEMMA BookedType ==
  ASSUME NEW g \in EntryGroup, NEW account \in Accounts, NEW direction
  PROVE  Booked(g, account, direction) \in Int
BY DEF Booked, EntryGroup, LedgerEntry, NoLeg

\* Inserting one group adds what it books to the total of every account.
LEMMA AccountTotalAppend ==
  ASSUME NEW s \in Seq(EntryGroup), NEW g \in EntryGroup, NEW account \in Accounts, NEW direction
  PROVE  /\ AccountTotal(s, account, direction) \in Int
         /\ AccountTotal(s \o <<g>>, account, direction)
              = AccountTotal(s, account, direction) + Booked(g, account, direction)
<1>. DEFINE u == s \o <<g>>
            w == [i \in DOMAIN s |-> Booked(s[i], account, direction)]
            v == [i \in DOMAIN u |-> Booked(u[i], account, direction)]
            x == Booked(g, account, direction)
<1>1. /\ Len(s) \in Nat /\ DOMAIN s = 1..Len(s) /\ DOMAIN u = 1..(Len(s) + 1)
      /\ u[Len(s) + 1] = g /\ \A i \in 1..Len(s) : u[i] = s[i] /\ s[i] \in EntryGroup
  OBVIOUS
<1>2. /\ x \in Int
      /\ \A i \in DOMAIN s : Booked(s[i], account, direction) \in Int
      /\ \A i \in DOMAIN u : Booked(u[i], account, direction) \in Int
  BY <1>1, BookedType
<1>3. w \in Seq(Int) /\ Len(w) = Len(s)
  <2>. HIDE DEF x
  <2>. QED BY <1>1, <1>2
<1>4. v = Append(w, x)
  <2>1. v[Len(s) + 1] = x /\ \A i \in 1..Len(s) : v[i] = w[i]
    BY <1>1
  <2>2. v \in Seq(Int) /\ Len(v) = Len(s) + 1
    <3>. HIDE DEF u
    <3>. QED BY <1>1, <1>2
  <2>. HIDE DEF v, w, x
  <2>3. /\ Append(w, x) \in Seq(Int) /\ Len(Append(w, x)) = Len(s) + 1
        /\ Append(w, x)[Len(s) + 1] = x
        /\ \A i \in 1..Len(s) : Append(w, x)[i] = w[i]
    BY <1>1, <1>2, <1>3
  <2>4. \A i \in 1..(Len(s) + 1) : v[i] = Append(w, x)[i]
    BY <1>1, <2>1, <2>3
  <2>. QED BY <2>2, <2>3, <2>4, SeqEqual
<1>5. Sum(w) \in Int /\ Sum(v) = Sum(w) + x
  <2>. HIDE DEF v, w, x
  <2>. QED BY <1>2, <1>3, <1>4, SumAppend
<1>. QED BY <1>5 DEF AccountTotal

\* What one more group does to the balance owed to the merchant.
LEMMA AvailableAppend ==
  ASSUME NEW s \in Seq(EntryGroup), NEW g \in EntryGroup
  PROVE  /\ Available(s) \in Int
         /\ Available(s \o <<g>>)
              = Available(s) + Booked(g, Payable, "credit") - Booked(g, Payable, "debit")
<1>1. Payable \in Accounts
  BY DEF Accounts
<1>2. Booked(g, Payable, "credit") \in Int /\ Booked(g, Payable, "debit") \in Int
  BY <1>1, BookedType
<1>. QED BY <1>1, <1>2, AccountTotalAppend DEF Available

\* Nothing is owed on a payment without entries.
LEMMA AvailableEmpty == Available(<<>>) = 0
<1>1. \A direction : [i \in DOMAIN <<>> |-> Booked(<<>>[i], Payable, direction)] = <<>>
  OBVIOUS
<1>. QED BY <1>1, SumEmpty DEF Available, AccountTotal

\* The groups of an event, after one more group is inserted.
LEMMA GroupsOfAppend ==
  ASSUME NEW s \in Seq(EntryGroup), NEW g \in EntryGroup, NEW event
  PROVE  /\ (\A a \in Accounts : g[a].event # event)
               => GroupsOf(s \o <<g>>, event) = GroupsOf(s, event)
         /\ GroupsOf(s \o <<g>>, event) \subseteq GroupsOf(s, event) \cup {Len(s) + 1}
<1>. DEFINE u == s \o <<g>>
<1>1. /\ Len(s) \in Nat /\ DOMAIN s = 1..Len(s) /\ DOMAIN u = 1..(Len(s) + 1)
      /\ u[Len(s) + 1] = g /\ \A i \in 1..Len(s) : u[i] = s[i]
  OBVIOUS
<1>2. DOMAIN u = DOMAIN s \cup {Len(s) + 1}
  BY <1>1
<1>. HIDE DEF u
<1>3. GroupsOf(u, event) \subseteq GroupsOf(s, event) \cup {Len(s) + 1}
  BY <1>1, <1>2 DEF GroupsOf
<1>4. ASSUME \A a \in Accounts : g[a].event # event
      PROVE  GroupsOf(u, event) = GroupsOf(s, event)
  BY <1>1, <1>2, <1>4 DEF GroupsOf
<1>. QED BY <1>3, <1>4 DEF u

-----------------------------------------------------------------------------
(* The three kinds of group.                                               *)

\* The four accounts are different accounts.
LEMMA AccountsDistinct ==
  /\ Receivable # Payable /\ Receivable # FeeRevenue /\ Receivable # Cash
  /\ Payable # FeeRevenue /\ Payable # Cash /\ FeeRevenue # Cash
BY DEF Receivable, Payable, FeeRevenue, Cash

\* What NewCaptureEntryGroup posts to each of the filtered sums.
LEMMA CaptureGroup ==
  ASSUME NEW amount \in Int, NEW fee \in Int
  PROVE  LET g == CaptureEntryGroup(amount, fee)
         IN  /\ g \in EntryGroup
             /\ Leg(g, "capture", Receivable, "debit") = amount
             /\ Leg(g, "refund", Receivable, "credit") = 0
             /\ Leg(g, "settlement", Cash, "credit") = 0
             /\ \A a \in Accounts : g[a].event # "settlement"
<1>. DEFINE g == CaptureEntryGroup(amount, fee)
<1>1. /\ g[Receivable] = Debit(amount, "capture")
      /\ g[Payable] = Credit(amount - fee, "capture")
      /\ g[FeeRevenue] = IF fee > 0 THEN Credit(fee, "fee") ELSE NoLeg
      /\ g[Cash] = NoLeg
  BY AccountsDistinct DEF CaptureEntryGroup, Accounts
<1>2. g \in EntryGroup
  BY <1>1 DEF CaptureEntryGroup, EntryGroup, Accounts, Debit, Credit, NoLeg, LedgerEntry, EventTypes
<1>. HIDE DEF g
<1>. QED BY <1>1, <1>2 DEF Leg, Booked, Debit, Credit, NoLeg, Accounts, g

\* A pair has two elements.
LEMMA TwoLegs ==
  ASSUME NEW a, NEW b, a # b
  PROVE  Cardinality({a, b}) = 2
<1>1. IsFiniteSet({a}) /\ Cardinality({a}) = 1 /\ b \notin {a}
  BY FS_Singleton
<1>2. Cardinality({a} \cup {b}) = Cardinality({a}) + 1
  BY <1>1, FS_AddElement
<1>3. {a, b} = {a} \cup {b}
  OBVIOUS
<1>. QED BY <1>1, <1>2, <1>3

\* What NewRefundEntryGroup posts, and that it validates.
LEMMA RefundGroup ==
  ASSUME NEW amount \in Int
  PROVE  LET g == RefundEntryGroup(amount)
         IN  /\ g \in EntryGroup
             /\ Leg(g, "capture", Receivable, "debit") = 0
             /\ Leg(g, "refund", Receivable, "credit") = amount
             /\ Leg(g, "settlement", Cash, "credit") = 0
             /\ \A a \in Accounts : g[a].event # "settlement"
             /\ amount > 0 => Validate(g)
<1>. DEFINE g == RefundEntryGroup(amount)
<1>1. /\ g[Receivable] = Credit(amount, "refund")
      /\ g[Payable] = Debit(amount, "refund")
      /\ g[FeeRevenue] = NoLeg
      /\ g[Cash] = NoLeg
  BY AccountsDistinct DEF RefundEntryGroup, Accounts
<1>2. g \in EntryGroup
  BY <1>1 DEF RefundEntryGroup, EntryGroup, Accounts, Debit, Credit, NoLeg, LedgerEntry, EventTypes
<1>. HIDE DEF g
<1>3. Entries(g) = {Receivable, Payable}
  BY <1>1 DEF Entries, Accounts, Debit, Credit, NoLeg
<1>4. Cardinality(Entries(g)) = 2
  BY <1>3, TwoLegs, AccountsDistinct
<1>5. GroupTotal(g, "debit") = amount /\ GroupTotal(g, "credit") = amount
  BY <1>1 DEF GroupTotal, Booked, Debit, Credit, NoLeg
<1>6. ASSUME amount > 0 PROVE Validate(g)
  BY <1>1, <1>3, <1>4, <1>5, <1>6 DEF Validate, Debit, Credit
<1>. QED BY <1>1, <1>2, <1>6 DEF Leg, Booked, Debit, Credit, NoLeg, Accounts, g

\* What NewSettlementEntryGroup posts, and that it validates.
LEMMA SettlementGroup ==
  ASSUME NEW net \in Int
  PROVE  LET g == SettlementEntryGroup(net)
         IN  /\ g \in EntryGroup
             /\ Leg(g, "capture", Receivable, "debit") = 0
             /\ Leg(g, "refund", Receivable, "credit") = 0
             /\ Leg(g, "settlement", Cash, "credit") = net
             /\ net > 0 => Validate(g)
<1>. DEFINE g == SettlementEntryGroup(net)
<1>1. /\ g[Receivable] = NoLeg
      /\ g[Payable] = Debit(net, "settlement")
      /\ g[FeeRevenue] = NoLeg
      /\ g[Cash] = Credit(net, "settlement")
  BY AccountsDistinct DEF SettlementEntryGroup, Accounts
<1>2. g \in EntryGroup
  BY <1>1 DEF SettlementEntryGroup, EntryGroup, Accounts, Debit, Credit, NoLeg, LedgerEntry, EventTypes
<1>. HIDE DEF g
<1>3. Entries(g) = {Payable, Cash}
  BY <1>1 DEF Entries, Accounts, Debit, Credit, NoLeg
<1>4. Cardinality(Entries(g)) = 2
  BY <1>3, TwoLegs, AccountsDistinct
<1>5. GroupTotal(g, "debit") = net /\ GroupTotal(g, "credit") = net
  BY <1>1 DEF GroupTotal, Booked, Debit, Credit, NoLeg
<1>6. ASSUME net > 0 PROVE Validate(g)
  BY <1>1, <1>3, <1>4, <1>5, <1>6 DEF Validate, Debit, Credit
<1>. QED BY <1>1, <1>2, <1>6 DEF Leg, Booked, Debit, Credit, NoLeg, Accounts, g

\* What the three constructors book on merchant_payable.
LEMMA PayableLegs ==
  ASSUME NEW amount \in Int, NEW fee \in Int
  PROVE  /\ Booked(CaptureEntryGroup(amount, fee), Payable, "credit") = amount - fee
         /\ Booked(CaptureEntryGroup(amount, fee), Payable, "debit") = 0
         /\ Booked(RefundEntryGroup(amount), Payable, "credit") = 0
         /\ Booked(RefundEntryGroup(amount), Payable, "debit") = amount
         /\ Booked(SettlementEntryGroup(amount), Payable, "credit") = 0
         /\ Booked(SettlementEntryGroup(amount), Payable, "debit") = amount
<1>1. /\ CaptureEntryGroup(amount, fee)[Payable] = Credit(amount - fee, "capture")
      /\ RefundEntryGroup(amount)[Payable] = Debit(amount, "refund")
      /\ SettlementEntryGroup(amount)[Payable] = Debit(amount, "settlement")
  BY AccountsDistinct DEF CaptureEntryGroup, RefundEntryGroup, SettlementEntryGroup, Accounts
<1>. QED BY <1>1 DEF Booked, Debit, Credit

-----------------------------------------------------------------------------
(* The fee is an integer, and with no overflow it is between 0 and a.      *)

\* Fee is an integer, overflow included.
LEMMA FeeType ==
  ASSUME NEW a \in Int
  PROVE  Fee(a, FeeBPS) \in Int
<1>1. IntLimit \in Nat \ {0} /\ FeeBPS \in Int
  BY IntLimitAssumption, FeeAssumption
<1>2. a * FeeBPS \in Int
  BY <1>1
<1>3. \A y \in Int : Wrap(y) \in Int
  BY <1>1 DEF Wrap
<1>4. \A y \in Int : Quo(y, 10000) \in Int
  BY DEF Quo
<1>. QED BY <1>2, <1>3, <1>4 DEF Fee

-----------------------------------------------------------------------------
(* What a commit may append.                                               *)

\* A journal with one more valid group that is no payout, or with none.
LEMMA JournalAppend ==
  ASSUME NEW s \in Seq(EntryGroup), NEW g \in EntryGroup, Validate(g),
         \A i \in DOMAIN s : Validate(s[i])
  PROVE  /\ s \o <<g>> \in Seq(EntryGroup)
         /\ \A i \in DOMAIN (s \o <<g>>) : Validate((s \o <<g>>)[i])
         /\ PostedCaptures(s \o <<g>>) = PostedCaptures(s) + Leg(g, "capture", Receivable, "debit")
         /\ PostedRefunds(s \o <<g>>) = PostedRefunds(s) + Leg(g, "refund", Receivable, "credit")
<1>. DEFINE u == s \o <<g>>
<1>1. /\ Len(s) \in Nat /\ DOMAIN s = 1..Len(s) /\ DOMAIN u = 1..(Len(s) + 1)
      /\ u[Len(s) + 1] = g /\ \A i \in 1..Len(s) : u[i] = s[i]
  OBVIOUS
<1>2. u \in Seq(EntryGroup)
  OBVIOUS
<1>. HIDE DEF u
<1>3. \A i \in DOMAIN u : Validate(u[i])
  BY <1>1
<1>4. Receivable \in Accounts
  BY DEF Accounts
<1>. QED BY <1>2, <1>3, <1>4, PostedAppend DEF u, PostedCaptures, PostedRefunds

\* queueWebhook on one outbox: one more entry, the last, and a payout event only
\* if it is one.
LEMMA OutboxAppend ==
  ASSUME NEW o \in Seq(Payloads), NEW m \in Payloads
  PROVE  /\ Append(o, m) \in Seq(Payloads)
         /\ Len(Append(o, m)) = Len(o) + 1
         /\ Append(o, m) # <<>>
         /\ Append(o, m)[Len(o) + 1] = m
         /\ m.event # "settled" => SettledEvents(Append(o, m)) = SettledEvents(o)
         /\ SettledEvents(Append(o, m)) \subseteq SettledEvents(o) \cup {Len(o) + 1}
<1>. DEFINE u == Append(o, m)
<1>1. /\ Len(o) \in Nat /\ DOMAIN o = 1..Len(o) /\ DOMAIN u = 1..(Len(o) + 1)
      /\ u[Len(o) + 1] = m /\ \A i \in 1..Len(o) : u[i] = o[i]
      /\ u \in Seq(Payloads) /\ Len(u) = Len(o) + 1 /\ u # <<>>
  OBVIOUS
<1>2. DOMAIN u = DOMAIN o \cup {Len(o) + 1}
  BY <1>1
<1>. HIDE DEF u
<1>3. SettledEvents(u) \subseteq SettledEvents(o) \cup {Len(o) + 1}
  BY <1>1, <1>2 DEF SettledEvents
<1>4. ASSUME m.event # "settled" PROVE SettledEvents(u) = SettledEvents(o)
  BY <1>1, <1>2, <1>4 DEF SettledEvents
<1>. QED BY <1>1, <1>3, <1>4 DEF u

-----------------------------------------------------------------------------
(* Each kind of commit keeps a payment consistent.                         *)

Committed(y) == [y EXCEPT !.version = @ + 1]

\* What is common to all commits: the version grows with the outbox, whose
\* last entry reports the row.
LEMMA CommitKeeps ==
  ASSUME NEW x, NEW s, NEW o, Consistent(x, s, o), x.status # Absent,
         NEW y \in Rows, y.version = x.version, y.amount = x.amount, y.status \in Status,
         NEW event \in Events,
         NEW u \in Seq(EntryGroup),
         MoneyOK(y), BooksOK(y, u),
         PayoutOK(y, u, Append(o, EventPayload(event, y)))
  PROVE  Consistent(Committed(y), u, Append(o, EventPayload(event, y)))
<1>. DEFINE z == Committed(y)
            m == EventPayload(event, y)
<1>1. /\ z \in Rows /\ z.version = y.version + 1 /\ z.status = y.status
      /\ z.amount = y.amount /\ z.captured = y.captured /\ z.refunded = y.refunded
      /\ z.capturedAt = y.capturedAt /\ z.status # Absent
  BY DEF Rows, Committed, Status, Absent
<1>2. m \in Payloads /\ m = EventPayload(m.event, z)
  BY <1>1 DEF EventPayload, Payloads, Rows
<1>3. o \in Seq(Payloads) /\ Len(o) = x.version
  BY DEF Consistent, OutboxOK
<1>. HIDE DEF z, m
<1>4. /\ Append(o, m) \in Seq(Payloads) /\ Append(o, m)[Len(Append(o, m))] = m
      /\ Len(Append(o, m)) = Len(o) + 1
  BY <1>2, <1>3, OutboxAppend
<1>5. OutboxOK(z, Append(o, m))
  BY <1>1, <1>2, <1>3, <1>4 DEF OutboxOK
<1>6. MoneyOK(z) /\ BooksOK(z, u) /\ PayoutOK(z, u, Append(o, m))
  BY <1>1 DEF MoneyOK, BooksOK, PayoutOK, m
<1>7. z.amount \in Amounts
  BY <1>1 DEF Consistent
<1>. QED BY <1>1, <1>4, <1>5, <1>6, <1>7 DEF Consistent, z, m

\* A commit that pays nothing out.
LEMMA NoPayout ==
  ASSUME NEW x, NEW s, NEW o, Consistent(x, s, o),
         NEW y, x.status \in {"settled", "refunded"} => y.status \in {"settled", "refunded"},
         NEW event \in Events, event # "settled", EventPayload(event, y) \in Payloads,
         NEW u, GroupsOf(u, "settlement") = GroupsOf(s, "settlement")
  PROVE  PayoutOK(y, u, Append(o, EventPayload(event, y)))
<1>. DEFINE m == EventPayload(event, y)
<1>1. m.event # "settled" /\ m \in Payloads /\ o \in Seq(Payloads)
  BY DEF EventPayload, Consistent
<1>. HIDE DEF m
<1>2. SettledEvents(Append(o, m)) = SettledEvents(o)
  BY <1>1, OutboxAppend
<1>3. PayoutOK(x, s, o)
  BY DEF Consistent
<1>4. PayoutOK(y, u, Append(o, m))
  BY <1>2, <1>3 DEF PayoutOK
<1>. QED BY <1>4 DEF m

\* A commit that writes no entry group: authorize, fail and void.
LEMMA StatusCommit ==
  ASSUME NEW x, NEW s, NEW o, Consistent(x, s, o),
         x.status \in {"created", "authorized"},
         NEW y \in Rows, y.version = x.version, y.amount = x.amount,
         y.status \in {"authorized", "voided", "failed"},
         y.captured = x.captured, y.refunded = x.refunded, y.capturedAt = x.capturedAt,
         NEW event \in Events, event # "settled"
  PROVE  Consistent(Committed(y), s, Append(o, EventPayload(event, y)))
<1>1. MoneyOK(y)
  BY DEF Consistent, MoneyOK, Rows
<1>2. BooksOK(y, s)
  BY DEF Consistent, BooksOK
<1>3. EventPayload(event, y) \in Payloads
  BY DEF EventPayload, Payloads, Rows
<1>4. PayoutOK(y, s, Append(o, EventPayload(event, y)))
  BY <1>3, NoPayout
<1>5. s \in Seq(EntryGroup) /\ x.status # Absent /\ y.status \in Status
  BY DEF Consistent, Absent, Status
<1>. QED BY <1>1, <1>2, <1>4, <1>5, CommitKeeps

\* CommitCapture: the in-lock check and NewCaptureEntryGroup keep a payment
\* consistent.
LEMMA CaptureCommit ==
  ASSUME NEW x, NEW s, NEW o, Consistent(x, s, o), NEW day \in Nat, NEW amount \in Nat,
         CanCapture(x, amount, day), CaptureBookable(amount, Fee(amount, FeeBPS))
  PROVE  Consistent(Committed(Capture(x, amount, day)),
                    s \o <<CaptureEntryGroup(amount, Fee(amount, FeeBPS))>>,
                    Append(o, EventPayload("captured", Capture(x, amount, day))))
<1>. DEFINE y == Capture(x, amount, day)
            fee == Fee(amount, FeeBPS)
            g == CaptureEntryGroup(amount, fee)
<1>1. x \in Rows /\ x.status \in {"authorized", "captured"} /\ x.status # Absent
      /\ amount > 0 /\ amount <= x.amount - x.captured
  BY DEF Consistent, CanCapture, RemainingCapturable, Absent
<1>2. /\ y \in Rows /\ y.version = x.version /\ y.amount = x.amount /\ y.status = "captured"
      /\ y.captured = x.captured + amount /\ y.refunded = x.refunded
      /\ y.capturedAt # Never
  <2>. DEFINE at == IF x.capturedAt = Never THEN day ELSE x.capturedAt
              total == x.captured + amount
  <2>1. "captured" \in Status /\ day # Never
    BY DEF Status, Never
  <2>2. at \in Nat \cup {Never} /\ at # Never /\ total \in Nat
    BY <1>1, <2>1 DEF Rows
  <2>3. y = [x EXCEPT !.status = "captured", !.captured = total, !.capturedAt = at]
    BY DEF Capture
  <2>. HIDE DEF at, total, y
  <2>4. /\ y \in Rows /\ y.version = x.version /\ y.amount = x.amount /\ y.status = "captured"
        /\ y.captured = total /\ y.refunded = x.refunded /\ y.capturedAt = at
    BY <1>1, <2>1, <2>2, <2>3 DEF Rows
  <2>. QED BY <2>2, <2>4 DEF total
<1>3. /\ g \in EntryGroup /\ Validate(g) /\ \A a \in Accounts : g[a].event # "settlement"
      /\ Leg(g, "capture", Receivable, "debit") = amount
      /\ Leg(g, "refund", Receivable, "credit") = 0
  <2>1. fee \in Int /\ amount \in Int
    BY FeeType
  <2>2. Validate(g)
    BY DEF CaptureBookable
  <2>. HIDE DEF fee
  <2>. QED BY <2>1, <2>2, CaptureGroup
<1>. HIDE DEF y, g, fee
<1>4. MoneyOK(y)
  BY SMTT(30), <1>1, <1>2 DEF Consistent, MoneyOK, Rows
<1>5. s \in Seq(EntryGroup) /\ s \o <<g>> \in Seq(EntryGroup)
  BY <1>3 DEF Consistent
<1>6. BooksOK(y, s \o <<g>>)
  <2>1. /\ x.captured = PostedCaptures(s) /\ x.refunded = PostedRefunds(s)
        /\ \A i \in DOMAIN s : Validate(s[i])
    BY DEF Consistent, BooksOK
  <2>2. /\ \A i \in DOMAIN (s \o <<g>>) : Validate((s \o <<g>>)[i])
        /\ PostedCaptures(s \o <<g>>) = x.captured + Leg(g, "capture", Receivable, "debit")
        /\ PostedRefunds(s \o <<g>>) = x.refunded + Leg(g, "refund", Receivable, "credit")
    BY <1>3, <1>5, <2>1, JournalAppend
  <2>3. x.captured \in Nat /\ x.refunded \in Nat
    BY <1>1 DEF Rows
  <2>. QED BY <1>2, <1>3, <2>2, <2>3 DEF BooksOK
<1>7. GroupsOf(s \o <<g>>, "settlement") = GroupsOf(s, "settlement")
  BY <1>3, <1>5, GroupsOfAppend
<1>8. "captured" \in Events /\ EventPayload("captured", y) \in Payloads
  BY <1>2 DEF EventPayload, Payloads, Rows, Events
<1>9. PayoutOK(y, s \o <<g>>, Append(o, EventPayload("captured", y)))
  BY <1>1, <1>7, <1>8, NoPayout
<1>10. y.status \in Status
  BY <1>2 DEF Status
<1>11. Consistent(Committed(y), s \o <<g>>, Append(o, EventPayload("captured", y)))
  BY <1>1, <1>2, <1>4, <1>5, <1>6, <1>8, <1>9, <1>10, CommitKeeps
<1>. QED BY <1>11 DEF y, g, fee

\* CommitRefund: the in-lock check keeps a payment consistent.
LEMMA RefundCommit ==
  ASSUME NEW x, NEW s, NEW o, Consistent(x, s, o), NEW amount \in Nat, CanRefund(x, amount)
  PROVE  Consistent(Committed(Refund(x, amount)),
                    s \o <<RefundEntryGroup(amount)>>,
                    Append(o, EventPayload("refunded", Refund(x, amount))))
<1>. DEFINE y == Refund(x, amount)
            g == RefundEntryGroup(amount)
<1>1. x \in Rows /\ x.status \in {"captured", "settled"} /\ x.status # Absent
      /\ amount > 0 /\ amount <= x.captured - x.refunded
  BY DEF Consistent, CanRefund, RemainingRefundable, Absent
<1>2. /\ y \in Rows /\ y.version = x.version /\ y.amount = x.amount
      /\ y.status = IF x.refunded + amount = x.captured THEN "refunded" ELSE x.status
      /\ y.refunded = x.refunded + amount /\ y.captured = x.captured
      /\ y.capturedAt = x.capturedAt
  <2>1. "refunded" \in Status
    BY DEF Status
  <2>2. x.refunded + amount \in Nat
    BY <1>1 DEF Rows
  <2>. QED BY <1>1, <2>1, <2>2 DEF Refund, Rows
<1>3. /\ g \in EntryGroup /\ Validate(g) /\ \A a \in Accounts : g[a].event # "settlement"
      /\ Leg(g, "capture", Receivable, "debit") = 0
      /\ Leg(g, "refund", Receivable, "credit") = amount
  BY <1>1, RefundGroup
<1>. HIDE DEF y, g
<1>4. MoneyOK(y)
  BY <1>1, <1>2 DEF Consistent, MoneyOK, Rows
<1>5. s \in Seq(EntryGroup) /\ s \o <<g>> \in Seq(EntryGroup)
  BY <1>3 DEF Consistent
<1>6. BooksOK(y, s \o <<g>>)
  <2>1. /\ x.captured = PostedCaptures(s) /\ x.refunded = PostedRefunds(s)
        /\ \A i \in DOMAIN s : Validate(s[i])
    BY DEF Consistent, BooksOK
  <2>2. /\ \A i \in DOMAIN (s \o <<g>>) : Validate((s \o <<g>>)[i])
        /\ PostedCaptures(s \o <<g>>) = x.captured + Leg(g, "capture", Receivable, "debit")
        /\ PostedRefunds(s \o <<g>>) = x.refunded + Leg(g, "refund", Receivable, "credit")
    BY <1>3, <1>5, <2>1, JournalAppend
  <2>3. x.captured \in Nat /\ x.refunded \in Nat
    BY <1>1 DEF Rows
  <2>. QED BY <1>2, <1>3, <2>2, <2>3 DEF BooksOK
<1>7. GroupsOf(s \o <<g>>, "settlement") = GroupsOf(s, "settlement")
  BY <1>3, <1>5, GroupsOfAppend
<1>8. "refunded" \in Events /\ EventPayload("refunded", y) \in Payloads
  BY <1>2 DEF EventPayload, Payloads, Rows, Events
<1>9. PayoutOK(y, s \o <<g>>, Append(o, EventPayload("refunded", y)))
  BY <1>1, <1>2, <1>7, <1>8, NoPayout
<1>10. y.status \in Status
  BY <1>1, <1>2 DEF Status
<1>11. Consistent(Committed(y), s \o <<g>>, Append(o, EventPayload("refunded", y)))
  BY <1>1, <1>2, <1>4, <1>5, <1>6, <1>8, <1>9, <1>10, CommitKeeps
<1>. QED BY <1>11 DEF y, g

\* A subset of a singleton has at most one element.
LEMMA AtMostOne ==
  ASSUME NEW e, NEW S, S \subseteq {e}
  PROVE  Cardinality(S) <= 1
<1>1. S = {} \/ S = {e}
  OBVIOUS
<1>2. Cardinality({}) = 0 /\ Cardinality({e}) = 1
  BY FS_EmptySet, FS_Singleton
<1>. QED BY <1>1, <1>2

\* A settlement: at most one payout group and one "settled" event, because a
\* captured payment has had neither.
LEMMA SettleCommits ==
  ASSUME NEW x, NEW s, NEW o, Consistent(x, s, o), x.status = "captured"
  PROVE  LET net == NetPayable(x)
         IN  Consistent(Committed(Settle(x)),
                        s \o (IF net > 0 THEN <<SettlementEntryGroup(net)>> ELSE <<>>),
                        Append(o, EventPayload("settled", Settle(x))))
<1>. DEFINE y == Settle(x)
            net == NetPayable(x)
            g == SettlementEntryGroup(net)
            u == s \o (IF net > 0 THEN <<g>> ELSE <<>>)
            m == EventPayload("settled", y)
<1>1. x \in Rows /\ x.status # Absent /\ s \in Seq(EntryGroup) /\ o \in Seq(Payloads)
  BY DEF Consistent, Absent
<1>2. /\ y \in Rows /\ y.version = x.version /\ y.amount = x.amount /\ y.status = "settled"
      /\ y.captured = x.captured /\ y.refunded = x.refunded /\ y.capturedAt = x.capturedAt
  BY <1>1 DEF Settle, Rows, Status, Never
<1>3. net \in Int
  <2>1. x.captured \in Int /\ x.refunded \in Int
    BY <1>1 DEF Rows
  <2>2. Fee(x.captured, FeeBPS) \in Int
    BY <2>1, FeeType
  <2>. QED BY <2>1, <2>2 DEF NetPayable
<1>4. /\ g \in EntryGroup /\ (net > 0 => Validate(g))
      /\ Leg(g, "capture", Receivable, "debit") = 0
      /\ Leg(g, "refund", Receivable, "credit") = 0
  BY <1>3, SettlementGroup
<1>5. "settled" \in Events /\ m \in Payloads /\ m.event = "settled"
  BY <1>2 DEF EventPayload, Payloads, Rows, Events
<1>6. MoneyOK(y)
  BY <1>1, <1>2 DEF Consistent, MoneyOK, Rows
<1>7. GroupsOf(s, "settlement") = {} /\ SettledEvents(o) = {}
  BY DEF Consistent, PayoutOK
<1>8. /\ u \in Seq(EntryGroup) /\ BooksOK(y, u)
      /\ GroupsOf(u, "settlement") \subseteq {Len(s) + 1}
  <2>. HIDE DEF y, g, net, m
  <2>1. CASE net > 0
    <3>1. u = s \o <<g>>
      BY <2>1
    <3>2. u \in Seq(EntryGroup) /\ BooksOK(y, u)
      <4>1. BooksOK(x, s) /\ s \in Seq(EntryGroup) /\ x.captured \in Nat /\ x.refunded \in Nat
        BY <1>1 DEF Consistent, Rows
      <4>2. /\ u \in Seq(EntryGroup) /\ \A i \in DOMAIN u : Validate(u[i])
            /\ PostedCaptures(u) = PostedCaptures(s) + 0
            /\ PostedRefunds(u) = PostedRefunds(s) + 0
        BY <1>4, <2>1, <3>1, <4>1, JournalAppend DEF BooksOK
      <4>. HIDE DEF u
      <4>. QED BY <1>2, <4>1, <4>2 DEF BooksOK
    <3>3. GroupsOf(u, "settlement") \subseteq {Len(s) + 1}
      BY <1>1, <1>4, <1>7, <3>1, GroupsOfAppend
    <3>. QED BY <3>2, <3>3
  <2>2. CASE ~(net > 0)
    <3>1. u = s
      BY <1>1, <2>2
    <3>. QED BY <1>1, <1>2, <1>7, <3>1 DEF Consistent, BooksOK
  <2>. QED BY <2>1, <2>2
<1>. HIDE DEF y, g, net, m, u
<1>9. SettledEvents(Append(o, m)) \subseteq {Len(o) + 1}
  BY <1>1, <1>5, <1>7, OutboxAppend
<1>10. /\ Cardinality(GroupsOf(u, "settlement")) <= 1
       /\ Cardinality(SettledEvents(Append(o, m))) <= 1
  BY <1>8, <1>9, AtMostOne
<1>11. PayoutOK(y, u, Append(o, m))
  BY <1>2, <1>10 DEF PayoutOK
<1>12. y.status \in Status
  BY <1>2 DEF Status
<1>13. Consistent(Committed(y), u, Append(o, m))
  BY <1>1, <1>2, <1>5, <1>6, <1>8, <1>11, <1>12, CommitKeeps DEF m
<1>. QED BY <1>13 DEF y, g, net, m, u

\* Create: a new row has no journal and no outbox yet.
LEMMA InsertKeeps ==
  ASSUME NEW x, NEW s, NEW o, Consistent(x, s, o), x.status = Absent, NEW amount \in Amounts
  PROVE  Consistent(NewTransaction(amount), s, o)
<1>. DEFINE y == NewTransaction(amount)
<1>1. x = NoRow /\ x.version = 0 /\ x.captured = 0 /\ x.refunded = 0
  BY DEF Consistent, NoRow
<1>2. amount \in Nat /\ amount > 0
  BY PaymentsAssumption
<1>3. /\ y \in Rows /\ y.version = 0 /\ y.captured = 0 /\ y.refunded = 0 /\ y.amount = amount
      /\ y.status = "created" /\ y.capturedAt = Never /\ y.status # Absent
  BY <1>2 DEF NewTransaction, Rows, Status, Never, Absent
<1>. HIDE DEF y
<1>4. MoneyOK(y)
  BY <1>2, <1>3 DEF MoneyOK, Never
<1>5. BooksOK(y, s) /\ OutboxOK(y, o)
  <2>1. Len(o) = 0 /\ o \in Seq(Payloads)
    BY <1>1 DEF Consistent, OutboxOK
  <2>2. o = <<>>
    BY <2>1
  <2>. QED BY <1>1, <1>3, <2>1, <2>2 DEF Consistent, BooksOK, OutboxOK
<1>6. PayoutOK(y, s, o)
  BY DEF Consistent, PayoutOK, Absent
<1>. QED BY <1>3, <1>4, <1>5, <1>6 DEF Consistent, y

-----------------------------------------------------------------------------
(* The kinds of step, by what they do to the locks and the database.       *)

Accounted ==
  /\ acq \in [Txns -> AcquirerStates]
  /\ alerted \in [Txns -> [captured : Nat, refunded : Nat]]
  /\ now \in Nat
  /\ started \in Nat

\* The empty tables satisfy the invariant.
LEMMA InitConsistent == Init => IInv
<1>. SUFFICES ASSUME Init PROVE IInv
  OBVIOUS
<1>. USE DEF Init, PayInit
<1>1. NoRow \in Rows /\ NoRow.status = Absent
  BY DEF NoRow, Rows, Status, Absent, Never
<1>2. Idle \in RequestStates /\ Idle.pc \in Resting /\ Idle.pc # "locked"
  BY DEF Idle, RequestStates, Resting, Ops
<1>3. NoJob \in JobStates /\ NoJob.pc = "idle" /\ NoJob.todo = {}
      /\ \A t \in Txns : NoJob.scan[t].status = Absent
  BY <1>1 DEF NoJob, JobStates
<1>4. TypeOK
  <2>1. [holds |-> 0, captured |-> 0, refunded |-> 0, voids |-> 0] \in AcquirerStates
    BY DEF AcquirerStates
  <2>. QED BY <1>1, <1>2, <1>3, <2>1 DEF TypeOK, PayTypeOK
<1>5. LockDiscipline
  BY <1>2, <1>3 DEF LockDiscipline, Inside
<1>6. Referenced
  BY <1>2, <1>3 DEF Referenced
<1>7. Consistent(NoRow, <<>>, <<>>)
  <2>1. MoneyOK(NoRow)
    BY DEF MoneyOK, NoRow, Never, Absent
  <2>2. BooksOK(NoRow, <<>>)
    BY PostedEmpty DEF BooksOK, NoRow, PostedCaptures, PostedRefunds
  <2>3. OutboxOK(NoRow, <<>>)
    BY DEF OutboxOK, NoRow
  <2>4. PayoutOK(NoRow, <<>>, <<>>)
    <3>1. GroupsOf(<<>>, "settlement") = {} /\ SettledEvents(<<>>) = {}
      BY DEF GroupsOf, SettledEvents
    <3>2. Cardinality(GroupsOf(<<>>, "settlement")) <= 1 /\ Cardinality(SettledEvents(<<>>)) <= 1
      BY <3>1, AtMostOne
    <3>. QED BY <3>1, <3>2 DEF PayoutOK
  <2>. QED BY <1>1, <2>1, <2>2, <2>3, <2>4 DEF Consistent
<1>8. AllConsistent
  BY <1>7 DEF AllConsistent
<1>. QED BY <1>4, <1>5, <1>6, <1>8 DEF IInv

\* A request moves outside its database transaction.
LEMMA QuietStep ==
  ASSUME IInv, NEW r \in Requests, req[r].pc # "locked",
         NEW n \in RequestStates, n.pc # "locked",
         n.pc \notin Resting => n.txn \in Txns /\ row[n.txn].status # Absent,
         req' = [req EXCEPT ![r] = n],
         UNCHANGED <<dbVars, txVars, job>>, Accounted'
  PROVE  IInv'
<1>. USE DEF dbVars, txVars
<1>1. TypeOK'
  BY DEF IInv, TypeOK, PayTypeOK, Accounted
<1>2. LockDiscipline'
  <2>1. req \in [Requests -> RequestStates]
    BY DEF IInv, TypeOK, PayTypeOK
  <2>2. \A t \in Txns : Inside(t)' = Inside(t)
    BY <2>1 DEF Inside
  <2>. QED BY <2>2 DEF IInv, LockDiscipline
<1>3. Referenced'
  BY DEF IInv, Referenced, TypeOK, PayTypeOK
<1>4. AllConsistent'
  BY DEF IInv, AllConsistent
<1>. QED BY <1>1, <1>2, <1>3, <1>4 DEF IInv

\* A request's database transaction ends: committed at transaction t, or not.
LEMMA EndOfRequestTx ==
  ASSUME IInv, NEW r \in Requests, req[r].pc = "locked",
         NEW t, t = req[r].txn,
         NEW n \in RequestStates, n.pc # "locked",
         n.pc \notin Resting => n.txn = t,
         req' = [req EXCEPT ![r] = n],
         ReleaseLock(r, t),
         NEW x, x.status # Absent, NEW s, NEW o, Consistent(x, s, o),
         row' = [row EXCEPT ![t] = x],
         journal' = [journal EXCEPT ![t] = s],
         outbox' = [outbox EXCEPT ![t] = o],
         UNCHANGED job, Accounted'
  PROVE  IInv'
<1>1. t \in Txns /\ lock[t] = {r}
  BY DEF IInv, Referenced, Resting, LockDiscipline, Inside
<1>2. x \in Rows /\ s \in Seq(EntryGroup) /\ o \in Seq(Payloads) /\ NoRow \in Rows
  BY DEF Consistent, NoRow, Rows, Absent, Never
<1>3. TypeOK'
  <2>1. lock' \in [Txns -> SUBSET Procs] /\ fresh' \in [Procs -> Rows]
    BY <1>2 DEF IInv, TypeOK, PayTypeOK, ReleaseLock
  <2>2. /\ row' \in [Txns -> Rows] /\ journal' \in [Txns -> Seq(EntryGroup)]
        /\ outbox' \in [Txns -> Seq(Payloads)]
    BY <1>2 DEF IInv, TypeOK, PayTypeOK
  <2>3. req' \in [Requests -> RequestStates]
    BY DEF IInv, TypeOK, PayTypeOK
  <2>. QED BY <2>1, <2>2, <2>3 DEF IInv, TypeOK, PayTypeOK, Accounted
<1>4. /\ row \in [Txns -> Rows] /\ journal \in [Txns -> Seq(EntryGroup)]
      /\ outbox \in [Txns -> Seq(Payloads)] /\ lock \in [Txns -> SUBSET Procs]
      /\ fresh \in [Procs -> Rows] /\ req \in [Requests -> RequestStates]
      /\ job \in [Jobs -> JobStates]
  BY DEF IInv, TypeOK, PayTypeOK
<1>5. LockDiscipline'
  <2>. SUFFICES ASSUME NEW q \in Txns
                PROVE  /\ lock'[q] = Inside(q)'
                       /\ \A p1, p2 \in lock'[q] : p1 = p2
                       /\ \A p \in lock'[q] : fresh'[p] = row'[q]
    BY DEF LockDiscipline
  <2>1. r \notin Jobs
    BY PaymentsAssumption
  <2>2. /\ lock[q] = Inside(q)
        /\ \A p1, p2 \in lock[q] : p1 = p2
        /\ \A p \in lock[q] : fresh[p] = row[q]
    BY DEF IInv, LockDiscipline
  <2>3. CASE q = t
    <3>1. lock'[q] = {}
      BY <1>1, <1>4, <2>3 DEF ReleaseLock
    <3>2. Inside(q)' = {}
      BY <1>1, <1>4, <2>1, <2>2, <2>3 DEF Inside
    <3>. QED BY <3>1, <3>2
  <2>4. CASE q # t
    <3>1. lock'[q] = lock[q] /\ row'[q] = row[q]
      BY <1>1, <1>4, <2>4 DEF ReleaseLock
    <3>2. Inside(q)' = Inside(q) /\ r \notin Inside(q)
      BY <1>4, <2>1, <2>4 DEF Inside
    <3>3. \A p \in lock[q] : fresh'[p] = fresh[p]
      BY <1>4, <2>2, <3>2 DEF ReleaseLock
    <3>. QED BY <2>2, <3>1, <3>2, <3>3
  <2>. QED BY <2>3, <2>4
<1>6. \A q \in Txns : row[q].status # Absent => row'[q].status # Absent
  BY <1>4
<1>7. Referenced'
  <2>1. ASSUME NEW q \in Requests
        PROVE  req'[q].pc \notin Resting
                 => req'[q].txn \in Txns /\ row'[req'[q].txn].status # Absent
    BY <1>1, <1>4, <1>6 DEF IInv, Referenced
  <2>2. ASSUME NEW j \in Jobs
        PROVE  /\ job'[j].pc = "locked" => job'[j].txn \in job'[j].todo
               /\ \A q \in Txns :
                    q \in job'[j].todo \/ job'[j].scan[q].status # Absent
                      => row'[q].status # Absent
    BY <1>6 DEF IInv, Referenced
  <2>. QED BY <2>1, <2>2 DEF Referenced
<1>8. AllConsistent'
  BY <1>4 DEF IInv, AllConsistent
<1>. QED BY <1>3, <1>5, <1>7, <1>8 DEF IInv

\* A run of the job moves outside a database transaction.
LEMMA QuietJobStep ==
  ASSUME IInv, NEW j \in Jobs, job[j].pc # "locked",
         NEW n \in JobStates, n.pc # "locked",
         \A t \in Txns : t \in n.todo \/ n.scan[t].status # Absent => row[t].status # Absent,
         job' = [job EXCEPT ![j] = n],
         UNCHANGED payVars
  PROVE  IInv'
<1>. USE DEF payVars
<1>1. TypeOK'
  BY DEF IInv, TypeOK, PayTypeOK
<1>2. LockDiscipline'
  <2>1. job \in [Jobs -> JobStates]
    BY DEF IInv, TypeOK
  <2>2. \A t \in Txns : Inside(t)' = Inside(t)
    BY <2>1 DEF Inside
  <2>. QED BY <2>2 DEF IInv, LockDiscipline
<1>3. Referenced'
  BY DEF IInv, Referenced, TypeOK
<1>4. AllConsistent'
  BY DEF IInv, AllConsistent
<1>. QED BY <1>1, <1>2, <1>3, <1>4 DEF IInv

\* A run's database transaction ends: committed at transaction t, or not.
LEMMA EndOfJobTx ==
  ASSUME IInv, NEW j \in Jobs, job[j].pc = "locked",
         NEW t, t = job[j].txn,
         NEW n \in JobStates, n.pc # "locked",
         n.todo \subseteq job[j].todo,
         \A q \in Txns : n.scan[q].status # Absent => job[j].scan[q].status # Absent,
         job' = [job EXCEPT ![j] = n],
         ReleaseLock(j, t),
         NEW x, x.status # Absent, NEW s, NEW o, Consistent(x, s, o),
         row' = [row EXCEPT ![t] = x],
         journal' = [journal EXCEPT ![t] = s],
         outbox' = [outbox EXCEPT ![t] = o],
         UNCHANGED <<req, acq, alerted, now, started>>
  PROVE  IInv'
<1>1. t \in Txns /\ lock[t] = {j}
  <2>1. job[j] \in JobStates
    BY DEF IInv, TypeOK
  <2>2. t \in Txns
    BY <2>1 DEF IInv, Referenced, JobStates
  <2>. QED BY <2>2 DEF IInv, LockDiscipline, Inside
<1>2. x \in Rows /\ s \in Seq(EntryGroup) /\ o \in Seq(Payloads) /\ NoRow \in Rows
  BY DEF Consistent, NoRow, Rows, Absent, Never
<1>3. TypeOK'
  <2>1. lock' \in [Txns -> SUBSET Procs] /\ fresh' \in [Procs -> Rows]
    BY <1>2 DEF IInv, TypeOK, PayTypeOK, ReleaseLock
  <2>2. /\ row' \in [Txns -> Rows] /\ journal' \in [Txns -> Seq(EntryGroup)]
        /\ outbox' \in [Txns -> Seq(Payloads)]
    BY <1>2 DEF IInv, TypeOK, PayTypeOK
  <2>3. job' \in [Jobs -> JobStates]
    BY DEF IInv, TypeOK
  <2>. QED BY <2>1, <2>2, <2>3 DEF IInv, TypeOK, PayTypeOK
<1>4. /\ row \in [Txns -> Rows] /\ journal \in [Txns -> Seq(EntryGroup)]
      /\ outbox \in [Txns -> Seq(Payloads)] /\ lock \in [Txns -> SUBSET Procs]
      /\ fresh \in [Procs -> Rows] /\ req \in [Requests -> RequestStates]
      /\ job \in [Jobs -> JobStates]
  BY DEF IInv, TypeOK, PayTypeOK
<1>5. LockDiscipline'
  <2>. SUFFICES ASSUME NEW q \in Txns
                PROVE  /\ lock'[q] = Inside(q)'
                       /\ \A p1, p2 \in lock'[q] : p1 = p2
                       /\ \A p \in lock'[q] : fresh'[p] = row'[q]
    BY DEF LockDiscipline
  <2>1. j \notin Requests
    BY PaymentsAssumption
  <2>2. /\ lock[q] = Inside(q)
        /\ \A p1, p2 \in lock[q] : p1 = p2
        /\ \A p \in lock[q] : fresh[p] = row[q]
    BY DEF IInv, LockDiscipline
  <2>3. CASE q = t
    <3>1. lock'[q] = {}
      BY <1>1, <1>4, <2>3 DEF ReleaseLock
    <3>2. Inside(q)' = {}
      BY <1>1, <1>4, <2>1, <2>2, <2>3 DEF Inside
    <3>. QED BY <3>1, <3>2
  <2>4. CASE q # t
    <3>1. lock'[q] = lock[q] /\ row'[q] = row[q]
      BY <1>1, <1>4, <2>4 DEF ReleaseLock
    <3>2. Inside(q)' = Inside(q) /\ j \notin Inside(q)
      BY <1>4, <2>1, <2>4 DEF Inside
    <3>3. \A p \in lock[q] : fresh'[p] = fresh[p]
      BY <1>4, <2>2, <3>2 DEF ReleaseLock
    <3>. QED BY <2>2, <3>1, <3>2, <3>3
  <2>. QED BY <2>3, <2>4
<1>6. \A q \in Txns : row[q].status # Absent => row'[q].status # Absent
  BY <1>4
<1>7. Referenced'
  <2>1. ASSUME NEW q \in Requests
        PROVE  req'[q].pc \notin Resting
                 => req'[q].txn \in Txns /\ row'[req'[q].txn].status # Absent
    BY <1>6 DEF IInv, Referenced
  <2>2. ASSUME NEW i \in Jobs
        PROVE  /\ job'[i].pc = "locked" => job'[i].txn \in job'[i].todo
               /\ \A q \in Txns :
                    q \in job'[i].todo \/ job'[i].scan[q].status # Absent
                      => row'[q].status # Absent
    BY <1>4, <1>6 DEF IInv, Referenced
  <2>. QED BY <2>1, <2>2 DEF Referenced
<1>8. AllConsistent'
  BY <1>4 DEF IInv, AllConsistent
<1>. QED BY <1>3, <1>5, <1>7, <1>8 DEF IInv

\* GetForUpdate, by a request or by a run of the job.
LEMMA LockStep ==
  ASSUME IInv, NEW p \in Procs, NEW t \in Txns, row[t].status # Absent,
         TakeLock(p, t),
         \A q \in Txns : Inside(q)' = IF q = t THEN Inside(q) \cup {p} ELSE Inside(q),
         p \notin UNION {Inside(q) : q \in Txns},
         UNCHANGED dbVars
  PROVE  LockDiscipline'
<1>1. /\ lock \in [Txns -> SUBSET Procs] /\ fresh \in [Procs -> Rows]
      /\ row \in [Txns -> Rows]
  BY DEF IInv, TypeOK, PayTypeOK
<1>. SUFFICES ASSUME NEW q \in Txns
              PROVE  /\ lock'[q] = Inside(q)'
                     /\ \A p1, p2 \in lock'[q] : p1 = p2
                     /\ \A o \in lock'[q] : fresh'[o] = row'[q]
  BY DEF LockDiscipline
<1>2. /\ lock[q] = Inside(q)
      /\ \A p1, p2 \in lock[q] : p1 = p2
      /\ \A o \in lock[q] : fresh[o] = row[q]
  BY DEF IInv, LockDiscipline
<1>3. CASE q = t
  BY <1>1, <1>2, <1>3 DEF TakeLock, dbVars
<1>4. CASE q # t
  <2>1. lock'[q] = lock[q] /\ Inside(q)' = Inside(q)
    BY <1>1, <1>4 DEF TakeLock
  <2>2. \A o \in lock[q] : fresh'[o] = fresh[o]
    BY <1>1, <1>2 DEF TakeLock
  <2>. QED BY <1>2, <2>1, <2>2 DEF dbVars
<1>. QED BY <1>3, <1>4

-----------------------------------------------------------------------------
(* Every action keeps the invariant.                                       *)

\* What the invariant says of a request that is not resting.
LEMMA Busy ==
  ASSUME IInv, NEW r \in Requests, req[r].pc \notin Resting
  PROVE  /\ req[r] \in RequestStates /\ req[r].amount \in Nat
         /\ req[r].txn \in Txns /\ row[req[r].txn].status # Absent
         /\ Consistent(row[req[r].txn], journal[req[r].txn], outbox[req[r].txn])
<1>1. req[r] \in RequestStates /\ req[r].amount \in Nat
  BY DEF IInv, TypeOK, PayTypeOK, RequestStates
<1>. QED BY <1>1 DEF IInv, Referenced, AllConsistent

\* A request at rest is a request state.
LEMMA IdleType ==
  ASSUME NEW t \in Txns
  PROVE  /\ Idle \in RequestStates /\ Idle.pc \in Resting /\ Idle.pc # "locked"
         /\ Declined(t) \in RequestStates /\ Declined(t).pc \in Resting
         /\ Declined(t).pc # "locked"
BY DEF Idle, Declined, RequestStates, Resting, Ops

\* A request on its way to the acquirer is a request state.
LEMMA CallType ==
  ASSUME NEW op \in Ops, NEW t \in Txns, NEW amount \in Nat, NEW auto \in BOOLEAN
  PROVE  LET n == [pc |-> "acquirer", op |-> op, txn |-> t, amount |-> amount, auto |-> auto]
         IN  n \in RequestStates /\ n.pc # "locked" /\ n.txn = t
BY DEF RequestStates

\* Authorize up to the acquirer keeps the invariant.
LEMMA CreateStep ==
  ASSUME IInv, NEW r \in Requests, NEW t \in Txns, NEW amount \in Amounts,
         NEW auto \in BOOLEAN, Create(r, t, amount, auto), UNCHANGED job
  PROVE  IInv'
<1>. DEFINE n == [pc |-> "acquirer", op |-> "authorize", txn |-> t, amount |-> amount,
                  auto |-> auto]
<1>1. amount \in Nat /\ amount > 0
  BY PaymentsAssumption
<1>2. n \in RequestStates /\ n.pc # "locked" /\ n.txn = t
  BY <1>1, CallType DEF Ops
<1>3. req' = [req EXCEPT ![r] = n] /\ req[r].pc \in Resting /\ req[r].pc # "locked"
  BY DEF Create, CallAcquirer, Accept, Resting
<1>. HIDE DEF n
<1>4. Accounted'
  BY DEF IInv, TypeOK, PayTypeOK, Accounted, Create, Accept
<1>5. CASE row[t].status = "created" /\ UNCHANGED row
  <2>1. row[t].status # Absent
    BY <1>5 DEF Absent
  <2>2. UNCHANGED <<dbVars, txVars, job>>
    BY <1>5 DEF Create, dbVars
  <2>. QED BY <1>2, <1>3, <1>4, <2>1, <2>2, QuietStep
<1>6. CASE row[t].status = Absent /\ row' = [row EXCEPT ![t] = NewTransaction(amount)]
  <2>1. /\ row \in [Txns -> Rows] /\ req \in [Requests -> RequestStates]
        /\ UNCHANGED <<journal, outbox, lock, fresh, job>>
    BY DEF IInv, TypeOK, PayTypeOK, Create, txVars
  <2>2. Consistent(NewTransaction(amount), journal[t], outbox[t])
    BY <1>6, InsertKeeps DEF IInv, AllConsistent
  <2>3. NewTransaction(amount) \in Rows /\ NewTransaction(amount).status # Absent
    BY <2>2 DEF Consistent, NewTransaction, Absent
  <2>4. TypeOK'
    BY <1>2, <1>3, <1>4, <1>6, <2>1, <2>3 DEF IInv, TypeOK, PayTypeOK, Accounted
  <2>5. LockDiscipline'
    <3>1. \A q \in Txns : Inside(q)' = Inside(q)
      BY <1>2, <1>3, <2>1 DEF Inside
    <3>2. Inside(t) = {}
      <4>1. \A q \in Requests : ~(req[q].pc = "locked" /\ req[q].txn = t)
        BY <1>6 DEF IInv, Referenced, Resting
      <4>2. \A j \in Jobs : ~(job[j].pc = "locked" /\ job[j].txn = t)
        BY <1>6 DEF IInv, Referenced
      <4>. QED BY <4>1, <4>2 DEF Inside
    <3>3. \A q \in Txns : q # t => row'[q] = row[q]
      BY <1>6, <2>1
    <3>. QED BY <2>1, <3>1, <3>2, <3>3 DEF IInv, LockDiscipline
  <2>6. \A q \in Txns : row[q].status # Absent => row'[q].status # Absent
    BY <1>6, <2>1, <2>3
  <2>7. Referenced'
    <3>1. row'[t].status # Absent
      BY <1>6, <2>1, <2>3
    <3>2. ASSUME NEW q \in Requests
          PROVE  req'[q].pc \notin Resting
                   => req'[q].txn \in Txns /\ row'[req'[q].txn].status # Absent
      BY <1>2, <1>3, <2>1, <2>6, <3>1 DEF IInv, Referenced
    <3>3. ASSUME NEW j \in Jobs
          PROVE  /\ job'[j].pc = "locked" => job'[j].txn \in job'[j].todo
                 /\ \A q \in Txns :
                      q \in job'[j].todo \/ job'[j].scan[q].status # Absent
                        => row'[q].status # Absent
      BY <2>1, <2>6 DEF IInv, Referenced
    <3>. QED BY <3>2, <3>3 DEF Referenced
  <2>8. AllConsistent'
    BY <1>6, <2>1, <2>2 DEF IInv, AllConsistent
  <2>. QED BY <2>4, <2>5, <2>7, <2>8 DEF IInv
<1>. QED BY <1>5, <1>6 DEF Create

\* The advisory checks keep the invariant.
LEMMA PreCheckStep ==
  ASSUME IInv, NEW r \in Requests, NEW t \in Txns, NEW asked \in Nat, UNCHANGED job,
         CapturePreCheck(r, t, asked) \/ RefundPreCheck(r, t, asked) \/ VoidPreCheck(r, t)
  PROVE  IInv'
<1>1. row[t] \in Rows
  BY DEF IInv, TypeOK, PayTypeOK
<1>2. req[r].pc # "locked" /\ UNCHANGED <<dbVars, txVars, job>>
  BY DEF CapturePreCheck, RefundPreCheck, VoidPreCheck, Accept, Resting
<1>3. Accounted'
  <2>1. started' = started + 1 /\ UNCHANGED <<acq, alerted, now>>
    BY DEF CapturePreCheck, RefundPreCheck, VoidPreCheck, Accept
  <2>. QED BY <2>1 DEF IInv, TypeOK, PayTypeOK, Accounted
<1>4. row[t].status # Absent
  BY DEF CapturePreCheck, RefundPreCheck, VoidPreCheck, CanCapture, CanRefund, CanVoid,
         CanTransitionTo, Absent, Status
<1>5. \E op \in Ops, amount \in Nat : CallAcquirer(r, op, t, amount, FALSE)
  <2>1. CASE CapturePreCheck(r, t, asked)
    <3>. DEFINE amount == IF asked = 0 THEN RemainingCapturable(row[t]) ELSE asked
    <3>1. amount \in Int
      BY <1>1 DEF RemainingCapturable, Rows
    <3>2. amount > 0 /\ CallAcquirer(r, "capture", t, amount, FALSE)
      BY <2>1 DEF CapturePreCheck, CanCapture
    <3>. HIDE DEF amount
    <3>3. amount \in Nat /\ "capture" \in Ops
      BY <3>1, <3>2 DEF Ops
    <3>. QED BY <3>2, <3>3
  <2>2. CASE RefundPreCheck(r, t, asked)
    <3>. DEFINE amount == IF asked = 0 THEN RemainingRefundable(row[t]) ELSE asked
    <3>1. amount \in Int
      BY <1>1 DEF RemainingRefundable, Rows
    <3>2. amount > 0 /\ CallAcquirer(r, "refund", t, amount, FALSE)
      BY <2>2 DEF RefundPreCheck, CanRefund
    <3>. HIDE DEF amount
    <3>3. amount \in Nat /\ "refund" \in Ops
      BY <3>1, <3>2 DEF Ops
    <3>. QED BY <3>2, <3>3
  <2>3. CASE VoidPreCheck(r, t)
    BY <2>3 DEF VoidPreCheck, Ops
  <2>. QED BY <2>1, <2>2, <2>3
<1>6. PICK op \in Ops, amount \in Nat : CallAcquirer(r, op, t, amount, FALSE)
  BY <1>5
<1>. DEFINE n == [pc |-> "acquirer", op |-> op, txn |-> t, amount |-> amount, auto |-> FALSE]
<1>7. n \in RequestStates /\ n.pc # "locked" /\ n.txn = t
  BY CallType
<1>8. req' = [req EXCEPT ![r] = n]
  BY <1>6 DEF CallAcquirer
<1>. HIDE DEF n
<1>. QED BY <1>2, <1>3, <1>4, <1>7, <1>8, QuietStep

\* The acquirer's books stay natural numbers.
LEMMA MovedType ==
  ASSUME NEW a \in AcquirerStates, NEW op, NEW amount \in Nat
  PROVE  Moved(a, op, amount) \in AcquirerStates
BY DEF Moved, AcquirerStates

\* The steps of a request between its database transactions.
LEMMA AcquirerStep ==
  ASSUME IInv, NEW r \in Requests, UNCHANGED job,
         \/ AutoCapture(r)
         \/ AcquirerApproves(r)
         \/ AcquirerDeclines(r)
         \/ AcquirerInvalidCard(r)
         \/ AcquirerUnavailable(r)
  PROVE  IInv'
<1>. DEFINE t == req[r].txn
<1>1. req[r].pc \in {"acquirer", "autocapture"} /\ req[r].pc \notin Resting
  BY DEF AutoCapture, AcquirerApproves, AcquirerDeclines, AcquirerInvalidCard,
         AcquirerUnavailable, Resting
<1>2. /\ req[r] \in RequestStates /\ req[r].amount \in Nat
      /\ t \in Txns /\ row[t].status # Absent
  BY <1>1, Busy
<1>3. UNCHANGED <<dbVars, txVars, job>> /\ req[r].pc # "locked"
  BY <1>1 DEF AutoCapture, AcquirerApproves, AcquirerDeclines, AcquirerInvalidCard,
              AcquirerUnavailable
<1>4. Accounted'
  <2>1. acq \in [Txns -> AcquirerStates] /\ Accounted
    BY DEF IInv, TypeOK, PayTypeOK, Accounted
  <2>2. AcquirerMoves(r) => acq' \in [Txns -> AcquirerStates]
    BY <1>2, <2>1, MovedType DEF AcquirerMoves
  <2>3. acq' \in [Txns -> AcquirerStates] /\ UNCHANGED <<alerted, now, started>>
    BY <2>1, <2>2 DEF AutoCapture, AcquirerApproves, AcquirerDeclines, AcquirerInvalidCard,
                      AcquirerUnavailable
  <2>. QED BY <2>1, <2>3 DEF Accounted
<1>5. \E n \in RequestStates :
         n.pc # "locked" /\ (n.pc \notin Resting => n.txn = t) /\ req' = [req EXCEPT ![r] = n]
  <2>1. Idle \in RequestStates /\ Idle.pc \in Resting /\ Idle.pc # "locked"
    BY <1>2, IdleType
  <2>2. CASE req' = [req EXCEPT ![r] = Idle]
    BY <2>1, <2>2
  <2>3. CASE CallAcquirer(r, "capture", t, req[r].amount, FALSE)
    <3>. DEFINE n == [pc |-> "acquirer", op |-> "capture", txn |-> t,
                      amount |-> req[r].amount, auto |-> FALSE]
    <3>1. n \in RequestStates /\ n.pc # "locked" /\ n.txn = t
      BY <1>2, CallType DEF Ops
    <3>2. req' = [req EXCEPT ![r] = n]
      BY <2>3 DEF CallAcquirer
    <3>. QED BY <3>1, <3>2
  <2>4. CASE AcquirerApproves(r)
    <3>. DEFINE n == [req[r] EXCEPT !.pc = "writeback"]
    <3>1. n \in RequestStates /\ n.pc # "locked" /\ n.txn = t
      BY <1>2 DEF RequestStates
    <3>2. req' = [req EXCEPT ![r] = n]
      BY <2>4 DEF AcquirerApproves
    <3>. QED BY <3>1, <3>2
  <2>5. CASE AcquirerDeclines(r)
    <3>. DEFINE n == [req[r] EXCEPT !.pc = "writeback", !.op = "fail"]
    <3>1. n \in RequestStates /\ n.pc # "locked" /\ n.txn = t
      BY <1>2 DEF RequestStates, Ops
    <3>2. req \in [Requests -> RequestStates]
      BY DEF IInv, TypeOK, PayTypeOK
    <3>3. req' = [req EXCEPT ![r] = n]
      BY <2>5, <3>2 DEF AcquirerDeclines
    <3>. QED BY <3>1, <3>3
  <2>. QED BY <2>2, <2>3, <2>4, <2>5
         DEF AutoCapture, AcquirerInvalidCard, AcquirerUnavailable
<1>6. PICK n \in RequestStates :
         n.pc # "locked" /\ (n.pc \notin Resting => n.txn = t) /\ req' = [req EXCEPT ![r] = n]
  BY <1>5
<1>. QED BY <1>2, <1>3, <1>4, <1>6, QuietStep

\* GetForUpdate by a request keeps the invariant.
LEMMA LockRowStep ==
  ASSUME IInv, NEW r \in Requests, LockRow(r), UNCHANGED job
  PROVE  IInv'
<1>. DEFINE t == req[r].txn
            n == [req[r] EXCEPT !.pc = "locked"]
<1>1. req[r].pc = "writeback" /\ req[r].pc \notin Resting
  BY DEF LockRow, Resting
<1>2. req[r] \in RequestStates /\ t \in Txns /\ row[t].status # Absent
  BY <1>1, Busy
<1>3. n \in RequestStates /\ n.pc = "locked" /\ n.txn = t
  BY <1>2 DEF RequestStates
<1>4. req \in [Requests -> RequestStates] /\ req' = [req EXCEPT ![r] = n] /\ r \notin Jobs
  BY PaymentsAssumption DEF IInv, TypeOK, PayTypeOK, LockRow
<1>. HIDE DEF n
<1>5. TypeOK'
  <2>1. lock' \in [Txns -> SUBSET Procs] /\ fresh' \in [Procs -> Rows]
    BY <1>2 DEF IInv, TypeOK, PayTypeOK, LockRow, TakeLock, Procs
  <2>. QED BY <1>3, <1>4, <2>1 DEF IInv, TypeOK, PayTypeOK, LockRow, dbVars
<1>6. LockDiscipline'
  <2>1. r \in Procs /\ TakeLock(r, t) /\ UNCHANGED dbVars
    BY DEF LockRow, Procs
  <2>2. \A q \in Txns : Inside(q)' = IF q = t THEN Inside(q) \cup {r} ELSE Inside(q)
    BY <1>1, <1>3, <1>4 DEF Inside
  <2>3. r \notin UNION {Inside(q) : q \in Txns}
    BY <1>1, <1>4 DEF Inside
  <2>. QED BY <1>2, <2>1, <2>2, <2>3, LockStep
<1>7. Referenced'
  BY <1>2, <1>3, <1>4 DEF IInv, Referenced, LockRow, dbVars
<1>8. AllConsistent'
  BY DEF IInv, AllConsistent, LockRow, dbVars
<1>. QED BY <1>5, <1>6, <1>7, <1>8 DEF IInv

\* Inside its transaction a request sees the row as it is.
LEMMA LockedRequest ==
  ASSUME IInv, NEW r \in Requests, req[r].pc = "locked"
  PROVE  /\ req[r] \in RequestStates /\ req[r].amount \in Nat
         /\ req[r].txn \in Txns /\ row[req[r].txn].status # Absent
         /\ Consistent(row[req[r].txn], journal[req[r].txn], outbox[req[r].txn])
         /\ fresh[r] = row[req[r].txn]
<1>1. req[r].pc \notin Resting
  BY DEF Resting
<1>2. req[r].txn \in Txns
  BY <1>1, Busy
<1>3. fresh[r] = row[req[r].txn]
  BY <1>2 DEF IInv, LockDiscipline, Inside
<1>. QED BY <1>1, <1>3, Busy

\* ROLLBACK, or a COMMIT that wrote nothing.
LEMMA NoWriteStep ==
  ASSUME IInv, NEW r \in Requests, req[r].pc = "locked",
         NEW n \in RequestStates, n.pc # "locked", n.pc \in Resting,
         req' = [req EXCEPT ![r] = n],
         ReleaseLock(r, req[r].txn), UNCHANGED <<dbVars, job>>, Accounted'
  PROVE  IInv'
<1>. DEFINE t == req[r].txn
<1>1. t \in Txns /\ row[t].status # Absent /\ Consistent(row[t], journal[t], outbox[t])
  BY LockedRequest
<1>2. row \in [Txns -> Rows] /\ journal \in [Txns -> Seq(EntryGroup)]
      /\ outbox \in [Txns -> Seq(Payloads)]
  BY DEF IInv, TypeOK, PayTypeOK
<1>3. /\ row' = [row EXCEPT ![t] = row[t]]
      /\ journal' = [journal EXCEPT ![t] = journal[t]]
      /\ outbox' = [outbox EXCEPT ![t] = outbox[t]]
  BY <1>2 DEF dbVars
<1>. QED BY <1>1, <1>3, EndOfRequestTx

\* COMMIT of a change.
LEMMA WriteStep ==
  ASSUME IInv, NEW r \in Requests, req[r].pc = "locked",
         NEW n \in RequestStates, n.pc # "locked", n.pc \notin Resting => n.txn = req[r].txn,
         req' = [req EXCEPT ![r] = n],
         NEW new, new.status # Absent, new \in Rows, NEW groups, NEW event,
         Persist(r, req[r].txn, new, groups, event),
         Consistent(Committed(new), journal[req[r].txn] \o groups,
                    Append(outbox[req[r].txn], EventPayload(event, new))),
         UNCHANGED <<job, acq, alerted, now, started>>
  PROVE  IInv'
<1>. DEFINE t == req[r].txn
            x == Committed(new)
            s == journal[t] \o groups
            o == Append(outbox[t], EventPayload(event, new))
<1>1. /\ row' = [row EXCEPT ![t] = x]
      /\ journal' = [journal EXCEPT ![t] = s]
      /\ outbox' = [outbox EXCEPT ![t] = o]
      /\ ReleaseLock(r, t)
  <2>1. t \in Txns /\ journal \in [Txns -> Seq(EntryGroup)] /\ outbox \in [Txns -> Seq(Payloads)]
    BY LockedRequest DEF IInv, TypeOK, PayTypeOK
  <2>. QED BY <2>1 DEF Persist, Committed
<1>2. x.status # Absent
  BY DEF Committed, Rows
<1>3. Accounted'
  BY DEF IInv, TypeOK, PayTypeOK, Accounted
<1>. HIDE DEF x, s, o
<1>4. Consistent(x, s, o)
  BY DEF x, s, o
<1>. QED BY <1>1, <1>2, <1>3, <1>4, EndOfRequestTx

\* The write-back of an authorization keeps the invariant.
LEMMA CommitAuthorizeStep ==
  ASSUME IInv, NEW r \in Requests, CommitAuthorize(r), UNCHANGED job
  PROVE  IInv'
<1>. DEFINE t == req[r].txn
            x == row[t]
            y == Authorize(fresh[r], now)
<1>1. req[r].pc = "locked" /\ fresh[r].status = "created"
      /\ UNCHANGED <<acq, alerted, now, started>>
  BY DEF CommitAuthorize, Committing, DomainAccepts
<1>2. /\ req[r] \in RequestStates /\ t \in Txns /\ x.status = "created" /\ fresh[r] = x
      /\ Consistent(x, journal[t], outbox[t]) /\ journal[t] \in Seq(EntryGroup)
  BY <1>1, LockedRequest DEF Consistent
<1>3. /\ y \in Rows /\ y.version = x.version /\ y.amount = x.amount /\ y.status = "authorized"
      /\ y.captured = x.captured /\ y.refunded = x.refunded /\ y.capturedAt = x.capturedAt
  <2>1. now \in Nat /\ x \in Rows /\ "authorized" \in Status
    BY <1>2 DEF IInv, TypeOK, PayTypeOK, Consistent, Status
  <2>. QED BY <1>2, <2>1 DEF Authorize, Rows
<1>4. Persist(r, t, y, <<>>, "authorized")
  BY DEF CommitAuthorize
<1>5. PICK n \in RequestStates :
         n.pc # "locked" /\ (n.pc \notin Resting => n.txn = t) /\ req' = [req EXCEPT ![r] = n]
  <2>1. Idle \in RequestStates /\ Idle.pc \in Resting /\ Idle.pc # "locked"
    BY <1>2, IdleType
  <2>. DEFINE n == [req[r] EXCEPT !.pc = "autocapture"]
  <2>2. n \in RequestStates /\ n.pc # "locked" /\ n.txn = t
    BY <1>2 DEF RequestStates
  <2>3. req' = [req EXCEPT ![r] = Idle] \/ req' = [req EXCEPT ![r] = n]
    BY DEF CommitAuthorize, Answer
  <2>. HIDE DEF n
  <2>. QED BY <2>1, <2>2, <2>3
<1>. HIDE DEF x, y
<1>6. Consistent(Committed(y), journal[t], Append(outbox[t], EventPayload("authorized", y)))
  BY <1>2, <1>3, StatusCommit DEF Events
<1>7. journal[t] \o <<>> = journal[t] /\ y.status # Absent
  BY <1>2, <1>3 DEF Absent
<1>. QED BY <1>1, <1>3, <1>4, <1>5, <1>6, <1>7, WriteStep

\* finalizeFailure keeps the invariant.
LEMMA CommitFailStep ==
  ASSUME IInv, NEW r \in Requests, CommitFail(r), UNCHANGED job
  PROVE  IInv'
<1>. DEFINE t == req[r].txn
            x == row[t]
            y == Fail(fresh[r])
<1>1. req[r].pc = "locked" /\ UNCHANGED <<acq, alerted, now, started>>
  BY DEF CommitFail, Committing
<1>2. /\ req[r] \in RequestStates /\ t \in Txns /\ fresh[r] = x
      /\ Consistent(x, journal[t], outbox[t]) /\ journal[t] \in Seq(EntryGroup) /\ x \in Rows
  BY <1>1, LockedRequest DEF Consistent
<1>3. PICK n \in RequestStates :
         n.pc # "locked" /\ n.pc \in Resting /\ req' = [req EXCEPT ![r] = n]
  BY <1>2, IdleType DEF CommitFail, Answer
<1>4. CASE fresh[r].status = "created"
  <2>1. /\ y \in Rows /\ y.version = x.version /\ y.amount = x.amount /\ y.status = "failed"
        /\ y.captured = x.captured /\ y.refunded = x.refunded /\ y.capturedAt = x.capturedAt
    <3>1. "failed" \in Status
      BY DEF Status
    <3>. QED BY <1>2, <3>1 DEF Fail, Rows
  <2>2. Persist(r, t, y, <<>>, "failed") /\ x.status = "created"
    BY <1>2, <1>4 DEF CommitFail
  <2>. HIDE DEF x, y
  <2>3. Consistent(Committed(y), journal[t], Append(outbox[t], EventPayload("failed", y)))
    BY <1>2, <2>1, <2>2, StatusCommit DEF Events
  <2>4. journal[t] \o <<>> = journal[t] /\ y.status # Absent
    BY <1>2, <2>1 DEF Absent
  <2>. QED BY <1>1, <1>3, <2>1, <2>2, <2>3, <2>4, WriteStep
<1>5. CASE fresh[r].status # "created"
  <2>1. ReleaseLock(r, t) /\ UNCHANGED dbVars
    BY <1>5 DEF CommitFail
  <2>2. Accounted'
    BY <1>1 DEF IInv, TypeOK, PayTypeOK, Accounted
  <2>. QED BY <1>1, <1>3, <2>1, <2>2, NoWriteStep
<1>. QED BY <1>4, <1>5

\* The write-back of a capture keeps the invariant.
LEMMA CommitCaptureStep ==
  ASSUME IInv, NEW r \in Requests, CommitCapture(r), UNCHANGED job
  PROVE  IInv'
<1>. DEFINE t == req[r].txn
            x == row[t]
            amount == req[r].amount
            y == Capture(fresh[r], amount, now)
            g == CaptureEntryGroup(amount, Fee(amount, FeeBPS))
<1>1. req[r].pc = "locked" /\ UNCHANGED <<acq, alerted, now, started>>
  BY DEF CommitCapture, Committing
<1>2. CanCapture(fresh[r], amount, now) /\ CaptureBookable(amount, Fee(amount, FeeBPS))
  BY DEF CommitCapture, Committing, DomainAccepts, Writable
<1>3. /\ t \in Txns /\ fresh[r] = x /\ amount \in Nat
      /\ Consistent(x, journal[t], outbox[t])
  BY <1>1, LockedRequest
<1>4. Consistent(Committed(y), journal[t] \o <<g>>, Append(outbox[t], EventPayload("captured", y)))
  BY <1>2, <1>3, CaptureCommit DEF IInv, TypeOK, PayTypeOK
<1>5. y \in Rows /\ y.status # Absent
  <2>1. x \in Rows /\ now \in Nat /\ "captured" \in Status /\ x.captured + amount \in Nat
    <3>1. x \in Rows /\ amount \in Nat
      BY <1>3 DEF Consistent
    <3>2. now \in Nat /\ "captured" \in Status
      BY DEF IInv, TypeOK, PayTypeOK, Status
    <3>. HIDE DEF x, amount, y, g
    <3>3. x.captured \in Nat
      BY <3>1 DEF Rows
    <3>. QED BY <3>1, <3>2, <3>3
  <2>. DEFINE at == IF x.capturedAt = Never THEN now ELSE x.capturedAt
              total == x.captured + amount
  <2>2. at \in Nat \cup {Never} /\ total \in Nat
    BY <2>1 DEF Rows
  <2>3. y = [x EXCEPT !.status = "captured", !.captured = total, !.capturedAt = at]
    BY <1>3 DEF Capture
  <2>. HIDE DEF at, total, y, x
  <2>4. y \in Rows /\ y.status = "captured"
    BY <2>1, <2>2, <2>3 DEF Rows
  <2>. QED BY <2>4 DEF Absent
<1>6. Persist(r, t, y, <<g>>, "captured") /\ req' = [req EXCEPT ![r] = Idle]
  BY DEF CommitCapture
<1>7. Idle \in RequestStates /\ Idle.pc \in Resting /\ Idle.pc # "locked"
  BY <1>3, IdleType
<1>. HIDE DEF x, y, g, amount
<1>. QED BY <1>1, <1>4, <1>5, <1>6, <1>7, WriteStep

\* The write-back of a refund keeps the invariant.
LEMMA CommitRefundStep ==
  ASSUME IInv, NEW r \in Requests, CommitRefund(r), UNCHANGED job
  PROVE  IInv'
<1>. DEFINE t == req[r].txn
            x == row[t]
            amount == req[r].amount
            y == Refund(fresh[r], amount)
            g == RefundEntryGroup(amount)
<1>1. req[r].pc = "locked" /\ UNCHANGED <<acq, alerted, now, started>>
  BY DEF CommitRefund, Committing
<1>2. CanRefund(fresh[r], amount)
  BY DEF CommitRefund, Committing, DomainAccepts
<1>3. /\ t \in Txns /\ fresh[r] = x /\ amount \in Nat
      /\ Consistent(x, journal[t], outbox[t])
  BY <1>1, LockedRequest
<1>4. Consistent(Committed(y), journal[t] \o <<g>>, Append(outbox[t], EventPayload("refunded", y)))
  BY <1>2, <1>3, RefundCommit
<1>5. y \in Rows /\ y.status # Absent
  <2>1. x \in Rows /\ x.status # Absent
    BY <1>1, <1>3, LockedRequest DEF Consistent
  <2>2. "refunded" \in Status /\ "refunded" # Absent
    BY DEF Status, Absent
  <2>3. x.refunded + amount \in Nat
    BY <1>3, <2>1 DEF Rows
  <2>. QED BY <1>3, <2>1, <2>2, <2>3 DEF Refund, Rows
<1>6. Persist(r, t, y, <<g>>, "refunded") /\ req' = [req EXCEPT ![r] = Idle]
  BY DEF CommitRefund
<1>7. Idle \in RequestStates /\ Idle.pc \in Resting /\ Idle.pc # "locked"
  BY <1>3, IdleType
<1>. HIDE DEF x, y, g, amount
<1>. QED BY <1>1, <1>4, <1>5, <1>6, <1>7, WriteStep

\* The write-back of a void keeps the invariant.
LEMMA CommitVoidStep ==
  ASSUME IInv, NEW r \in Requests, CommitVoid(r), UNCHANGED job
  PROVE  IInv'
<1>. DEFINE t == req[r].txn
            x == row[t]
            y == Void(fresh[r])
<1>1. req[r].pc = "locked" /\ UNCHANGED <<acq, alerted, now, started>>
  BY DEF CommitVoid, Committing
<1>2. /\ t \in Txns /\ fresh[r] = x /\ x \in Rows
      /\ Consistent(x, journal[t], outbox[t]) /\ journal[t] \in Seq(EntryGroup)
  BY <1>1, LockedRequest DEF Consistent
<1>3. x.status = "authorized"
  <2>1. CanVoid(x)
    BY <1>2 DEF CommitVoid, Committing, DomainAccepts
  <2>. QED BY <2>1 DEF CanVoid, CanTransitionTo, allowedTransitions, Status
<1>4. /\ y \in Rows /\ y.version = x.version /\ y.amount = x.amount /\ y.status = "voided"
      /\ y.captured = x.captured /\ y.refunded = x.refunded /\ y.capturedAt = x.capturedAt
  <2>1. "voided" \in Status
    BY DEF Status
  <2>. QED BY <1>2, <2>1 DEF Void, Rows
<1>5. Persist(r, t, y, <<>>, "voided") /\ req' = [req EXCEPT ![r] = Idle]
  BY DEF CommitVoid
<1>6. Idle \in RequestStates /\ Idle.pc \in Resting /\ Idle.pc # "locked"
  BY <1>2, IdleType
<1>. HIDE DEF x, y
<1>7. Consistent(Committed(y), journal[t], Append(outbox[t], EventPayload("voided", y)))
  BY <1>2, <1>3, <1>4, StatusCommit DEF Events
<1>8. journal[t] \o <<>> = journal[t] /\ y.status # Absent
  BY <1>2, <1>4 DEF Absent
<1>. QED BY <1>1, <1>4, <1>5, <1>6, <1>7, <1>8, WriteStep

\* The rollback after a failed double-check keeps the invariant.
LEMMA RefusedStep ==
  ASSUME IInv, NEW r \in Requests, CommitRefused(r), UNCHANGED job
  PROVE  IInv'
<1>. DEFINE t == req[r].txn
<1>1. /\ req[r].pc = "locked" /\ UNCHANGED <<dbVars, acq, now, started>>
      /\ ReleaseLock(r, t) /\ req' = [req EXCEPT ![r] = Idle]
  BY DEF CommitRefused
<1>2. t \in Txns /\ req[r].amount \in Nat
  BY <1>1, LockedRequest
<1>3. Idle \in RequestStates /\ Idle.pc \in Resting /\ Idle.pc # "locked"
  BY <1>2, IdleType
<1>4. alerted' \in [Txns -> [captured : Nat, refunded : Nat]]
  <2>. DEFINE old == alerted[t]
              c == IF req[r].op = "capture" /\ ~DomainAccepts(r)
                   THEN old.captured + req[r].amount ELSE old.captured
              f == IF req[r].op = "refund" /\ ~DomainAccepts(r)
                   THEN old.refunded + req[r].amount ELSE old.refunded
  <2>1. alerted \in [Txns -> [captured : Nat, refunded : Nat]]
    BY DEF IInv, TypeOK, PayTypeOK
  <2>2. alerted' = [alerted EXCEPT ![t] = [old EXCEPT !.captured = c, !.refunded = f]]
    BY DEF CommitRefused
  <2>3. old \in [captured : Nat, refunded : Nat]
    BY <1>2, <2>1
  <2>4. c \in Nat /\ f \in Nat
    BY <1>2, <2>3
  <2>. HIDE DEF old, c, f
  <2>. QED BY <1>2, <2>1, <2>2, <2>3, <2>4
<1>5. Accounted'
  BY <1>1, <1>4 DEF IInv, TypeOK, PayTypeOK, Accounted
<1>. QED BY <1>1, <1>3, <1>5, NoWriteStep

\* A request cut off anywhere keeps the invariant.
LEMMA AbandonStep ==
  ASSUME IInv, NEW r \in Requests, Abandon(r), UNCHANGED job
  PROVE  IInv'
<1>1. req[r].pc \notin Resting /\ req' = [req EXCEPT ![r] = Idle] /\ UNCHANGED dbVars
  BY DEF Abandon
<1>2. req[r].txn \in Txns
  BY <1>1, Busy
<1>3. Idle \in RequestStates /\ Idle.pc \in Resting /\ Idle.pc # "locked"
  BY <1>2, IdleType
<1>4. Accounted'
  BY DEF Abandon, IInv, TypeOK, PayTypeOK, Accounted
<1>5. CASE req[r].pc = "locked"
  <2>1. ReleaseLock(r, req[r].txn)
    BY <1>5 DEF Abandon
  <2>. QED BY <1>1, <1>3, <1>4, <1>5, <2>1, NoWriteStep
<1>6. CASE req[r].pc # "locked"
  <2>1. UNCHANGED txVars
    BY <1>6 DEF Abandon
  <2>. QED BY <1>1, <1>3, <1>4, <1>6, <2>1, QuietStep
<1>. QED BY <1>5, <1>6

\* The clock keeps the invariant.
LEMMA TickStep ==
  ASSUME IInv, Tick, UNCHANGED job
  PROVE  IInv'
<1>. USE DEF Tick, dbVars, txVars
<1>1. TypeOK'
  BY DEF IInv, TypeOK, PayTypeOK
<1>2. LockDiscipline'
  <2>1. \A t \in Txns : Inside(t)' = Inside(t)
    BY DEF Inside
  <2>. QED BY <2>1 DEF IInv, LockDiscipline
<1>3. Referenced' /\ AllConsistent'
  BY DEF IInv, Referenced, AllConsistent
<1>. QED BY <1>1, <1>2, <1>3 DEF IInv

\* Inside a settlement's transaction the run sees the row as it is.
LEMMA LockedJob ==
  ASSUME IInv, NEW j \in Jobs, job[j].pc = "locked"
  PROVE  /\ job[j] \in JobStates
         /\ job[j].txn \in Txns /\ row[job[j].txn].status # Absent
         /\ Consistent(row[job[j].txn], journal[job[j].txn], outbox[job[j].txn])
         /\ fresh[j] = row[job[j].txn]
<1>1. job[j] \in JobStates
  BY DEF IInv, TypeOK
<1>2. job[j].txn \in job[j].todo /\ job[j].txn \in Txns
  BY <1>1 DEF IInv, Referenced, JobStates
<1>3. row[job[j].txn].status # Absent
  BY <1>2 DEF IInv, Referenced
<1>4. fresh[j] = row[job[j].txn]
  BY <1>2 DEF IInv, LockDiscipline, Inside
<1>. QED BY <1>1, <1>2, <1>3, <1>4 DEF IInv, AllConsistent

\* An idle run of the job is a job state.
LEMMA NoJobType ==
  /\ NoJob \in JobStates /\ NoJob.pc = "idle" /\ NoJob.pc # "locked" /\ NoJob.todo = {}
  /\ \A t \in Txns : NoJob.scan[t].status = Absent
<1>1. NoRow \in Rows /\ NoRow.status = Absent
  BY DEF NoRow, Rows, Absent, Never
<1>. QED BY <1>1 DEF NoJob, JobStates

\* ListCapturedBetween keeps the invariant: it selects rows that exist.
LEMMA ScanStep ==
  ASSUME IInv, NEW j \in Jobs, NEW d \in 0..now, Scan(j, d)
  PROVE  IInv'
<1>. DEFINE n == [NoJob EXCEPT !.pc = "scanned", !.day = d, !.scan = Snapshot(d)]
<1>1. job[j].pc # "locked" /\ job' = [job EXCEPT ![j] = n] /\ UNCHANGED payVars
  BY DEF Scan
<1>2. Snapshot(d) \in [Txns -> Rows] /\ d \in Nat
  <2>1. NoRow \in Rows /\ row \in [Txns -> Rows] /\ now \in Nat
    BY DEF NoRow, Rows, Absent, Never, IInv, TypeOK, PayTypeOK
  <2>. QED BY <2>1 DEF Snapshot
<1>3. n \in JobStates /\ n.pc # "locked" /\ n.todo = {} /\ n.scan = Snapshot(d)
  BY <1>2, NoJobType DEF JobStates
<1>4. \A t \in Txns : Snapshot(d)[t].status # Absent => row[t].status # Absent
  BY DEF Snapshot, NoRow
<1>. HIDE DEF n
<1>. QED BY <1>1, <1>3, <1>4, QuietJobStep

\* The comparison of the books keeps the invariant.
LEMMA CompareStep ==
  ASSUME IInv, NEW j \in Jobs, Compare(j)
  PROVE  IInv'
<1>. DEFINE ok == \A b \in Books : Agrees(b, job[j].scan, job[j].day)
            n == [job[j] EXCEPT !.pc = "compared", !.ok = ok]
<1>1. job[j] \in JobStates /\ job \in [Jobs -> JobStates] /\ ok \in BOOLEAN
  BY DEF IInv, TypeOK
<1>2. job[j].pc # "locked" /\ UNCHANGED payVars /\ job' = [job EXCEPT ![j] = n]
  BY <1>1 DEF Compare
<1>. HIDE DEF ok
<1>3. /\ n \in JobStates /\ n.pc # "locked" /\ n.todo = job[j].todo
      /\ n.scan = job[j].scan
  BY <1>1 DEF JobStates
<1>4. \A t \in Txns :
         t \in job[j].todo \/ job[j].scan[t].status # Absent => row[t].status # Absent
  BY DEF IInv, Referenced
<1>. HIDE DEF n
<1>. QED BY <1>2, <1>3, <1>4, QuietJobStep

\* The decision to settle keeps the invariant.
LEMMA DecideStep ==
  ASSUME IInv, NEW j \in Jobs, Decide(j)
  PROVE  IInv'
<1>. DEFINE todo == {t \in Txns : job[j].scan[t].status = "captured"}
            n == [NoJob EXCEPT !.pc = "settling", !.todo = todo]
<1>1. job[j].pc # "locked" /\ UNCHANGED payVars
      /\ (job' = [job EXCEPT ![j] = n] \/ job' = [job EXCEPT ![j] = NoJob])
  BY DEF Decide
<1>2. \A t \in todo : t \in Txns /\ row[t].status # Absent
  BY DEF IInv, Referenced, Absent
<1>3. /\ n \in JobStates /\ n.pc # "locked" /\ n.todo = todo
      /\ n.scan = NoJob.scan
  <2>1. todo \in SUBSET Txns
    OBVIOUS
  <2>. HIDE DEF todo
  <2>. QED BY <2>1, NoJobType DEF JobStates
<1>. HIDE DEF n, todo
<1>. QED BY <1>1, <1>2, <1>3, NoJobType, QuietJobStep

\* GetForUpdate by the job keeps the invariant.
LEMMA SettleLockStep ==
  ASSUME IInv, NEW j \in Jobs, NEW t \in Txns, SettleLock(j, t)
  PROVE  IInv'
<1>. DEFINE n == [job[j] EXCEPT !.pc = "locked", !.txn = t]
<1>1. job[j] \in JobStates /\ job \in [Jobs -> JobStates] /\ job[j].pc = "settling"
      /\ t \in job[j].todo /\ row[t].status # Absent
  BY DEF IInv, TypeOK, SettleLock, Referenced
<1>2. job' = [job EXCEPT ![j] = n] /\ UNCHANGED <<dbVars, req, acq, alerted, now, started>>
      /\ TakeLock(j, t) /\ j \notin Requests /\ j \in Procs
  BY <1>1, PaymentsAssumption DEF SettleLock, Procs
<1>3. n \in JobStates /\ n.pc = "locked" /\ n.txn = t /\ n.todo = job[j].todo
      /\ n.scan = job[j].scan
  BY <1>1 DEF JobStates
<1>. HIDE DEF n
<1>4. TypeOK'
  <2>1. lock' \in [Txns -> SUBSET Procs] /\ fresh' \in [Procs -> Rows]
    BY <1>2 DEF IInv, TypeOK, PayTypeOK, TakeLock
  <2>. QED BY <1>1, <1>2, <1>3, <2>1 DEF IInv, TypeOK, PayTypeOK, dbVars
<1>5. LockDiscipline'
  <2>1. \A q \in Txns : Inside(q)' = IF q = t THEN Inside(q) \cup {j} ELSE Inside(q)
    BY <1>1, <1>2, <1>3 DEF Inside
  <2>2. j \notin UNION {Inside(q) : q \in Txns}
    BY <1>1, <1>2 DEF Inside
  <2>. QED BY <1>1, <1>2, <2>1, <2>2, LockStep
<1>6. Referenced'
  BY <1>1, <1>2, <1>3 DEF IInv, Referenced, dbVars
<1>7. AllConsistent'
  BY <1>2 DEF IInv, AllConsistent, dbVars
<1>. QED BY <1>4, <1>5, <1>6, <1>7 DEF IInv

\* The settlement's transaction ends without writing.
LEMMA NoWriteJobStep ==
  ASSUME IInv, NEW j \in Jobs, job[j].pc = "locked",
         NEW n \in JobStates, n.pc # "locked", n.todo \subseteq job[j].todo,
         \A q \in Txns : n.scan[q].status # Absent => job[j].scan[q].status # Absent,
         job' = [job EXCEPT ![j] = n],
         ReleaseLock(j, job[j].txn), UNCHANGED <<dbVars, req, acq, alerted, now, started>>
  PROVE  IInv'
<1>. DEFINE t == job[j].txn
<1>1. t \in Txns /\ row[t].status # Absent /\ Consistent(row[t], journal[t], outbox[t])
  BY LockedJob
<1>2. row \in [Txns -> Rows] /\ journal \in [Txns -> Seq(EntryGroup)]
      /\ outbox \in [Txns -> Seq(Payloads)]
  BY DEF IInv, TypeOK, PayTypeOK
<1>3. /\ row' = [row EXCEPT ![t] = row[t]]
      /\ journal' = [journal EXCEPT ![t] = journal[t]]
      /\ outbox' = [outbox EXCEPT ![t] = outbox[t]]
  BY <1>2 DEF dbVars
<1>. QED BY <1>1, <1>3, EndOfJobTx

\* The settlement of one payment keeps the invariant.
LEMMA SettleCommitStep ==
  ASSUME IInv, NEW j \in Jobs, SettleCommit(j)
  PROVE  IInv'
<1>. DEFINE t == job[j].txn
            x == row[t]
            y == Settle(fresh[j])
            net == NetPayable(fresh[j])
            groups == IF net > 0 THEN <<SettlementEntryGroup(net)>> ELSE <<>>
            n == [job[j] EXCEPT !.pc = "settling", !.todo = @ \ {t}, !.txn = NoTxn]
<1>1. job[j].pc = "locked" /\ UNCHANGED <<req, acq, alerted, now, started>>
  BY DEF SettleCommit
<1>2. /\ job[j] \in JobStates /\ t \in Txns /\ fresh[j] = x
      /\ Consistent(x, journal[t], outbox[t]) /\ x \in Rows
  BY <1>1, LockedJob DEF Consistent
<1>3. n \in JobStates /\ n.pc # "locked" /\ n.todo \subseteq job[j].todo
      /\ n.scan = job[j].scan
  BY <1>2 DEF JobStates
<1>4. job' = [job EXCEPT ![j] = n]
  BY DEF SettleCommit, IInv, TypeOK
<1>. HIDE DEF n
<1>5. CASE fresh[j].status = "captured"
  <2>1. Persist(j, t, y, groups, "settled")
    BY <1>5 DEF SettleCommit
  <2>. DEFINE z == Committed(y)
              s == journal[t] \o groups
              o == Append(outbox[t], EventPayload("settled", y))
  <2>2. Consistent(z, s, o)
    BY <1>2, <1>5, SettleCommits
  <2>3. z.status # Absent
    <3>1. y \in Rows /\ y.status = "settled"
      <4>1. "settled" \in Status
        BY DEF Status
      <4>. QED BY <1>2, <4>1 DEF Settle, Rows
    <3>. HIDE DEF y
    <3>. QED BY <3>1 DEF Committed, Rows, Absent
  <2>4. /\ row' = [row EXCEPT ![t] = z]
        /\ journal' = [journal EXCEPT ![t] = s]
        /\ outbox' = [outbox EXCEPT ![t] = o]
        /\ ReleaseLock(j, t)
    <3>1. journal \in [Txns -> Seq(EntryGroup)] /\ outbox \in [Txns -> Seq(Payloads)]
      BY DEF IInv, TypeOK, PayTypeOK
    <3>. HIDE DEF y, groups
    <3>. QED BY <1>2, <2>1, <3>1 DEF Persist, Committed
  <2>5. \A q \in Txns : n.scan[q].status # Absent => job[j].scan[q].status # Absent
    BY <1>3
  <2>. HIDE DEF z, s, o
  <2>. QED BY <1>1, <1>3, <1>4, <2>2, <2>3, <2>4, <2>5, EndOfJobTx
<1>6. CASE fresh[j].status # "captured"
  <2>1. ReleaseLock(j, t) /\ UNCHANGED dbVars
    BY <1>6 DEF SettleCommit
  <2>. QED BY <1>1, <1>3, <1>4, <2>1, NoWriteJobStep
<1>. QED BY <1>5, <1>6

\* The end or the death of a run keeps the invariant.
LEMMA JobEndStep ==
  ASSUME IInv, NEW j \in Jobs, Finish(j) \/ JobDies(j)
  PROVE  IInv'
<1>1. job' = [job EXCEPT ![j] = NoJob] /\ UNCHANGED <<dbVars, req, acq, alerted, now, started>>
  BY DEF Finish, JobDies, payVars, dbVars
<1>2. CASE job[j].pc = "locked"
  <2>1. ReleaseLock(j, job[j].txn)
    BY <1>2 DEF Finish, JobDies
  <2>. QED BY <1>1, <1>2, <2>1, NoJobType, NoWriteJobStep
<1>3. CASE job[j].pc # "locked"
  <2>1. UNCHANGED payVars
    BY <1>1, <1>3 DEF Finish, JobDies, payVars, txVars, dbVars
  <2>. QED BY <1>1, <1>3, <2>1, NoJobType, QuietJobStep
<1>. QED BY <1>2, <1>3

-----------------------------------------------------------------------------
(* The theorems.                                                           *)

\* Every step keeps the invariant.
LEMMA NextKeeps == IInv /\ [Next]_vars => IInv'
<1>. SUFFICES ASSUME IInv, [Next]_vars PROVE IInv'
  OBVIOUS
<1>1. CASE UNCHANGED vars
  <2>. USE <1>1 DEF vars, payVars
  <2>1. \A t \in Txns : Inside(t)' = Inside(t)
    BY DEF Inside
  <2>. QED BY <2>1 DEF IInv, TypeOK, PayTypeOK, LockDiscipline, Referenced, AllConsistent
<1>2. CASE Tick /\ UNCHANGED job
  BY <1>2, TickStep
<1>3. ASSUME NEW r \in Requests, RequestStep(r), UNCHANGED job PROVE IInv'
  <2>1. ASSUME NEW t \in Txns, NEW amount \in Amounts, NEW auto \in BOOLEAN,
               Create(r, t, amount, auto)
        PROVE  IInv'
    BY <1>3, <2>1, CreateStep
  <2>2. ASSUME NEW t \in Txns, NEW asked \in Asked,
               CapturePreCheck(r, t, asked) \/ RefundPreCheck(r, t, asked)
        PROVE  IInv'
    <3>1. asked \in Nat
      BY PaymentsAssumption
    <3>. QED BY <1>3, <2>2, <3>1, PreCheckStep
  <2>3. ASSUME NEW t \in Txns, VoidPreCheck(r, t) PROVE IInv'
    <3>1. 0 \in Nat
      OBVIOUS
    <3>. QED BY <1>3, <2>3, <3>1, PreCheckStep
  <2>4. CASE Advance(r)
    BY <1>3, <2>4, AcquirerStep, LockRowStep, CommitAuthorizeStep, CommitFailStep,
       CommitCaptureStep, CommitRefundStep, CommitVoidStep, RefusedStep DEF Advance
  <2>5. CASE AcquirerUnavailable(r) \/ Abandon(r)
    BY <1>3, <2>5, AcquirerStep, AbandonStep
  <2>. QED BY <1>3, <2>1, <2>2, <2>3, <2>4, <2>5 DEF RequestStep, Arrive
<1>4. ASSUME NEW j \in Jobs, NEW d \in 0..now, Scan(j, d) PROVE IInv'
  BY <1>4, ScanStep
<1>5. ASSUME NEW j \in Jobs, JobAdvance(j) \/ JobDies(j) PROVE IInv'
  BY <1>5, CompareStep, DecideStep, SettleLockStep, SettleCommitStep, JobEndStep DEF JobAdvance
<1>. QED BY <1>1, <1>2, <1>3, <1>4, <1>5 DEF Next, PayNext

\* The inductive invariant holds of the gateway.
THEOREM Invariance == Spec => []IInv
<1>. QED BY InitConsistent, NextKeeps, PTL DEF Spec

\* Type correctness of every variable.
THEOREM TypeCorrect == Spec => []TypeOK
<1>1. IInv => TypeOK
  BY DEF IInv
<1>. QED BY <1>1, Invariance, PTL

\* The transactions table and the journal agree, whatever requests race, die
\* or time out.
THEOREM BooksAlwaysAgree == Spec => []BooksAgree
<1>1. IInv => BooksAgree
  BY DEF IInv, AllConsistent, Consistent, BooksOK, BooksAgree
<1>. QED BY <1>1, Invariance, PTL

\* Captures never exceed the authorization nor refunds the captures.
THEOREM MoneyAlwaysBounded == Spec => []MoneyBounded
<1>1. IInv => MoneyBounded
  BY DEF IInv, AllConsistent, Consistent, MoneyOK, MoneyBounded
<1>. QED BY <1>1, Invariance, PTL

\* Every group in the journal passed Validate.
THEOREM GroupsAlwaysBalance == Spec => []EveryGroupBalances
<1>1. IInv => EveryGroupBalances
  BY DEF IInv, AllConsistent, Consistent, BooksOK, EveryGroupBalances
<1>. QED BY <1>1, Invariance, PTL

\* One webhook per committed change, the last one reporting the row.
THEOREM OutboxIsFaithful == Spec => []OutboxReportsRow
<1>1. IInv => OutboxReportsRow
  BY DEF IInv, AllConsistent, Consistent, OutboxOK, OutboxReportsRow
<1>. QED BY <1>1, Invariance, PTL

\* Mutual exclusion, and a locked row does not change under its holder.
THEOREM LocksAreExclusive == Spec => []LockDiscipline
<1>1. IInv => LockDiscipline
  BY DEF IInv
<1>. QED BY <1>1, Invariance, PTL

\* No payment is paid out twice.
THEOREM NeverPaidTwice == Spec => []PaidOutOnce
<1>1. IInv => PaidOutOnce
  BY DEF IInv, AllConsistent, Consistent, PayoutOK, PaidOutOnce, SettledEvents
<1>. QED BY <1>1, Invariance, PTL

=============================================================================
