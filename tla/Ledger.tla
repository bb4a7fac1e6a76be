------------------------------- MODULE Ledger -------------------------------
(***************************************************************************)
(* The double-entry journal (internal/domain/ledger.go) and the queries    *)
(* the gateway asks of it (internal/repository/ledger_repo.go).            *)
(*                                                                         *)
(* An entry group has at most one leg per account, so a group is a         *)
(* function from accounts to legs.  A group's currency is its              *)
(* transaction's and is left out: the constructors copy it onto every leg. *)
(* The journal of one transaction is the sequence of the groups inserted   *)
(* for it; nothing updates or deletes an entry.                            *)
(***************************************************************************)
EXTENDS Integers, Sequences, FiniteSets

Receivable == "acquirer_receivable"
Payable    == "merchant_payable"
FeeRevenue == "platform_fee_revenue"
Cash       == "platform_cash"

Accounts == {Receivable, Payable, FeeRevenue, Cash}

EventTypes == {"capture", "fee", "refund", "settlement"}

\* A leg of a group; NoLeg stands for an account the group does not touch.
LedgerEntry ==
  [direction : {"debit", "credit"}, amount : Int, event : EventTypes]

NoLeg == [direction |-> "none", amount |-> 0, event |-> "none"]

EntryGroup == [Accounts -> LedgerEntry \cup {NoLeg}]

Debit(amount, event) ==
  [direction |-> "debit", amount |-> amount, event |-> event]

Credit(amount, event) ==
  [direction |-> "credit", amount |-> amount, event |-> event]

-----------------------------------------------------------------------------
(* One group.                                                              *)

Entries(g) == {a \in Accounts : g[a] # NoLeg}

\* What group g books on one account on one side.
Booked(g, account, direction) ==
  IF g[account].direction = direction THEN g[account].amount ELSE 0

\* EntryGroup.Totals, one side at a time.
GroupTotal(g, direction) ==
    Booked(g, Receivable, direction) + Booked(g, Payable, direction)
  + Booked(g, FeeRevenue, direction) + Booked(g, Cash, direction)

Validate(g) ==
  /\ Cardinality(Entries(g)) >= 2
  /\ \A a \in Entries(g) : g[a].amount > 0
  /\ GroupTotal(g, "debit") = GroupTotal(g, "credit")

\* The three constructors.  The fee leg exists only for a positive fee.
CaptureEntryGroup(amount, fee) ==
  [a \in Accounts |->
     CASE a = Receivable -> Debit(amount, "capture")
       [] a = Payable    -> Credit(amount - fee, "capture")
       [] a = FeeRevenue -> IF fee > 0 THEN Credit(fee, "fee") ELSE NoLeg
       [] OTHER          -> NoLeg]

\* NewCaptureEntryGroup returns an error unless this holds.
CaptureBookable(amount, fee) ==
  /\ amount > 0
  /\ 0 <= fee /\ fee <= amount
  /\ Validate(CaptureEntryGroup(amount, fee))

\* Mutant: the platform bears a unit of the refund without booking it.
RefundEntryGroupShort(amount) ==
  [a \in Accounts |->
     CASE a = Payable    -> Debit(amount - 1, "refund")
       [] a = Receivable -> Credit(amount, "refund")
       [] OTHER          -> NoLeg]

RefundEntryGroup(amount) ==
  [a \in Accounts |->
     CASE a = Payable    -> Debit(amount, "refund")
       [] a = Receivable -> Credit(amount, "refund")
       [] OTHER          -> NoLeg]

SettlementEntryGroup(net) ==
  [a \in Accounts |->
     CASE a = Payable -> Debit(net, "settlement")
       [] a = Cash    -> Credit(net, "settlement")
       [] OTHER       -> NoLeg]

-----------------------------------------------------------------------------
(* The journal.                                                            *)

\* The sum of a sequence of integers.
Sum(w) ==
  LET total[n \in 0..Len(w)] == IF n = 0 THEN 0 ELSE total[n - 1] + w[n]
  IN  total[Len(w)]

\* The amount of g's leg that a FILTER on event, account and side selects.
Leg(g, event, account, direction) ==
  IF g[account].event = event THEN Booked(g, account, direction) ELSE 0

\* SUM(amount) FILTER (WHERE event_type AND account AND direction).
Posted(s, event, account, direction) ==
  Sum([i \in DOMAIN s |-> Leg(s[i], event, account, direction)])

\* The three columns of AggregateByMerchant, for one transaction.
PostedCaptures(s) == Posted(s, "capture", Receivable, "debit")
PostedRefunds(s)  == Posted(s, "refund", Receivable, "credit")
PostedFees(s)     == Posted(s, "fee", FeeRevenue, "credit")

\* SUM over one account and side: ComputeBalance and LedgerRepo.Balance.
AccountTotal(s, account, direction) ==
  Sum([i \in DOMAIN s |-> Booked(s[i], account, direction)])

\* Balance.Available of merchant_payable: what is still owed to the merchant.
Available(s) == AccountTotal(s, Payable, "credit") - AccountTotal(s, Payable, "debit")

\* The positions of the groups of one event: CountEntryGroups counts them.
GroupsOf(s, event) == {i \in DOMAIN s : \E a \in Accounts : s[i][a].event = event}

FindUnbalancedGroups(s) ==
  {i \in DOMAIN s : GroupTotal(s[i], "debit") # GroupTotal(s[i], "credit")}

=============================================================================
