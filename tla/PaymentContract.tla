-------------------------- MODULE PaymentContract --------------------------
(***************************************************************************)
(* What the gateway promises about each payment, said without requests,    *)
(* locks, retries or an acquirer: one record per payment that changes      *)
(* atomically.  The money fields are what an accountant reads off the      *)
(* journal, the stage is what the merchant reads off the API; the contract *)
(* ties the two together.                                                  *)
(***************************************************************************)
EXTENDS Integers

CONSTANTS Payments,  \* the payments
          Orders     \* the amounts a payment may be opened for

VARIABLES stage,     \* the status the merchant sees
          order,     \* the amount ordered
          taken,     \* captured so far, by the journal
          returned,  \* refunded so far, by the journal
          paidOut    \* cash paid to the merchant, by the journal

contractVars == <<stage, order, taken, returned, paidOut>>

Init ==
  /\ stage = [p \in Payments |-> "absent"]
  /\ order = [p \in Payments |-> 0]
  /\ taken = [p \in Payments |-> 0]
  /\ returned = [p \in Payments |-> 0]
  /\ paidOut = [p \in Payments |-> 0]

Move(p, from, to) ==
  /\ stage[p] \in from
  /\ stage' = [stage EXCEPT ![p] = to]

Open(p, amount) ==
  /\ Move(p, {"absent"}, "created")
  /\ order' = [order EXCEPT ![p] = amount]
  /\ UNCHANGED <<taken, returned, paidOut>>

Authorise(p) ==
  /\ Move(p, {"created"}, "authorized")
  /\ UNCHANGED <<order, taken, returned, paidOut>>

Decline(p) ==
  /\ Move(p, {"created"}, "failed")
  /\ UNCHANGED <<order, taken, returned, paidOut>>

Cancel(p) ==
  /\ Move(p, {"authorized"}, "voided")
  /\ taken[p] = 0
  /\ UNCHANGED <<order, taken, returned, paidOut>>

\* Money is taken from the cardholder, never more than ordered.
Take(p, amount) ==
  /\ Move(p, {"authorized", "captured"}, "captured")
  /\ taken[p] + amount <= order[p]
  /\ taken' = [taken EXCEPT ![p] = @ + amount]
  /\ UNCHANGED <<order, returned, paidOut>>

\* Money goes back, never more than taken; returning all of it is the end.
Return(p, amount) ==
  /\ returned[p] + amount <= taken[p]
  /\ Move(p, {"captured", "settled"},
          IF returned[p] + amount = taken[p] THEN "refunded" ELSE stage[p])
  /\ returned' = [returned EXCEPT ![p] = @ + amount]
  /\ UNCHANGED <<order, taken, paidOut>>

\* The merchant is paid, once, no more than was taken and not returned.
PayOut(p, amount) ==
  /\ Move(p, {"captured"}, "settled")
  /\ amount <= taken[p] - returned[p]
  /\ paidOut' = [paidOut EXCEPT ![p] = @ + amount]
  /\ UNCHANGED <<order, taken, returned>>

Next ==
  \E p \in Payments :
    \/ \E amount \in Orders : Open(p, amount)
    \/ Authorise(p)
    \/ Decline(p)
    \/ Cancel(p)
    \/ \E amount \in 1..order[p] : Take(p, amount) \/ Return(p, amount)
    \/ \E amount \in 0..taken[p] : PayOut(p, amount)

Spec == Init /\ [][Next]_contractVars

=============================================================================
