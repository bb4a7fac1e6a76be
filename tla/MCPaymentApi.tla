---------------------------- MODULE MCPaymentApi ----------------------------
(***************************************************************************)
(* Instances of PaymentApi: one payment.                                   *)
(***************************************************************************)
EXTENDS PaymentApi

LOCAL INSTANCE TLC

CONSTANT t1

Order(amount, capture) == [kind |-> "order", amount |-> amount, capture |-> capture]
Amount(amount) == [kind |-> "amount", amount |-> amount]

\* An order of 2 with or without capture, and a capture or refund of 1.
AllBodies == {Order(2, TRUE), Order(2, FALSE), Amount(1)}
AllPaths == [op : {"create", "capture", "refund"}, txn : {t1}]

\* Requests and keys are interchangeable.
Symmetry == Permutations(Requests) \cup Permutations(Keys)

\* No guard reads the journal, the outbox or the records of what happened at the
\* acquirer, and neither do the invariants: states that differ only there are
\* one state.  Nor does the count of accepted calls matter: the middleware's runs
\* are the same ones and reach their bound first.
View == <<vars, row, lock, fresh, serving, answer, effects>>
=============================================================================
