-------------------------- MODULE GatewayRefinement --------------------------
(***************************************************************************)
(* The gateway implements PaymentContract.  The stage and the order are    *)
(* read from the transactions table and the money from the journal, so the *)
(* refinement also says that the two records move together.                *)
(***************************************************************************)
EXTENDS Reconciliation

\* The cash legs of the settlement groups.
PostedPayouts(s) == Posted(s, "settlement", Cash, "credit")

Contract == INSTANCE PaymentContract WITH
  Payments <- Txns,
  Orders   <- Amounts,
  stage    <- [t \in Txns |-> row[t].status],
  order    <- [t \in Txns |-> row[t].amount],
  taken    <- [t \in Txns |-> PostedCaptures(journal[t])],
  returned <- [t \in Txns |-> PostedRefunds(journal[t])],
  paidOut  <- [t \in Txns |-> PostedPayouts(journal[t])]

\* Every behaviour of the concurrent gateway, faults included, is a behaviour
\* of the contract: each commit is one atomic move of one payment, and nothing
\* else changes what the contract sees.
ImplementsContract == Contract!Spec

=============================================================================
