----------------------------- MODULE MCGateway -----------------------------
(***************************************************************************)
(* Instances of Reconciliation (payments and the daily close together).    *)
(***************************************************************************)
EXTENDS GatewayInvariant

LOCAL INSTANCE TLC

\* Every payment belongs to one merchant and one currency.
OneBook == [t \in Txns |-> "book"]

\* Requests, runs of the job and transactions are interchangeable.
Symmetry == Permutations(Requests) \cup Permutations(Jobs) \cup Permutations(Txns)
=============================================================================
