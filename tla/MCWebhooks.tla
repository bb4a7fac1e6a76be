----------------------------- MODULE MCWebhooks -----------------------------
(***************************************************************************)
(* Instances of Webhooks.                                                  *)
(***************************************************************************)
EXTENDS Webhooks

LOCAL INSTANCE TLC

\* Processes and deliveries are interchangeable.
Symmetry == Permutations(Processes) \cup Permutations(Deliveries)
=============================================================================
