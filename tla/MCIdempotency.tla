---------------------------- MODULE MCIdempotency ----------------------------
(***************************************************************************)
(* Instances of Idempotency.                                               *)
(***************************************************************************)
EXTENDS Idempotency

LOCAL INSTANCE TLC

\* Requests are interchangeable.
Symmetry == Permutations(Requests)
=============================================================================
