----------------------------- MODULE MCBreaker -----------------------------
(***************************************************************************)
(* Instances of Breaker: three concurrent callers around one breaker.      *)
(***************************************************************************)
EXTENDS Breaker

LOCAL INSTANCE TLC

\* The callers are interchangeable.
Symmetry == Permutations(Callers)
=============================================================================
