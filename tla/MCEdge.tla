------------------------------- MODULE MCEdge -------------------------------
(***************************************************************************)
(* Instances of Edge.                                                      *)
(***************************************************************************)
EXTENDS Edge

LOCAL INSTANCE TLC

\* Requests are interchangeable.
Symmetry == Permutations(Deliveries)

\* Nothing reads an expired Redis key, or a request's window once it is counted:
\* states that differ only there are one state.
View ==
  <<now, passed, merchantVars, finals,
    [b \in Buckets |-> IF counter[b].expires > now THEN counter[b] ELSE {}],
    [m \in Messages |-> IF Alive(m) THEN key[m] ELSE {}],
    [d \in Deliveries |->
       IF req[d].pc \in {"begin", "handler"} THEN [req[d] EXCEPT !.bucket = 0] ELSE req[d]]>>
=============================================================================
