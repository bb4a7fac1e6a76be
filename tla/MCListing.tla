----------------------------- MODULE MCListing -----------------------------
(***************************************************************************)
(* Instances of Listing.                                                   *)
(***************************************************************************)
EXTENDS Listing

LOCAL INSTANCE TLC

\* No bounds, and bounds that leave the older or the newer rows out.
AllSpans == {[from |-> 0, to |-> MaxTime], [from |-> 1, to |-> MaxTime], [from |-> 0, to |-> 0]}

\* Labels are interchangeable.
Symmetry == Permutations(Labels)
=============================================================================
