---------------------------- MODULE MCIndexStore ----------------------------
(* Instances of IndexStore for TLC. *)
EXTENDS IndexStore, TLC

CONSTANTS p1, i1, w1

(* One project watched by one task; nobody watching. *)
WatchOne == w1 :> p1
WatchNone == [w \in {} |-> p1]

=============================================================================
