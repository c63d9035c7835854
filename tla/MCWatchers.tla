----------------------------- MODULE MCWatchers -----------------------------
(* Instances of Watchers for TLC. *)
EXTENDS Watchers, TLC

CONSTANTS p1, t1, t2

=============================================================================
