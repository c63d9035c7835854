-------------------------- MODULE MCSearchRequests --------------------------
(* An instance of SearchRequests for TLC. *)
EXTENDS SearchRequests, TLC

CONSTANTS r1, r2, q1, q2, v1

(* Every content has results for every query. *)
AllMatch == Revisions \X Queries

(* The requests are interchangeable. *)
Indistinct == Permutations({r1, r2})

=============================================================================
