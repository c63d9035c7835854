------------------------------ MODULE MCAdminUi ------------------------------
(* The user's buttons in one hand, a script or a second tab in the other.   *)
EXTENDS AdminUi, TLC

CONSTANTS p1, p2, c1, c2

TwoHands == (c1 :> {"search", "start"}) @@ (c2 :> {"search", "agent", "select", "clear"})

(* p2 is not indexed any more, but one query about it was answered before;  *)
(* the user may search p1 twice.                                            *)
OneOfP2 == {<<<<"agent", 2>>, p2>>}
OneOfEach == OneOfP2 \union {<<<<"search", 1>>, p1>>}
=============================================================================
