---------------------------- MODULE MCVectorSync ----------------------------
(* The instance of VectorSync for TLC: its cfg gives all constants values.  *)
EXTENDS VectorSync, TLC

CONSTANTS f1, f2, s1, a, b

Says(text) == [span |-> s1, text |-> text]

(* Both files have a chunk at first.                                        *)
MCContents == {(f1 :> Says(a)) @@ (f2 :> Says(b))}

=============================================================================
