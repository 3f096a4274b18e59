--------------------------- MODULE MCScaciDownlink ---------------------------
(* Model-checking instance of ScaciDownlink: one Application Center that   *)
(* may reconnect before its old connection is cleaned up.                  *)
EXTENDS ScaciDownlink, TLC

CONSTANT a1

MCAcOf == [c \in Conns |-> a1]

(* Connections and endpoints are interchangeable (safety only).            *)
Symmetry == Permutations(Conns) \cup Permutations(Eps)
=============================================================================
