--------------------------- MODULE MCScaciSession ---------------------------
(* Model-checking instance of ScaciSession: every connection is one of an  *)
(* Application Center of its own.                                          *)
EXTENDS ScaciSession

MCAcOf == [c \in Conns |-> c]
=============================================================================
