----------------------------- MODULE MCBsSession -----------------------------
(* Model-checking instance of BsSession.                                   *)
EXTENDS BsSession, TLC

=============================================================================
