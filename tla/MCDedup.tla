------------------------------- MODULE MCDedup -------------------------------
(* Model-checking instance of Dedup: the counter wraps after the first and *)
(* after the fourth packet, a gap of one packet counts as loss, a gap of   *)
(* two does not, and one of three is a whole round.                        *)
EXTENDS Dedup, TLC

(* Base stations are interchangeable.                                      *)
Symmetry == Permutations(Stations)
=============================================================================
