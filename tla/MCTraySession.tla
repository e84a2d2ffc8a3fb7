---------------------------- MODULE MCTraySession ----------------------------
(* TraySession for TLC: worker slots are interchangeable.                  *)
EXTENDS TraySession, TLC

Symmetry == Permutations(Workers)
=============================================================================
