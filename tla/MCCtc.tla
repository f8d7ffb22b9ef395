------------------------------- MODULE MCCtc -------------------------------
(* Instances of Ctc for TLC.                                               *)
EXTENDS Ctc, TLC

CONSTANTS w1, w2, c1, c2

Symmetry == Permutations(Workers)
=============================================================================
