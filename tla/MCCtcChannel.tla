--------------------------- MODULE MCCtcChannel ----------------------------
(* Instances of CtcChannel for TLC.                                        *)
EXTENDS CtcChannel, TLC

CONSTANTS w1, w2, c1, c2, c3

Symmetry == Permutations(Ctcs) \cup Permutations(Workers)
=============================================================================
