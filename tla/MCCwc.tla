------------------------------- MODULE MCCwc -------------------------------
(* Instances of Cwc for TLC.                                               *)
EXTENDS Cwc

CONSTANTS c1, c2, e1, k1, k2, t1
=============================================================================
