------------------------------ MODULE MCDpbuf ------------------------------
(* Instances of Dpbuf for TLC: the delimiter is CR LF.                     *)
EXTENDS Dpbuf

CONSTANTS b1, b2

MCData == {<<Lf, Cr>>}
MCUntil == <<Cr, Lf>>
=============================================================================
