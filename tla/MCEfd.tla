------------------------------- MODULE MCEfd -------------------------------
(* Instances of Efd for TLC.                                               *)
EXTENDS Efd
=============================================================================
