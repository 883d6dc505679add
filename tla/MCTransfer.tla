---------------------------- MODULE MCTransfer ----------------------------
(* Transfer for TLC: four bytes, all different, through a buffer of two.   *)
EXTENDS Transfer

MCSource == <<"w", "x", "y", "z">>
=============================================================================
