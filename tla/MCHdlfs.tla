------------------------------ MODULE MCHdlfs ------------------------------
(* Hdlfs for TLC: a partition with a sub-partition and one without.         *)
EXTENDS Hdlfs, TLC

CONSTANTS game1, game2

MCExtents == game1 :> <<12, 13>> @@ game2 :> <<20>>
=============================================================================
