----------------------------- MODULE MCPfsdRpc -----------------------------
(* PfsdRpc for TLC: a call that moves no data, and one that copies data in   *)
(* and out.                                                                  *)
EXTENDS PfsdRpc

TwoKinds == {"open", "ioctl2"}
=============================================================================
