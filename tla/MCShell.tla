------------------------------- MODULE MCShell -------------------------------
(* Shell for TLC: nothing tells one name of an entry from another.           *)
EXTENDS Shell, TLC

AnyName == Permutations(Names)
==============================================================================
