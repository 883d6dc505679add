---------------------------- MODULE MCPfsdTables ----------------------------
(* PfsdTables for TLC: clients, descriptors and partitions are model values, *)
(* interchangeable in the safety runs.                                       *)
EXTENDS PfsdTables, TLC

Symmetry ==
    Permutations(Pids) \cup Permutations(Fds) \cup Permutations(Devs)
=============================================================================
