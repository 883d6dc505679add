-------------------------------- MODULE MCTar --------------------------------
(* Tar for TLC.  Three disks of two partitions: files of every kind of size *)
(* (empty, within a block, across blocks, just under and over the modulus), *)
(* modes and links; directories as deep as there are descriptors; names too *)
(* long for the header and for the walk; a directory with a name that runs  *)
(* into SIZE; a target too long for LINK and a time too late for MTIME.     *)
(* Two targets: empty partitions, and ones in which some paths exist, one   *)
(* of them as another type.                                                 *)
EXTENDS Tar

MCOrder == <<"p", "q">>
MCWeight == [n \in {"a", "b", "c", "l", "long", "large", "longer"} |->
                CASE n = "long" -> 3 [] n = "large" -> 4 [] n = "longer" -> 5 [] OTHER -> 1]

Dir(time) == Node("DIR", {<<"R", "USR">>, <<"X", "GRP">>, <<"S", "GID">>}, time, <<>>)
File(time, data) == Node("REG", {<<"W", "USR">>, <<"R", "OTH">>, <<"S", "UID">>}, time, data)
Link(target) == Node("LNK", Permissions, 1, target)
Root == <<>> :> Dir(1)

Ordinary ==
    [p |-> Root @@ (<<"a">> :> Dir(2)) @@ (<<"a", "b">> :> File(3, <<1, 2, 3>>))
                @@ (<<"l">> :> Link(<<7, 8>>)),
     q |-> Root @@ (<<"b">> :> File(4, <<>>)) @@ (<<"c">> :> File(118, <<0, 1>>))]
Deep ==
    [p |-> Root @@ (<<"a">> :> Dir(2)) @@ (<<"a", "b">> :> Dir(2))
                @@ (<<"a", "b", "c">> :> File(3, <<1, 0>>)) @@ (<<"l">> :> Link(<<7, 8, 9>>)),
     q |-> Root @@ (<<"b">> :> File(200, <<1, 2, 3, 4, 5, 6, 7>>))
                @@ (<<"c">> :> File(5, <<1, 2, 3, 4, 5, 6, 7, 8>>))]
LongNames ==
    [p |-> Root @@ (<<"long">> :> File(2, <<1, 2>>)) @@ (<<"a">> :> Dir(2))
                @@ (<<"a", "longer">> :> File(2, <<1>>)),
     q |-> Root @@ (<<"a">> :> Dir(2)) @@ (<<"a", "large">> :> Dir(3))]
MCDisks == {Ordinary, Deep, LongNames}

MCTargets ==
    {[p |-> Root, q |-> Root],
     [p |-> Root @@ (<<"a">> :> File(6, <<9>>)),
      q |-> Root @@ (<<"c">> :> File(6, <<9, 9, 9>>)) @@ (<<"a">> :> Dir(6))]}
==============================================================================
