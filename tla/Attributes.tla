----------------------------- MODULE Attributes -----------------------------
(***************************************************************************)
(* Modes and times of files, as iomanX and as POSIX have them, and the     *)
(* conversions between the two: those of src/src/pfs2tar.c, which keep     *)
(* every bit, and those of src/src/iomanx_adapter.c, which give everybody  *)
(* what anybody has.                                                       *)
(*                                                                         *)
(* An iomanX mode is a type and a set of flags; a POSIX mode is the set of *)
(* the bits that are 1, those of the type included.  A time is counted in  *)
(* hours: the fields of an iomanX time are those of that hour (timegm and  *)
(* gmtime, external, turn one into the other).                             *)
(***************************************************************************)
EXTENDS Integers, FiniteSets

Users == {"USR", "GRP", "OTH"}
Rights == {"R", "W", "X"}
Permissions == Rights \X Users
Special == {"S"} \X {"UID", "GID", "VTX"}
Flags == Permissions \cup Special
Types == {"DIR", "REG", "LNK"}

(* The numbers of sys/stat.h, which src/src/pfs2tar.c has in octal.          *)
PosixRight == [R |-> 4, W |-> 2, X |-> 1]
PosixUser == [USR |-> 64, GRP |-> 8, OTH |-> 1]
PosixSpecial == [UID |-> 2048, GID |-> 1024, VTX |-> 512]
PosixBit == [f \in Flags |-> IF f \in Special THEN PosixSpecial[f[2]]
                             ELSE PosixRight[f[1]] * PosixUser[f[2]]]
PosixType == [DIR |-> {16384}, REG |-> {32768}, LNK |-> {8192, 32768}]
TypeMask == {4096, 8192, 16384, 32768}

Has(n, f) == PosixBit[f] \in n
TypeOf(n) == CHOOSE t \in Types : PosixType[t] = n \cap TypeMask
Posix_mode(type, bits) == PosixType[type] \cup {PosixBit[f] : f \in bits}
-----------------------------------------------------------------------------
(* pfs2tar                                                                   *)

convert_mode_to_posix(m) == Posix_mode(m.type, m.bits)

(* Fault: the set-group-id flag is forgotten.                                *)
convert_posix_mode_to_iomanx_no_sgid(n) ==
    [type |-> TypeOf(n), bits |-> {f \in Flags \ {<<"S", "GID">>} : Has(n, f)}]

convert_posix_mode_to_iomanx(n) ==
    [type |-> TypeOf(n), bits |-> {f \in Flags : Has(n, f)}]

Jst == 9

convert_iox_stat_time_to_posix(h) == h + Jst

convert_posix_time_to_iox_time(t) == t - Jst
-----------------------------------------------------------------------------
(* pfsfuse: a right that anybody has, everybody has, both ways; the owner's, *)
(* the group's and the others' flags are never told apart.                   *)

Everybodys(rights) == rights \X Users

convert_time_to_posix(h) == h + Jst

convert_time_to_iomanx(t) == t - Jst

adapter_mode_to_posix(m) ==
    Posix_mode(m.type, Everybodys({r \in Rights : \E u \in Users : <<r, u>> \in m.bits})
                          \cup (m.bits \cap Special))

(* Fault: a right is granted only if the owner has it.                       *)
adapter_mode_to_iomanx_owner(n) ==
    [type |-> TypeOf(n),
     bits |-> Everybodys({r \in Rights : Has(n, <<r, "USR">>)})
                 \cup {f \in Special : Has(n, f)}]

adapter_mode_to_iomanx(n) ==
    [type |-> TypeOf(n),
     bits |-> Everybodys({r \in Rights : \E u \in Users : Has(n, <<r, u>>)})
                 \cup {f \in Special : Has(n, f)}]
=============================================================================
