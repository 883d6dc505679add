---------------------------- MODULE CommonLemmas ----------------------------
(***************************************************************************)
(* What several proofs need.  Induction and recursion over the natural     *)
(* numbers in a first-order form: what the loops that the modules write as *)
(* recursive functions compute is proved from these two lemmas.  And the   *)
(* bits of modes (Attributes): converting one to POSIX and back loses      *)
(* nothing.                                                                *)
(***************************************************************************)
EXTENDS Attributes, WellFoundedInduction, TLAPS

(* A set of natural numbers that is not empty has a least element: the       *)
(* induction principle, for the set of counterexamples.                      *)
LEMMA LeastNumber ==
    ASSUME NEW T, T \subseteq Nat, T # {}
    PROVE  \E x \in T : \A y \in T : x <= y
<1> DEFINE R == OpToRel(<, Nat)
<1>1. IsWellFoundedOn(R, Nat)
  BY NatLessThanWellFounded, Zenon
<1> HIDE DEF R
<1>2. PICK x \in T : \A y \in T : ~(<<y, x>> \in R)
  BY <1>1, WFMin
<1>3. \A y \in Nat, z \in Nat : y < z => <<y, z>> \in R
  BY DEF R, OpToRel
<1>4. ASSUME NEW y \in T
      PROVE  x <= y
  <2>1. x \in Nat /\ y \in Nat /\ ~(y < x)
    BY <1>2, <1>3, <1>4, Zenon
  <2> QED
    BY <2>1
<1> QED
  BY <1>2, <1>4, Zenon

(* h starts with a, and g[i] makes each of its values from the one before.   *)
Follows(h, a, g, m) == h[0] = a /\ \A i \in 1 .. m : h[i] = g[i][h[i - 1]]

(* A function that is defined at i from its value at i - 1 exists: the       *)
(* equation a recursive function is chosen by has a solution.                *)
LEMMA Recursion ==
    ASSUME NEW V, NEW a \in V, NEW g \in [Nat -> [V -> V]], NEW m \in Nat
    PROVE  \E h \in [0 .. m -> V] : Follows(h, a, g, m)
<1> USE DEF Follows
<1> DEFINE Rec(h, n) == h[0] = a /\ \A i \in 1 .. n : h[i] = g[i][h[i - 1]]
           T == {n \in Nat : ~\E h \in [0 .. n -> V] : Rec(h, n)}
<1> SUFFICES ASSUME T # {}
             PROVE  FALSE
  OBVIOUS
<1>1. PICK x \in T : \A y \in T : x <= y
  <2>1. T \subseteq Nat
    OBVIOUS
  <2> HIDE DEF T
  <2> QED
    BY <2>1, LeastNumber
<1>2. CASE x = 0
  <2> DEFINE h == [i \in 0 .. 0 |-> a]
  <2>1. h \in [0 .. 0 -> V] /\ Rec(h, 0)
    OBVIOUS
  <2> QED
    BY <1>2, <2>1
<1>3. CASE x # 0
  <2>1. x \in Nat /\ x - 1 \in Nat /\ x - 1 \notin T
    <3>1. x \in Nat
      BY <1>1
    <3>2. x - 1 \in Nat /\ ~(x <= x - 1)
      BY <1>3, <3>1
    <3> HIDE DEF T
    <3> QED
      BY <1>1, <3>1, <3>2
  <2>2. PICK h \in [0 .. x - 1 -> V] : Rec(h, x - 1)
    BY <2>1
  <2> DEFINE k == [i \in 0 .. x |-> IF i = x THEN g[x][h[x - 1]] ELSE h[i]]
  <2>3. k \in [0 .. x -> V]
    BY <2>1
  <2>4. \A i \in 0 .. x - 1 : k[i] = h[i]
    BY <2>1
  <2>5. k[x] = g[x][h[x - 1]] /\ x - 1 \in 0 .. x - 1 /\ 0 \in 0 .. x - 1
    BY <2>1
  <2>6. ASSUME NEW i \in 1 .. x
        PROVE  k[i] = g[i][k[i - 1]]
    <3>1. i - 1 \in 0 .. x - 1 /\ (i # x => i \in 1 .. x - 1 /\ i \in 0 .. x - 1)
      BY <2>1
    <3> HIDE DEF k
    <3> QED
      BY <2>2, <2>4, <2>5, <3>1
  <2>7. Rec(k, x)
    <3> HIDE DEF k
    <3> QED
      BY <2>2, <2>4, <2>5, <2>6
  <2> QED
    BY <1>1, <2>3, <2>7
<1> QED
  BY <1>2, <1>3
-------------------------------------------------------------------------------
(* The bits of the flags are different from one another and from those of    *)
(* the types.                                                                *)
LEMMA Bits ==
    /\ \A f \in Flags, g \in Flags : PosixBit[f] = PosixBit[g] => f = g
    /\ \A f \in Flags : PosixBit[f] \notin TypeMask
<1> DEFINE Right(r) == IF r = "R" THEN 4 ELSE IF r = "W" THEN 2 ELSE 1
           User(u) == IF u = "USR" THEN 64 ELSE IF u = "GRP" THEN 8 ELSE 1
           Other(u) == IF u = "UID" THEN 2048 ELSE IF u = "GID" THEN 1024 ELSE 512
<1>1. \A r \in Rights, u \in Users : PosixBit[<<r, u>>] = Right(r) * User(u)
  BY DEF PosixBit, PosixRight, PosixUser, Rights, Users, Flags, Permissions, Special
<1>2. \A u \in {"UID", "GID", "VTX"} : PosixBit[<<"S", u>>] = Other(u)
  BY DEF PosixBit, PosixSpecial, Flags, Permissions, Special
<1>3. ASSUME NEW f \in Flags
      PROVE  \/ \E r \in Rights, u \in Users : f = <<r, u>>
             \/ \E u \in {"UID", "GID", "VTX"} : f = <<"S", u>>
  BY DEF Flags, Permissions, Special
<1>4. ASSUME NEW r \in Rights, NEW u \in Users
      PROVE  PosixBit[<<r, u>>] \in {256, 128, 64, 32, 16, 8, 4, 2, 1}
  BY <1>1 DEF Rights, Users
<1>5. ASSUME NEW r \in Rights, NEW u \in Users, NEW q \in Rights, NEW v \in Users,
             PosixBit[<<r, u>>] = PosixBit[<<q, v>>]
      PROVE  r = q /\ u = v
  BY <1>1, <1>5 DEF Rights, Users
<1>6. ASSUME NEW u \in {"UID", "GID", "VTX"}
      PROVE  PosixBit[<<"S", u>>] \in {2048, 1024, 512}
  BY <1>2
<1>7. ASSUME NEW u \in {"UID", "GID", "VTX"}, NEW v \in {"UID", "GID", "VTX"},
             PosixBit[<<"S", u>>] = PosixBit[<<"S", v>>]
      PROVE  u = v
  BY <1>2, <1>7
<1>8. ASSUME NEW f \in Flags
      PROVE  PosixBit[f] \notin TypeMask
  BY <1>3, <1>4, <1>6 DEF TypeMask
<1>9. ASSUME NEW f \in Flags, NEW g \in Flags, PosixBit[f] = PosixBit[g]
      PROVE  f = g
  <2>1. ASSUME NEW r \in Rights, NEW u \in Users, NEW v \in {"UID", "GID", "VTX"}
        PROVE  PosixBit[<<r, u>>] # PosixBit[<<"S", v>>]
    BY <1>4, <1>6
  <2> QED
    BY <1>3, <1>5, <1>7, <1>9, <2>1
<1> QED
  BY <1>8, <1>9

(* A POSIX mode has the flags it was made of, and its type.                  *)
LEMMA PosixModes ==
    ASSUME NEW type \in Types, NEW bits \in SUBSET Flags
    PROVE  /\ \A f \in Flags : Has(Posix_mode(type, bits), f) <=> f \in bits
           /\ Posix_mode(type, bits) \cap TypeMask = PosixType[type]
           /\ Posix_mode(type, bits) # {}
<1>1. PosixType[type] \subseteq TypeMask /\ PosixType[type] # {}
  BY DEF PosixType, TypeMask, Types
<1>2. ASSUME NEW f \in Flags
      PROVE  Has(Posix_mode(type, bits), f) <=> f \in bits
  BY <1>1, Bits DEF Has, Posix_mode
<1>3. Posix_mode(type, bits) \cap TypeMask = PosixType[type]
  BY <1>1, Bits DEF Posix_mode
<1> QED
  BY <1>1, <1>2, <1>3

(* The bits of the type tell which it is.                                    *)
LEMMA TypeOfMode ==
    ASSUME NEW type \in Types, NEW n, n \cap TypeMask = PosixType[type]
    PROVE  TypeOf(n) = type
<1>1. \A s \in Types, t \in Types : PosixType[s] = PosixType[t] => s = t
  <2>1. 8192 # 32768 /\ 16384 # 32768 /\ 8192 # 16384
    OBVIOUS
  <2> QED
    BY <2>1 DEF PosixType, Types
<1> QED
  BY <1>1 DEF TypeOf

(* pfs2tar's conversion to a POSIX mode loses nothing: the one back yields   *)
(* the mode again, every type and every flag of it.                          *)
THEOREM ModesRoundTrip ==
    ASSUME NEW m \in [type : Types, bits : SUBSET Flags]
    PROVE  convert_posix_mode_to_iomanx(convert_mode_to_posix(m)) = m
<1> DEFINE n == Posix_mode(m.type, m.bits)
<1>1. /\ \A f \in Flags : Has(n, f) <=> f \in m.bits
      /\ n \cap TypeMask = PosixType[m.type]
  BY PosixModes
<1> HIDE DEF n
<1>2. TypeOf(n) = m.type
  BY <1>1, TypeOfMode
<1>3. {f \in Flags : Has(n, f)} = m.bits
  BY <1>1
<1>4. convert_posix_mode_to_iomanx(n) = [type |-> m.type, bits |-> m.bits]
  BY <1>2, <1>3 DEF convert_posix_mode_to_iomanx
<1>5. convert_mode_to_posix(m) = n
  BY DEF convert_mode_to_posix, n
<1> QED
  BY <1>4, <1>5
===============================================================================
