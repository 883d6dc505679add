---------------------------- MODULE HdlfsProofs ----------------------------
(***************************************************************************)
(* Proofs about Hdlfs, for any partitions, units, games and table length:  *)
(* the units account for the descriptors, the slices that format writes    *)
(* tile the game, the two positions of a unit agree, and a transfer goes   *)
(* to the sectors the table says.                                          *)
(***************************************************************************)
EXTENDS Hdlfs, CommonLemmas, SequenceTheorems, TLAPS

Slices == [part_offset : Nat, part_size : Nat]

(* The tables that can be in a header or in a unit: slices that follow one   *)
(* another, and whose positions in the game fit an unsigned int.             *)
Tables ==
    {s \in Seq(Slices) :
        \A k \in 1 .. Len(s) :
            /\ s[k].part_offset =
                  IF k = 1 THEN 0 ELSE s[k - 1].part_offset + s[k - 1].part_size
            /\ 4 * (s[k].part_offset + s[k].part_size) < Modulus}

Sizes == {0} \cup {FoldLeft(+, 0, Extents[p]) : p \in Parts}

Descriptors ==
    [MountFD : Parts \cup {NoPart}, NumPartitions : Nat, CurrentPartNum : Nat,
     RelativeSectorNumber : Nat, offset : Nat, size : Sizes, part_specs : Tables]

TypeOK ==
    /\ info \in [Parts -> Tables]
    /\ FD \in [Units -> Descriptors]
    /\ io \in [unit : Units \cup {-1}, left : Nat]
    /\ io.left > 0 => io.unit \in Units
    /\ where \in [Units -> Nat]

(* A unit's position is consistent with the unit's own table, be it that of  *)
(* the partition or a stale one.  Behind the last partition there is nothing *)
(* left to transfer.                                                         *)
PositionOf(d) ==
    /\ d.part_specs # NoInfo => Len(d.part_specs) = d.NumPartitions
    /\ d.CurrentPartNum < d.NumPartitions =>
          LET s == Slice(d.part_specs, d.CurrentPartNum) IN
          /\ d.offset = 4 * s.part_offset + d.RelativeSectorNumber
          /\ d.RelativeSectorNumber <= 4 * s.part_size
    /\ d.CurrentPartNum >= d.NumPartitions => d.RelativeSectorNumber = 0
    /\ d.offset < Modulus

PositionInv ==
    /\ \A u \in Units : PositionOf(FD[u]) /\ where[u] = FD[u].offset
    /\ \A p \in Parts : info[p] # NoInfo => Len(info[p]) = Len(Extents[p])

(* Every unit holds a descriptor of its own, and none that a failed close    *)
(* kept: such a partition stays open, so that no mount gets it.              *)
UnitsInv ==
    /\ \A u \in Units : FD[u].MountFD # NoPart => FD[u].MountFD \in apaOpen
    /\ \A u \in Units, v \in Units :
          FD[u].MountFD = FD[v].MountFD => u = v \/ FD[u].MountFD = NoPart
    /\ \A u \in Units : FD[u].MountFD \notin lost
    /\ DescriptorsAccounted

(* A unit's descriptor is changed, its fields keep their names.              *)
Fields == {"MountFD", "NumPartitions", "CurrentPartNum", "RelativeSectorNumber",
           "offset", "size", "part_specs"}

ShapeInv ==
    /\ apaOpen \subseteq Parts /\ lost \subseteq apaOpen
    /\ remounted \in BOOLEAN
    /\ DOMAIN FD = Units
    /\ \A u \in Units : DOMAIN FD[u] = Fields /\ FD[u].MountFD \in Parts \cup {NoPart}

(* As long as no unit is mounted twice, the units account for every          *)
(* descriptor the driver holds on a partition.                               *)
THEOREM DescriptorsSafe == Spec => []DescriptorsAccounted
<1> DEFINE Inv == ShapeInv /\ UnitsInv
<1>1. Init => Inv
  <2> SUFFICES ASSUME Init
               PROVE  ShapeInv /\ UnitsInv
    OBVIOUS
  <2>1. remounted \in BOOLEAN
    BY Zenon DEF Init
  <2>2. \A u \in Units : DOMAIN FD[u] = Fields /\ FD[u].MountFD = NoPart
    BY DEF Init, Unmounted, Fields
  <2> QED
    BY <2>1, <2>2 DEF Init, ShapeInv, UnitsInv, DescriptorsAccounted
<1>2. Inv /\ [Next]_vars => Inv'
  <2> SUFFICES ASSUME ShapeInv, UnitsInv, [Next]_vars
               PROVE  ShapeInv' /\ UnitsInv'
    OBVIOUS
  <2>1. ASSUME \A u \in Units : FD'[u].MountFD = FD[u].MountFD /\ DOMAIN FD'[u] = Fields,
               DOMAIN FD' = Units, UNCHANGED <<apaOpen, remounted, lost>>
        PROVE  ShapeInv' /\ UnitsInv'
    BY <2>1 DEF ShapeInv, UnitsInv, DescriptorsAccounted
  <2>2. ASSUME NEW u \in Units, NEW p \in Parts, p \notin apaOpen,
               FD'[u].MountFD = p, DOMAIN FD'[u] = Fields,
               \A v \in Units \ {u} : FD'[v] = FD[v],
               DOMAIN FD' = Units, apaOpen' = apaOpen \cup {p}, lost' = lost, Mounts(u)
        PROVE  ShapeInv' /\ UnitsInv'
    <3>1. ShapeInv'
      BY <2>2 DEF ShapeInv, Mounts
    <3>2. p # NoPart
      BY HdlfsAssumption
    <3>3. /\ \A v \in Units : FD'[v].MountFD # NoPart => FD'[v].MountFD \in apaOpen'
          /\ \A v \in Units, w \in Units :
                FD'[v].MountFD = FD'[w].MountFD => v = w \/ FD'[v].MountFD = NoPart
          /\ \A v \in Units : FD'[v].MountFD \notin lost'
      BY <2>2, <3>2 DEF UnitsInv, ShapeInv
    <3>4. ASSUME ~remounted'
          PROVE  apaOpen' = ({FD'[v].MountFD : v \in Units} \ {NoPart}) \cup lost'
      <4>1. ~remounted /\ FD[u].MountFD = NoPart
        BY <2>2, <3>4 DEF Mounts
      <4>2. apaOpen = ({FD[v].MountFD : v \in Units} \ {NoPart}) \cup lost
        BY <4>1 DEF UnitsInv, DescriptorsAccounted
      <4> QED
        BY <2>2, <3>2, <4>1, <4>2
    <3> QED
      BY <3>1, <3>3, <3>4 DEF UnitsInv, DescriptorsAccounted
  <2>3. ASSUME NEW p \in Parts, p \notin apaOpen, CloseFormatted(p),
               UNCHANGED <<FD, remounted>>
        PROVE  ShapeInv' /\ UnitsInv'
    <3>1. CASE UNCHANGED <<apaOpen, lost>>
      BY <2>1, <2>3, <3>1 DEF ShapeInv
    <3>2. CASE apaOpen' = apaOpen \cup {p} /\ lost' = lost \cup {p}
      <4>1. ShapeInv'
        BY <2>3, <3>2 DEF ShapeInv
      <4>2. \A u \in Units : FD[u].MountFD # p
        BY <2>3, HdlfsAssumption DEF UnitsInv
      <4>3. DescriptorsAccounted'
        BY <2>3, <3>2 DEF UnitsInv, DescriptorsAccounted
      <4> QED
        BY <2>3, <3>2, <4>1, <4>2, <4>3 DEF UnitsInv
    <3> QED
      BY <2>3, <3>1, <3>2 DEF CloseFormatted
  <2>4. ASSUME NEW u \in Units, MountOpenFails(u)
        PROVE  ShapeInv' /\ UnitsInv'
    <3>1. /\ FD'[u].MountFD = NoPart /\ DOMAIN FD'[u] = Fields /\ DOMAIN FD' = Units
          /\ \A v \in Units \ {u} : FD'[v] = FD[v]
          /\ apaOpen' = apaOpen /\ lost' = lost /\ Mounts(u)
      BY <2>4 DEF MountOpenFails, ShapeInv, Fields
    <3>2. ShapeInv'
      BY <3>1 DEF ShapeInv, Mounts
    <3>4. NoPart \notin lost
      BY HdlfsAssumption DEF ShapeInv
    <3>3. ASSUME ~remounted'
          PROVE  apaOpen' = ({FD'[v].MountFD : v \in Units} \ {NoPart}) \cup lost'
      <4>1. ~remounted /\ FD[u].MountFD = NoPart
        BY <3>1, <3>3 DEF Mounts
      <4> QED
        BY <3>1, <4>1 DEF UnitsInv, DescriptorsAccounted
    <3> QED
      BY <3>1, <3>2, <3>3, <3>4 DEF UnitsInv, DescriptorsAccounted
  <2>5. ASSUME NEW u \in Units, unmount(u)
        PROVE  ShapeInv' /\ UnitsInv'
    <3>1. /\ FD'[u].MountFD = NoPart /\ DOMAIN FD'[u] = Fields /\ DOMAIN FD' = Units
          /\ \A v \in Units \ {u} : FD'[v] = FD[v]
          /\ FD[u].MountFD # NoPart /\ remounted' = remounted
      BY <2>5 DEF unmount, ShapeInv, Fields
    <3>2. FD[u].MountFD \in apaOpen /\ FD[u].MountFD \notin lost /\ NoPart \notin apaOpen
      BY <3>1, HdlfsAssumption DEF UnitsInv, ShapeInv
    <3>3. {FD'[v].MountFD : v \in Units} \ {NoPart}
             = ({FD[v].MountFD : v \in Units} \ {NoPart}) \ {FD[u].MountFD}
      BY <3>1 DEF UnitsInv
    <3>4. CASE apaOpen' = apaOpen \ {FD[u].MountFD} /\ lost' = lost
      <4>1. ShapeInv'
        BY <3>1, <3>2, <3>4 DEF ShapeInv
      <4>2. DescriptorsAccounted'
        BY <3>1, <3>2, <3>3, <3>4 DEF UnitsInv, DescriptorsAccounted
      <4>3. \A v \in Units : FD'[v].MountFD \notin lost'
        BY <3>1, <3>2, <3>4 DEF UnitsInv, ShapeInv
      <4> QED
        BY <3>1, <3>4, <4>1, <4>2, <4>3 DEF UnitsInv
    <3>5. CASE lost' = lost \cup {FD[u].MountFD} /\ apaOpen' = apaOpen
      <4>1. ShapeInv'
        BY <3>1, <3>2, <3>5 DEF ShapeInv
      <4>2. DescriptorsAccounted'
        BY <3>1, <3>2, <3>3, <3>5 DEF UnitsInv, DescriptorsAccounted
      <4>3. \A v \in Units : FD'[v].MountFD \notin lost'
        BY <3>1, <3>2, <3>5 DEF UnitsInv, ShapeInv
      <4> QED
        BY <3>1, <3>5, <4>1, <4>2, <4>3 DEF UnitsInv
    <3> QED
      BY <2>5, <3>4, <3>5 DEF unmount
  <2>6. ASSUME NEW u \in Units, NEW p \in Parts, MountReadFails(u, p)
        PROVE  ShapeInv' /\ UnitsInv'
    <3>1. /\ FD'[u].MountFD = p /\ DOMAIN FD'[u] = Fields /\ DOMAIN FD' = Units
          /\ \A v \in Units \ {u} : FD'[v] = FD[v]
      BY <2>6 DEF MountReadFails, ShapeInv, Fields
    <3> QED
      BY <2>2, <2>6, <3>1 DEF MountReadFails
  <2>7. ASSUME NEW u \in Units, NEW p \in Parts, hdlfs_mount(u, p)
        PROVE  ShapeInv' /\ UnitsInv'
    <3>1. /\ FD'[u].MountFD = p /\ DOMAIN FD'[u] = Fields /\ DOMAIN FD' = Units
          /\ \A v \in Units \ {u} : FD'[v] = FD[v]
      BY <2>7 DEF hdlfs_mount, ShapeInv, Fields
    <3> QED
      BY <2>2, <2>7, <3>1 DEF hdlfs_mount
  <2>8. ASSUME NEW u \in Units, NEW off \in 0 .. Modulus \div 8, NEW w \in Whences,
               hdlfs_lseek(u, off, w)
        PROVE  ShapeInv' /\ UnitsInv'
    BY <2>1, <2>8 DEF hdlfs_lseek, ShapeInv, Fields
  <2>9. ASSUME NEW u \in Units, NEW n \in 1 .. MaxIo, StartIo(u, n)
        PROVE  ShapeInv' /\ UnitsInv'
    BY <2>1, <2>9 DEF StartIo, ShapeInv
  <2>10. CASE IoTurn
    <3> DEFINE u == io.unit
               d == NextPart(FD[u])
    <3>1. u \in Units => d.MountFD = FD[u].MountFD /\ DOMAIN d = Fields
      BY DEF NextPart, ShapeInv, Fields
    <3> HIDE DEF d
    <3>2. \E e : /\ FD' = [FD EXCEPT ![u] = e]
                 /\ u \in Units => DOMAIN e = Fields /\ e.MountFD = d.MountFD
      <4>1. CASE FD' = [FD EXCEPT ![u] = d]
        BY <3>1, <4>1
      <4>2. ASSUME NEW x, NEW y,
                   FD' = [FD EXCEPT ![u] = [d EXCEPT !.offset = x, !.RelativeSectorNumber = y]]
            PROVE  \E e : /\ FD' = [FD EXCEPT ![u] = e]
                          /\ u \in Units => DOMAIN e = Fields /\ e.MountFD = d.MountFD
        <5> DEFINE e == [d EXCEPT !.offset = x, !.RelativeSectorNumber = y]
        <5>1. DOMAIN e = DOMAIN d
          OBVIOUS
        <5>2. "MountFD" \in DOMAIN d => e.MountFD = d.MountFD
          OBVIOUS
        <5>3. FD' = [FD EXCEPT ![u] = e]
          BY <4>2
        <5>4. u \in Units => DOMAIN e = Fields /\ e.MountFD = d.MountFD
          BY <3>1, <5>1, <5>2 DEF Fields
        <5> HIDE DEF e
        <5> QED
          BY <5>3, <5>4
      <4> QED
        BY <2>10, <4>1, <4>2 DEF IoTurn, d
    <3>3. \A v \in Units : FD'[v].MountFD = FD[v].MountFD /\ DOMAIN FD'[v] = Fields
      BY <3>1, <3>2 DEF ShapeInv
    <3> QED
      BY <2>1, <2>10, <3>2, <3>3 DEF IoTurn, ShapeInv
  <2>11. CASE UNCHANGED vars
    BY <2>1, <2>11 DEF vars, ShapeInv
  <2>12. ASSUME NEW p \in Parts, FormatFails(p)
         PROVE  ShapeInv' /\ UnitsInv'
    BY <2>3, <2>12 DEF FormatFails
  <2>13. ASSUME NEW p \in Parts, NEW n \in Games, hdlfs_format(p, n)
         PROVE  ShapeInv' /\ UnitsInv'
    BY <2>3, <2>13 DEF hdlfs_format
  <2> QED
    BY <2>4, <2>5, <2>6, <2>7, <2>8, <2>9, <2>10, <2>11, <2>12, <2>13 DEF Next
<1>3. Inv => DescriptorsAccounted
  BY DEF UnitsInv
<1> QED
  BY <1>1, <1>2, <1>3, PTL DEF Spec

(* What a partition takes of the game: no more than is left of it, and no    *)
(* more than fits behind the reserved sectors.                               *)
LEMMA SliceFits ==
    ASSUME NEW p \in Parts, NEW i \in 1 .. Len(Extents[p]), NEW r \in Nat
    PROVE  /\ SectorsInPart(p, i - 1, r) \in 0 .. r
           /\ Reserved(i - 1) + 4 * SectorsInPart(p, i - 1, r) <= Extents[p][i]
<1>1. Extents[p][i] \in Nat /\ Reserved(i - 1) \in Nat /\ Extents[p][i] >= Reserved(i - 1)
  <2>1. Extents[p] \in Seq(Nat) /\ Len(Extents[p]) \in Nat
    BY HdlfsAssumption
  <2>2. Extents[p][i] >= IF i = 1 THEN ReservedMain ELSE ReservedSub
    BY HdlfsAssumption
  <2>3. Extents[p][i] \in Nat
    BY <2>1, ElementOfSeq
  <2> QED
    BY <2>1, <2>2, <2>3, HdlfsAssumption DEF Reserved
<1>2. (i - 1) + 1 = i
  BY <1>1
<1> DEFINE e == Extents[p][i]
           q == Reserved(i - 1)
           room == (e - q) \div 4
<1>3. room \in Nat /\ q + 4 * room <= e
  <2> HIDE DEF e, q
  <2> QED
    BY <1>1 DEF e, q
<1>4. SectorsInPart(p, i - 1, r) = IF room > r THEN r ELSE room
  BY <1>2 DEF SectorsInPart
<1> HIDE DEF room, e, q
<1> QED
  BY <1>1, <1>3, <1>4 DEF e, q

(* What the loop of format computes: where each slice starts.                *)
LEMMA SectorNumbers ==
    ASSUME NEW p \in Parts, NEW n \in Nat
    PROVE  /\ SectorNumber(p, n) \in [0 .. Len(Extents[p]) -> 0 .. n]
           /\ SectorNumber(p, n)[0] = 0
           /\ \A i \in 1 .. Len(Extents[p]) :
                 SectorNumber(p, n)[i] =
                    SectorNumber(p, n)[i - 1]
                       + SectorsInPart(p, i - 1, n - SectorNumber(p, n)[i - 1])
<1> DEFINE m == Len(Extents[p])
           V == 0 .. n
           next(i, v) == IF i \in 1 .. m THEN v + SectorsInPart(p, i - 1, n - v) ELSE v
           g == [i \in Nat |-> [v \in V |-> next(i, v)]]
           Eq(h) == h = [i \in 0 .. m |-> IF i = 0 THEN 0
                                          ELSE h[i - 1] + SectorsInPart(p, i - 1, n - h[i - 1])]
<1>1. m \in Nat /\ 0 \in V
  BY HdlfsAssumption
<1>2. \A i \in Nat, v \in V : next(i, v) \in V
  <2> SUFFICES ASSUME NEW i \in Nat, NEW v \in V, i \in 1 .. m
               PROVE  v + SectorsInPart(p, i - 1, n - v) \in V
    OBVIOUS
  <2>1. n - v \in Nat
    OBVIOUS
  <2> QED
    <3>1. SectorsInPart(p, i - 1, n - v) \in 0 .. n - v
      BY <2>1, SliceFits
    <3> QED
      BY <3>1
<1>3. g \in [Nat -> [V -> V]]
  <2> HIDE DEF V, next
  <2> QED
    BY <1>2
<1>4. PICK h \in [0 .. m -> V] : Follows(h, 0, g, m)
  <2> HIDE DEF V, g, m
  <2> QED
    BY <1>1, <1>3, Recursion
<1>5. \A i \in 1 .. m : g[i][h[i - 1]] = h[i - 1] + SectorsInPart(p, i - 1, n - h[i - 1])
  <2> SUFFICES ASSUME NEW i \in 1 .. m
               PROVE  g[i][h[i - 1]] = h[i - 1] + SectorsInPart(p, i - 1, n - h[i - 1])
    OBVIOUS
  <2>1. h[i - 1] \in V /\ i \in Nat
    BY <1>1
  <2>2. g[i][h[i - 1]] = next(i, h[i - 1])
    BY <2>1
  <2> QED
    BY <2>2
<1>6. Eq(h)
  <2>1. h[0] = 0
    BY <1>4 DEF Follows
  <2>2. \A i \in 1 .. m : h[i] = h[i - 1] + SectorsInPart(p, i - 1, n - h[i - 1])
    <3> HIDE DEF g
    <3> QED
      BY <1>4, <1>5 DEF Follows
  <2>3. \A i \in 0 .. m : h[i] = IF i = 0 THEN 0
                                 ELSE h[i - 1] + SectorsInPart(p, i - 1, n - h[i - 1])
    BY <1>1, <2>1, <2>2
  <2> HIDE DEF V
  <2> QED
    BY <2>3
<1>7. SectorNumber(p, n) = CHOOSE x : Eq(x)
  BY DEF SectorNumber
<1>8. Eq(SectorNumber(p, n))
  <2> HIDE DEF Eq
  <2> QED
    BY <1>6, <1>7
<1> DEFINE at == SectorNumber(p, n)
           T == {i \in 0 .. m : at[i] \notin V}
<1> HIDE DEF at
<1>9. /\ DOMAIN at = 0 .. m /\ at[0] = 0
      /\ \A i \in 1 .. m : at[i] = at[i - 1] + SectorsInPart(p, i - 1, n - at[i - 1])
  BY <1>1, <1>8 DEF at
<1>10. T = {}
  <2> SUFFICES ASSUME T # {}
               PROVE  FALSE
    OBVIOUS
  <2>1. T \subseteq Nat
    BY <1>1
  <2>2. PICK i \in T : \A j \in T : i <= j
    <3> HIDE DEF T
    <3> QED
      BY <2>1, LeastNumber
  <2>3. i \in 1 .. m /\ i - 1 \in 0 .. m /\ at[i - 1] \in V
    BY <1>1, <1>9, <2>2
  <2>4. at[i] = next(i, at[i - 1])
    BY <1>9, <2>3
  <2>5. at[i] \in V
    <3> HIDE DEF next, V
    <3> QED
      BY <1>1, <1>2, <2>3, <2>4
  <2> QED
    BY <2>2, <2>5
<1>11. at \in [0 .. m -> V]
  BY <1>8, <1>9, <1>10 DEF at
<1> QED
  BY <1>9, <1>11 DEF at

(* The table that format makes: slices that follow one another, each within  *)
(* its partition and behind the reserved sectors.                            *)
LEMMA LayoutOf ==
    ASSUME NEW p \in Parts, NEW n \in Nat
    PROVE  /\ Layout(p, n) \in Seq(Slices)
           /\ Len(Layout(p, n)) = Len(Extents[p])
           /\ \A k \in 1 .. Len(Extents[p]) :
                 /\ Layout(p, n)[k].part_offset = SectorNumber(p, n)[k - 1]
                 /\ Layout(p, n)[k].part_offset + Layout(p, n)[k].part_size = SectorNumber(p, n)[k]
                 /\ Layout(p, n)[k].part_size \in Nat
                 /\ Reserved(k - 1) + 4 * Layout(p, n)[k].part_size <= Extents[p][k]
<1> DEFINE m == Len(Extents[p])
           at == SectorNumber(p, n)
           e(k) == [part_offset |-> at[k - 1], part_size |-> SectorsInPart(p, k - 1, n - at[k - 1])]
<1>1. m \in Nat
  BY HdlfsAssumption
<1>2. ASSUME NEW k \in 1 .. m
      PROVE  /\ at[k - 1] \in Nat
             /\ SectorsInPart(p, k - 1, n - at[k - 1]) \in Nat
             /\ Reserved(k - 1) + 4 * SectorsInPart(p, k - 1, n - at[k - 1]) <= Extents[p][k]
             /\ at[k - 1] + SectorsInPart(p, k - 1, n - at[k - 1]) = at[k]
  <2>1. k - 1 \in 0 .. m
    BY <1>1
  <2>2. at[k - 1] \in 0 .. n
    BY <2>1, SectorNumbers
  <2>3. n - at[k - 1] \in Nat
    BY <2>2
  <2> HIDE DEF at
  <2>4. /\ SectorsInPart(p, k - 1, n - at[k - 1]) \in 0 .. n - at[k - 1]
        /\ Reserved(k - 1) + 4 * SectorsInPart(p, k - 1, n - at[k - 1]) <= Extents[p][k]
    BY <2>3, SliceFits
  <2>5. at[k - 1] + SectorsInPart(p, k - 1, n - at[k - 1]) = at[k]
    BY SectorNumbers DEF at
  <2> QED
    BY <2>2, <2>3, <2>4, <2>5
<1> HIDE DEF at
<1>3. Layout(p, n) = [k \in 1 .. m |-> e(k)]
  BY DEF Layout, at
<1>4. \A k \in 1 .. m : e(k) \in Slices
  BY <1>2 DEF Slices
<1>5. [k \in 1 .. m |-> e(k)] \in Seq(Slices) /\ Len([k \in 1 .. m |-> e(k)]) = m
  BY <1>1, <1>4, IsASeq
<1>6. \A k \in 1 .. m : Layout(p, n)[k] = e(k)
  BY <1>3
<1> QED
  BY <1>2, <1>3, <1>5, <1>6 DEF at

(* The slices a format writes follow one another without gap or overlap, and *)
(* each lies inside its partition, behind the reserved sectors.              *)
THEOREM LayoutSafe == Spec => []LayoutTiles
<1> DEFINE Inv == DOMAIN info = Parts /\ LayoutTiles
<1>1. Init => Inv
  BY DEF Init, LayoutTiles, NoInfo
<1>2. Inv /\ [Next]_vars => Inv'
  <2> SUFFICES ASSUME DOMAIN info = Parts, LayoutTiles, [Next]_vars
               PROVE  DOMAIN info' = Parts /\ LayoutTiles'
    OBVIOUS
  <2>1. ASSUME NEW p \in Parts, NEW n \in Games, hdlfs_format(p, n)
        PROVE  DOMAIN info' = Parts /\ LayoutTiles'
    <3>1. info' = [info EXCEPT ![p] = Layout(p, n)] /\ n \in Nat
      BY <2>1, HdlfsAssumption DEF hdlfs_format
    <3>2. ASSUME NEW q \in Parts, NEW k \in DOMAIN info'[q], q # p
          PROVE  /\ info'[q][k].part_offset =
                       IF k = 1 THEN 0 ELSE info'[q][k - 1].part_offset + info'[q][k - 1].part_size
                 /\ info'[q][k].part_size \in Nat
                 /\ Reserved(k - 1) + 4 * info'[q][k].part_size <= Extents[q][k]
      <4>1. info'[q] = info[q]
        BY <3>1, <3>2
      <4> QED
        BY <4>1, <3>2 DEF LayoutTiles
    <3> DEFINE l == Layout(p, n)
               at == SectorNumber(p, n)
    <3>3. Len(Extents[p]) \in Nat /\ DOMAIN l = 1 .. Len(Extents[p]) /\ at[0] = 0
      <4>1. Len(Extents[p]) \in Nat
        BY HdlfsAssumption
      <4>2. l \in Seq(Slices) /\ Len(l) = Len(Extents[p])
        BY <3>1, LayoutOf
      <4>3. at[0] = 0
        BY <3>1, SectorNumbers
      <4> HIDE DEF l
      <4> QED
        BY <4>1, <4>2, <4>3, LenProperties
    <3>4. \A k \in 1 .. Len(Extents[p]) :
             /\ l[k].part_offset = at[k - 1]
             /\ l[k].part_offset + l[k].part_size = at[k]
             /\ l[k].part_size \in Nat
             /\ Reserved(k - 1) + 4 * l[k].part_size <= Extents[p][k]
      BY <3>1, LayoutOf
    <3> HIDE DEF l, at
    <3>5. ASSUME NEW k \in DOMAIN l
          PROVE  /\ l[k].part_offset = IF k = 1 THEN 0 ELSE l[k - 1].part_offset + l[k - 1].part_size
                 /\ l[k].part_size \in Nat
                 /\ Reserved(k - 1) + 4 * l[k].part_size <= Extents[p][k]
      <4>1. k \in 1 .. Len(Extents[p]) /\ (k # 1 => k - 1 \in 1 .. Len(Extents[p])) /\ (k = 1 => k - 1 = 0)
        BY <3>3
      <4> QED
        BY <3>3, <3>4, <4>1
    <3>6. info'[p] = l /\ DOMAIN info' = Parts
      BY <3>1 DEF l
    <3> QED
      BY <3>2, <3>5, <3>6 DEF LayoutTiles
  <2>2. CASE UNCHANGED info
    BY <2>2 DEF LayoutTiles
  <2> QED
    BY <2>1, <2>2 DEF Next, vars, FormatFails, MountOpenFails, unmount, MountReadFails, hdlfs_mount,
                      hdlfs_lseek, StartIo, IoTurn
<1>3. Inv => LayoutTiles
  OBVIOUS
<1> QED
  BY <1>1, <1>2, <1>3, PTL DEF Spec

(* With every slice smaller than the size field allows, no position in the   *)
(* game overflows.                                                           *)
LEMMA LayoutIsTable ==
    ASSUME NEW p \in Parts, NEW n \in Nat,
           \A k \in DOMAIN Layout(p, n) : Layout(p, n)[k].part_size < MaxSlice
    PROVE  Layout(p, n) \in Tables
<1> DEFINE m == Len(Extents[p])
           l == Layout(p, n)
           at == SectorNumber(p, n)
           T == {i \in 0 .. m : ~(at[i] <= i * MaxSlice)}
<1>1. m \in Nat /\ m <= Table /\ Table \in Nat /\ MaxSlice \in Nat
      /\ 4 * Table * MaxSlice < Modulus /\ Modulus \in Nat
  <2>1. MaxSlice \in Nat
    BY HdlfsAssumption, Zenon
  <2>2. m \in Nat /\ m <= Table /\ Table \in Nat
    BY HdlfsAssumption
  <2>3. 4 * Table * MaxSlice < Modulus /\ Modulus \in Nat
    BY HdlfsAssumption, Zenon
  <2> QED
    BY <2>1, <2>2, <2>3
<1>2. l \in Seq(Slices) /\ Len(l) = m
  BY LayoutOf
<1>3. \A k \in 1 .. m : /\ l[k].part_offset = at[k - 1]
                        /\ l[k].part_offset + l[k].part_size = at[k]
                        /\ l[k].part_size \in Nat
  BY LayoutOf
<1>4. at[0] = 0 /\ \A i \in 0 .. m : at[i] \in Nat
  BY SectorNumbers
<1>5. \A k \in 1 .. m : l[k].part_size < MaxSlice
  <2> HIDE DEF l
  <2>1. DOMAIN l = 1 .. m
    BY <1>2, LenProperties
  <2> QED
    BY <2>1 DEF l
<1> HIDE DEF l, at, m
<1>6. T = {}
  <2> SUFFICES ASSUME T # {}
               PROVE  FALSE
    OBVIOUS
  <2>1. T \subseteq Nat
    BY <1>1
  <2>2. PICK i \in T : \A j \in T : i <= j
    <3> HIDE DEF T
    <3> QED
      BY <2>1, LeastNumber
  <2>3. i \in 0 .. m /\ ~(at[i] <= i * MaxSlice)
    BY <2>2
  <2>4. i # 0
    BY <1>1, <1>4, <2>3
  <2>5. i \in 1 .. m /\ i - 1 \in 0 .. m /\ ~(i <= i - 1)
    BY <1>1, <2>3, <2>4
  <2>6. at[i - 1] <= (i - 1) * MaxSlice
    BY <2>2, <2>5
  <2>7. at[i] <= at[i - 1] + MaxSlice
    BY <1>1, <1>3, <1>4, <1>5, <2>5
  <2>8. (i - 1) * MaxSlice + MaxSlice = i * MaxSlice
    BY <1>1, <2>5
  <2>9. at[i] \in Nat /\ at[i - 1] \in Nat /\ i * MaxSlice \in Nat /\ (i - 1) * MaxSlice \in Nat
    BY <1>1, <1>4, <2>5
  <2> QED
    BY <1>1, <2>3, <2>6, <2>7, <2>8, <2>9
<1>7. ASSUME NEW k \in 1 .. m
      PROVE  4 * at[k] < Modulus
  <2>1. k \in 0 .. m /\ k <= Table /\ k \in Nat
    BY <1>1
  <2>2. at[k] <= k * MaxSlice /\ at[k] \in Nat
    BY <1>4, <1>6, <2>1
  <2>3. k * MaxSlice <= Table * MaxSlice /\ k * MaxSlice \in Nat /\ Table * MaxSlice \in Nat
    BY <1>1, <2>1
  <2>4. 4 * Table * MaxSlice = 4 * (Table * MaxSlice)
    BY <1>1
  <2> QED
    BY <1>1, <2>2, <2>3, <2>4
<1>8. ASSUME NEW k \in 1 .. m
      PROVE  /\ l[k].part_offset = IF k = 1 THEN 0 ELSE l[k - 1].part_offset + l[k - 1].part_size
             /\ 4 * (l[k].part_offset + l[k].part_size) < Modulus
  <2>1. (k # 1 => k - 1 \in 1 .. m) /\ (k = 1 => k - 1 = 0)
    BY <1>1
  <2> QED
    BY <1>3, <1>4, <1>7, <2>1
<1>9. l \in Tables
  BY <1>2, <1>8 DEF Tables
<1> QED
  BY <1>9 DEF l

(* Numbers below 2^32 are themselves.                                        *)
LEMMA NoOverflow ==
    ASSUME NEW n \in Nat, n < Modulus
    PROVE  U32(n) = n
BY HdlfsAssumption DEF U32

(* part_specs[i], in the table or behind it.                                 *)
LEMMA SliceOf ==
    ASSUME NEW s \in Tables, NEW i \in Nat
    PROVE  /\ Slice(s, i).part_offset \in Nat /\ Slice(s, i).part_size \in Nat
           /\ 4 * (Slice(s, i).part_offset + Slice(s, i).part_size) < Modulus
           /\ i < Len(s) => Slice(s, i) = s[i + 1]
           /\ i >= Len(s) => Slice(s, i).part_offset = 0 /\ Slice(s, i).part_size = 0
           /\ i + 1 < Len(s) => Slice(s, i + 1).part_offset =
                                  Slice(s, i).part_offset + Slice(s, i).part_size
<1>1. s \in Seq(Slices) /\ Len(s) \in Nat /\ Modulus \in Nat \ {0}
  BY LenProperties, HdlfsAssumption DEF Tables
<1>2. CASE i < Len(s)
  <2>1. i + 1 \in 1 .. Len(s) /\ Slice(s, i) = s[i + 1]
    BY <1>1, <1>2 DEF Slice
  <2>2. s[i + 1] \in Slices
    BY <1>1, <2>1, ElementOfSeq
  <2>3. s[i + 1].part_offset \in Nat /\ s[i + 1].part_size \in Nat
    BY <2>2 DEF Slices
  <2>4. 4 * (s[i + 1].part_offset + s[i + 1].part_size) < Modulus
    BY <2>1 DEF Tables
  <2>5. ASSUME i + 1 < Len(s)
        PROVE  Slice(s, i + 1).part_offset = s[i + 1].part_offset + s[i + 1].part_size
    <3>1. i + 1 + 1 \in 1 .. Len(s) /\ i + 1 + 1 # 1 /\ i + 1 + 1 - 1 = i + 1
          /\ Slice(s, i + 1) = s[i + 1 + 1]
      BY <1>1, <2>5 DEF Slice
    <3> QED
      BY <3>1 DEF Tables
  <2> QED
    BY <1>1, <1>2, <2>1, <2>3, <2>4, <2>5
<1>3. CASE i >= Len(s)
  <2>1. Slice(s, i) = [part_offset |-> 0, part_size |-> 0]
    BY <1>1, <1>3 DEF Slice
  <2> QED
    BY <1>1, <1>3, <2>1
<1> QED
  BY <1>1, <1>2, <1>3

(* What is left in the current partition: there is never a negative number   *)
(* of sectors, which the unsigned difference would take for four thousand    *)
(* million.                                                                  *)
LEMMA RemainingIs ==
    ASSUME NEW d \in Descriptors, PositionOf(d)
    PROVE  /\ Remaining(d) \in Nat
           /\ Remaining(d) =
                 4 * Slice(d.part_specs, d.CurrentPartNum).part_size - d.RelativeSectorNumber
           /\ d.CurrentPartNum >= d.NumPartitions =>
                 /\ Remaining(d) = 0
                 /\ Slice(d.part_specs, d.CurrentPartNum).part_size = 0
<1> DEFINE s == d.part_specs
           c == d.CurrentPartNum
           r == d.RelativeSectorNumber
           z == Slice(s, c)
<1>1. s \in Tables /\ c \in Nat /\ r \in Nat /\ d.NumPartitions \in Nat /\ Modulus \in Nat
  BY HdlfsAssumption DEF Descriptors
<1>2. /\ z.part_offset \in Nat /\ z.part_size \in Nat
      /\ 4 * (z.part_offset + z.part_size) < Modulus
      /\ c >= Len(s) => z.part_size = 0
  <2> HIDE DEF s, c
  <2> QED
    BY <1>1, SliceOf
<1>3. c >= d.NumPartitions => z.part_size = 0 /\ r = 0
  <2>1. Len(s) \in Nat /\ (s = <<>> => Len(s) = 0)
    BY <1>1, LenProperties, EmptySeq DEF Tables
  <2>2. s # <<>> => Len(s) = d.NumPartitions
    BY DEF PositionOf, NoInfo
  <2>3. c >= d.NumPartitions => r = 0
    BY DEF PositionOf
  <2>4. c >= d.NumPartitions => c >= Len(s)
    <3> HIDE DEF s, c
    <3> QED
      BY <1>1, <2>1, <2>2
  <2> QED
    BY <1>2, <2>3, <2>4
<1>4. r <= 4 * z.part_size
  <2>1. CASE c < d.NumPartitions
    BY <2>1 DEF PositionOf
  <2>2. CASE c >= d.NumPartitions
    BY <1>3, <2>2
  <2> QED
    BY <1>1, <2>1, <2>2
<1>5. Remaining(d) = U32(z.part_size * 4 - r)
  BY DEF Remaining
<1> HIDE DEF z, r, s, c
<1>6. z.part_size * 4 - r \in Nat /\ z.part_size * 4 - r < Modulus
      /\ z.part_size * 4 - r = 4 * z.part_size - r
  BY <1>1, <1>2, <1>4
<1>7. Remaining(d) = 4 * z.part_size - r
  BY <1>5, <1>6, NoOverflow
<1> QED
  BY <1>1, <1>2, <1>3, <1>6, <1>7 DEF z, r, s, c

(* Moving on to the next partition does not move the position in the game.   *)
LEMMA NextPartKeepsPosition ==
    ASSUME NEW d \in Descriptors, PositionOf(d)
    PROVE  /\ NextPart(d) \in Descriptors /\ PositionOf(NextPart(d))
           /\ NextPart(d).offset = d.offset /\ NextPart(d).part_specs = d.part_specs
           /\ NextPart(d).MountFD = d.MountFD
<1>1. CASE Remaining(d) >= 1
  BY <1>1 DEF NextPart
<1>2. CASE ~(Remaining(d) >= 1)
  <2> DEFINE e == NextPart(d)
             s == d.part_specs
             c == d.CurrentPartNum
             r == d.RelativeSectorNumber
  <2>1. e = [d EXCEPT !.CurrentPartNum = c + 1, !.RelativeSectorNumber = 0]
    BY <1>2 DEF NextPart
  <2> HIDE DEF e
  <2>2. /\ e \in Descriptors /\ e.offset = d.offset /\ e.part_specs = s /\ e.MountFD = d.MountFD
        /\ e.CurrentPartNum = c + 1 /\ e.RelativeSectorNumber = 0
        /\ e.NumPartitions = d.NumPartitions
    <3>1. c + 1 \in Nat
      BY DEF Descriptors
    <3> HIDE DEF c
    <3> QED
      BY <2>1, <3>1 DEF Descriptors
  <2>3. /\ s \in Tables /\ c \in Nat /\ r \in Nat /\ d.NumPartitions \in Nat
        /\ d.offset \in Nat
    BY DEF Descriptors
  <2>4. r = 4 * Slice(s, c).part_size
    <3>1. Remaining(d) = 0 /\ Remaining(d) = 4 * Slice(s, c).part_size - r
      BY <1>2, RemainingIs
    <3>2. Slice(s, c).part_size \in Nat
      BY <2>3, SliceOf
    <3> QED
      BY <2>3, <3>1, <3>2
  <2>5. ASSUME c + 1 < d.NumPartitions
        PROVE  /\ d.offset = 4 * Slice(s, c + 1).part_offset
               /\ Slice(s, c + 1).part_size \in Nat
    <3>1. c < d.NumPartitions /\ c + 1 \in Nat
      BY <2>3, <2>5
    <3>2. d.offset = 4 * Slice(s, c).part_offset + r
      BY <3>1 DEF PositionOf
    <3>3. /\ Slice(s, c).part_offset \in Nat /\ Slice(s, c).part_size \in Nat
          /\ Slice(s, c + 1).part_size \in Nat
      BY <2>3, <3>1, SliceOf
    <3>4. Slice(s, c + 1).part_offset = Slice(s, c).part_offset + Slice(s, c).part_size
      <4>1. CASE s = <<>>
        <5>1. Slice(s, c) = [part_offset |-> 0, part_size |-> 0]
              /\ Slice(s, c + 1) = [part_offset |-> 0, part_size |-> 0]
          BY <2>3, <3>1, <4>1 DEF Slice
        <5> QED
          BY <5>1
      <4>2. CASE s # <<>>
        <5>1. c + 1 < Len(s)
          BY <2>5, <4>2 DEF PositionOf, NoInfo
        <5> QED
          BY <2>3, <5>1, SliceOf
      <4> QED
        BY <4>1, <4>2
    <3> QED
      BY <2>3, <2>4, <3>2, <3>3, <3>4
  <2>6. PositionOf(e)
    <3>1. /\ s # NoInfo => Len(s) = d.NumPartitions
          /\ d.offset < Modulus
      BY DEF PositionOf
    <3> HIDE DEF s, c
    <3> QED
      BY <2>2, <2>3, <2>5, <3>1 DEF PositionOf
  <2> QED
    BY <2>2, <2>6 DEF e
<1> QED
  BY <1>1, <1>2

(* A transfer of what is left, or less, moves both positions alike.          *)
LEMMA TransferKeepsPosition ==
    ASSUME NEW d \in Descriptors, PositionOf(d), NEW n \in Nat, n <= Remaining(d)
    PROVE  LET e == [d EXCEPT !.offset = U32(d.offset + n),
                              !.RelativeSectorNumber = U32(d.RelativeSectorNumber + n)]
           IN  e \in Descriptors /\ PositionOf(e) /\ e.offset = d.offset + n
<1> DEFINE s == d.part_specs
           c == d.CurrentPartNum
           r == d.RelativeSectorNumber
           z == Slice(s, c)
           e == [d EXCEPT !.offset = U32(d.offset + n), !.RelativeSectorNumber = U32(r + n)]
<1>1. /\ s \in Tables /\ c \in Nat /\ r \in Nat /\ d.NumPartitions \in Nat
      /\ d.offset \in Nat /\ Modulus \in Nat
  BY HdlfsAssumption DEF Descriptors
<1>2. /\ z.part_offset \in Nat /\ z.part_size \in Nat
      /\ 4 * (z.part_offset + z.part_size) < Modulus
  <2> HIDE DEF s, c
  <2> QED
    BY <1>1, SliceOf
<1>3. r + n <= 4 * z.part_size /\ (c >= d.NumPartitions => n = 0)
  <2>1. Remaining(d) = 4 * z.part_size - r /\ (c >= d.NumPartitions => Remaining(d) = 0)
    BY RemainingIs
  <2> HIDE DEF z, s, c, r
  <2> QED
    BY <1>1, <1>2, <2>1
<1>4. /\ s # NoInfo => Len(s) = d.NumPartitions
      /\ c < d.NumPartitions => d.offset = 4 * z.part_offset + r
      /\ c >= d.NumPartitions => r = 0
      /\ d.offset < Modulus
  BY DEF PositionOf
<1>5. d.offset + n \in Nat /\ d.offset + n < Modulus /\ r + n \in Nat /\ r + n < Modulus
  <2> HIDE DEF z, s, c, r
  <2>1. CASE c < d.NumPartitions
    <3>1. d.offset = 4 * z.part_offset + r
      BY <1>4, <2>1
    <3> QED
      BY <1>1, <1>2, <1>3, <3>1
  <2>2. CASE c >= d.NumPartitions
    BY <1>1, <1>3, <1>4, <2>2
  <2> QED
    BY <1>1, <2>1, <2>2
<1>6. U32(d.offset + n) = d.offset + n /\ U32(r + n) = r + n
  BY <1>5, NoOverflow
<1>7. /\ e \in Descriptors /\ e.offset = d.offset + n /\ e.RelativeSectorNumber = r + n
      /\ e.CurrentPartNum = c /\ e.part_specs = s /\ e.NumPartitions = d.NumPartitions
  BY <1>5, <1>6 DEF Descriptors
<1>8. PositionOf(e)
  <2> HIDE DEF e, s, c, r
  <2> QED
    BY <1>1, <1>2, <1>3, <1>4, <1>5, <1>7 DEF PositionOf
<1> QED
  BY <1>7, <1>8

(* A seek to a sector of the game makes the two positions agree.             *)
LEMMA SeekKeepsPosition ==
    ASSUME NEW d \in Descriptors, PositionOf(d), NEW off \in Nat, NEW i \in Nat,
           i < d.NumPartitions, InSlice(d.part_specs, i, off)
    PROVE  LET e == [d EXCEPT !.offset = off * 4, !.CurrentPartNum = i,
                              !.RelativeSectorNumber =
                                  U32(off * 4 - Slice(d.part_specs, i).part_offset * 4)]
           IN  e \in Descriptors /\ PositionOf(e) /\ e.offset = off * 4
<1> DEFINE s == d.part_specs
           z == Slice(s, i)
           e == [d EXCEPT !.offset = off * 4, !.CurrentPartNum = i,
                          !.RelativeSectorNumber = U32(off * 4 - z.part_offset * 4)]
<1>1. s \in Tables /\ d.NumPartitions \in Nat /\ Modulus \in Nat
  BY HdlfsAssumption DEF Descriptors
<1>2. /\ z.part_offset \in Nat /\ z.part_size \in Nat
      /\ 4 * (z.part_offset + z.part_size) < Modulus
  <2> HIDE DEF s
  <2> QED
    BY <1>1, SliceOf
<1>3. z.part_offset <= off /\ off < z.part_offset + z.part_size
  BY DEF InSlice
<1>4. /\ off * 4 - z.part_offset * 4 \in Nat /\ off * 4 - z.part_offset * 4 < Modulus
      /\ off * 4 - z.part_offset * 4 = 4 * off - 4 * z.part_offset
      /\ off * 4 \in Nat /\ off * 4 < Modulus /\ off * 4 = 4 * off
  <2> HIDE DEF z
  <2> QED
    BY <1>1, <1>2, <1>3
<1>5. U32(off * 4 - z.part_offset * 4) = 4 * off - 4 * z.part_offset
  BY <1>4, NoOverflow
<1>6. /\ e \in Descriptors /\ e.offset = off * 4
      /\ e.RelativeSectorNumber = 4 * off - 4 * z.part_offset
      /\ e.CurrentPartNum = i /\ e.part_specs = s /\ e.NumPartitions = d.NumPartitions
  <2> HIDE DEF z
  <2> QED
    BY <1>4, <1>5 DEF Descriptors
<1>7. s # NoInfo => Len(s) = d.NumPartitions
  BY DEF PositionOf
<1>8. PositionOf(e)
  <2> HIDE DEF e, s
  <2> QED
    BY <1>1, <1>2, <1>3, <1>4, <1>6, <1>7 DEF PositionOf
<1> QED
  BY <1>6, <1>8

(* The empty table of a partition no one formatted is a table.               *)
LEMMA NoInfoIsTable == NoInfo \in Tables
<1>1. NoInfo \in Seq(Slices) /\ Len(NoInfo) = 0
  BY EmptySeq DEF NoInfo
<1> QED
  BY <1>1 DEF Tables

(* A unit's descriptor changes to one that is consistent with its position.  *)
Moved(u, e, w) ==
    /\ FD' = [FD EXCEPT ![u] = e] /\ e \in Descriptors /\ PositionOf(e)
    /\ where' = [where EXCEPT ![u] = w] /\ w = e.offset

(* Each step keeps the two positions in step, when lseek is called with      *)
(* SEEK_SET; for the other values of whence it looks the argument up instead *)
(* of the position it makes of it.                                           *)
LEMMA PositionInvariant ==
    Whences \subseteq {"SEEK_SET"} => (Spec => [](TypeOK /\ PositionInv /\ RightSectors))
<1> SUFFICES ASSUME Whences \subseteq {"SEEK_SET"}
             PROVE  Spec => [](TypeOK /\ PositionInv /\ RightSectors)
  OBVIOUS
<1>1. Init => TypeOK /\ PositionInv /\ RightSectors
  <2> SUFFICES ASSUME Init
               PROVE  TypeOK /\ PositionInv /\ RightSectors
    OBVIOUS
  <2>1. Unmounted \in Descriptors /\ PositionOf(Unmounted) /\ Unmounted.offset = 0
    <3>1. Modulus \in Nat /\ Modulus > 0
      BY HdlfsAssumption
    <3>2. 0 \in Sizes /\ NoPart \in Parts \cup {NoPart}
      BY DEF Sizes
    <3>3. Unmounted \in Descriptors
      BY <3>2, NoInfoIsTable DEF Unmounted, Descriptors
    <3>4. /\ Unmounted.part_specs = NoInfo /\ Unmounted.CurrentPartNum = 0
          /\ Unmounted.NumPartitions = 0 /\ Unmounted.RelativeSectorNumber = 0
          /\ Unmounted.offset = 0
      BY DEF Unmounted
    <3> QED
      BY <3>1, <3>3, <3>4 DEF PositionOf
  <2>2. \A u \in Units : FD[u] = Unmounted /\ where[u] = 0
    BY DEF Init
  <2>3. TypeOK
    BY <2>1, NoInfoIsTable DEF Init, TypeOK, Idle
  <2>4. PositionInv
    BY <2>1, <2>2 DEF Init, PositionInv
  <2> QED
    BY <2>3, <2>4 DEF Init, RightSectors, Nothing
<1>2. TypeOK /\ PositionInv /\ RightSectors /\ [Next]_vars => (TypeOK /\ PositionInv /\ RightSectors)'
  <2> SUFFICES ASSUME TypeOK, PositionInv, RightSectors, [Next]_vars
               PROVE  TypeOK' /\ PositionInv' /\ RightSectors'
    OBVIOUS
  <2> DEFINE IoType == io' \in [unit : Units \cup {-1}, left : Nat]
                       /\ (io'.left > 0 => io'.unit \in Units)
  <2>1. ASSUME NEW u \in Units, NEW e, NEW w, Moved(u, e, w), info' = info, IoType
        PROVE  TypeOK' /\ PositionInv'
    <3>1. \A v \in Units : FD'[v] = (IF v = u THEN e ELSE FD[v])
                           /\ where'[v] = (IF v = u THEN w ELSE where[v])
      BY <2>1 DEF Moved, TypeOK
    <3>2. w \in Nat
      BY <2>1 DEF Moved, Descriptors
    <3>3. FD' \in [Units -> Descriptors] /\ where' \in [Units -> Nat]
      BY <2>1, <3>2 DEF Moved, TypeOK
    <3>4. TypeOK'
      BY <2>1, <3>3 DEF TypeOK
    <3>5. PositionInv'
      BY <2>1, <3>1 DEF Moved, PositionInv
    <3> QED
      BY <3>4, <3>5
  <2>2. moved' = Nothing => RightSectors'
    BY DEF RightSectors, Nothing
  <2>3. io' = Idle \/ io' = io => IoType
    BY DEF TypeOK, Idle
  <2>4. ASSUME NEW u \in Units, NEW e, FD' = [FD EXCEPT ![u] = e], where' = where,
               e \in Descriptors, PositionOf(e), e.offset = FD[u].offset
        PROVE  Moved(u, e, where[u])
    BY <2>4 DEF Moved, TypeOK, PositionInv
  <2>5. ASSUME NEW p \in Parts, NEW n \in Games, hdlfs_format(p, n)
        PROVE  TypeOK' /\ PositionInv' /\ RightSectors'
    <3> DEFINE l == Layout(p, n)
    <3>1. /\ info' = [info EXCEPT ![p] = l] /\ moved' = Nothing
          /\ UNCHANGED <<FD, io, where, remounted>>
          /\ \A k \in DOMAIN l : l[k].part_size < MaxSlice
      BY <2>5 DEF hdlfs_format
    <3>2. n \in Nat
      BY HdlfsAssumption
    <3>3. l \in Tables /\ Len(l) = Len(Extents[p])
      BY <3>1, <3>2, LayoutIsTable, LayoutOf
    <3> HIDE DEF l
    <3>4. TypeOK'
      BY <3>1, <3>3 DEF TypeOK
    <3>5. PositionInv'
      BY <3>1, <3>3 DEF PositionInv, TypeOK
    <3> QED
      BY <2>2, <3>1, <3>4, <3>5
  <2>6. ASSUME NEW u \in Units, NEW m \in Parts \cup {NoPart},
               FD' = [FD EXCEPT ![u].MountFD = m],
               moved' = Nothing, UNCHANGED <<info, io, where>>
        PROVE  TypeOK' /\ PositionInv' /\ RightSectors'
    <3> DEFINE d == FD[u]
               e == [d EXCEPT !.MountFD = m]
    <3>1. d \in Descriptors /\ PositionOf(d)
      BY DEF TypeOK, PositionInv
    <3>2. FD' = [FD EXCEPT ![u] = e]
      BY <2>6
    <3> HIDE DEF d
    <3>3. /\ e \in Descriptors /\ e.offset = d.offset /\ e.part_specs = d.part_specs
          /\ e.CurrentPartNum = d.CurrentPartNum /\ e.NumPartitions = d.NumPartitions
          /\ e.RelativeSectorNumber = d.RelativeSectorNumber
      BY <3>1 DEF Descriptors
    <3> HIDE DEF e
    <3>4. PositionOf(e)
      BY <3>1, <3>3 DEF PositionOf
    <3>5. Moved(u, e, where[u])
      BY <2>4, <2>6, <3>2, <3>3, <3>4 DEF d
    <3> QED
      BY <2>1, <2>2, <2>3, <2>6, <3>5
  <2>7. ASSUME NEW u \in Units, NEW p \in Parts, hdlfs_mount(u, p)
        PROVE  TypeOK' /\ PositionInv' /\ RightSectors'
    <3> DEFINE e == [MountFD |-> p, NumPartitions |-> Len(Extents[p]),
                     CurrentPartNum |-> 0, RelativeSectorNumber |-> 0, offset |-> 0,
                     size |-> FoldLeft(+, 0, Extents[p]), part_specs |-> info[p]]
    <3>1. /\ FD' = [FD EXCEPT ![u] = e] /\ where' = [where EXCEPT ![u] = 0]
          /\ moved' = Nothing /\ UNCHANGED <<info, io>>
      BY <2>7 DEF hdlfs_mount
    <3>2. info[p] \in Tables /\ (info[p] # NoInfo => Len(info[p]) = Len(Extents[p]))
      BY DEF TypeOK, PositionInv
    <3>3. Len(Extents[p]) \in Nat \ {0} /\ Modulus \in Nat \ {0}
      BY HdlfsAssumption
    <3>4. FoldLeft(+, 0, Extents[p]) \in Sizes
      BY DEF Sizes
    <3>5. e \in Descriptors
      BY <3>2, <3>3, <3>4 DEF Descriptors
    <3>6. /\ e.offset = 0 /\ e.part_specs = info[p] /\ e.CurrentPartNum = 0
          /\ e.NumPartitions = Len(Extents[p]) /\ e.RelativeSectorNumber = 0
      OBVIOUS
    <3> HIDE DEF e
    <3>7. Slice(info[p], 0).part_offset = 0 /\ Slice(info[p], 0).part_size \in Nat
      <4>1. Len(info[p]) \in Nat /\ 0 + 1 = 1
        BY <3>2, LenProperties DEF Tables
      <4>2. CASE 0 < Len(info[p])
        <5>1. Slice(info[p], 0) = info[p][1] /\ 1 \in 1 .. Len(info[p])
          BY <4>1, <4>2 DEF Slice
        <5>2. info[p][1].part_offset = 0
          BY <3>2, <5>1 DEF Tables
        <5> QED
          BY <3>2, <5>1, <5>2, SliceOf
      <4>3. CASE ~(0 < Len(info[p]))
        BY <4>3 DEF Slice
      <4> QED
        BY <4>2, <4>3
    <3>8. PositionOf(e)
      BY <3>2, <3>3, <3>6, <3>7 DEF PositionOf
    <3>9. Moved(u, e, 0)
      BY <3>1, <3>5, <3>6, <3>8 DEF Moved
    <3> QED
      BY <2>1, <2>2, <2>3, <3>1, <3>9
  <2>8. ASSUME NEW u \in Units, NEW off \in 0 .. Modulus \div 8, NEW w \in Whences,
               hdlfs_lseek(u, off, w)
        PROVE  TypeOK' /\ PositionInv' /\ RightSectors'
    <3> DEFINE d == FD[u]
               found == {i \in 0 .. d.NumPartitions - 1 : InSlice(d.part_specs, i, off)}
               i == CHOOSE k \in found : \A m \in found : k <= m
               e == [d EXCEPT !.offset = off * 4, !.CurrentPartNum = i,
                              !.RelativeSectorNumber =
                                  U32(off * 4 - Slice(d.part_specs, i).part_offset * 4)]
    <3>1. d \in Descriptors /\ PositionOf(d) /\ d.NumPartitions \in Nat /\ off \in Nat
      BY DEF TypeOK, PositionInv, Descriptors
    <3>2. NewOffset(d, off, w) = off * 4
      <4>1. w = "SEEK_SET"
        OBVIOUS
      <4> QED
        BY <4>1 DEF NewOffset
    <3>3. found # {} /\ moved' = Nothing /\ UNCHANGED <<info, io>>
      BY <2>8 DEF hdlfs_lseek
    <3>4. FD' = [FD EXCEPT ![u] = e] /\ where' = [where EXCEPT ![u] = off * 4]
      <4> DEFINE y == U32(off * 4 - Slice(d.part_specs, i).part_offset * 4)
      <4>1. FD' = [FD EXCEPT ![u].offset = NewOffset(d, off, w), ![u].CurrentPartNum = i,
                             ![u].RelativeSectorNumber =
                                  U32(NewOffset(d, off, w) - Slice(d.part_specs, i).part_offset * 4)]
            /\ where' = [where EXCEPT ![u] = NewOffset(d, off, w)]
        BY <2>8, Zenon DEF hdlfs_lseek
      <4>2. FD' = [FD EXCEPT ![u].offset = off * 4, ![u].CurrentPartNum = i,
                             ![u].RelativeSectorNumber = y]
        BY <3>2, <4>1, Zenon
      <4> HIDE DEF y, i
      <4>3. FD' = [FD EXCEPT ![u] = [d EXCEPT !.offset = off * 4, !.CurrentPartNum = i,
                                              !.RelativeSectorNumber = y]]
        BY <4>2 DEF TypeOK
      <4> QED
        BY <3>2, <4>1, <4>3, Zenon DEF y
    <3> HIDE DEF d
    <3>5. i \in found
      <4>1. found \subseteq Nat
        BY <3>1
      <4> HIDE DEF found
      <4> QED
        BY <3>3, <4>1, LeastNumber
    <3> HIDE DEF i
    <3>6. i \in Nat /\ i < d.NumPartitions /\ InSlice(d.part_specs, i, off)
      BY <3>1, <3>5
    <3>7. e \in Descriptors /\ PositionOf(e) /\ e.offset = off * 4
      BY <3>1, <3>6, SeekKeepsPosition
    <3> HIDE DEF e
    <3>8. Moved(u, e, off * 4)
      BY <3>4, <3>7 DEF Moved
    <3> QED
      BY <2>1, <2>2, <2>3, <3>3, <3>8
  <2>9. ASSUME NEW u \in Units, NEW n \in 1 .. MaxIo, StartIo(u, n)
        PROVE  TypeOK' /\ PositionInv' /\ RightSectors'
    <3>1. n \in Nat
      OBVIOUS
    <3>2. /\ io' = [unit |-> u, left |-> n] /\ moved' = Nothing
          /\ UNCHANGED <<info, FD, where>>
      BY <2>9 DEF StartIo
    <3>3. TypeOK' /\ PositionInv'
      BY <3>1, <3>2 DEF TypeOK, PositionInv
    <3> QED
      BY <2>2, <3>2, <3>3
  <2>10. CASE IoTurn
    <3> DEFINE u == io.unit
               d == NextPart(FD[u])
               n == IF io.left > Remaining(d) THEN Remaining(d) ELSE io.left
               c == d.CurrentPartNum
               r == d.RelativeSectorNumber
               e == [d EXCEPT !.offset = U32(d.offset + n), !.RelativeSectorNumber = U32(r + n)]
    <3>1. u \in Units /\ io.left \in Nat /\ io.left > 0 /\ info' = info
      BY <2>10 DEF IoTurn, TypeOK
    <3>2. FD[u] \in Descriptors /\ PositionOf(FD[u]) /\ where[u] = FD[u].offset
      BY <3>1 DEF TypeOK, PositionInv
    <3>3. /\ d \in Descriptors /\ PositionOf(d) /\ d.offset = FD[u].offset
          /\ d.part_specs = FD[u].part_specs /\ d.MountFD = FD[u].MountFD
      BY <3>2, NextPartKeepsPosition
    <3>4. CASE /\ FD' = [FD EXCEPT ![u] = d] /\ io' = Idle /\ moved' = Nothing
               /\ UNCHANGED where
      <4> HIDE DEF d, u
      <4>1. Moved(u, d, where[u])
        BY <2>4, <3>1, <3>3, <3>4
      <4> QED
        BY <2>1, <2>2, <2>3, <3>1, <3>4, <4>1
    <3>5. CASE /\ FD' = [FD EXCEPT ![u] = e]
               /\ io' = (IF io.left = n THEN Idle ELSE [io EXCEPT !.left = io.left - n])
               /\ where' = [where EXCEPT ![u] = where[u] + n]
               /\ moved' = [unit |-> u, game |-> where[u], sub |-> c,
                            sector |-> Reserved(c) + r, count |-> n]
      <4> HIDE DEF d, u
      <4>1. n \in Nat /\ n <= Remaining(d) /\ n <= io.left
        <5>1. Remaining(d) \in Nat
          BY <3>3, RemainingIs
        <5> QED
          BY <3>1, <5>1
      <4> HIDE DEF n
      <4>2. e \in Descriptors /\ PositionOf(e) /\ e.offset = d.offset + n
        BY <3>3, <4>1, TransferKeepsPosition
      <4>3. e.part_specs = d.part_specs /\ e.MountFD = d.MountFD
        BY <3>3 DEF Descriptors
      <4> HIDE DEF e
      <4>4. Moved(u, e, where[u] + n)
        BY <3>2, <3>3, <3>5, <4>2 DEF Moved
      <4>5. IoType
        BY <2>3, <3>1, <3>5, <4>1 DEF TypeOK, u
      <4>6. TypeOK' /\ PositionInv'
        BY <2>1, <3>1, <4>4, <4>5
      <4>7. RightSectors'
        <5> DEFINE s == d.part_specs
                   z == Slice(s, c)
        <5> HIDE DEF c, r
        <5>0. /\ moved'.unit = u /\ moved'.game = where[u] /\ moved'.sub = c
              /\ moved'.sector = Reserved(c) + r /\ moved'.count = n
          BY <3>5
        <5>1. FD'[u] = e
          BY <3>1, <3>5 DEF TypeOK
        <5> SUFFICES ASSUME n > 0, info'[FD'[u].MountFD] = s
                     PROVE  /\ Reserved(c) + r = Reserved(c) + where[u] - 4 * s[c + 1].part_offset
                            /\ where[u] >= 4 * s[c + 1].part_offset
                            /\ where[u] + n <= 4 * (s[c + 1].part_offset + s[c + 1].part_size)
          <6>1. FD'[u].part_specs = s
            BY <4>3, <5>1
          <6> HIDE DEF s
          <6> QED
            BY <5>0, <6>1 DEF RightSectors, Loaded
        <5> USE DEF c, r
        <5>3. /\ s \in Tables /\ c \in Nat /\ r \in Nat /\ d.NumPartitions \in Nat
              /\ d.offset \in Nat /\ Len(s) \in Nat
          BY <3>3, LenProperties DEF Descriptors, Tables
        <5>4. z.part_offset \in Nat /\ z.part_size \in Nat /\ Remaining(d) \in Nat
              /\ Remaining(d) = 4 * z.part_size - r
          BY <3>3, <5>3, SliceOf, RemainingIs
        <5>5. c < d.NumPartitions /\ c < Len(s)
          <6>1. Remaining(d) # 0 /\ z.part_size # 0
            BY <4>1, <5>3, <5>4
          <6>2. ~(c >= d.NumPartitions)
            BY <3>3, <6>1, RemainingIs
          <6>3. ~(c >= Len(s))
            BY <5>3, <6>1, SliceOf
          <6> QED
            BY <5>3, <6>2, <6>3
        <5>6. z = s[c + 1]
          BY <5>3, <5>5, SliceOf
        <5>7. d.offset = 4 * z.part_offset + r
          BY <3>3, <5>5 DEF PositionOf
        <5>8. Reserved(c) \in Nat
          BY HdlfsAssumption, Zenon DEF Reserved
        <5>9. where[u] = d.offset
          BY <3>2, <3>3
        <5>10. n \in Nat /\ n <= 4 * z.part_size - r
          BY <4>1, <5>4
        <5> HIDE DEF z, s, c, r
        <5>11. s[c + 1].part_offset = z.part_offset /\ s[c + 1].part_size = z.part_size
          BY <5>6
        <5>12. where[u] = 4 * z.part_offset + r
          BY <5>7, <5>9
        <5>13. /\ Reserved(c) + r = Reserved(c) + (4 * z.part_offset + r) - 4 * z.part_offset
               /\ 4 * z.part_offset + r >= 4 * z.part_offset
               /\ (4 * z.part_offset + r) + n <= 4 * (z.part_offset + z.part_size)
          <6>1. Reserved(c) \in Nat /\ r \in Nat /\ z.part_offset \in Nat
                /\ z.part_size \in Nat /\ n \in Nat
            BY <5>3, <5>4, <5>8, <5>10
          <6> QED
            BY <5>10, <6>1
        <5> QED
          BY <5>11, <5>12, <5>13
      <4> QED
        BY <4>6, <4>7
    <3> QED
      BY <2>10, <3>4, <3>5 DEF IoTurn
  <2>11. ASSUME NEW u \in Units, MountOpenFails(u) \/ unmount(u)
        PROVE  TypeOK' /\ PositionInv' /\ RightSectors'
    BY <2>6, <2>11 DEF MountOpenFails, unmount
  <2>12. ASSUME NEW u \in Units, NEW p \in Parts, MountReadFails(u, p)
        PROVE  TypeOK' /\ PositionInv' /\ RightSectors'
    BY <2>6, <2>12 DEF MountReadFails
  <2>13. CASE UNCHANGED vars
    BY <2>13 DEF vars, TypeOK, PositionInv, RightSectors, Loaded
  <2>14. ASSUME NEW p \in Parts, FormatFails(p)
         PROVE  TypeOK' /\ PositionInv' /\ RightSectors'
    <3>1. moved' = Nothing /\ UNCHANGED <<info, FD, io, where>>
      BY <2>14 DEF FormatFails
    <3>2. TypeOK' /\ PositionInv'
      BY <3>1 DEF TypeOK, PositionInv
    <3> QED
      BY <2>2, <3>1, <3>2
  <2> QED
    BY <2>5, <2>7, <2>8, <2>9, <2>10, <2>11, <2>13, <2>12, <2>14 DEF Next
<1> QED
  BY <1>1, <1>2, PTL DEF Spec

(* With SEEK_SET, the two ways the position is kept agree: the offset in the *)
(* game is the start of the current slice plus the sector within it, for any *)
(* table and any sequence of seeks, transfers, mounts and failures.          *)
THEOREM PositionSafe == Whences \subseteq {"SEEK_SET"} => (Spec => []PositionConsistent)
<1>1. PositionInv => PositionConsistent
  BY DEF PositionInv, PositionOf, PositionConsistent
<1> QED
  BY <1>1, PositionInvariant, PTL

(* With SEEK_SET, every sector transferred for a position of the game lies   *)
(* where the table on the disk puts that position.                           *)
THEOREM SectorsSafe == Whences \subseteq {"SEEK_SET"} => (Spec => []RightSectors)
BY PositionInvariant, PTL
=============================================================================
