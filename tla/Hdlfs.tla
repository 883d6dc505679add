-------------------------------- MODULE Hdlfs --------------------------------
(***************************************************************************)
(* The HDLoader filesystem driver (src/subprojects/hdlfs/main.c): a game   *)
(* is laid out over a main partition and its sub-partitions by format,     *)
(* mounted on one of the units, and read or written through a position     *)
(* that lseek and the transfers move from partition to partition.          *)
(*                                                                         *)
(* A game is counted in disc sectors of 2048 bytes, the disk in sectors of *)
(* 512.  Operations on a unit hold its semaphore, so that they are one at  *)
(* a time; a transfer takes one step for each partition it touches.        *)
(***************************************************************************)
EXTENDS Integers, Sequences, FiniteSets, SequencesExt

CONSTANTS
    Parts,          \* HDL partitions of the disk
    NoPart,
    Extents,        \* APA: lengths, in disk sectors, of each one's parts
    Units,          \* MAX_AVAILABLE_FDs units
    Games,          \* sizes, in disc sectors, of the games to format for
    ReservedMain,   \* disk sectors reserved in the main partition (0x2000)
    ReservedSub,    \* ... and in a sub-partition (4)
    MaxSlice,       \* disc sectors a slice may not reach (0x200000)
    Table,          \* entries of part_specs (65)
    Modulus,        \* 2^32, the range of an unsigned int
    MaxIo,          \* disk sectors of the longest transfer asked for
    Whences         \* the values of whence that lseek is called with

ASSUME HdlfsAssumption ==
    /\ NoPart \notin Parts
    /\ DOMAIN Extents = Parts
    /\ \A p \in Parts :
          /\ Extents[p] \in Seq(Nat) /\ Len(Extents[p]) \in 1 .. Table
          /\ \A k \in 1 .. Len(Extents[p]) :      \* at least 128 MB in fact
                Extents[p][k] >= IF k = 1 THEN ReservedMain ELSE ReservedSub
    /\ Games \subseteq Nat /\ Table \in Nat
    /\ 4 * Table * MaxSlice < Modulus
    /\ Whences \subseteq {"SEEK_SET", "SEEK_CUR", "SEEK_END"}
    /\ \A n \in {ReservedMain, ReservedSub, MaxSlice, MaxIo} : n \in Nat
    /\ Modulus \in Nat \ {0}

VARIABLES
    info,           \* the game header on each partition: its part_specs
    apaOpen,        \* APA: partitions with an open descriptor
    FD,             \* FD_List
    io,             \* the transfer under way: its unit and sectors left
    where,          \* history: the position the callers have been told
    moved,          \* history: the sectors the last step transferred
    remounted,      \* history: a unit was mounted twice
    lost            \* history: partitions whose descriptor a failed close kept

vars == <<info, apaOpen, FD, io, where, moved, remounted, lost>>

NoInfo == <<>>
Idle == [unit |-> -1, left |-> 0]
Nothing == [unit |-> -1, game |-> 0, sub |-> 0, sector |-> 0, count |-> 0]
Unmounted == [MountFD |-> NoPart, NumPartitions |-> 0, CurrentPartNum |-> 0,
              RelativeSectorNumber |-> 0, offset |-> 0, size |-> 0,
              part_specs |-> NoInfo]

U32(n) == n % Modulus
Reserved(i) == IF i = 0 THEN ReservedMain ELSE ReservedSub

(* part_specs[i]; what lies behind the last partition is zero.              *)
Slice(s, i) == IF i < Len(s) THEN s[i + 1] ELSE [part_offset |-> 0, part_size |-> 0]
-------------------------------------------------------------------------------
(* format: every partition takes what fits behind its reserved sectors.     *)

(* Fault: the reserved sectors are not taken off.                           *)
SectorsInPart_unreserved(p, i, remaining) ==
    LET room == Extents[p][i + 1] \div 4
    IN  IF room > remaining THEN remaining ELSE room

SectorsInPart(p, i, remaining) ==
    LET room == (Extents[p][i + 1] - Reserved(i)) \div 4
    IN  IF room > remaining THEN remaining ELSE room

(* SectorNumber before each turn of the loop, and after the last one: where *)
(* in the game the slice of a partition starts.                             *)
SectorNumber(p, n) ==
    LET at[i \in 0 .. Len(Extents[p])] ==
            IF i = 0 THEN 0 ELSE at[i - 1] + SectorsInPart(p, i - 1, n - at[i - 1])
    IN  at

Layout(p, n) ==
    LET at == SectorNumber(p, n)
    IN  [k \in 1 .. Len(Extents[p]) |->
            [part_offset |-> at[k - 1],
             part_size |-> SectorsInPart(p, k - 1, n - at[k - 1])]]

(* The result of a close is not looked at: when it fails, the descriptor    *)
(* stays open and no one knows it any more.                                 *)
CloseFormatted(p) ==
    \/ UNCHANGED <<apaOpen, lost>>
    \/ apaOpen' = apaOpen \cup {p} /\ lost' = lost \cup {p}

(* The partition is too small for the game, a slice is too big for the size *)
(* field, an ioctl2 failed, or the header cannot be written: nothing is.    *)
FormatFails(p) ==
    /\ io = Idle /\ p \notin apaOpen
    /\ CloseFormatted(p)
    /\ moved' = Nothing
    /\ UNCHANGED <<info, FD, io, where, remounted>>

hdlfs_format(p, n) ==
    /\ io = Idle /\ p \notin apaOpen
    /\ LET l == Layout(p, n) IN
       /\ \A k \in DOMAIN l : l[k].part_size < MaxSlice
       /\ SectorNumber(p, n)[Len(l)] >= n
       /\ info' = [info EXCEPT ![p] = l]
    /\ CloseFormatted(p)
    /\ moved' = Nothing
    /\ UNCHANGED <<FD, io, where, remounted>>
-------------------------------------------------------------------------------
(* mount: the unit's descriptor is overwritten with whatever open returns,  *)
(* whether or not the unit was in use.                                      *)

Mounts(u) ==
    remounted' = (remounted \/ FD[u].MountFD # NoPart)

MountOpenFails(u) ==
    /\ io = Idle
    /\ FD' = [FD EXCEPT ![u].MountFD = NoPart]
    /\ Mounts(u)
    /\ moved' = Nothing
    /\ UNCHANGED <<info, apaOpen, io, where, lost>>

(* The header cannot be read: the descriptor stays, the rest is as it was.  *)
MountReadFails(u, p) ==
    /\ io = Idle /\ p \notin apaOpen
    /\ FD' = [FD EXCEPT ![u].MountFD = p]
    /\ apaOpen' = apaOpen \cup {p}
    /\ Mounts(u)
    /\ moved' = Nothing
    /\ UNCHANGED <<info, io, where, lost>>

(* The table is taken as it is read; that of a partition no one formatted   *)
(* is all zero.                                                             *)

(* Fault: the position of the previous game is kept.                        *)
hdlfs_mount_keeps_position(u, p) ==
    /\ io = Idle /\ p \notin apaOpen
    /\ FD' = [FD EXCEPT ![u].MountFD = p, ![u].part_specs = info[p],
                        ![u].NumPartitions = Len(Extents[p])]
    /\ apaOpen' = apaOpen \cup {p}
    /\ where' = [where EXCEPT ![u] = 0]
    /\ Mounts(u)
    /\ moved' = Nothing
    /\ UNCHANGED <<info, io, lost>>

hdlfs_mount(u, p) ==
    /\ io = Idle /\ p \notin apaOpen
    /\ FD' = [FD EXCEPT ![u] =
                 [MountFD |-> p, NumPartitions |-> Len(Extents[p]),
                  CurrentPartNum |-> 0, RelativeSectorNumber |-> 0, offset |-> 0,
                  size |-> FoldLeft(+, 0, Extents[p]), part_specs |-> info[p]]]
    /\ apaOpen' = apaOpen \cup {p}
    /\ where' = [where EXCEPT ![u] = 0]
    /\ Mounts(u)
    /\ moved' = Nothing
    /\ UNCHANGED <<info, io, lost>>

(* Fault: the descriptor is forgotten, not closed.                          *)
unmount_left_open(u) ==
    /\ io = Idle /\ FD[u].MountFD # NoPart
    /\ FD' = [FD EXCEPT ![u].MountFD = NoPart]
    /\ moved' = Nothing
    /\ UNCHANGED <<info, apaOpen, io, where, remounted, lost>>

(* The unit is free whether or not its descriptor could be closed.          *)
unmount(u) ==
    /\ io = Idle /\ FD[u].MountFD # NoPart
    /\ \/ apaOpen' = apaOpen \ {FD[u].MountFD} /\ UNCHANGED lost
       \/ lost' = lost \cup {FD[u].MountFD} /\ UNCHANGED apaOpen
    /\ FD' = [FD EXCEPT ![u].MountFD = NoPart]
    /\ moved' = Nothing
    /\ UNCHANGED <<info, io, where, remounted>>
-------------------------------------------------------------------------------
(* lseek: the first partition that contains the ARGUMENT, whatever whence   *)
(* is; -EINVAL, and nothing changed, when there is none.                    *)

InSlice(s, i, off) ==
    /\ Slice(s, i).part_offset <= off
    /\ off < Slice(s, i).part_offset + Slice(s, i).part_size

NewOffset(d, off, whence) ==
    CASE whence = "SEEK_SET" -> off * 4
      [] whence = "SEEK_CUR" -> U32(d.offset + off * 4)
      [] whence = "SEEK_END" -> U32(d.size - off * 4)

hdlfs_lseek(u, off, whence) ==
    LET d == FD[u]
        found == {i \in 0 .. d.NumPartitions - 1 : InSlice(d.part_specs, i, off)}
        i == CHOOSE k \in found : \A m \in found : k <= m
        offset == NewOffset(d, off, whence)
    IN  /\ io = Idle /\ d.MountFD # NoPart /\ found # {}
        /\ FD' = [FD EXCEPT ![u].offset = offset,
                            ![u].CurrentPartNum = i,
                            ![u].RelativeSectorNumber =
                                 U32(offset - Slice(d.part_specs, i).part_offset * 4)]
        /\ where' = [where EXCEPT ![u] = offset]
        /\ moved' = Nothing
        /\ UNCHANGED <<info, apaOpen, io, remounted, lost>>
-------------------------------------------------------------------------------
(* read and write: hdlfs_io_internal.                                       *)

StartIo(u, n) ==
    /\ io = Idle /\ FD[u].MountFD # NoPart
    /\ io' = [unit |-> u, left |-> n]
    /\ moved' = Nothing
    /\ UNCHANGED <<info, apaOpen, FD, where, remounted, lost>>

Remaining(d) ==
    U32(Slice(d.part_specs, d.CurrentPartNum).part_size * 4 - d.RelativeSectorNumber)

(* Fault: the position in the new partition is that in the old one.         *)
NextPart_keeps_sector(d) ==
    IF Remaining(d) >= 1 THEN d
    ELSE [d EXCEPT !.CurrentPartNum = d.CurrentPartNum + 1]

(* The partition to go on in: the next one when this one is used up.        *)
NextPart(d) ==
    IF Remaining(d) >= 1 THEN d
    ELSE [d EXCEPT !.CurrentPartNum = d.CurrentPartNum + 1,
                   !.RelativeSectorNumber = 0]

(* APA refuses a transfer outside of the partition.                         *)
HIOCTRANSFER(p, sub, sector, count) ==
    sub < Len(Extents[p]) /\ sector + count <= Extents[p][sub + 1]

(* One turn of the loop.  A transfer that fails ends it, with the position  *)
(* where it was reached.                                                    *)
IoTurn ==
    LET u == io.unit
        d == NextPart(FD[u])
        n == IF io.left > Remaining(d) THEN Remaining(d) ELSE io.left
        sector == Reserved(d.CurrentPartNum) + d.RelativeSectorNumber
    IN  /\ io.left > 0
        /\ FD[u].CurrentPartNum <= Table       \* cap: see README
        /\ \/ /\ FD' = [FD EXCEPT ![u] = d]
              /\ io' = Idle
              /\ moved' = Nothing
              /\ UNCHANGED where
           \/ /\ HIOCTRANSFER(d.MountFD, d.CurrentPartNum, sector, n)
              /\ FD' = [FD EXCEPT ![u] =
                           [d EXCEPT !.offset = U32(d.offset + n),
                                     !.RelativeSectorNumber = U32(d.RelativeSectorNumber + n)]]
              /\ io' = IF io.left = n THEN Idle ELSE [io EXCEPT !.left = io.left - n]
              /\ where' = [where EXCEPT ![u] = where[u] + n]
              /\ moved' = [unit |-> u, game |-> where[u], sub |-> d.CurrentPartNum,
                           sector |-> sector, count |-> n]
        /\ UNCHANGED <<info, apaOpen, remounted, lost>>

Init ==
    /\ info = [p \in Parts |-> NoInfo]
    /\ apaOpen = {}
    /\ FD = [u \in Units |-> Unmounted]
    /\ io = Idle
    /\ where = [u \in Units |-> 0]
    /\ moved = Nothing
    /\ remounted = FALSE
    /\ lost = {}

Next ==
    \/ \E p \in Parts : FormatFails(p)
    \/ \E p \in Parts, n \in Games : hdlfs_format(p, n)
    \/ \E u \in Units : MountOpenFails(u) \/ unmount(u)
    \/ \E u \in Units, p \in Parts : MountReadFails(u, p) \/ hdlfs_mount(u, p)
    \/ \E u \in Units, w \in Whences :
          \E off \in 0 .. Modulus \div 8 : hdlfs_lseek(u, off, w)
    \/ \E u \in Units, n \in 1 .. MaxIo : StartIo(u, n)
    \/ IoTurn

Spec == Init /\ [][Next]_vars
-------------------------------------------------------------------------------
(* The slices a format writes follow one another without gap or overlap and *)
(* each lies inside its partition, behind the reserved sectors.             *)
LayoutTiles ==
    \A p \in Parts : \A k \in DOMAIN info[p] :
        /\ info[p][k].part_offset =
              IF k = 1 THEN 0
              ELSE info[p][k - 1].part_offset + info[p][k - 1].part_size
        /\ info[p][k].part_size \in Nat
        /\ Reserved(k - 1) + 4 * info[p][k].part_size <= Extents[p][k]

(* The unit's table is the one of the partition it has open: no header read *)
(* failed since.                                                            *)
Loaded(u) == FD[u].MountFD # NoPart /\ FD[u].part_specs = info[FD[u].MountFD]

(* The two ways the position is kept agree: the offset in the game is the   *)
(* start of the current partition's slice plus the sector within it, and    *)
(* the sector does not leave the slice (hdlfs main.c:39).                *)
PositionConsistent ==
    \A u \in Units : Loaded(u) /\ FD[u].CurrentPartNum < FD[u].NumPartitions =>
        LET s == Slice(FD[u].part_specs, FD[u].CurrentPartNum) IN
        /\ FD[u].offset = 4 * s.part_offset + FD[u].RelativeSectorNumber
        /\ FD[u].RelativeSectorNumber <= 4 * s.part_size

(* What is read or written is what was asked for: every sector transferred  *)
(* for a position of the game lies where the table on the disk puts that    *)
(* position, also when a transfer crosses from one partition to the next.   *)
RightSectors ==
    moved.count > 0 /\ Loaded(moved.unit) =>
        LET s == info[FD[moved.unit].MountFD][moved.sub + 1] IN
        /\ moved.sector = Reserved(moved.sub) + moved.game - 4 * s.part_offset
        /\ moved.game >= 4 * s.part_offset
        /\ moved.game + moved.count <= 4 * (s.part_offset + s.part_size)

(* As long as no unit is mounted twice, every descriptor the driver holds   *)
(* on a partition is one of a unit, those of failed mounts included, or one *)
(* whose close failed; and no unit believes in one that is closed.          *)
DescriptorsAccounted ==
    ~remounted => apaOpen = ({FD[u].MountFD : u \in Units} \ {NoPart}) \cup lost
===============================================================================
