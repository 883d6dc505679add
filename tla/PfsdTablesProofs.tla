-------------------------- MODULE PfsdTablesProofs --------------------------
(***************************************************************************)
(* Proofs about PfsdTables, for any number of clients, partitions,         *)
(* descriptors and any table sizes.                                        *)
(***************************************************************************)
EXTENDS PfsdTables, WellFoundedInduction, TLAPS

(* A loop over the mount list finds the least index, or ends at the size of  *)
(* the table.                                                                *)
LEMMA FirstFinds ==
    ASSUME NEW S, S \subseteq Slots
    PROVE  /\ S = {} => First(S) = NMount
           /\ S # {} => First(S) \in S /\ First(S) < NMount
           /\ \A j \in S : First(S) <= j
<1>1. CASE S = {}
  BY <1>1 DEF First
<1>2. CASE S # {}
  <2>1. S \subseteq Nat /\ \A i \in S : i < NMount
    BY TablesAssumption DEF Slots
  <2>2. PICK x \in S : \A y \in S : ~(<<y, x>> \in OpToRel(<, Nat))
    BY <1>2, <2>1, WFMin, NatLessThanWellFounded
  <2>3. ASSUME NEW y \in S
        PROVE  x <= y
    <3>1. y < x => <<y, x>> \in OpToRel(<, Nat)
      BY <2>1, Zenon DEF OpToRel
    <3>2. ~(y < x)
      BY <2>2, <3>1, Zenon
    <3>3. x \in Nat /\ y \in Nat
      BY <2>1
    <3> QED
      BY <3>2, <3>3
  <2>4. First(S) \in S /\ \A j \in S : First(S) <= j
    BY <1>2, <2>3 DEF First
  <2> QED
    BY <1>2, <2>1, <2>4
<1> QED
  BY <1>1, <1>2

(* What is left of a table after an entry is taken out.                      *)
LEMMA ShiftDownType ==
    ASSUME NEW T, NEW s \in Seq(T), NEW k
    PROVE  /\ ShiftDown(s, k) \in Seq(T)
           /\ s # <<>> => Len(ShiftDown(s, k)) = Len(s) - 1
           /\ \A j \in 1 .. Len(s) - 1 :
                 ShiftDown(s, k)[j] = IF j < k THEN s[j] ELSE s[j + 1]
<1>1. Len(s) \in Nat /\ \A j \in 1 .. Len(s) : s[j] \in T
  OBVIOUS
<1>2. CASE s = <<>>
  <2>1. Len(s) - 1 = -1 /\ 1 .. -1 = {}
    BY <1>2
  <2>2. ShiftDown(s, k) = <<>>
    BY <2>1 DEF ShiftDown
  <2> QED
    BY <1>2, <2>1, <2>2
<1>3. CASE s # <<>>
  <2>1. Len(s) - 1 \in Nat
    BY <1>1, <1>3
  <2>2. \A j \in 1 .. Len(s) - 1 : j \in 1 .. Len(s) /\ j + 1 \in 1 .. Len(s)
    BY <1>1
  <2>3. \A j \in 1 .. Len(s) - 1 : (IF j < k THEN s[j] ELSE s[j + 1]) \in T
    BY <1>1, <2>2
  <2>4. ShiftDown(s, k) \in [1 .. Len(s) - 1 -> T]
    BY <2>3 DEF ShiftDown
  <2> QED
    BY <2>1, <2>4 DEF ShiftDown
<1> QED
  BY <1>2, <1>3

Mounts == [pid : Pids \cup {NoPid}, fs : Units, cont : Units, dev : Devs \cup {NoDev}]
Entries == [fd : Fds, pid : Pids, slot : Slots \cup {NMount}]

(* The lookups return indices of the tables and names of units.              *)
LEMMA LookupTypes ==
    ASSUME TypeOK
    PROVE  /\ find_free_mount_info \in Slots \cup {NMount}
           /\ \A p, n : /\ OwnSlots(p, n) \subseteq Slots
                        /\ First(OwnSlots(p, n)) \in Slots \cup {NMount}
                        /\ OwnSlots(p, n) # {} => First(OwnSlots(p, n)) \in OwnSlots(p, n)
           /\ \A p : \A n \in Names : rpc_remap_name(n, p) \in Names \cup {Nowhere}
<1>1. find_free_mount_info \in Slots \cup {NMount}
  <2> DEFINE S == {i \in Slots : mountlist[i].pid = NoPid}
  <2>1. S \subseteq Slots
    OBVIOUS
  <2> HIDE DEF S
  <2>2. First(S) \in Slots \cup {NMount}
    BY <2>1, FirstFinds
  <2> QED
    BY <2>2 DEF find_free_mount_info, S
<1>2. ASSUME NEW p, NEW n
      PROVE  /\ OwnSlots(p, n) \subseteq Slots
             /\ First(OwnSlots(p, n)) \in Slots \cup {NMount}
             /\ OwnSlots(p, n) # {} => First(OwnSlots(p, n)) \in OwnSlots(p, n)
  <2>1. OwnSlots(p, n) \subseteq Slots
    BY DEF OwnSlots
  <2> QED
    BY <2>1, FirstFinds
<1>3. ASSUME NEW p, NEW n \in Names
      PROVE  rpc_remap_name(n, p) \in Names \cup {Nowhere}
  <2>1. OwnSlots(p, n) # {} => mountlist[First(OwnSlots(p, n))].cont \in Units
    BY <1>2 DEF TypeOK
  <2> QED
    BY <2>1 DEF rpc_remap_name, Names
<1> QED
  BY <1>1, <1>2, <1>3

(* A slot that is filled is a free one.                                      *)
LEMMA FillSlotType ==
    ASSUME TypeOK, NEW p \in Pids, NEW fs \in Units, NEW u \in Units, NEW d \in Devs,
           FillSlot(p, fs, u, d)
    PROVE  mountlist' \in [Slots -> Mounts]
BY DEF FillSlot, TypeOK, Mounts

(* OpenFile, CloseFile and Unmount, which several handlers share, keep the   *)
(* tables and the driver's state in their types.                             *)
LEMMA OpenFileType ==
    ASSUME TypeOK, NEW p \in Pids, NEW n \in Names, OpenFile(p, n)
    PROVE  /\ openfiles' \in Seq(Entries)
           /\ drvfiles' \in [Fds -> Names \cup {Nowhere}]
           /\ reply' \in [to : Pids \cup {NoPid}, ret : {OK, EIO}]
<1>1. PICK r : /\ Write(p, r)
               /\ IF r \in Fds
                  THEN /\ rpc_common_open(r, p, n)
                       /\ drvfiles' = [drvfiles EXCEPT ![r] = rpc_remap_name(n, p)]
                  ELSE UNCHANGED <<openfiles, drvfiles>>
  BY DEF OpenFile
<1>2. reply' \in [to : Pids \cup {NoPid}, ret : {OK, EIO}]
  BY <1>1 DEF Write, Errors, OK
<1>3. openfiles \in Seq(Entries) /\ drvfiles \in [Fds -> Names \cup {Nowhere}]
  BY DEF TypeOK, Entries
<1>4. CASE r \in Fds
  <2>1. [fd |-> r, pid |-> p, slot |-> First(OwnSlots(p, n))] \in Entries
    BY <1>4, LookupTypes DEF Entries
  <2>2. openfiles' \in Seq(Entries)
    BY <1>1, <1>3, <1>4, <2>1 DEF rpc_common_open
  <2>3. rpc_remap_name(n, p) \in Names \cup {Nowhere}
    BY LookupTypes
  <2>4. drvfiles' \in [Fds -> Names \cup {Nowhere}]
    BY <1>1, <1>3, <1>4, <2>3
  <2> QED
    BY <1>2, <2>2, <2>4
<1> QED
  BY <1>1, <1>2, <1>3, <1>4

LEMMA CloseFileType ==
    ASSUME TypeOK, NEW p \in Pids, NEW fd \in Fds, CloseFile(fd, p)
    PROVE  /\ openfiles' \in Seq(Entries)
           /\ drvfiles' \in [Fds -> Names \cup {Nowhere}]
           /\ reply' \in [to : Pids \cup {NoPid}, ret : {OK, EIO}]
<1>1. openfiles \in Seq(Entries) /\ drvfiles \in [Fds -> Names \cup {Nowhere}]
  BY DEF TypeOK, Entries
<1>2. \A k : ShiftDown(openfiles, k) \in Seq(Entries)
  BY <1>1, ShiftDownType
<1>3. openfiles' \in Seq(Entries)
  BY <1>1, <1>2 DEF CloseFile, rpc_common_close
<1>4. drvfiles' \in [Fds -> Names \cup {Nowhere}]
  BY <1>1 DEF CloseFile, scepfsClose
<1>5. reply' \in [to : Pids \cup {NoPid}, ret : {OK, EIO}]
  BY DEF CloseFile, Write, Errors, OK, EIO, EBADF
<1> QED
  BY <1>3, <1>4, <1>5

LEMMA UnmountType ==
    ASSUME TypeOK, NEW p \in Pids, NEW fs \in Units, Unmount(p, fs)
    PROVE  /\ mountlist' \in [Slots -> Mounts]
           /\ mounted' \in [Units -> Devs \cup {NoDev}]
           /\ reply' \in [to : Pids \cup {NoPid}, ret : {OK, EIO}]
<1>1. mountlist \in [Slots -> Mounts] /\ mounted \in [Units -> Devs \cup {NoDev}]
  BY DEF TypeOK, Mounts
<1>2. Free \in Mounts
  BY TablesAssumption DEF Free, Mounts, Units, Slots
<1>3. mountlist' \in [Slots -> Mounts]
  BY <1>1, <1>2 DEF Unmount, umount_cleanup
<1>4. mounted' \in [Units -> Devs \cup {NoDev}]
  BY <1>1 DEF Unmount, scepfsUmount
<1>5. reply' \in [to : Pids \cup {NoPid}, ret : {OK, EIO}]
  BY DEF Unmount, Write, Errors, OK, EIO, EBUSY, ENODEV
<1> QED
  BY <1>3, <1>4, <1>5

(* Every handler, the three parts of cleanup_client and the poll loop keep   *)
(* every variable in its type, whatever the driver answers.                  *)
THEOREM TablesTypeCorrect == Spec => []TypeOK
<1>1. Init => TypeOK
  <2>1. Free \in Mounts /\ OK \in Errors /\ 0 \in Nat
    BY TablesAssumption DEF Free, Mounts, Units, Slots, Errors
  <2>2. Init => eintr \in BOOLEAN /\ debug_mode \in BOOLEAN
    BY Zenon DEF Init
  <2> QED
    BY <2>1, <2>2 DEF Init, TypeOK, Mounts
<1>2. TypeOK /\ [Next]_vars => TypeOK'
  <2> SUFFICES ASSUME TypeOK, [Next]_vars
               PROVE  TypeOK'
    OBVIOUS
  <2>a. ASSUME NEW p \in Pids, Serving(p)
        PROVE  /\ eintr' \in BOOLEAN
               /\ UNCHANGED <<conns, hup, debug_mode, pc, cur>>
    <3>1. eintr' \in {eintr, FALSE} /\ eintr \in BOOLEAN
      BY <2>a, Zenon DEF Serving, TypeOK
    <3>2. eintr' \in BOOLEAN
      BY <3>1, Zenon
    <3> QED
      BY <2>a, <3>2 DEF Serving
  <2>1. ASSUME NEW p \in Pids, NEW n \in Names,
               rpc_command_open(p, n) \/ rpc_command_dopen(p, n)
        PROVE  TypeOK'
    <3>1. Serving(p) /\ OpenFile(p, n) /\ UNCHANGED <<mountlist, mounted>>
      BY <2>1 DEF rpc_command_open, rpc_command_dopen
    <3> QED
      BY <3>1, <2>a, OpenFileType DEF TypeOK, Entries
  <2>2. ASSUME NEW p \in Pids, NEW fd \in Fds,
               rpc_command_close(p, fd) \/ rpc_command_dclose(p, fd)
        PROVE  TypeOK'
    <3>1. Serving(p) /\ CloseFile(fd, p) /\ UNCHANGED <<mountlist, mounted>>
      BY <2>2 DEF rpc_command_close, rpc_command_dclose
    <3> QED
      BY <3>1, <2>a, CloseFileType DEF TypeOK, Entries
  <2>3. ASSUME NEW p \in Pids, NEW fd \in Fds, FdRequest(p, fd)
        PROVE  TypeOK'
    <3>1. reply' \in [to : Pids \cup {NoPid}, ret : {OK, EIO}]
      BY <2>3 DEF FdRequest, Write, Errors, OK
    <3> QED
      BY <2>3, <2>a, <3>1 DEF FdRequest, driver, TypeOK
  <2>4. ASSUME NEW p \in Pids, NEW n \in Names, NameRequest(p, n)
        PROVE  TypeOK'
    <3>1. reply' \in [to : Pids \cup {NoPid}, ret : {OK, EIO}]
      BY <2>4 DEF NameRequest, Write, Errors, OK
    <3> QED
      BY <2>4, <2>a, <3>1 DEF NameRequest, driver, TypeOK
  <2>5. ASSUME NEW p \in Pids, NEW fs \in Units, rpc_command_umount(p, fs)
        PROVE  TypeOK'
    BY <2>5, <2>a, UnmountType DEF rpc_command_umount, TypeOK, Mounts
  <2>6. ASSUME NEW p \in Pids, NEW fs \in Units, NEW d \in Devs,
               rpc_command_mount(p, fs, d)
        PROVE  TypeOK'
    <3>1. /\ mountlist \in [Slots -> Mounts]
          /\ mounted \in [Units -> Devs \cup {NoDev}]
      BY DEF TypeOK, Mounts
    <3>2. \A r : Write(p, r) => reply' \in [to : Pids \cup {NoPid}, ret : {OK, EIO}]
      BY DEF Write, Errors, OK
    <3>3. ASSUME NEW u \in Units, DriverMount(p, fs, u, d)
          PROVE  /\ mountlist' \in [Slots -> Mounts]
                 /\ mounted' \in [Units -> Devs \cup {NoDev}]
                 /\ reply' \in [to : Pids \cup {NoPid}, ret : {OK, EIO}]
      BY <3>1, <3>2, <3>3, FillSlotType DEF DriverMount, scepfsMount
    <3>4. /\ mountlist' \in [Slots -> Mounts]
          /\ mounted' \in [Units -> Devs \cup {NoDev}]
          /\ reply' \in [to : Pids \cup {NoPid}, ret : {OK, EIO}]
      <4>1. CASE MountRefused(p, fs)
        BY <3>1, <3>2, <4>1 DEF MountRefused
      <4>2. CASE MountAsAsked(p, fs, d)
        BY <3>3, <4>2 DEF MountAsAsked
      <4>3. CASE MountShared(p, fs, d)
        <5>1. SlotsOf(d) \subseteq Slots /\ SlotsOf(d) # {}
          BY <4>3 DEF MountShared, SlotsOf
        <5>2. mountlist[First(SlotsOf(d))].cont \in Units
          BY <5>1, <3>1, FirstFinds DEF Mounts
        <5> QED
          BY <3>1, <3>2, <4>3, <5>2, FillSlotType DEF MountShared
      <4>4. CASE MountElsewhere(p, fs, d)
        <5> DEFINE tries == {u \in Units : ~MountBusy(u, d)}
        <5>1. tries \subseteq Slots
          BY DEF Units
        <5>2. \/ tries # {} /\ DriverMount(p, fs, First(tries), d)
              \/ Write(p, EBUSY) /\ UNCHANGED <<mountlist, mounted>>
          BY <4>4 DEF MountElsewhere
        <5> HIDE DEF tries
        <5>3. tries # {} => First(tries) \in Units
          BY <5>1, FirstFinds DEF Units
        <5> QED
          BY <3>1, <3>2, <3>3, <5>2, <5>3
      <4> QED
        BY <2>6, <4>1, <4>2, <4>3, <4>4 DEF rpc_command_mount
    <3> QED
      BY <2>6, <2>a, <3>4 DEF rpc_command_mount, TypeOK, Mounts
  <2>7. ASSUME NEW p \in Pids, add_new_client(p)
        PROVE  TypeOK'
    <3>1. eintr' \in {eintr, FALSE} /\ eintr \in BOOLEAN
      BY <2>7, Zenon DEF add_new_client, TypeOK
    <3>2. eintr' \in BOOLEAN
      BY <3>1, Zenon
    <3>3. conns' \in Seq(Pids)
      <4>1. conns \in Seq(Pids)
        BY DEF TypeOK
      <4>2. conns' = conns \/ conns' = Append(conns, p)
        BY <2>7 DEF add_new_client
      <4> QED
        BY <4>1, <4>2
    <3>4. pc' \in {pc, "undefined"}
      BY <2>7 DEF add_new_client
    <3> QED
      BY <2>7, <3>2, <3>3, <3>4 DEF add_new_client, driver, TypeOK
  <2>8. ASSUME NEW p \in Pids, HangUp(p)
        PROVE  TypeOK'
    BY <2>8 DEF HangUp, daemon, driver, TypeOK
  <2>9. ASSUME NEW p \in Pids, cleanup_client(p)
        PROVE  TypeOK'
    BY <2>9 DEF cleanup_client, driver, TypeOK
  <2>10. CASE cleanup_close
    <3>1. /\ UNCHANGED <<conns, hup, mountlist, debug_mode, mounted>>
          /\ pc' \in {pc, "unmounting"}
          /\ eintr' \in {eintr, FALSE}
      BY <2>10 DEF cleanup_close
    <3>2. eintr' \in BOOLEAN
      BY <3>1, Zenon DEF TypeOK
    <3>3. cur.pid \in Pids /\ cur.i \in Nat /\ cur.i > 0
      BY <2>10 DEF cleanup_close, TypeOK
    <3>4. \/ cur' = cur
          \/ cur' = [pid |-> cur.pid, i |-> cur.i + 1]
          \/ cur' = [pid |-> cur.pid, i |-> 0] /\ pc' = "unmounting"
      BY <2>10 DEF cleanup_close
    <3>5. cur' \in [pid : Pids \cup {NoPid}, i : Nat] /\ cur'.pid \in Pids
          /\ (pc' = "closing" => cur'.i > 0)
      BY <3>3, <3>4 DEF TypeOK
    <3>6. /\ openfiles' \in Seq(Entries)
          /\ drvfiles' \in [Fds -> Names \cup {Nowhere}]
          /\ reply' \in [to : Pids \cup {NoPid}, ret : {OK, EIO}]
      <4>1. CASE UNCHANGED <<openfiles, drvfiles, reply>>
        BY <4>1 DEF TypeOK, Entries
      <4>2. CASE cur.i <= Len(openfiles) /\ CloseFile(openfiles[cur.i].fd, cur.pid)
                 /\ openfiles[cur.i].pid = cur.pid
        <5>1. cur.i \in 1 .. Len(openfiles) /\ cur.pid \in Pids
          BY <2>10, <4>2 DEF cleanup_close, TypeOK
        <5>2. openfiles \in Seq(Entries)
          BY DEF TypeOK, Entries
        <5>3. openfiles[cur.i] \in Entries
          BY <5>1, <5>2
        <5>4. openfiles[cur.i].fd \in Fds
          BY <5>3 DEF Entries
        <5> QED
          BY <4>2, <5>1, <5>4, CloseFileType
      <4> QED
        BY <2>10, <4>1, <4>2 DEF cleanup_close
    <3> QED
      BY <3>1, <3>2, <3>5, <3>6 DEF TypeOK, Entries
  <2>11. CASE cleanup_umount
    <3>1. cur.i \in Slots /\ cur.pid \in Pids /\ mountlist[cur.i].fs \in Units
      BY <2>11, TablesAssumption DEF cleanup_umount, TypeOK, Slots
    <3>2. /\ mountlist' \in [Slots -> Mounts]
          /\ mounted' \in [Units -> Devs \cup {NoDev}]
          /\ reply' \in [to : Pids \cup {NoPid}, ret : {OK, EIO}]
      <4>1. CASE Unmount(cur.pid, mountlist[cur.i].fs)
        BY <3>1, <4>1, UnmountType
      <4>2. CASE UNCHANGED <<mountlist, mounted, reply>>
        BY <4>2 DEF TypeOK, Mounts
      <4> QED
        BY <2>11, <4>1, <4>2 DEF cleanup_umount
    <3>3. eintr' \in {eintr, FALSE}
      BY <2>11 DEF cleanup_umount
    <3>4. eintr' \in BOOLEAN
      BY <3>3, Zenon DEF TypeOK
    <3> QED
      BY <2>11, <3>2, <3>4 DEF cleanup_umount, TypeOK, Mounts
  <2>12. CASE cleanup_finish
    <3>1. conns' \in Seq(Pids)
      BY <2>12, ShiftDownType DEF cleanup_finish, TypeOK
    <3> QED
      BY <2>12, <3>1 DEF cleanup_finish, driver, TypeOK
  <2>13. CASE PollInterrupted
    <3>1. eintr' \in BOOLEAN
      BY <2>13, Zenon DEF PollInterrupted
    <3> QED
      BY <2>13, <3>1 DEF PollInterrupted, driver, TypeOK
  <2>14. CASE main
    <3>1. Free \in Mounts /\ OK \in Errors /\ 0 \in Nat
      BY TablesAssumption DEF Free, Mounts, Units, Slots, Errors
    <3>2. eintr' \in BOOLEAN /\ debug_mode' \in BOOLEAN
      BY <2>14, Zenon DEF main
    <3> QED
      BY <2>14, <3>1, <3>2 DEF main, TypeOK, Mounts
  <2>15. CASE UNCHANGED vars
    BY <2>15 DEF vars, daemon, driver, TypeOK
  <2> QED
    BY <2>1, <2>2, <2>3, <2>4, <2>5, <2>6, <2>7, <2>8, <2>9, <2>10, <2>11, <2>12,
       <2>13, <2>14, <2>15 DEF Next, Request
<1> QED
  BY <1>1, <1>2, PTL DEF Spec
-----------------------------------------------------------------------------
(* The mount list.  NamesReachTheirDevice is not inductive: that a path      *)
(* resolves through the slot that was filled for it needs the prefixes of    *)
(* one client to be distinct.                                                *)

PrefixesDistinct ==
    \A i, k \in Slots :
        /\ mountlist[i].pid # NoPid
        /\ mountlist[i].pid = mountlist[k].pid
        /\ mountlist[i].fs = mountlist[k].fs
        => i = k

SlotsBacked ==
    \A i \in Slots :
        mountlist[i].pid # NoPid =>
            mountlist[i].dev \in Devs /\ mounted[mountlist[i].cont] = mountlist[i].dev

MountInv == PrefixesDistinct /\ SlotsBacked

(* Any slot found free by find_free_mount_info is free.                      *)
LEMMA FreeSlotIsFree ==
    ASSUME TypeOK, find_free_mount_info < NMount
    PROVE  find_free_mount_info \in Slots /\ mountlist[find_free_mount_info].pid = NoPid
<1> DEFINE S == {i \in Slots : mountlist[i].pid = NoPid}
<1>1. S \subseteq Slots /\ find_free_mount_info = First(S)
  BY DEF find_free_mount_info
<1>2. \A i \in S : i \in Slots /\ mountlist[i].pid = NoPid
  OBVIOUS
<1> HIDE DEF S
<1>3. S # {}
  BY <1>1, FirstFinds, TablesAssumption
<1> QED
  BY <1>1, <1>2, <1>3, FirstFinds

(* rpc_command_umount's search for another user of the unit ends inside the  *)
(* table, so that it never gets to the driver's unmount.                     *)
LEMMA OtherUserIsFound ==
    ASSUME TypeOK, NEW i \in Slots, mountlist[i].pid # NoPid
    PROVE  ~(OtherUser(i) >= NMount)
<1> DEFINE S == {k \in Slots : ~(/\ i = k
                                 /\ \/ mountlist[k].pid = NoPid
                                    \/ mountlist[i].cont # mountlist[k].cont)}
<1>1. i \in S /\ S \subseteq Slots /\ OtherUser(i) = First(S)
  BY DEF OtherUser
<1> HIDE DEF S
<1>2. First(S) \in Slots /\ First(S) < NMount
  BY <1>1, FirstFinds
<1>3. NMount \in Nat /\ First(S) \in Int
  BY <1>2, TablesAssumption DEF Slots
<1> QED
  BY <1>1, <1>2, <1>3

(* Filling a free slot for a prefix its client does not have yet.            *)
LEMMA FillSlotKeepsMounts ==
    ASSUME TypeOK, MountInv, NEW p \in Pids, NEW fs \in Units, NEW u \in Units,
           NEW d \in Devs, MayMount(p, fs), FillSlot(p, fs, u, d),
           mounted'[u] = d,
           \A v \in Units : mounted[v] # NoDev => mounted'[v] = mounted[v]
    PROVE  MountInv'
<1> DEFINE f == find_free_mount_info
<1>1. f \in Slots /\ mountlist[f].pid = NoPid
  BY FreeSlotIsFree DEF MayMount
<1>2. mountlist \in [Slots -> Mounts]
  BY DEF TypeOK, Mounts
<1>3. mountlist' = [mountlist EXCEPT ![f] = [pid |-> p, fs |-> fs, cont |-> u, dev |-> d]]
  BY DEF FillSlot
<1> HIDE DEF f
<1>4. /\ mountlist'[f] = [pid |-> p, fs |-> fs, cont |-> u, dev |-> d]
      /\ \A i \in Slots \ {f} : mountlist'[i] = mountlist[i]
  BY <1>1, <1>2, <1>3
<1>5. \A i \in Slots : ~(mountlist[i].pid = p /\ mountlist[i].fs = fs)
  BY DEF MayMount, OwnSlots
<1>6. PrefixesDistinct'
  BY <1>4, <1>5 DEF MountInv, PrefixesDistinct
<1>7. ASSUME NEW i \in Slots, mountlist'[i].pid # NoPid
      PROVE  mountlist'[i].dev \in Devs /\ mounted'[mountlist'[i].cont] = mountlist'[i].dev
  <2>1. CASE i = f
    BY <1>4, <2>1
  <2>2. CASE i # f
    <3>1. mountlist'[i] = mountlist[i] /\ mountlist[i].cont \in Units
      BY <1>2, <1>4, <2>2 DEF Mounts
    <3>2. mountlist[i].dev \in Devs /\ mounted[mountlist[i].cont] = mountlist[i].dev
      BY <1>7, <3>1 DEF MountInv, SlotsBacked
    <3> QED
      BY <3>1, <3>2, TablesAssumption
  <2> QED
    BY <2>1, <2>2
<1> QED
  BY <1>6, <1>7 DEF MountInv, SlotsBacked

(* Unmounting frees a slot and nothing else.                                 *)
LEMMA UnmountKeepsMounts ==
    ASSUME TypeOK, MountInv, NEW p \in Pids, NEW fs \in Units, Unmount(p, fs)
    PROVE  MountInv'
<1> DEFINE i == First(OwnSlots(p, fs))
<1>1. CASE UNCHANGED <<mountlist, mounted>>
  BY <1>1 DEF MountInv, PrefixesDistinct, SlotsBacked
<1>2. CASE i # NMount /\ ~UNCHANGED <<mountlist, mounted>>
  <2>1. i \in Slots /\ mountlist[i].pid = p
    <3>1. OwnSlots(p, fs) \subseteq Slots
      BY DEF OwnSlots
    <3>2. OwnSlots(p, fs) # {}
      BY <1>2, <3>1, FirstFinds
    <3>3. i \in OwnSlots(p, fs)
      BY <3>1, <3>2, FirstFinds
    <3> QED
      BY <3>3 DEF OwnSlots
  <2>2. ~(OtherUser(i) >= NMount)
    BY <2>1, OtherUserIsFound, TablesAssumption
  <2>3. mounted' = mounted /\ (mountlist' = mountlist \/ umount_cleanup(i))
    BY <1>2, <2>2 DEF Unmount
  <2>4. umount_cleanup(i)
    BY <1>2, <2>3
  <2>5. mountlist'[i] = Free /\ \A k \in Slots \ {i} : mountlist'[k] = mountlist[k]
    BY <2>1, <2>4 DEF umount_cleanup, TypeOK
  <2>6. Free.pid = NoPid
    BY DEF Free
  <2> HIDE DEF i
  <2>7. PrefixesDistinct'
    BY <2>5, <2>6 DEF MountInv, PrefixesDistinct
  <2>8. SlotsBacked'
    BY <2>3, <2>5, <2>6 DEF MountInv, SlotsBacked
  <2> QED
    BY <2>7, <2>8 DEF MountInv
<1> QED
  BY <1>1, <1>2 DEF Unmount

(* rpc_command_mount, on each of its four paths.                             *)
LEMMA MountKeepsMounts ==
    ASSUME TypeOK, MountInv, NEW p \in Pids, NEW fs \in Units, NEW d \in Devs,
           rpc_command_mount(p, fs, d)
    PROVE  MountInv'
<1>1. ASSUME UNCHANGED <<mountlist, mounted>>
      PROVE  MountInv'
  BY <1>1 DEF MountInv, PrefixesDistinct, SlotsBacked
<1>2. ASSUME NEW u \in Units, ~MountBusy(u, d), MayMount(p, fs), DriverMount(p, fs, u, d)
      PROVE  MountInv'
  <2>1. PICK r \in {OK, EIO} : /\ scepfsMount(u, d, r)
                              /\ IF r = OK THEN FillSlot(p, fs, u, d)
                                 ELSE UNCHANGED mountlist
    BY <1>2 DEF DriverMount
  <2>2. CASE r # OK
    BY <2>1, <2>2, <1>1 DEF scepfsMount
  <2>3. CASE r = OK
    <3>1. mounted \in [Units -> Devs \cup {NoDev}] /\ mounted[u] = NoDev
      BY <1>2 DEF TypeOK, MountBusy
    <3>2. mounted' = [mounted EXCEPT ![u] = d] /\ FillSlot(p, fs, u, d)
      BY <2>1, <2>3 DEF scepfsMount
    <3>3. mounted'[u] = d /\ \A v \in Units : mounted[v] # NoDev => mounted'[v] = mounted[v]
      BY <3>1, <3>2
    <3> QED
      BY <1>2, <3>2, <3>3, FillSlotKeepsMounts
  <2> QED
    BY <2>2, <2>3
<1>3. CASE MountRefused(p, fs)
  BY <1>1, <1>3 DEF MountRefused
<1>4. CASE MountAsAsked(p, fs, d)
  BY <1>2, <1>4 DEF MountAsAsked
<1>5. CASE MountShared(p, fs, d)
  <2> DEFINE k == First(SlotsOf(d))
  <2>1. SlotsOf(d) \subseteq Slots /\ SlotsOf(d) # {}
    BY <1>5 DEF MountShared, SlotsOf
  <2>2. k \in SlotsOf(d)
    BY <2>1, FirstFinds
  <2>3. k \in Slots /\ mountlist[k].pid # NoPid /\ mountlist[k].dev = d
    BY <2>2 DEF SlotsOf
  <2>4. mountlist[k].cont \in Units /\ mounted[mountlist[k].cont] = d
    BY <2>3 DEF TypeOK, MountInv, SlotsBacked
  <2>5. /\ MayMount(p, fs)
        /\ FillSlot(p, fs, mountlist[k].cont, d)
        /\ mounted' = mounted
    BY <1>5 DEF MountShared
  <2> HIDE DEF k
  <2> QED
    BY <2>4, <2>5, FillSlotKeepsMounts
<1>6. CASE MountElsewhere(p, fs, d)
  <2> DEFINE tries == {u \in Units : ~MountBusy(u, d)}
  <2>1. tries \subseteq Slots /\ \A u \in tries : u \in Units /\ ~MountBusy(u, d)
    BY DEF Units
  <2>2. \/ tries # {} /\ MayMount(p, fs) /\ DriverMount(p, fs, First(tries), d)
        \/ UNCHANGED <<mountlist, mounted>>
    BY <1>6 DEF MountElsewhere
  <2> HIDE DEF tries
  <2>3. tries # {} => First(tries) \in tries
    BY <2>1, FirstFinds
  <2> QED
    BY <1>1, <1>2, <2>1, <2>2, <2>3
<1> QED
  BY <1>3, <1>4, <1>5, <1>6 DEF rpc_command_mount

(* The mounts stay backed by the driver, and the prefixes of one client stay  *)
(* distinct, over every step.                                                *)
THEOREM MountsSafe == Spec => []MountInv
<1>1. Init => MountInv
  BY DEF Init, MountInv, PrefixesDistinct, SlotsBacked, Free
<1>2. TypeOK /\ MountInv /\ [Next]_vars => MountInv'
  <2> SUFFICES ASSUME TypeOK, MountInv, [Next]_vars
               PROVE  MountInv'
    OBVIOUS
  <2>1. ASSUME UNCHANGED <<mountlist, mounted>>
        PROVE  MountInv'
    BY <2>1 DEF MountInv, PrefixesDistinct, SlotsBacked
  <2>2. ASSUME NEW p \in Pids, NEW n \in Names,
               rpc_command_open(p, n) \/ rpc_command_dopen(p, n) \/ NameRequest(p, n)
        PROVE  MountInv'
    BY <2>1, <2>2 DEF rpc_command_open, rpc_command_dopen, NameRequest, driver
  <2>3. ASSUME NEW p \in Pids, NEW fd \in Fds,
               rpc_command_close(p, fd) \/ rpc_command_dclose(p, fd) \/ FdRequest(p, fd)
        PROVE  MountInv'
    BY <2>1, <2>3 DEF rpc_command_close, rpc_command_dclose, FdRequest, driver
  <2>4. ASSUME NEW p \in Pids, NEW fs \in Units, rpc_command_umount(p, fs)
        PROVE  MountInv'
    BY <2>4, UnmountKeepsMounts, TablesAssumption DEF rpc_command_umount
  <2>5. ASSUME NEW p \in Pids, NEW fs \in Units, NEW d \in Devs,
               rpc_command_mount(p, fs, d)
        PROVE  MountInv'
    BY <2>5, MountKeepsMounts
  <2>6. ASSUME NEW p \in Pids, add_new_client(p) \/ HangUp(p) \/ cleanup_client(p)
        PROVE  MountInv'
    BY <2>1, <2>6 DEF add_new_client, HangUp, cleanup_client, daemon, driver
  <2>7. CASE cleanup_close \/ cleanup_finish \/ PollInterrupted
    BY <2>1, <2>7 DEF cleanup_close, cleanup_finish, PollInterrupted, driver
  <2>8. CASE cleanup_umount
    <3>1. cur.i \in Slots /\ cur.pid \in Pids /\ mountlist[cur.i].fs \in Units
      BY <2>8, TablesAssumption DEF cleanup_umount, TypeOK, Slots
    <3>2. CASE Unmount(cur.pid, mountlist[cur.i].fs)
      BY <3>1, <3>2, UnmountKeepsMounts
    <3> QED
      BY <2>1, <2>8, <3>2 DEF cleanup_umount
  <2>9. CASE main
    BY <2>9 DEF main, MountInv, PrefixesDistinct, SlotsBacked, Free
  <2>10. CASE UNCHANGED vars
    BY <2>1, <2>10 DEF vars, daemon, driver
  <2> QED
    BY <2>2, <2>3, <2>4, <2>5, <2>6, <2>7, <2>8, <2>9, <2>10 DEF Next, Request
<1> QED
  BY <1>1, <1>2, TablesTypeCorrect, PTL DEF Spec

(* However clients mount, share, unmount, hang up and reuse each other's     *)
(* descriptors, a path under a mounted prefix resolves to the unit that      *)
(* holds the client's partition.                                             *)
THEOREM NamesSafe == Spec => []NamesReachTheirDevice
<1>1. TypeOK /\ MountInv => NamesReachTheirDevice
  <2> SUFFICES ASSUME TypeOK, MountInv, NEW i \in Slots, mountlist[i].pid # NoPid
               PROVE  mounted[rpc_remap_name(mountlist[i].fs, mountlist[i].pid)]
                        = mountlist[i].dev
    BY DEF NamesReachTheirDevice
  <2> DEFINE S == OwnSlots(mountlist[i].pid, mountlist[i].fs)
  <2>1. i \in S
    BY DEF OwnSlots
  <2>2. First(S) \in S
    BY <2>1, LookupTypes
  <2>3. First(S) = i
    BY <2>2 DEF OwnSlots, MountInv, PrefixesDistinct
  <2>4. rpc_remap_name(mountlist[i].fs, mountlist[i].pid) = mountlist[i].cont
    BY <2>1, <2>3 DEF rpc_remap_name
  <2> QED
    BY <2>4 DEF MountInv, SlotsBacked
<1> QED
  BY <1>1, TablesTypeCorrect, MountsSafe, PTL
-----------------------------------------------------------------------------
(* The table of open files.                                                  *)

FilesInv == FilesMatchDriver /\ FilesOnTheirMounts

(* Taking out entry k loses that entry and no other one.                     *)
LEMMA ShiftDownEntries ==
    ASSUME NEW T, NEW s \in Seq(T), NEW k \in 1 .. Len(s)
    PROVE  /\ \A j \in 1 .. Len(ShiftDown(s, k)) :
                 \E m \in 1 .. Len(s) : /\ m # k
                                        /\ m = (IF j < k THEN j ELSE j + 1)
                                        /\ ShiftDown(s, k)[j] = s[m]
           /\ \A m \in 1 .. Len(s) : m # k =>
                 \E j \in 1 .. Len(ShiftDown(s, k)) : ShiftDown(s, k)[j] = s[m]
<1>1. Len(s) \in Nat /\ k \in Int /\ 1 <= k /\ k <= Len(s)
  OBVIOUS
<1>2. s # <<>>
  BY <1>1
<1> DEFINE t == ShiftDown(s, k)
<1>3. /\ Len(t) = Len(s) - 1
      /\ \A j \in 1 .. Len(s) - 1 : t[j] = IF j < k THEN s[j] ELSE s[j + 1]
  BY <1>2, ShiftDownType
<1> HIDE DEF t
<1>4. ASSUME NEW j \in 1 .. Len(t)
      PROVE  \E m \in 1 .. Len(s) : /\ m # k
                                    /\ m = (IF j < k THEN j ELSE j + 1)
                                    /\ t[j] = s[m]
  <2>1. CASE j < k
    <3>1. j \in 1 .. Len(s) /\ j # k /\ t[j] = s[j]
      BY <1>1, <1>3, <2>1
    <3> QED
      BY <2>1, <3>1
  <2>2. CASE ~(j < k)
    <3>1. j + 1 \in 1 .. Len(s) /\ j + 1 # k /\ t[j] = s[j + 1]
      BY <1>1, <1>3, <2>2
    <3> QED
      BY <2>2, <3>1
  <2> QED
    BY <2>1, <2>2
<1>5. ASSUME NEW m \in 1 .. Len(s), m # k
      PROVE  \E j \in 1 .. Len(t) : t[j] = s[m]
  <2>1. CASE m < k
    <3>1. m \in 1 .. Len(t) /\ t[m] = s[m]
      BY <1>1, <1>3, <2>1
    <3> QED
      BY <3>1
  <2>2. CASE ~(m < k)
    <3>1. m - 1 \in 1 .. Len(t) /\ ~(m - 1 < k) /\ (m - 1) + 1 = m
      BY <1>1, <1>3, <1>5, <2>2
    <3>2. t[m - 1] = s[(m - 1) + 1]
      BY <1>3, <3>1
    <3> QED
      BY <3>1, <3>2
  <2> QED
    BY <2>1, <2>2
<1> QED
  BY <1>4, <1>5 DEF t

(* scepfsOpen returns a descriptor only if the room in the table was checked *)
(* and the name could be reached.                                            *)
LEMMA OpenedFile ==
    ASSUME TypeOK, NEW p \in Pids, NEW n \in Names, OpenFile(p, n),
           ~UNCHANGED <<openfiles, drvfiles>>
    PROVE  \E r \in Fds :
              /\ Len(openfiles) < NOpen
              /\ drvfiles[r] = Nowhere
              /\ rpc_remap_name(n, p) # Nowhere
              /\ rpc_common_open(r, p, n)
              /\ drvfiles' = [drvfiles EXCEPT ![r] = rpc_remap_name(n, p)]
<1>1. PICK r \in (IF Len(openfiles) < NOpen THEN scepfsOpen(rpc_remap_name(n, p))
                  ELSE {EMFILE}) :
               /\ IF r \in Fds
                  THEN /\ rpc_common_open(r, p, n)
                       /\ drvfiles' = [drvfiles EXCEPT ![r] = rpc_remap_name(n, p)]
                  ELSE UNCHANGED <<openfiles, drvfiles>>
  BY DEF OpenFile
<1>2. r \in Fds
  BY <1>1
<1>3. r \notin {EMFILE, ENODEV, EIO}
  BY <1>2, TablesAssumption DEF EMFILE, ENODEV, EIO
<1>4. Len(openfiles) < NOpen /\ r \in scepfsOpen(rpc_remap_name(n, p))
  BY <1>1, <1>3
<1>5. Reachable(rpc_remap_name(n, p)) /\ drvfiles[r] = Nowhere
  BY <1>3, <1>4 DEF scepfsOpen
<1>6. rpc_remap_name(n, p) # Nowhere
  BY <1>5, TablesAssumption DEF Reachable, Units, Slots, Hdd, Nowhere
<1> QED
  BY <1>1, <1>2, <1>4, <1>5, <1>6

(* A file that is opened gets an entry with the slot it was opened through.  *)
LEMMA OpenKeepsFiles ==
    ASSUME TypeOK, FilesInv, NEW p \in Pids, NEW n \in Names, OpenFile(p, n),
           UNCHANGED mountlist
    PROVE  FilesInv'
<1>1. CASE UNCHANGED <<openfiles, drvfiles>>
  BY <1>1 DEF FilesInv, FilesMatchDriver, FilesOnTheirMounts
<1>2. CASE ~UNCHANGED <<openfiles, drvfiles>>
  <2>1. PICK r \in Fds :
              /\ Len(openfiles) < NOpen
              /\ drvfiles[r] = Nowhere
              /\ rpc_remap_name(n, p) # Nowhere
              /\ rpc_common_open(r, p, n)
              /\ drvfiles' = [drvfiles EXCEPT ![r] = rpc_remap_name(n, p)]
    BY <1>2, OpenedFile
  <2> DEFINE u == rpc_remap_name(n, p)
             e == [fd |-> r, pid |-> p, slot |-> First(OwnSlots(p, n))]
             L == Len(openfiles)
  <2>2. openfiles \in Seq(Entries) /\ drvfiles \in [Fds -> Names \cup {Nowhere}]
    BY DEF TypeOK, Entries
  <2>3. openfiles' = Append(openfiles, e)
    BY <2>1 DEF rpc_common_open
  <2>4. e \in Entries
    BY LookupTypes DEF Entries
  <2>5. e.fd = r /\ e.pid = p /\ e.slot = First(OwnSlots(p, n))
    OBVIOUS
  <2>6. e.slot \in Slots => mountlist[e.slot].pid = p /\ mountlist[e.slot].cont = u
    <3>1. OwnSlots(p, n) # {} => /\ e.slot \in OwnSlots(p, n)
                                 /\ u = mountlist[e.slot].cont
      BY LookupTypes DEF rpc_remap_name
    <3>2. OwnSlots(p, n) = {} => e.slot = NMount
      BY FirstFinds
    <3>3. NMount \notin Slots
      BY TablesAssumption DEF Slots
    <3> QED
      BY <3>1, <3>2, <3>3 DEF OwnSlots
  <2> HIDE DEF e, u
  <2>7. /\ L \in Nat
        /\ Len(openfiles') = L + 1
        /\ openfiles'[L + 1] = e
        /\ \A j \in 1 .. L : openfiles'[j] = openfiles[j] /\ openfiles[j] \in Entries
    BY <2>2, <2>3, <2>4
  <2>8. \A j \in 1 .. L : openfiles[j].fd # r
    BY <2>1 DEF FilesInv, FilesMatchDriver
  <2>9. drvfiles'[r] = u /\ \A fd \in Fds \ {r} : drvfiles'[fd] = drvfiles[fd]
    BY <2>1, <2>2 DEF u
  <2>10. 1 .. L + 1 = (1 .. L) \cup {L + 1}
    BY <2>7
  <2>11. FilesMatchDriver'
    <3>1. ASSUME NEW j \in 1 .. L + 1, NEW k \in 1 .. L + 1,
                 openfiles'[j].fd = openfiles'[k].fd
          PROVE  j = k
      BY <2>5, <2>7, <2>8, <2>10, <3>1 DEF FilesInv, FilesMatchDriver
    <3>2. ASSUME NEW fd \in Fds
          PROVE  drvfiles'[fd] # Nowhere <=> \E j \in 1 .. L + 1 : openfiles'[j].fd = fd
      <4>1. CASE fd = r
        BY <2>1, <2>5, <2>7, <2>9, <2>10, <4>1 DEF u
      <4>2. CASE fd # r
        BY <2>5, <2>7, <2>9, <2>10, <4>2 DEF FilesInv, FilesMatchDriver
      <4> QED
        BY <4>1, <4>2
    <3>3. L + 1 <= NOpen
      BY <2>1, <2>7, TablesAssumption
    <3> QED
      BY <2>7, <3>1, <3>2, <3>3 DEF FilesMatchDriver
  <2>12. FilesOnTheirMounts'
    <3> SUFFICES ASSUME NEW j \in 1 .. L + 1, openfiles'[j].slot \in Slots
                 PROVE  /\ mountlist[openfiles'[j].slot].pid = openfiles'[j].pid
                        /\ mountlist[openfiles'[j].slot].cont = drvfiles'[openfiles'[j].fd]
      BY <2>7 DEF FilesOnTheirMounts
    <3>1. CASE j = L + 1
      BY <2>5, <2>6, <2>7, <2>9, <3>1
    <3>2. CASE j \in 1 .. L
      <4>1. openfiles[j].fd \in Fds \ {r}
        BY <2>7, <2>8, <3>2 DEF Entries
      <4> QED
        BY <2>7, <2>9, <3>2, <4>1 DEF FilesInv, FilesOnTheirMounts
    <3> QED
      BY <2>10, <3>1, <3>2
  <2> QED
    BY <2>11, <2>12 DEF FilesInv
<1> QED
  BY <1>1, <1>2

(* A close that succeeds takes the client's entry out, and only that one.    *)
LEMMA ClosedFile ==
    ASSUME TypeOK, FilesInv, NEW p \in Pids, NEW fd \in Fds, CloseFile(fd, p),
           ~UNCHANGED <<openfiles, drvfiles>>
    PROVE  \E k \in 1 .. Len(openfiles) :
              /\ openfiles[k].fd = fd
              /\ openfiles[k].pid = p
              /\ openfiles' = ShiftDown(openfiles, k)
              /\ drvfiles' = [drvfiles EXCEPT ![fd] = Nowhere]
<1>1. rpc_remap_fd(fd, p)
  BY DEF CloseFile
<1>2. PICK k : k \in OwnEntries(fd, p)
  BY <1>1 DEF rpc_remap_fd
<1>3. OwnEntries(fd, p) = {k}
  BY <1>2 DEF OwnEntries, FilesInv, FilesMatchDriver
<1>4. k \in 1 .. Len(openfiles) /\ openfiles[k].fd = fd /\ openfiles[k].pid = p
  BY <1>2 DEF OwnEntries
<1>5. k = CHOOSE j \in OwnEntries(fd, p) : \A m \in OwnEntries(fd, p) : j <= m
  <2>1. k <= k
    BY <1>4
  <2> QED
    BY <1>3, <2>1
<1>6. PICK r \in {OK, EIO} :
          /\ scepfsClose(fd, r)
          /\ IF r = OK THEN rpc_common_close(fd, p) ELSE UNCHANGED openfiles
  BY <1>1 DEF CloseFile
<1>7. r = OK
  BY <1>6 DEF scepfsClose
<1>8. openfiles' = ShiftDown(openfiles, k)
  BY <1>2, <1>5, <1>6, <1>7 DEF rpc_common_close
<1>9. drvfiles' = [drvfiles EXCEPT ![fd] = Nowhere]
  BY <1>6, <1>7 DEF scepfsClose
<1> QED
  BY <1>4, <1>8, <1>9

LEMMA CloseKeepsFiles ==
    ASSUME TypeOK, FilesInv, NEW p \in Pids, NEW fd \in Fds, CloseFile(fd, p),
           UNCHANGED mountlist
    PROVE  FilesInv'
<1>1. CASE UNCHANGED <<openfiles, drvfiles>>
  BY <1>1 DEF FilesInv, FilesMatchDriver, FilesOnTheirMounts
<1>2. CASE ~UNCHANGED <<openfiles, drvfiles>>
  <2>1. PICK k \in 1 .. Len(openfiles) :
              /\ openfiles[k].fd = fd
              /\ openfiles[k].pid = p
              /\ openfiles' = ShiftDown(openfiles, k)
              /\ drvfiles' = [drvfiles EXCEPT ![fd] = Nowhere]
    BY <1>2, ClosedFile
  <2>2. /\ openfiles \in Seq(Entries)
        /\ drvfiles \in [Fds -> Names \cup {Nowhere}]
    BY DEF TypeOK, Entries
  <2> DEFINE L == Len(openfiles)
             M(j) == IF j < k THEN j ELSE j + 1
  <2>3. L \in Nat /\ openfiles # <<>>
    BY <2>1, <2>2
  <2> DEFINE t == ShiftDown(openfiles, k)
  <2>4. Len(t) = L - 1
    BY <2>1, <2>2, <2>3, ShiftDownType
  <2>a. /\ \A j \in 1 .. Len(t) :
              \E m \in 1 .. L : m # k /\ m = M(j) /\ t[j] = openfiles[m]
        /\ \A m \in 1 .. L : m # k => \E j \in 1 .. Len(t) : t[j] = openfiles[m]
    BY <2>2, ShiftDownEntries
  <2>b. openfiles' = t
    BY <2>1
  <2> HIDE DEF t
  <2>5. \A j \in 1 .. L - 1 : /\ M(j) \in 1 .. L
                              /\ M(j) # k
                              /\ openfiles'[j] = openfiles[M(j)]
    BY <2>a, <2>b, <2>4
  <2>6. \A m \in 1 .. L : m # k => \E j \in 1 .. L - 1 : openfiles'[j] = openfiles[m]
    BY <2>a, <2>b, <2>4
  <2>7. \A i, j \in 1 .. L - 1 : M(i) = M(j) => i = j
    BY <2>1, <2>3
  <2>8. \A m \in 1 .. L : openfiles[m] \in Entries /\ (openfiles[m].fd = fd => m = k)
    BY <2>1, <2>2 DEF FilesInv, FilesMatchDriver
  <2>9. drvfiles'[fd] = Nowhere /\ \A g \in Fds \ {fd} : drvfiles'[g] = drvfiles[g]
    BY <2>1, <2>2
  <2> HIDE DEF M, L
  <2>10. FilesMatchDriver'
    <3>1. ASSUME NEW i \in 1 .. L - 1, NEW j \in 1 .. L - 1,
                 openfiles'[i].fd = openfiles'[j].fd
          PROVE  i = j
      <4>1. M(i) = M(j)
        BY <2>5, <3>1 DEF FilesInv, FilesMatchDriver, L
      <4> QED
        BY <2>7, <4>1
    <3>2. ASSUME NEW g \in Fds
          PROVE  drvfiles'[g] # Nowhere <=> \E j \in 1 .. L - 1 : openfiles'[j].fd = g
      <4>1. CASE g = fd
        BY <2>5, <2>8, <2>9, <4>1
      <4>2. CASE g # fd
        <5>1. drvfiles[g] # Nowhere <=> \E m \in 1 .. L : openfiles[m].fd = g
          BY DEF FilesInv, FilesMatchDriver, L
        <5>2. (\E m \in 1 .. L : openfiles[m].fd = g)
                <=> \E j \in 1 .. L - 1 : openfiles'[j].fd = g
          BY <2>1, <2>5, <2>6, <4>2
        <5> QED
          BY <2>9, <4>2, <5>1, <5>2
      <4> QED
        BY <4>1, <4>2
    <3>3. L - 1 <= NOpen
      BY <2>3, TablesAssumption DEF FilesInv, FilesMatchDriver, L
    <3> QED
      BY <2>b, <2>4, <3>1, <3>2, <3>3 DEF FilesMatchDriver
  <2>11. FilesOnTheirMounts'
    <3> SUFFICES ASSUME NEW j \in 1 .. L - 1, openfiles'[j].slot \in Slots
                 PROVE  /\ mountlist[openfiles'[j].slot].pid = openfiles'[j].pid
                        /\ mountlist[openfiles'[j].slot].cont = drvfiles'[openfiles'[j].fd]
      BY <2>b, <2>4 DEF FilesOnTheirMounts
    <3>1. openfiles'[j] = openfiles[M(j)] /\ M(j) \in 1 .. L /\ openfiles[M(j)].fd # fd
      BY <2>5, <2>8
    <3>2. openfiles[M(j)].fd \in Fds \ {fd}
      BY <2>8, <3>1 DEF Entries
    <3>3. drvfiles'[openfiles'[j].fd] = drvfiles[openfiles[M(j)].fd]
      BY <2>9, <3>1, <3>2
    <3> QED
      BY <3>1, <3>3 DEF FilesInv, FilesOnTheirMounts, L
  <2> QED
    BY <2>10, <2>11 DEF FilesInv
<1> QED
  BY <1>1, <1>2

(* A mount takes a slot that no file is on; nothing else of the list moves.  *)
LEMMA MountedSlot ==
    ASSUME TypeOK, NEW p \in Pids, NEW fs \in Units, NEW d \in Devs,
           rpc_command_mount(p, fs, d), mountlist' # mountlist
    PROVE  \E f, m : /\ f \in Slots /\ mountlist[f].pid = NoPid
                     /\ m.pid = p
                     /\ mountlist' = [mountlist EXCEPT ![f] = m]
<1>1. ASSUME NEW u, MayMount(p, fs), FillSlot(p, fs, u, d)
      PROVE  \E f, m : /\ f \in Slots /\ mountlist[f].pid = NoPid
                       /\ m.pid = p
                       /\ mountlist' = [mountlist EXCEPT ![f] = m]
  <2>1. find_free_mount_info \in Slots /\ mountlist[find_free_mount_info].pid = NoPid
    BY <1>1, FreeSlotIsFree DEF MayMount
  <2> QED
    BY <1>1, <2>1 DEF FillSlot
<1>2. MayMount(p, fs) /\ \E u : FillSlot(p, fs, u, d)
  <2>1. ASSUME NEW u, DriverMount(p, fs, u, d)
        PROVE  FillSlot(p, fs, u, d)
    BY <2>1 DEF DriverMount
  <2> QED
    BY <2>1 DEF rpc_command_mount, MountRefused, MountAsAsked, MountShared, MountElsewhere
<1> QED
  BY <1>1, <1>2

LEMMA MountKeepsFiles ==
    ASSUME TypeOK, FilesInv, NEW p \in Pids, NEW fs \in Units, NEW d \in Devs,
           rpc_command_mount(p, fs, d)
    PROVE  FilesInv'
<1>1. UNCHANGED <<openfiles, drvfiles>>
  BY DEF rpc_command_mount
<1>2. FilesMatchDriver'
  BY <1>1 DEF FilesInv, FilesMatchDriver
<1>3. CASE UNCHANGED mountlist
  BY <1>1, <1>2, <1>3 DEF FilesInv, FilesOnTheirMounts
<1>4. CASE mountlist' # mountlist
  <2>1. PICK f, m : /\ f \in Slots /\ mountlist[f].pid = NoPid
                    /\ m.pid = p
                    /\ mountlist' = [mountlist EXCEPT ![f] = m]
    BY <1>4, MountedSlot
  <2>2. \A i \in Slots \ {f} : mountlist'[i] = mountlist[i]
    BY <2>1 DEF TypeOK
  <2>3. ASSUME NEW j \in 1 .. Len(openfiles), openfiles[j].slot \in Slots
        PROVE  openfiles[j].slot # f
    <3>1. openfiles \in Seq(Entries)
      BY DEF TypeOK, Entries
    <3>a. openfiles[j] \in Entries
      BY <3>1
    <3>2. openfiles[j].pid \in Pids
      BY <3>a DEF Entries
    <3>3. mountlist[openfiles[j].slot].pid = openfiles[j].pid
      BY <2>3 DEF FilesInv, FilesOnTheirMounts
    <3> QED
      BY <2>1, <3>2, <3>3, TablesAssumption
  <2>4. FilesOnTheirMounts'
    BY <1>1, <2>2, <2>3 DEF FilesInv, FilesOnTheirMounts
  <2> QED
    BY <1>2, <2>4 DEF FilesInv
<1> QED
  BY <1>3, <1>4

(* An unmount that changes the list frees a slot of its client that no file  *)
(* is on.                                                                    *)
LEMMA UnmountedSlot ==
    ASSUME TypeOK, NEW p \in Pids, NEW fs \in Units, Unmount(p, fs),
           mountlist' # mountlist
    PROVE  \E i \in OwnSlots(p, fs) :
              /\ \A j \in 1 .. Len(openfiles) : openfiles[j].slot # i
              /\ mountlist' = [mountlist EXCEPT ![i] = Free]
<1> DEFINE i == First(OwnSlots(p, fs))
<1>1. i # NMount
  BY DEF Unmount
<1>2. OwnSlots(p, fs) # {}
  BY <1>1, FirstFinds
<1>3. i \in OwnSlots(p, fs)
  BY <1>2, LookupTypes
<1>4. \A j \in 1 .. Len(openfiles) : openfiles[j].slot # i
  BY <1>1 DEF Unmount
<1>5. umount_cleanup(i)
  BY <1>1, <1>4 DEF Unmount
<1> QED
  BY <1>3, <1>4, <1>5 DEF umount_cleanup

LEMMA UnmountKeepsFiles ==
    ASSUME TypeOK, FilesInv, NEW p \in Pids, NEW fs \in Units, Unmount(p, fs),
           UNCHANGED <<openfiles, drvfiles>>
    PROVE  FilesInv'
<1>1. FilesMatchDriver'
  BY DEF FilesInv, FilesMatchDriver
<1>2. CASE UNCHANGED mountlist
  BY <1>1, <1>2 DEF FilesInv, FilesOnTheirMounts
<1>3. CASE mountlist' # mountlist
  <2>1. PICK i \in OwnSlots(p, fs) :
              /\ \A j \in 1 .. Len(openfiles) : openfiles[j].slot # i
              /\ mountlist' = [mountlist EXCEPT ![i] = Free]
    BY <1>3, UnmountedSlot
  <2>2. \A k \in Slots \ {i} : mountlist'[k] = mountlist[k]
    BY <2>1 DEF TypeOK
  <2>3. FilesOnTheirMounts'
    BY <2>1, <2>2 DEF FilesInv, FilesOnTheirMounts
  <2> QED
    BY <1>1, <2>3 DEF FilesInv
<1> QED
  BY <1>2, <1>3

(* In cleanup_client's loops the indices are within the tables.              *)
LEMMA CleanupIndices ==
    ASSUME TypeOK
    PROVE  /\ pc = "closing" /\ cur.i <= Len(openfiles) =>
                 /\ cur.pid \in Pids
                 /\ cur.i \in 1 .. Len(openfiles)
                 /\ openfiles[cur.i].fd \in Fds
           /\ pc = "unmounting" /\ cur.i < NMount =>
                 cur.i \in Slots /\ cur.pid \in Pids /\ mountlist[cur.i].fs \in Units
<1>1. openfiles \in Seq(Entries) /\ cur.i \in Nat
  BY DEF TypeOK, Entries
<1>2. ASSUME pc = "closing", cur.i <= Len(openfiles)
      PROVE  /\ cur.pid \in Pids
             /\ cur.i \in 1 .. Len(openfiles)
             /\ openfiles[cur.i].fd \in Fds
  <2>1. cur.pid \in Pids /\ cur.i \in 1 .. Len(openfiles)
    BY <1>1, <1>2 DEF TypeOK
  <2>2. openfiles[cur.i] \in Entries
    BY <1>1, <2>1
  <2> QED
    BY <2>1, <2>2 DEF Entries
<1>3. ASSUME pc = "unmounting", cur.i < NMount
      PROVE  cur.i \in Slots /\ cur.pid \in Pids /\ mountlist[cur.i].fs \in Units
  BY <1>1, <1>3, TablesAssumption DEF TypeOK, Slots
<1> QED
  BY <1>2, <1>3

(* The two properties of the table of open files hold together: each rests   *)
(* on the other, for an entry is found again by its descriptor.              *)
LEMMA FilesInvariant == Spec => []FilesInv
<1>1. Init => FilesInv
  <2> SUFFICES ASSUME Init
               PROVE  FilesInv
    OBVIOUS
  <2>1. Len(openfiles) = 0 /\ 1 .. 0 = {}
    BY DEF Init
  <2>2. \A fd \in Fds : drvfiles[fd] = Nowhere
    BY DEF Init
  <2> QED
    BY <2>1, <2>2, TablesAssumption DEF FilesInv, FilesMatchDriver, FilesOnTheirMounts
<1>2. TypeOK /\ FilesInv /\ [Next]_vars => FilesInv'
  <2> SUFFICES ASSUME TypeOK, FilesInv, [Next]_vars
               PROVE  FilesInv'
    OBVIOUS
  <2>1. ASSUME UNCHANGED <<mountlist, openfiles, drvfiles>>
        PROVE  FilesInv'
    BY <2>1 DEF FilesInv, FilesMatchDriver, FilesOnTheirMounts
  <2>2. ASSUME NEW p \in Pids, NEW n \in Names,
               rpc_command_open(p, n) \/ rpc_command_dopen(p, n)
        PROVE  FilesInv'
    BY <2>2, OpenKeepsFiles DEF rpc_command_open, rpc_command_dopen
  <2>3. ASSUME NEW p \in Pids, NEW fd \in Fds,
               rpc_command_close(p, fd) \/ rpc_command_dclose(p, fd)
        PROVE  FilesInv'
    BY <2>3, CloseKeepsFiles DEF rpc_command_close, rpc_command_dclose
  <2>4. ASSUME NEW p \in Pids, (\E n \in Names : NameRequest(p, n))
                                  \/ (\E fd \in Fds : FdRequest(p, fd))
        PROVE  FilesInv'
    BY <2>1, <2>4 DEF NameRequest, FdRequest, driver
  <2>5. ASSUME NEW p \in Pids, NEW fs \in Units, rpc_command_umount(p, fs)
        PROVE  FilesInv'
    BY <2>5, UnmountKeepsFiles DEF rpc_command_umount
  <2>6. ASSUME NEW p \in Pids, NEW fs \in Units, NEW d \in Devs,
               rpc_command_mount(p, fs, d)
        PROVE  FilesInv'
    BY <2>6, MountKeepsFiles
  <2>7. ASSUME NEW p \in Pids, add_new_client(p) \/ HangUp(p) \/ cleanup_client(p)
        PROVE  FilesInv'
    BY <2>1, <2>7 DEF add_new_client, HangUp, cleanup_client, daemon, driver
  <2>8. CASE cleanup_close
    <3>1. UNCHANGED mountlist /\ pc = "closing"
      BY <2>8 DEF cleanup_close
    <3>2. CASE cur.i <= Len(openfiles) /\ openfiles[cur.i].pid = cur.pid
      <4>1. CloseFile(openfiles[cur.i].fd, cur.pid)
        BY <2>8, <3>2 DEF cleanup_close
      <4> QED
        BY <3>1, <3>2, <4>1, CleanupIndices, CloseKeepsFiles
    <3>3. CASE ~(cur.i <= Len(openfiles) /\ openfiles[cur.i].pid = cur.pid)
      BY <2>1, <2>8, <3>1, <3>3 DEF cleanup_close
    <3> QED
      BY <3>2, <3>3
  <2>9. CASE cleanup_umount
    <3>1. cur.i \in Slots /\ cur.pid \in Pids /\ mountlist[cur.i].fs \in Units
      BY <2>9, CleanupIndices DEF cleanup_umount
    <3>2. UNCHANGED <<openfiles, drvfiles>>
      BY <2>9 DEF cleanup_umount
    <3>3. CASE Unmount(cur.pid, mountlist[cur.i].fs)
      BY <3>1, <3>2, <3>3, UnmountKeepsFiles
    <3>4. CASE UNCHANGED mountlist
      BY <2>1, <3>2, <3>4
    <3> QED
      BY <2>9, <3>3, <3>4 DEF cleanup_umount
  <2>10. CASE cleanup_finish \/ PollInterrupted
    BY <2>1, <2>10 DEF cleanup_finish, PollInterrupted, driver
  <2>11. CASE main
    <3>1. Len(openfiles') = 0 /\ 1 .. 0 = {}
      BY <2>11 DEF main
    <3>2. \A fd \in Fds : drvfiles'[fd] = Nowhere
      BY <2>11 DEF main
    <3> QED
      BY <3>1, <3>2, TablesAssumption DEF FilesInv, FilesMatchDriver, FilesOnTheirMounts
  <2>12. CASE UNCHANGED vars
    BY <2>1, <2>12 DEF vars, daemon, driver
  <2> QED
    BY <2>2, <2>3, <2>4, <2>5, <2>6, <2>7, <2>8, <2>9, <2>10, <2>11, <2>12
       DEF Next, Request
<1> QED
  BY <1>1, <1>2, TablesTypeCorrect, PTL DEF Spec

(* The driver and the daemon agree on which files are open, whatever closes  *)
(* fail, and the table is never written past its end.                        *)
THEOREM FilesSafe == Spec => []FilesMatchDriver
<1>1. FilesInv => FilesMatchDriver
  BY DEF FilesInv
<1> QED
  BY <1>1, FilesInvariant, PTL

(* No slot of the mount list is freed or given away under an open file.      *)
THEOREM FilesKeepMounts == Spec => []FilesOnTheirMounts
<1>1. FilesInv => FilesOnTheirMounts
  BY DEF FilesInv
<1> QED
  BY <1>1, FilesInvariant, PTL
-----------------------------------------------------------------------------
(* What a client leaves behind.  While cleanup_client runs, the tables still *)
(* hold part of what the client had: how far its two loops are is what makes *)
(* NoOrphans inductive.                                                      *)

ClosedSoFar ==
    pc = "closing" =>
        /\ cur.pid \in Clients
        /\ \A j \in 1 .. Len(openfiles) : j < cur.i => openfiles[j].pid # cur.pid

UnmountedSoFar ==
    pc = "unmounting" =>
        /\ cur.pid \in Clients
        /\ cur.i <= NMount
        /\ \A j \in 1 .. Len(openfiles) : openfiles[j].pid # cur.pid
        /\ \A i \in Slots : i < cur.i => mountlist[i].pid # cur.pid

OrphanInv == NoOrphans /\ ClosedSoFar /\ UnmountedSoFar

(* A step of the poll loop that only gives entries to a connected client.    *)
LEMMA ServingKeepsOwners ==
    ASSUME TypeOK, FilesInv, OrphanInv, NEW p \in Pids, Serving(p),
           \/ \E n \in Names : OpenFile(p, n) /\ UNCHANGED mountlist
           \/ \E fd \in Fds : CloseFile(fd, p) /\ UNCHANGED mountlist
           \/ \E fs \in Units, d \in Devs : rpc_command_mount(p, fs, d)
           \/ \E fs \in Units : Unmount(p, fs) /\ UNCHANGED openfiles
           \/ UNCHANGED <<mountlist, openfiles>>
    PROVE  OrphanInv'
<1>1. p \in Clients /\ Clients' = Clients /\ pc' = "poll"
  BY DEF Serving, Clients
<1>2. ASSUME UNCHANGED openfiles
      PROVE  \A j \in 1 .. Len(openfiles') : openfiles'[j].pid \in Clients'
  BY <1>1, <1>2 DEF OrphanInv, NoOrphans
<1>3. ASSUME UNCHANGED mountlist
      PROVE  \A i \in Slots : mountlist'[i].pid \in Clients' \cup {NoPid}
  BY <1>1, <1>3 DEF OrphanInv, NoOrphans
<1>4. openfiles \in Seq(Entries)
  BY DEF TypeOK, Entries
<1>5. ASSUME NEW n \in Names, OpenFile(p, n)
      PROVE  \A j \in 1 .. Len(openfiles') : openfiles'[j].pid \in Clients'
  <2>1. CASE UNCHANGED openfiles
    BY <1>2, <2>1
  <2>2. CASE openfiles' # openfiles
    <3>1. PICK r \in Fds : rpc_common_open(r, p, n)
      BY <1>5, <2>2, OpenedFile
    <3> DEFINE e == [fd |-> r, pid |-> p, slot |-> First(OwnSlots(p, n))]
    <3>2. openfiles' = Append(openfiles, e) /\ e.pid = p
      BY <3>1 DEF rpc_common_open
    <3>3. e \in Entries
      BY LookupTypes DEF Entries
    <3> HIDE DEF e
    <3>4. \A j \in 1 .. Len(openfiles') :
             openfiles'[j] = e \/ (j \in 1 .. Len(openfiles) /\ openfiles'[j] = openfiles[j])
      BY <1>4, <3>2, <3>3
    <3> QED
      BY <1>1, <3>2, <3>4 DEF OrphanInv, NoOrphans
  <2> QED
    BY <2>1, <2>2
<1>6. ASSUME NEW fd \in Fds, CloseFile(fd, p)
      PROVE  \A j \in 1 .. Len(openfiles') : openfiles'[j].pid \in Clients'
  <2>1. CASE UNCHANGED openfiles
    BY <1>2, <2>1
  <2>2. CASE openfiles' # openfiles
    <3>1. PICK k \in 1 .. Len(openfiles) : openfiles' = ShiftDown(openfiles, k)
      BY <1>6, <2>2, ClosedFile
    <3>2. \A j \in 1 .. Len(ShiftDown(openfiles, k)) :
             \E m \in 1 .. Len(openfiles) : ShiftDown(openfiles, k)[j] = openfiles[m]
      BY <1>4, ShiftDownEntries
    <3> QED
      BY <1>1, <3>1, <3>2 DEF OrphanInv, NoOrphans
  <2> QED
    BY <2>1, <2>2
<1>7. ASSUME NEW fs \in Units, NEW d \in Devs, rpc_command_mount(p, fs, d)
      PROVE  \A i \in Slots : mountlist'[i].pid \in Clients' \cup {NoPid}
  <2>1. CASE UNCHANGED mountlist
    BY <1>3, <2>1
  <2>2. CASE mountlist' # mountlist
    <3>1. PICK f, m : f \in Slots /\ m.pid = p /\ mountlist' = [mountlist EXCEPT ![f] = m]
      BY <1>7, <2>2, MountedSlot
    <3>2. \A i \in Slots : mountlist'[i] \in {m, mountlist[i]}
      BY <3>1 DEF TypeOK
    <3> QED
      BY <1>1, <3>1, <3>2 DEF OrphanInv, NoOrphans
  <2> QED
    BY <2>1, <2>2
<1>8. ASSUME NEW fs \in Units, Unmount(p, fs)
      PROVE  \A i \in Slots : mountlist'[i].pid \in Clients' \cup {NoPid}
  <2>1. CASE UNCHANGED mountlist
    BY <1>3, <2>1
  <2>2. CASE mountlist' # mountlist
    <3>1. PICK k \in OwnSlots(p, fs) : mountlist' = [mountlist EXCEPT ![k] = Free]
      BY <1>8, <2>2, UnmountedSlot
    <3>2. \A i \in Slots : mountlist'[i] \in {Free, mountlist[i]}
      BY <3>1 DEF TypeOK
    <3> QED
      BY <1>1, <3>2 DEF OrphanInv, NoOrphans, Free
  <2> QED
    BY <2>1, <2>2
<1>9. \A fs \in Units, d \in Devs : rpc_command_mount(p, fs, d) => UNCHANGED openfiles
  BY DEF rpc_command_mount
<1>10. NoOrphans'
  BY <1>2, <1>3, <1>5, <1>6, <1>7, <1>8, <1>9 DEF NoOrphans
<1> QED
  BY <1>1, <1>10 DEF OrphanInv, ClosedSoFar, UnmountedSoFar

(* cleanup_client's first loop: whatever it closes was the client's, and     *)
(* what it has passed is not.                                                *)
LEMMA ClosingKeepsOwners ==
    ASSUME TypeOK, FilesInv, OrphanInv, cleanup_close
    PROVE  OrphanInv'
<1>1. /\ pc = "closing"
      /\ Clients' = Clients
      /\ UNCHANGED mountlist
      /\ cur'.pid = cur.pid
      /\ cur.pid \in Clients
  <2>1. pc = "closing" /\ UNCHANGED <<conns, mountlist>>
    BY DEF cleanup_close
  <2>2. Clients' = Clients
    BY <2>1 DEF Clients
  <2>3. cur'.pid = cur.pid
    <3>1. \/ cur' = cur
          \/ \E i : cur' = [pid |-> cur.pid, i |-> i]
      BY DEF cleanup_close
    <3> QED
      BY <3>1
  <2>4. cur.pid \in Clients
    BY <2>1 DEF OrphanInv, ClosedSoFar
  <2> QED
    BY <2>1, <2>2, <2>3, <2>4
<1>2. openfiles \in Seq(Entries) /\ cur.i \in Nat /\ cur.i > 0
  BY <1>1 DEF TypeOK, Entries
<1>3. CASE cur.i <= Len(openfiles) /\ openfiles[cur.i].pid = cur.pid
  <2>1. CloseFile(openfiles[cur.i].fd, cur.pid) /\ UNCHANGED <<pc, cur>>
    BY <1>1, <1>3 DEF cleanup_close
  <2>2. cur.i \in 1 .. Len(openfiles) /\ openfiles[cur.i].fd \in Fds /\ cur.pid \in Pids
    BY <1>1, <1>3, CleanupIndices
  <2>3. CASE UNCHANGED openfiles
    BY <1>1, <2>1, <2>3 DEF OrphanInv, NoOrphans, ClosedSoFar, UnmountedSoFar
  <2>4. CASE openfiles' # openfiles
    <3>1. PICK k \in 1 .. Len(openfiles) :
              openfiles[k].fd = openfiles[cur.i].fd /\ openfiles' = ShiftDown(openfiles, k)
      BY <2>1, <2>2, <2>4, ClosedFile
    <3>2. k = cur.i
      BY <2>2, <3>1 DEF FilesInv, FilesMatchDriver
    <3> DEFINE t == ShiftDown(openfiles, k)
    <3>3. \A j \in 1 .. Len(t) :
             \E m \in 1 .. Len(openfiles) : /\ m # k
                                            /\ m = (IF j < k THEN j ELSE j + 1)
                                            /\ t[j] = openfiles[m]
      BY <1>2, ShiftDownEntries
    <3>4. openfiles' = t
      BY <3>1
    <3> HIDE DEF t
    <3>5. NoOrphans'
      BY <1>1, <3>3, <3>4 DEF OrphanInv, NoOrphans
    <3>6. ClosedSoFar'
      BY <1>1, <2>1, <3>2, <3>3, <3>4 DEF OrphanInv, ClosedSoFar
    <3> QED
      BY <1>1, <2>1, <3>5, <3>6 DEF OrphanInv, UnmountedSoFar
  <2> QED
    BY <2>3, <2>4
<1>4. CASE cur.i <= Len(openfiles) /\ openfiles[cur.i].pid # cur.pid
  <2>1. cur' = [pid |-> cur.pid, i |-> cur.i + 1] /\ UNCHANGED <<pc, openfiles>>
    BY <1>1, <1>4 DEF cleanup_close
  <2>2. cur'.i = cur.i + 1
    BY <2>1
  <2>3. \A j \in 1 .. Len(openfiles) : j < cur.i + 1 => openfiles[j].pid # cur.pid
    <3>1. \A j \in 1 .. Len(openfiles) : j < cur.i + 1 => j < cur.i \/ j = cur.i
      BY <1>2
    <3> QED
      BY <1>1, <1>4, <3>1 DEF OrphanInv, ClosedSoFar
  <2>4. ClosedSoFar'
    BY <1>1, <2>1, <2>2, <2>3 DEF ClosedSoFar
  <2> QED
    BY <1>1, <2>1, <2>4 DEF OrphanInv, NoOrphans, UnmountedSoFar
<1>5. CASE ~(cur.i <= Len(openfiles))
  <2>1. /\ pc' = "unmounting"
        /\ cur' = [pid |-> cur.pid, i |-> 0]
        /\ UNCHANGED openfiles
    BY <1>5 DEF cleanup_close
  <2>2. cur'.i = 0 /\ 0 <= NMount
    BY <2>1, TablesAssumption
  <2>3. \A j \in 1 .. Len(openfiles) : openfiles[j].pid # cur.pid
    <3>1. \A j \in 1 .. Len(openfiles) : j < cur.i
      BY <1>2, <1>5
    <3> QED
      BY <1>1, <3>1 DEF OrphanInv, ClosedSoFar
  <2>4. \A i \in Slots : ~(i < 0)
    BY TablesAssumption DEF Slots
  <2>5. UnmountedSoFar'
    BY <1>1, <2>1, <2>2, <2>3, <2>4 DEF UnmountedSoFar
  <2> QED
    BY <1>1, <2>1, <2>5 DEF OrphanInv, NoOrphans, ClosedSoFar
<1> QED
  BY <1>3, <1>4, <1>5

(* Its second loop: with the client's files gone, its unmounts cannot be     *)
(* refused, so that every slot it passes is free or somebody else's.         *)
LEMMA UnmountingKeepsOwners ==
    ASSUME TypeOK, MountInv, FilesInv, OrphanInv, cleanup_umount
    PROVE  OrphanInv'
<1>1. /\ pc = "unmounting" /\ pc' = pc
      /\ Clients' = Clients
      /\ UNCHANGED openfiles
      /\ cur' = [pid |-> cur.pid, i |-> cur.i + 1]
      /\ cur.i < NMount
  BY DEF cleanup_umount, Clients
<1>2. cur.i \in Slots /\ cur.pid \in Pids /\ mountlist[cur.i].fs \in Units
  BY <1>1, CleanupIndices
<1>3. /\ cur.pid \in Clients
      /\ \A j \in 1 .. Len(openfiles) : openfiles[j].pid # cur.pid
      /\ \A i \in Slots : i < cur.i => mountlist[i].pid # cur.pid
  BY <1>1 DEF OrphanInv, UnmountedSoFar
<1>4. CASE mountlist[cur.i].pid = cur.pid
  <2> DEFINE S == OwnSlots(cur.pid, mountlist[cur.i].fs)
  <2>1. cur.i \in S
    BY <1>2, <1>4 DEF OwnSlots
  <2>2. First(S) \in S
    BY <2>1, LookupTypes
  <2>3. cur.pid # NoPid
    BY <1>2, TablesAssumption
  <2>4. First(S) = cur.i
    BY <1>4, <2>2, <2>3, <1>2 DEF OwnSlots, MountInv, PrefixesDistinct
  <2>5. Unmount(cur.pid, mountlist[cur.i].fs)
    BY <1>4 DEF cleanup_umount
  <2>6. cur.i # NMount
    BY <1>2, TablesAssumption DEF Slots
  <2>7. ~ \E j \in 1 .. Len(openfiles) : openfiles[j].slot = cur.i
    BY <1>2, <1>3, <1>4 DEF FilesInv, FilesOnTheirMounts
  <2>8. ~(OtherUser(cur.i) >= NMount)
    BY <1>2, <1>4, <2>3, OtherUserIsFound
  <2> HIDE DEF S
  <2>9. umount_cleanup(cur.i)
    BY <2>4, <2>5, <2>6, <2>7, <2>8 DEF Unmount, S
  <2> QED
    <3>1. mountlist'[cur.i] = Free /\ \A i \in Slots \ {cur.i} : mountlist'[i] = mountlist[i]
      BY <1>2, <2>9 DEF umount_cleanup, TypeOK
    <3>2. Free.pid = NoPid
      BY DEF Free
    <3>3. NoOrphans'
      BY <1>1, <3>1, <3>2 DEF OrphanInv, NoOrphans
    <3>4. cur'.i = cur.i + 1 /\ cur'.pid = cur.pid /\ cur.i + 1 <= NMount
      BY <1>1, <1>2, TablesAssumption DEF Slots
    <3>5. \A i \in Slots : i < cur.i + 1 => i < cur.i \/ i = cur.i
      BY <1>2, TablesAssumption DEF Slots
    <3>6. \A i \in Slots : i < cur.i + 1 => mountlist'[i].pid # cur.pid
      BY <1>2, <1>3, <2>3, <3>1, <3>2, <3>5
    <3>7. UnmountedSoFar'
      BY <1>1, <1>3, <3>4, <3>6 DEF UnmountedSoFar
    <3> QED
      BY <1>1, <3>3, <3>7 DEF OrphanInv, ClosedSoFar
<1>5. CASE mountlist[cur.i].pid # cur.pid
  <2>1. UNCHANGED mountlist
    BY <1>5 DEF cleanup_umount
  <2>2. cur'.i = cur.i + 1 /\ cur'.pid = cur.pid /\ cur.i + 1 <= NMount
    BY <1>1, <1>2, TablesAssumption DEF Slots
  <2>3. \A i \in Slots : i < cur.i + 1 => i < cur.i \/ i = cur.i
    BY <1>2, TablesAssumption DEF Slots
  <2>4. \A i \in Slots : i < cur.i + 1 => mountlist[i].pid # cur.pid
    BY <1>3, <1>5, <2>3
  <2>5. UnmountedSoFar'
    BY <1>1, <1>3, <2>1, <2>2, <2>4 DEF UnmountedSoFar
  <2> QED
    BY <1>1, <2>1, <2>5 DEF OrphanInv, NoOrphans, ClosedSoFar
<1> QED
  BY <1>4, <1>5

(* The entry that leaves the poll table is the one of the client that is     *)
(* cleaned up; the others stay.                                              *)
LEMMA FinishKeepsOthers ==
    ASSUME TypeOK, OrphanInv, cleanup_finish
    PROVE  Clients \ {cur.pid} \subseteq Clients'
<1>1. conns \in Seq(Pids) /\ pc = "unmounting"
  BY DEF TypeOK, cleanup_finish
<1>2. cur.pid \in Clients
  BY <1>1 DEF OrphanInv, UnmountedSoFar
<1>3. PICK k \in 1 .. Len(conns) : conns[k] = cur.pid
                /\ k = CHOOSE j \in 1 .. Len(conns) : conns[j] = cur.pid
  BY <1>2 DEF Clients
<1> DEFINE t == ShiftDown(conns, k)
<1>4. \A m \in 1 .. Len(conns) : m # k => \E j \in 1 .. Len(t) : t[j] = conns[m]
  BY <1>1, ShiftDownEntries
<1>5. conns' = t
  BY <1>3 DEF cleanup_finish
<1> HIDE DEF t
<1> QED
  BY <1>3, <1>4, <1>5 DEF Clients

(* Whoever hangs up, at whatever moment and with whatever open or mounted,   *)
(* is gone from the tables when its descriptor can be handed out again.      *)
THEOREM OrphansSafe == Spec => []NoOrphans
<1>1. Init => OrphanInv
  <2> SUFFICES ASSUME Init
               PROVE  OrphanInv
    OBVIOUS
  <2>1. Len(openfiles) = 0 /\ 1 .. 0 = {} /\ pc = "poll"
    BY DEF Init
  <2>2. \A i \in Slots : mountlist[i].pid = NoPid
    BY DEF Init, Free
  <2> QED
    BY <2>1, <2>2 DEF OrphanInv, NoOrphans, ClosedSoFar, UnmountedSoFar
<1>2. TypeOK /\ MountInv /\ FilesInv /\ OrphanInv /\ [Next]_vars => OrphanInv'
  <2> SUFFICES ASSUME TypeOK, MountInv, FilesInv, OrphanInv, [Next]_vars
               PROVE  OrphanInv'
    OBVIOUS
  <2>1. ASSUME NEW p \in Pids, Request(p)
        PROVE  OrphanInv'
    <3>1. Serving(p)
      BY <2>1 DEF Request, rpc_command_open, rpc_command_dopen, NameRequest,
                  rpc_command_close, rpc_command_dclose, FdRequest,
                  rpc_command_umount, rpc_command_mount
    <3>2. \/ \E n \in Names : OpenFile(p, n) /\ UNCHANGED mountlist
          \/ \E fd \in Fds : CloseFile(fd, p) /\ UNCHANGED mountlist
          \/ \E fs \in Units, d \in Devs : rpc_command_mount(p, fs, d)
          \/ \E fs \in Units : Unmount(p, fs) /\ UNCHANGED openfiles
          \/ UNCHANGED <<mountlist, openfiles>>
      BY <2>1 DEF Request, rpc_command_open, rpc_command_dopen, NameRequest,
                  rpc_command_close, rpc_command_dclose, FdRequest,
                  rpc_command_umount
    <3> QED
      BY <3>1, <3>2, ServingKeepsOwners
  <2>2. ASSUME NEW p \in Pids, add_new_client(p)
        PROVE  OrphanInv'
    <3>1. /\ UNCHANGED <<mountlist, openfiles>>
          /\ pc' \in {"poll", "undefined"}
          /\ conns' = conns \/ conns' = Append(conns, p)
      BY <2>2 DEF add_new_client
    <3>2. conns \in Seq(Pids)
      BY DEF TypeOK
    <3>3. Clients \subseteq Clients'
      <4>1. \A j \in 1 .. Len(conns) : j \in 1 .. Len(conns') /\ conns'[j] = conns[j]
        BY <3>1, <3>2
      <4> QED
        BY <4>1 DEF Clients
    <3> QED
      BY <3>1, <3>3 DEF OrphanInv, NoOrphans, ClosedSoFar, UnmountedSoFar
  <2>3. ASSUME NEW p \in Pids, cleanup_client(p)
        PROVE  OrphanInv'
    <3>1. /\ UNCHANGED <<conns, mountlist, openfiles>>
          /\ pc' = "closing" /\ cur' = [pid |-> p, i |-> 1] /\ p \in Clients
      BY <2>3 DEF cleanup_client
    <3>2. Clients' = Clients /\ cur'.pid = p /\ cur'.i = 1
      BY <3>1 DEF Clients
    <3>3. \A j \in 1 .. Len(openfiles) : ~(j < 1)
      OBVIOUS
    <3> QED
      BY <3>1, <3>2, <3>3 DEF OrphanInv, NoOrphans, ClosedSoFar, UnmountedSoFar
  <2>4. CASE cleanup_close
    BY <2>4, ClosingKeepsOwners
  <2>5. CASE cleanup_umount
    BY <2>5, UnmountingKeepsOwners
  <2>6. CASE cleanup_finish
    <3>1. /\ UNCHANGED <<mountlist, openfiles>>
          /\ pc = "unmounting" /\ cur.i = NMount
          /\ pc' \in {"poll", "exited"}
      BY <2>6 DEF cleanup_finish
    <3>2. \A i \in Slots : i < NMount
      BY TablesAssumption DEF Slots
    <3>3. /\ \A i \in Slots : mountlist[i].pid # cur.pid
          /\ \A j \in 1 .. Len(openfiles) : openfiles[j].pid # cur.pid
      BY <3>1, <3>2 DEF OrphanInv, UnmountedSoFar
    <3>4. Clients \ {cur.pid} \subseteq Clients'
      BY <2>6, FinishKeepsOthers
    <3> QED
      BY <3>1, <3>3, <3>4 DEF OrphanInv, NoOrphans, ClosedSoFar, UnmountedSoFar
  <2>7. CASE PollInterrupted
    <3>1. UNCHANGED <<conns, mountlist, openfiles>> /\ pc' \in {"poll", "exited"}
      BY <2>7 DEF PollInterrupted
    <3> QED
      BY <3>1 DEF OrphanInv, NoOrphans, Clients, ClosedSoFar, UnmountedSoFar
  <2>8. CASE main
    <3>1. Len(openfiles') = 0 /\ 1 .. 0 = {} /\ pc' = "poll"
      BY <2>8 DEF main
    <3>2. \A i \in Slots : mountlist'[i].pid = NoPid
      BY <2>8 DEF main, Free
    <3> QED
      BY <3>1, <3>2 DEF OrphanInv, NoOrphans, ClosedSoFar, UnmountedSoFar
  <2>9. CASE (\E p \in Pids : HangUp(p)) \/ UNCHANGED vars
    <3>1. UNCHANGED <<conns, mountlist, openfiles, pc, cur>>
      BY <2>9 DEF HangUp, vars, daemon
    <3> QED
      BY <3>1 DEF OrphanInv, NoOrphans, Clients, ClosedSoFar, UnmountedSoFar
  <2> QED
    BY <2>1, <2>2, <2>3, <2>4, <2>5, <2>6, <2>7, <2>8, <2>9 DEF Next
<1>3. OrphanInv => NoOrphans
  BY DEF OrphanInv
<1> QED
  BY <1>1, <1>2, <1>3, TablesTypeCorrect, MountsSafe, FilesInvariant, PTL DEF Spec

-----------------------------------------------------------------------------
(* Whom a step concerns.                                                     *)

(* What OpenFile, CloseFile, a mount and Unmount do for q leaves the         *)
(* holdings of every other client alone.                                     *)
LEMMA OpenedForOne ==
    ASSUME TypeOK, NEW q \in Pids, NEW n \in Names, OpenFile(q, n),
           UNCHANGED mountlist, NEW p \in Pids, p # q
    PROVE  Holdings(p)' = Holdings(p)
<1>1. CASE UNCHANGED openfiles
  BY <1>1 DEF Holdings, OwnFiles
<1>2. CASE openfiles' # openfiles
  <2>1. PICK r \in Fds : rpc_common_open(r, q, n)
    BY <1>2, OpenedFile
  <2> DEFINE e == [fd |-> r, pid |-> q, slot |-> First(OwnSlots(q, n))]
             L == Len(openfiles)
  <2>2. openfiles' = Append(openfiles, e) /\ e.pid = q
    BY <2>1 DEF rpc_common_open
  <2>3. e \in Entries /\ openfiles \in Seq(Entries)
    BY LookupTypes DEF Entries, TypeOK
  <2> HIDE DEF e
  <2>4. /\ L \in Nat
        /\ Len(openfiles') = L + 1
        /\ openfiles'[L + 1] = e
        /\ \A j \in 1 .. L : openfiles'[j] = openfiles[j]
    BY <2>2, <2>3
  <2>5. 1 .. L + 1 = (1 .. L) \cup {L + 1}
    BY <2>4
  <2>6. OwnFiles(p)' = OwnFiles(p)
    BY <2>2, <2>4, <2>5 DEF OwnFiles
  <2>7. \A j \in OwnFiles(p) : openfiles'[j] = openfiles[j]
    BY <2>4 DEF OwnFiles
  <2> QED
    BY <2>6, <2>7 DEF Holdings
<1> QED
  BY <1>1, <1>2

LEMMA ClosedForOne ==
    ASSUME TypeOK, FilesInv, NEW q \in Pids, NEW fd \in Fds, CloseFile(fd, q),
           UNCHANGED mountlist, NEW p \in Pids, p # q
    PROVE  Holdings(p)' = Holdings(p)
<1>1. CASE UNCHANGED openfiles
  BY <1>1 DEF Holdings, OwnFiles
<1>2. CASE openfiles' # openfiles
  <2>1. PICK k \in 1 .. Len(openfiles) :
            openfiles[k].pid = q /\ openfiles' = ShiftDown(openfiles, k)
    BY <1>2, ClosedFile
  <2> DEFINE t == ShiftDown(openfiles, k)
  <2>2. openfiles \in Seq(Entries)
    BY DEF TypeOK, Entries
  <2>3. /\ \A j \in 1 .. Len(t) :
              \E m \in 1 .. Len(openfiles) : /\ m # k
                                             /\ m = (IF j < k THEN j ELSE j + 1)
                                             /\ t[j] = openfiles[m]
        /\ \A m \in 1 .. Len(openfiles) : m # k =>
              \E j \in 1 .. Len(t) : t[j] = openfiles[m]
    BY <2>2, ShiftDownEntries
  <2>4. openfiles' = t
    BY <2>1
  <2> HIDE DEF t
  <2> DEFINE Of(s) == {s[j] : j \in {i \in 1 .. Len(s) : s[i].pid = p}}
  <2>5. Of(t) = Of(openfiles)
    <3>1. ASSUME NEW e \in Of(t)
          PROVE  e \in Of(openfiles)
      <4>1. PICK j \in 1 .. Len(t) : e = t[j] /\ t[j].pid = p
        OBVIOUS
      <4>2. PICK m \in 1 .. Len(openfiles) : t[j] = openfiles[m]
        BY <2>3
      <4> QED
        BY <4>1, <4>2
    <3>2. ASSUME NEW e \in Of(openfiles)
          PROVE  e \in Of(t)
      <4>1. PICK m \in 1 .. Len(openfiles) : e = openfiles[m] /\ openfiles[m].pid = p
        OBVIOUS
      <4>2. PICK j \in 1 .. Len(t) : t[j] = openfiles[m]
        BY <2>1, <2>3, <4>1
      <4> QED
        BY <4>1, <4>2
    <3> QED
      BY <3>1, <3>2
  <2> QED
    BY <2>4, <2>5 DEF Holdings, OwnFiles
<1> QED
  BY <1>1, <1>2

LEMMA SlotsForOne ==
    ASSUME TypeOK, NEW q \in Pids, NEW p \in Pids, p # q, UNCHANGED openfiles,
           \/ \E fs \in Units, d \in Devs : rpc_command_mount(q, fs, d)
           \/ \E fs \in Units : Unmount(q, fs)
    PROVE  Holdings(p)' = Holdings(p)
<1>1. CASE UNCHANGED mountlist
  BY <1>1 DEF Holdings, OwnFiles
<1>2. CASE mountlist' # mountlist
  <2>1. PICK i, m : /\ i \in Slots /\ mountlist[i].pid # p
                    /\ m.pid # p
                    /\ mountlist' = [mountlist EXCEPT ![i] = m]
    <3>1. CASE \E fs \in Units, d \in Devs : rpc_command_mount(q, fs, d)
      BY <1>2, <3>1, MountedSlot, TablesAssumption
    <3>2. CASE \E fs \in Units : Unmount(q, fs)
      <4>1. PICK fs \in Units : Unmount(q, fs)
        BY <3>2
      <4>2. PICK i \in OwnSlots(q, fs) : mountlist' = [mountlist EXCEPT ![i] = Free]
        BY <1>2, <4>1, UnmountedSlot
      <4>3. Free.pid = NoPid /\ NoPid # p /\ i \in Slots /\ mountlist[i].pid = q
        BY <4>2, TablesAssumption DEF Free, OwnSlots
      <4> QED
        BY <4>2, <4>3
    <3> QED
      BY <3>1, <3>2
  <2>2. mountlist'[i] = m /\ \A k \in Slots \ {i} : mountlist'[k] = mountlist[k]
    BY <2>1 DEF TypeOK
  <2> QED
    BY <2>1, <2>2 DEF Holdings, OwnFiles
<1> QED
  BY <1>1, <1>2

(* While the daemon runs, what the tables hold of a client changes only by   *)
(* its own requests and by the cleanup behind it.                            *)
THEOREM OthersUntouched == Spec => OnlyRequesterChanges
<1> DEFINE Step == pc # "exited" =>
                     \A p \in Pids : Holdings(p)' # Holdings(p) => reply'.to = p
<1>1. TypeOK /\ FilesInv /\ [Next]_vars => Step
  <2> SUFFICES ASSUME TypeOK, FilesInv, [Next]_vars, pc # "exited",
                      NEW p \in Pids, Holdings(p)' # Holdings(p)
               PROVE  reply'.to = p
    OBVIOUS
  <2>1. ~ UNCHANGED <<mountlist, openfiles>>
    BY DEF Holdings, OwnFiles
  <2>2. \A q, r : Write(q, r) => reply'.to = q
    BY DEF Write
  <2>3. ASSUME NEW q \in Pids, Request(q)
        PROVE  reply'.to = p
    <3>1. CASE \E n \in Names : rpc_command_open(q, n) \/ rpc_command_dopen(q, n)
      <4>1. PICK n \in Names : OpenFile(q, n) /\ UNCHANGED mountlist
        BY <3>1 DEF rpc_command_open, rpc_command_dopen
      <4>2. reply'.to = q
        BY <2>2, <4>1 DEF OpenFile
      <4> QED
        BY <4>1, <4>2, OpenedForOne
    <3>2. CASE \E fd \in Fds : rpc_command_close(q, fd) \/ rpc_command_dclose(q, fd)
      <4>1. PICK fd \in Fds : CloseFile(fd, q) /\ UNCHANGED mountlist
        BY <3>2 DEF rpc_command_close, rpc_command_dclose
      <4>2. reply'.to = q
        BY <2>2, <4>1 DEF CloseFile
      <4> QED
        BY <4>1, <4>2, ClosedForOne
    <3>3. CASE \E fs \in Units : rpc_command_umount(q, fs)
      <4>1. PICK fs \in Units : Unmount(q, fs) /\ UNCHANGED openfiles
        BY <3>3 DEF rpc_command_umount
      <4>2. reply'.to = q
        BY <2>2, <4>1 DEF Unmount
      <4> QED
        BY <4>1, <4>2, SlotsForOne
    <3>4. CASE \E fs \in Units, d \in Devs : rpc_command_mount(q, fs, d)
      <4>1. PICK fs \in Units, d \in Devs : rpc_command_mount(q, fs, d)
        BY <3>4
      <4>2. reply'.to = q /\ UNCHANGED openfiles
        BY <2>2, <4>1 DEF rpc_command_mount, MountRefused, MountAsAsked, MountShared,
                          MountElsewhere, DriverMount
      <4> QED
        BY <4>1, <4>2, SlotsForOne
    <3> QED
      BY <2>1, <2>3, <3>1, <3>2, <3>3, <3>4 DEF Request, NameRequest, FdRequest
  <2>4. CASE cleanup_close
    <3>1. pc = "closing" /\ UNCHANGED mountlist
      BY <2>4 DEF cleanup_close
    <3>2. cur.i <= Len(openfiles) /\ CloseFile(openfiles[cur.i].fd, cur.pid)
      BY <2>1, <2>4 DEF cleanup_close
    <3>3. reply'.to = cur.pid
      BY <2>2, <3>2 DEF CloseFile
    <3> QED
      BY <3>1, <3>2, <3>3, CleanupIndices, ClosedForOne
  <2>5. CASE cleanup_umount
    <3>1. pc = "unmounting" /\ cur.i < NMount /\ UNCHANGED openfiles
      BY <2>5 DEF cleanup_umount
    <3>2. Unmount(cur.pid, mountlist[cur.i].fs)
      BY <2>1, <2>5 DEF cleanup_umount
    <3>3. reply'.to = cur.pid
      BY <2>2, <3>2 DEF Unmount
    <3> QED
      BY <3>1, <3>2, <3>3, CleanupIndices, SlotsForOne
  <2> QED
    BY <2>1, <2>3, <2>4, <2>5
       DEF Next, add_new_client, HangUp, cleanup_client, cleanup_finish,
           PollInterrupted, main, vars, daemon
<1> HIDE DEF Step
<1>2. [](TypeOK /\ FilesInv) /\ [][Next]_vars => [][Step]_vars
  BY <1>1, PTL
<1> QED
  BY <1>2, TablesTypeCorrect, FilesInvariant, PTL DEF Spec, OnlyRequesterChanges, Step
=============================================================================
