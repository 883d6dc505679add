------------------------------- MODULE Mkpart -------------------------------
(***************************************************************************)
(* The mkpart command of pfsshell (do_mkpart in src/src/shell.c): a main   *)
(* partition of the largest size that fits, then sub-partitions for the    *)
(* rest, each of them a power of two, then PFS on it when asked for.  The  *)
(* APA driver may refuse any of its steps, a close included.               *)
(***************************************************************************)
EXTENDS Integers

CONSTANTS
    Requests,     \* sizes in MB the user may ask for
    MaxSubs       \* sub-partitions APA can attach to a partition (64)

ASSUME MkpartAssumption ==
    /\ Requests \subseteq Nat
    /\ MaxSubs \in Nat

VARIABLES
    pc,           \* open, main, subs, close, format, done
    requested,    \* the size argument
    pfs,          \* the type argument is "PFS"
    size_in_mb, i, j, result,          \* do_mkpart's locals
    refused,      \* history: the driver has refused a step
    main, alloc, subs, largest,        \* APA: size of main, of the whole,
                                       \* how many subs, the largest of them
    fd,           \* APA: the partition's descriptor: none, open, or kept open
                  \* by a driver that refused to close it
    formatted     \* PFS: mkpfs succeeded

locals == <<size_in_mb, i, j, result>>
apa == <<main, alloc, subs, largest>>
mkpart_vars == <<pc, requested, pfs, locals, refused, apa, fd, formatted>>

Success == 0
Failure == -1
MainIndex == 9        \* one past the largest main partition tried, 2G

sizesMB == <<8, 16, 32, 64, 128, 256, 512, 1024, 2048>>
Size(n) == sizesMB[n + 1]
-------------------------------------------------------------------------------
MkpartInit ==
    /\ pc = "open"
    /\ requested \in Requests
    /\ pfs \in BOOLEAN
    /\ size_in_mb = requested /\ i = MainIndex /\ j = 0 /\ result = Failure
    /\ refused = FALSE
    /\ main = 0 /\ alloc = 0 /\ subs = 0 /\ largest = 0
    /\ fd = "none" /\ formatted = FALSE

(* Any answer but "no such partition" ends the command; the descriptor is   *)
(* closed if there is one, or the close fails.  So does a bad size or type. *)
ExistsOrBadArgument ==
    /\ pc = "open"
    /\ pc' = "done" /\ refused' = TRUE
    /\ fd' \in {"none", "kept"}
    /\ UNCHANGED <<requested, pfs, locals, apa, formatted>>

NoSuchPartition ==
    /\ pc = "open"
    /\ pc' = "main"
    /\ UNCHANGED <<requested, pfs, locals, refused, apa, fd, formatted>>

(* Fault: the size that failed is still taken off.                          *)
TryMain_charges_failure ==
    /\ pc = "main" /\ result < 0 /\ i > 0
    /\ i' = i - 1
    /\ IF Size(i - 1) > size_in_mb
       THEN UNCHANGED <<size_in_mb, result, refused, apa, fd>>
       ELSE \/ /\ refused' = TRUE
               /\ size_in_mb' = size_in_mb - Size(i - 1)
               /\ UNCHANGED <<result, apa, fd>>
            \/ /\ main' = Size(i - 1) /\ alloc' = Size(i - 1) /\ fd' = "open"
               /\ size_in_mb' = size_in_mb - Size(i - 1) /\ result' = Success
               /\ UNCHANGED <<refused, subs, largest>>
    /\ UNCHANGED <<pc, requested, pfs, j, formatted>>

(* Fault: a size that fits exactly is passed over.                          *)
TryMain_strict ==
    /\ pc = "main" /\ result < 0 /\ i > 0
    /\ i' = i - 1
    /\ IF Size(i - 1) >= size_in_mb
       THEN UNCHANGED <<size_in_mb, result, refused, apa, fd>>
       ELSE /\ main' = Size(i - 1) /\ alloc' = Size(i - 1) /\ fd' = "open"
            /\ size_in_mb' = size_in_mb - Size(i - 1) /\ result' = Success
            /\ UNCHANGED <<refused, subs, largest>>
    /\ UNCHANGED <<pc, requested, pfs, j, formatted>>

(* One turn of the loop that creates the main partition.                    *)
TryMain ==
    /\ pc = "main" /\ result < 0 /\ i > 0
    /\ i' = i - 1
    /\ IF Size(i - 1) > size_in_mb
       THEN UNCHANGED <<size_in_mb, result, refused, apa, fd>>
       ELSE \/ /\ refused' = TRUE
               /\ UNCHANGED <<size_in_mb, result, apa, fd>>
            \/ /\ main' = Size(i - 1) /\ alloc' = Size(i - 1) /\ fd' = "open"
               /\ size_in_mb' = size_in_mb - Size(i - 1) /\ result' = Success
               /\ UNCHANGED <<refused, subs, largest>>
    /\ UNCHANGED <<pc, requested, pfs, j, formatted>>

(* Fault: sub-partitions start at 2G again.                                 *)
MainDone_forgets_main ==
    /\ pc = "main" /\ (result >= 0 \/ i = 0)
    /\ j' = MainIndex - 1
    /\ pc' = IF fd = "open" THEN "subs" ELSE "close"
    /\ UNCHANGED <<requested, pfs, size_in_mb, i, result, refused, apa, fd, formatted>>

MainDone ==
    /\ pc = "main" /\ (result >= 0 \/ i = 0)
    /\ j' = i
    /\ pc' = IF fd = "open" THEN "subs" ELSE "close"
    /\ UNCHANGED <<requested, pfs, size_in_mb, i, result, refused, apa, fd, formatted>>

(* Fault: a size that fits exactly is passed over.                          *)
TrySub_strict ==
    /\ pc = "subs" /\ size_in_mb > 0 /\ j >= 0
    /\ \/ /\ Size(j) < size_in_mb /\ subs < MaxSubs
          /\ alloc' = alloc + Size(j) /\ subs' = subs + 1
          /\ largest' = IF Size(j) > largest THEN Size(j) ELSE largest
          /\ size_in_mb' = size_in_mb - Size(j)
          /\ UNCHANGED <<j, refused, main>>
       \/ /\ j' = j - 1
          /\ refused' = (refused \/ Size(j) < size_in_mb)
          /\ UNCHANGED <<size_in_mb, apa>>
    /\ UNCHANGED <<pc, requested, pfs, i, result, fd, formatted>>

(* Fault: the size is not compared with what is left.                       *)
TrySub_unchecked ==
    /\ pc = "subs" /\ size_in_mb > 0 /\ j >= 0
    /\ subs < MaxSubs
    /\ alloc' = alloc + Size(j) /\ subs' = subs + 1
    /\ largest' = IF Size(j) > largest THEN Size(j) ELSE largest
    /\ size_in_mb' = size_in_mb - Size(j)
    /\ UNCHANGED <<pc, requested, pfs, i, j, result, refused, main, fd, formatted>>

(* Fault: the smallest size is tried for ever.                              *)
TrySub_stuck ==
    /\ pc = "subs" /\ size_in_mb > 0 /\ j >= 0
    /\ j' = IF j = 0 THEN 0 ELSE j - 1
    /\ refused' = (refused \/ Size(j) <= size_in_mb)
    /\ UNCHANGED <<pc, requested, pfs, size_in_mb, i, result, apa, fd, formatted>>

(* One turn of the loop that adds sub-partitions (HIOCADDSUB): the same     *)
(* size again after a success, the next smaller one after a failure.        *)
TrySub ==
    /\ pc = "subs" /\ size_in_mb > 0 /\ j >= 0
    /\ \/ /\ Size(j) <= size_in_mb /\ subs < MaxSubs
          /\ alloc' = alloc + Size(j) /\ subs' = subs + 1
          /\ largest' = IF Size(j) > largest THEN Size(j) ELSE largest
          /\ size_in_mb' = size_in_mb - Size(j)
          /\ UNCHANGED <<j, refused, main>>
       \/ /\ j' = j - 1
          /\ refused' = (refused \/ Size(j) <= size_in_mb)
          /\ UNCHANGED <<size_in_mb, apa>>
    /\ UNCHANGED <<pc, requested, pfs, i, result, fd, formatted>>

SubsDone ==
    /\ pc = "subs" /\ (size_in_mb = 0 \/ j < 0)
    /\ pc' = "close"
    /\ UNCHANGED <<requested, pfs, locals, refused, apa, fd, formatted>>

(* Fault: the partition is formatted while it is still open.                *)
Close_skipped ==
    /\ pc = "close"
    /\ pc' = IF result >= 0 /\ pfs THEN "format" ELSE "done"
    /\ fd' = IF result >= 0 /\ pfs THEN fd ELSE "none"
    /\ UNCHANGED <<requested, pfs, locals, refused, apa, formatted>>

(* The result of the close is not looked at: the partition is formatted     *)
(* even if the driver keeps it open.                                        *)
Close ==
    /\ pc = "close"
    /\ fd' \in IF result >= 0 THEN {"none", "kept"} ELSE {fd}
    /\ pc' = IF result >= 0 /\ pfs THEN "format" ELSE "done"
    /\ UNCHANGED <<requested, pfs, locals, refused, apa, formatted>>

mkpfs ==
    /\ pc = "format"
    /\ formatted' \in BOOLEAN
    /\ result' = IF formatted' THEN Success ELSE Failure
    /\ refused' = (refused \/ ~formatted')
    /\ pc' = "done"
    /\ UNCHANGED <<requested, pfs, size_in_mb, i, j, apa, fd>>

MkpartNext ==
    \/ ExistsOrBadArgument \/ NoSuchPartition \/ TryMain \/ MainDone
    \/ TrySub \/ SubsDone \/ Close \/ mkpfs

(* The command is one thread that runs whenever it can.                     *)
MkpartSpec == MkpartInit /\ [][MkpartNext]_mkpart_vars /\ WF_mkpart_vars(MkpartNext)
-------------------------------------------------------------------------------
(* Type correctness of the locals and of the driver's state.                *)
TypeOK ==
    /\ pc \in {"open", "main", "subs", "close", "format", "done"}
    /\ requested \in Nat /\ size_in_mb \in Nat
    /\ pfs \in BOOLEAN /\ refused \in BOOLEAN /\ fd \in {"none", "open", "kept"}
    /\ formatted \in BOOLEAN
    /\ i \in 0 .. MainIndex /\ j \in -1 .. MainIndex - 1
    /\ result \in {Success, Failure}
    /\ main \in Nat /\ alloc \in Nat /\ subs \in 0 .. MaxSubs /\ largest \in Nat

(* What the shell still has to allocate and what the driver has allocated   *)
(* add up to what the user asked for, whatever steps the driver refuses: a  *)
(* partition is never larger than requested.                                *)
SizeConserved == alloc + size_in_mb = requested

(* No sub-partition is larger than its main partition ("limit sub partition *)
(* max size"), a restriction of APA.                                        *)
SubsFitMain == largest <= main

(* When the driver refuses nothing, less than the smallest partition is     *)
(* left over: trying the sizes from large to small loses nothing.           *)
NothingLeftOver ==
    pc = "done" /\ result = Success /\ ~refused => size_in_mb < Size(0)

(* As long as nothing was refused, main has the largest size of the table   *)
(* that does not exceed what was asked for.                                 *)
MainIsLargest ==
    main # 0 /\ ~refused =>
        \A n \in 0 .. MainIndex - 1 : Size(n) <= requested => Size(n) <= main

(* The descriptor of the new partition is closed before mkpfs opens the     *)
(* partition again, and when the command ends, on every path: only a driver *)
(* that refused the close still has it open.                                *)
ClosedBeforeFormat == pc \in {"format", "done"} => fd # "open"

(* The command ends: every turn of its loops makes an index or the size     *)
(* smaller.                                                                 *)
Terminates == <>(pc = "done")
===============================================================================
