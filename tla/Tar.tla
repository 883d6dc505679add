--------------------------------- MODULE Tar ---------------------------------
(***************************************************************************)
(* pfs2tar (src/src/pfs2tar.c): a backup of the partitions of a disk to a  *)
(* tar file, then restores of it to other disks.                           *)
(*                                                                         *)
(* A path is a sequence of names; a partition is a function from paths to  *)
(* nodes, with the root at <<>>.  A name has a length, sizes are in bytes, *)
(* and a position in the tar file is in blocks, which is where the reading *)
(* of an entry and every fseek of the program end.  Any call of a driver   *)
(* or of the host may fail: faults collects which did.  The program looks  *)
(* at few of the results.                                                  *)
(***************************************************************************)
EXTENDS Attributes, Sequences, SequencesExt, TLC

CONSTANTS
    Disks,          \* disks a backup is made of
    Targets,        \* disks a restore is made to
    Order,          \* the partitions, in the order hdd0: lists them
    Weight,         \* the length of a name and of the slash before it
    Block,          \* bytes in a block (512)
    SizeModulus,    \* what an unsigned int holds (2^32)
    TimeModulus,    \* and what it holds of a time (2^32)
    NameField,      \* length of the NAME field (100)
    PrefixField,    \* length of the NAME2 field (155)
    SizeAt,         \* where in the header SIZE starts (124)
    LinkField,      \* length of the LINK field (100)
    PathMax,        \* IOMANX_PATH_MAX (256)
    MaxOpen,        \* descriptors of the PFS driver, its -o (32)
    Now,            \* the time of day, for what is created
    MaxRestores,    \* bound: restores of the tar file
    MaxFaults       \* bound: kinds of calls that fail

VARIABLES
    pc,         \* idle, part, visit, dread, unwind, header, umount
    job,        \* what the program does: mode, part (or All), overwrite
    disk,       \* the disk it works on
    mounted,    \* driver: the partition at pfs0:, or None
    open,       \* driver: descriptors in use
    todo,       \* partitions hdd0: has not listed yet
    stack,      \* do_wrapped_ftw's frames: a directory and what is unread of it
    here,       \* its path
    tar,        \* the tar file: NoFile, or its blocks
    at,         \* the block to be read next
    restores,   \* how many restores have been made
    source,     \* history: the disk that was backed up
    before,     \* history: the disk as it was before the restore
    short,      \* history: an entry has fewer blocks than its header says
    faults      \* history: the kinds of calls that failed

vars == <<pc, job, disk, mounted, open, todo, stack, here, tar, at, restores,
          source, before, short, faults>>
archive == <<tar, short>>
walk == <<stack, here>>
history == <<source, before>>

All == "all"
None == "none"
NoFile == <<"no file">>
Parts == ToSet(Order)
Paths == Seq(DOMAIN Weight)
Junk == -1          \* a byte nobody put there
Selected(p) == job.part \in {All, p}

(* Which of the calls K an action makes fail this time.                     *)
Failing(K) == {F \in SUBSET K : Cardinality(faults \cup F) <= MaxFaults}
Fail(F) == faults' = faults \cup F
------------------------------------------------------------------------------
(* The driver (external): what is in a partition and how it changes.        *)

Node(type, bits, time, data) ==
    [mode |-> [type |-> type, bits |-> bits], time |-> time, data |-> data]

Length(path) ==
    LET upto[k \in 0 .. Len(path)] == IF k = 0 THEN 0 ELSE upto[k - 1] + Weight[path[k]]
    IN  upto[Len(path)]
IsDir(t, path) == path \in DOMAIN t /\ t[path].mode.type = "DIR"
Names(t, dir) == {Last(q) : q \in {q \in DOMAIN t : q # <<>> /\ Front(q) = dir}}

(* A node is made in a directory that exists; the directory is changed now. *)
CanMake(t, path) == path \notin DOMAIN t /\ IsDir(t, Front(path))
Make(t, path, node) ==
    IF ~CanMake(t, path) THEN t
    ELSE [q \in DOMAIN t \cup {path} |->
             IF q = path THEN node
             ELSE IF q = Front(path) THEN [t[q] EXCEPT !.time = Now] ELSE t[q]]

Mkdir(t, path) == Make(t, path, Node("DIR", Permissions, Now, <<>>))

(* Opened for writing, empty: a new file, or the one there is.              *)
CanCreate(t, path) ==
    CanMake(t, path) \/ (path \in DOMAIN t /\ t[path].mode.type = "REG")
Create(t, path) ==
    IF path \in DOMAIN t THEN [t EXCEPT ![path].data = <<>>, ![path].time = Now]
    ELSE Make(t, path, Node("REG", {"R", "W"} \X Users, Now, <<>>))

(* Files hold bytes, links those of the path they lead to, directories       *)
(* nothing; every node but the root is in a directory.                       *)
IsNode(n) ==
    /\ n \in [mode : [type : Types, bits : SUBSET Flags], time : Int, data : {n.data}]
    /\ n.data \in Seq(Int) /\ (n.mode.type = "DIR" => n.data = <<>>)
IsTree(t) ==
    /\ t \in [DOMAIN t -> Range(t)] /\ DOMAIN t \subseteq Paths /\ IsDir(t, <<>>)
    /\ \A path \in DOMAIN t : IsNode(t[path]) /\ (path # <<>> => IsDir(t, Front(path)))

ASSUME TarAssumption ==
    /\ {Block, SizeModulus, TimeModulus, NameField, PathMax, MaxOpen} \subseteq Nat \ {0}
    /\ {PrefixField, SizeAt, LinkField} \subseteq Nat
    /\ {Now, MaxRestores, MaxFaults} \subseteq Nat
    /\ \A name \in DOMAIN Weight : Weight[name] \in Nat
    /\ Order \in Seq(Parts) /\ All \notin Parts /\ None \notin Parts
    /\ \A d \in Disks \cup Targets :
          d \in [Parts -> Range(d)] /\ \A p \in Parts : IsTree(d[p])
------------------------------------------------------------------------------
(* The tar file.                                                            *)

Zero == [kind |-> "zero"]
Blocks(size) == (size + Block - 1) \div Block

(* Fault: the last, incomplete block is not skipped.                        *)
Skip_whole_blocks(size) == size \div Block

(* What fseek skips of an entry's data: the sum is one of unsigned ints.    *)
Skip(size) == ((size + Block - 1) % SizeModulus) \div Block

(* A path too long for NAME goes to NAME2 and NAME, parted at the last slash *)
(* NAME2 has room for; NAME starts with a slash then, and a restore looks at *)
(* NAME alone.  NAME is not bounded: it may run on into SIZE.                *)
Long(path) == 1 + Length(path) > NameField
Overruns(path) ==
    Long(path) /\ \E k \in 0 .. Len(path) - 1 :
        LET upto(i) == Length(SubSeq(path, 1, i))
        IN  /\ k = 0 \/ 1 + upto(k) < PrefixField
            /\ k = Len(path) - 1 \/ 1 + upto(k + 1) >= PrefixField
            /\ Length(path) - upto(k) > SizeAt

(* The time, cast to an unsigned int; the target, cut off at the field's end. *)
Stamp(time) == convert_iox_stat_time_to_posix(time) % TimeModulus
Cut(target) == IF Len(target) <= LinkField THEN target ELSE SubSeq(target, 1, LinkField)

Header(p, path, n, size, link) ==
    [kind |-> "header", part |-> IF Long(path) THEN None ELSE p,
     path |-> path, type |-> n.mode.type, size |-> size, link |-> link,
     mode |-> convert_mode_to_posix(n.mode), mtime |-> Stamp(n.time)]

(* The k-th block of a file's data, filled up with zeros.                   *)
DataBlock(data, k) ==
    [kind |-> "data",
     bytes |-> [i \in 1 .. Block |-> LET j == (k - 1) * Block + i
                                     IN  IF j <= Len(data) THEN data[j] ELSE 0]]
DataBlocks(data, n) == [k \in 1 .. n |-> DataBlock(data, k)]

(* What SIZE may hold: only that of a file is written after NAME.            *)
SizeOf(path, node) ==
    CASE node.mode.type = "REG" -> {Len(node.data)}
      [] node.mode.type # "REG" /\ Overruns(path) -> 0 .. SizeModulus - 1
      [] node.mode.type # "REG" /\ ~Overruns(path) -> {0}

(* The blocks tar_c_file writes for a node when the calls F fail, n of them *)
(* of data.  The header is on its way, size and all, before the file is     *)
(* read, and whether or not it could be opened.                             *)
tar_c_file(p, path, node, size, F, n) ==
    LET link == IF node.mode.type = "LNK" /\ "readlink" \notin F THEN Cut(node.data) ELSE <<>>
    IN  IF size >= SizeModulus THEN <<>>
        ELSE <<Header(p, path, node, size, link)>> \o DataBlocks(node.data, n)
------------------------------------------------------------------------------
(* Backup.                                                                  *)

Init ==
    /\ pc = "idle" /\ job = [mode |-> "none", part |-> All, overwrite |-> FALSE]
    /\ disk \in Disks /\ mounted = None /\ open = 0
    /\ todo = <<>> /\ stack = <<>> /\ here = <<>>
    /\ tar = NoFile /\ at = 1 /\ restores = 0
    /\ source = disk /\ before = disk
    /\ short = FALSE /\ faults = {}

(* A tar file there is already is never written to: main returns at once.   *)
main_backup(part) ==
    /\ pc = "idle" /\ job.mode = "none" /\ tar = NoFile
    /\ job' = [mode |-> "backup", part |-> part, overwrite |-> FALSE]
    /\ tar' = <<>>
    /\ todo' = Order
    /\ pc' = "part"
    /\ UNCHANGED <<disk, mounted, open, walk, at, restores, history, short, faults>>

(* tar_part and part_tar: mount the next partition; one that cannot be      *)
(* mounted is passed over.                                                  *)
mount ==
    /\ pc = "part" /\ todo # <<>>
    /\ \E F \in Failing({"mount"}) :
          /\ Fail(IF Selected(Head(todo)) THEN F ELSE {})
          /\ IF ~Selected(Head(todo)) \/ F # {} \/ mounted # None
             THEN todo' = Tail(todo) /\ UNCHANGED <<pc, mounted>>
             ELSE /\ mounted' = Head(todo)
                  /\ pc' = IF job.mode = "backup" THEN "visit" ELSE "header"
                  /\ UNCHANGED todo
    /\ here' = <<>> /\ at' = 1
    /\ UNCHANGED <<job, disk, open, stack, archive, restores, history>>

(* The driver refuses to unmount what has files open; nobody looks.         *)
umount ==
    /\ pc = "umount"
    /\ \E F \in Failing({"umount"}) :
          /\ mounted' = IF F # {} \/ open > 0 THEN mounted ELSE None
          /\ Fail(F)
    /\ pc' = "part" /\ todo' = Tail(todo)
    /\ UNCHANGED <<job, disk, open, walk, archive, at, restores, history>>

(* do_wrapped_ftw up to its loop: stat a node, archive it and, if it is a   *)
(* directory, open that.                                                    *)
do_wrapped_ftw ==
    /\ pc = "visit"
    /\ \E F \in Failing({"getstat", "open", "read", "close", "readlink", "dopen", "fwrite"}) :
          LET node == disk[mounted][here]
              full == open >= MaxOpen
              all == IF node.mode.type = "REG" THEN Blocks(Len(node.data)) ELSE 0
          IN  \/ /\ F = {"getstat"} /\ Fail(F)
                 /\ pc' = "unwind"
                 /\ UNCHANGED <<open, stack, archive>>
              \/ /\ F \subseteq (CASE node.mode.type = "DIR" -> {"dopen", "fwrite"}
                                   [] node.mode.type = "REG" -> {"open", "read", "close", "fwrite"}
                                   [] node.mode.type = "LNK" -> {"readlink", "fwrite"})
                 /\ Fail(F)
                 /\ \E size \in SizeOf(here, node), n \in 0 .. all, lost \in 0 .. all + 1 :
                       LET new == tar_c_file(mounted, here, node, size, F, n)
                           written == SubSeq(new, 1, Len(new) - lost)
                       IN  /\ n # all => "open" \in F \/ "read" \in F \/ full
                           /\ "open" \in F \/ full => n = 0
                           /\ "close" \in F => "open" \notin F /\ ~full /\ size < SizeModulus
                           /\ lost > 0 => "fwrite" \in F
                           /\ lost <= Len(new)
                           /\ tar' = tar \o written
                           /\ short' = (short \/ Len(written) \in 1 .. all)
                 /\ IF node.mode.type # "DIR"
                    THEN /\ pc' = "dread" /\ UNCHANGED stack
                         /\ open' = IF "close" \in F THEN open + 1 ELSE open
                    ELSE IF full \/ "dopen" \in F
                    THEN pc' = "unwind" /\ UNCHANGED <<open, stack>>
                    ELSE /\ pc' = "dread" /\ open' = open + 1
                         /\ stack' = Append(stack, [dir |-> here,
                                                    rest |-> Names(disk[mounted], here)])
    /\ UNCHANGED <<job, disk, mounted, todo, here, at, restores, history>>

(* The directory being read is closed; nobody looks whether it was.         *)
Closed(F) ==
    /\ open' = IF "close" \in F THEN open ELSE open - 1
    /\ stack' = Front(stack)

(* The loop of do_wrapped_ftw.  A dread that fails ends the directory like  *)
(* one that finds nothing more.                                             *)
dread ==
    /\ pc = "dread" /\ stack # <<>>
    /\ \E F \in Failing({"dread", "close"}) :
          /\ Fail(F)
          /\ \/ /\ Last(stack).rest = {} \/ "dread" \in F
                /\ Closed(F)
                /\ pc' = IF Len(stack) = 1 THEN "umount" ELSE "dread"
                /\ UNCHANGED here
             \/ /\ "dread" \notin F
                /\ \E name \in Last(stack).rest :
                      \/ /\ Length(Append(Last(stack).dir, name)) > PathMax
                         /\ Closed(F)
                         /\ pc' = "unwind"
                         /\ UNCHANGED here
                      \/ /\ Length(Append(Last(stack).dir, name)) <= PathMax /\ F = {}
                         /\ here' = Append(Last(stack).dir, name)
                         /\ stack' = [stack EXCEPT ![Len(stack)].rest = @ \ {name}]
                         /\ pc' = "visit"
                         /\ UNCHANGED open
    /\ UNCHANGED <<job, disk, mounted, todo, archive, at, restores, history>>

(* Fault: the directories are left open.                                    *)
unwind_leaks ==
    /\ pc = "unwind"
    /\ IF stack = <<>> THEN pc' = "umount" /\ UNCHANGED <<open, stack>>
       ELSE stack' = Front(stack) /\ UNCHANGED <<pc, open>>
    /\ UNCHANGED <<job, disk, mounted, todo, here, archive, at, restores, history, faults>>

(* A failure returns through all the frames, each closes its directory.     *)
unwind ==
    /\ pc = "unwind"
    /\ \/ stack = <<>> /\ pc' = "umount" /\ UNCHANGED <<open, stack, faults>>
       \/ /\ stack # <<>>
          /\ \E F \in Failing({"close"}) : Fail(F) /\ Closed(F)
          /\ UNCHANGED pc
    /\ UNCHANGED <<job, disk, mounted, todo, here, archive, at, restores, history>>

(* The end of main: two blocks of zeros end an archive; a tar file that is  *)
(* no longer than that is removed, also when it was only read.              *)
main_end ==
    /\ pc = "part"
    /\ \E F \in Failing({"dread", "fwrite"}) :
          LET end == IF job.mode = "backup" /\ "fwrite" \notin F
                     THEN tar \o <<Zero, Zero>> ELSE tar
          IN  /\ todo = <<>> \/ "dread" \in F
              /\ Fail(F)
              /\ tar' = IF Len(end) <= 2 THEN NoFile ELSE end
    /\ todo' = <<>> /\ pc' = "idle"
    /\ UNCHANGED <<job, disk, mounted, open, walk, at, restores, history, short>>
------------------------------------------------------------------------------
(* Restore.                                                                 *)

main_restore(part, overwrite) ==
    /\ pc = "idle" /\ job.mode # "none" /\ tar # NoFile
    /\ restores < MaxRestores /\ restores' = restores + 1
    /\ job' = [mode |-> "restore", part |-> part, overwrite |-> overwrite]
    /\ disk' \in IF restores = 0 THEN Targets ELSE {disk}
    /\ before' = disk'
    /\ mounted' = None /\ open' = 0 /\ stack' = <<>>
    /\ todo' = Order
    /\ pc' = "part"
    /\ UNCHANGED <<here, archive, at, source, faults>>

(* What the mounted partition becomes, the block to go on at, and the       *)
(* descriptors that stay open.                                              *)
Restored(t, next, kept) ==
    /\ disk' = [disk EXCEPT ![mounted] = t]
    /\ at' = next
    /\ open' = open + kept
    /\ UNCHANGED <<pc, job, mounted, todo, walk, archive, restores, history>>

InFile == at <= Len(tar)
AtHeader == pc = "header" /\ InFile /\ tar[at].kind = "header"
Foreign(b) == b.part # mounted \/ b.path = <<>>

(* Fault: an entry that exists is not looked for.                           *)
Existing_never(b, F) == FALSE

(* The getstat that keeps an entry from being restored.                     *)
Existing(b, F) ==
    ~job.overwrite /\ "getstat" \notin F /\ b.path \in DOMAIN disk[mounted]

(* Entries of other partitions, the root, and what exists are skipped.      *)
skip_entry ==
    /\ AtHeader
    /\ Foreign(tar[at]) \/ Existing(tar[at], {})
    /\ Restored(disk[mounted], at + 1 + Skip(tar[at].size), 0)
    /\ UNCHANGED faults

(* The end of the archive, or of the tar file.                              *)
restore_end ==
    /\ pc = "header"
    /\ IF InFile THEN tar[at].kind = "zero" \/ (tar[at].kind = "data" /\ tar[at].bytes[1] = 0)
       ELSE TRUE
    /\ pc' = "umount"
    /\ UNCHANGED <<job, disk, mounted, open, todo, walk, archive, at, restores,
                   history, faults>>

(* Data taken for a header: some name, some size.                           *)
misread ==
    /\ pc = "header" /\ InFile /\ tar[at].kind = "data" /\ tar[at].bytes[1] # 0
    /\ \E n \in 0 .. Len(tar) - at : Restored(disk[mounted], at + 1 + n, 0)
    /\ UNCHANGED faults

(* ensure_parent_dirs_exist: mkdir of each directory above, errors ignored: *)
(* where the driver fails, the ones below cannot be made either.            *)
ensure_parent_dirs_exist(t, path, made) ==
    LET after[k \in 0 .. made] ==
            IF k = 0 THEN t ELSE Mkdir(after[k - 1], SubSeq(path, 1, k))
    IN  after[made]

Parents(path, F) == IF "mkdir" \in F THEN 0 .. Len(path) - 1 ELSE {Len(path) - 1}

(* The two chstat: the mode, then the times; of what could be made.         *)
chstat(t, b, F) ==
    IF b.path \notin DOMAIN t THEN t
    ELSE [t EXCEPT
            ![b.path].mode.bits = IF "chstat mode" \in F THEN @
                                  ELSE convert_posix_mode_to_iomanx(b.mode).bits,
            ![b.path].time = IF "chstat time" \in F THEN @
                             ELSE convert_posix_time_to_iox_time(b.mtime)]

restore_directory ==
    /\ AtHeader /\ tar[at].type = "DIR" /\ ~Foreign(tar[at])
    /\ \E F \in Failing({"getstat", "mkdir", "chstat mode", "chstat time"}),
          made \in 0 .. PathMax :
          LET b == tar[at]
              t == ensure_parent_dirs_exist(disk[mounted], b.path, made)
              u == IF "mkdir" \in F THEN t ELSE Mkdir(t, b.path)
          IN  /\ ~Existing(b, F) /\ made \in Parents(b.path, F)
              /\ Fail(F)
              /\ Restored(chstat(u, b, F), at + 1, 0)

restore_link ==
    /\ AtHeader /\ tar[at].type = "LNK" /\ ~Foreign(tar[at])
    /\ \E F \in Failing({"getstat", "mkdir", "symlink"}), made \in 0 .. PathMax :
          LET b == tar[at]
              t == ensure_parent_dirs_exist(disk[mounted], b.path, made)
          IN  /\ ~Existing(b, F) /\ made \in Parents(b.path, F)
              /\ Fail(F)
              /\ Restored(IF "symlink" \in F THEN t
                          ELSE Make(t, b.path, Node("LNK", Permissions, Now, b.link)),
                          at + 1, 0)

(* The bytes of the k-th chunk of an entry of this size: whatever is there, *)
(* and beyond the end of the file what was in the buffer.                   *)
Chunk(k, size) ==
    LET n == IF k * Block <= size THEN Block ELSE size - (k - 1) * Block
    IN  [i \in 1 .. n |-> IF at + k <= Len(tar) /\ tar[at + k].kind = "data"
                          THEN tar[at + k].bytes[i] ELSE Junk]

(* The chunks are written one by one, whatever becomes of each; then the    *)
(* file is closed and what fills up its last block is skipped.              *)
restore_file ==
    /\ AtHeader /\ tar[at].type = "REG" /\ ~Foreign(tar[at])
    /\ \E F \in Failing({"getstat", "mkdir", "open", "write", "close", "chstat mode",
                      "chstat time"}),
          made \in 0 .. PathMax :
          LET b == tar[at]
              t == ensure_parent_dirs_exist(disk[mounted], b.path, made)
              last == Blocks(b.size)
          IN  /\ ~Existing(b, F) /\ made \in Parents(b.path, F)
              /\ Fail(F)
              /\ IF "open" \in F \/ open >= MaxOpen \/ ~CanCreate(t, b.path)
                 THEN "close" \notin F /\ Restored(t, at + 1 + Skip(b.size), 0)
                 ELSE \E written \in SUBSET (1 .. last) :
                        LET data == FlattenSeq([k \in 1 .. last |->
                                        IF k \in written THEN Chunk(k, b.size) ELSE <<>>])
                            u == [Create(t, b.path) EXCEPT ![b.path].data = data]
                        IN  /\ written # 1 .. last => "write" \in F
                            /\ Restored(chstat(u, b, F), at + 1 + last,
                                        IF "close" \in F THEN 1 ELSE 0)

Next ==
    \/ \E part \in Parts \cup {All} :
          \/ main_backup(part)
          \/ \E overwrite \in BOOLEAN : main_restore(part, overwrite)
    \/ mount \/ do_wrapped_ftw \/ dread \/ unwind \/ umount \/ main_end
    \/ skip_entry \/ restore_end \/ misread
    \/ restore_directory \/ restore_link \/ restore_file

Spec == Init /\ [][Next]_vars
------------------------------------------------------------------------------
(* A restore that starts to read at a header goes on reading at headers up  *)
(* to the end of the archive, whatever entries it skips, fails to create or *)
(* writes in part: unless the backup was left with an entry shorter than    *)
(* its header says (a file that could not be opened or read to its end is   *)
(* not reported), there is one so close to 4 GiB that the sum in fseek's    *)
(* argument is zero, or a directory or link with a name that ran on into    *)
(* the SIZE of its header.                                                  *)
ArchiveInStep ==
    pc = "header" /\ InFile
        => \/ tar[at].kind # "data"
           \/ short
           \/ \E i \in 1 .. at :
                 /\ tar[i].kind = "header"
                 /\ \/ tar[i].size > SizeModulus - Block
                    \/ tar[i].type # "REG" /\ Overruns(tar[i].path)

(* What the program can archive and read back: no path too long for NAME or *)
(* for the walk, no more directories below each other than there are        *)
(* descriptors, no file close to or over 4 GiB, no target too long for LINK *)
(* and no time before 1970 or too late for an unsigned int.                 *)
Walkable(t) ==
    \A path \in DOMAIN t :
        /\ ~Long(path) /\ Length(path) <= PathMax /\ Len(path) < MaxOpen
        /\ Len(t[path].data) <= SizeModulus - Block
        /\ t[path].mode.type = "LNK" => Len(t[path].data) <= LinkField
        /\ convert_iox_stat_time_to_posix(t[path].time) \in 0 .. TimeModulus - 1

(* Nothing in the partition is in the way of the node.                      *)
Fits(t, path, type) ==
    /\ \A k \in 0 .. Len(path) - 1 :
          SubSeq(path, 1, k) \in DOMAIN t => IsDir(t, SubSeq(path, 1, k))
    /\ path \in DOMAIN t => t[path].mode.type = type /\ type # "LNK" /\ job.overwrite

(* Backup and restore are inverse to each other: when no call fails, every  *)
(* directory, file and link of the source is there after the restore, with  *)
(* its data; files and directories have their mode; files, and directories  *)
(* nothing was put into after them, have their time.                        *)
RoundTrip ==
    pc = "idle" /\ job.mode = "restore" /\ faults = {}
        /\ (\A p \in Parts : Walkable(source[p]))
    => \A i \in DOMAIN tar : tar[i].kind = "header" /\ Selected(tar[i].part) =>
          \A path \in DOMAIN source[tar[i].part] \ {<<>>} :
             LET p == tar[i].part
                 old == source[p][path]
             IN  Fits(before[p], path, old.mode.type) =>
                    /\ path \in DOMAIN disk[p]
                    /\ disk[p][path].data = old.data
                    /\ disk[p][path].mode.type = old.mode.type
                    /\ old.mode.type # "LNK" => disk[p][path].mode = old.mode
                    /\ old.mode.type = "REG" \/ (old.mode.type = "DIR" /\ Names(disk[p], path) = {})
                         => disk[p][path].time = old.time

(* A restore changes no other partition than the one it was asked for, and  *)
(* without --overwrite nothing that existed, but for the times of the       *)
(* directories it adds to: unless a getstat failed, which the program takes *)
(* for a file that is not there.                                            *)
KeepsExisting ==
    job.mode = "restore" =>
        \A p \in Parts :
            /\ ~Selected(p) => disk[p] = before[p]
            /\ ~job.overwrite /\ "getstat" \notin faults =>
                  \A path \in DOMAIN before[p] :
                      /\ disk[p][path].mode = before[p][path].mode
                      /\ disk[p][path].data = before[p][path].data
                      /\ ~IsDir(before[p], path) => disk[p][path] = before[p][path]

(* One partition's trouble is not another's: whatever cannot be opened,     *)
(* read or walked, as long as what was opened can be closed, the partition  *)
(* can be unmounted and the next one gets into the archive.                 *)
EveryPartitionArchived ==
    pc = "idle" /\ job.mode = "backup"
        /\ faults \cap {"mount", "umount", "getstat", "dread", "fwrite", "close"} = {}
    => \A p \in Parts : Selected(p) =>
          \E i \in DOMAIN tar : tar[i].kind = "header" /\ tar[i].part = p /\ tar[i].path = <<>>
==============================================================================
