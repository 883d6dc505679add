-------------------------------- MODULE Shell --------------------------------
(***************************************************************************)
(* The interactive session of pfsshell (src/src/shell.c): the context      *)
(* (device selected, partition mounted, mount point, path) and every       *)
(* command that changes it or the disk, over the APA and PFS drivers.      *)
(*                                                                         *)
(* A path is the sequence of what stands between its slashes: a name, ".." *)
(* or nothing at all (Blank, left by a trailing slash).  The context keeps *)
(* the text of the path; the driver keeps the directory chdir reached.     *)
(***************************************************************************)
EXTENDS Naturals, Sequences, FiniteSets, SequencesExt

CONSTANTS
    Parts,        \* partition names
    SysParts,     \* the partitions "initialize" creates and formats
    Net,          \* the one of them whose mkpfs result is kept ("__net")
    NoPart,       \* nothing is mounted on pfs0:
    Names,        \* names of files and directories
    MaxPath,      \* components ctx->path can hold (256 bytes)
    MaxArg,       \* components of the longest argument given
    MaxEntries    \* entries the disk has room for

ASSUME ShellAssumption ==
    /\ Net \in SysParts /\ SysParts \subseteq Parts /\ NoPart \notin Parts
    /\ MaxPath \in Nat \ {0} /\ MaxArg \in Nat /\ MaxEntries \in Nat
    /\ ".." \notin Names /\ "" \notin Names

VARIABLES
    running,      \* shell_loop has not ended
    setup, mount, mount_point, path,   \* context_t
    last,         \* the last command, what it returned, and what its
                  \* arguments named when it changed files or directories
    settled,      \* history: chdir has accepted path since the last mount,
                  \* and no argument with ".." removed or moved that place
    kind,         \* APA: none, raw or pfs, for each name
    dirs, files,  \* PFS: the directories and the files of each partition
    unit, cwd     \* PFS: what pfs0: holds, and its working directory

context == <<running, setup, mount, mount_point, path, settled>>
disk == <<kind, dirs, files>>
driver == <<unit, cwd>>
vars == <<context, disk, driver, last>>

Up == ".."
Blank == ""
Components == Names \cup {Up, Blank}
Dirs == BoundedSeq(Names, MaxPath)
Texts == BoundedSeq(Components, MaxPath)
Empty == {<<>>}                     \* a new filesystem: the root only
Removed == <<Up>>                   \* of a working directory: not on the disk

(* An argument is put behind the path as it is: a name, a longer path, one  *)
(* that leads upwards, or nothing.  rename's second one may be absolute.    *)
Arguments == BoundedSeq(Names \cup {Up}, MaxArg)
Destinations == {"abs", "rel"} \X Arguments

OK == 0
ERR == 1                            \* any result other than 0
-------------------------------------------------------------------------------
(* The drivers (submodules, external), as the shell uses them.              *)

Step(d, c) ==
    IF c = Blank THEN d
    ELSE IF c = Up THEN (IF d = <<>> THEN d ELSE Front(d))
    ELSE Append(d, c)

(* The directories on the way along a path, from d on.                      *)
Walk(d, p) ==
    LET at[n \in 0 .. Len(p)] == IF n = 0 THEN d ELSE Step(at[n - 1], p[n])
    IN  at

From(d, p) == Walk(d, p)[Len(p)]
Resolve(p) == From(<<>>, p)

(* Every directory on the way must be there.                                *)
IsDirectory(p) ==
    \A n \in 0 .. Len(p) : Walk(<<>>, p)[n] \in dirs[unit]

Reachable(d, p) ==
    d \in dirs[unit] /\ \A n \in 0 .. Len(p) - 1 : Walk(d, p)[n] \in dirs[unit]

Entries(p) == (dirs[p] \cup files[p]) \ Empty

HasRoom ==
    Cardinality(UNION {{p} \X Entries(p) : p \in Parts}) < MaxEntries

Below(d, e) == Len(e) > Len(d) /\ SubSeq(e, 1, Len(d)) = d

Rebased(e, from, to) ==
    IF e = from \/ Below(from, e)
    THEN to \o SubSeq(e, Len(from) + 1, Len(e)) ELSE e

Moved(S, from, to) == {Rebased(e, from, to) : e \in S}

(* Makes p an empty filesystem, a partition of another kind, or nothing.    *)
SetPart(p, k) ==
    /\ kind' = [kind EXCEPT ![p] = k]
    /\ dirs' = [dirs EXCEPT ![p] = Empty]
    /\ files' = [files EXCEPT ![p] = {}]
-------------------------------------------------------------------------------
(* The loop: a command is looked up by its name and its requirements are    *)
(* checked; when they are not met nothing else happens and 0 is returned.   *)

Requirements ==
    [initialize |-> {"device", "no_mount"}, mkpart |-> {"device"},
     device |-> {"no_device"},
     mount  |-> {"device", "no_mount"}, umount |-> {"device", "mount"},
     cd     |-> {"device", "mount"},    mkdir  |-> {"device", "mount"},
     rmdir  |-> {"device", "mount"},    put    |-> {"device", "mount"},
     rm     |-> {"device", "mount"},    rmpart |-> {"device"},
     rename |-> {"device"},             ls     |-> {"device"},
     df     |-> {"device"},             get    |-> {"device", "mount"},
     pwd    |-> {"device", "mount"},    usage  |-> {"device", "no_mount"},
     lcd    |-> {},                     help   |-> {}]

(* Fault: a command may run whether or not a partition is mounted.          *)
check_requirements_no_mount_ignored(req) ==
    /\ "device" \in req => setup
    /\ "no_device" \in req => ~setup
    /\ "mount" \in req => mount

check_requirements(req) ==
    /\ "device" \in req => setup
    /\ "no_device" \in req => ~setup
    /\ "mount" \in req => mount
    /\ "no_mount" \in req => ~mount

Command(c) == running /\ check_requirements(Requirements[c])

Returns(c, r) == last' = [cmd |-> c, result |-> r, named |-> {}]

Refused(c) ==
    /\ running
    /\ ~check_requirements(Requirements[c])
    /\ Returns("refused", OK)
    /\ UNCHANGED <<context, disk, driver>>

(* ls, df, get, pwd, lcd, help and initialize without its argument (usage)  *)
(* leave context and disk as they are.                                      *)
ReadOnly(c) ==
    /\ Command(c)
    /\ \E r \in {OK, ERR} : Returns("read", r)
    /\ UNCHANGED <<context, disk, driver>>
-------------------------------------------------------------------------------
(* The device and its partitions.                                           *)

(* A device that cannot be opened, or a driver that fails, ends the program. *)
do_device ==
    /\ Command("device")
    /\ \/ setup' = TRUE /\ UNCHANGED running /\ Returns("device", OK)
       \/ running' = FALSE /\ UNCHANGED setup /\ Returns("device", ERR)
    /\ UNCHANGED <<mount, mount_point, path, settled, disk, driver>>

(* All partitions go; done is the set of those mkpfs succeeded on.          *)
Formatted(done) ==
    /\ kind' = [p \in Parts |-> IF p \in done THEN "pfs"
                                ELSE IF p \in SysParts THEN "raw" ELSE "none"]
    /\ dirs' = [p \in Parts |-> Empty]
    /\ files' = [p \in Parts |-> {}]

do_initialize ==
    /\ Command("initialize")
    /\ \/ /\ Returns("initialize", ERR)
          /\ UNCHANGED disk
       \/ \E done \in SUBSET SysParts :
             /\ Formatted(done)
             /\ Returns("initialize", IF Net \in done THEN OK ELSE ERR)
    /\ UNCHANGED <<context, driver>>

(* A partition that exists is refused; what Mkpart.tla details may stop      *)
(* before a partition is there, or leave one that mkpfs failed on.          *)
do_mkpart(p) ==
    /\ Command("mkpart")
    /\ \/ /\ Returns("mkpart", ERR)
          /\ UNCHANGED disk
       \/ /\ kind[p] = "none"
          /\ \E k \in {"raw", "pfs"}, r \in {OK, ERR} :
                /\ k = "pfs" => r = OK
                /\ SetPart(p, k)
                /\ Returns("mkpart", r)
    /\ UNCHANGED <<context, driver>>

(* The driver does not remove the partition it has mounted.                 *)
do_rmpart(p) ==
    /\ Command("rmpart")
    /\ \/ /\ Returns("rmpart", ERR)
          /\ UNCHANGED disk
       \/ /\ kind[p] # "none" /\ unit # p
          /\ SetPart(p, "none")
          /\ Returns("rmpart", OK)
    /\ UNCHANGED <<context, driver>>

RenamePartition(p, q) ==
    /\ Command("rename") /\ ~mount
    /\ \/ /\ Returns("rename", ERR)
          /\ UNCHANGED disk
       \/ /\ kind[p] # "none" /\ kind[q] = "none"
          /\ kind' = [kind EXCEPT ![q] = kind[p], ![p] = "none"]
          /\ dirs' = [dirs EXCEPT ![q] = dirs[p], ![p] = Empty]
          /\ files' = [files EXCEPT ![q] = files[p], ![p] = {}]
          /\ Returns("rename", OK)
    /\ UNCHANGED <<context, driver>>
-------------------------------------------------------------------------------
(* Mounting, and the current directory.                                     *)

(* The mount point is overwritten first; the path is left as it is.         *)
do_mount(p) ==
    /\ Command("mount")
    /\ mount_point' = p
    /\ \/ /\ Returns("mount", ERR)
          /\ UNCHANGED <<mount, settled, driver>>
       \/ /\ kind[p] = "pfs" /\ unit = NoPart
          /\ unit' = p /\ cwd' = <<>>
          /\ mount' = TRUE
          /\ settled' = (path = <<>>)
          /\ Returns("mount", OK)
    /\ UNCHANGED <<running, setup, path, disk>>

do_umount ==
    /\ Command("umount")
    /\ \/ /\ Returns("umount", ERR)
          /\ UNCHANGED <<mount, driver>>
       \/ /\ unit' = NoPart /\ cwd' = <<>>
          /\ mount' = FALSE
          /\ Returns("umount", OK)
    /\ UNCHANGED <<running, setup, mount_point, path, settled, disk>>

(* The argument of cd: "/" is <<"abs", <<>>>>, ".." and "../" are           *)
(* <<"parent", <<>>>>.                                                      *)
CdArgs ==
    {<<"parent", <<>>>>} \cup ({"abs"} \X Texts)
        \cup ({"rel"} \X (Texts \ {<<>>, <<Up>>, <<Up, Blank>>}))

(* Fault: the text is cut at its first slash.                               *)
cd_path_first_slash(arg) ==
    CASE arg[1] = "parent" -> <<>>
      [] arg[1] = "abs"    -> arg[2]
      [] arg[1] = "rel"    -> path \o arg[2]

cd_path(arg) ==
    CASE arg[1] = "parent" -> IF path = <<>> THEN path ELSE Front(path)
      [] arg[1] = "abs"    -> arg[2]
      [] arg[1] = "rel"    -> path \o arg[2]

(* Fault: a failed chdir leaves the new text in the context.                *)
do_cd_no_rollback(arg) ==
    /\ Command("cd")
    /\ Len(cd_path(arg)) <= MaxPath
    /\ path' = cd_path(arg)
    /\ \/ /\ Returns("cd", ERR)
          /\ UNCHANGED <<settled, driver>>
       \/ /\ IsDirectory(cd_path(arg))
          /\ cwd' = Resolve(cd_path(arg)) /\ UNCHANGED unit
          /\ settled' = TRUE
          /\ Returns("cd", OK)
    /\ UNCHANGED <<running, setup, mount, mount_point, disk>>

do_cd(arg) ==
    /\ Command("cd")
    /\ Len(cd_path(arg)) <= MaxPath
    /\ \/ /\ Returns("cd", ERR)
          /\ UNCHANGED <<path, settled, driver>>
       \/ /\ IsDirectory(cd_path(arg))
          /\ path' = cd_path(arg)
          /\ cwd' = Resolve(path') /\ UNCHANGED unit
          /\ settled' = TRUE
          /\ Returns(IF arg[1] = "parent" THEN "cd .." ELSE "cd", OK)
    /\ UNCHANGED <<running, setup, mount, mount_point, disk>>
-------------------------------------------------------------------------------
(* Files and directories: "pfs0:", the path, a slash and the argument.      *)

Target(a) == From(Resolve(path), a)

(* What a command does to the directories and files of the mounted          *)
(* partition and to the driver's working directory, when the driver can and *)
(* does carry it out.  Where the argument holds names only, it leads below  *)
(* the path.                                                                *)
Change(c, a, named, possible, newDirs, newFiles, newCwd) ==
    /\ Command(c)
    /\ IsDirectory(path) /\ Reachable(Resolve(path), a) /\ possible
    /\ dirs' = [dirs EXCEPT ![unit] = newDirs]
    /\ files' = [files EXCEPT ![unit] = newFiles]
    /\ cwd' = newCwd
    /\ settled' = (settled /\ (newCwd = cwd \/ a \in Seq(Names) \ {<<>>}))
    /\ last' = [cmd |-> c, result |-> OK, named |-> named]
    /\ UNCHANGED <<kind, running, setup, mount, mount_point, path, unit>>

(* Any of them may fail, whatever its arguments, and then changes nothing.  *)
ChangeFails(c) ==
    /\ Command(c) /\ mount
    /\ Returns("change", ERR)
    /\ UNCHANGED <<context, disk, driver>>

Free(e) == e \notin dirs[unit] \cup files[unit]

do_mkdir(a) ==
    Change("mkdir", a, {<<"rel", a>>}, Free(Target(a)) /\ HasRoom /\ Target(a) \in Dirs,
           dirs[unit] \cup {Target(a)}, files[unit], cwd)

(* Nothing keeps the working directory from being removed.                  *)
do_rmdir(a) ==
    Change("rmdir", a, {<<"rel", a>>},
           /\ Target(a) \in dirs[unit] \ Empty
           /\ \A e \in Entries(unit) : ~Below(Target(a), e),
           dirs[unit] \ {Target(a)}, files[unit],
           IF Target(a) = cwd THEN Removed ELSE cwd)

do_put(a) ==
    Change("put", a, {<<"rel", a>>},
           /\ Target(a) \notin dirs[unit] /\ Target(a) \in Dirs
           /\ HasRoom \/ Target(a) \in files[unit],
           dirs[unit], files[unit] \cup {Target(a)}, cwd)

do_rm(a) ==
    Change("rm", a, {<<"rel", a>>}, Target(a) \in files[unit],
           dirs[unit], files[unit] \ {Target(a)}, cwd)

Start(to) == IF to[1] = "abs" THEN <<>> ELSE cwd

Renamed(old, to, new) ==
    /\ old \in Entries(unit)
    /\ Reachable(Start(to), to[2]) /\ Free(new)
    /\ \A e \in Moved(Entries(unit), old, new) : e \in Dirs
    /\ ~Below(old, new)

(* Fault: the current directory is not put before the old name.             *)
RenameEntry_at_root(a, to) ==
    LET old == Resolve(a)
        new == From(Start(to), to[2])
    IN  /\ mount
        /\ Change("rename", a, {<<"rel", a>>, to}, Renamed(old, to, new),
                  Moved(dirs[unit], old, new), Moved(files[unit], old, new),
                  Rebased(cwd, old, new))

(* The new name goes to the driver as it is: absolute, or relative to its   *)
(* own directory, which moves along with a directory that is renamed.       *)
RenameEntry(a, to) ==
    LET old == Target(a)
        new == From(Start(to), to[2])
    IN  /\ mount
        /\ Change("rename", a, {<<"rel", a>>, to}, Renamed(old, to, new),
                  Moved(dirs[unit], old, new), Moved(files[unit], old, new),
                  Rebased(cwd, old, new))
-------------------------------------------------------------------------------
(* exit, quit, bye and the end of the input.                                *)
shell_exit ==
    /\ running
    /\ running' = FALSE
    /\ \/ /\ mount
          /\ unit' = NoPart /\ cwd' = <<>> /\ mount' = FALSE
       \/ UNCHANGED <<mount, driver>>
    /\ Returns("exit", OK)
    /\ UNCHANGED <<setup, mount_point, path, settled, disk>>

Init ==
    /\ running = TRUE
    /\ setup = FALSE /\ mount = FALSE
    /\ mount_point = NoPart /\ path = <<>>
    /\ last = [cmd |-> "", result |-> OK, named |-> {}]
    /\ settled = TRUE
    /\ kind \in [Parts -> {"none", "pfs"}]
    /\ dirs = [p \in Parts |-> Empty]
    /\ files = [p \in Parts |-> {}]
    /\ unit = NoPart /\ cwd = <<>>

Next ==
    \/ do_device \/ do_initialize \/ do_umount \/ shell_exit
    \/ \E p \in Parts : do_mkpart(p) \/ do_rmpart(p) \/ do_mount(p)
    \/ \E p, q \in Parts : RenamePartition(p, q)
    \/ \E arg \in CdArgs : do_cd(arg)
    \/ \E a \in Arguments : do_mkdir(a) \/ do_rmdir(a) \/ do_put(a) \/ do_rm(a)
    \/ \E a \in Arguments :
          /\ mount /\ Target(a) \in Entries(unit)    \* else no destination matters
          /\ \E to \in Destinations : RenameEntry(a, to)
    \/ \E c \in {"mkdir", "rmdir", "put", "rm", "rename"} : ChangeFails(c)
    \/ \E c \in {"ls", "df", "get", "pwd", "usage", "lcd", "help"} : ReadOnly(c)
    \/ \E c \in DOMAIN Requirements : Refused(c)

Spec == Init /\ [][Next]_vars
-------------------------------------------------------------------------------
(* The context never disagrees with the driver about what is mounted: the   *)
(* prompt names the partition on pfs0:, which is still there and formatted, *)
(* whatever commands failed or changed the partition table in between.      *)
ContextMatchesDriver ==
    /\ mount <=> unit # NoPart
    /\ mount => mount_point = unit /\ kind[unit] = "pfs"

(* Once chdir has accepted the path, its text keeps naming the driver's     *)
(* working directory, and no command whose argument holds names only        *)
(* removes that directory or moves it away (do_cd's rollback; such an rm,   *)
(* rmdir or rename acts below it).  One with ".." may: then the text is     *)
(* stale until the next cd.                                                 *)
PathNamesDirectory ==
    mount /\ settled => Resolve(path) = cwd /\ cwd \in dirs[unit]

(* A command changes what its arguments name, read from the directory the   *)
(* prompt shows, and nothing else: every entry that comes or goes on a      *)
(* mounted disk is at such a place or below it.  rename's second argument   *)
(* is read by the driver, from a directory of its own.                      *)
ChangesWhatIsNamed ==
    [][mount /\ settled =>
          LET At(t) == From(IF t[1] = "abs" THEN <<>> ELSE Resolve(path), t[2])
              Differing == {e \in dirs[unit] \cup dirs'[unit] \cup files[unit] \cup files'[unit] :
                              ~(e \in dirs[unit] <=> e \in dirs'[unit])
                                 \/ ~(e \in files[unit] <=> e \in files'[unit])}
          IN  \A e \in Differing : \E t \in last'.named :
                 e = At(t) \/ Below(At(t), e)]_vars

(* "cd .." goes to the parent of the directory one is in (do_cd cuts the    *)
(* text at its last slash), as long as that text holds names only: chdir    *)
(* accepts other texts, such as "a/..", and do_cd keeps them as they are.   *)
CdUpReachesParent ==
    [][settled /\ path \in Dirs /\ last'.cmd = "cd .." /\ last'.result = OK
         => cwd' = Step(cwd, Up)]_vars
===============================================================================
