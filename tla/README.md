# pfsshell in TLA+

Specifications of the programs in this repository, the model-checking runs of
TLC on small instances of them, and theorems about them proved with TLAPS. File
and line references are to `src/`, the repository.

Contents: 1 the system and its parts; 2 the modules and the code they model;
3 the runs; 4 bounds; 5 fairness; 6 what is assumed of the external drivers;
7 the proofs; 8 deviations, where the code does something a reader would not
expect; 9 what is not modelled; 10 the plan.

To reproduce: `tlc -config MCX.cfg M` for the module and configuration of a run
in section 3, `tlapm M.tla` for the seven modules whose name ends in `Proofs` and for
`CommonLemmas`.

## 1. The system and its parts

pfsshell gives a PC access to PlayStation 2 hard disks: the APA partition table,
the PFS file system in its partitions, and HDLoader games. The drivers are the
console's own, compiled for the host over a thin replacement of its kernel; the
repository adds the programs that use them.

| part | state it keeps | operations | talks to |
|---|---|---|---|
| pfsd daemon (`src/pfsd.c`) | poll table, mount list, open-file list, semaphore and shared memory | one handler per request, accept, clean-up of a client | PFS driver by calls; clients by socket, shared memory, semaphore |
| pfsd client library (`src/pfsd_client.c`) | its connection; the data of the call under way | one function per driver call | the daemon |
| pfsshell (`src/shell.c`, `src/startup.c`) | the context: device, partition mounted, mount point, path | the commands of the prompt | APA and PFS drivers |
| helpers (`src/hl.c`) | none | copyto, copyfrom, mkpfs, initialize, listings | APA and PFS drivers, host files |
| tokenizer (`src/util.c`) | none | parse_line | called by the shell's loop |
| pfsfuse (`src/iomanx_adapter.c`) | the descriptors of open files | the FUSE operations, from several threads; conversion of modes and times | PFS driver |
| HDLFS driver (`subprojects/hdlfs`) | for each unit: partition, table of slices, position | format, mount, umount, lseek, read, write, header operations | APA driver |
| pfs2tar (`src/pfs2tar.c`) | position in the tar file, the directories open above the walk | backup, restore | APA and PFS drivers, host file |
| ps2kinst (`src/ps2kinst.c`) | none | copies a kernel to `__system` | pfsd client library, or PFSlib |
| pfslib_compat (`src/pfslib_compat.c`) | none | start of the drivers, wrappers | iomanX |
| host_adapter (`src/host_adapter.c`) | none | FUSE operations passed on to the host | nothing calls it |
| fakeps2sdk (`subprojects/fakeps2sdk`) | image file descriptor, table of semaphores | sector I/O, IOP semaphores | host |
| APA, PFS, iomanX | the disk | - | submodules; not in the repository |

What is hard in it, and what makes each part correct:

* **pfsd daemon.** Every client has a name space of its own: "pfs0:" of one may
  be unit 3 of the driver. Three tables refer to each other by index, descriptor
  and unit; entries are freed, shifted and reused while others still refer to
  them; clients are known by socket descriptors, which the kernel reuses; the
  driver may refuse anything. Correct: tables, driver and clients agree, no
  client reaches or changes what belongs to another, nothing of a client that is
  gone survives it.
* **RPC.** All clients share one buffer and one semaphore. A client may be
  killed at any step, the daemon may end, refuse, or be started again, and the
  operations on the semaphore may fail. Correct:
  the semaphore stays a lock, data and replies belong to the call that gets
  them, the lock always comes back.
* **pfsshell.** The place one is in exists twice: as text in the context and as
  a directory in the driver. Correct: the two agree, also after commands that
  fail, and a command changes what its arguments name from there. mkpart divides a size
  into a main and sub-partitions. Correct: never more than asked for, nothing
  lost, and the partition is closed before it is formatted.
* **Copies.** Up to four acquisitions and two streams, each call of which may fail
  or be short. Correct: all is released, what is written is a prefix, errors are
  reported where the code means to.
* **HDLFS.** A position in the game is kept three times (offset, current slice,
  sector in the slice). Correct: they agree, and every transfer reaches the
  sectors that the table on the disk names.
* **pfsfuse.** An operation at an offset is two calls on a shared position, and what
  an application sets (mode, time) is not what the driver stores. Correct: reads
  and writes are atomic, a file reports the rights and the time it was given.
* **pfs2tar.** The archive is a stream: a header says how much follows it, the
  restore finds the next header by that alone. Hardly any result is looked at, and
  one mount point serves all partitions in turn. Correct: the reading stays in
  step, backup and restore are inverse to each other, nothing is overwritten that
  should not be, trouble in one partition stays there.

`PROJECT.json` lists the parts under `components` and each of these difficulties,
at its line, under `hazards`.

## 2. The modules

### PfsdTables: the daemon's tables
`conns`, `mountlist` and `openfiles` are `g_connection_pollfds`,
`g_mountlist_items` and `g_openfile_items`; `eintr` and `debug_mode` decide
whether the poll loop goes on. `mounted` and `drvfiles` are the driver's side.
A path is its prefix, "pfsN:" as N. There is one action per request
(`rpc_command_mount`, `rpc_command_umount`, `rpc_command_open`, ...; requests
that only pass a remapped name or descriptor on are `NameRequest` and
`FdRequest`), one for a new client, one for a hang-up, and `cleanup_client` is a
sequence of steps, since its loops are where it may not end. The order of the
code is kept: a mount takes the first free slot, tries the unit asked for, then a
slot to share, then the units in turn; a closed file moves the later entries
down. The daemon can end and be started again with empty tables.

### PfsdRpc: calls
A call of a client is: wait for the semaphore, copy in, send, receive, copy out,
release (`pfsd_client.c:75-260`); at each step it may be killed, and the kernel
then applies `adj`, the SEM_UNDO value. A `semop` may fail, and the code goes on all
the same: `RequireLockFails` into the call without the lock, `ReleaseLockFails` out
of it with the lock. (A process that is stopped and continued gets EINTR from `semop`
whatever its handlers; a set that was removed, EIDRM, but the daemon removes it only
when it ends in debug mode. A blocking read or write of a socket is restarted, as no
program here installs a handler.) The daemon accepts, reads, executes and
replies; it may refuse a connection, end, and be started again at any time, which
sets the semaphore to 1 and clears `adj`. `unlocked` records that a call went on
without the lock, because its `semop` failed or because such a start took it away; a
start between calls ends that. `shm` records
whose data the shared memory holds, `inq` and `outq` what is in the sockets;
requests and replies carry the number of the call they belong to, which the code
does not have: it is how the properties tell them apart. `astray` records that the
request of a client that was dead by then was executed.

### Shell, Mkpart, Transfer, ParseLine: pfsshell
`Shell` has the context, the requirement table of `shell.c:713`, and every command
that changes context or disk, over a disk of partitions, directories and files. A
path is a sequence of components; ".." and the empty component of a trailing
slash are kept in the text, as the code keeps them, and interpreted by the driver.
The argument of mkdir, rmdir, put, rm and rename is put behind the path as it is: it
may be a name, a longer path, one that leads upwards, or empty; rename's second one is
absolute or is read by the driver from its own directory. `Change` is what the five
have in common. `last.named` records what the arguments named, and `settled` whether
the text can be relied on (section 8).
`Mkpart` is `do_mkpart` step by step, with the driver refusing any step.
`Transfer` is the five copy routines, `get`, `put`, `copyto`, `copyfrom` and
`ps2kinst`, as one state machine parameterised by what each acquires and releases,
in which order, and which failures it reports. ps2kinst alone returns without
releasing anything; the end of the process does it (`Exit`): the host closes what is
its own and `cleanup_client` frees the files and the entries in the daemon's tables
(`NoOrphans` of PfsdTables). `via` is whether its session is one with the daemon;
`unit` is the daemon's driver, which neither an unmount nor the clean-up ever reaches
(run leaked_unit), so that what ps2kinst mounted there stays.
`ParseLine` is `parse_line`, one turn of its loop per step, on the line it
overwrites; the reference definition of tokens is `Reference`, which shares
nothing with it. The definitions of `Mkpart` and `ParseLine` have their module's name
in them where `Shell` has the same (`MkpartSpec`, `ParseInit`): the proofs about the
three are in one module.

### Hdlfs: the HDLoader driver
`info` is the table of slices on the disk, `FD` the units. format computes the
layout, mount loads it, lseek searches it, and a read or write is a turn of
`IoTurn` for each slice it touches. Arithmetic is modulo `Modulus` where the code
has unsigned ints. `where` is the position the callers have been told, kept to
compare with, `lost` the descriptors whose close failed: format and unmount do not
look at its result.

### FuseAdapter and PosixFile: pfsfuse
`PosixFile` is the abstract specification: a file with its contents and attributes,
calls that read and write at an offset in one step, creation, removal, and changes
of mode and time, and truncation. `FuseAdapter` is the code: threads, handles, a read
or write as an lseek and a transfer, and the driver's own idea of mode and time. open
and create pass O_TRUNC and O_APPEND on: the first empties a file there is, whatever
requests other handles have under way on it, the second moves the position the next
lseek sets anyway. Positions are kept in an int (`AsInt`), and where the driver has no
lseek64 (`MayLackSeek64`; pfs has one) that int is what it is given. Its property
`ImplementsPosix` is the abstract specification under a refinement mapping
(`INSTANCE PosixFile WITH ...`): `call` hides handles and positions and shows a call
with its arguments and its result; `attr` is what `iomanx_adapter_getattr` reports,
that is, the driver's values after both conversions. The specification allows what
the code does on purpose: a right given to anyone is everyone's (`Grants`).

### Attributes: modes and times
The conversions between the modes and times of iomanX and POSIX, of pfs2tar (bit by
bit) and of pfsfuse (rights merged). A POSIX mode is the set of its bits, an iomanX
one a type and a set of flags; both programs store the time of day in Japan, nine
hours away. `Tar` and `FuseAdapter` extend it.

### Tar: pfs2tar
`disk` is a function from partitions to trees, `tar` the archive as a sequence of
blocks: headers, data, zeros. A backup is `main_backup`, then for each partition
`mount`, the walk and `umount`, then `main_end`. The recursion of `do_wrapped_ftw` is
`stack`, a frame per open directory; `open` counts the descriptors, files included.
A visit (`do_wrapped_ftw`) stats a node, writes its header and data and opens it if
it is a directory; `dread` is a turn of the loop; `unwind` returns an error through
the frames. A restore reads block by block, one action per type of entry and one
for those it skips; `misread` is a data block taken for a header. The archive is
restored to another disk, up to two times, so that the second finds its own files.
`Failing` chooses which calls of an action fail; a close that does leaves its
descriptor open, as nobody looks. A header is modelled by what its fields have room
for: a path too long for NAME is split (`Long`), and its last part may run on into SIZE
(`Overruns`), which then holds anything for a directory or a link (`SizeOf`); a target is cut off
(`Cut`) and a time cast to an unsigned int (`Stamp`).

`MCPfsdTables`, `MCPfsdRpc`, `MCShell`, `MCHdlfs`, `MCTransfer` and `MCTar` hold what a
configuration cannot: symmetry sets, the extents of the partitions, sets of calls,
the disks to archive. A definition
with the comment *Fault:* is not part of a specification; it is a plausible
mistake in the definition that follows it, and a property listed with it in
`PROJECT.json` under `mutants` fails when it is put in the place of that
definition.

## 3. The runs

| run | configuration | asks |
|---|---|---|
| tables | MCPfsdTables | Do tables, driver and clients agree, whatever two clients do? |
| cleanup | MCPfsdCleanup | Does `cleanup_client` end? |
| leaked_unit | MCPfsdLeak | Violated: an unmounted unit is given back to the driver. |
| rpc | MCPfsdRpc | Does the lock hold, does each call get its own data and reply, and end? |
| session | MCShell | Do context and drivers agree, and does a command change what it names? |
| mkpart | MCMkpart | Sizes, order of close and format, termination. |
| parse_line | MCParseLine | Does `parse_line` return the tokens of the definition? |
| transfer | MCTransfer | Resources, contents and results of the five copies. |
| hdlfs | MCHdlfs | Does every transfer reach the sectors of the game it should? |
| fuse | MCFuse | Is it the abstract file service, with one request at a time on a handle? |
| fuse_shared | MCFuseShared | Violated: the same with two requests on a handle. |
| tar | MCTar | Is a restore the inverse of a backup, and what do failures spoil? |

The properties, by run:

* **tables.** `FilesOnTheirMounts`: the mount slot an open file records is still
  its client's, on the unit the driver opened it on: umount is refused while files
  are open on a mount. `FilesMatchDriver`: the table of open files is what the
  driver has open, at the limit of the table and after closes that failed too.
  `NamesReachTheirDevice`: a prefix a client mounted leads to the unit with its
  partition. `NoOrphans`:
  entries belong to connected clients, so a reused descriptor inherits nothing.
  `OnlyRequesterChanges`: a step on behalf of one client leaves the entries of the
  others alone.
* **cleanup.** `CleanupEnds`, for a driver that does not refuse a close for ever.
* **rpc.** `ReplyAnswersCall`: the value received belongs to the call that is made,
  or is nobody's because the daemon closed the connection; it needs no lock.
  `LockConserved`: at most one client is in a call, and the semaphore is taken exactly
  while one is or failed to give it back. `ExecutesOwnData`, `CopiesOwnResult`: what
  the daemon executes and what a client copies out is what that call put there.
  `OneRequestAtATime`: one request or reply is on its way. These four are about calls
  that have the lock: they hold until a call goes on without it (`unlocked`), and
  again from the next start of the daemon between calls; the two on data also until
  a dead client's request is executed (`astray`), after which the memory really is
  shared; see the deviations.
  `EveryCallEnds`: whoever asks for the lock gets it, is answered or told that it
  will not be, and leaves the call, unless a process whose release failed keeps the
  lock.
* **session.** `ContextMatchesDriver`: the context says a partition is mounted
  exactly when pfs0: has one. `PathNamesDirectory`: the text of the path names the
  directory the driver is in, which commands with names for arguments never take
  away. `ChangesWhatIsNamed`: every entry of the mounted partition that comes or goes
  is at or below a place that the command's arguments name from the directory
  shown. `CdUpReachesParent`.
* **mkpart.** `SizeConserved`, `SubsFitMain`, `NothingLeftOver`, `MainIsLargest`;
  `ClosedBeforeFormat`: the close is asked for before mkpfs and before the end, on
  every path, so that only a driver that refused it still has the partition open;
  `Terminates`.
* **parse_line.** `TokensAsDefined`, `AlwaysReturns`.
* **transfer.** `OnlyRefusedStaysOpen`: at the end only what refused to be closed
  is open, on the host, in the routine's own driver and in the daemon's tables; and
  the daemon's unit is mounted only if ps2kinst mounted it. `WritesPrefix`: what get, put and ps2kinst have written is at every
  moment a prefix of the source. `ResultTellsTheTruth`: with no failure the result is
  success and the copy whole; when copyfrom succeeds the whole source has arrived,
  except after a short write to the host; when ps2kinst says that it succeeded, the
  kernel is the new one and nothing of an older one is left.
* **hdlfs.** `LayoutTiles`: the slices format writes cover the game once, in order,
  each inside its partition. `PositionConsistent`: slice and relative sector name
  the offset callers were told. `RightSectors`: a transfer reads the sectors the
  table gives that offset. `DescriptorsAccounted`: the partitions open are those
  of the units mounted, and those whose close failed.
* **fuse.** `ImplementsPosix`: every step of pfsfuse is one of PosixFile, or none.
* **tar.** `ArchiveInStep`: a restore never takes data for a header, whatever it
  skips, cannot create or writes in part, except for the three reasons of section 8
  (an entry shorter than its header says, a size next to 4 GiB, a name that ran on
  into SIZE). `RoundTrip`: with no failure all that was archived is back, with
  contents, modes and times, where the header has room for path, size, target and
  time (`Walkable`).
  `KeepsExisting`: partitions that were not asked for and, without --overwrite, what
  existed, are as they were. `EveryPartitionArchived`: a name too long, a depth
  beyond the descriptors or a directory that cannot be opened in one partition does
  not keep the next one out of the archive, as long as closes succeed.

The two violated runs are the findings of `PROJECT.json`. The deadlock check is
off where the system may stop: the shell after exit, a routine that has returned,
clients that have made all the calls their bound allows, requests with no handle
left, a transfer at the cap, the last restore. It is on in the runs of PfsdTables.

## 4. Bounds

| run | bound | why it is enough |
|---|---|---|
| tables | 2 clients, 2 partitions, 2 mount slots and units, 2 open-file entries, 3 driver descriptors, 3 poll entries | Two clients are needed to share, take over and confuse; with two slots the list fills and slots are reused; one descriptor more than entries, so the table fills before the driver does; one poll entry more than clients, so it never overflows here. |
| cleanup | one slot and partition, 2 descriptors and entries | Liveness allows no symmetry; two files of one client and one of each are the orders of entries. |
| rpc | 2 clients, 2 calls each, of 2 kinds (no data, data both ways), 3 starts of clients in all, 1 restart of the daemon; semops fail at will | Two calls show a reply left over from the first; with the third start a client comes back after it was killed, or its release failed; one restart is enough to reset the semaphore during a call, or between calls. |
| session | 2 partitions, one of them a system one, 2 names, paths, arguments and entries of up to 2 components | A second component is what ".." and a trailing slash need, and what an argument needs to lead beside the directory one is in. |
| mkpart | sizes 0, 7, 8, 128, 384, 1000, 3072, 4100, 9000; up to 4 sub-partitions | Below, on and between the powers of two, and one that needs more than 4 sub-partitions; section 7 proves it for all. |
| parse_line | every line of up to 6 characters of 5 kinds | Three tokens, two of them in quotes; the automaton has four states. |
| transfer | 4 bytes, buffer of 2, destination of up to 5 bytes | Two full turns of the loop, and a destination longer than the source. |
| hdlfs | games of 3 disc sectors over `<<12,13>>` and `<<20>>`, reserved 4, slices below 4, table of 3, modulus 64, transfers of up to 6 | A game over a boundary and one that is not; a transfer that ends on the boundary, one that crosses it, and one past the end. |
| fuse | 2 threads, 2 handles, 1 file of up to 2 cells (3 in fuse_shared), ints negative from 2 on, with and without lseek64 (fuse_shared with it); a mode with a right of the owner, one of others and a special flag; a time other than the clock's | Offsets inside, at the end, beyond it, and negative as an int; a truncation between the two calls of a request; a mode the two conversions change. |
| tar | blocks of 2 bytes, sizes modulo 8, times modulo 128, a NAME and a NAME2 of 3, SIZE from 3 on, a LINK of 2, paths of up to 5, 3 descriptors; 3 disks and 2 targets of 2 partitions, one kind of call failing | Files that are empty, shorter and longer than a block, one below the modulus and one at it; data that starts with zero; directories as deep as there are descriptors; names too long for NAME and for the walk, a directory whose name runs into SIZE; a target longer than LINK and a time beyond the modulus; disks to restore to that are empty, and ones with a file where the archive has a directory, a directory, and a longer file. |

`IoTurn` stops at `CurrentPartNum <= Table`: the code goes on without a bound
(section 8). `MaxCalls`, `MaxStarts`, `MaxRestarts`, `MaxPath`, `MaxArg`, `MaxEntries`,
`MaxSize`, `MaxSubs`, `MaxLine`, `MaxIo`, `MaxRestores` and `MaxFaults` are bounds in
guards; `MaxFaults` counts kinds of calls, each of which may fail any number of times. `MaxSubs` stands
for APA's own limit on sub-partitions, `MaxPath` for the 256 bytes of `ctx->path`
and `Table` for the 65 entries of `part_specs`.

Symmetry is used in `tables`, over clients, descriptors and partitions, and in
`session`, over the names of entries: nothing orders them. Both check safety only.

## 5. Fairness

* **cleanup.** `cleanup_client` runs on the daemon's only thread: weak fairness of
  its steps. `SF(ClosesOnce)` says the driver does not fail to close one
  descriptor for ever; it is an assumption on the driver, needed because the loop
  repeats a close that failed.
* **rpc.** The host runs every process: weak fairness of the steps of a client that
  is in a call and of the daemon. One pass of the poll loop looks at every
  descriptor, so a connection or request that is pending is reached: weak fairness
  of `add_new_client` and `event_handler_func`, for each client. That `semop` serves
  its waiters in order is not needed, as the number of calls is bounded. The fair steps
  of a client (`CallStep`) are those of a working semaphore: no semop has to fail, and
  one that fails only now and then hinders nobody. Nothing is
  assumed of kills, of the end of the daemon, of its restart, nor of a client
  beginning a call.
* **mkpart, parse_line.** The one thread of the program goes on.

## 6. What is assumed of the drivers

They are submodules that are not in the repository; definitions for them are marked
external in `PROJECT.json` and say what the code relies on.

* Any call may fail. A close that failed keeps the descriptor. There is one exception:
  HIOCNSUB and HIOCGETSIZE (`hdlfs/main.c:110`, `:122`, `:411`, `:413`), whose results
  the code uses unchecked, are taken to succeed; APA answers them from the header of the
  open partition in memory, for an index HIOCGETPARTSTART has just accepted.
* PFS: a mount is refused as busy if the unit is taken or the partition mounted. A
  mount puts the unit's working directory at the root. A path of a unit with
  nothing mounted is an error. open returns a descriptor that is not in use.
* PFS, as the shell uses it: ".." at the root is the root; "." and doubled slashes are
  not told apart from none. An empty directory is removed whether or not it is the
  unit's working directory, and that moves along with a directory that is renamed. A
  rename to a relative path starts at the working directory and is refused when that
  was removed. The text of a path stays below its 256 bytes.
* APA: a partition is opened by one user at a time; a transfer beyond its end is
  refused; a mounted partition is neither removed nor formatted. lseek beyond the
  end of a PFS file is refused.
* PFS, as pfs2tar and pfsfuse use it: umount is refused while descriptors are open,
  and a file that is open is not removed. Making an entry sets the time of its
  directory; closing a file may set that of the file, chstat sets what it is told and
  keeps the type. There are no links on the way to an entry that is restored, and
  dread fails with -1 (other values are a deviation below). Data misread as a header
  never happens to name an entry of the partition.
* PFS, as pfsfuse uses it: O_APPEND sets the position when the file is opened and not
  before each write (the kernel passes offsets). A write past the end, of a file emptied
  after the lseek, leaves the cells between as they may be. A negative 32-bit offset is
  refused, and a driver without lseek64 has no files longer than 32-bit positions reach.
* Each driver call is atomic; the drivers have semaphores of their own.

Where the code leaves its arrays the daemon of PfsdTables goes to
`pc = "undefined"` and takes no further step.

## 7. Proofs

Eight modules hold theorems. Each row is proved for every value of the constants that
the named assumptions admit: any number of clients, threads, units, partitions, names
and values, any table sizes, lengths and bounds.

| module | theorem | says |
|---|---|---|
| PfsdTablesProofs | `TablesTypeCorrect` | `TypeOK`: every index recorded is within its table |
| | `MountsSafe` | `MountInv`: slots are backed by the driver, prefixes of a client distinct |
| | `NamesSafe` | `NamesReachTheirDevice` |
| | `FilesSafe`, `FilesKeepMounts` | `FilesMatchDriver`, `FilesOnTheirMounts` |
| | `OrphansSafe` | `NoOrphans` |
| | `OthersUntouched` | the action property `OnlyRequesterChanges` |
| PfsdRpcProofs | `TypeCorrect` | `TypeOK` |
| | `LockSafe` | `LockConserved` |
| | `RepliesSafe` | `ReplyAnswersCall`, without getmountpoint |
| | `RequestsSafe`, `ResultsSafe`, `ExecutionsSafe` | `OneRequestAtATime`, `CopiesOwnResult`, `ExecutesOwnData`, without getmountpoint |
| ShellProofs | `ContextSafe`, `PathSafe` | `ContextMatchesDriver`, `PathNamesDirectory` |
| | `ChangesSafe`, `CdUpSafe` | the action properties `ChangesWhatIsNamed`, `CdUpReachesParent` |
| | `MkpartTypeCorrect` | `TypeOK`: the unsigned size never wraps, no index leaves the table |
| | `SizeIsConserved`, `SubsNeverExceedMain`, `MainLargestPossible`, `GreedyLosesNothing`, `AlwaysClosed` | the invariants of the run, for any size and any number of sub-partitions |
| | `TokensSafe` | `TokensAsDefined`, for lines of any length |
| TransferProofs | `OpenSafe`, `PrefixSafe`, `ResultSafe` | `OnlyRefusedStaysOpen`, `WritesPrefix`, `ResultTellsTheTruth` |
| HdlfsProofs | `DescriptorsSafe`, `LayoutSafe` | `DescriptorsAccounted`, `LayoutTiles` |
| | `PositionSafe`, `SectorsSafe` | `PositionConsistent`, `RightSectors`, for SEEK_SET |
| FuseProofs | `Refinement` | `ImplementsPosix`, without shared handles |
| | `OffsetsSafe` | `IoAtOffsetAsked`, without shared handles: sharing is the only cause of what `fuse_shared` finds |
| CommonLemmas | `ModesRoundTrip` | pfs2tar's conversions of modes are inverse to each other |
| TarProofs | `TarControl` | `Control`: what is mounted, open and walked fits the phase, on every path through the failures |
| | `TarArchiveInStep`, `TarKeepsExisting`, `TarEveryPartitionArchived` | three invariants of the run, for any disks, sizes, bounds and failures |
| | `TarBackupComplete` | `Walked`: without a failed call the archive is complete, parents first, each file with its data |
| | `TarRoundTrip` | `RoundTrip`, for any disks, sizes, bounds and number of restores |

### The invariants, and why they are needed

**Names.** A name resolves through the first slot with its client and prefix, so
`NamesReachTheirDevice` needs `PrefixesDistinct`: no client has two slots with one prefix
(mount refuses a second one). It also needs `SlotsBacked`: the unit of every slot in
use has the slot's partition mounted. That holds although slots share units,
because a new slot copies its unit from one that is backed, and because an unmount
frees a slot and leaves the driver's unit alone (`OtherUserIsFound`; section 8). `MountInv` is
their conjunction; with `TypeOK` it is inductive. The proof has a step per request
and per step of the clean-up; one lemma each about `First`, `ShiftDown`, opening,
closing and unmounting carries the work.

**Files.** `FilesMatchDriver` and `FilesOnTheirMounts` are inductive together and not
apart (`FilesInv`): an entry is found again by its descriptor, and a slot may be freed
only if no entry records it. `ShiftDownEntries` says that shifting the table down loses the
entry closed and no other.

**Orphans.** While `cleanup_client` runs, `NoOrphans` is about to become false: the
invariant records how far its two loops are (`ClosedSoFar`, `UnmountedSoFar`). The second
loop is never refused, because the first has left no file of the client open, and
`FilesOnTheirMounts` says that only such a file makes an unmount fail.

**Lock.** `LockConserved` alone is not inductive: what a killed client gives back
is what the kernel noted, so `LockHeld` is about `adj`: the SEM_UNDO value of a client is 1 if it
is in a call or failed to give the lock back, else 0; at most one client has 1, and
the semaphore is 0 exactly if one has. Counting clients is avoided by this form. A
client whose release failed and that calls again waits for itself, so that no value
exceeds 1. `LockInv` says all this under `~unlocked`: a failed `RequireLock` leaves it by
setting `unlocked`, a restart establishes it anew or sets `unlocked`.

**Replies and data.** `ClientInv` says where a request is, for each connection: in the
socket, in the daemon's hands, answered in the socket, or dropped with a closed
connection; `DaemonInv` says whom the daemon serves in which part of its loop. From
these, without the lock, `ReplyAnswersCall` follows, through restarts with calls under
way and failed semops too. `DataInv` adds the shared memory: from the copy in to the
execution it holds the call's data, from there to the copy out its result. This one needs
the lock, which keeps every other client out, and `~astray`.

**Mkpart.** `MkpartInv` adds to the properties what each stage knows (`Phases`), that
sizes passed over did not fit (`Passed`), and that when the sub-partition loop ends
without a refusal, too little is left for the smallest (`Exhausted`). Conservation is
what makes the unsigned subtraction safe.

**Transfer.** `OpenInv` ties what is open to `held`, the number of acquisitions that are
left to release; in ps2kinst the order of release is not the reverse of the order of
acquisition, which matters only when all was acquired. It also says that the daemon's
unit is mounted only through a session with the daemon, which only ps2kinst has. `ResultInv`: the result is an
error exactly if a fault happened that the routine reports. `CopyInv`: until a write is
short, reading and writing are in step, buffer and destination are the source's bytes
at those positions, and the loop ends with the source unless a call failed.

**HDLFS.** `UnitsInv`: every unit has a descriptor of its own, which makes an unmount
remove exactly one, and none that a failed close kept, as such a partition stays open
and cannot be mounted. `LayoutTiles` is proved of what format's loop computes, by induction
over the partitions. `PositionInv` states `PositionConsistent` of a unit's own table, be
it the one on the disk or a stale one, adds that behind the last slice the relative
sector is 0, and that slices follow one another and stay below `Modulus`: then the
unsigned difference in `Remaining` is never negative, and moving to the next slice
does not move the position.

**Shell.** `ContextInv` goes through the requirement table: a command that changes the
unit runs only in the context it requires. `PlacesInv` adds that every file system has
its root and that paths consist of components. `PathSafe` needs what a path
resolves to (`WalkOf`, `ResolveOf`), that a rename moves entries at and below one place,
and that an argument of names leads below the working directory, which is then neither;
where an argument leads upwards, either the command leaves the working directory alone
or `settled` ends. `ChangesSafe` rests on the same lemmas: what differs is at or below the
old or the new place, and both are named by the arguments.

**Tokens.** `ParseInv` says, at each turn of the loop, what `Reference` makes of the rest
of the line (`Rest`): the strings returned so far, read from the line as it stands, and the
tokens of the text from the pointer on (from the beginning of the token, inside one) are together
the tokens of the text (`Agrees`). It needs that the line is not written to
where it is still to be read, nor in the token being read, and that every string returned is
terminated before the pointer (`Intact`): then a NUL written at the pointer changes none of
them. The reference is a recursive function over the positions, backwards; `ReferenceOf` shows that
its equation has a solution, by induction over the distance from the end, and `RestBlank`,
`RestQuoted` and `RestPlain` say what follows from it at each kind of character.

**Tar.** `Control` is the phase (`Phases`) and what is open (`Descriptors`): the driver has a
descriptor for each frame of `do_wrapped_ftw` and none besides unless a close failed, what is
mounted is the partition listed, a backup leaves the disk alone,
every node visited exists. `InStep` says of the archive that each header whose SIZE is what was
written there (`Sound`) is followed by as
many data blocks as its size needs and these by no further data (`WellFormed`), unless
an entry came out short; it is kept by appending entries and zeros
(`WellFormedConcat`). With it `ArchiveInStep` is inductive: from a header, the blocks skipped
or read end at the next one. `Kept` states `KeepsExisting` so that it composes: `Grown`
says what one turn of a restore may do to a tree and what it may not, whatever calls fail.
`Passed` counts: a selected partition that is no longer to be listed has its root in the
archive, which needs that the one before it could be unmounted, so that all its directories
are closed; that is where closes must succeed.

**Backup and restore.** `RoundTrip` is about the runs of pfs2tar in which no call fails
(`Clean`) on disks whose nodes the header has room for (`Walkable`; of one node's target and time,
`Storable`), and it needs two invariants. `Walked` is about the backup: every header in the tar
file is that of a node of the source, with the node's blocks of data after it (`Faithful`) and the header
of its directory before it (`ParentsFirst`); and what is not archived yet
is at or below the node visited, or below a name some frame has not read (`Visiting`,
`Reading`). When the last frame is closed nothing is left, so the partition is `Complete`.
`Brought` is about the restore: the partition is what it was before, with nodes
of the source added (`Additions`), and every entry before the block to be read is there as it was if it fits
(`RestoredUpTo`). For a turn at an entry, `Put` says what one entry does to a tree.
`ParentsFirst` and `RestoredUpTo` together say that the directory of the entry is there, or
cannot be because something is in its way (`Ready`); so `ensure_parent_dirs_exist` makes nothing
(`EnsureSame`), which matters because a directory made there would have the wrong mode, and
because a directory's time changes with what is put into it. That the bytes come
back is `Reassembled`: chunks of a block each, the last one shorter, put together, are the
file. That modes come back is `ModesRoundTrip`, that times and targets do is `Storable`.

**FUSE.** The abstract specification has no seek, so `FuseInv` says what the seek has
established: a request in its second call is on a descriptor of its file, alone, with the
position where it asked for it (`Serves`). Nothing is said of the length of the file, which
others may have emptied or written since through other descriptors: then the read finds
nothing and the write leaves a gap, as `PRead` and `PWrite` at that offset do. A position
that is not the number asked for as an int was refused by the driver, or the code took it for an error.
`HandlesInv`: an open descriptor names a file that is there. Then seeks, ftruncate,
listings and opens are stutters, an open with O_TRUNC is `PTruncate`, the transfer is the
atomic `PRead` or `PWrite`, and every attribute reported after `create` or `chmod` satisfies
`Grants` (`AdapterGrants`, from the bits of the flags being distinct).

TLC checked each invariant on the configuration of the run before it was proved, but for
those with a quantifier that it cannot enumerate (`ParseInv`, `Kept`, type invariants over
all sequences).

### Assumptions

The constants: special values differ from real ones, sizes of tables are positive
(`TablesAssumption`, `RpcAssumption`, `MkpartAssumption`, `TransferAssumption`);
".." and the empty string are not names (`ShellAssumption`); every partition is at
least as large as its reserved sectors and a game over a full table of slices fits an
unsigned int, as 65 slices of less than 2^21 disc sectors do (`HdlfsAssumption`);
no file or handle is the empty string, the modes FUSE passes are those of regular
files, and a driver without lseek64 has no file longer than 32-bit positions reach (`FuseAssumption`); disks are trees of files, directories and links, as the
driver keeps them, and no partition is called "all" or "none" (`TarAssumption`);
the length of a line is a number (`MaxLineAssumption`). TLC evaluates them in the runs.

The hypotheses of theorems, each of which section 8 shows to be needed: no getmountpoint
(the daemon answers it twice); SEEK_SET (for the other values lseek looks up the argument
instead of the position); no shared handles. What the properties themselves leave out
(`unlocked`, `astray`, `settled`, `remounted`, `short`, the failures named in those of Tar) is in
section 8 too.

### Recursion

Loops whose result a proof needs are recursive functions: `SectorNumber` of Hdlfs, `Walk`
of Shell, `Reference` of ParseLine, `Length` and `ensure_parent_dirs_exist` of Tar.
`CommonLemmas` makes induction first-order: `LeastNumber` (a non-empty
set of numbers has a least element, applied to the set of counterexamples) and
`Recursion` (the equation of a recursive function has a solution).

### Only model-checked

* Liveness: `CleanupEnds`, `EveryCallEnds`, `Terminates`, `AlwaysReturns`. The provers
  do not do fairness or ENABLED.

All the other properties of the passing runs, the invariants and the action properties, are
theorems, under the hypotheses listed above where there are any.

## 8. Deviations

Where the code does what its own text or a reader would not expect. The models
behave as the code does; each entry says how a property is stated, or a bound
chosen, because of it.

pfsd:
* `pfsd.c:445`: umount never reaches the driver. The search for another user goes
  on only while the index is the slot's own. Run `leaked_unit`.
* `pfsd.c:279`: the listener moves up when a client is accepted, one entry past the
  table with the 32nd client; "Too many clients." (`:258`) comes one later. With
  as many clients as poll entries PfsdTables reaches `undefined`.
* `pfsd.c:650`: errno is tested although poll did not fail, so that the daemon ends
  after cleaning up behind any client, unless errno happens to be EINTR. The model
  ends there too, and a new daemon may be started.
* `pfsd.c:38`: a daemon started again sets the semaphore to 1 while a client of the
  old one may have it; the client's release makes it 2, and two clients can be in a
  call from then on (`unlocked`), until a daemon is started between calls.
* `pfsd_client.c:89`, `:100`: a semop that fails is reported and no more. The call goes
  on without the lock, the memory is shared, and its release gives back what was not
  taken (`unlocked`); after a failed release the process keeps the lock until it ends,
  and waits for itself in its next call. `LockConserved`, `OneRequestAtATime`,
  `ExecutesOwnData` and `CopiesOwnResult` fail without `~unlocked`.
* `pfsd.c:594-596`: getmountpoint is answered twice, so each later reply of that
  client is the one of the call before. The runs of PfsdRpc leave it out of their
  calls; with it `ReplyAnswersCall` fails.
* `pfsd.c:502`: a client killed while its request is executed gives the lock back,
  and the next one fills the memory the driver is using (`astray`).
* `pfsd.c:300`: a descriptor that can never be closed keeps the daemon in the loop.
* `pfsd_client.c:221`, `:245`: a read or write larger than the shared memory is split,
  and its last part is copied from or to the beginning of the caller's buffer; an
  error of that part is added to the length of the others (`:223`, `:249`). The model
  has a call for each part and not their sum.

pfsshell:
* `shell.c:486`: umount keeps the path, and the next partition mounted is shown with
  it, while README.md:41-43 shows the prompt without one. Until the next cd the text may
  name nothing; `PathNamesDirectory` holds from that cd on (`settled`).
* `shell.c:507`, `:19`: cd .. removes the last component of the text. After
  `cd a/..` or `cd a/` that is not the parent of where one is; the driver is asked
  first, so text and driver still agree afterwards or the command fails.
  `CdUpReachesParent` is stated for paths of names.
* `shell.c:539`, `:553`, `:608`, `:650`, `:668`: an argument is not looked at: with ".." mkdir,
  rmdir, put, rm and rename act outside the directory shown, and can remove or move it.
  The text then names nothing, or another place, until the next cd (`settled`).
* `shell.c:670`: rename's second argument goes to the driver as it is, without
  "pfs0:" and path, and is read from the driver's own directory; with a stale path
  the two arguments mean different places.
* `shell.c:429`, `:371`: the result of the close is not looked at; a partition the driver
  keeps open is formatted all the same.
* `shell.c:278-282`: initialize keeps the result of one of its mkpfs only.
* `shell.c:410`: "dont create smaller then 128MB Main partition" tests for an index
  below 0, which the loop before it never leaves: main partitions of 8 to 64 MB are
  created, and a size below 8 MB fails without the message.
* `shell.c:634`, `:591`: the result of a failed read or write is replaced by that of
  the close; put and get may report success for a part of the file.
* `shell.c:618`: put opens without truncating; a longer file keeps its end
  (README.md:109 speaks of copying the file).
* `shell.c:201`: df multiplies in 32 bits.
* `hl.c:116`, `shell.c:174`, `iomanx_adapter.c:550`: loops over dread end on 0 or -1
  only.

HDLFS:
* `hdlfs/main.c:202`, `:210`: each read at the end of a game moves on by one entry of the
  table, past the 65 there are. `IoTurn` is capped at the first entry beyond.
* `hdlfs/main.c:256`, `:39`: SEEK_CUR and SEEK_END set the offset from the sum, but look
  the argument up as if it were absolute. The run calls SEEK_SET only; with the
  others `PositionConsistent` fails.
* `hdlfs/main.c:406`: if the header cannot be read, mount reports failure and the unit
  stays mounted with the table of the game before it. `Loaded` and `remounted`
  keep such units out of the properties on positions.
* `hdlfs/main.c:442`, `:148`: the result of the close is not looked at. The unit is free
  and the partition stays open (`lost`); it can be neither mounted nor formatted again.

pfsfuse:
* `iomanx_adapter.c:446`: lseek and transfer are two calls. Run `fuse_shared`.
* `iomanx_adapter.c:585`: ftruncate moves the position and truncates nothing.
  PosixFile has no truncate: an ftruncate changes no file.
* `iomanx_adapter.c:436`: a position is kept in an int; from 2 GB on, read and write
  fail. From 4 GB on they are at the right place again, as the driver had the whole
  offset.
* `iomanx_adapter.c:437`: -48 is taken for "no lseek64" and the offset passed on as an int.
  With a driver that has none, offsets from 4 GB on would wrap into the file; they do not arise
  where it has no such files.
* `iomanx_adapter.c:225`, `:159`: what anybody may, everybody may. `Grants` of PosixFile
  says so.
* `iomanx_adapter.c:652`: symlink translates the target of a link like a path, so that
  the link is stored with the driver's mount point in front. Links are not modelled.

pfs2tar:
* `pfs2tar.c:329`, `:342`: the header, with the size, is written whether or not the file
  can be opened, and whether or not it can be read to its end; nothing is reported,
  and all that follows in the archive is out of step. With `short` FALSE,
  `ArchiveInStep` excludes it. It is also what happens at the 32nd descriptor.
* `pfs2tar.c:441`: the sum wraps for a size within 511 bytes of 4 GiB, and the entry is
  not skipped.
* `pfs2tar.c:317`: the last part of a long path is copied into NAME without a bound. Of
  more than 124 characters it reaches SIZE, which is written again for a file only
  (`:328`): the restore skips a directory or link by what the name's characters say.
* `pfs2tar.c:334`, `:324`: the target of a link is cut off at 100 characters, and times
  are cast to unsigned ints: those before 1970 and after 2106 come back as others.
* `pfs2tar.c:55`, `:63`, `:68`, `:343`: the results of closes are not looked at. A
  descriptor that stays open makes the driver refuse the umount, and the partitions
  after it cannot be mounted.
* `pfs2tar.c:317`, `:418`: a path of more than 100 characters is split into NAME2 and
  NAME; a restore reads NAME, which then begins with a slash, and passes the entry
  over as another partition's. `RoundTrip` is stated for paths that fit.
* `pfs2tar.c:54`, `:41`: one name too long, one node without stat or one directory that
  cannot be opened ends the walk of its partition; the rest of it is missing from an
  archive that looks complete. `EveryPartitionArchived` asks for the root alone.
* `pfs2tar.c:278`: "We don't need to archive the root": the prefix is never empty, so
  the root is archived, and a tar file without files is not removed as `:707` says.
* `pfs2tar.c:456`: any failure of getstat lets the restore truncate a file that exists.
* `pfs2tar.c:478`: a directory's times are set before its entries are made, which sets
  them anew. `RoundTrip` asks for the times of directories that have no entries.
* `pfs2tar.c:549`: --partition is "mandatory" for a restore (`:584`) and not required:
  without it every partition is restored.
* `pfs2tar.c:713`: a restore from a tar file of up to 1024 bytes removes it.
* `pfs2tar.c:721`: whatever failed, the result is 0.

## 9. Not modelled

* What is only printed: ls, lspart, df, the listings of hl.c.
* FUSE operations that are one driver call with a translated path: mkdir (whose mode is
  converted like that of create), rmdir, rename, symlink, readlink, statfs, fsync.
* Operations on the header of a game: getstat, chstat, title, startup path. Each reads
  or writes one block of the first partition and none of the state of `Hdlfs`; title
  and startup path do so without the unit's semaphore, but the programs here call
  them from one thread.
* The assembly of a large read or write from the calls it is split into
  (`pfsd_client.c:200-250`); no program of the repository makes one.
* In pfs2tar: the fields of a header as text, the checksum (a restore does not look at
  it), archives other programs wrote, and the parsing of the arguments.
* host_adapter: `host_adapter_init` has no caller, the code cannot run. fakeps2sdk and
  pfslib_compat are straight lines of calls; the drivers are not in the repository.

## 10. Plan

The order in which the modules were written is that of their importance: daemon,
RPC, shell, mkpart, tokenizer, copies, HDLFS, FUSE, tar. What could be added:

1. An abstract mount and file service per client that PfsdTables implements.
2. The header operations of HDLFS.
