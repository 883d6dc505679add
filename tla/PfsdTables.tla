------------------------------ MODULE PfsdTables ------------------------------
(***************************************************************************)
(* The tables of the pfsd daemon (src/src/pfsd.c): the connected clients,  *)
(* the mount list and the open-file list, together with the part of the    *)
(* PFS driver those tables must agree with.                                *)
(*                                                                         *)
(* The daemon is one thread: a poll loop that accepts a connection, serves *)
(* one request, or cleans up behind one client that hung up.  A client is  *)
(* known by the descriptor of its socket (the code's "pid"), which the     *)
(* kernel hands out again once it is closed.  A path is known by its       *)
(* prefix only: "pfsN:" is the number N, everything else is Hdd.           *)
(***************************************************************************)
EXTENDS Integers, Sequences, FiniteSets

CONSTANTS
    Pids,       \* descriptors accept() may return
    NoPid,      \* m_pid of a free mount slot (0 in the code)
    Fds,        \* descriptors the driver may return from open and dopen
    Devs,       \* partitions that can be mounted ("hdd0:NAME")
    NoDev,      \* what a driver unit holds when nothing is mounted on it
    NMount,     \* entries of g_mountlist_items, and "pfsN:" units (both 32)
    NOpen,      \* entries of g_openfile_items (32)
    NPoll       \* entries of g_connection_pollfds (32)

ASSUME TablesAssumption ==
    /\ NoPid \notin Pids
    /\ NoDev \notin Devs
    /\ Fds \cap {-5, -9, -16, -19, -24} = {}
    /\ NMount \in Nat \ {0}
    /\ NOpen \in Nat \ {0}
    /\ NPoll \in Nat \ {0}

VARIABLES
    conns,       \* client part of g_connection_pollfds; the listener follows it
    hup,         \* clients whose end of the socket is closed (POLLHUP)
    mountlist,   \* g_mountlist_items
    openfiles,   \* g_openfile_items[0 .. g_openfile_count-1]
    mounted,     \* driver: what is mounted on each unit
    drvfiles,    \* driver: the unit of each open descriptor
    eintr,       \* errno = EINTR
    debug_mode,  \* the daemon was started with an argument
    pc,          \* where the poll loop is
    cur,         \* cleanup_client's locals: the client and the loop index
    reply        \* the last value written to a client's socket

daemon == <<conns, mountlist, openfiles, eintr, debug_mode, pc, cur, reply>>
driver == <<mounted, drvfiles>>
vars == <<daemon, driver, hup>>

Slots == 0 .. NMount - 1
Units == Slots
Hdd == -1        \* the name starts with no "pfsN:" prefix
Nowhere == -2    \* the empty name; also the "unit" of a closed descriptor
Names == Units \cup {Hdd}

OK == 0
EIO == -5
EBADF == -9
EBUSY == -16
ENODEV == -19
EMFILE == -24
Errors == {OK, EIO, EBADF, EBUSY, ENODEV, EMFILE}

Free == [pid |-> NoPid, fs |-> 0, cont |-> 0, dev |-> NoDev]
-------------------------------------------------------------------------------
(* The lookups the handlers share.                                          *)

(* A loop "for (i = 0; i < 32 && !found(i); i += 1)": the least index, or    *)
(* the size of the table.                                                    *)
First(S) == IF S = {} THEN NMount ELSE CHOOSE i \in S : \A j \in S : i <= j

find_free_mount_info == First({i \in Slots : mountlist[i].pid = NoPid})

umount_cleanup(i) == mountlist' = [mountlist EXCEPT ![i] = Free]

(* A loop of memcpy(&table[i], &table[i + 1]) from index k to the end.        *)
ShiftDown(s, k) ==
    [j \in 1 .. Len(s) - 1 |-> IF j < k THEN s[j] ELSE s[j + 1]]

OwnSlots(p, n) == {i \in Slots : mountlist[i].pid = p /\ mountlist[i].fs = n}

rpc_remap_name(n, p) ==
    IF OwnSlots(p, n) # {} THEN mountlist[First(OwnSlots(p, n))].cont
    ELSE IF \E i \in Slots : mountlist[i].pid # NoPid /\ mountlist[i].cont = n
    THEN Nowhere
    ELSE n

OwnEntries(fd, p) ==
    {j \in 1 .. Len(openfiles) : openfiles[j].fd = fd /\ openfiles[j].pid = p}

OwnFiles(p) == {j \in 1 .. Len(openfiles) : openfiles[j].pid = p}

(* Fault: the owner of the descriptor is not compared.                       *)
rpc_remap_fd_any_owner(fd, p) ==
    \E j \in 1 .. Len(openfiles) : openfiles[j].fd = fd

rpc_remap_fd(fd, p) == OwnEntries(fd, p) # {}

(* Fault: the index is one too far.                                          *)
rpc_common_open_off_by_one(fd, p, n) ==
    openfiles' = Append(openfiles,
                        [fd |-> fd, pid |-> p, slot |-> First(OwnSlots(p, n)) + 1])

rpc_common_open(fd, p, n) ==
    openfiles' = Append(openfiles,
                        [fd |-> fd, pid |-> p, slot |-> First(OwnSlots(p, n))])

(* The first entry that matches goes; without a match the last one is lost.  *)
rpc_common_close(fd, p) ==
    LET k == IF OwnEntries(fd, p) = {} THEN Len(openfiles)
             ELSE CHOOSE j \in OwnEntries(fd, p) :
                      \A m \in OwnEntries(fd, p) : j <= m
    IN  openfiles' = ShiftDown(openfiles, k)
-------------------------------------------------------------------------------
(* The PFS driver (a submodule, external), as the daemon uses it.            *)

Reachable(u) == u = Hdd \/ (u \in Units /\ mounted[u] # NoDev)

(* A descriptor that is not in use, or an error.                             *)
scepfsOpen(u) ==
    IF Reachable(u) THEN {fd \in Fds : drvfiles[fd] = Nowhere} \cup {EIO}
    ELSE {ENODEV}

(* The unit is taken, or the partition is mounted already.                   *)
MountBusy(u, d) == mounted[u] # NoDev \/ \E v \in Units : mounted[v] = d

scepfsMount(u, d, r) ==
    /\ r \in {OK, EIO}
    /\ mounted' = IF r = OK THEN [mounted EXCEPT ![u] = d] ELSE mounted

scepfsUmount(u, r) ==
    mounted' = IF r = OK THEN [mounted EXCEPT ![u] = NoDev] ELSE mounted

(* scepfsClose and scepfsDclose: a descriptor that failed to close is kept.  *)
scepfsClose(fd, r) ==
    /\ r \in {OK, EIO}
    /\ drvfiles' = IF r = OK THEN [drvfiles EXCEPT ![fd] = Nowhere] ELSE drvfiles
-------------------------------------------------------------------------------
TypeOK ==
    /\ conns \in Seq(Pids)
    /\ hup \subseteq Pids
    /\ mountlist \in [Slots -> [pid : Pids \cup {NoPid}, fs : Units,
                                cont : Units, dev : Devs \cup {NoDev}]]
    /\ openfiles \in Seq([fd : Fds, pid : Pids, slot : Slots \cup {NMount}])
    /\ mounted \in [Units -> Devs \cup {NoDev}]
    /\ drvfiles \in [Fds -> Names \cup {Nowhere}]
    /\ eintr \in BOOLEAN
    /\ debug_mode \in BOOLEAN
    /\ pc \in {"poll", "closing", "unmounting", "exited", "undefined"}
    /\ cur \in [pid : Pids \cup {NoPid}, i : Nat]
    /\ pc \in {"closing", "unmounting"} => cur.pid \in Pids
    /\ pc = "closing" => cur.i > 0
    /\ reply \in [to : Pids \cup {NoPid}, ret : {OK, EIO}]

(* main up to the poll loop; the tables are zero-initialised statics and the *)
(* driver starts with nothing mounted.                                       *)
Init ==
    /\ conns = <<>>
    /\ hup = {}
    /\ mountlist = [i \in Slots |-> Free]
    /\ openfiles = <<>>
    /\ mounted = [u \in Units |-> NoDev]
    /\ drvfiles = [fd \in Fds |-> Nowhere]
    /\ eintr = FALSE
    /\ debug_mode \in BOOLEAN
    /\ pc = "poll"
    /\ cur = [pid |-> NoPid, i |-> 0]
    /\ reply = [to |-> NoPid, ret |-> OK]

Clients == {conns[i] : i \in 1 .. Len(conns)}

(* The poll loop is at the point where it serves p: POLLIN without POLLHUP.  *)
(* Any call of the handler may fail and overwrite errno.                     *)
Serving(p) ==
    /\ pc = "poll"
    /\ p \in Clients \ hup
    /\ eintr' \in {eintr, FALSE}
    /\ UNCHANGED <<conns, hup, debug_mode, pc, cur>>

(* A reply is told apart by success, any value >= 0, and failure: which error *)
(* it was, the client only hands on to its caller.                           *)
Write(p, r) ==
    reply' = [to |-> p, ret |-> IF r \in Errors \ {OK} THEN EIO ELSE OK]
-------------------------------------------------------------------------------
(* The request handlers.                                                     *)

(* Fault: the limit is compared with <= .                                    *)
OpenFile_one_too_many(p, n) ==
    \E r \in (IF Len(openfiles) <= NOpen THEN scepfsOpen(rpc_remap_name(n, p))
              ELSE {EMFILE}) :
        /\ Write(p, r)
        /\ IF r \in Fds
           THEN /\ rpc_common_open(r, p, n)
                /\ drvfiles' = [drvfiles EXCEPT ![r] = rpc_remap_name(n, p)]
           ELSE UNCHANGED <<openfiles, drvfiles>>

OpenFile(p, n) ==
    \E r \in (IF Len(openfiles) < NOpen THEN scepfsOpen(rpc_remap_name(n, p))
              ELSE {EMFILE}) :
        /\ Write(p, r)
        /\ IF r \in Fds
           THEN /\ rpc_common_open(r, p, n)
                /\ drvfiles' = [drvfiles EXCEPT ![r] = rpc_remap_name(n, p)]
           ELSE UNCHANGED <<openfiles, drvfiles>>

rpc_command_open(p, n) ==
    /\ Serving(p)
    /\ OpenFile(p, n)
    /\ UNCHANGED <<mountlist, mounted>>

rpc_command_dopen(p, n) ==
    /\ Serving(p)
    /\ OpenFile(p, n)
    /\ UNCHANGED <<mountlist, mounted>>

(* The table entry goes only when the driver's close returns 0.              *)
CloseFile(fd, p) ==
    IF rpc_remap_fd(fd, p)
    THEN \E r \in {OK, EIO} :
            /\ scepfsClose(fd, r)
            /\ IF r = OK THEN rpc_common_close(fd, p) ELSE UNCHANGED openfiles
            /\ Write(p, r)
    ELSE /\ Write(p, EBADF)
         /\ UNCHANGED <<drvfiles, openfiles>>

rpc_command_close(p, fd) ==
    /\ Serving(p)
    /\ CloseFile(fd, p)
    /\ UNCHANGED <<mountlist, mounted>>

rpc_command_dclose(p, fd) ==
    /\ Serving(p)
    /\ CloseFile(fd, p)
    /\ UNCHANGED <<mountlist, mounted>>

(* A request that only passes a remapped descriptor on to the driver.        *)
FdRequest(p, fd) ==
    /\ Serving(p)
    /\ \E r \in (IF rpc_remap_fd(fd, p) THEN {OK, EIO} ELSE {EBADF}) : Write(p, r)
    /\ UNCHANGED <<mountlist, openfiles, driver>>

(* A request that only passes a remapped name on to the driver.              *)
NameRequest(p, n) ==
    /\ Serving(p)
    /\ \E r \in (IF Reachable(rpc_remap_name(n, p)) THEN {OK, EIO} ELSE {ENODEV}) :
          Write(p, r)
    /\ UNCHANGED <<mountlist, openfiles, driver>>

(* The slot filled on success: the prefix the client asked for, the unit the *)
(* partition is on.                                                          *)
FillSlot(p, fs, u, d) ==
    mountlist' = [mountlist EXCEPT ![find_free_mount_info] =
                     [pid |-> p, fs |-> fs, cont |-> u, dev |-> d]]

MountRefused(p, fs) ==
    LET full == find_free_mount_info = NMount
    IN  /\ full \/ OwnSlots(p, fs) # {}
        /\ Write(p, IF full THEN EMFILE ELSE EBUSY)
        /\ UNCHANGED <<mountlist, mounted>>

MayMount(p, fs) == find_free_mount_info < NMount /\ OwnSlots(p, fs) = {}

DriverMount(p, fs, u, d) ==
    \E r \in {OK, EIO} :
        /\ scepfsMount(u, d, r)
        /\ IF r = OK THEN FillSlot(p, fs, u, d) ELSE UNCHANGED mountlist
        /\ Write(p, r)

(* The unit that was asked for is free: "pfsN:" is what it says.             *)
MountAsAsked(p, fs, d) ==
    /\ MayMount(p, fs)
    /\ ~MountBusy(fs, d)
    /\ DriverMount(p, fs, fs, d)

SlotsOf(d) == {i \in Slots : mountlist[i].pid # NoPid /\ mountlist[i].dev = d}

(* Another mount has the partition: its unit is shared.                      *)
MountShared(p, fs, d) ==
    /\ MayMount(p, fs)
    /\ MountBusy(fs, d)
    /\ SlotsOf(d) # {}
    /\ FillSlot(p, fs, mountlist[First(SlotsOf(d))].cont, d)
    /\ Write(p, OK)
    /\ UNCHANGED mounted

(* Otherwise the units are tried in turn until one is not busy.              *)
MountElsewhere(p, fs, d) ==
    LET tries == {u \in Units : ~MountBusy(u, d)}
    IN  /\ MayMount(p, fs)
        /\ MountBusy(fs, d)
        /\ SlotsOf(d) = {}
        /\ IF tries # {} THEN DriverMount(p, fs, First(tries), d)
           ELSE Write(p, EBUSY) /\ UNCHANGED <<mountlist, mounted>>

rpc_command_mount(p, fs, d) ==
    /\ Serving(p)
    /\ \/ MountRefused(p, fs)
       \/ MountAsAsked(p, fs, d)
       \/ MountShared(p, fs, d)
       \/ MountElsewhere(p, fs, d)
    /\ UNCHANGED <<openfiles, drvfiles>>

(* Fault: other users of the unit are never found.                           *)
OtherUser_none(i) == NMount

(* The search for another user of slot i's unit: it goes on only while the   *)
(* index equals i, so it stops at index 0.                                   *)
OtherUser(i) ==
    First({k \in Slots : ~(/\ i = k
                           /\ \/ mountlist[k].pid = NoPid
                              \/ mountlist[i].cont # mountlist[k].cont)})

(* Fault: open files do not keep a mount busy.                               *)
Unmount_despite_files(p, fs) ==
    LET i == First(OwnSlots(p, fs))
    IN  IF i = NMount
        THEN Write(p, ENODEV) /\ UNCHANGED <<mountlist, mounted>>
        ELSE Write(p, OK) /\ umount_cleanup(i) /\ UNCHANGED mounted

Unmount(p, fs) ==
    LET i == First(OwnSlots(p, fs))
    IN  IF i = NMount
        THEN Write(p, ENODEV) /\ UNCHANGED <<mountlist, mounted>>
        ELSE IF \E j \in 1 .. Len(openfiles) : openfiles[j].slot = i
        THEN Write(p, EBUSY) /\ UNCHANGED <<mountlist, mounted>>
        ELSE \E r \in (IF OtherUser(i) >= NMount THEN {OK, EIO} ELSE {OK}) :
                /\ IF OtherUser(i) >= NMount THEN scepfsUmount(mountlist[i].cont, r)
                   ELSE UNCHANGED mounted
                /\ Write(p, r)
                /\ IF r = OK THEN umount_cleanup(i) ELSE UNCHANGED mountlist

rpc_command_umount(p, fs) ==
    /\ Serving(p)
    /\ Unmount(p, fs)
    /\ UNCHANGED <<openfiles, drvfiles>>
-------------------------------------------------------------------------------
(* Connections.                                                              *)

(* accept(), with the two refusals (table full, missing capability).  The    *)
(* new client takes the listener's entry and the listener moves up by one:   *)
(* past the end of the array if the client took the last one.                *)
add_new_client(s) ==
    /\ pc = "poll"
    /\ s \notin Clients
    /\ eintr' \in {eintr, FALSE}
    /\ \/ UNCHANGED <<conns, pc>>
       \/ /\ Len(conns) < NPoll
          /\ conns' = Append(conns, s)
          /\ pc' = IF Len(conns) + 1 < NPoll THEN pc ELSE "undefined"
    /\ UNCHANGED <<hup, mountlist, openfiles, debug_mode, cur, reply, driver>>

(* The peer closes its socket or dies.                                       *)
HangUp(p) ==
    /\ p \in Clients \ hup
    /\ pc # "exited"
    /\ hup' = hup \cup {p}
    /\ UNCHANGED <<daemon, driver>>

(* cleanup_client, entered from the poll loop.                               *)
cleanup_client(p) ==
    /\ pc = "poll"
    /\ p \in Clients \cap hup
    /\ pc' = "closing"
    /\ cur' = [pid |-> p, i |-> 1]
    /\ UNCHANGED <<conns, hup, mountlist, openfiles, eintr, debug_mode, reply, driver>>

(* Fault: the index moves on after a close, past the entry that moved down.   *)
cleanup_close_skips ==
    /\ pc = "closing"
    /\ IF cur.i <= Len(openfiles)
       THEN /\ cur' = [pid |-> cur.pid, i |-> cur.i + 1]
            /\ IF openfiles[cur.i].pid = cur.pid
               THEN CloseFile(openfiles[cur.i].fd, cur.pid)
               ELSE UNCHANGED <<openfiles, drvfiles, reply>>
            /\ UNCHANGED <<pc, eintr>>
       ELSE /\ pc' = "unmounting"
            /\ cur' = [pid |-> cur.pid, i |-> 0]
            /\ UNCHANGED <<eintr, openfiles, drvfiles, reply>>
    /\ UNCHANGED <<conns, hup, mountlist, debug_mode, mounted>>

(* Fault: the index steps back for entries of other clients too.             *)
cleanup_close_stays ==
    /\ pc = "closing"
    /\ IF cur.i <= Len(openfiles)
       THEN /\ IF openfiles[cur.i].pid = cur.pid
               THEN CloseFile(openfiles[cur.i].fd, cur.pid)
               ELSE UNCHANGED <<openfiles, drvfiles, reply>>
            /\ UNCHANGED <<pc, cur, eintr>>
       ELSE /\ pc' = "unmounting"
            /\ cur' = [pid |-> cur.pid, i |-> 0]
            /\ UNCHANGED <<eintr, openfiles, drvfiles, reply>>
    /\ UNCHANGED <<conns, hup, mountlist, debug_mode, mounted>>

(* One turn of its first loop: the entry at i is the client's and is closed  *)
(* (i stays, for the next entry moves down), or i moves on.                  *)
cleanup_close ==
    /\ pc = "closing"
    /\ IF cur.i <= Len(openfiles)
       THEN IF openfiles[cur.i].pid = cur.pid
            THEN /\ CloseFile(openfiles[cur.i].fd, cur.pid)
                 /\ eintr' \in {eintr, FALSE}
                 /\ UNCHANGED <<pc, cur>>
            ELSE /\ cur' = [pid |-> cur.pid, i |-> cur.i + 1]
                 /\ UNCHANGED <<pc, eintr, openfiles, drvfiles, reply>>
       ELSE /\ pc' = "unmounting"
            /\ cur' = [pid |-> cur.pid, i |-> 0]
            /\ UNCHANGED <<eintr, openfiles, drvfiles, reply>>
    /\ UNCHANGED <<conns, hup, mountlist, debug_mode, mounted>>

(* One turn of its second loop.                                              *)
cleanup_umount ==
    /\ pc = "unmounting"
    /\ cur.i < NMount
    /\ IF mountlist[cur.i].pid = cur.pid
       THEN Unmount(cur.pid, mountlist[cur.i].fs) /\ eintr' \in {eintr, FALSE}
       ELSE UNCHANGED <<mountlist, mounted, reply, eintr>>
    /\ cur' = [pid |-> cur.pid, i |-> cur.i + 1]
    /\ UNCHANGED <<conns, hup, openfiles, debug_mode, pc, drvfiles>>

(* The socket is closed and the poll table shifts down.  Back in main flag   *)
(* is 0, so the loop ends without polling again and errno, whatever it       *)
(* holds, decides: EINTR polls again (or, with debug_mode, ends the daemon). *)
cleanup_finish ==
    /\ pc = "unmounting"
    /\ cur.i = NMount
    /\ conns' = ShiftDown(conns, CHOOSE j \in 1 .. Len(conns) : conns[j] = cur.pid)
    /\ hup' = hup \ {cur.pid}
    /\ pc' = IF eintr /\ ~debug_mode THEN "poll" ELSE "exited"
    /\ cur' = [pid |-> NoPid, i |-> 0]
    /\ UNCHANGED <<mountlist, openfiles, eintr, debug_mode, reply, driver>>

(* poll() returns EINTR: polled again, or the end of a debug session.        *)
PollInterrupted ==
    /\ pc = "poll"
    /\ eintr' = TRUE
    /\ pc' = IF debug_mode THEN "exited" ELSE "poll"
    /\ UNCHANGED <<conns, hup, mountlist, openfiles, debug_mode, cur, reply, driver>>

(* The process is gone; a new one starts.                                    *)
main ==
    /\ pc = "exited"
    /\ conns' = <<>>
    /\ hup' = {}
    /\ mountlist' = [i \in Slots |-> Free]
    /\ openfiles' = <<>>
    /\ mounted' = [u \in Units |-> NoDev]
    /\ drvfiles' = [fd \in Fds |-> Nowhere]
    /\ eintr' = FALSE
    /\ debug_mode' \in BOOLEAN
    /\ pc' = "poll"
    /\ cur' = [pid |-> NoPid, i |-> 0]
    /\ reply' = [to |-> NoPid, ret |-> OK]
-------------------------------------------------------------------------------
Request(p) ==
    \/ \E n \in Names : \/ rpc_command_open(p, n)
                        \/ rpc_command_dopen(p, n)
                        \/ NameRequest(p, n)
    \/ \E fd \in Fds : \/ rpc_command_close(p, fd)
                       \/ rpc_command_dclose(p, fd)
                       \/ FdRequest(p, fd)
    \/ \E fs \in Units : \/ rpc_command_umount(p, fs)
                         \/ \E d \in Devs : rpc_command_mount(p, fs, d)

Next ==
    \/ \E p \in Pids : \/ add_new_client(p)
                       \/ Request(p)
                       \/ HangUp(p)
                       \/ cleanup_client(p)
    \/ cleanup_close
    \/ cleanup_umount
    \/ cleanup_finish
    \/ PollInterrupted
    \/ main

Spec == Init /\ [][Next]_vars

(* The driver's close does not fail for ever on one descriptor.              *)
ClosesOnce == cleanup_close /\ openfiles' # openfiles

(* cleanup_client runs to its end once entered; what it waits for is the     *)
(* driver's close.                                                           *)
CleanupFairness ==
    /\ WF_vars(cleanup_close)
    /\ SF_vars(ClosesOnce)
    /\ WF_vars(cleanup_umount)
    /\ WF_vars(cleanup_finish)

FairSpec == Spec /\ CleanupFairness
-------------------------------------------------------------------------------
(* Properties.                                                               *)

(* A mount slot is not freed or given away under an open file: the slot      *)
(* rpc_common_open recorded still belongs to the file's client and still     *)
(* names the unit the driver opened the file on.                             *)
FilesOnTheirMounts ==
    \A j \in 1 .. Len(openfiles) :
        LET f == openfiles[j]
        IN  f.slot \in Slots => /\ mountlist[f.slot].pid = f.pid
                                /\ mountlist[f.slot].cont = drvfiles[f.fd]

(* g_openfile_items and the driver agree: each open descriptor has exactly   *)
(* one entry, whatever closes failed or were refused, and the table is never *)
(* written past its end.                                                     *)
FilesMatchDriver ==
    /\ \A j, k \in 1 .. Len(openfiles) :
           openfiles[j].fd = openfiles[k].fd => j = k
    /\ \A fd \in Fds : drvfiles[fd] # Nowhere <=>
           \E j \in 1 .. Len(openfiles) : openfiles[j].fd = fd
    /\ Len(openfiles) <= NOpen

(* A path under a prefix the client mounted resolves (rpc_remap_name) to the *)
(* unit on which the driver really has the partition it asked for, however   *)
(* units are shared and slots are reused.                                    *)
NamesReachTheirDevice ==
    \A i \in Slots :
        LET m == mountlist[i]
        IN  m.pid # NoPid => mounted[rpc_remap_name(m.fs, m.pid)] = m.dev

(* Whatever the tables hold belongs to a connected client: a client that is  *)
(* gone leaves nothing that the next one with the same descriptor inherits.  *)
NoOrphans ==
    /\ \A i \in Slots : mountlist[i].pid \in Clients \cup {NoPid}
    /\ \A j \in 1 .. Len(openfiles) : openfiles[j].pid \in Clients

(* What the tables hold of one client.                                       *)
Holdings(p) ==
    <<{i \in Slots : mountlist[i].pid = p},
      {openfiles[j] : j \in OwnFiles(p)}>>

(* A request, or the cleanup behind a client, changes only what belongs to   *)
(* the client the handler writes its reply to.                               *)
OnlyRequesterChanges ==
    [][pc # "exited" =>
          \A p \in Pids : Holdings(p)' # Holdings(p) => reply'.to = p]_vars

(* cleanup_client's two loops end (the first one steps back after each       *)
(* close), and the poll loop gets control again or the daemon ends.          *)
CleanupEnds == pc \in {"closing", "unmounting"} ~> pc \in {"poll", "exited"}

(* The driver keeps a partition mounted only while some slot uses its unit   *)
(* ("Unmount requested but another process is using.").                      *)
NoLeakedUnit ==
    \A u \in Units : mounted[u] # NoDev =>
        \E i \in Slots : mountlist[i].pid # NoPid /\ mountlist[i].cont = u
===============================================================================
