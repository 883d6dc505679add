----------------------------- MODULE FuseAdapter -----------------------------
(***************************************************************************)
(* pfsfuse (src/src/iomanx_adapter.c): the FUSE operations on files, run   *)
(* by several threads of libfuse.  A read or write is two calls of the PFS *)
(* driver, each of them atomic: lseek, then read or write at the handle's  *)
(* position; what changes the attributes of a file, or whether there is    *)
(* one, is a single call.  A file is a sequence of cells, a mode and a     *)
(* time.                                                                   *)
(***************************************************************************)
EXTENDS Attributes, Sequences

CONSTANTS
    Threads,        \* threads of libfuse
    Handles,        \* --maxopen descriptors of the PFS driver
    Files, Values,  \* model values
    MaxSize,        \* cells a file may have
    IntMax,         \* an int is negative from here to twice as much (2^31)
    MayLackSeek64,  \* the driver may have no lseek64 (pfs has one)
    Ops,            \* operations called
    Modes, Times,   \* POSIX modes and times applications ask for
    Now,            \* the driver's clock
    SharedHandles   \* two requests may be under way on one handle

ASSUME FuseAssumption ==
    /\ Ops \subseteq {"read", "write", "ftruncate", "create", "unlink", "chmod", "utimens"}
    /\ Modes \subseteq SUBSET Nat /\ Times \subseteq Int /\ Now \in Int
    /\ SharedHandles \in BOOLEAN
    /\ MaxSize \in Nat /\ IntMax \in Nat \ {0}
    \* A driver of 32-bit positions has no files past them.
    /\ MayLackSeek64 \in BOOLEAN /\ (MayLackSeek64 => MaxSize < 2 * IntMax)
    /\ "" \notin Files \cup Handles
    /\ \A n \in Modes : n \cap TypeMask = PosixType["REG"]   \* as the kernel passes them

VARIABLES
    handle,         \* driver: file and position of each descriptor
    content,        \* driver: the cells of each file
    stat,           \* driver: the mode and the time of each file
    req             \* the request each thread serves

vars == <<handle, content, stat, req>>

Absent == [mode |-> {}, mtime |-> 0]
NoStat == [mode |-> [type |-> "none", bits |-> {}], mtime |-> Now]

Free == [use |-> "free", file |-> "", pos |-> 0]
NoReq == [op |-> "none", step |-> "idle", h |-> "", file |-> "", off |-> 0,
          val |-> 0, at |-> 0, result |-> <<"none">>]

(* What the application sees of the requests: the lseek is not part of it.  *)
call == [t \in Threads |->
            IF req[t].op \in {"read", "write"}
            THEN [op |-> req[t].op, file |-> req[t].file, off |-> req[t].off,
                  val |-> req[t].val, result |-> req[t].result]
            ELSE [op |-> "none", file |-> "", off |-> 0, val |-> 0, result |-> <<"none">>]]

(* The modes files have: one a PlayStation 2 gave them, and those set here. *)
FirstMode == [type |-> "REG", bits |-> {<<"R", "USR">>, <<"W", "OTH">>}]
Reported == [m \in {FirstMode} \cup {adapter_mode_to_iomanx(n) : n \in Modes} |->
                adapter_mode_to_posix(m)]

(* What getattr reports: convert_stat_to_posix of the driver's.             *)
iomanx_adapter_getattr ==
    [f \in Files |->
        IF stat[f] = NoStat THEN Absent
        ELSE [mode |-> Reported[stat[f].mode],
              mtime |-> convert_time_to_posix(stat[f].mtime)]]

Posix == INSTANCE PosixFile
            WITH content <- content, call <- call, attr <- iomanx_adapter_getattr,
                 Now <- convert_time_to_posix(Now)
-------------------------------------------------------------------------------
(* The kernel's side (external): files are opened and released, requests    *)
(* are made on open files; it sends one write of a file at a time.          *)

Init ==
    /\ handle = [h \in Handles |-> Free]
    /\ content \in [Files -> UNION {[1 .. n -> Values] : n \in 0 .. MaxSize}]
    /\ stat = [f \in Files |-> [mode |-> FirstMode, mtime |-> Now]]
    /\ req = [t \in Threads |-> NoReq]

Touched(f) == {stat, [stat EXCEPT ![f].mtime = Now]}

Busy(h) == \E t \in Threads : req[t].h = h

(* O_TRUNC empties a file there is, whoever else has it open; O_APPEND      *)
(* makes the driver start at its end.  Emptying it may set its time.        *)
Opened(f, trunc, append) ==
    \E h \in Handles :
        /\ handle[h] = Free
        /\ content' = IF trunc THEN [content EXCEPT ![f] = <<>>] ELSE content
        /\ handle' = [handle EXCEPT ![h] = [use |-> "file", file |-> f,
                                            pos |-> IF append THEN Len(content'[f]) ELSE 0]]

iomanx_adapter_open(f) ==
    /\ stat[f] # NoStat
    /\ \E trunc, append \in BOOLEAN :
          /\ Opened(f, trunc, append)
          /\ stat' \in IF trunc THEN Touched(f) ELSE {stat}
    /\ UNCHANGED req

(* A descriptor the driver does not close is no use to anyone any more.     *)
(* (Closing a file that was written sets its time.)                         *)
Close(h) ==
    \/ handle' = [handle EXCEPT ![h] = Free]
    \/ handle' = [handle EXCEPT ![h] = [use |-> "lost", file |-> "", pos |-> 0]]

iomanx_adapter_release(h) ==
    /\ handle[h].use = "file" /\ ~Busy(h)
    /\ Close(h)
    /\ stat' \in Touched(handle[h].file)
    /\ UNCHANGED <<content, req>>

Request(t, op, h, off, v) ==
    /\ req[t] = NoReq
    /\ handle[h].use = "file"
    /\ Busy(h) => SharedHandles
    /\ op # "read" =>
          \A s \in Threads : req[s].file = handle[h].file => req[s].op = "read"
    /\ req' = [req EXCEPT ![t] = [op |-> op, step |-> "lseek", h |-> h,
                                  file |-> handle[h].file, off |-> off, val |-> v,
                                  at |-> off, result |-> <<"pending">>]]
    /\ UNCHANGED <<handle, content, stat>>

Reply(t) ==
    /\ req[t].step = "done"
    /\ req' = [req EXCEPT ![t] = NoReq]
    /\ UNCHANGED <<handle, content, stat>>
-------------------------------------------------------------------------------
(* The adapter.                                                             *)

Done(t, r) == req' = [req EXCEPT ![t].step = "done", ![t].result = r]

(* Fault: the position is not moved for a write.                            *)
iomanx_adapter_lseek_reads_only(t) ==
    /\ req[t].step = "lseek"
    /\ handle' = IF req[t].op = "write" THEN handle
                 ELSE [handle EXCEPT ![req[t].h].pos = req[t].off]
    /\ req[t].off <= Len(content[req[t].file])
    /\ req' = [req EXCEPT ![t].step = "io"]
    /\ UNCHANGED <<content, stat>>

(* A 64-bit number kept in an int.                                          *)
AsInt(n) ==
    LET low == n % (2 * IntMax)
    IN  IF low < IntMax THEN low ELSE low - 2 * IntMax

(* The driver seeks within the file; the position it returns is kept in an  *)
(* int, and a negative one taken for an error.  (At -48 the code seeks      *)
(* again, to -48, which the driver refuses.)  A driver that has no lseek64  *)
(* gets the offset as an int.  ftruncate is nothing but this seek.          *)
iomanx_adapter_lseek(t) ==
    LET off == req[t].off
        Moved(n) == handle' = [handle EXCEPT ![req[t].h].pos = n]
        Within(n) == 0 <= n /\ n <= Len(content[req[t].file])
        Sought == IF req[t].op = "ftruncate" THEN Done(t, <<"truncated">>)
                  ELSE req' = [req EXCEPT ![t].step = "io"]
    IN  /\ req[t].step = "lseek"
        /\ \/ Done(t, <<"error">>) /\ UNCHANGED handle
           \/ Within(off) /\ AsInt(off) < 0 /\ Moved(off) /\ Done(t, <<"error">>)
           \/ Within(off) /\ AsInt(off) >= 0 /\ Moved(off) /\ Sought
           \/ MayLackSeek64 /\ Within(AsInt(off)) /\ Moved(AsInt(off)) /\ Sought
        /\ UNCHANGED <<content, stat>>

iomanx_adapter_read(t) ==
    LET r == req[t]
        p == handle[r.h].pos
        data == Posix!Get(content[r.file], p)
    IN  /\ r.step = "io" /\ r.op = "read"
        /\ \/ /\ req' = [req EXCEPT ![t] = [r EXCEPT !.step = "done", !.at = p,
                                                     !.result = data]]
              /\ handle' = [handle EXCEPT ![r.h].pos = p + Len(data) - 1]
           \/ Done(t, <<"error">>) /\ UNCHANGED handle
        /\ UNCHANGED <<content, stat>>

iomanx_adapter_write(t) ==
    LET r == req[t]
        p == handle[r.h].pos
    IN  /\ r.step = "io" /\ r.op = "write"
        /\ \/ /\ p < MaxSize
              /\ \E cells \in Posix!Written(content[r.file], p, r.val) :
                    content' = [content EXCEPT ![r.file] = cells]
              /\ handle' = [handle EXCEPT ![r.h].pos = p + 1]
              /\ req' = [req EXCEPT ![t] = [r EXCEPT !.step = "done", !.at = p,
                                                     !.result = <<"written">>]]
           \/ Done(t, <<"error">>) /\ UNCHANGED <<handle, content>>
        /\ UNCHANGED stat

(* A descriptor of its own, for as long as the directory is listed.         *)
iomanx_adapter_readdir(t) ==
    \/ /\ req[t] = NoReq
       /\ \E h \in Handles :
             /\ handle[h] = Free
             /\ handle' = [handle EXCEPT ![h] = [use |-> "dir", file |-> "", pos |-> 0]]
             /\ req' = [req EXCEPT ![t] = [NoReq EXCEPT !.op = "readdir",
                                                        !.step = "dread", !.h = h]]
       /\ UNCHANGED <<content, stat>>
    \/ /\ req[t].step = "dread"
       /\ req' = [req EXCEPT ![t] = NoReq]
       /\ Close(req[t].h)
       /\ UNCHANGED <<content, stat>>

-------------------------------------------------------------------------------
(* Operations on paths: one call of the driver, which may refuse.           *)

(* A file there is already is opened as it is, or emptied; a new one is     *)
(* empty.                                                                   *)
iomanx_adapter_create(f, mode) ==
    /\ \E trunc, append \in BOOLEAN :
          /\ Opened(f, trunc \/ stat[f] = NoStat, append)
          /\ stat' \in IF stat[f] = NoStat
                      THEN {[stat EXCEPT ![f] = [mode |-> adapter_mode_to_iomanx(mode),
                                                 mtime |-> Now]]}
                      ELSE IF trunc THEN Touched(f) ELSE {stat}
    /\ UNCHANGED req

(* The driver does not remove a file that is open.                          *)
iomanx_adapter_unlink(f) ==
    /\ stat[f] # NoStat /\ \A h \in Handles : handle[h].file # f
    /\ stat' = [stat EXCEPT ![f] = NoStat]
    /\ content' = [content EXCEPT ![f] = <<>>]
    /\ UNCHANGED <<handle, req>>

(* The driver keeps the type.                                               *)
iomanx_adapter_chmod(f, mode) ==
    /\ stat[f] # NoStat
    /\ stat' = [stat EXCEPT ![f].mode.bits = adapter_mode_to_iomanx(mode).bits]
    /\ UNCHANGED <<handle, content, req>>

iomanx_adapter_utimens(f, t) ==
    /\ stat[f] # NoStat
    /\ stat' = [stat EXCEPT ![f].mtime = convert_time_to_iomanx(t)]
    /\ UNCHANGED <<handle, content, req>>

PathOperation(f) ==
    \/ "unlink" \in Ops /\ iomanx_adapter_unlink(f)
    \/ "create" \in Ops /\ \E mode \in Modes : iomanx_adapter_create(f, mode)
    \/ "chmod" \in Ops /\ \E mode \in Modes : iomanx_adapter_chmod(f, mode)
    \/ "utimens" \in Ops /\ \E t \in Times : iomanx_adapter_utimens(f, t)

Next ==
    \/ \E f \in Files : iomanx_adapter_open(f) \/ PathOperation(f)
    \/ \E h \in Handles : iomanx_adapter_release(h)
    \/ \E t \in Threads :
          \/ \E op \in Ops \cap {"read", "write", "ftruncate"}, h \in Handles,
                off \in 0 .. MaxSize, v \in Values : Request(t, op, h, off, v)
          \/ iomanx_adapter_lseek(t)
          \/ iomanx_adapter_read(t)
          \/ iomanx_adapter_write(t)
          \/ iomanx_adapter_readdir(t)
          \/ Reply(t)

Spec == Init /\ [][Next]_vars
-------------------------------------------------------------------------------
(* As long as no two requests are under way on one handle, whatever other   *)
(* handles of the same file are used for meanwhile, reads and writes are    *)
(* the atomic ones an application expects, a file has the rights and the    *)
(* time it was given, and changing these does not disturb its data.         *)
ImplementsPosix == Posix!PSpec

(* README.md:129: "mountpoint is accessible like a normal folder": what a   *)
(* read or write that succeeds has accessed is the offset it was given.     *)
IoAtOffsetAsked ==
    \A t \in Threads : req[t].step = "done" /\ req[t].result # <<"error">>
        => req[t].at = req[t].off
===============================================================================
