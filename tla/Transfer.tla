------------------------------- MODULE Transfer -------------------------------
(***************************************************************************)
(* The five routines that copy a file between the host and a PFS           *)
(* partition: do_get and do_put of src/src/shell.c, copyto and copyfrom of *)
(* src/src/hl.c, and ps2kinst, the client of pfsd that installs a kernel.  *)
(* Each acquires what it needs in an order of its own (the files, a mount  *)
(* where it makes one, the session with the daemon), copies a buffer at a  *)
(* time, and releases what it got.  Any call may fail; a write may be      *)
(* short.  They differ in what they notice of that.                        *)
(***************************************************************************)
EXTENDS Integers, Sequences, SequencesExt

CONSTANTS
    Tools,        \* the routines to consider
    Source,       \* contents of the source file
    MaxOld,       \* length the destination may have before
    Buffer        \* bytes in the copy buffer

ASSUME TransferAssumption ==
    /\ Tools \subseteq {"get", "put", "copyto", "copyfrom", "ps2kinst"}
    /\ Source \in Seq(Range(Source))
    /\ MaxOld \in Nat /\ Buffer \in Nat \ {0}

VARIABLES
    tool, pc,     \* acquire, read, write, release, exit, done
    held,         \* how many of Needs[tool] the routine has got
    result,       \* what it will return
    pos, buf,     \* read position, and what was read last
    dst, wpos,    \* contents of the destination, write position
    open,         \* host, driver or pfsd's tables: what is open or mounted
    via,          \* ps2kinst: with whom it has its session, if it has one
    unit,         \* the driver in pfsd: whether the partition is on a unit
    faults        \* history: what went wrong

vars == <<tool, pc, held, result, pos, buf, dst, wpos, open, via, unit, faults>>

OK == 0
ERR == -1
Old == "old"      \* a byte the destination had before
-------------------------------------------------------------------------------
(* What each routine acquires, in order: the source and the destination     *)
(* file and, where it is not mounted yet, the mount of the partition.  The  *)
(* session is one with pfsd or, without a daemon, with PFSlib; mkdir and    *)
(* chdir are part of the opening of ps2kinst's destination.                 *)
Needs == [get      |-> <<"src", "dst">>,
          put      |-> <<"src", "dst">>,
          copyto   |-> <<"src", "mount", "dst">>,
          copyfrom |-> <<"dst", "mount", "src">>,
          ps2kinst |-> <<"src", "session", "mount", "dst">>]

(* What is released, the last one first.                                    *)
Frees == [Needs EXCEPT !.ps2kinst = <<"session", "mount", "dst", "src">>]

(* Fault: copyfrom takes a failed read for the end of the file.             *)
Reports_read_ignored == [get      |-> {"acquire", "close dst"},
                         put      |-> {"acquire", "close dst"},
                         copyto   |-> {"acquire", "write", "close dst", "close mount"},
                         copyfrom |-> {"acquire", "write", "close src",
                                       "close mount", "close dst"},
                         ps2kinst |-> {"acquire", "write", "short", "read"}]

(* Faults that make a routine return an error at the end.  The shell's two  *)
(* break off their loop on any bad write, and hl.c's on a failed one, but   *)
(* the shell's set the result anew when the destination is closed.          *)
Reports == [get      |-> {"acquire", "close dst"},
            put      |-> {"acquire", "close dst"},
            copyto   |-> {"acquire", "write", "close dst", "close mount"},
            copyfrom |-> {"acquire", "write", "read", "close src",
                          "close mount", "close dst"},
            ps2kinst |-> {"acquire", "write", "short", "read"}]

StopsOnShort == {"get", "put", "ps2kinst"}

(* ps2kinst returns from main on a failure, as it does at its end.          *)
AfterFailure == IF tool = "ps2kinst" THEN "exit" ELSE "release"

Init ==
    /\ tool \in Tools
    /\ pc = "acquire" /\ held = 0 /\ result = OK
    /\ pos = 0 /\ buf = <<>> /\ wpos = 0
    /\ \E n \in 0 .. MaxOld : dst = [k \in 1 .. n |-> Old]
    /\ open = {} /\ faults = {}
    /\ via = "none" /\ unit = "free"

(* Bookkeeping of a call that goes wrong.                                   *)
Fault(f) ==
    /\ faults' = faults \cup {f}
    /\ result' = IF f \in Reports[tool] THEN ERR ELSE result

(* Where there is no daemon, ps2kinst is its own driver.                    *)
Acquire ==
    /\ pc = "acquire"
    /\ \/ /\ held' = held + 1
          /\ open' = open \cup {Needs[tool][held + 1]}
          /\ via' \in IF Needs[tool][held + 1] = "session" THEN {"pfsd", "PFSlib"} ELSE {via}
          /\ unit' = IF Needs[tool][held + 1] = "mount" /\ via = "pfsd" THEN "mounted" ELSE unit
          /\ pc' = IF held' = Len(Needs[tool]) THEN "read" ELSE "acquire"
          /\ dst' = IF tool = "ps2kinst" /\ "dst" \in open' THEN <<>> ELSE dst
          /\ UNCHANGED <<result, faults>>
       \/ /\ Fault("acquire")
          /\ pc' = AfterFailure
          /\ UNCHANGED <<held, open, dst, via, unit>>
    /\ UNCHANGED <<tool, pos, buf, wpos>>

(* As much as the buffer takes, or less; nothing at the end of the file.    *)
Read ==
    /\ pc = "read"
    /\ \/ \E n \in 0 .. Buffer :
             /\ pos + n <= Len(Source) /\ (n = 0 => pos = Len(Source))
             /\ buf' = SubSeq(Source, pos + 1, pos + n)
             /\ pos' = pos + n
             /\ pc' = IF n > 0 THEN "write" ELSE "release"
             /\ UNCHANGED <<result, faults>>
       \/ /\ Fault("read")
          /\ pc' = AfterFailure
          /\ UNCHANGED <<pos, buf>>
    /\ UNCHANGED <<tool, held, dst, wpos, open, via, unit>>

(* s with t written over it at offset n.                                    *)
WrittenAt(s, n, t) ==
    [k \in 1 .. IF n + Len(t) > Len(s) THEN n + Len(t) ELSE Len(s) |->
        IF k \in n + 1 .. n + Len(t) THEN t[k - n] ELSE s[k]]

(* Fault: a short write is taken for a whole one.                           *)
Write_short_unnoticed ==
    /\ pc = "write"
    /\ \/ \E n \in 0 .. Len(buf) :
             /\ dst' = WrittenAt(dst, wpos, SubSeq(buf, 1, n))
             /\ wpos' = wpos + n
             /\ IF n < Len(buf) THEN Fault("short") ELSE UNCHANGED <<result, faults>>
             /\ pc' = "read"
       \/ /\ Fault("write")
          /\ pc' = "release"
          /\ UNCHANGED <<dst, wpos>>
    /\ UNCHANGED <<tool, held, pos, buf, open, via, unit>>

Write ==
    /\ pc = "write"
    /\ \/ \E n \in 0 .. Len(buf) :
             /\ dst' = WrittenAt(dst, wpos, SubSeq(buf, 1, n))
             /\ wpos' = wpos + n
             /\ IF n < Len(buf) THEN Fault("short") ELSE UNCHANGED <<result, faults>>
             /\ pc' = IF n < Len(buf) /\ tool \in StopsOnShort
                      THEN AfterFailure ELSE "read"
       \/ /\ Fault("write")
          /\ pc' = AfterFailure
          /\ UNCHANGED <<dst, wpos>>
    /\ UNCHANGED <<tool, held, pos, buf, open, via, unit>>

(* Fault: an early failure returns without releasing what was acquired.     *)
Release_not_after_failure ==
    /\ pc = "release"
    /\ IF held = 0 \/ "acquire" \in faults
       THEN pc' = "done" /\ UNCHANGED <<held, open, result, faults>>
       ELSE /\ held' = held - 1
            /\ open' = open \ {Needs[tool][held]}
            /\ UNCHANGED <<pc, result, faults>>
    /\ UNCHANGED <<tool, pos, buf, dst, wpos, via, unit>>

CloseFault(r) == CASE r = "src" -> "close src" [] r = "dst" -> "close dst"
                   [] r = "mount" -> "close mount" [] r = "session" -> "close session"

(* One thing is released after the other, the failure of one does not stop  *)
(* the rest.  When pfsd unmounts, it frees the entry in its table and       *)
(* leaves the driver's unit as it is (PfsdTables: scepfsUmount is never     *)
(* called).                                                                 *)
Release ==
    /\ pc = "release"
    /\ IF held = 0
       THEN /\ pc' = IF tool = "ps2kinst" THEN "exit" ELSE "done"
            /\ UNCHANGED <<held, open, result, faults>>
       ELSE /\ held' = held - 1
            /\ \/ /\ open' = open \ {Frees[tool][held]}
                  /\ UNCHANGED <<result, faults>>
               \/ /\ Fault(CloseFault(Frees[tool][held]))
                  /\ UNCHANGED open
            /\ UNCHANGED pc
    /\ UNCHANGED <<tool, pos, buf, dst, wpos, via, unit>>

(* The process ends: the host closes its file and its connection, and       *)
(* cleanup_client the files it had open, and its entries in the mount       *)
(* table, but not the driver's unit.                                        *)
Exit ==
    /\ pc = "exit"
    /\ pc' = "done" /\ open' = {}
    /\ UNCHANGED <<tool, held, result, pos, buf, dst, wpos, via, unit, faults>>

Next == Acquire \/ Read \/ Write \/ Release \/ Exit

Spec == Init /\ [][Next]_vars
-------------------------------------------------------------------------------
Whole(s) == Len(s) >= Len(Source) /\ SubSeq(s, 1, Len(Source)) = Source

(* When a routine ends, all that is still open is what the system refused   *)
(* to close: no path through the failures leaks a descriptor or a mount, of *)
(* the host, of the driver in the same process or of the daemon's tables.   *)
(* What ps2kinst mounted through the daemon stays on the daemon's unit, and *)
(* nothing else does.                                                       *)
OnlyRefusedStaysOpen ==
    pc = "done" =>
        /\ \A r \in open : CloseFault(r) \in faults
        /\ unit = "mounted" => tool = "ps2kinst" /\ via = "pfsd"

(* get, put and ps2kinst stop at the first write that is not whole, so that *)
(* what they have written is at every moment the beginning of the source.   *)
WritesPrefix ==
    tool \in StopsOnShort =>
        SubSeq(dst, 1, wpos) = SubSeq(Source, 1, wpos)

(* What the result is worth.  When nothing failed it is success, and all of *)
(* the source has been copied.  copyfrom returns an error for everything    *)
(* but a short write to the host: when it succeeds otherwise, the whole     *)
(* source is in the destination.  When ps2kinst says "Installation Succeed" *)
(* the kernel is what was given and nothing else, whatever was installed.   *)
ResultTellsTheTruth ==
    pc = "done" =>
        /\ faults = {} => result = OK /\ Whole(dst)
        /\ result = OK => /\ tool = "copyfrom" /\ "short" \notin faults
                                => Whole(dst) /\ faults = {}
                          /\ tool = "ps2kinst" => dst = Source

===============================================================================
