------------------------------ MODULE PosixFile ------------------------------
(***************************************************************************)
(* What an application expects of the files of a mounted folder: a read or *)
(* a write of a given offset takes effect at one moment between its call   *)
(* and its return, or fails and has none; a file has at least the rights   *)
(* it was given, none that nobody was given, and the time it was given or  *)
(* that of its last use.  The specification pfsfuse (FuseAdapter.tla) is   *)
(* held against.                                                           *)
(***************************************************************************)
EXTENDS Attributes, Sequences

CONSTANTS
    Threads,    \* requests that may be under way at a time
    Files, Values,
    MaxSize,    \* cells in a file
    Modes, Times, Now

VARIABLES content, call, attr

NoCall == [op |-> "none", file |-> "", off |-> 0, val |-> 0, result |-> <<"none">>]

(* The file with v in cell off.  A write past its end makes it longer; what *)
(* the cells between hold, after a truncation, nobody says.                 *)
Written(s, off, v) ==
    {[i \in 1 .. (IF off < Len(s) THEN Len(s) ELSE off + 1) |->
         IF i = off + 1 THEN v ELSE IF i <= Len(s) THEN s[i] ELSE gap[i]]
        : gap \in [Len(s) + 1 .. off -> Values]}

(* The data of cell off; none at the end of the file.                       *)
Get(s, off) == IF off < Len(s) THEN <<"data", s[off + 1]>> ELSE <<"data">>

PInit ==
    /\ content \in [Files -> UNION {[1 .. n -> Values] : n \in 0 .. MaxSize}]
    /\ call = [t \in Threads |-> NoCall]

Call(t) ==
    /\ call[t] = NoCall
    /\ \E op \in {"read", "write"}, f \in Files, off \in 0 .. MaxSize, v \in Values :
          call' = [call EXCEPT ![t] = [op |-> op, file |-> f, off |-> off, val |-> v,
                                       result |-> <<"pending">>]]
    /\ UNCHANGED <<content, attr>>

Fail(t) ==
    /\ call[t].result = <<"pending">>
    /\ call' = [call EXCEPT ![t].result = <<"error">>]
    /\ UNCHANGED <<content, attr>>

PRead(t) ==
    /\ call[t].op = "read" /\ call[t].result = <<"pending">>
    /\ call' = [call EXCEPT ![t].result = Get(content[call[t].file], call[t].off)]
    /\ UNCHANGED <<content, attr>>

PWrite(t) ==
    /\ call[t].op = "write" /\ call[t].result = <<"pending">>
    /\ \E cells \in Written(content[call[t].file], call[t].off, call[t].val) :
          content' = [content EXCEPT ![call[t].file] = cells]
    /\ call' = [call EXCEPT ![t].result = <<"written">>]
    /\ UNCHANGED attr

Return(t) ==
    /\ call[t] # NoCall /\ call[t].result # <<"pending">>
    /\ call' = [call EXCEPT ![t] = NoCall]
    /\ UNCHANGED <<content, attr>>

(* Whoever is given a right has it; where nobody is, nobody has.            *)
Grants(m, mode) ==
    /\ \A f \in Flags : Has(mode, f) => Has(m, f)
    /\ \A f \in Special : Has(m, f) => Has(mode, f)
    /\ \A r \in Rights, u \in Users :
          Has(m, <<r, u>>) => \E v \in Users : Has(mode, <<r, v>>)

Absent == [mode |-> {}, mtime |-> 0]

PCreate(f) ==
    /\ attr[f] = Absent /\ attr'[f] # Absent
    /\ \E mode \in Modes : Grants(attr'[f].mode, mode)
    /\ attr' = [attr EXCEPT ![f] = [mode |-> attr'[f].mode, mtime |-> Now]]
    /\ content' = [content EXCEPT ![f] = <<>>]
    /\ UNCHANGED call

PTruncate(f) ==
    /\ attr[f] # Absent
    /\ attr' \in {attr, [attr EXCEPT ![f].mtime = Now]}
    /\ content' = [content EXCEPT ![f] = <<>>]
    /\ UNCHANGED call

PUnlink(f) ==
    /\ attr[f] # Absent /\ \A t \in Threads : call[t].file # f
    /\ attr' = [attr EXCEPT ![f] = Absent]
    /\ content' = [content EXCEPT ![f] = <<>>]
    /\ UNCHANGED call

PChmod(f) ==
    /\ attr[f] # Absent /\ attr'[f].mode # attr[f].mode
    /\ \E mode \in Modes : Grants(attr'[f].mode, mode)
    /\ attr' = [attr EXCEPT ![f].mode = attr'[f].mode]
    /\ UNCHANGED <<content, call>>

PUtimens(f) ==
    /\ attr[f] # Absent
    /\ \E t \in Times \cup {Now} : attr' = [attr EXCEPT ![f].mtime = t]
    /\ UNCHANGED <<content, call>>

PNext ==
    \/ \E t \in Threads : Call(t) \/ Fail(t) \/ PRead(t) \/ PWrite(t) \/ Return(t)
    \/ \E f \in Files : PCreate(f) \/ PTruncate(f) \/ PUnlink(f) \/ PChmod(f) \/ PUtimens(f)

PSpec == PInit /\ [][PNext]_<<content, call, attr>>
===============================================================================
