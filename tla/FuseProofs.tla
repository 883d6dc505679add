----------------------------- MODULE FuseProofs -----------------------------
(***************************************************************************)
(* Proofs about FuseAdapter, for any threads, descriptors, files, values   *)
(* and modes: the adapter grants what it was asked for, and as long as no  *)
(* two requests are under way on one descriptor, pfsfuse implements        *)
(* PosixFile.                                                              *)
(***************************************************************************)
EXTENDS FuseAdapter, CommonLemmas, TLAPS

(* The modes that files have.                                                *)
KnownModes == {FirstMode} \cup {adapter_mode_to_iomanx(n) : n \in Modes}

Descriptors == [use : {"free", "file", "dir", "lost"}, file : Files \cup {""}, pos : Nat]
Results == {<<"none">>, <<"pending">>, <<"error">>, <<"truncated">>, <<"written">>, <<"data">>}
              \cup {<<"data", v>> : v \in Values}
Requests ==
    [op : {"none", "read", "write", "ftruncate", "readdir"},
     step : {"idle", "lseek", "io", "done", "dread"}, h : Handles \cup {""},
     file : Files \cup {""}, off : Nat, val : Values \cup {0}, at : Nat, result : Results]

TypeOK ==
    /\ handle \in [Handles -> Descriptors]
    /\ content \in [Files -> Seq(Values)]
    /\ stat \in [Files -> {NoStat} \cup [mode : KnownModes, mtime : Int]]
    /\ req \in [Threads -> Requests]

(* An open file is there, and only an open file has a name.                  *)
Sound(d, st) ==
    /\ d.use = "file" => d.file \in Files /\ st[d.file] # NoStat
    /\ d.use # "file" => d.file = ""
    /\ d.use = "free" => d = Free

HandlesInv == \A h \in Handles : Sound(handle[h], stat)

(* What a request has done so far, when no other request is on its handle:   *)
(* the descriptors are hd.                                                   *)
Serves(r, hd) ==
    \/ r = NoReq
    \/ /\ r.op = "readdir" /\ r.step = "dread" /\ r.file = ""
       /\ r.h \in Handles /\ hd[r.h].use = "dir"
    \/ /\ r.op \in {"read", "write", "ftruncate"} /\ r.step \in {"lseek", "io", "done"}
       /\ r.h \in Handles /\ r.file \in Files
       /\ hd[r.h].use = "file" /\ hd[r.h].file = r.file
       /\ r.off \in 0 .. MaxSize /\ r.val \in Values /\ r.at = r.off
       /\ r.step = "done" <=> r.result # <<"pending">>
       /\ r.step = "io" => /\ r.op # "ftruncate"
                           /\ hd[r.h].pos = r.off

RequestsInv ==
    /\ \A t \in Threads : Serves(req[t], handle)
    /\ \A s, t \in Threads : req[s].h = req[t].h => s = t \/ req[s].h = ""

FuseInv == TypeOK /\ HandlesInv /\ RequestsInv

(* What the assumption says of the sizes, the names and the clock.           *)
LEMMA Constants ==
    /\ MaxSize \in Nat /\ Now \in Int /\ Times \subseteq Int
    /\ \A f \in Files : f # ""
    /\ \A h \in Handles : h # ""
BY FuseAssumption, Zenon

(* The adapter's conversions: whoever asks for a right gets it, and nobody   *)
(* gets one that nobody asked for.                                           *)
LEMMA AdapterGrants ==
    ASSUME NEW n \in Modes
    PROVE  /\ adapter_mode_to_iomanx(n) = [type |-> "REG", bits |-> adapter_mode_to_iomanx(n).bits]
           /\ adapter_mode_to_posix(adapter_mode_to_iomanx(n)) # {}
           /\ Posix!Grants(adapter_mode_to_posix(adapter_mode_to_iomanx(n)), n)
<1> DEFINE granted == {r \in Rights : \E u \in Users : Has(n, <<r, u>>)}
           special == {f \in Special : Has(n, f)}
           bits == Everybodys(granted) \cup special
           m == adapter_mode_to_iomanx(n)
<1>1. TypeOf(n) = "REG"
  BY TypeOfMode, FuseAssumption DEF Types
<1>2. m = [type |-> "REG", bits |-> bits]
  BY <1>1, Zenon DEF adapter_mode_to_iomanx
<1>3. /\ \A r \in Rights, u \in Users : <<r, u>> \in bits <=> r \in granted
      /\ \A f \in Special : f \in bits <=> Has(n, f)
      /\ \A f \in Special, r \in Rights, u \in Users : f # <<r, u>>
      /\ bits \subseteq Flags
  BY DEF Everybodys, Rights, Users, Special, Flags, Permissions
<1> HIDE DEF bits
<1>4. Everybodys({r \in Rights : \E u \in Users : <<r, u>> \in bits}) \cup (bits \cap Special) = bits
  <2>1. "USR" \in Users
    BY DEF Users
  <2>2. {r \in Rights : \E u \in Users : <<r, u>> \in bits} = granted
    BY <1>3, <2>1
  <2>3. bits \cap Special = special
    BY <1>3
  <2> QED
    BY <2>2, <2>3 DEF bits
<1>5. adapter_mode_to_posix(m) = Posix_mode("REG", bits)
  <2> HIDE DEF m
  <2>1. m.type = "REG" /\ m.bits = bits
    BY <1>2
  <2> QED
    BY <1>4, <2>1 DEF adapter_mode_to_posix
<1> DEFINE p == Posix_mode("REG", bits)
<1>6. (\A f \in Flags : Has(p, f) <=> f \in bits) /\ p # {}
  BY <1>3, PosixModes DEF Types
<1> HIDE DEF p, m
<1>7. /\ \A f \in Flags : Has(n, f) => Has(p, f)
      /\ \A f \in Special : Has(p, f) => Has(n, f)
      /\ \A r \in Rights, u \in Users : Has(p, <<r, u>>) => \E v \in Users : Has(n, <<r, v>>)
  <2>1. ASSUME NEW r \in Rights, NEW u \in Users
        PROVE  <<r, u>> \in Flags /\ (Has(p, <<r, u>>) <=> r \in granted)
    <3>1. <<r, u>> \in Flags
      BY DEF Flags, Permissions
    <3> HIDE DEF granted
    <3> QED
      BY <1>3, <1>6, <3>1
  <2>2. \A r \in Rights, u \in Users : Has(n, <<r, u>>) => r \in granted
    OBVIOUS
  <2>3. \A r \in granted : \E v \in Users : Has(n, <<r, v>>)
    OBVIOUS
  <2>4. \A f \in Special : f \in Flags /\ (Has(p, f) <=> Has(n, f))
    BY <1>3, <1>6 DEF Flags
  <2>5. \A f \in Flags : f \in Special \/ \E r \in Rights, u \in Users : f = <<r, u>>
    BY DEF Flags, Permissions
  <2> HIDE DEF granted
  <2>6. \A f \in Flags : Has(n, f) => Has(p, f)
    <3> SUFFICES ASSUME NEW f \in Flags, Has(n, f)
                 PROVE  Has(p, f)
      OBVIOUS
    <3>1. CASE f \in Special
      BY <2>4, <3>1
    <3>2. CASE f \notin Special
      <4>1. PICK r \in Rights, u \in Users : f = <<r, u>>
        BY <2>5, <3>2
      <4> QED
        BY <2>1, <2>2, <4>1
    <3> QED
      BY <3>1, <3>2
  <2>7. \A r \in Rights, u \in Users : Has(p, <<r, u>>) => \E v \in Users : Has(n, <<r, v>>)
    BY <2>1, <2>3, Zenon
  <2> QED
    BY <2>4, <2>6, <2>7, Zenon
<1>8. Posix!Grants(p, n)
  BY <1>7 DEF Posix!Grants, Posix!Flags, Posix!Special, Posix!Rights, Posix!Users, Posix!Has,
         Posix!PosixBit, Posix!PosixRight, Posix!PosixUser, Posix!PosixSpecial,
         Posix!Permissions, Flags, Special, Rights, Users, Has,
         PosixBit, PosixRight, PosixUser, PosixSpecial, Permissions
<1> QED
  BY <1>2, <1>5, <1>6, <1>8 DEF p, m

(* Every file has the mode of a regular file, which is never empty.          *)
LEMMA ModesKnown ==
    ASSUME NEW m \in KnownModes
    PROVE  /\ Reported[m] = adapter_mode_to_posix(m) /\ adapter_mode_to_posix(m) # {}
           /\ m = [type |-> "REG", bits |-> m.bits]
<1>1. Reported[m] = adapter_mode_to_posix(m)
  BY DEF Reported, KnownModes
<1>2. CASE m = FirstMode
  <2>1. m.type = "REG"
    BY <1>2 DEF FirstMode
  <2>2. adapter_mode_to_posix(m) # {}
    BY <2>1 DEF adapter_mode_to_posix, Posix_mode, PosixType
  <2>3. m = [type |-> "REG", bits |-> m.bits]
    BY <1>2 DEF FirstMode
  <2> QED
    BY <1>1, <2>2, <2>3
<1>3. CASE m # FirstMode
  BY <1>1, <1>3, AdapterGrants DEF KnownModes
<1> QED
  BY <1>2, <1>3

(* The driver's record of a file that is there is not that of one that is    *)
(* not.                                                                      *)
LEMMA StatKnown ==
    \A s \in [mode : KnownModes, mtime : Int] : s # NoStat
<1> SUFFICES ASSUME NEW s \in [mode : KnownModes, mtime : Int], s = NoStat
             PROVE  FALSE
  OBVIOUS
<1>1. s.mode = [type |-> "REG", bits |-> s.mode.bits]
  BY ModesKnown
<1>2. s.mode.type = "REG"
  BY <1>1
<1>3. s.mode.type = "none"
  BY DEF NoStat
<1> QED
  BY <1>2, <1>3

(* A request does not notice what happens to other descriptors, or that a    *)
(* file becomes longer.                                                      *)
LEMMA ServesFrame ==
    ASSUME NEW r, NEW hd, NEW hd2, Serves(r, hd), r.h \in Handles => hd2[r.h] = hd[r.h]
    PROVE  Serves(r, hd2)
BY DEF Serves

(* A step of one thread, t, that leaves the handles of the others alone.     *)
LEMMA ThreadStep ==
    ASSUME TypeOK, RequestsInv, TypeOK', NEW t \in Threads, NEW r,
           req' = [req EXCEPT ![t] = r], Serves(r, handle'),
           \A s \in Threads \ {t} :
              /\ req[s].h # r.h \/ r.h = ""
              /\ req[s].h \in Handles => handle'[req[s].h] = handle[req[s].h]
    PROVE  RequestsInv'
<1>1. req'[t] = r /\ \A s \in Threads \ {t} : req'[s] = req[s]
  BY DEF TypeOK
<1>2. ASSUME NEW s \in Threads
      PROVE  Serves(req'[s], handle')
  <2>1. CASE s = t
    BY <1>1, <2>1
  <2>2. CASE s # t
    <3>1. Serves(req[s], handle) /\ req'[s] = req[s]
      BY <1>1, <2>2 DEF RequestsInv
    <3> QED
      BY <2>2, <3>1, ServesFrame
  <2> QED
    BY <2>1, <2>2
<1>3. \A s \in Threads, u \in Threads : req'[s].h = req'[u].h => s = u \/ req'[s].h = ""
  <2> SUFFICES ASSUME NEW s \in Threads, NEW u \in Threads, req'[s].h = req'[u].h, s # u
               PROVE  req'[s].h = ""
    OBVIOUS
  <2>1. CASE s = t \/ u = t
    BY <1>1, <2>1
  <2>2. CASE s # t /\ u # t
    BY <1>1, <2>2 DEF RequestsInv
  <2> QED
    BY <2>1, <2>2
<1> QED
  BY <1>2, <1>3 DEF RequestsInv

(* A step of the kernel, on a descriptor that no request is on.              *)
LEMMA KernelStep ==
    ASSUME TypeOK, RequestsInv, TypeOK', req' = req,
           \A s \in Threads : req[s].h \in Handles => handle'[req[s].h] = handle[req[s].h]
    PROVE  RequestsInv'
<1>1. ASSUME NEW s \in Threads
      PROVE  Serves(req[s], handle')
  <2>1. Serves(req[s], handle)
    BY DEF RequestsInv
  <2> QED
    BY <2>1, ServesFrame
<1> QED
  BY <1>1 DEF RequestsInv

(* Nobody is on a descriptor that is free.                                   *)
LEMMA FreeHandle ==
    ASSUME RequestsInv, NEW h \in Handles, handle[h] = Free, NEW t \in Threads
    PROVE  req[t].h # h
<1>1. Serves(req[t], handle)
  BY DEF RequestsInv
<1>2. h # "" /\ handle[h].use = "free"
  <2>1. Free.use = "free"
    BY DEF Free
  <2> QED
    BY <2>1, Constants, Zenon
<1>3. NoReq.h = ""
  BY DEF NoReq
<1> QED
  BY <1>1, <1>2, <1>3 DEF Serves

(* The descriptor of an open file.                                           *)
Open(f, n) == [use |-> "file", file |-> f, pos |-> n]

(* What a descriptor may become.                                             *)
LEMMA Handled ==
    /\ Free \in Descriptors /\ \A st : Sound(Free, st)
    /\ \A use \in {"lost", "dir"} :
          /\ [use |-> use, file |-> "", pos |-> 0] \in Descriptors
          /\ \A st : Sound([use |-> use, file |-> "", pos |-> 0], st)
    /\ \A f \in Files, n \in Nat : Open(f, n) \in Descriptors
    /\ \A st : \A f \in Files, n \in Nat : st[f] # NoStat => Sound(Open(f, n), st)
<1>1. Free \in Descriptors /\ \A st : Sound(Free, st)
  BY DEF Free, Descriptors, Sound
<1>2. ASSUME NEW use \in {"lost", "dir"}
      PROVE  /\ [use |-> use, file |-> "", pos |-> 0] \in Descriptors
             /\ \A st : Sound([use |-> use, file |-> "", pos |-> 0], st)
  BY DEF Descriptors, Sound
<1>3. ASSUME NEW f \in Files, NEW n \in Nat
      PROVE  Open(f, n) \in Descriptors /\ \A st : st[f] # NoStat => Sound(Open(f, n), st)
  BY DEF Open, Descriptors, Sound
<1> QED
  BY <1>1, <1>2, <1>3

(* A change of one descriptor, while no file goes that is there.             *)
LEMMA HandleStep ==
    ASSUME handle \in [Handles -> Descriptors], HandlesInv, NEW h \in Handles, NEW d \in Descriptors,
           handle' = [handle EXCEPT ![h] = d], Sound(d, stat'),
           \A f \in Files : stat[f] # NoStat => stat'[f] # NoStat
    PROVE  /\ handle' \in [Handles -> Descriptors] /\ HandlesInv'
           /\ handle'[h] = d /\ \A k \in Handles \ {h} : handle'[k] = handle[k]
<1>1. /\ handle' \in [Handles -> Descriptors]
      /\ handle'[h] = d /\ \A k \in Handles \ {h} : handle'[k] = handle[k]
  OBVIOUS
<1>2. ASSUME NEW k \in Handles
      PROVE  Sound(handle'[k], stat')
  <2>1. CASE k = h
    BY <1>1, <2>1
  <2>2. CASE k # h
    BY <1>1, <2>2 DEF HandlesInv, Sound
  <2> QED
    BY <2>1, <2>2
<1> QED
  BY <1>1, <1>2 DEF HandlesInv

(* A step that changes no descriptor, while no file goes that is open.       *)
LEMMA HandlesKept ==
    ASSUME HandlesInv, handle' = handle,
           \A h \in Handles : handle[h].use = "file" /\ handle[h].file \in Files
              /\ stat[handle[h].file] # NoStat => stat'[handle[h].file] # NoStat
    PROVE  HandlesInv'
<1>1. ASSUME NEW k \in Handles
      PROVE  Sound(handle[k], stat')
  BY DEF HandlesInv, Sound
<1> QED
  BY <1>1 DEF HandlesInv

(* A file that is there, and what may become of its record.                  *)
LEMMA StatStep ==
    ASSUME stat \in [Files -> {NoStat} \cup [mode : KnownModes, mtime : Int]],
           NEW f \in Files, NEW s \in [mode : KnownModes, mtime : Int],
           stat' = [stat EXCEPT ![f] = s]
    PROVE  /\ stat' \in [Files -> {NoStat} \cup [mode : KnownModes, mtime : Int]]
           /\ stat'[f] = s /\ stat'[f] # NoStat
           /\ \A g \in Files : stat[g] # NoStat => stat'[g] # NoStat
<1> DEFINE S == [mode : KnownModes, mtime : Int]
<1>1. s # NoStat /\ s \in S
  BY StatKnown
<1> HIDE DEF S
<1> QED
  BY <1>1 DEF S

(* The request y, at a later step.                                           *)
Advanced(y, step, result) ==
    [op |-> y.op, step |-> step, h |-> y.h, file |-> y.file, off |-> y.off,
     val |-> y.val, at |-> y.at, result |-> result]

(* The actions change a request and a descriptor field by field: this is     *)
(* what they make of the whole.                                              *)
LEMMA Effects ==
    ASSUME TypeOK, NEW t \in Threads
    PROVE  /\ [req EXCEPT ![t].step = "io"]
                 = [req EXCEPT ![t] = Advanced(req[t], "io", req[t].result)]
           /\ \A r : [req EXCEPT ![t].step = "done", ![t].result = r]
                 = [req EXCEPT ![t] = Advanced(req[t], "done", r)]
           /\ \A r : [req[t] EXCEPT !.step = "done", !.at = req[t].at, !.result = r]
                 = Advanced(req[t], "done", r)
           /\ \A h \in Handles, n \in Nat : handle[h].use = "file" =>
                 [handle EXCEPT ![h].pos = n] = [handle EXCEPT ![h] = Open(handle[h].file, n)]
<1>1. req[t] \in Requests
  BY DEF TypeOK
<1>y. PICK y \in Requests : y = req[t]
  BY <1>1
<1> DEFINE Rec(s, r) == [op |-> y.op, step |-> s, h |-> y.h, file |-> y.file, off |-> y.off,
                         val |-> y.val, at |-> y.at, result |-> r]
<1>2. [req[t] EXCEPT !.step = "io"] = Advanced(req[t], "io", req[t].result)
  <2>1. PICK x : x = [y EXCEPT !.step = "io"]
    BY Zenon
  <2>2. x = Rec("io", y.result)
    BY <2>1 DEF Requests
  <2> QED
    BY <1>y, <2>1, <2>2, Zenon DEF Advanced
<1>a. ASSUME NEW r
      PROVE  /\ [[req[t] EXCEPT !.step = "done"] EXCEPT !.result = r] = Advanced(req[t], "done", r)
             /\ [req[t] EXCEPT !.step = "done", !.at = req[t].at, !.result = r]
                   = Advanced(req[t], "done", r)
  <2>1. PICK x : x = [y EXCEPT !.step = "done"]
    BY Zenon
  <2>2. x = Rec("done", y.result)
    BY <2>1 DEF Requests
  <2>3. PICK w : w = [x EXCEPT !.result = r]
    BY Zenon
  <2>4. w = Rec("done", r)
    BY <2>2, <2>3
  <2>5. PICK u : u = [x EXCEPT !.at = y.at]
    BY Zenon
  <2>6. u = Rec("done", y.result)
    BY <2>2, <2>5
  <2>7. PICK v : v = [u EXCEPT !.result = r]
    BY Zenon
  <2>8. v = Rec("done", r)
    BY <2>6, <2>7
  <2>9. [[y EXCEPT !.step = "done"] EXCEPT !.result = r] = w
    BY <2>1, <2>3, Zenon
  <2>10. [y EXCEPT !.step = "done", !.at = y.at, !.result = r] = v
    BY <2>1, <2>5, <2>7, Zenon
  <2>11. Rec("done", r) = Advanced(req[t], "done", r)
    BY <1>y, Zenon DEF Advanced
  <2> HIDE DEF Rec
  <2>12. [[req[t] EXCEPT !.step = "done"] EXCEPT !.result = r] = w
    BY <1>y, <2>9, Zenon
  <2>13. [req[t] EXCEPT !.step = "done", !.at = req[t].at, !.result = r] = v
    BY <1>y, <2>10, Zenon
  <2> QED
    BY <2>4, <2>8, <2>11, <2>12, <2>13, Zenon
<1>3. [req EXCEPT ![t].step = "io"] = [req EXCEPT ![t] = [req[t] EXCEPT !.step = "io"]]
  BY Zenon
<1>4. ASSUME NEW r
      PROVE  [req EXCEPT ![t].step = "done", ![t].result = r]
                = [req EXCEPT ![t] = [[req[t] EXCEPT !.step = "done"] EXCEPT !.result = r]]
  BY DEF TypeOK
<1>5. ASSUME NEW h \in Handles, NEW n \in Nat, handle[h].use = "file"
      PROVE  [handle EXCEPT ![h].pos = n] = [handle EXCEPT ![h] = Open(handle[h].file, n)]
  <2>1. PICK d \in Descriptors : d = handle[h]
    BY DEF TypeOK
  <2>2. PICK x : x = [d EXCEPT !.pos = n]
    BY Zenon
  <2>3. x = [use |-> d.use, file |-> d.file, pos |-> n]
    BY <2>2 DEF Descriptors
  <2>4. x = Open(handle[h].file, n)
    BY <1>5, <2>1, <2>3, Zenon DEF Open
  <2>5. [handle EXCEPT ![h].pos = n] = [handle EXCEPT ![h] = [handle[h] EXCEPT !.pos = n]]
    BY Zenon
  <2> QED
    BY <2>1, <2>2, <2>4, <2>5, Zenon
<1> QED
  BY <1>2, <1>a, <1>3, <1>4, <1>5, Zenon

(* A request that was being served is still in order when it has moved on.   *)
LEMMA ServesOn ==
    ASSUME NEW y \in Requests, NEW hd, Serves(y, hd), y.step \in {"lseek", "io"},
           NEW hd2, hd2[y.h].use = "file", hd2[y.h].file = y.file
    PROVE  /\ y.h \in Handles /\ y.file \in Files /\ y.off \in Nat /\ y.at = y.off
           /\ y.op \in {"read", "write", "ftruncate"} /\ y.result = <<"pending">>
           /\ hd[y.h].use = "file" /\ hd[y.h].file = y.file
           /\ \A r \in Results : r # <<"pending">> =>
                 /\ Advanced(y, "done", r) \in Requests
                 /\ Serves(Advanced(y, "done", r), hd2)
           /\ hd2[y.h].pos = y.off /\ y.op # "ftruncate" =>
                 /\ Advanced(y, "io", y.result) \in Requests
                 /\ Serves(Advanced(y, "io", y.result), hd2)
<1>1. y # NoReq
  <2>1. NoReq.step = "idle"
    BY DEF NoReq
  <2>2. y.step # "idle"
    OBVIOUS
  <2> QED
    BY <2>1, <2>2, Zenon
<1>2. /\ y.op \in {"read", "write", "ftruncate"} /\ y.h \in Handles /\ y.file \in Files
      /\ hd[y.h].use = "file" /\ hd[y.h].file = y.file
      /\ y.off \in 0 .. MaxSize /\ y.val \in Values /\ y.at = y.off
      /\ y.result = <<"pending">>
  BY <1>1 DEF Serves
<1>3. y.off \in Nat
  BY DEF Requests
<1>4. ASSUME NEW r \in Results, NEW s \in {"io", "done"}
      PROVE  Advanced(y, s, r) \in Requests
  BY DEF Advanced, Requests
<1>5. ASSUME NEW r \in Results, r # <<"pending">>
      PROVE  Serves(Advanced(y, "done", r), hd2)
  BY <1>2, <1>5 DEF Serves, Advanced
<1>6. ASSUME hd2[y.h].pos = y.off, y.op # "ftruncate"
      PROVE  Serves(Advanced(y, "io", y.result), hd2)
  BY <1>2, <1>6 DEF Serves, Advanced
<1>7. y.result \in Results
  BY DEF Requests
<1> QED
  BY <1>2, <1>3, <1>4, <1>5, <1>6, <1>7

(* A file is opened, on a descriptor that was free.                          *)
LEMMA OpenKeeps ==
    ASSUME FuseInv, NEW f \in Files, NEW trunc, NEW append, Opened(f, trunc, append), req' = req,
           stat' \in [Files -> {NoStat} \cup [mode : KnownModes, mtime : Int]],
           stat'[f] # NoStat, \A g \in Files : stat[g] # NoStat => stat'[g] # NoStat
    PROVE  FuseInv'
<1> DEFINE n == IF append THEN Len(content'[f]) ELSE 0
<1>1. PICK h \in Handles : handle[h] = Free /\ handle' = [handle EXCEPT ![h] = Open(f, n)]
  BY Zenon DEF Opened, Open
<1>c. content' \in [Files -> Seq(Values)]
  <2>1. content \in [Files -> Seq(Values)] /\ <<>> \in Seq(Values)
    BY DEF FuseInv, TypeOK
  <2>2. content' = content \/ content' = [content EXCEPT ![f] = <<>>]
    BY Zenon DEF Opened
  <2> QED
    BY <2>1, <2>2
<1>n. n \in Nat
  <2>1. Len(content'[f]) \in Nat
    BY <1>c
  <2> QED
    BY <2>1
<1> HIDE DEF n
<1>2. Open(f, n) \in Descriptors /\ Sound(Open(f, n), stat')
  BY <1>n, Handled, Zenon
<1>3. /\ handle' \in [Handles -> Descriptors] /\ HandlesInv'
      /\ \A k \in Handles \ {h} : handle'[k] = handle[k]
  BY <1>1, <1>2, HandleStep DEF FuseInv, TypeOK
<1>4. TypeOK'
  BY <1>3, <1>c DEF FuseInv, TypeOK
<1>5. \A s \in Threads : req[s].h # h
  BY <1>1, FreeHandle DEF FuseInv
<1>6. RequestsInv'
  <2>1. \A s \in Threads : req[s].h \in Handles => handle'[req[s].h] = handle[req[s].h]
    BY <1>3, <1>5
  <2> QED
    BY <1>4, <2>1, KernelStep DEF FuseInv
<1> QED
  BY <1>3, <1>4, <1>6 DEF FuseInv

(* A thread's step is done, without a change of handles or files.            *)
LEMMA DoneKeeps ==
    ASSUME FuseInv, NEW t \in Threads, req[t].step \in {"lseek", "io"}, NEW r \in Results,
           r # <<"pending">>, Done(t, r), UNCHANGED <<handle, content, stat>>
    PROVE  FuseInv'
<1> DEFINE y == req[t]
           z == Advanced(y, "done", r)
<1>1. req' = [req EXCEPT ![t] = z]
  BY Effects DEF Done, FuseInv
<1>2. y \in Requests /\ Serves(y, handle)
  BY DEF FuseInv, TypeOK, RequestsInv
<1> HIDE DEF y, z
<1>3. y.step \in {"lseek", "io"}
  BY DEF y
<1>4. y # NoReq
  <2>1. NoReq.step = "idle"
    BY DEF NoReq
  <2>2. y.step # "idle"
    BY <1>3
  <2> QED
    BY <2>1, <2>2, Zenon
<1>5. handle[y.h].use = "file" /\ handle[y.h].file = y.file
  BY <1>2, <1>3, <1>4 DEF Serves
<1>6. z \in Requests /\ Serves(z, handle')
  BY <1>2, <1>3, <1>5, ServesOn DEF z
<1>7. TypeOK'
  BY <1>1, <1>6 DEF FuseInv, TypeOK
<1>8. z.h = y.h
  BY DEF z, Advanced
<1>9. RequestsInv'
  <2>1. \A s \in Threads \ {t} : req[s].h # z.h \/ z.h = ""
    BY <1>8 DEF FuseInv, RequestsInv, y
  <2> QED
    BY <1>1, <1>6, <1>7, <2>1, ThreadStep DEF FuseInv
<1>10. HandlesInv'
  BY HandlesKept DEF FuseInv
<1> QED
  BY <1>7, <1>9, <1>10 DEF FuseInv

(* A request under way is on the descriptor of its file, alone.              *)
LEMMA UnderWay ==
    ASSUME FuseInv, NEW t \in Threads, req[t].step \in {"lseek", "io"}
    PROVE  /\ req[t] \in Requests /\ req[t].h \in Handles /\ req[t].file \in Files
           /\ req[t].op \in {"read", "write", "ftruncate"}
           /\ req[t].result = <<"pending">> /\ req[t].off \in Nat /\ req[t].at = req[t].off
           /\ handle[req[t].h].use = "file" /\ handle[req[t].h].file = req[t].file
           /\ req[t].step = "io" => handle[req[t].h].pos = req[t].off /\ req[t].op # "ftruncate"
           /\ \A s \in Threads \ {t} : req[s].h # req[t].h
<1> DEFINE y == req[t]
<1>1. y \in Requests /\ Serves(y, handle)
  BY DEF FuseInv, TypeOK, RequestsInv
<1>2. \A s \in Threads \ {t} : req[s].h # y.h \/ y.h = ""
  BY DEF FuseInv, RequestsInv
<1> HIDE DEF y
<1>3. y.step \in {"lseek", "io"}
  BY DEF y
<1>4. y # NoReq
  <2>1. NoReq.step = "idle"
    BY DEF NoReq
  <2>2. y.step # "idle"
    BY <1>3
  <2> QED
    BY <2>1, <2>2, Zenon
<1>5. handle[y.h].use = "file" /\ handle[y.h].file = y.file
  BY <1>1, <1>3, <1>4 DEF Serves
<1>6. /\ y.h \in Handles /\ y.file \in Files /\ y.off \in Nat /\ y.at = y.off
      /\ y.op \in {"read", "write", "ftruncate"} /\ y.result = <<"pending">>
  BY <1>1, <1>3, <1>5, ServesOn
<1>7. y.step = "io" => handle[y.h].pos = y.off /\ y.op # "ftruncate"
  BY <1>1, <1>3, <1>4 DEF Serves
<1>8. y.h # ""
  BY <1>6, Constants, Zenon
<1> QED
  BY <1>1, <1>2, <1>5, <1>6, <1>7, <1>8 DEF y

(* The position of a request's descriptor is set: nobody else is on it.      *)
LEMMA PositionSet ==
    ASSUME FuseInv, NEW t \in Threads, req[t].step \in {"lseek", "io"}, NEW n \in Nat,
           handle' = [handle EXCEPT ![req[t].h].pos = n], stat' = stat
    PROVE  /\ handle' \in [Handles -> Descriptors] /\ HandlesInv'
           /\ handle'[req[t].h] = Open(req[t].file, n)
           /\ \A s \in Threads \ {t} :
                 req[s].h \in Handles => handle'[req[s].h] = handle[req[s].h]
<1> DEFINE h == req[t].h
           f == req[t].file
<1>1. /\ h \in Handles /\ f \in Files /\ handle[h].use = "file" /\ handle[h].file = f
      /\ \A s \in Threads \ {t} : req[s].h # h
  BY UnderWay
<1> HIDE DEF h, f
<1>2. handle' = [handle EXCEPT ![h] = Open(f, n)]
  <2>1. [handle EXCEPT ![h].pos = n] = [handle EXCEPT ![h] = Open(handle[h].file, n)]
    BY <1>1, Effects, Zenon DEF FuseInv
  <2> QED
    BY <1>1, <2>1, Zenon DEF h
<1>3. stat[f] # NoStat
  BY <1>1 DEF FuseInv, HandlesInv, Sound
<1>4. Open(f, n) \in Descriptors /\ Sound(Open(f, n), stat')
  BY <1>1, <1>3, Handled, Zenon
<1>5. /\ handle' \in [Handles -> Descriptors] /\ HandlesInv'
      /\ handle'[h] = Open(f, n) /\ \A k \in Handles \ {h} : handle'[k] = handle[k]
  BY <1>1, <1>2, <1>4, HandleStep DEF FuseInv, TypeOK
<1> QED
  BY <1>1, <1>5 DEF h, f

(* A thread moves on after its descriptor's position was set.                *)
LEMMA MoveKeeps ==
    ASSUME FuseInv, NEW t \in Threads, req[t].step \in {"lseek", "io"}, NEW n \in Nat,
           handle' = [handle EXCEPT ![req[t].h].pos = n], stat' = stat,
           content' \in [Files -> Seq(Values)], NEW s \in {"io", "done"},
           NEW r \in Results, req' = [req EXCEPT ![t] = Advanced(req[t], s, r)],
           \/ s = "done" /\ r # <<"pending">>
           \/ s = "io" /\ r = req[t].result /\ req[t].op # "ftruncate" /\ n = req[t].off
    PROVE  FuseInv'
<1> DEFINE y == req[t]
           z == Advanced(y, s, r)
<1>1. y \in Requests /\ Serves(y, handle)
  BY DEF FuseInv, TypeOK, RequestsInv
<1>2. /\ handle' \in [Handles -> Descriptors] /\ HandlesInv'
      /\ handle'[y.h] = Open(y.file, n)
      /\ \A u \in Threads \ {t} :
            req[u].h \in Handles => handle'[req[u].h] = handle[req[u].h]
  BY PositionSet
<1>3. \A u \in Threads \ {t} : req[u].h # y.h
  BY UnderWay
<1>4. y.step \in {"lseek", "io"} /\ req' = [req EXCEPT ![t] = z]
  OBVIOUS
<1>5. \/ s = "done" /\ r # <<"pending">>
      \/ s = "io" /\ r = y.result /\ y.op # "ftruncate" /\ n = y.off
  OBVIOUS
<1> HIDE DEF y, z
<1>6. handle'[y.h].use = "file" /\ handle'[y.h].file = y.file /\ handle'[y.h].pos = n
  BY <1>2 DEF Open
<1>7. z \in Requests /\ Serves(z, handle')
  <2>1. CASE s = "done" /\ r # <<"pending">>
    BY <1>1, <1>4, <1>6, <2>1, ServesOn DEF z
  <2>2. CASE s = "io" /\ r = y.result /\ y.op # "ftruncate" /\ n = y.off
    <3>1. handle'[y.h].pos = y.off
      BY <1>6, <2>2
    <3>2. Advanced(y, "io", y.result) \in Requests
            /\ Serves(Advanced(y, "io", y.result), handle')
      BY <1>1, <1>4, <1>6, <2>2, <3>1, ServesOn
    <3> QED
      BY <2>2, <3>2 DEF z
  <2> QED
    BY <1>5, <2>1, <2>2
<1>8. TypeOK'
  BY <1>2, <1>4, <1>7 DEF FuseInv, TypeOK
<1>9. z.h = y.h
  BY DEF z, Advanced
<1>10. RequestsInv'
  <2>1. \A u \in Threads \ {t} : req[u].h # z.h
    BY <1>3, <1>9
  <2> QED
    BY <1>2, <1>4, <1>7, <1>8, <2>1, ThreadStep DEF FuseInv
<1> QED
  BY <1>2, <1>8, <1>10 DEF FuseInv

(* What utimens, a release and chmod make of the record of a file.           *)
LEMMA StatChanged ==
    ASSUME TypeOK, NEW f \in Files, stat[f] # NoStat
    PROVE  /\ stat[f] \in [mode : KnownModes, mtime : Int]
           /\ \A n \in Int :
                 /\ [mode |-> stat[f].mode, mtime |-> n] \in [mode : KnownModes, mtime : Int]
                 /\ [stat EXCEPT ![f].mtime = n]
                       = [stat EXCEPT ![f] = [mode |-> stat[f].mode, mtime |-> n]]
           /\ \A m \in Modes :
                 /\ [mode |-> adapter_mode_to_iomanx(m), mtime |-> stat[f].mtime]
                       \in [mode : KnownModes, mtime : Int]
                 /\ [stat EXCEPT ![f].mode.bits = adapter_mode_to_iomanx(m).bits]
                       = [stat EXCEPT ![f] = [mode |-> adapter_mode_to_iomanx(m),
                                              mtime |-> stat[f].mtime]]
<1>1. PICK s \in [mode : KnownModes, mtime : Int] : s = stat[f]
  BY DEF TypeOK
<1>2. ASSUME NEW n \in Int
      PROVE  /\ [mode |-> stat[f].mode, mtime |-> n] \in [mode : KnownModes, mtime : Int]
             /\ [stat EXCEPT ![f].mtime = n]
                   = [stat EXCEPT ![f] = [mode |-> stat[f].mode, mtime |-> n]]
  <2>1. PICK x : x = [s EXCEPT !.mtime = n]
    BY Zenon
  <2>2. x = [mode |-> s.mode, mtime |-> n]
    BY <2>1
  <2>3. [stat EXCEPT ![f].mtime = n] = [stat EXCEPT ![f] = [stat[f] EXCEPT !.mtime = n]]
    BY Zenon
  <2>4. [mode |-> s.mode, mtime |-> n] \in [mode : KnownModes, mtime : Int]
    OBVIOUS
  <2> QED
    BY <1>1, <2>1, <2>2, <2>3, <2>4, Zenon
<1>3. ASSUME NEW m \in Modes
      PROVE  /\ [mode |-> adapter_mode_to_iomanx(m), mtime |-> stat[f].mtime]
                   \in [mode : KnownModes, mtime : Int]
             /\ [stat EXCEPT ![f].mode.bits = adapter_mode_to_iomanx(m).bits]
                   = [stat EXCEPT ![f] = [mode |-> adapter_mode_to_iomanx(m),
                                          mtime |-> stat[f].mtime]]
  <2>1. PICK k \in KnownModes : k = adapter_mode_to_iomanx(m)
    BY Zenon DEF KnownModes
  <2>2. k = [type |-> "REG", bits |-> k.bits] /\ s.mode = [type |-> "REG", bits |-> s.mode.bits]
    BY ModesKnown
  <2>3. PICK a : a = s.mode
    BY Zenon
  <2>4. PICK x : x = [a EXCEPT !.bits = k.bits]
    BY Zenon
  <2>5. x = [type |-> "REG", bits |-> k.bits]
    <3>1. PICK b : a = [type |-> "REG", bits |-> b]
      BY <2>2, <2>3, Zenon
    <3>2. PICK c : c = k.bits
      BY Zenon
    <3>3. x = [a EXCEPT !.bits = c]
      BY <2>4, <3>2, Zenon
    <3>4. x = [type |-> "REG", bits |-> c]
      BY <3>1, <3>3
    <3> QED
      BY <3>2, <3>4, Zenon
  <2>6. x = k
    BY <2>2, <2>5, Zenon
  <2>7. PICK z : z = [s EXCEPT !.mode = x]
    BY Zenon
  <2>8. z = [mode |-> x, mtime |-> s.mtime]
    BY <2>7
  <2>9. [stat EXCEPT ![f].mode.bits = k.bits]
           = [stat EXCEPT ![f] = [stat[f] EXCEPT !.mode = [stat[f].mode EXCEPT !.bits = k.bits]]]
    BY Zenon
  <2>10. [stat[f] EXCEPT !.mode = [stat[f].mode EXCEPT !.bits = k.bits]] = z
    BY <1>1, <2>3, <2>4, <2>7, Zenon
  <2>11. [mode |-> k, mtime |-> s.mtime] \in [mode : KnownModes, mtime : Int]
    BY <2>1
  <2> QED
    BY <1>1, <2>1, <2>6, <2>8, <2>9, <2>10, <2>11, Zenon
<1> QED
  BY <1>1, <1>2, <1>3, Zenon

(* The initial states.                                                       *)
LEMMA FuseInit == Init => FuseInv
<1> SUFFICES ASSUME Init
             PROVE  FuseInv
  OBVIOUS
<1>1. content \in [Files -> Seq(Values)]
  <2>1. content \in [Files -> UNION {[1 .. n -> Values] : n \in 0 .. MaxSize}]
    BY Zenon DEF Init
  <2>2. MaxSize \in Nat
    BY Constants, Zenon
  <2>3. ASSUME NEW s \in UNION {[1 .. n -> Values] : n \in 0 .. MaxSize}
        PROVE  s \in Seq(Values)
    <3>1. PICK n \in 0 .. MaxSize : s \in [1 .. n -> Values]
      BY Zenon
    <3>2. n \in Nat
      BY <2>2, <3>1
    <3> QED
      BY <3>1, <3>2
  <2> QED
    BY <2>1, <2>3
<1>2. stat \in [Files -> {NoStat} \cup [mode : KnownModes, mtime : Int]]
  <2>1. Now \in Int /\ FirstMode \in KnownModes
    BY Constants, Zenon DEF KnownModes
  <2>2. [mode |-> FirstMode, mtime |-> Now] \in [mode : KnownModes, mtime : Int]
    BY <2>1
  <2>3. stat = [f \in Files |-> [mode |-> FirstMode, mtime |-> Now]]
    BY Zenon DEF Init
  <2> QED
    BY <2>2, <2>3, Zenon
<1>3. handle = [h \in Handles |-> Free] /\ req = [t \in Threads |-> NoReq]
  BY Zenon DEF Init
<1>4. handle \in [Handles -> Descriptors] /\ HandlesInv
  BY <1>3, Handled, Zenon DEF HandlesInv
<1>5. NoReq \in Requests /\ NoReq.h = ""
  BY DEF NoReq, Requests, Results
<1>6. req \in [Threads -> Requests]
  BY <1>3, <1>5, Zenon
<1>7. RequestsInv
  BY <1>3, <1>5, Zenon DEF RequestsInv, Serves
<1> QED
  BY <1>1, <1>2, <1>4, <1>6, <1>7 DEF FuseInv, TypeOK

(* The driver may set the time of a file that is there.                      *)
LEMMA TouchedKeeps ==
    ASSUME FuseInv, NEW f \in Files, stat[f] # NoStat, stat' \in Touched(f)
    PROVE  /\ stat' \in [Files -> {NoStat} \cup [mode : KnownModes, mtime : Int]]
           /\ stat'[f] # NoStat /\ \A g \in Files : stat[g] # NoStat => stat'[g] # NoStat
<1>1. CASE stat' = stat
  BY <1>1 DEF FuseInv, TypeOK
<1>2. CASE stat' = [stat EXCEPT ![f].mtime = Now]
  <2> DEFINE s == [mode |-> stat[f].mode, mtime |-> Now]
  <2>1. Now \in Int
    BY Constants, Zenon
  <2>2. s \in [mode : KnownModes, mtime : Int] /\ stat' = [stat EXCEPT ![f] = s]
    BY <1>2, <2>1, StatChanged, Zenon DEF FuseInv
  <2> HIDE DEF s
  <2> QED
    BY <2>2, StatStep DEF FuseInv, TypeOK
<1> QED
  BY <1>1, <1>2 DEF Touched

(* The kernel closes a file: no request is on its descriptor.                *)
LEMMA ReleaseKeeps ==
    ASSUME FuseInv, NEW h \in Handles, iomanx_adapter_release(h)
    PROVE  FuseInv'
<1>1. /\ handle[h].use = "file" /\ handle[h].file \in Files /\ stat[handle[h].file] # NoStat
  BY DEF iomanx_adapter_release, FuseInv, HandlesInv, Sound
<1>2. /\ stat' \in [Files -> {NoStat} \cup [mode : KnownModes, mtime : Int]]
      /\ \A g \in Files : stat[g] # NoStat => stat'[g] # NoStat
  <2>1. stat' \in Touched(handle[h].file)
    BY DEF iomanx_adapter_release
  <2> QED
    BY <1>1, <2>1, TouchedKeeps
<1>3. PICK d \in Descriptors : Sound(d, stat') /\ handle' = [handle EXCEPT ![h] = d]
  BY Handled, Zenon DEF iomanx_adapter_release, Close
<1>4. /\ handle' \in [Handles -> Descriptors] /\ HandlesInv'
      /\ \A k \in Handles \ {h} : handle'[k] = handle[k]
  BY <1>2, <1>3, HandleStep DEF FuseInv, TypeOK
<1>5. content' = content /\ req' = req /\ \A s \in Threads : req[s].h # h
  BY DEF iomanx_adapter_release, Busy
<1>6. TypeOK'
  BY <1>2, <1>4, <1>5 DEF FuseInv, TypeOK
<1>7. RequestsInv'
  <2>1. \A s \in Threads : req[s].h \in Handles => handle'[req[s].h] = handle[req[s].h]
    BY <1>4, <1>5
  <2> QED
    BY <1>5, <1>6, <2>1, KernelStep DEF FuseInv
<1> QED
  BY <1>4, <1>6, <1>7 DEF FuseInv

(* A request is made, on a descriptor nobody else is on.                     *)
LEMMA RequestKeeps ==
    ASSUME FuseInv, ~SharedHandles, NEW t \in Threads, NEW op \in {"read", "write", "ftruncate"},
           NEW h \in Handles, NEW off \in 0 .. MaxSize, NEW v \in Values,
           Request(t, op, h, off, v)
    PROVE  FuseInv'
<1> DEFINE z == [op |-> op, step |-> "lseek", h |-> h, file |-> handle[h].file, off |-> off,
                 val |-> v, at |-> off, result |-> <<"pending">>]
<1>1. /\ handle[h].use = "file" /\ handle[h].file \in Files
  BY DEF Request, FuseInv, HandlesInv, Sound
<1>2. UNCHANGED <<handle, content, stat>> /\ req' = [req EXCEPT ![t] = z]
  BY Zenon DEF Request
<1>3. \A s \in Threads : req[s].h # h
  BY DEF Request, Busy
<1>4. off \in Nat
  <2>1. MaxSize \in Nat
    BY Constants, Zenon
  <2> QED
    BY <2>1
<1>5. z \in Requests
  BY <1>1, <1>4 DEF Requests, Results
<1>6. Serves(z, handle) /\ z.h = h
  BY <1>1 DEF Serves
<1> HIDE DEF z
<1>7. TypeOK'
  BY <1>2, <1>5 DEF FuseInv, TypeOK
<1>8. RequestsInv'
  BY <1>2, <1>3, <1>6, <1>7, ThreadStep DEF FuseInv
<1>9. HandlesInv'
  BY <1>2, HandlesKept DEF FuseInv
<1> QED
  BY <1>7, <1>8, <1>9 DEF FuseInv

(* A thread is through with its request.                                     *)
LEMMA IdleKeeps ==
    ASSUME FuseInv, NEW t \in Threads, req' = [req EXCEPT ![t] = NoReq],
           UNCHANGED <<content, stat>>,
           \/ handle' = handle
           \/ req[t].h \in Handles /\ Close(req[t].h)
    PROVE  FuseInv'
<1>1. NoReq \in Requests /\ NoReq.h = ""
  BY DEF NoReq, Requests, Results
<1>2. Serves(NoReq, handle')
  BY DEF Serves
<1>3. /\ handle' \in [Handles -> Descriptors] /\ HandlesInv'
      /\ \A s \in Threads \ {t} :
            req[s].h \in Handles => handle'[req[s].h] = handle[req[s].h]
  <2>1. CASE handle' = handle
    BY <2>1, HandlesKept DEF FuseInv, TypeOK
  <2>2. CASE req[t].h \in Handles /\ Close(req[t].h)
    <3>1. PICK d \in Descriptors : Sound(d, stat') /\ handle' = [handle EXCEPT ![req[t].h] = d]
      BY <2>2, Handled, Zenon DEF Close
    <3>2. /\ handle' \in [Handles -> Descriptors] /\ HandlesInv'
          /\ \A k \in Handles \ {req[t].h} : handle'[k] = handle[k]
      BY <2>2, <3>1, HandleStep DEF FuseInv, TypeOK
    <3>3. req[t].h # ""
      BY <2>2, Constants, Zenon
    <3>4. \A s \in Threads \ {t} : req[s].h # req[t].h
      BY <3>3 DEF FuseInv, RequestsInv
    <3> QED
      BY <3>2, <3>4
  <2> QED
    BY <2>1, <2>2
<1>4. TypeOK'
  BY <1>1, <1>3 DEF FuseInv, TypeOK
<1>5. RequestsInv'
  BY <1>1, <1>2, <1>3, <1>4, ThreadStep DEF FuseInv
<1> QED
  BY <1>3, <1>4, <1>5 DEF FuseInv

(* What the driver reads and writes at a position.                           *)
LEMMA ReadWrite ==
    ASSUME NEW s \in Seq(Values), NEW n \in Nat, NEW v \in Values
    PROVE  /\ Posix!Written(s, n, v) \subseteq Seq(Values)
           /\ Posix!Get(s, n) \in Results /\ Posix!Get(s, n) # <<"pending">>
           /\ Len(Posix!Get(s, n)) - 1 \in Nat
<1>3. ASSUME NEW cells \in Posix!Written(s, n, v)
      PROVE  cells \in Seq(Values)
  <2> DEFINE m == IF n < Len(s) THEN Len(s) ELSE n + 1
  <2>1. PICK gap \in [Len(s) + 1 .. n -> Values] :
           cells = [i \in 1 .. m |-> IF i = n + 1 THEN v ELSE IF i <= Len(s) THEN s[i] ELSE gap[i]]
    BY <1>3, Zenon DEF Posix!Written
  <2>2. m \in Nat /\ (m = Len(s) \/ m = n + 1)
    OBVIOUS
  <2> HIDE DEF m
  <2>3. ASSUME NEW i \in 1 .. m
        PROVE  (IF i = n + 1 THEN v ELSE IF i <= Len(s) THEN s[i] ELSE gap[i]) \in Values
    <3>1. CASE i = n + 1
      BY <3>1
    <3>2. CASE i # n + 1 /\ i <= Len(s)
      <4>1. i \in 1 .. Len(s)
        BY <2>2, <3>2
      <4> QED
        BY <3>2, <4>1
    <3>3. CASE i # n + 1 /\ ~(i <= Len(s))
      <4>1. i \in Len(s) + 1 .. n
        BY <2>2, <3>3
      <4> QED
        BY <3>3, <4>1
    <3> QED
      BY <3>1, <3>2, <3>3
  <2>4. cells \in [1 .. m -> Values]
    BY <2>1, <2>3
  <2> QED
    BY <2>2, <2>4
<1>1. CASE n < Len(s)
  <2>1. n + 1 \in 1 .. Len(s)
    BY <1>1
  <2>2. Posix!Get(s, n) = <<"data", s[n + 1]>> /\ s[n + 1] \in Values
    BY <1>1, <2>1 DEF Posix!Get
  <2>3. <<"data", s[n + 1]>> # <<"pending">> /\ Len(<<"data", s[n + 1]>>) = 2
    OBVIOUS
  <2>4. <<"data", s[n + 1]>> \in Results
    BY <2>2, Zenon DEF Results
  <2> QED
    BY <2>2, <2>3, <2>4, <1>3
<1>2. CASE ~(n < Len(s))
  <2>1. Posix!Get(s, n) = <<"data">>
    BY <1>2 DEF Posix!Get
  <2>2. <<"data">> # <<"pending">> /\ Len(<<"data">>) = 1 /\ <<"data">> \in Results
    BY DEF Results
  <2> QED
    BY <2>1, <2>2, <1>3
<1> QED
  BY <1>1, <1>2

(* An offset of a file, as an int: itself, or negative; unless there is a    *)
(* 64-bit seek, which takes it as it is.                                     *)
LEMMA IntOffset ==
    ASSUME MayLackSeek64, NEW n \in 0 .. MaxSize, 0 <= AsInt(n)
    PROVE  AsInt(n) = n
<1>1. MaxSize \in Nat /\ IntMax \in Nat \ {0} /\ MaxSize < 2 * IntMax
  BY FuseAssumption
<1>2. n % (2 * IntMax) = n
  <2> DEFINE m == 2 * IntMax
  <2>1. m \in Nat /\ 0 <= n /\ n < m /\ n \in Nat
    BY <1>1
  <2> HIDE DEF m
  <2>2. n % m = n
    BY <2>1
  <2> QED
    BY <2>2 DEF m
<1> QED
  BY <1>1, <1>2 DEF AsInt

(* What the seek of a request does: it fails, or the descriptor is at the    *)
(* offset asked for.                                                         *)
LEMMA SeekSteps ==
    ASSUME FuseInv, NEW t \in Threads, iomanx_adapter_lseek(t)
    PROVE  /\ req[t].step = "lseek" /\ UNCHANGED <<content, stat>>
           /\ \/ Done(t, <<"error">>) /\ UNCHANGED handle
              \/ /\ handle' = [handle EXCEPT ![req[t].h].pos = req[t].off]
                 /\ \/ Done(t, <<"error">>)
                    \/ Done(t, <<"truncated">>) /\ req[t].op = "ftruncate"
                    \/ req[t].op # "ftruncate" /\ req' = [req EXCEPT ![t].step = "io"]
<1> DEFINE n == AsInt(req[t].off)
<1>1. req[t].step = "lseek" /\ UNCHANGED <<content, stat>>
  BY Zenon DEF iomanx_adapter_lseek
<1>2. req[t].off \in 0 .. MaxSize
  <2>1. Serves(req[t], handle) /\ NoReq.step = "idle"
    BY DEF FuseInv, RequestsInv, NoReq
  <2> QED
    BY <1>1, <2>1 DEF Serves
<1>3. MayLackSeek64 /\ 0 <= n => n = req[t].off
  BY <1>2, IntOffset
<1> HIDE DEF n
<1>4. \/ Done(t, <<"error">>) /\ UNCHANGED handle
      \/ /\ \/ handle' = [handle EXCEPT ![req[t].h].pos = req[t].off]
            \/ /\ MayLackSeek64 /\ 0 <= n
               /\ handle' = [handle EXCEPT ![req[t].h].pos = n]
         /\ \/ Done(t, <<"error">>)
            \/ Done(t, <<"truncated">>) /\ req[t].op = "ftruncate"
            \/ req[t].op # "ftruncate" /\ req' = [req EXCEPT ![t].step = "io"]
  BY Zenon DEF iomanx_adapter_lseek, n
<1> QED
  BY <1>1, <1>3, <1>4, Zenon

(* The calls of the driver that a request consists of.                       *)
LEMMA DriverKeeps ==
    ASSUME FuseInv, NEW t \in Threads,
           iomanx_adapter_lseek(t) \/ iomanx_adapter_read(t) \/ iomanx_adapter_write(t)
    PROVE  FuseInv'
<1> DEFINE y == req[t]
<1>0. /\ <<"error">> \in Results /\ <<"error">> # <<"pending">>
      /\ <<"truncated">> \in Results /\ <<"truncated">> # <<"pending">>
      /\ <<"written">> \in Results /\ <<"written">> # <<"pending">>
  BY DEF Results
<1>1. ASSUME y.step \in {"lseek", "io"}, Done(t, <<"error">>), UNCHANGED <<handle, content, stat>>
      PROVE  FuseInv'
  BY <1>0, <1>1, DoneKeeps
<1>2. ASSUME y.step \in {"lseek", "io"}
      PROVE  /\ y \in Requests /\ y.h \in Handles /\ y.file \in Files /\ y.off \in Nat
             /\ y.at = y.off /\ y.result = <<"pending">> /\ y.result \in Results /\ y.val \in Values
             /\ content[y.file] \in Seq(Values)
  <2>1. /\ y \in Requests /\ y.h \in Handles /\ y.file \in Files /\ y.off \in Nat
        /\ y.at = y.off /\ y.result = <<"pending">>
    BY <1>2, UnderWay
  <2>2. Serves(y, handle)
    BY DEF FuseInv, RequestsInv
  <2>3. y # NoReq
    <3>1. NoReq.h = ""
      BY DEF NoReq
    <3> QED
      BY <2>1, <3>1, Constants, Zenon
  <2> HIDE DEF y
  <2>4. y.val \in Values
    BY <1>2, <2>2, <2>3 DEF Serves
  <2>5. content[y.file] \in Seq(Values)
    BY <2>1 DEF FuseInv, TypeOK
  <2>6. y.result \in Results
    BY <2>1 DEF Results
  <2> QED
    BY <2>1, <2>4, <2>5, <2>6
<1>3. CASE iomanx_adapter_lseek(t)
  <2>1. y.step \in {"lseek", "io"} /\ UNCHANGED <<content, stat>>
    BY <1>3, SeekSteps
  <2>2. CASE Done(t, <<"error">>) /\ UNCHANGED handle
    BY <1>1, <2>1, <2>2
  <2>3. CASE /\ handle' = [handle EXCEPT ![y.h].pos = y.off]
             /\ \/ Done(t, <<"error">>) \/ Done(t, <<"truncated">>)
                \/ y.op # "ftruncate" /\ req' = [req EXCEPT ![t].step = "io"]
    <3>1. content' \in [Files -> Seq(Values)]
      BY <2>1 DEF FuseInv, TypeOK
    <3>2. ASSUME NEW r \in Results, r # <<"pending">>, Done(t, r)
          PROVE  FuseInv'
      <4>1. req' = [req EXCEPT ![t] = Advanced(req[t], "done", r)]
        BY <3>2, Effects, Zenon DEF Done, FuseInv
      <4> QED
        BY <1>2, <2>1, <2>3, <3>1, <3>2, <4>1, MoveKeeps
    <3>3. CASE y.op # "ftruncate" /\ req' = [req EXCEPT ![t].step = "io"]
      <4>1. req' = [req EXCEPT ![t] = Advanced(req[t], "io", req[t].result)]
        BY <3>3, Effects, Zenon DEF FuseInv
      <4>3. /\ req[t].step \in {"lseek", "io"} /\ req[t].off \in Nat /\ req[t].result \in Results
            /\ handle' = [handle EXCEPT ![req[t].h].pos = req[t].off] /\ stat' = stat
            /\ req[t].op # "ftruncate"
        BY <1>2, <2>1, <2>3, <3>3
      <4>4. "io" \in {"io", "done"}
        OBVIOUS
      <4> QED
        BY <3>1, <4>1, <4>3, <4>4, MoveKeeps
    <3> QED
      BY <1>0, <2>3, <3>2, <3>3
  <2> QED
    BY <1>3, <2>2, <2>3, SeekSteps
<1>4. CASE iomanx_adapter_read(t)
  <2> DEFINE p == handle[y.h].pos
             data == Posix!Get(content[y.file], p)
  <2>1. y.step = "io" /\ UNCHANGED <<content, stat>>
    BY <1>4 DEF iomanx_adapter_read
  <2>2. CASE Done(t, <<"error">>) /\ UNCHANGED handle
    BY <1>1, <2>1, <2>2
  <2>3. CASE /\ req' = [req EXCEPT ![t] = [y EXCEPT !.step = "done", !.at = p, !.result = data]]
             /\ handle' = [handle EXCEPT ![y.h].pos = p + Len(data) - 1]
    <3>1. content' \in [Files -> Seq(Values)]
      BY <2>1 DEF FuseInv, TypeOK
    <3>2. p = y.off /\ p = y.at /\ p \in Nat
      BY <1>2, <2>1, UnderWay
    <3>3. req' = [req EXCEPT ![t] = Advanced(req[t], "done", data)]
      <4> HIDE DEF data
      <4>1. [y EXCEPT !.step = "done", !.at = p, !.result = data]
               = [req[t] EXCEPT !.step = "done", !.at = req[t].at, !.result = data]
        BY <3>2, Zenon
      <4>2. [req[t] EXCEPT !.step = "done", !.at = req[t].at, !.result = data]
               = Advanced(req[t], "done", data)
        BY Effects, Zenon DEF FuseInv
      <4> QED
        BY <2>3, <4>1, <4>2, Zenon
    <3>4. data \in Results /\ data # <<"pending">> /\ Len(data) - 1 \in Nat
      BY <1>2, <2>1, <3>2, ReadWrite
    <3> HIDE DEF data, p
    <3>5. p + Len(data) - 1 \in Nat
      <4> DEFINE k == Len(data) - 1
      <4>1. k \in Nat /\ p + k \in Nat
        BY <3>2, <3>4
      <4>2. p + Len(data) - 1 = p + k
        BY <3>2
      <4> QED
        BY <4>1, <4>2
    <3> QED
      BY <1>2, <2>1, <2>3, <3>1, <3>3, <3>4, <3>5, MoveKeeps
  <2> QED
    BY <1>4, <2>2, <2>3, Zenon DEF iomanx_adapter_read
<1>5. CASE iomanx_adapter_write(t)
  <2> DEFINE p == handle[y.h].pos
  <2>1. y.step = "io" /\ stat' = stat
    BY <1>5 DEF iomanx_adapter_write
  <2>2. CASE Done(t, <<"error">>) /\ UNCHANGED <<handle, content>>
    BY <1>1, <2>1, <2>2
  <2>3. ASSUME NEW c \in Posix!Written(content[y.file], p, y.val),
               req' = [req EXCEPT ![t] = [y EXCEPT !.step = "done", !.at = p,
                                                   !.result = <<"written">>]],
               handle' = [handle EXCEPT ![y.h].pos = p + 1],
               content' = [content EXCEPT ![y.file] = c]
        PROVE  FuseInv'
    <3>1. p = y.off /\ p = y.at /\ p \in Nat
      BY <1>2, <2>1, UnderWay
    <3>2. c \in Seq(Values)
      BY <1>2, <2>1, <3>1, ReadWrite
    <3>3. req' = [req EXCEPT ![t] = Advanced(req[t], "done", <<"written">>)]
      <4>1. [y EXCEPT !.step = "done", !.at = p, !.result = <<"written">>]
               = [req[t] EXCEPT !.step = "done", !.at = req[t].at, !.result = <<"written">>]
        BY <3>1, Zenon
      <4>2. [req[t] EXCEPT !.step = "done", !.at = req[t].at, !.result = <<"written">>]
               = Advanced(req[t], "done", <<"written">>)
        BY Effects, Zenon DEF FuseInv
      <4> QED
        BY <2>3, <4>1, <4>2, Zenon
    <3>4. content' \in [Files -> Seq(Values)]
      <4>1. y.file \in Files /\ content \in [Files -> Seq(Values)]
        BY <1>2, <2>1 DEF FuseInv, TypeOK
      <4> QED
        BY <2>3, <3>2, <4>1
    <3>5. p + 1 \in Nat
      BY <3>1
    <3> QED
      BY <1>0, <2>1, <2>3, <3>3, <3>4, <3>5, MoveKeeps
  <2> QED
    BY <1>5, <2>2, <2>3, Zenon DEF iomanx_adapter_write
<1> QED
  BY <1>3, <1>4, <1>5

(* A directory is listed: its descriptor was free, and is closed again.      *)
LEMMA ReaddirKeeps ==
    ASSUME FuseInv, NEW t \in Threads, iomanx_adapter_readdir(t)
    PROVE  FuseInv'
<1>1. CASE /\ req[t].step = "dread" /\ req' = [req EXCEPT ![t] = NoReq]
           /\ Close(req[t].h) /\ UNCHANGED <<content, stat>>
  <2>1. Serves(req[t], handle)
    BY DEF FuseInv, RequestsInv
  <2>2. NoReq.step = "idle"
    BY DEF NoReq
  <2>3. req[t].h \in Handles
    BY <1>1, <2>1, <2>2 DEF Serves
  <2> QED
    BY <1>1, <2>3, IdleKeeps
<1>2. CASE ~(/\ req[t].step = "dread" /\ req' = [req EXCEPT ![t] = NoReq]
             /\ Close(req[t].h) /\ UNCHANGED <<content, stat>>)
  <2> DEFINE d == [use |-> "dir", file |-> "", pos |-> 0]
  <2>1. PICK h \in Handles :
           /\ handle[h] = Free /\ handle' = [handle EXCEPT ![h] = d]
           /\ req' = [req EXCEPT ![t] = [NoReq EXCEPT !.op = "readdir", !.step = "dread", !.h = h]]
           /\ UNCHANGED <<content, stat>>
    BY <1>2, Zenon DEF iomanx_adapter_readdir
  <2> DEFINE z == [NoReq EXCEPT !.op = "readdir", !.step = "dread", !.h = h]
  <2>2. z = [op |-> "readdir", step |-> "dread", h |-> h, file |-> "", off |-> 0,
             val |-> 0, at |-> 0, result |-> <<"none">>]
    <3>1. PICK n : n = NoReq
      BY Zenon
    <3>2. PICK a : a = [n EXCEPT !.op = "readdir"]
      BY Zenon
    <3>3. a = [op |-> "readdir", step |-> "idle", h |-> "", file |-> "", off |-> 0,
               val |-> 0, at |-> 0, result |-> <<"none">>]
      BY <3>1, <3>2 DEF NoReq
    <3>4. PICK b : b = [a EXCEPT !.step = "dread"]
      BY Zenon
    <3>5. b = [op |-> "readdir", step |-> "dread", h |-> "", file |-> "", off |-> 0,
               val |-> 0, at |-> 0, result |-> <<"none">>]
      BY <3>3, <3>4
    <3>6. PICK c : c = [b EXCEPT !.h = h]
      BY Zenon
    <3>7. c = [op |-> "readdir", step |-> "dread", h |-> h, file |-> "", off |-> 0,
               val |-> 0, at |-> 0, result |-> <<"none">>]
      BY <3>5, <3>6
    <3>8. z = c
      BY <3>1, <3>2, <3>4, <3>6, Zenon
    <3> QED
      BY <3>7, <3>8, Zenon
  <2> HIDE DEF z
  <2>3. z \in Requests /\ z.h = h
    BY <2>2 DEF Requests, Results
  <2>4. d \in Descriptors /\ Sound(d, stat')
    BY Handled
  <2> HIDE DEF d
  <2>5. /\ handle' \in [Handles -> Descriptors] /\ HandlesInv'
        /\ handle'[h] = d /\ \A k \in Handles \ {h} : handle'[k] = handle[k]
    BY <2>1, <2>4, HandleStep DEF FuseInv, TypeOK
  <2>6. d.use = "dir"
    BY DEF d
  <2>7. Serves(z, handle')
    BY <2>2, <2>5, <2>6 DEF Serves
  <2>8. req' = [req EXCEPT ![t] = z]
    BY <2>1, Zenon DEF z
  <2>9. TypeOK'
    BY <2>1, <2>3, <2>5, <2>8 DEF FuseInv, TypeOK
  <2>10. \A s \in Threads : req[s].h # h
    BY <2>1, FreeHandle DEF FuseInv
  <2>11. RequestsInv'
    <3>1. \A s \in Threads \ {t} :
             /\ req[s].h # z.h \/ z.h = ""
             /\ req[s].h \in Handles => handle'[req[s].h] = handle[req[s].h]
      BY <2>3, <2>5, <2>10
    <3> QED
      BY <2>7, <2>8, <2>9, <3>1, ThreadStep DEF FuseInv
  <2> QED
    BY <2>5, <2>9, <2>11 DEF FuseInv
<1> QED
  BY <1>1, <1>2

(* The operations on paths.                                                  *)
LEMMA PathKeeps ==
    ASSUME FuseInv, NEW f \in Files, PathOperation(f)
    PROVE  FuseInv'
<1>1. ASSUME NEW s \in [mode : KnownModes, mtime : Int], stat' = [stat EXCEPT ![f] = s],
             UNCHANGED <<handle, content, req>>
      PROVE  FuseInv'
  <2>1. /\ stat' \in [Files -> {NoStat} \cup [mode : KnownModes, mtime : Int]]
        /\ \A g \in Files : stat[g] # NoStat => stat'[g] # NoStat
    BY <1>1, StatStep DEF FuseInv, TypeOK
  <2>2. TypeOK'
    BY <1>1, <2>1 DEF FuseInv, TypeOK
  <2>3. HandlesInv'
    BY <1>1, <2>1, HandlesKept DEF FuseInv
  <2>4. RequestsInv'
    BY <1>1, <2>2, KernelStep DEF FuseInv
  <2> QED
    BY <2>2, <2>3, <2>4 DEF FuseInv
<1>2. ASSUME NEW mode \in Modes, iomanx_adapter_create(f, mode)
      PROVE  FuseInv'
  <2>0. PICK trunc, append :
           /\ Opened(f, trunc \/ stat[f] = NoStat, append) /\ req' = req
           /\ stat' \in IF stat[f] = NoStat
                       THEN {[stat EXCEPT ![f] = [mode |-> adapter_mode_to_iomanx(mode),
                                                  mtime |-> Now]]}
                       ELSE IF trunc THEN Touched(f) ELSE {stat}
    BY <1>2, Zenon DEF iomanx_adapter_create
  <2>1. CASE stat[f] # NoStat
    <3>1. stat' \in Touched(f)
      BY <2>0, <2>1, Zenon DEF Touched
    <3>2. /\ stat' \in [Files -> {NoStat} \cup [mode : KnownModes, mtime : Int]]
          /\ stat'[f] # NoStat /\ \A g \in Files : stat[g] # NoStat => stat'[g] # NoStat
      BY <2>1, <3>1, TouchedKeeps
    <3> QED
      BY <2>0, <3>2, OpenKeeps, Zenon
  <2>2. CASE stat[f] = NoStat
    <3> DEFINE s == [mode |-> adapter_mode_to_iomanx(mode), mtime |-> Now]
    <3>1. stat' = [stat EXCEPT ![f] = s]
      BY <2>0, <2>2, Zenon
    <3>2. adapter_mode_to_iomanx(mode) \in KnownModes /\ Now \in Int
      BY Constants, Zenon DEF KnownModes
    <3>3. s \in [mode : KnownModes, mtime : Int]
      BY <3>2
    <3> HIDE DEF s
    <3>4. /\ stat' \in [Files -> {NoStat} \cup [mode : KnownModes, mtime : Int]]
          /\ stat'[f] # NoStat /\ \A g \in Files : stat[g] # NoStat => stat'[g] # NoStat
      BY <3>1, <3>3, StatStep DEF FuseInv, TypeOK
    <3> QED
      BY <2>0, <3>4, OpenKeeps, Zenon
  <2> QED
    BY <2>1, <2>2
<1>3. ASSUME NEW mode \in Modes, iomanx_adapter_chmod(f, mode)
      PROVE  FuseInv'
  <2>1. stat[f] # NoStat /\ UNCHANGED <<handle, content, req>>
    BY <1>3 DEF iomanx_adapter_chmod
  <2>2. PICK s \in [mode : KnownModes, mtime : Int] : stat' = [stat EXCEPT ![f] = s]
    <3> DEFINE s == [mode |-> adapter_mode_to_iomanx(mode), mtime |-> stat[f].mtime]
    <3>1. /\ s \in [mode : KnownModes, mtime : Int]
          /\ [stat EXCEPT ![f].mode.bits = adapter_mode_to_iomanx(mode).bits]
                = [stat EXCEPT ![f] = s]
      BY <2>1, StatChanged, Zenon DEF FuseInv
    <3>2. stat' = [stat EXCEPT ![f] = s]
      BY <1>3, <3>1, Zenon DEF iomanx_adapter_chmod
    <3> QED
      BY <3>1, <3>2, Zenon
  <2> QED
    BY <1>1, <2>1, <2>2
<1>4. ASSUME NEW n \in Times, iomanx_adapter_utimens(f, n)
      PROVE  FuseInv'
  <2>1. stat[f] # NoStat /\ UNCHANGED <<handle, content, req>>
    BY <1>4 DEF iomanx_adapter_utimens
  <2>2. convert_time_to_iomanx(n) \in Int
    <3>1. n \in Int
      BY Constants, Zenon
    <3> QED
      BY <3>1 DEF convert_time_to_iomanx, Jst
  <2>3. PICK s \in [mode : KnownModes, mtime : Int] : stat' = [stat EXCEPT ![f] = s]
    <3> DEFINE s == [mode |-> stat[f].mode, mtime |-> convert_time_to_iomanx(n)]
    <3>1. /\ s \in [mode : KnownModes, mtime : Int]
          /\ [stat EXCEPT ![f].mtime = convert_time_to_iomanx(n)] = [stat EXCEPT ![f] = s]
      BY <2>1, <2>2, StatChanged, Zenon DEF FuseInv
    <3>2. stat' = [stat EXCEPT ![f] = s]
      BY <1>4, <3>1, Zenon DEF iomanx_adapter_utimens
    <3> QED
      BY <3>1, <3>2, Zenon
  <2> QED
    BY <1>1, <2>1, <2>3
<1>5. CASE iomanx_adapter_unlink(f)
  <2>1. /\ stat' = [stat EXCEPT ![f] = NoStat] /\ content' = [content EXCEPT ![f] = <<>>]
        /\ UNCHANGED <<handle, req>> /\ \A h \in Handles : handle[h].file # f
    BY <1>5 DEF iomanx_adapter_unlink
  <2>2. TypeOK'
    BY <2>1 DEF FuseInv, TypeOK
  <2>3. /\ \A g \in Files \ {f} : stat'[g] = stat[g] /\ content'[g] = content[g]
    BY <2>1 DEF FuseInv, TypeOK
  <2>4. HandlesInv'
    BY <2>1, <2>3, HandlesKept DEF FuseInv
  <2>8. RequestsInv'
    BY <2>1, <2>2, KernelStep DEF FuseInv
  <2> QED
    BY <2>2, <2>4, <2>8 DEF FuseInv
<1> QED
  BY <1>2, <1>3, <1>4, <1>5, Zenon DEF PathOperation

(* FuseInv is kept by every step, as long as no descriptor is shared.        *)
LEMMA FuseNext ==
    ASSUME ~SharedHandles, FuseInv, [Next]_vars
    PROVE  FuseInv'
<1>1. ASSUME NEW f \in Files, iomanx_adapter_open(f)
      PROVE  FuseInv'
  <2>1. PICK trunc, append : /\ Opened(f, trunc, append) /\ stat[f] # NoStat /\ req' = req
                             /\ stat' \in Touched(f)
    BY <1>1, Zenon DEF iomanx_adapter_open, Touched
  <2>2. /\ stat' \in [Files -> {NoStat} \cup [mode : KnownModes, mtime : Int]]
        /\ stat'[f] # NoStat /\ \A g \in Files : stat[g] # NoStat => stat'[g] # NoStat
    BY <2>1, TouchedKeeps
  <2> QED
    BY <2>1, <2>2, OpenKeeps, Zenon
<1>2. ASSUME NEW t \in Threads, Reply(t)
      PROVE  FuseInv'
  BY <1>2, IdleKeeps DEF Reply
<1>3. ASSUME NEW t \in Threads, NEW op \in Ops \cap {"read", "write", "ftruncate"},
             NEW h \in Handles, NEW off \in 0 .. MaxSize, NEW v \in Values,
             Request(t, op, h, off, v)
      PROVE  FuseInv'
  BY <1>3, RequestKeeps
<1>4. CASE UNCHANGED vars
  <2>1. UNCHANGED <<handle, content, stat, req>>
    BY <1>4 DEF vars
  <2>2. TypeOK' /\ HandlesInv' /\ RequestsInv'
    BY <2>1 DEF FuseInv, TypeOK, HandlesInv, RequestsInv
  <2> QED
    BY <2>2 DEF FuseInv
<1> QED
  BY <1>1, <1>2, <1>3, <1>4, PathKeeps, ReleaseKeeps, DriverKeeps, ReaddirKeeps, Zenon DEF Next

(* What the application sees of a request and of a file.                     *)
View(r) ==
    IF r.op \in {"read", "write"}
    THEN [op |-> r.op, file |-> r.file, off |-> r.off, val |-> r.val, result |-> r.result]
    ELSE [op |-> "none", file |-> "", off |-> 0, val |-> 0, result |-> <<"none">>]

Shown(s) ==
    IF s = NoStat THEN Absent
    ELSE [mode |-> Reported[s.mode], mtime |-> convert_time_to_posix(s.mtime)]

(* The two state functions PosixFile's variables stand for.                  *)
LEMMA Mapping ==
    /\ call = [t \in Threads |-> View(req[t])] /\ call' = [t \in Threads |-> View(req'[t])]
    /\ iomanx_adapter_getattr = [f \in Files |-> Shown(stat[f])]
    /\ iomanx_adapter_getattr' = [f \in Files |-> Shown(stat'[f])]
BY Zenon DEF call, View, iomanx_adapter_getattr, Shown

(* A request that changes, and how the change is seen.                       *)
LEMMA CallStep ==
    ASSUME TypeOK, NEW t \in Threads, NEW z, req' = [req EXCEPT ![t] = z]
    PROVE  call' = [call EXCEPT ![t] = View(z)] /\ call[t] = View(req[t])
             /\ (View(z) = View(req[t]) => call' = call)
<1>1. req'[t] = z /\ \A s \in Threads \ {t} : req'[s] = req[s]
  BY DEF TypeOK
<1>2. /\ call = [s \in Threads |-> View(req[s])] /\ call' = [s \in Threads |-> View(req'[s])]
  BY Mapping, Zenon
<1>3. call' = [s \in Threads |-> IF s = t THEN View(z) ELSE View(req[s])]
  BY <1>1, <1>2
<1> QED
  BY <1>2, <1>3

(* What is seen of a request that moves on.                                  *)
LEMMA Views ==
    /\ View(NoReq) = Posix!NoCall
    /\ \A y : y.op \notin {"read", "write"} => View(y) = Posix!NoCall
    /\ \A y, s, r : y.op \notin {"read", "write"} => View(Advanced(y, s, r)) = Posix!NoCall
    /\ \A y, s, r : y.op \in {"read", "write"} =>
          View(Advanced(y, s, r)) = [op |-> y.op, file |-> y.file, off |-> y.off,
                                     val |-> y.val, result |-> r]
<1>1. ASSUME NEW y, y.op \notin {"read", "write"}
      PROVE  View(y) = Posix!NoCall
  BY <1>1, Zenon DEF View, Posix!NoCall
<1>2. NoReq.op = "none"
  BY DEF NoReq
<1>4. ASSUME NEW y, NEW s, NEW r, y.op \in {"read", "write"}
      PROVE  View(Advanced(y, s, r)) = [op |-> y.op, file |-> y.file, off |-> y.off,
                                        val |-> y.val, result |-> r]
  <2>1. PICK z : z = Advanced(y, s, r)
    BY Zenon
  <2>2. /\ z.op = y.op /\ z.file = y.file /\ z.off = y.off /\ z.val = y.val /\ z.result = r
    BY <2>1 DEF Advanced
  <2>3. View(z) = [op |-> z.op, file |-> z.file, off |-> z.off, val |-> z.val, result |-> z.result]
    BY <1>4, <2>2 DEF View
  <2> QED
    BY <2>1, <2>2, <2>3, Zenon
<1>5. ASSUME NEW y, NEW s, NEW r, y.op \notin {"read", "write"}
      PROVE  View(Advanced(y, s, r)) = Posix!NoCall
  <2>1. PICK z : z = Advanced(y, s, r)
    BY Zenon
  <2>2. z.op = y.op
    BY <2>1 DEF Advanced
  <2>3. View(z) = Posix!NoCall
    BY <1>1, <1>5, <2>2
  <2> QED
    BY <2>1, <2>3, Zenon
<1>6. View(NoReq) = Posix!NoCall
  BY <1>1, <1>2
<1> QED
  BY <1>1, <1>4, <1>5, <1>6, Zenon

(* A file whose record changes, and how the change is seen.                  *)
LEMMA AttrStep ==
    ASSUME TypeOK, NEW f \in Files, NEW s, stat' = [stat EXCEPT ![f] = s]
    PROVE  /\ iomanx_adapter_getattr' = [iomanx_adapter_getattr EXCEPT ![f] = Shown(s)]
           /\ iomanx_adapter_getattr'[f] = Shown(s)
           /\ iomanx_adapter_getattr[f] = Shown(stat[f])
           /\ Shown(s) = Shown(stat[f]) => iomanx_adapter_getattr' = iomanx_adapter_getattr
<1>1. stat'[f] = s /\ \A g \in Files \ {f} : stat'[g] = stat[g]
  BY DEF TypeOK
<1>2. PICK a, b : a = iomanx_adapter_getattr /\ b = iomanx_adapter_getattr'
  BY Zenon
<1>3. a = [g \in Files |-> Shown(stat[g])] /\ b = [g \in Files |-> Shown(stat'[g])]
  BY <1>2, Mapping, Zenon
<1>4. b = [g \in Files |-> IF g = f THEN Shown(s) ELSE Shown(stat[g])]
  BY <1>1, <1>3
<1>5. /\ b = [a EXCEPT ![f] = Shown(s)] /\ b[f] = Shown(s) /\ a[f] = Shown(stat[f])
      /\ Shown(s) = Shown(stat[f]) => b = a
  BY <1>3, <1>4
<1> QED
  BY <1>2, <1>5, Zenon

(* A file that is there is seen.                                             *)
LEMMA ShownThere ==
    ASSUME NEW s \in [mode : KnownModes, mtime : Int]
    PROVE  /\ Shown(s) = [mode |-> adapter_mode_to_posix(s.mode),
                          mtime |-> convert_time_to_posix(s.mtime)]
           /\ Shown(s).mode = adapter_mode_to_posix(s.mode)
           /\ Shown(s) # Posix!Absent
           /\ Shown(NoStat) = Posix!Absent
<1>1. s # NoStat
  BY StatKnown
<1>2. Reported[s.mode] = adapter_mode_to_posix(s.mode) /\ adapter_mode_to_posix(s.mode) # {}
  BY ModesKnown
<1>3. Shown(s) = [mode |-> adapter_mode_to_posix(s.mode), mtime |-> convert_time_to_posix(s.mtime)]
  BY <1>1, <1>2, Zenon DEF Shown
<1>4. Shown(s).mode = adapter_mode_to_posix(s.mode)
  BY <1>3
<1>5. Posix!Absent.mode = {}
  BY DEF Posix!Absent
<1>6. Shown(s) # Posix!Absent
  BY <1>2, <1>4, <1>5, Zenon
<1>7. Shown(NoStat) = Posix!Absent
  BY Zenon DEF Shown, Absent, Posix!Absent
<1> QED
  BY <1>3, <1>4, <1>6, <1>7

(* What the application sees stays when what it stands for does.             *)
LEMMA SeenSame ==
    /\ req' = req => call' = call
    /\ stat' = stat => iomanx_adapter_getattr' = iomanx_adapter_getattr
<1>1. ASSUME req' = req
      PROVE  call' = call
  BY <1>1, Zenon DEF call
<1>2. ASSUME stat' = stat
      PROVE  iomanx_adapter_getattr' = iomanx_adapter_getattr
  BY <1>2, Zenon DEF iomanx_adapter_getattr
<1> QED
  BY <1>1, <1>2

(* A change of a file's time is what PosixFile allows.                       *)
LEMMA TimeRefines ==
    ASSUME FuseInv, NEW f \in Files, stat[f] # NoStat, NEW n \in Int,
           convert_time_to_posix(n) \in Times \cup {convert_time_to_posix(Now)},
           stat' = [stat EXCEPT ![f].mtime = n], req' = req
    PROVE  /\ iomanx_adapter_getattr[f] # Posix!Absent /\ call' = call
           /\ iomanx_adapter_getattr'
                 = [iomanx_adapter_getattr EXCEPT ![f].mtime = convert_time_to_posix(n)]
           /\ content' = content => Posix!PUtimens(f)
<1> DEFINE a == iomanx_adapter_getattr
           s == [mode |-> stat[f].mode, mtime |-> n]
           c == convert_time_to_posix(n)
<1>1. /\ s \in [mode : KnownModes, mtime : Int] /\ stat' = [stat EXCEPT ![f] = s]
      /\ stat[f] \in [mode : KnownModes, mtime : Int]
  BY StatChanged, Zenon DEF FuseInv
<1>2. s.mode = stat[f].mode /\ s.mtime = n
  OBVIOUS
<1> HIDE DEF s, c
<1>3. iomanx_adapter_getattr' = [a EXCEPT ![f] = Shown(s)] /\ a[f] = Shown(stat[f])
  BY <1>1, AttrStep, Zenon DEF FuseInv
<1>4. Shown(s) = [mode |-> adapter_mode_to_posix(stat[f].mode), mtime |-> c]
  BY <1>1, <1>2, ShownThere, Zenon DEF c
<1>5. /\ Shown(stat[f]) = [mode |-> adapter_mode_to_posix(stat[f].mode),
                           mtime |-> convert_time_to_posix(stat[f].mtime)]
      /\ Shown(stat[f]) # Posix!Absent
  BY <1>1, ShownThere, Zenon
<1>6. [a[f] EXCEPT !.mtime = c] = Shown(s)
  <2>1. PICK m, k : m = adapter_mode_to_posix(stat[f].mode)
                      /\ k = convert_time_to_posix(stat[f].mtime)
    BY Zenon
  <2>2. PICK d : d = a[f]
    BY Zenon
  <2>3. PICK x : x = [d EXCEPT !.mtime = c]
    BY Zenon
  <2>4. d = [mode |-> m, mtime |-> k]
    BY <1>3, <1>5, <2>1, <2>2, Zenon
  <2>5. x = [mode |-> m, mtime |-> c]
    BY <2>3, <2>4
  <2> QED
    BY <1>4, <2>1, <2>2, <2>3, <2>5, Zenon
<1>7. [a EXCEPT ![f].mtime = c] = [a EXCEPT ![f] = [a[f] EXCEPT !.mtime = c]]
  BY Zenon
<1>8. iomanx_adapter_getattr' = [iomanx_adapter_getattr EXCEPT ![f].mtime = c]
  BY <1>3, <1>6, <1>7, Zenon
<1>9. call' = call
  BY SeenSame
<1>10. c \in Times \cup {convert_time_to_posix(Now)}
  BY DEF c
<1>11. iomanx_adapter_getattr[f] # Posix!Absent
  BY <1>3, <1>5, Zenon
<1> QED
  BY <1>8, <1>9, <1>10, <1>11, Zenon DEF Posix!PUtimens, c

(* A file that is there is opened: as it is, or emptied.                     *)
LEMMA OpenRefines ==
    ASSUME FuseInv, NEW f \in Files, stat[f] # NoStat, NEW trunc, NEW append,
           Opened(f, trunc, append), req' = req, stat' \in IF trunc THEN Touched(f) ELSE {stat}
    PROVE  Posix!PTruncate(f) \/ UNCHANGED <<content, call, iomanx_adapter_getattr>>
<1>1. call' = call
  BY SeenSame
<1>2. CASE ~trunc
  <2>1. content' = content /\ stat' = stat
    BY <1>2, Zenon DEF Opened
  <2> QED
    BY <1>1, <2>1, SeenSame
<1>3. CASE trunc
  <2>1. content' = [content EXCEPT ![f] = <<>>] /\ stat' \in {stat, [stat EXCEPT ![f].mtime = Now]}
    BY <1>3, Zenon DEF Opened, Touched
  <2>2. Now \in Int /\ convert_time_to_posix(Now) \in Times \cup {convert_time_to_posix(Now)}
    BY Constants, Zenon
  <2>3. CASE stat' = stat
    <3>1. iomanx_adapter_getattr' = iomanx_adapter_getattr
      BY <2>3, SeenSame
    <3>2. iomanx_adapter_getattr[f] = Shown(stat[f])
      BY Mapping
    <3>3. stat[f] \in [mode : KnownModes, mtime : Int]
      BY StatChanged, Zenon DEF FuseInv
    <3>4. Shown(stat[f]) # Posix!Absent
      BY <3>3, ShownThere, Zenon
    <3> QED
      BY <1>1, <2>1, <3>1, <3>2, <3>4, Zenon DEF Posix!PTruncate
  <2>4. CASE stat' = [stat EXCEPT ![f].mtime = Now]
    <3>1. /\ iomanx_adapter_getattr[f] # Posix!Absent
          /\ iomanx_adapter_getattr'
                = [iomanx_adapter_getattr EXCEPT ![f].mtime = convert_time_to_posix(Now)]
      BY <2>2, <2>4, TimeRefines
    <3> QED
      BY <1>1, <2>1, <3>1, Zenon DEF Posix!PTruncate
  <2> QED
    BY <2>1, <2>3, <2>4
<1> QED
  BY <1>2, <1>3

(* The operations on paths do what PosixFile says, or nothing that is seen.  *)
LEMMA PathRefines ==
    ASSUME FuseInv, NEW f \in Files, PathOperation(f)
    PROVE  \/ Posix!PCreate(f) \/ Posix!PTruncate(f)
           \/ Posix!PUnlink(f) \/ Posix!PChmod(f) \/ Posix!PUtimens(f)
           \/ UNCHANGED <<content, call, iomanx_adapter_getattr>>
<1> DEFINE a == iomanx_adapter_getattr
<1>1. ASSUME NEW mode \in Modes, iomanx_adapter_create(f, mode)
      PROVE  \/ Posix!PCreate(f) \/ Posix!PTruncate(f)
             \/ UNCHANGED <<content, call, iomanx_adapter_getattr>>
  <2>0. PICK trunc, append :
           /\ Opened(f, trunc \/ stat[f] = NoStat, append) /\ req' = req
           /\ stat' \in IF stat[f] = NoStat
                       THEN {[stat EXCEPT ![f] = [mode |-> adapter_mode_to_iomanx(mode),
                                                  mtime |-> Now]]}
                       ELSE IF trunc THEN Touched(f) ELSE {stat}
    BY <1>1, Zenon DEF iomanx_adapter_create
  <2>1. call' = call
    BY <2>0, SeenSame
  <2>2. CASE stat[f] # NoStat
    <3> DEFINE tr == trunc \/ stat[f] = NoStat
    <3>1. Opened(f, tr, append) /\ stat' \in IF tr THEN Touched(f) ELSE {stat}
      BY <2>0, <2>2, Zenon
    <3> HIDE DEF tr
    <3> QED
      BY <2>0, <2>2, <3>1, OpenRefines
  <2>3. CASE stat[f] = NoStat
    <3> DEFINE s == [mode |-> adapter_mode_to_iomanx(mode), mtime |-> Now]
               p == adapter_mode_to_posix(adapter_mode_to_iomanx(mode))
    <3>1. stat' = [stat EXCEPT ![f] = s]
      BY <2>0, <2>3, Zenon
    <3>c. content' = [content EXCEPT ![f] = <<>>]
      BY <2>0, <2>3, Zenon DEF Opened
    <3>2. adapter_mode_to_iomanx(mode) \in KnownModes /\ Now \in Int
      BY Constants, Zenon DEF KnownModes
    <3>3. s \in [mode : KnownModes, mtime : Int]
             /\ s.mode = adapter_mode_to_iomanx(mode) /\ s.mtime = Now
      BY <3>2
    <3> HIDE DEF s
    <3>4. /\ iomanx_adapter_getattr' = [a EXCEPT ![f] = Shown(s)] /\ a[f] = Shown(stat[f])
          /\ iomanx_adapter_getattr'[f] = Shown(s)
      BY <3>1, AttrStep, Zenon DEF FuseInv
    <3>5. /\ Shown(s) = [mode |-> p, mtime |-> convert_time_to_posix(Now)]
          /\ Shown(s).mode = p
          /\ Shown(s) # Posix!Absent /\ a[f] = Posix!Absent
      BY <2>3, <3>3, <3>4, ShownThere, Zenon
    <3>6. Posix!Grants(p, mode)
      BY AdapterGrants, Zenon
    <3> HIDE DEF p
    <3>7. /\ iomanx_adapter_getattr'[f].mode = p /\ iomanx_adapter_getattr'[f] # Posix!Absent
          /\ iomanx_adapter_getattr[f] = Posix!Absent
          /\ iomanx_adapter_getattr' =
                [iomanx_adapter_getattr EXCEPT ![f] = [mode |-> iomanx_adapter_getattr'[f].mode,
                                                       mtime |-> convert_time_to_posix(Now)]]
      BY <3>4, <3>5, Zenon
    <3>8. \E m \in Modes : Posix!Grants(iomanx_adapter_getattr'[f].mode, m)
      BY <3>6, <3>7, Zenon
    <3> QED
      BY <2>1, <3>c, <3>7, <3>8, Zenon DEF Posix!PCreate
  <2> QED
    BY <2>2, <2>3
<1>2. ASSUME NEW mode \in Modes, iomanx_adapter_chmod(f, mode)
      PROVE  Posix!PChmod(f) \/ UNCHANGED <<content, call, iomanx_adapter_getattr>>
  <2>1. content' = content /\ req' = req /\ call' = call /\ stat[f] # NoStat
    BY <1>2, SeenSame DEF iomanx_adapter_chmod
  <2> DEFINE s == [mode |-> adapter_mode_to_iomanx(mode), mtime |-> stat[f].mtime]
             p == adapter_mode_to_posix(adapter_mode_to_iomanx(mode))
             k == convert_time_to_posix(stat[f].mtime)
  <2>2. /\ s \in [mode : KnownModes, mtime : Int]
        /\ stat[f] \in [mode : KnownModes, mtime : Int]
        /\ [stat EXCEPT ![f].mode.bits = adapter_mode_to_iomanx(mode).bits]
              = [stat EXCEPT ![f] = s]
    BY <2>1, StatChanged, Zenon DEF FuseInv
  <2>3. stat' = [stat EXCEPT ![f] = s]
    BY <1>2, <2>2, Zenon DEF iomanx_adapter_chmod
  <2>4. s.mode = adapter_mode_to_iomanx(mode) /\ s.mtime = stat[f].mtime
    OBVIOUS
  <2> HIDE DEF s
  <2>5. /\ iomanx_adapter_getattr' = [a EXCEPT ![f] = Shown(s)] /\ a[f] = Shown(stat[f])
        /\ iomanx_adapter_getattr'[f] = Shown(s)
        /\ Shown(s) = Shown(stat[f]) => iomanx_adapter_getattr' = iomanx_adapter_getattr
    BY <2>3, AttrStep, Zenon DEF FuseInv
  <2>6. Shown(s) = [mode |-> p, mtime |-> k] /\ Shown(s).mode = p
    BY <2>2, <2>4, ShownThere, Zenon
  <2>7. /\ Shown(stat[f]) = [mode |-> adapter_mode_to_posix(stat[f].mode), mtime |-> k]
        /\ Shown(stat[f]) # Posix!Absent
    BY <2>2, ShownThere, Zenon
  <2>8. Posix!Grants(p, mode)
    BY AdapterGrants, Zenon
  <2> HIDE DEF p, k
  <2>9. [a[f] EXCEPT !.mode = p] = Shown(s)
    <3>1. PICK d : d = a[f]
      BY Zenon
    <3>2. PICK m : m = adapter_mode_to_posix(stat[f].mode)
      BY Zenon
    <3>3. PICK x : x = [d EXCEPT !.mode = p]
      BY Zenon
    <3>4. d = [mode |-> m, mtime |-> k]
      BY <2>5, <2>7, <3>1, <3>2, Zenon
    <3>5. x = [mode |-> p, mtime |-> k]
      BY <3>3, <3>4
    <3> QED
      BY <2>6, <3>1, <3>3, <3>5, Zenon
  <2>10. iomanx_adapter_getattr' = [iomanx_adapter_getattr EXCEPT ![f].mode = p]
    <3>1. [a EXCEPT ![f].mode = p] = [a EXCEPT ![f] = [a[f] EXCEPT !.mode = p]]
      BY Zenon
    <3> QED
      BY <2>5, <2>9, <3>1, Zenon
  <2>11. iomanx_adapter_getattr'[f].mode = p /\ iomanx_adapter_getattr[f] # Posix!Absent
    BY <2>5, <2>6, <2>7, Zenon
  <2>12. CASE p = adapter_mode_to_posix(stat[f].mode)
    BY <2>1, <2>5, <2>6, <2>7, <2>12
  <2>13. CASE p # adapter_mode_to_posix(stat[f].mode)
    <3>1. iomanx_adapter_getattr[f].mode = adapter_mode_to_posix(stat[f].mode)
      <4>1. Shown(stat[f]).mode = adapter_mode_to_posix(stat[f].mode)
        BY <2>2, ShownThere, Zenon
      <4> QED
        BY <2>5, <4>1, Zenon
    <3>2. iomanx_adapter_getattr'[f].mode # iomanx_adapter_getattr[f].mode
      BY <2>11, <2>13, <3>1, Zenon
    <3>3. /\ iomanx_adapter_getattr'
                = [iomanx_adapter_getattr EXCEPT ![f].mode = iomanx_adapter_getattr'[f].mode]
          /\ \E m \in Modes : Posix!Grants(iomanx_adapter_getattr'[f].mode, m)
      BY <2>8, <2>10, <2>11, Zenon
    <3> QED
      BY <2>1, <2>11, <3>2, <3>3, Zenon DEF Posix!PChmod
  <2> QED
    BY <2>12, <2>13
<1>3. ASSUME NEW n \in Times, iomanx_adapter_utimens(f, n)
      PROVE  Posix!PUtimens(f)
  <2>1. n \in Int
    BY Constants, Zenon
  <2>2. convert_time_to_iomanx(n) \in Int /\ convert_time_to_posix(convert_time_to_iomanx(n)) = n
    BY <2>1 DEF convert_time_to_iomanx, convert_time_to_posix, Jst
  <2>3. convert_time_to_posix(convert_time_to_iomanx(n)) \in Times \cup {convert_time_to_posix(Now)}
    BY <2>2, Zenon
  <2> QED
    BY <1>3, <2>2, <2>3, TimeRefines DEF iomanx_adapter_utimens
<1>4. CASE iomanx_adapter_unlink(f)
  <2>1. /\ stat[f] # NoStat /\ stat' = [stat EXCEPT ![f] = NoStat]
        /\ content' = [content EXCEPT ![f] = <<>>]
        /\ UNCHANGED <<handle, req>> /\ \A h \in Handles : handle[h].file # f
    BY <1>4 DEF iomanx_adapter_unlink
  <2>2. iomanx_adapter_getattr' = [a EXCEPT ![f] = Shown(NoStat)] /\ a[f] = Shown(stat[f])
    BY <2>1, AttrStep, Zenon DEF FuseInv
  <2>3. stat[f] \in [mode : KnownModes, mtime : Int]
    BY <2>1, StatChanged, Zenon DEF FuseInv
  <2>4. Shown(NoStat) = Posix!Absent /\ Shown(stat[f]) # Posix!Absent
    BY <2>3, ShownThere, Zenon
  <2>5. ASSUME NEW t \in Threads
        PROVE  call[t].file # f
    <3>1. call[t] = View(req[t])
      BY Mapping
    <3>2. CASE req[t].op \in {"read", "write"}
      <4>1. Serves(req[t], handle)
        BY DEF FuseInv, RequestsInv
      <4>2. NoReq.op = "none"
        BY DEF NoReq
      <4>3. req[t].file # f
        BY <2>1, <3>2, <4>1, <4>2 DEF Serves
      <4>4. View(req[t]).file = req[t].file
        BY <3>2 DEF View
      <4> QED
        BY <3>1, <4>3, <4>4, Zenon
    <3>3. CASE req[t].op \notin {"read", "write"}
      <4>1. View(req[t]).file = ""
        BY <3>3 DEF View
      <4> QED
        BY <3>1, <4>1, Constants, Zenon
    <3> QED
      BY <3>2, <3>3
  <2>6. call' = call
    BY <2>1, SeenSame
  <2> QED
    BY <2>1, <2>2, <2>4, <2>5, <2>6, Zenon DEF Posix!PUnlink
<1> QED
  BY <1>1, <1>2, <1>3, <1>4, Zenon DEF PathOperation

(* A request is answered, and how the answer is seen.                        *)
LEMMA ResultSeen ==
    ASSUME FuseInv, NEW t \in Threads, req[t].step \in {"lseek", "io"}, NEW r,
           req' = [req EXCEPT ![t] = Advanced(req[t], "done", r)]
    PROVE  /\ req[t].op \in {"read", "write"} =>
                 /\ call' = [call EXCEPT ![t].result = r]
                 /\ call[t].result = <<"pending">> /\ call[t].op = req[t].op
                 /\ call[t].file = req[t].file /\ call[t].off = req[t].off
                 /\ call[t].val = req[t].val
           /\ req[t].op \notin {"read", "write"} => call' = call
<1> DEFINE y == req[t]
           z == Advanced(y, "done", r)
<1>1. y.result = <<"pending">>
  BY UnderWay
<1>2. /\ call' = [call EXCEPT ![t] = View(z)] /\ call[t] = View(y)
      /\ (View(z) = View(y) => call' = call)
  <2>1. TypeOK /\ req' = [req EXCEPT ![t] = z]
    BY DEF FuseInv
  <2> HIDE DEF z
  <2> QED
    BY <2>1, CallStep, Zenon
<1>3. CASE y.op \notin {"read", "write"}
  <2>1. View(z) = Posix!NoCall /\ View(y) = Posix!NoCall
    BY <1>3, Views, Zenon
  <2> QED
    BY <1>2, <1>3, <2>1, Zenon
<1>4. CASE y.op \in {"read", "write"}
  <2>1. View(z) = [op |-> y.op, file |-> y.file, off |-> y.off, val |-> y.val, result |-> r]
    <3>1. \A x, s, q : x.op \in {"read", "write"} =>
             View(Advanced(x, s, q)) = [op |-> x.op, file |-> x.file, off |-> x.off,
                                        val |-> x.val, result |-> q]
      BY Views, Zenon
    <3> HIDE DEF y
    <3>2. View(Advanced(y, "done", r)) = [op |-> y.op, file |-> y.file, off |-> y.off,
                                          val |-> y.val, result |-> r]
      BY <1>4, <3>1, SMT
    <3> QED
      BY <3>2, Zenon
  <2>2. View(y) = [op |-> y.op, file |-> y.file, off |-> y.off, val |-> y.val, result |-> y.result]
    BY <1>4, Zenon DEF View
  <2>3. PICK a, b, c, d : a = y.op /\ b = y.file /\ c = y.off /\ d = y.val
    BY Zenon
  <2>4. PICK x : x = call[t]
    BY Zenon
  <2>5. x = [op |-> a, file |-> b, off |-> c, val |-> d, result |-> <<"pending">>]
    BY <1>1, <1>2, <2>2, <2>3, <2>4, Zenon
  <2>6. PICK x2 : x2 = [x EXCEPT !.result = r]
    BY Zenon
  <2>7. x2 = [op |-> a, file |-> b, off |-> c, val |-> d, result |-> r]
    BY <2>5, <2>6
  <2>8. View(z) = [call[t] EXCEPT !.result = r]
    BY <2>1, <2>3, <2>4, <2>6, <2>7, Zenon
  <2>9. [call EXCEPT ![t].result = r] = [call EXCEPT ![t] = [call[t] EXCEPT !.result = r]]
    BY Zenon
  <2>10. call' = [call EXCEPT ![t].result = r]
    BY <1>2, <2>8, <2>9, Zenon
  <2>11. x.result = <<"pending">> /\ x.op = a /\ x.file = b /\ x.off = c /\ x.val = d
    BY <2>5
  <2>12. /\ call[t].result = <<"pending">> /\ call[t].op = y.op /\ call[t].file = y.file
         /\ call[t].off = y.off /\ call[t].val = y.val
    BY <2>3, <2>4, <2>11, Zenon
  <2> QED
    BY <1>4, <2>10, <2>12, Zenon
<1> QED
  BY <1>3, <1>4

(* A call of the driver fails: so does the request.                          *)
LEMMA FailRefines ==
    ASSUME FuseInv, NEW t \in Threads, req[t].step \in {"lseek", "io"},
           Done(t, <<"error">>), UNCHANGED <<content, stat>>
    PROVE  Posix!Fail(t) \/ UNCHANGED <<content, call, iomanx_adapter_getattr>>
<1>1. req' = [req EXCEPT ![t] = Advanced(req[t], "done", <<"error">>)]
  BY Effects, Zenon DEF Done, FuseInv
<1>2. /\ req[t].op \in {"read", "write"} =>
            call' = [call EXCEPT ![t].result = <<"error">>] /\ call[t].result = <<"pending">>
      /\ req[t].op \notin {"read", "write"} => call' = call
  BY <1>1, ResultSeen
<1>3. iomanx_adapter_getattr' = iomanx_adapter_getattr
  BY SeenSame
<1> QED
  BY <1>2, <1>3, Zenon DEF Posix!Fail

(* A request on a file is a call; a truncation is not seen.                  *)
LEMMA RequestRefines ==
    ASSUME FuseInv, NEW t \in Threads, NEW op \in {"read", "write", "ftruncate"},
           NEW h \in Handles, NEW off \in 0 .. MaxSize, NEW v \in Values,
           Request(t, op, h, off, v)
    PROVE  Posix!Call(t) \/ UNCHANGED <<content, call, iomanx_adapter_getattr>>
<1> DEFINE z == [op |-> op, step |-> "lseek", h |-> h, file |-> handle[h].file, off |-> off,
                 val |-> v, at |-> off, result |-> <<"pending">>]
<1>1. /\ req[t] = NoReq /\ handle[h].use = "file" /\ req' = [req EXCEPT ![t] = z]
      /\ UNCHANGED <<handle, content, stat>>
  BY DEF Request
<1>2. /\ z.op = op /\ z.file = handle[h].file /\ z.off = off /\ z.val = v
      /\ z.result = <<"pending">>
  OBVIOUS
<1> HIDE DEF z
<1>3. /\ call' = [call EXCEPT ![t] = View(z)] /\ call[t] = View(req[t])
      /\ (View(z) = View(req[t]) => call' = call)
  BY <1>1, CallStep, Zenon DEF FuseInv
<1>4. call[t] = Posix!NoCall /\ View(req[t]) = Posix!NoCall
  BY <1>1, <1>3, Views, Zenon
<1>5. handle[h].file \in Files
  BY <1>1 DEF FuseInv, HandlesInv, Sound
<1>6. iomanx_adapter_getattr' = iomanx_adapter_getattr /\ content' = content
  BY <1>1, SeenSame
<1>7. CASE op = "ftruncate"
  <2>1. z.op \notin {"read", "write"}
    BY <1>2, <1>7
  <2>2. View(z) = Posix!NoCall
    BY <2>1, Views, Zenon
  <2> QED
    BY <1>3, <1>4, <1>6, <2>2
<1>8. CASE op \in {"read", "write"}
  <2>1. View(z) = [op |-> op, file |-> handle[h].file, off |-> off, val |-> v,
                   result |-> <<"pending">>]
    BY <1>2, <1>8, Zenon DEF View
  <2>2. call' = [call EXCEPT ![t] = [op |-> op, file |-> handle[h].file, off |-> off,
                                     val |-> v, result |-> <<"pending">>]]
    BY <1>3, <2>1, Zenon
  <2> QED
    BY <1>4, <1>5, <1>6, <1>8, <2>2, Zenon DEF Posix!Call
<1> QED
  BY <1>7, <1>8

(* The calls of the driver that a request consists of: the seek is not seen, *)
(* the read and the write are those of PosixFile, at the offset asked for.   *)
LEMMA DriverRefines ==
    ASSUME FuseInv, NEW t \in Threads,
           iomanx_adapter_lseek(t) \/ iomanx_adapter_read(t) \/ iomanx_adapter_write(t)
    PROVE  \/ Posix!Fail(t) \/ Posix!PRead(t) \/ Posix!PWrite(t)
           \/ UNCHANGED <<content, call, iomanx_adapter_getattr>>
<1> DEFINE y == req[t]
<1>1. stat' = stat /\ iomanx_adapter_getattr' = iomanx_adapter_getattr
  <2>1. stat' = stat
    BY DEF iomanx_adapter_lseek, iomanx_adapter_read, iomanx_adapter_write
  <2> QED
    BY <2>1, SeenSame
<1>2. CASE iomanx_adapter_lseek(t)
  <2>1. y.step \in {"lseek", "io"} /\ content' = content
    BY <1>2, SeekSteps
  <2>2. CASE Done(t, <<"error">>)
    BY <1>1, <2>1, <2>2, FailRefines
  <2>3. CASE Done(t, <<"truncated">>) /\ y.op = "ftruncate"
    <3>1. req' = [req EXCEPT ![t] = Advanced(req[t], "done", <<"truncated">>)]
      BY <2>3, Effects, Zenon DEF Done, FuseInv
    <3>2. call' = call
      BY <2>1, <2>3, <3>1, ResultSeen
    <3> QED
      BY <1>1, <2>1, <3>2
  <2>4. CASE req' = [req EXCEPT ![t].step = "io"]
    <3> DEFINE z == Advanced(req[t], "io", req[t].result)
    <3>1. req' = [req EXCEPT ![t] = z]
      BY <2>4, Effects, Zenon DEF FuseInv
    <3>2. View(z) = View(req[t])
      <4>1. CASE req[t].op \notin {"read", "write"}
        BY <4>1, Views, Zenon
      <4>2. CASE req[t].op \in {"read", "write"}
        <5>1. \A x, s, q : x.op \in {"read", "write"} =>
                 View(Advanced(x, s, q)) = [op |-> x.op, file |-> x.file, off |-> x.off,
                                            val |-> x.val, result |-> q]
          BY Views, Zenon
        <5>2. View(req[t]) = [op |-> req[t].op, file |-> req[t].file, off |-> req[t].off,
                              val |-> req[t].val, result |-> req[t].result]
          BY <4>2, Zenon DEF View
        <5>3. View(Advanced(req[t], "io", req[t].result))
                 = [op |-> req[t].op, file |-> req[t].file, off |-> req[t].off,
                    val |-> req[t].val, result |-> req[t].result]
          BY <4>2, <5>1, SMT
        <5> QED
          BY <5>2, <5>3, Zenon
      <4> QED
        BY <4>1, <4>2
    <3> HIDE DEF z
    <3>3. call' = call
      BY <3>1, <3>2, CallStep, Zenon DEF FuseInv
    <3> QED
      BY <1>1, <2>1, <3>3
  <2> QED
    BY <1>2, <2>2, <2>3, <2>4, SeekSteps, Zenon
<1>3. CASE iomanx_adapter_read(t)
  <2> DEFINE p == handle[y.h].pos
             data == Posix!Get(content[y.file], p)
  <2>1. y.step \in {"lseek", "io"} /\ y.step = "io" /\ y.op = "read" /\ content' = content
    BY <1>3 DEF iomanx_adapter_read
  <2>2. CASE Done(t, <<"error">>)
    BY <1>1, <2>1, <2>2, FailRefines
  <2>3. CASE req' = [req EXCEPT ![t] = [y EXCEPT !.step = "done", !.at = p, !.result = data]]
    <3>1. p = y.off /\ p = y.at
      BY <2>1, UnderWay
    <3> HIDE DEF data
    <3>2. req' = [req EXCEPT ![t] = Advanced(req[t], "done", data)]
      <4>1. [y EXCEPT !.step = "done", !.at = p, !.result = data]
               = [req[t] EXCEPT !.step = "done", !.at = req[t].at, !.result = data]
        BY <3>1, Zenon
      <4>2. [req[t] EXCEPT !.step = "done", !.at = req[t].at, !.result = data]
               = Advanced(req[t], "done", data)
        BY Effects, Zenon DEF FuseInv
      <4> QED
        BY <2>3, <4>1, <4>2, Zenon
    <3>3. /\ call' = [call EXCEPT ![t].result = data]
          /\ call[t].result = <<"pending">> /\ call[t].op = "read"
          /\ call[t].file = y.file /\ call[t].off = y.off
      BY <2>1, <3>2, ResultSeen
    <3>4. data = Posix!Get(content[call[t].file], call[t].off)
      BY <3>1, <3>3, Zenon DEF data
    <3> QED
      BY <1>1, <2>1, <3>3, <3>4, Zenon DEF Posix!PRead
  <2> QED
    BY <1>3, <2>2, <2>3, Zenon DEF iomanx_adapter_read
<1>4. CASE iomanx_adapter_write(t)
  <2> DEFINE p == handle[y.h].pos
  <2>1. y.step \in {"lseek", "io"} /\ y.step = "io" /\ y.op = "write"
    BY <1>4 DEF iomanx_adapter_write
  <2>2. CASE Done(t, <<"error">>) /\ UNCHANGED <<handle, content>>
    BY <1>1, <2>1, <2>2, FailRefines
  <2>3. ASSUME NEW c \in Posix!Written(content[y.file], p, y.val),
               req' = [req EXCEPT ![t] = [y EXCEPT !.step = "done", !.at = p,
                                                   !.result = <<"written">>]],
               content' = [content EXCEPT ![y.file] = c]
        PROVE  Posix!PWrite(t)
    <3>1. p = y.off /\ p = y.at
      BY <2>1, UnderWay
    <3>2. req' = [req EXCEPT ![t] = Advanced(req[t], "done", <<"written">>)]
      <4>1. [y EXCEPT !.step = "done", !.at = p, !.result = <<"written">>]
               = [req[t] EXCEPT !.step = "done", !.at = req[t].at, !.result = <<"written">>]
        BY <3>1, Zenon
      <4>2. [req[t] EXCEPT !.step = "done", !.at = req[t].at, !.result = <<"written">>]
               = Advanced(req[t], "done", <<"written">>)
        BY Effects, Zenon DEF FuseInv
      <4> QED
        BY <2>3, <4>1, <4>2, Zenon
    <3>3. /\ call' = [call EXCEPT ![t].result = <<"written">>]
          /\ call[t].result = <<"pending">> /\ call[t].op = "write"
          /\ call[t].file = y.file /\ call[t].off = y.off /\ call[t].val = y.val
      BY <2>1, <3>2, ResultSeen
    <3>4. /\ c \in Posix!Written(content[call[t].file], call[t].off, call[t].val)
          /\ content' = [content EXCEPT ![call[t].file] = c]
      BY <2>3, <3>1, <3>3, Zenon
    <3> QED
      BY <1>1, <3>3, <3>4, Zenon DEF Posix!PWrite
  <2> QED
    BY <1>4, <2>2, <2>3, Zenon DEF iomanx_adapter_write
<1> QED
  BY <1>2, <1>3, <1>4

(* A request is returned from; a listing, or a truncation, is not seen.      *)
LEMMA ReturnRefines ==
    ASSUME FuseInv, NEW t \in Threads, Reply(t) \/ iomanx_adapter_readdir(t)
    PROVE  Posix!Return(t) \/ UNCHANGED <<content, call, iomanx_adapter_getattr>>
<1> DEFINE y == req[t]
<1>1. UNCHANGED <<content, stat>> /\ iomanx_adapter_getattr' = iomanx_adapter_getattr
  <2>1. UNCHANGED <<content, stat>>
    BY Zenon DEF Reply, iomanx_adapter_readdir
  <2> QED
    BY <2>1, SeenSame
<1>2. NoReq.op = "none" /\ NoReq.step = "idle"
  BY DEF NoReq
<1>3. Serves(y, handle)
  BY DEF FuseInv, RequestsInv
<1>4. ASSUME NEW z, req' = [req EXCEPT ![t] = z], z.op \notin {"read", "write"}
      PROVE  /\ call' = [call EXCEPT ![t] = Posix!NoCall] /\ call[t] = View(y)
             /\ y.op \notin {"read", "write"} => call' = call
  <2>1. View(z) = Posix!NoCall /\ (y.op \notin {"read", "write"} => View(y) = Posix!NoCall)
    BY <1>4, Views, Zenon
  <2>2. /\ call' = [call EXCEPT ![t] = View(z)] /\ call[t] = View(req[t])
        /\ (View(z) = View(req[t]) => call' = call)
    BY <1>4, CallStep, Zenon DEF FuseInv
  <2> QED
    BY <2>1, <2>2, Zenon
<1>5. CASE Reply(t)
  <2>1. y.step = "done" /\ req' = [req EXCEPT ![t] = NoReq]
    BY <1>5 DEF Reply
  <2>2. NoReq.op \notin {"read", "write"}
    BY <1>2
  <2>3. /\ call' = [call EXCEPT ![t] = Posix!NoCall] /\ call[t] = View(y)
        /\ y.op \notin {"read", "write"} => call' = call
    BY <1>4, <2>1, <2>2, Zenon
  <2>4. CASE y.op \notin {"read", "write"}
    BY <1>1, <2>3, <2>4
  <2>5. CASE y.op \in {"read", "write"}
    <3>1. y.result # <<"pending">>
      BY <1>2, <1>3, <2>1, <2>5 DEF Serves
    <3>2. View(y) = [op |-> y.op, file |-> y.file, off |-> y.off, val |-> y.val, result |-> y.result]
      BY <2>5, Zenon DEF View
    <3>3. PICK x : x = call[t]
      BY Zenon
    <3>4. x = [op |-> y.op, file |-> y.file, off |-> y.off, val |-> y.val, result |-> y.result]
      BY <2>3, <3>2, <3>3, Zenon
    <3>5. x.op = y.op /\ x.result = y.result
      <4> HIDE DEF y
      <4> QED
        BY <3>4
    <3>6. Posix!NoCall.op = "none"
      BY DEF Posix!NoCall
    <3>7. x # Posix!NoCall /\ x.result # <<"pending">>
      <4> HIDE DEF y
      <4> QED
        BY <2>5, <3>1, <3>5, <3>6
    <3> QED
      BY <1>1, <2>3, <3>3, <3>7, Zenon DEF Posix!Return
  <2> QED
    BY <2>4, <2>5
<1>6. CASE iomanx_adapter_readdir(t)
  <2>1. PICK z : /\ req' = [req EXCEPT ![t] = z] /\ z.op \notin {"read", "write"}
                 /\ y = NoReq \/ y.step = "dread"
    <3>1. CASE y.step = "dread" /\ req' = [req EXCEPT ![t] = NoReq]
      BY <1>2, <3>1
    <3>2. CASE ~(y.step = "dread" /\ req' = [req EXCEPT ![t] = NoReq])
      <4>1. PICK h \in Handles :
               /\ y = NoReq
               /\ req' = [req EXCEPT ![t] = [NoReq EXCEPT !.op = "readdir", !.step = "dread",
                                                          !.h = h]]
        BY <1>6, <3>2, Zenon DEF iomanx_adapter_readdir
      <4>2. PICK z : z = [NoReq EXCEPT !.op = "readdir", !.step = "dread", !.h = h]
        BY Zenon
      <4>3. z.op = "readdir"
        BY <4>2 DEF NoReq
      <4>4. z.op \notin {"read", "write"}
        BY <4>3
      <4> QED
        BY <4>1, <4>2, <4>4, Zenon
    <3> QED
      BY <3>1, <3>2
  <2>2. y.op \notin {"read", "write"}
    <3> HIDE DEF y
    <3> QED
      BY <1>2, <1>3, <2>1 DEF Serves
  <2>3. call' = call
    BY <1>4, <2>1, <2>2, Zenon
  <2> QED
    BY <1>1, <2>3
<1> QED
  BY <1>5, <1>6

(* A file is released: if the driver sets its time, that is seen.            *)
LEMMA ReleaseRefines ==
    ASSUME FuseInv, NEW h \in Handles, iomanx_adapter_release(h)
    PROVE  \/ \E f \in Files : Posix!PUtimens(f)
           \/ UNCHANGED <<content, call, iomanx_adapter_getattr>>
<1> DEFINE f == handle[h].file
<1>1. /\ handle[h].use = "file" /\ UNCHANGED <<content, req>>
      /\ stat' \in {stat, [stat EXCEPT ![f].mtime = Now]}
  BY DEF iomanx_adapter_release, Touched
<1>2. f \in Files /\ stat[f] # NoStat
  BY <1>1 DEF FuseInv, HandlesInv, Sound
<1>3. CASE stat' = stat
  BY <1>1, <1>3, SeenSame
<1>4. CASE stat' = [stat EXCEPT ![f].mtime = Now]
  <2>1. Now \in Int /\ convert_time_to_posix(Now) \in Times \cup {convert_time_to_posix(Now)}
    BY Constants, Zenon
  <2> HIDE DEF f
  <2>2. Posix!PUtimens(f)
    BY <1>1, <1>2, <1>4, <2>1, TimeRefines
  <2> QED
    BY <1>2, <2>2, Zenon
<1> QED
  BY <1>1, <1>3, <1>4

(* FuseInv holds as long as no descriptor is shared.                         *)
THEOREM FuseSafe == ~SharedHandles => (Spec => []FuseInv)
<1> SUFFICES ASSUME ~SharedHandles
             PROVE  Spec => []FuseInv
  OBVIOUS
<1>1. Init => FuseInv
  BY FuseInit
<1>2. FuseInv /\ [Next]_vars => FuseInv'
  BY FuseNext
<1> QED
  BY <1>1, <1>2, PTL DEF Spec

(* Every step of pfsfuse is a step of PosixFile, or none.                    *)
LEMMA StepRefines ==
    ASSUME FuseInv, [Next]_vars
    PROVE  [Posix!PNext]_<<content, call, iomanx_adapter_getattr>>
<1> DEFINE Same == UNCHANGED <<content, call, iomanx_adapter_getattr>>
<1>1. ASSUME NEW f \in Files, iomanx_adapter_open(f)
      PROVE  Posix!PNext \/ Same
  <2>1. PICK trunc, append : /\ Opened(f, trunc, append) /\ stat[f] # NoStat /\ req' = req
                             /\ stat' \in IF trunc THEN Touched(f) ELSE {stat}
    BY <1>1, Zenon DEF iomanx_adapter_open
  <2>2. Posix!PTruncate(f) \/ Same
    BY <2>1, OpenRefines
  <2> HIDE DEF Same
  <2> QED
    BY <2>2, Zenon DEF Posix!PNext
<1>2. ASSUME NEW f \in Files, PathOperation(f)
      PROVE  Posix!PNext \/ Same
  <2> HIDE DEF Same
  <2>1. \/ Posix!PCreate(f) \/ Posix!PTruncate(f) \/ Posix!PUnlink(f) \/ Posix!PChmod(f)
        \/ Posix!PUtimens(f) \/ Same
    BY <1>2, PathRefines DEF Same
  <2> QED
    BY <2>1, Zenon DEF Posix!PNext
<1>3. ASSUME NEW h \in Handles, iomanx_adapter_release(h)
      PROVE  Posix!PNext \/ Same
  <2> HIDE DEF Same
  <2>1. (\E f \in Files : Posix!PUtimens(f)) \/ Same
    BY <1>3, ReleaseRefines DEF Same
  <2> QED
    BY <2>1, Zenon DEF Posix!PNext
<1>4. ASSUME NEW t \in Threads, NEW op \in Ops \cap {"read", "write", "ftruncate"},
             NEW h \in Handles, NEW off \in 0 .. MaxSize, NEW v \in Values,
             Request(t, op, h, off, v)
      PROVE  Posix!PNext \/ Same
  <2> HIDE DEF Same
  <2>1. Posix!Call(t) \/ Same
    BY <1>4, RequestRefines DEF Same
  <2> QED
    BY <2>1, Zenon DEF Posix!PNext
<1>5. ASSUME NEW t \in Threads,
             iomanx_adapter_lseek(t) \/ iomanx_adapter_read(t) \/ iomanx_adapter_write(t)
      PROVE  Posix!PNext \/ Same
  <2> HIDE DEF Same
  <2>1. Posix!Fail(t) \/ Posix!PRead(t) \/ Posix!PWrite(t) \/ Same
    BY <1>5, DriverRefines DEF Same
  <2> QED
    BY <2>1, Zenon DEF Posix!PNext
<1>6. ASSUME NEW t \in Threads, Reply(t) \/ iomanx_adapter_readdir(t)
      PROVE  Posix!PNext \/ Same
  <2> HIDE DEF Same
  <2>1. Posix!Return(t) \/ Same
    BY <1>6, ReturnRefines DEF Same
  <2> QED
    BY <2>1, Zenon DEF Posix!PNext
<1>7. CASE UNCHANGED vars
  BY <1>7, SeenSame DEF vars
<1> HIDE DEF Same
<1>8. Posix!PNext \/ Same
  BY <1>1, <1>2, <1>3, <1>4, <1>5, <1>6, <1>7, Zenon DEF Next, Same
<1> QED
  BY <1>8, Zenon DEF Same

(* As long as no two requests are under way on one descriptor, pfsfuse       *)
(* implements PosixFile: for any number of threads, descriptors and files,   *)
(* reads and writes take effect at one moment, at the offset asked for,      *)
(* although each is a seek and an access of the driver, and no other         *)
(* operation disturbs them.                                                  *)
THEOREM Refinement == ~SharedHandles => (Spec => ImplementsPosix)
<1> SUFFICES ASSUME ~SharedHandles
             PROVE  Spec => ImplementsPosix
  OBVIOUS
<1>1. Init => Posix!PInit
  <2> SUFFICES ASSUME Init
               PROVE  Posix!PInit
    OBVIOUS
  <2>1. \A t \in Threads : req[t] = NoReq
    BY DEF Init
  <2>2. call = [t \in Threads |-> View(req[t])] /\ View(NoReq) = Posix!NoCall
    BY Mapping, Views, Zenon
  <2>3. call = [t \in Threads |-> Posix!NoCall]
    BY <2>1, <2>2
  <2>4. content \in [Files -> UNION {[1 .. n -> Values] : n \in 0 .. MaxSize}]
    BY DEF Init
  <2> QED
    BY <2>3, <2>4, Zenon DEF Posix!PInit
<1>2. FuseInv /\ [Next]_vars => [Posix!PNext]_<<content, call, iomanx_adapter_getattr>>
  BY StepRefines
<1>3. Spec => []FuseInv
  BY FuseSafe
<1> QED
  BY <1>1, <1>2, <1>3, PTL DEF Spec, ImplementsPosix, Posix!PSpec

(* What a read or a write accessed is the offset it was asked for, as long   *)
(* as no descriptor is shared: the misplaced accesses that MCFuseShared      *)
(* finds have no other cause.                                                *)
THEOREM OffsetsSafe == ~SharedHandles => (Spec => []IoAtOffsetAsked)
<1> SUFFICES ASSUME ~SharedHandles
             PROVE  Spec => []IoAtOffsetAsked
  OBVIOUS
<1>1. FuseInv => IoAtOffsetAsked
  <2> SUFFICES ASSUME FuseInv, NEW t \in Threads, req[t].step = "done"
               PROVE  req[t].at = req[t].off
    BY DEF IoAtOffsetAsked
  <2>1. Serves(req[t], handle) /\ NoReq.step = "idle"
    BY DEF FuseInv, RequestsInv, NoReq
  <2> QED
    BY <2>1 DEF Serves
<1>2. Spec => []FuseInv
  BY FuseSafe
<1> QED
  BY <1>1, <1>2, PTL
=============================================================================
