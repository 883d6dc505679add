--------------------------- MODULE TransferProofs ---------------------------
(***************************************************************************)
(* Proofs about Transfer, for a source of any length and contents, any     *)
(* buffer and any destination: what stays open at the end, that what is    *)
(* written is the beginning of the source, and what the result is worth.   *)
(***************************************************************************)
EXTENDS Transfer, SequenceTheorems, TLAPS

Bytes == Range(Source) \cup {Old}

Calls == {"acquire", "read", "write", "short"}
Closes == {"close src", "close dst", "close mount", "close session"}

TypeOK ==
    /\ tool \in Tools
    /\ pc \in {"acquire", "read", "write", "release", "exit", "done"}
    /\ held \in 0 .. Len(Needs[tool])
    /\ result \in {OK, ERR}
    /\ pos \in 0 .. Len(Source)
    /\ buf \in Seq(Bytes) /\ dst \in Seq(Bytes)
    /\ wpos \in 0 .. Len(dst)
    /\ open \subseteq {"src", "dst", "mount", "session"}
    /\ faults \subseteq Calls \cup Closes
    /\ pc = "acquire" => held < Len(Needs[tool]) /\ pos = 0 /\ wpos = 0

(* What is open is what is still to be released, or could not be.  Before    *)
(* the release that is what was acquired; only ps2kinst releases in another  *)
(* order, and it does so only after all has been acquired.                   *)
OpenInv ==
    /\ pc \in {"read", "write"} => held = Len(Needs[tool])
    /\ pc \in {"acquire", "read", "write"} =>
          \A r \in open : \E k \in 1 .. held : r = Needs[tool][k]
    /\ pc = "release" =>
          \A r \in open : CloseFault(r) \in faults \/ \E k \in 1 .. held : r = Frees[tool][k]
    /\ unit = "mounted" => via = "pfsd"
    /\ via # "none" => tool = "ps2kinst"
    /\ pc = "acquire" /\ via # "none" => held >= 2
    /\ OnlyRefusedStaysOpen

(* The result is an error exactly when a fault has happened that the routine *)
(* reports.                                                                  *)
ResultInv ==
    /\ result = ERR <=> faults \cap Reports[tool] # {}
    /\ "close session" \in faults => tool = "ps2kinst"

(* Until a write falls short, and in the routines that stop then ever after, *)
(* what has been written is the beginning of the source; reading and writing *)
(* go in step, and end with the source unless a call failed.  ps2kinst has   *)
(* truncated its destination, so that it holds nothing else.                 *)
CopyInv ==
    /\ pc = "acquire" => faults = {}
    /\ pc \in {"read", "write"} => faults \subseteq {"short"}
    /\ pc \in {"read", "write"} /\ tool \in StopsOnShort => faults = {}
    /\ pc = "read" /\ "short" \notin faults => wpos = pos
    /\ pc = "write" /\ "short" \notin faults =>
          /\ wpos + Len(buf) = pos
          /\ \A k \in 1 .. Len(buf) : buf[k] = Source[wpos + k]
    /\ "short" \notin faults \/ tool \in StopsOnShort =>
          /\ wpos <= Len(Source)
          /\ \A k \in 1 .. wpos : dst[k] = Source[k]
    /\ pc \in {"release", "exit", "done"} /\ faults \cap Calls = {} => wpos = Len(Source)
    /\ pc # "acquire" /\ tool = "ps2kinst" /\ "acquire" \notin faults => Len(dst) = wpos

(* The tables of the five routines.                                          *)
LEMMA Routines ==
    ASSUME NEW t \in Tools
    PROVE  /\ Len(Needs[t]) \in Nat \ {0}
           /\ Len(Frees[t]) = Len(Needs[t])
           /\ \A k \in 1 .. Len(Needs[t]) :
                 /\ Needs[t][k] \in {"src", "dst", "mount", "session"}
                 /\ Frees[t][k] \in {"src", "dst", "mount", "session"}
                 /\ Frees[t][k] = "session" => t = "ps2kinst"
                 /\ t = "ps2kinst" => (Needs[t][k] = "dst" <=> k = Len(Needs[t]))
           /\ t # "ps2kinst" => Frees[t] = Needs[t]
           /\ \A k \in 1 .. Len(Needs[t]) : \E j \in 1 .. Len(Needs[t]) : Needs[t][k] = Frees[t][j]
<1>1. t \in {"get", "put", "copyto", "copyfrom", "ps2kinst"}
  BY TransferAssumption
<1>2. CASE t = "get"
  BY <1>2 DEF Needs, Frees
<1>3. CASE t = "put"
  BY <1>3 DEF Needs, Frees
<1>4. CASE t = "copyto"
  BY <1>4 DEF Needs, Frees
<1>5. CASE t = "copyfrom"
  BY <1>5 DEF Needs, Frees
<1>6. CASE t = "ps2kinst"
  <2>1. Needs[t] = <<"src", "session", "mount", "dst">> /\ Frees[t] = <<"session", "mount", "dst", "src">>
    BY <1>6 DEF Needs, Frees
  <2>2. Len(Needs[t]) = 4 /\ Len(Frees[t]) = 4
    BY <2>1
  <2>3. \A k \in 1 .. 4 : k = 1 \/ k = 2 \/ k = 3 \/ k = 4
    OBVIOUS
  <2>4. \A k \in 1 .. 4 : \E j \in 1 .. 4 : Needs[t][k] = Frees[t][j]
    BY <2>1, <2>3
  <2> QED
    BY <1>6, <2>1, <2>2, <2>3, <2>4
<1> QED
  BY <1>1, <1>2, <1>3, <1>4, <1>5, <1>6

(* Which faults the routines report.                                         *)
LEMMA Reported ==
    ASSUME NEW t \in Tools
    PROVE  /\ t = "ps2kinst" => Reports[t] = Calls
           /\ t = "copyfrom" => Reports[t] = {"acquire", "write", "read", "close src",
                                              "close mount", "close dst"}
<1>1. t = "ps2kinst" => Reports[t] = Calls
  BY DEF Reports, Calls
<1>2. t = "copyfrom" => Reports[t] = {"acquire", "write", "read", "close src",
                                      "close mount", "close dst"}
  BY DEF Reports
<1> QED
  BY <1>1, <1>2

(* What overwriting a part of a sequence leaves of it.                       *)
LEMMA Overwriting ==
    ASSUME NEW s \in Seq(Bytes), NEW t \in Seq(Bytes), NEW n \in 0 .. Len(s)
    PROVE  /\ WrittenAt(s, n, t) \in Seq(Bytes)
           /\ Len(WrittenAt(s, n, t)) = IF n + Len(t) > Len(s) THEN n + Len(t) ELSE Len(s)
           /\ \A k \in 1 .. n : WrittenAt(s, n, t)[k] = s[k]
           /\ \A k \in 1 .. Len(t) : WrittenAt(s, n, t)[n + k] = t[k]
<1> DEFINE m == IF n + Len(t) > Len(s) THEN n + Len(t) ELSE Len(s)
           e(k) == IF k \in n + 1 .. n + Len(t) THEN t[k - n] ELSE s[k]
<1>1. m \in Nat /\ m >= n /\ m >= n + Len(t)
  OBVIOUS
<1>2. \A k \in 1 .. m : e(k) \in Bytes
  BY ElementOfSeq
<1>3. WrittenAt(s, n, t) = [k \in 1 .. m |-> e(k)]
  BY DEF WrittenAt
<1>4. [k \in 1 .. m |-> e(k)] \in Seq(Bytes)
  BY <1>1, <1>2, IsASeq
<1>5. Len([k \in 1 .. m |-> e(k)]) = m
  BY <1>1
<1>6. \A k \in 1 .. n : e(k) = s[k] /\ k \in 1 .. m
  BY <1>1
<1>7. \A k \in 1 .. Len(t) : e(n + k) = t[k] /\ n + k \in 1 .. m
  BY <1>1
<1> QED
  BY <1>3, <1>4, <1>5, <1>6, <1>7

(* A part of a sequence is one of the same elements.                         *)
LEMMA PartOf ==
    ASSUME NEW s \in Seq(Bytes), NEW m \in Nat, NEW n \in Nat, m + n <= Len(s)
    PROVE  /\ SubSeq(s, m + 1, m + n) \in Seq(Bytes)
           /\ Len(SubSeq(s, m + 1, m + n)) = n
           /\ \A k \in 1 .. n : SubSeq(s, m + 1, m + n)[k] = s[m + k]
<1>1. \A k \in m + 1 .. m + n : s[k] \in Bytes
  BY ElementOfSeq
<1> QED
  BY <1>1, SubSeqProperties

(* The four faults of closing are four.                                      *)
LEMMA CloseFaults ==
    /\ CloseFault("src") = "close src"
    /\ CloseFault("dst") = "close dst"
    /\ CloseFault("mount") = "close mount"
    /\ CloseFault("session") = "close session"
BY DEF CloseFault

(* The source is a sequence of bytes.                                        *)
LEMMA SourceType == Source \in Seq(Bytes) /\ Len(Source) \in Nat
BY TransferAssumption, SeqMonotonic, LenProperties DEF Bytes

(* Every step of a routine keeps every variable in its type.                 *)
LEMMA TypeInvariant == Spec => []TypeOK
<1>1. Init => TypeOK
  <2> SUFFICES ASSUME Init
               PROVE  TypeOK
    OBVIOUS
  <2>1. PICK n \in 0 .. MaxOld : dst = [k \in 1 .. n |-> Old]
    BY DEF Init
  <2>2. n \in Nat
    BY TransferAssumption
  <2>3. dst \in Seq(Bytes) /\ Len(dst) = n
    BY <2>1, <2>2, IsASeq DEF Bytes
  <2>4. buf \in Seq(Bytes) /\ Len(Source) \in Nat /\ Len(Needs[tool]) \in Nat
    BY EmptySeq, SourceType, LenProperties, Routines DEF Init
  <2> QED
    BY <2>2, <2>3, <2>4, Routines DEF Init, TypeOK
<1>2. TypeOK /\ [Next]_vars => TypeOK'
  <2> SUFFICES ASSUME TypeOK, [Next]_vars
               PROVE  TypeOK'
    OBVIOUS
  <2> USE DEF TypeOK
  <2>0. /\ Len(Needs[tool]) \in Nat /\ Len(Source) \in Nat
        /\ Len(buf) \in Nat /\ Len(dst) \in Nat
    BY SourceType, Routines, LenProperties
  <2>1. ASSUME NEW f \in Calls \cup Closes, Fault(f)
        PROVE  result' \in {OK, ERR} /\ faults' \subseteq Calls \cup Closes
    BY <2>1 DEF Fault
  <2>2. pc' = AfterFailure => pc' \in {"release", "exit"}
    BY DEF AfterFailure
  <2>3. CASE Acquire
    <3>1. CASE Fault("acquire") /\ pc' = AfterFailure /\ UNCHANGED <<held, open, dst, via, unit>>
      BY <2>0, <2>1, <2>2, <2>3, <3>1 DEF Acquire, Calls
    <3>2. CASE held' = held + 1 /\ open' = open \cup {Needs[tool][held + 1]}
      <4>1. held + 1 \in 1 .. Len(Needs[tool]) /\ tool' = tool /\ wpos' = 0 /\ pos' = 0 /\ buf' = buf
        BY <2>0, <2>3 DEF Acquire
      <4>2. open' \subseteq {"src", "dst", "mount", "session"}
        <5>1. Needs[tool][held + 1] \in {"src", "dst", "mount", "session"}
          BY <4>1, Routines
        <5> QED
          BY <3>2, <5>1
      <4>3. result' = result /\ faults' = faults /\ pc' = IF held' = Len(Needs[tool]) THEN "read" ELSE "acquire"
        BY <2>3, <3>2 DEF Acquire
      <4>4. dst' \in Seq(Bytes) /\ Len(dst') \in Nat
        <5>1. dst' = <<>> \/ dst' = dst
          BY <2>3, <3>2 DEF Acquire
        <5> QED
          BY <2>0, <5>1, EmptySeq
      <4> QED
        BY <2>0, <3>2, <4>1, <4>2, <4>3, <4>4
    <3> QED
      BY <2>3, <3>1, <3>2 DEF Acquire
  <2>4. CASE Read
    <3>1. CASE Fault("read") /\ pc' = AfterFailure /\ UNCHANGED <<pos, buf>>
      BY <2>0, <2>1, <2>2, <2>4, <3>1 DEF Read, Calls
    <3>2. ASSUME NEW n \in 0 .. Buffer, pos + n <= Len(Source),
                 buf' = SubSeq(Source, pos + 1, pos + n), pos' = pos + n,
                 pc' = IF n > 0 THEN "write" ELSE "release",
                 UNCHANGED <<result, faults>>
          PROVE  TypeOK'
      <4>1. buf' \in Seq(Bytes)
        BY <2>0, <3>2, PartOf, SourceType
      <4> QED
        BY <2>0, <2>4, <3>2, <4>1 DEF Read
    <3> QED
      BY <2>4, <3>1, <3>2 DEF Read
  <2>5. CASE Write
    <3>1. CASE Fault("write") /\ pc' = AfterFailure /\ UNCHANGED <<dst, wpos>>
      BY <2>1, <2>2, <2>5, <3>1 DEF Write, Calls
    <3>2. ASSUME NEW n \in 0 .. Len(buf),
                 dst' = WrittenAt(dst, wpos, SubSeq(buf, 1, n)), wpos' = wpos + n,
                 IF n < Len(buf) THEN Fault("short") ELSE UNCHANGED <<result, faults>>,
                 pc' \in {AfterFailure, "read"}
          PROVE  TypeOK'
      <4>1. SubSeq(buf, 1, n) \in Seq(Bytes) /\ Len(SubSeq(buf, 1, n)) = n
        BY <2>0, SubSeqProperties, ElementOfSeq
      <4>2. dst' \in Seq(Bytes) /\ wpos' \in 0 .. Len(dst')
        <5> DEFINE t == SubSeq(buf, 1, n)
        <5> HIDE DEF t
        <5>1. t \in Seq(Bytes) /\ Len(t) = n /\ dst' = WrittenAt(dst, wpos, t)
          BY <3>2, <4>1 DEF t
        <5>2. wpos \in 0 .. Len(dst) /\ dst \in Seq(Bytes)
          OBVIOUS
        <5>3. dst' \in Seq(Bytes) /\ Len(dst') >= wpos + n
          BY <2>0, <5>1, <5>2, Overwriting, SMTT(60)
        <5> QED
          BY <2>0, <3>2, <5>3
      <4>3. result' \in {OK, ERR} /\ faults' \subseteq Calls \cup Closes
        BY <2>1, <3>2 DEF Calls
      <4> QED
        BY <2>2, <2>5, <3>2, <4>2, <4>3 DEF Write
    <3> QED
      BY <2>5, <3>1, <3>2 DEF Write
  <2>6. CASE Release
    <3>1. CASE held = 0
      BY <2>0, <2>6, <3>1 DEF Release
    <3>2. CASE held # 0
      <4>1. CloseFault(Frees[tool][held]) \in Calls \cup Closes
        <5>1. held \in 1 .. Len(Needs[tool])
          BY <2>0, <3>2
        <5>2. Frees[tool][held] \in {"src", "dst", "mount", "session"}
          BY <5>1, Routines
        <5> QED
          BY <5>2, CloseFaults DEF Closes
      <4>2. held' = held - 1 /\ pc' = "release" /\ open' \subseteq open
            /\ UNCHANGED <<tool, pos, buf, dst, wpos>>
        BY <2>6, <3>2 DEF Release
      <4>3. result' \in {OK, ERR} /\ faults' \subseteq Calls \cup Closes
        BY <2>1, <2>6, <3>2, <4>1 DEF Release
      <4> QED
        BY <2>0, <3>2, <4>2, <4>3
    <3> QED
      BY <3>1, <3>2
  <2>7. CASE Exit
    BY <2>0, <2>7 DEF Exit
  <2>8. CASE UNCHANGED vars
    BY <2>0, <2>8 DEF vars
  <2> QED
    BY <2>3, <2>4, <2>5, <2>6, <2>7, <2>8 DEF Next
<1> QED
  BY <1>1, <1>2, PTL DEF Spec

(* No path through the failures of a routine leaks a descriptor or a mount.  *)
THEOREM OpenSafe == Spec => []OnlyRefusedStaysOpen
<1>1. Init => OpenInv
  BY DEF Init, OpenInv, OnlyRefusedStaysOpen
<1>2. TypeOK /\ OpenInv /\ [Next]_vars => OpenInv'
  <2> SUFFICES ASSUME TypeOK, OpenInv, [Next]_vars
               PROVE  OpenInv'
    OBVIOUS
  <2>0. tool \in Tools /\ Len(Needs[tool]) \in Nat /\ held \in 0 .. Len(Needs[tool])
    BY Routines DEF TypeOK
  <2>1. ASSUME pc \in {"acquire", "read", "write"}, pc' = AfterFailure,
               UNCHANGED <<tool, held, open, via, unit>>, faults \subseteq faults'
        PROVE  OpenInv'
    <3>1. CASE tool = "ps2kinst"
      BY <2>1, <3>1 DEF OpenInv, AfterFailure, OnlyRefusedStaysOpen
    <3>2. CASE tool # "ps2kinst"
      <4>1. pc' = "release" /\ Frees[tool] = Needs[tool]
        BY <2>0, <2>1, <3>2, Routines DEF AfterFailure
      <4> QED
        BY <2>1, <4>1 DEF OpenInv, OnlyRefusedStaysOpen
    <3> QED
      BY <3>1, <3>2
  <2>2. CASE Acquire
    <3>1. CASE Fault("acquire") /\ pc' = AfterFailure /\ UNCHANGED <<held, open, dst, via, unit>>
      BY <2>1, <2>2, <3>1 DEF Acquire, Fault
    <3>2. CASE held' = held + 1 /\ open' = open \cup {Needs[tool][held + 1]}
               /\ pc' = IF held' = Len(Needs[tool]) THEN "read" ELSE "acquire"
      <4>1. tool' = tool /\ pc = "acquire"
        BY <2>2 DEF Acquire
      <4>2. \A r \in open' : \E k \in 1 .. held' : r = Needs[tool][k]
        BY <2>0, <3>2, <4>1 DEF OpenInv
      <4>3. /\ via' \in IF Needs[tool][held + 1] = "session" THEN {"pfsd", "PFSlib"} ELSE {via}
            /\ unit' = IF Needs[tool][held + 1] = "mount" /\ via = "pfsd" THEN "mounted" ELSE unit
        BY <2>2, <3>2, <2>0 DEF Acquire
      <4>4. held + 1 \in 1 .. Len(Needs[tool])
        BY <2>0, <4>1 DEF TypeOK
      <4>5. Needs[tool][held + 1] = "session" => tool = "ps2kinst"
        <5>3. \A k \in 1 .. Len(Needs[tool]) : \E j \in 1 .. Len(Needs[tool]) :
                 Needs[tool][k] = Frees[tool][j]
          BY <2>0, Routines, Zenon
        <5>1. \E j \in 1 .. Len(Needs[tool]) : Needs[tool][held + 1] = Frees[tool][j]
          BY <4>4, <5>3
        <5>2. \A j \in 1 .. Len(Needs[tool]) : Frees[tool][j] = "session" => tool = "ps2kinst"
          BY <2>0, Routines, Zenon
        <5> QED
          BY <5>1, <5>2
      <4>6. Needs[tool][held + 1] = "session" => held = 1
        <5>1. CASE tool = "ps2kinst"
          <6>1. Needs[tool] = <<"src", "session", "mount", "dst">>
            BY <5>1 DEF Needs
          <6>2. Needs[tool][1] = "src" /\ Needs[tool][3] = "mount" /\ Needs[tool][4] = "dst"
                /\ Len(Needs[tool]) = 4
            BY <6>1
          <6>3. held + 1 \in 1 .. 4 /\ held \in Nat
            BY <2>0, <4>4, <6>2
          <6>4. held + 1 = 1 \/ held + 1 = 2 \/ held + 1 = 3 \/ held + 1 = 4
            BY <6>3
          <6> QED
            BY <6>2, <6>3, <6>4
        <5> QED
          BY <4>5, <5>1
      <4>7. /\ unit' = "mounted" => via' = "pfsd"
            /\ via' # "none" => tool = "ps2kinst" /\ held' >= 2
        <5>1. /\ unit = "mounted" => via = "pfsd"
              /\ via # "none" => tool = "ps2kinst" /\ held >= 2
          BY <4>1, Zenon DEF OpenInv
        <5>2. CASE Needs[tool][held + 1] = "session"
          <6>1. held = 1 /\ tool = "ps2kinst" /\ unit' = unit
            BY <4>3, <4>5, <4>6, <5>2
          <6> QED
            BY <3>2, <5>1, <6>1
        <5>3. CASE Needs[tool][held + 1] # "session"
          <6>1. via' = via
            BY <4>3, <5>3
          <6>2. held \in Nat /\ held' = held + 1
            BY <2>0, <3>2
          <6> QED
            BY <4>3, <5>1, <6>1, <6>2
        <5> QED
          BY <5>2, <5>3
      <4> QED
        BY <3>2, <4>1, <4>2, <4>7 DEF OpenInv, OnlyRefusedStaysOpen
    <3> QED
      BY <2>2, <3>1, <3>2 DEF Acquire
  <2>3. CASE Read
    <3>1. CASE Fault("read") /\ pc' = AfterFailure
      BY <2>1, <2>3, <3>1 DEF Read, Fault
    <3>2. CASE pc' \in {"write", "release"} /\ faults' = faults
      <4>1. pc = "read" /\ UNCHANGED <<tool, held, open, via, unit>> /\ held = Len(Needs[tool])
        BY <2>3 DEF Read, OpenInv
      <4>2. \A r \in open : \E k \in 1 .. held : r = Frees[tool][k]
        <5>1. \A k \in 1 .. Len(Needs[tool]) : \E j \in 1 .. Len(Needs[tool]) :
                 Needs[tool][k] = Frees[tool][j]
          BY <2>0, Routines, Zenon
        <5>2. \A r \in open : \E k \in 1 .. held : r = Needs[tool][k]
          BY <4>1 DEF OpenInv
        <5>3. ASSUME NEW r \in open
              PROVE  \E j \in 1 .. held : r = Frees[tool][j]
          <6>1. PICK k \in 1 .. held : r = Needs[tool][k]
            BY <5>2
          <6>2. PICK j \in 1 .. held : Needs[tool][k] = Frees[tool][j]
            BY <4>1, <5>1
          <6> QED
            BY <6>1, <6>2
        <5> QED
          BY <5>3
      <4> QED
        BY <3>2, <4>1, <4>2 DEF OpenInv, OnlyRefusedStaysOpen
    <3> QED
      BY <2>3, <3>1, <3>2 DEF Read
  <2>4. CASE Write
    <3>1. pc = "write" /\ UNCHANGED <<tool, held, open, via, unit>> /\ faults \subseteq faults'
      BY <2>4 DEF Write, Fault
    <3>2. CASE pc' = AfterFailure
      BY <2>1, <3>1, <3>2
    <3>3. CASE pc' = "read"
      BY <3>1, <3>3 DEF OpenInv, OnlyRefusedStaysOpen
    <3> QED
      BY <2>4, <3>2, <3>3 DEF Write
  <2>5. CASE Release
    <3>1. CASE held = 0
      BY <2>5, <3>1 DEF Release, OpenInv, OnlyRefusedStaysOpen
    <3>2. CASE held # 0
      <4>1. /\ pc = "release" /\ pc' = "release" /\ tool' = tool /\ held' = held - 1
            /\ open' \subseteq open /\ faults \subseteq faults' /\ UNCHANGED <<via, unit>>
            /\ Frees[tool][held] \in open' => CloseFault(Frees[tool][held]) \in faults'
        BY <2>5, <3>2 DEF Release, Fault
      <4>2. \A r \in open' : \/ CloseFault(r) \in faults'
                             \/ \E k \in 1 .. held' : r = Frees[tool][k]
        <5> SUFFICES ASSUME NEW r \in open', CloseFault(r) \notin faults'
                     PROVE  \E k \in 1 .. held' : r = Frees[tool][k]
          OBVIOUS
        <5>1. PICK k \in 1 .. held : r = Frees[tool][k]
          BY <4>1 DEF OpenInv
        <5>2. k # held
          BY <4>1, <5>1
        <5> QED
          BY <2>0, <4>1, <5>1, <5>2
      <4> QED
        BY <4>1, <4>2 DEF OpenInv, OnlyRefusedStaysOpen
    <3> QED
      BY <3>1, <3>2
  <2>6. CASE Exit
    BY <2>6 DEF Exit, OpenInv, OnlyRefusedStaysOpen
  <2>7. CASE UNCHANGED vars
    BY <2>7 DEF vars, OpenInv, OnlyRefusedStaysOpen
  <2> QED
    BY <2>2, <2>3, <2>4, <2>5, <2>6, <2>7 DEF Next
<1>3. OpenInv => OnlyRefusedStaysOpen
  BY DEF OpenInv
<1> QED
  BY <1>1, <1>2, <1>3, TypeInvariant, PTL DEF Spec

(* The result is what the faults that are reported make it.                  *)
LEMMA ResultInvariant == Spec => []ResultInv
<1>1. Init => ResultInv
  BY DEF Init, ResultInv, OK, ERR
<1>2. TypeOK /\ ResultInv /\ [Next]_vars => ResultInv'
  <2> SUFFICES ASSUME TypeOK, ResultInv, [Next]_vars
               PROVE  ResultInv'
    OBVIOUS
  <2>1. ASSUME NEW f, Fault(f), tool' = tool, f = "close session" => tool = "ps2kinst"
        PROVE  ResultInv'
    <3>1. CASE f \in Reports[tool]
      BY <2>1, <3>1 DEF Fault, ResultInv
    <3>2. CASE f \notin Reports[tool]
      <4>1. faults' \cap Reports[tool] = faults \cap Reports[tool] /\ result' = result
        BY <2>1, <3>2 DEF Fault
      <4> QED
        BY <2>1, <4>1 DEF Fault, ResultInv
    <3> QED
      BY <3>1, <3>2
  <2>2. ASSUME UNCHANGED <<tool, result, faults>>
        PROVE  ResultInv'
    BY <2>2 DEF ResultInv
  <2>3. CASE Acquire
    BY <2>1, <2>2, <2>3 DEF Acquire
  <2>4. CASE Read
    BY <2>1, <2>2, <2>4 DEF Read
  <2>5. CASE Write
    <3>1. tool' = tool
      BY <2>5 DEF Write
    <3>2. Fault("write") \/ Fault("short") \/ UNCHANGED <<result, faults>>
      BY <2>5 DEF Write
    <3> QED
      BY <2>1, <2>2, <3>1, <3>2
  <2>6. CASE Release
    <3>1. CASE UNCHANGED <<result, faults>>
      BY <2>2, <2>6, <3>1 DEF Release
    <3>2. CASE held # 0 /\ Fault(CloseFault(Frees[tool][held]))
      <4>1. held \in 1 .. Len(Needs[tool]) /\ tool \in Tools
        BY <3>2, Routines DEF TypeOK
      <4>2. /\ Frees[tool][held] \in {"src", "dst", "mount", "session"}
            /\ Frees[tool][held] = "session" => tool = "ps2kinst"
        BY <4>1, Routines
      <4>3. CloseFault(Frees[tool][held]) = "close session" => tool = "ps2kinst"
        BY <4>2, CloseFaults
      <4> QED
        BY <2>1, <2>6, <3>2, <4>3 DEF Release
    <3> QED
      BY <2>6, <3>1, <3>2 DEF Release
  <2>7. CASE Exit
    BY <2>2, <2>7 DEF Exit
  <2>8. CASE UNCHANGED vars
    BY <2>2, <2>8 DEF vars
  <2> QED
    BY <2>3, <2>4, <2>5, <2>6, <2>7, <2>8 DEF Next
<1> QED
  BY <1>1, <1>2, TypeInvariant, PTL DEF Spec

(* What has been written is a beginning of the source, and all of it unless  *)
(* a call went wrong.                                                        *)
LEMMA CopyInvariant == Spec => []CopyInv
<1>1. Init => CopyInv
  <2> SUFFICES ASSUME Init
               PROVE  CopyInv
    OBVIOUS
  <2>1. pc = "acquire" /\ wpos = 0 /\ pos = 0 /\ faults = {}
    BY DEF Init
  <2> QED
    BY <2>1, SourceType DEF CopyInv
<1>2. TypeOK /\ CopyInv /\ [Next]_vars => CopyInv'
  <2> SUFFICES ASSUME TypeOK, CopyInv, [Next]_vars
               PROVE  CopyInv'
    OBVIOUS
  <2>0. /\ tool \in Tools /\ Len(Needs[tool]) \in Nat
        /\ Len(Source) \in Nat /\ Len(buf) \in Nat /\ Len(dst) \in Nat
        /\ wpos \in Nat /\ pos \in 0 .. Len(Source)
    BY SourceType, Routines, LenProperties DEF TypeOK
  <2>1. pc' = AfterFailure => pc' \in {"release", "exit"}
    BY DEF AfterFailure
  <2>2. CASE Acquire
    <3>1. /\ pc = "acquire" /\ tool' = tool /\ pos' = 0 /\ wpos' = 0 /\ faults = {}
      BY <2>2 DEF Acquire, TypeOK, CopyInv
    <3>2. CASE Fault("acquire") /\ pc' = AfterFailure
      <4>1. faults' = {"acquire"}
        BY <3>1, <3>2 DEF Fault
      <4> QED
        BY <2>0, <2>1, <3>1, <3>2, <4>1 DEF CopyInv, Calls
    <3>3. CASE held' = held + 1 /\ open' = open \cup {Needs[tool][held + 1]}
               /\ pc' = (IF held' = Len(Needs[tool]) THEN "read" ELSE "acquire")
               /\ dst' = (IF tool = "ps2kinst" /\ "dst" \in open' THEN <<>> ELSE dst)
               /\ UNCHANGED <<result, faults>>
      <4>1. ASSUME pc' # "acquire", tool = "ps2kinst"
            PROVE  dst' = <<>>
        <5>1. held + 1 = Len(Needs[tool]) /\ held + 1 \in 1 .. Len(Needs[tool])
          BY <2>0, <3>3, <4>1 DEF TypeOK
        <5>2. \A k \in 1 .. Len(Needs[tool]) : Needs[tool][k] = "dst" <=> k = Len(Needs[tool])
          BY <2>0, <4>1, Routines, Zenon
        <5>3. Needs[tool][held + 1] = "dst"
          BY <5>1, <5>2, Zenon
        <5> QED
          BY <3>3, <4>1, <5>3
      <4>2. pc' \in {"read", "acquire"} /\ faults' = {}
        BY <3>1, <3>3
      <4> QED
        BY <2>0, <3>1, <4>1, <4>2, EmptySeq DEF CopyInv
    <3> QED
      BY <2>2, <3>2, <3>3 DEF Acquire
  <2>3. CASE Read
    <3>1. pc = "read" /\ UNCHANGED <<tool, dst, wpos>>
      BY <2>3 DEF Read
    <3>2. CASE Fault("read") /\ pc' = AfterFailure
      <4>1. faults' = faults \cup {"read"}
        BY <3>2 DEF Fault
      <4> QED
        BY <2>0, <2>1, <3>1, <3>2, <4>1 DEF CopyInv, Calls
    <3>3. ASSUME NEW n \in 0 .. Buffer, pos + n <= Len(Source), n = 0 => pos = Len(Source),
                 buf' = SubSeq(Source, pos + 1, pos + n), pos' = pos + n,
                 pc' = IF n > 0 THEN "write" ELSE "release",
                 UNCHANGED <<result, faults>>
          PROVE  CopyInv'
      <4>1. n \in Nat
        BY TransferAssumption
      <4>2. Len(buf') = n /\ \A k \in 1 .. n : buf'[k] = Source[pos + k]
        BY <2>0, <3>3, <4>1, PartOf, SourceType
      <4>3. CASE n > 0
        BY <2>0, <3>1, <3>3, <4>1, <4>2, <4>3 DEF CopyInv
      <4>4. CASE n = 0
        <5>1. pc' = "release" /\ faults' = faults
          BY <3>3, <4>4
        <5>2. "short" \notin faults => wpos = Len(Source)
          BY <3>1, <3>3, <4>4 DEF CopyInv
        <5>3. faults \cap Calls = {} => "short" \notin faults
          BY DEF Calls
        <5> QED
          BY <3>1, <5>1, <5>2, <5>3 DEF CopyInv
      <4> QED
        BY <4>1, <4>3, <4>4
    <3> QED
      BY <2>3, <3>2, <3>3 DEF Read
  <2>4. CASE Write
    <3>1. pc = "write" /\ UNCHANGED <<tool, pos, buf>>
      BY <2>4 DEF Write
    <3>2. CASE Fault("write") /\ pc' = AfterFailure /\ UNCHANGED <<dst, wpos>>
      <4>1. faults' = faults \cup {"write"}
        BY <3>2 DEF Fault
      <4> QED
        BY <2>0, <2>1, <3>1, <3>2, <4>1 DEF CopyInv, Calls
    <3>3. ASSUME NEW n \in 0 .. Len(buf),
                 dst' = WrittenAt(dst, wpos, SubSeq(buf, 1, n)), wpos' = wpos + n,
                 IF n < Len(buf) THEN Fault("short") ELSE UNCHANGED <<result, faults>>,
                 pc' = IF n < Len(buf) /\ tool \in StopsOnShort THEN AfterFailure ELSE "read"
          PROVE  CopyInv'
      <4> DEFINE t == SubSeq(buf, 1, n)
      <4>1. t \in Seq(Bytes) /\ Len(t) = n /\ \A k \in 1 .. n : t[k] = buf[k]
        <5>1. 0 + n <= Len(buf) /\ 0 + 1 = 1 /\ 0 + n = n /\ buf \in Seq(Bytes) /\ n \in Nat
          BY <2>0, <3>3 DEF TypeOK
        <5>2. \A k \in 1 .. n : 0 + k = k
          OBVIOUS
        <5> QED
          BY <5>1, <5>2, PartOf
      <4> HIDE DEF t
      <4>2. dst' = WrittenAt(dst, wpos, t)
        BY <3>3 DEF t
      <4>3. dst \in Seq(Bytes) /\ wpos \in 0 .. Len(dst)
        BY DEF TypeOK
      <4>4. /\ Len(dst') = IF wpos + n > Len(dst) THEN wpos + n ELSE Len(dst)
            /\ \A k \in 1 .. wpos : dst'[k] = dst[k]
            /\ \A k \in 1 .. n : dst'[wpos + k] = t[k]
        BY <4>1, <4>2, <4>3, Overwriting
      <4>5. ASSUME "short" \notin faults
            PROVE  wpos' <= Len(Source) /\ \A k \in 1 .. wpos' : dst'[k] = Source[k]
        <5>1. /\ wpos + Len(buf) = pos
              /\ \A k \in 1 .. Len(buf) : buf[k] = Source[wpos + k]
              /\ \A k \in 1 .. wpos : dst[k] = Source[k]
          BY <3>1, <4>5 DEF CopyInv
        <5>2. \A k \in 1 .. n : dst'[wpos + k] = Source[wpos + k]
          <6>1. \A k \in 1 .. n : k \in 1 .. Len(buf)
            BY <2>0
          <6> QED
            BY <4>1, <4>4, <5>1, <6>1
        <5>3. ASSUME NEW k \in 1 .. wpos + n, k > wpos
              PROVE  dst'[k] = Source[k]
          <6>1. k - wpos \in 1 .. n /\ wpos + (k - wpos) = k
            BY <2>0, <3>3, <5>3
          <6> QED
            BY <5>2, <6>1
        <5>4. \A k \in 1 .. wpos : dst'[k] = Source[k]
          BY <4>4, <5>1
        <5> QED
          BY <2>0, <3>3, <5>1, <5>3, <5>4
      <4>6. faults \subseteq {"short"} /\ (tool \in StopsOnShort => faults = {})
            /\ (tool = "ps2kinst" => Len(dst) = wpos)
        BY <3>1 DEF CopyInv
      <4>7. tool = "ps2kinst" => Len(dst') = wpos'
        BY <2>0, <3>3, <4>4, <4>6
      <4>8. CASE n < Len(buf)
        <5>1. faults' = {"short"}
          BY <3>3, <4>6, <4>8 DEF Fault
        <5>2. CASE tool \in StopsOnShort
          BY <2>1, <3>1, <3>3, <4>5, <4>6, <4>7, <4>8, <5>1, <5>2 DEF CopyInv, Calls
        <5>3. CASE tool \notin StopsOnShort
          BY <3>1, <3>3, <4>7, <4>8, <5>1, <5>3 DEF CopyInv
        <5> QED
          BY <5>2, <5>3
      <4>9. CASE n = Len(buf)
        <5>1. faults' = faults /\ pc' = "read"
          BY <2>0, <3>3, <4>9
        <5>2. "short" \notin faults => wpos' = pos'
          BY <2>0, <3>1, <3>3, <4>9 DEF CopyInv
        <5> QED
          BY <3>1, <4>5, <4>6, <4>7, <5>1, <5>2 DEF CopyInv
      <4> QED
        BY <2>0, <3>3, <4>8, <4>9
    <3> QED
      BY <2>4, <3>2, <3>3 DEF Write
  <2>5. CASE Release
    <3>1. pc = "release" /\ UNCHANGED <<tool, pos, buf, dst, wpos>>
      BY <2>5 DEF Release
    <3>2. pc' \in {"release", "exit", "done"}
      BY <2>5 DEF Release
    <3>3. faults' = faults \/ \E f \in Closes : faults' = faults \cup {f}
      <4>1. CASE held # 0
        <5>1. held \in 1 .. Len(Needs[tool])
          BY <2>0, <4>1 DEF TypeOK
        <5>2. Frees[tool][held] \in {"src", "dst", "mount", "session"}
          BY <2>0, <5>1, Routines
        <5>3. CloseFault(Frees[tool][held]) \in Closes
          BY <5>2, CloseFaults DEF Closes
        <5> QED
          BY <2>5, <4>1, <5>3 DEF Release, Fault
      <4> QED
        BY <2>5, <4>1 DEF Release
    <3>4. faults' \cap Calls = faults \cap Calls
      BY <3>3 DEF Calls, Closes
    <3>5. /\ "short" \in faults' <=> "short" \in faults
          /\ "acquire" \in faults' <=> "acquire" \in faults
      BY <3>4 DEF Calls
    <3> QED
      BY <3>1, <3>2, <3>4, <3>5 DEF CopyInv
  <2>6. CASE Exit
    BY <2>6 DEF Exit, CopyInv
  <2>7. CASE UNCHANGED vars
    BY <2>7 DEF vars, CopyInv
  <2> QED
    BY <2>2, <2>3, <2>4, <2>5, <2>6, <2>7 DEF Next
<1> QED
  BY <1>1, <1>2, TypeInvariant, PTL DEF Spec

(* At every moment, what get, put and ps2kinst have written is the beginning *)
(* of the source.                                                            *)
THEOREM PrefixSafe == Spec => []WritesPrefix
<1>1. TypeOK /\ CopyInv => WritesPrefix
  <2> SUFFICES ASSUME TypeOK, CopyInv, tool \in StopsOnShort
               PROVE  SubSeq(dst, 1, wpos) = SubSeq(Source, 1, wpos)
    BY DEF WritesPrefix
  <2>1. /\ wpos \in Nat /\ wpos <= Len(dst) /\ wpos <= Len(Source)
        /\ \A k \in 1 .. wpos : dst[k] = Source[k]
    BY LenProperties DEF TypeOK, CopyInv
  <2>2. dst \in Seq(Bytes) /\ Source \in Seq(Bytes)
        /\ 0 + 1 = 1 /\ 0 + wpos = wpos /\ \A k \in 1 .. wpos : 0 + k = k
    BY <2>1, SourceType DEF TypeOK
  <2>3. /\ SubSeq(dst, 1, wpos) \in Seq(Bytes) /\ Len(SubSeq(dst, 1, wpos)) = wpos
        /\ \A k \in 1 .. wpos : SubSeq(dst, 1, wpos)[k] = dst[k]
    BY <2>1, <2>2, PartOf
  <2>4. /\ SubSeq(Source, 1, wpos) \in Seq(Bytes) /\ Len(SubSeq(Source, 1, wpos)) = wpos
        /\ \A k \in 1 .. wpos : SubSeq(Source, 1, wpos)[k] = Source[k]
    BY <2>1, <2>2, PartOf
  <2> QED
    BY <2>1, <2>3, <2>4, SeqEqual
<1> QED
  BY <1>1, TypeInvariant, CopyInvariant, PTL

(* What the result of a routine is worth: success without a fault, and, from *)
(* copyfrom and ps2kinst, that the copy is the source.                       *)
THEOREM ResultSafe == Spec => []ResultTellsTheTruth
<1>1. TypeOK /\ ResultInv /\ CopyInv => ResultTellsTheTruth
  <2> SUFFICES ASSUME TypeOK, ResultInv, CopyInv, pc = "done"
               PROVE  /\ faults = {} => result = OK /\ Whole(dst)
                      /\ result = OK => /\ tool = "copyfrom" /\ "short" \notin faults
                                              => Whole(dst) /\ faults = {}
                                        /\ tool = "ps2kinst" => dst = Source
    BY DEF ResultTellsTheTruth
  <2>0. /\ tool \in Tools /\ dst \in Seq(Bytes) /\ Source \in Seq(Bytes)
        /\ Len(dst) \in Nat /\ Len(Source) \in Nat /\ wpos <= Len(dst)
        /\ 0 + 1 = 1 /\ 0 + Len(Source) = Len(Source)
        /\ \A k \in 1 .. Len(Source) : 0 + k = k
    BY SourceType, LenProperties DEF TypeOK
  <2>1. ASSUME faults \cap Calls = {}
        PROVE  Whole(dst)
    <3>1. /\ wpos = Len(Source) /\ \A k \in 1 .. Len(Source) : dst[k] = Source[k]
      BY <2>1 DEF CopyInv, Calls
    <3> DEFINE t == SubSeq(dst, 1, Len(Source))
    <3>2. t \in Seq(Bytes) /\ Len(t) = Len(Source) /\ \A k \in 1 .. Len(Source) : t[k] = dst[k]
      BY <2>0, <3>1, PartOf
    <3>3. t = Source
      <4> HIDE DEF t
      <4> QED
        BY <2>0, <3>1, <3>2, SeqEqual
    <3> QED
      BY <2>0, <3>1, <3>3 DEF Whole
  <2>2. faults = {} => result = OK
    BY DEF ResultInv, TypeOK
  <2>3. ASSUME result = OK, tool = "copyfrom", "short" \notin faults
        PROVE  faults = {}
    <3>1. faults \cap {"acquire", "write", "read", "close src", "close mount", "close dst"} = {}
      <4>1. result # ERR
        BY <2>3 DEF OK, ERR
      <4>2. faults \cap Reports[tool] = {}
        BY <4>1 DEF ResultInv
      <4> QED
        BY <2>0, <2>3, <4>2, Reported, Zenon
    <3>2. "close session" \notin faults
      BY <2>3 DEF ResultInv
    <3> QED
      BY <2>3, <3>1, <3>2 DEF TypeOK, Calls, Closes
  <2>4. ASSUME result = OK, tool = "ps2kinst"
        PROVE  dst = Source
    <3>1. faults \cap Calls = {}
      <4>1. result # ERR
        BY <2>4 DEF OK, ERR
      <4>2. faults \cap Reports[tool] = {}
        BY <4>1 DEF ResultInv
      <4> QED
        BY <2>0, <2>4, <4>2, Reported, Zenon
    <3>2. wpos = Len(Source) /\ Len(dst) = wpos /\ \A k \in 1 .. wpos : dst[k] = Source[k]
      BY <2>4, <3>1 DEF CopyInv, Calls
    <3> QED
      BY <2>0, <3>2, SeqEqual
  <2> QED
    BY <2>1, <2>2, <2>3, <2>4
<1> QED
  BY <1>1, TypeInvariant, ResultInvariant, CopyInvariant, PTL
====
