---------------------------- MODULE ShellProofs ----------------------------
(***************************************************************************)
(* Proofs about pfsshell, for any partitions, names, lengths of paths and  *)
(* of lines, sizes asked for and numbers of sub-partitions.                *)
(*                                                                         *)
(* The session (Shell): the context agrees with the driver about what is   *)
(* mounted and where it is, a command changes what its arguments name from *)
(* the directory the prompt shows, and "cd .." reaches the parent.         *)
(* mkpart (Mkpart): it never exceeds what was asked for and loses nothing. *)
(* parse_line (ParseLine): its tokens are the tokens of the line.          *)
(***************************************************************************)
EXTENDS Shell, Mkpart, ParseLine, CommonLemmas, SequenceTheorems, TLAPS

Kinds == {"none", "raw", "pfs"}

(* What is on pfs0: is a partition, or nothing.                              *)
ContextInv ==
    /\ kind \in [Parts -> Kinds]
    /\ unit \in Parts \cup {NoPart}
    /\ mount \in BOOLEAN
    /\ ContextMatchesDriver

(* Every filesystem has its root, and once chdir has accepted the path, it   *)
(* names the driver's working directory.                                     *)
PlacesInv ==
    /\ path \in Seq(Components)
    /\ dirs \in [Parts -> SUBSET Seq(Names)]
    /\ files \in [Parts -> SUBSET Seq(Names)]
    /\ \A p \in Parts : <<>> \in dirs[p]
    /\ PathNamesDirectory

(* A command that needs a mounted partition, or none, runs with what it      *)
(* needs.                                                                    *)
LEMMA Required ==
    /\ \A c \in {"initialize", "mount", "usage"} : Command(c) => ~mount
    /\ \A c \in {"umount", "cd", "mkdir", "rmdir", "put", "rm"} : Command(c) => mount
BY DEF Command, check_requirements, Requirements

(* ContextInv holds initially and every step of the shell keeps it.          *)
LEMMA ContextInductive ==
    /\ Init => ContextInv
    /\ ContextInv /\ [Next]_vars => ContextInv'
<1> USE ShellAssumption
<1>1. Init => ContextInv
  <2> SUFFICES ASSUME Init
               PROVE  ContextInv
    OBVIOUS
  <2>1. kind \in [Parts -> Kinds]
    BY DEF Init, Kinds
  <2>2. unit = NoPart /\ ~mount /\ mount \in BOOLEAN
    BY Zenon DEF Init
  <2> QED
    BY <2>1, <2>2, Zenon DEF ContextInv, ContextMatchesDriver
<1>2. ContextInv /\ [Next]_vars => ContextInv'
  <2> SUFFICES ASSUME ContextInv, [Next]_vars
               PROVE  ContextInv'
    OBVIOUS
  <2>0. /\ kind \in [Parts -> Kinds] /\ unit \in Parts \cup {NoPart} /\ mount \in BOOLEAN
        /\ mount <=> unit # NoPart
        /\ mount => mount_point = unit /\ kind[unit] = "pfs"
    BY DEF ContextInv, ContextMatchesDriver
  <2>1. ASSUME UNCHANGED <<mount, mount_point, unit>>, kind' \in [Parts -> Kinds],
               mount => kind'[unit] = kind[unit]
        PROVE  ContextInv'
    BY <2>0, <2>1 DEF ContextInv, ContextMatchesDriver
  <2>2. ASSUME UNCHANGED <<mount, mount_point, unit, kind>>
        PROVE  ContextInv'
    BY <2>0, <2>1, <2>2
  <2>3. ASSUME mount' = FALSE, unit' = NoPart, kind' = kind
        PROVE  ContextInv'
    BY <2>0, <2>3 DEF ContextInv, ContextMatchesDriver
  <2>4. ASSUME NEW p \in Parts, NEW k \in Kinds, SetPart(p, k),
               UNCHANGED <<mount, mount_point, unit>>, unit # p
        PROVE  ContextInv'
    <3>1. kind' \in [Parts -> Kinds] /\ (unit \in Parts => kind'[unit] = kind[unit])
      BY <2>0, <2>4 DEF SetPart
    <3> QED
      BY <2>0, <2>1, <2>4, <3>1
  <2>5. CASE do_device
    BY <2>2, <2>5 DEF do_device, disk, driver
  <2>6. CASE do_initialize
    <3>1. ~mount
      BY <2>6, Required DEF do_initialize
    <3>2. kind' = kind \/ kind' \in [Parts -> Kinds]
      BY <2>6 DEF do_initialize, Formatted, disk, Kinds
    <3>3. UNCHANGED <<mount, mount_point, unit>>
      BY <2>6 DEF do_initialize, context, driver
    <3> QED
      BY <2>0, <2>1, <3>1, <3>2, <3>3
  <2>7. CASE do_umount
    BY <2>2, <2>3, <2>7 DEF do_umount, disk, driver
  <2>8. CASE shell_exit
    BY <2>2, <2>3, <2>8 DEF shell_exit, disk, driver
  <2>9. ASSUME NEW p \in Parts, do_mkpart(p)
        PROVE  ContextInv'
    <3>1. UNCHANGED <<mount, mount_point, unit>>
      BY <2>9 DEF do_mkpart, context, driver
    <3>2. CASE UNCHANGED disk
      BY <2>2, <3>1, <3>2 DEF disk
    <3>3. ASSUME kind[p] = "none", NEW k \in {"raw", "pfs"}, SetPart(p, k)
          PROVE  ContextInv'
      <4>1. k \in Kinds
        BY DEF Kinds
      <4>2. CASE unit = p
        <5>1. mount
          BY <2>0, <4>2
        <5> QED
          BY <2>0, <3>3, <4>2, <5>1
      <4>3. CASE unit # p
        BY <2>4, <3>1, <3>3, <4>1, <4>3
      <4> QED
        BY <4>2, <4>3
    <3> QED
      BY <2>9, <3>2, <3>3 DEF do_mkpart
  <2>10. ASSUME NEW p \in Parts, do_rmpart(p)
         PROVE  ContextInv'
    <3>1. UNCHANGED <<mount, mount_point, unit>>
      BY <2>10 DEF do_rmpart, context, driver
    <3>2. CASE UNCHANGED disk
      BY <2>2, <3>1, <3>2 DEF disk
    <3>3. "none" \in Kinds
      BY DEF Kinds
    <3> QED
      BY <2>4, <2>10, <3>1, <3>2, <3>3 DEF do_rmpart
  <2>11. ASSUME NEW p \in Parts, do_mount(p)
         PROVE  ContextInv'
    <3>1. ~mount /\ kind' = kind
      BY <2>11, Required DEF do_mount, disk
    <3>2. CASE UNCHANGED <<mount, settled, driver>>
      BY <2>0, <3>1, <3>2 DEF driver, ContextInv, ContextMatchesDriver
    <3>3. CASE kind[p] = "pfs" /\ unit' = p /\ mount' = TRUE
      BY <2>0, <2>11, <3>1, <3>3 DEF do_mount, ContextInv, ContextMatchesDriver
    <3> QED
      BY <2>11, <3>2, <3>3 DEF do_mount
  <2>12. ASSUME NEW p \in Parts, NEW q \in Parts, RenamePartition(p, q)
         PROVE  ContextInv'
    <3>1. ~mount /\ UNCHANGED <<mount, mount_point, unit>>
      BY <2>12 DEF RenamePartition, context, driver
    <3>2. kind' \in [Parts -> Kinds]
      <4>1. "none" \in Kinds
        BY DEF Kinds
      <4> QED
        BY <2>0, <2>12, <4>1 DEF RenamePartition, disk
    <3> QED
      BY <2>1, <3>1, <3>2
  <2>13. ASSUME NEW arg \in CdArgs, do_cd(arg)
         PROVE  ContextInv'
    <3>1. UNCHANGED <<mount, mount_point, unit, kind>>
      BY <2>13 DEF do_cd, disk, driver
    <3> QED
      BY <2>2, <3>1
  <2>14. ASSUME NEW c, NEW a, NEW named, NEW possible, NEW nd, NEW nf, NEW nc,
                Change(c, a, named, possible, nd, nf, nc)
         PROVE  ContextInv'
    <3>1. UNCHANGED <<mount, mount_point, unit, kind>>
      BY <2>14 DEF Change
    <3> QED
      BY <2>2, <3>1
  <2>15. ASSUME NEW a \in Arguments, do_mkdir(a) \/ do_rmdir(a) \/ do_put(a) \/ do_rm(a)
         PROVE  ContextInv'
    BY <2>14, <2>15, Zenon DEF do_mkdir, do_rmdir, do_put, do_rm
  <2>16. ASSUME NEW a \in Arguments, NEW to \in Destinations, RenameEntry(a, to)
         PROVE  ContextInv'
    BY <2>14, <2>16, Zenon DEF RenameEntry
  <2>17. ASSUME UNCHANGED <<context, disk, driver>>
         PROVE  ContextInv'
    BY <2>2, <2>17 DEF context, disk, driver
  <2>18. ASSUME NEW c, ReadOnly(c) \/ Refused(c) \/ ChangeFails(c)
         PROVE  ContextInv'
    BY <2>17, <2>18 DEF ReadOnly, Refused, ChangeFails
  <2>19. CASE UNCHANGED vars
    BY <2>17, <2>19 DEF vars
  <2> QED
    BY <2>5, <2>6, <2>7, <2>8, <2>9, <2>10, <2>11, <2>12, <2>13, <2>15, <2>16, <2>18, <2>19,
       Zenon DEF Next
<1> QED
  BY <1>1, <1>2

(* The context never disagrees with the driver about what is mounted.        *)
THEOREM ContextSafe == Spec => []ContextMatchesDriver
<1>1. ContextInv => ContextMatchesDriver
  BY DEF ContextInv
<1> QED
  BY <1>1, ContextInductive, PTL DEF Spec

(* A path without its last component is a path.                              *)
LEMMA FrontOf ==
    ASSUME NEW S, NEW s \in Seq(S), s # <<>>
    PROVE  Front(s) \in Seq(S)
<1>1. Len(s) - 1 \in Nat /\ Len(s) - 1 <= Len(s)
  OBVIOUS
<1>2. SubSeq(s, 1, Len(s) - 1) \in Seq(S)
  BY <1>1
<1> QED
  BY <1>2 DEF Front

(* A component leads from a directory to a directory.                        *)
LEMMA StepOf ==
    ASSUME NEW d \in Seq(Names), NEW c \in Components
    PROVE  Step(d, c) \in Seq(Names)
<1>1. CASE c = Blank
  BY <1>1 DEF Step
<1>2. CASE c # Blank /\ c = Up
  BY <1>2, FrontOf DEF Step
<1>3. CASE c # Blank /\ c # Up
  BY <1>3 DEF Step, Components
<1> QED
  BY <1>1, <1>2, <1>3

(* The equation by which Walk is defined has its solution among the          *)
(* sequences of directories.                                                 *)
LEMMA WalkOf ==
    ASSUME NEW base \in Seq(Names), NEW p \in Seq(Components)
    PROVE  /\ Walk(base, p) \in [0 .. Len(p) -> Seq(Names)]
           /\ Walk(base, p)[0] = base
           /\ \A q \in 1 .. Len(p) : Walk(base, p)[q] = Step(Walk(base, p)[q - 1], p[q])
<1> DEFINE m == Len(p)
           V == Seq(Names)
           next(q, d) == IF q \in 1 .. m THEN Step(d, p[q]) ELSE d
           g == [q \in Nat |-> [d \in V |-> next(q, d)]]
           Eq(h) == h = [q \in 0 .. m |-> IF q = 0 THEN base ELSE Step(h[q - 1], p[q])]
<1>1. m \in Nat /\ base \in V /\ \A q \in 1 .. m : p[q] \in Components
  OBVIOUS
<1>2. \A q \in Nat, d \in V : next(q, d) \in V
  BY <1>1, StepOf
<1>3. g \in [Nat -> [V -> V]]
  <2> HIDE DEF V, next
  <2> QED
    BY <1>2
<1>4. PICK h \in [0 .. m -> V] : Follows(h, base, g, m)
  <2> HIDE DEF V, g, m
  <2> QED
    BY <1>1, <1>3, Recursion
<1> HIDE DEF m, V
<1>5. \A q \in 1 .. m : g[q][h[q - 1]] = Step(h[q - 1], p[q])
  <2> SUFFICES ASSUME NEW q \in 1 .. m
               PROVE  g[q][h[q - 1]] = Step(h[q - 1], p[q])
    OBVIOUS
  <2>1. h[q - 1] \in V /\ q \in Nat
    BY <1>1
  <2>2. g[q][h[q - 1]] = next(q, h[q - 1])
    BY <2>1
  <2> QED
    BY <2>2
<1>6. Eq(h)
  <2>1. h[0] = base
    BY <1>4 DEF Follows
  <2>2. \A q \in 1 .. m : h[q] = Step(h[q - 1], p[q])
    <3> HIDE DEF g
    <3> QED
      BY <1>4, <1>5 DEF Follows
  <2>3. \A q \in 0 .. m : h[q] = IF q = 0 THEN base ELSE Step(h[q - 1], p[q])
    BY <1>1, <2>1, <2>2
  <2> QED
    BY <2>3
<1>7. Walk(base, p) = CHOOSE x : Eq(x)
  BY DEF Walk, m
<1>8. Eq(Walk(base, p))
  <2> HIDE DEF Eq
  <2> QED
    BY <1>6, <1>7
<1> DEFINE at == Walk(base, p)
           T == {q \in 0 .. m : at[q] \notin V}
<1> HIDE DEF at
<1>9. /\ DOMAIN at = 0 .. m /\ at[0] = base
      /\ \A q \in 1 .. m : at[q] = Step(at[q - 1], p[q])
  BY <1>1, <1>8 DEF at
<1>10. T = {}
  <2> SUFFICES ASSUME T # {}
               PROVE  FALSE
    OBVIOUS
  <2>1. T \subseteq Nat
    BY <1>1
  <2>2. PICK q \in T : \A r \in T : q <= r
    <3> HIDE DEF T
    <3> QED
      BY <2>1, LeastNumber
  <2>3. q \in 1 .. m /\ q - 1 \in 0 .. m /\ at[q - 1] \in V
    BY <1>1, <1>9, <2>2
  <2>4. at[q] \in V
    <3>1. p[q] \in Components /\ at[q] = Step(at[q - 1], p[q])
      BY <1>1, <1>9, <2>3
    <3> QED
      BY <2>3, <3>1, StepOf DEF V
  <2> QED
    BY <2>2, <2>4
<1>11. at \in [0 .. m -> V]
  BY <1>8, <1>9, <1>10 DEF at
<1> QED
  BY <1>9, <1>11 DEF at, m, V

(* A path leads from a directory to a directory, and a path of names only    *)
(* below it, to what its names say.                                          *)
LEMMA FromOf ==
    /\ \A d \in Seq(Names), p \in Seq(Components) : From(d, p) \in Seq(Names)
    /\ \A d \in Seq(Names), p \in Seq(Names) : From(d, p) = d \o p
<1>1. ASSUME NEW d \in Seq(Names), NEW p \in Seq(Components)
      PROVE  From(d, p) \in Seq(Names)
  <2>1. Len(p) \in 0 .. Len(p)
    OBVIOUS
  <2> QED
    BY <2>1, WalkOf DEF From
<1>2. ASSUME NEW d \in Seq(Names), NEW p \in Seq(Names)
      PROVE  From(d, p) = d \o p
  <2>1. p \in Seq(Components)
    BY DEF Components
  <2> DEFINE at == Walk(d, p)
             m == Len(p)
             T == {n \in 0 .. m : at[n] # d \o SubSeq(p, 1, n)}
  <2>2. /\ at \in [0 .. m -> Seq(Names)] /\ at[0] = d
        /\ \A q \in 1 .. m : at[q] = Step(at[q - 1], p[q])
    BY <2>1, WalkOf
  <2>3. m \in Nat
    OBVIOUS
  <2> HIDE DEF at
  <2>4. T = {}
    <3> SUFFICES ASSUME T # {}
                 PROVE  FALSE
      OBVIOUS
    <3>1. T \subseteq Nat
      OBVIOUS
    <3>2. PICK n \in T : \A k \in T : n <= k
      <4> HIDE DEF T
      <4> QED
        BY <3>1, LeastNumber
    <3>3. SubSeq(p, 1, 0) = <<>> /\ d \o <<>> = d
      OBVIOUS
    <3>4. n \in 1 .. m /\ n - 1 \in 0 .. m /\ at[n - 1] = d \o SubSeq(p, 1, n - 1)
      <4>1. n \in 0 .. m /\ at[n] # d \o SubSeq(p, 1, n)
        BY <3>2
      <4>2. n # 0
        BY <2>2, <3>3, <4>1
      <4>3. n \in 1 .. m /\ n - 1 \in 0 .. m /\ ~(n <= n - 1)
        BY <2>3, <4>1, <4>2
      <4>4. n - 1 \notin T
        <5> HIDE DEF T
        <5> QED
          BY <3>2, <4>3
      <4> QED
        BY <4>3, <4>4
    <3>5. p[n] \in Names /\ p[n] # Up /\ p[n] # Blank
      <4>1. p[n] \in Names
        BY <3>4
      <4> QED
        BY <4>1, ShellAssumption, Zenon DEF Up, Blank
    <3>6. at[n] = Append(d \o SubSeq(p, 1, n - 1), p[n])
      BY <2>2, <3>4, <3>5 DEF Step
    <3>7. Append(SubSeq(p, 1, n - 1), p[n]) = SubSeq(p, 1, n)
      BY <3>4
    <3>8. ASSUME NEW u \in Seq(Names), NEW x \in Names
          PROVE  Append(d \o u, x) = d \o Append(u, x)
      <4> DEFINE l == Append(d \o u, x)
                 t == d \o Append(u, x)
      <4>1. l \in Seq(Names) /\ t \in Seq(Names) /\ Len(d) \in Nat /\ Len(u) \in Nat
        OBVIOUS
      <4>2. Len(l) = Len(d) + Len(u) + 1 /\ Len(t) = Len(d) + Len(u) + 1
        OBVIOUS
      <4>3. ASSUME NEW k \in 1 .. Len(d) + Len(u) + 1
            PROVE  l[k] = t[k]
        <5>1. CASE k <= Len(d)
          BY <5>1
        <5>2. CASE k > Len(d) /\ k <= Len(d) + Len(u)
          BY <5>2
        <5>3. CASE k = Len(d) + Len(u) + 1
          BY <5>3
        <5> QED
          BY <5>1, <5>2, <5>3
      <4> HIDE DEF l, t
      <4>4. l = t
        BY <4>1, <4>2, <4>3, SeqEqual
      <4> QED
        BY <4>4 DEF l, t
    <3>9. SubSeq(p, 1, n - 1) \in Seq(Names)
      BY <3>4
    <3> QED
      BY <3>2, <3>5, <3>6, <3>7, <3>8, <3>9
  <2>5. at[m] = d \o SubSeq(p, 1, m)
    BY <2>3, <2>4
  <2>6. SubSeq(p, 1, m) = p
    OBVIOUS
  <2> QED
    BY <2>5, <2>6 DEF at, From
<1> QED
  BY <1>1, <1>2

(* A path leads to a directory; the empty path to the root, and a path of    *)
(* names only to itself.                                                     *)
LEMMA ResolveOf ==
    /\ \A p \in Seq(Components) : Resolve(p) \in Seq(Names)
    /\ Resolve(<<>>) = <<>>
    /\ \A p \in Seq(Names) : Resolve(p) = p
<1>1. <<>> \in Seq(Names) /\ \A p \in Seq(Names) : <<>> \o p = p
  OBVIOUS
<1> QED
  BY <1>1, FromOf DEF Resolve

(* The bounded sequences that are paths and directories are sequences.       *)
LEMMA PathsOf ==
    /\ Texts \subseteq Seq(Components) /\ Dirs \subseteq Seq(Names)
    /\ Arguments \subseteq Seq(Components)
<1>1. ASSUME NEW S, NEW max \in {MaxPath, MaxArg}, NEW s \in BoundedSeq(S, max)
      PROVE  s \in Seq(S)
  <2>1. PICK k \in 0 .. max : s \in [1 .. k -> S]
    BY Zenon DEF BoundedSeq, SeqOf
  <2>2. max \in Nat
    BY ShellAssumption
  <2>3. k \in Nat
    BY <2>1, <2>2
  <2> QED
    BY <2>1, <2>3
<1>2. Texts \subseteq Seq(Components) /\ Dirs \subseteq Seq(Names)
  BY <1>1 DEF Texts, Dirs
<1>3. Arguments \subseteq Seq(Names \cup {Up})
  BY <1>1 DEF Arguments
<1>4. Seq(Names \cup {Up}) \subseteq Seq(Components)
  BY DEF Components
<1> QED
  BY <1>2, <1>3, <1>4

(* What do_cd makes of its argument is a path again.                         *)
LEMMA CdPathOf ==
    ASSUME NEW arg \in CdArgs, path \in Seq(Components)
    PROVE  cd_path(arg) \in Seq(Components)
<1>1. CASE arg[1] = "parent"
  <2>1. path # <<>> => Front(path) \in Seq(Components)
    BY FrontOf
  <2> QED
    BY <1>1, <2>1 DEF cd_path
<1>2. CASE arg[1] # "parent"
  <2>1. arg \in {"abs"} \X Texts \/ arg \in {"rel"} \X Texts
    BY <1>2 DEF CdArgs
  <2>2. arg[2] \in Seq(Components) /\ arg[1] \in {"abs", "rel"}
    BY <2>1, PathsOf
  <2>3. path \o arg[2] \in Seq(Components)
    BY <2>2
  <2> QED
    BY <1>2, <2>2, <2>3 DEF cd_path
<1> QED
  BY <1>1, <1>2

(* A move changes the place of the entries at and below the one that moves,  *)
(* and of no other.                                                          *)
LEMMA MovedOf ==
    ASSUME NEW S \in SUBSET Seq(Names), NEW from \in Seq(Names), NEW to \in Seq(Names)
    PROVE  /\ Moved(S, from, to) \in SUBSET Seq(Names)
           /\ \A e \in S : e # from /\ ~Below(from, e) => e \in Moved(S, from, to)
           /\ \A e \in Moved(S, from, to) :
                 \/ e \in S /\ e # from /\ ~Below(from, e)
                 \/ \E t \in Seq(Names) : e = to \o t
<1>1. ASSUME NEW e \in S
      PROVE  e = from \/ Below(from, e) => SubSeq(e, Len(from) + 1, Len(e)) \in Seq(Names)
  <2>1. e \in Seq(Names) /\ Len(from) + 1 \in Nat /\ Len(from) + 1 >= 1 /\ Len(e) \in Nat
    OBVIOUS
  <2> QED
    BY <2>1
<1>2. ASSUME NEW e \in Moved(S, from, to)
      PROVE  \/ e \in S /\ e # from /\ ~Below(from, e)
             \/ \E t \in Seq(Names) : e = to \o t
  <2>1. PICK d \in S : e = IF d = from \/ Below(from, d)
                           THEN to \o SubSeq(d, Len(from) + 1, Len(d)) ELSE d
    BY Zenon DEF Moved, Rebased
  <2>2. CASE d = from \/ Below(from, d)
    BY <1>1, <2>1, <2>2
  <2>3. CASE ~(d = from \/ Below(from, d))
    BY <2>1, <2>3
  <2> QED
    BY <2>2, <2>3
<1>3. ASSUME NEW e \in S, e # from, ~Below(from, e)
      PROVE  e \in Moved(S, from, to)
  BY <1>3, Zenon DEF Moved, Rebased
<1>4. \A t \in Seq(Names) : to \o t \in Seq(Names)
  OBVIOUS
<1> QED
  BY <1>2, <1>3, <1>4

(* The directory a command works in, and what an argument names from there:  *)
(* a place of the disk, below that directory if the argument is of names.    *)
LEMMA Targets ==
    ASSUME path \in Seq(Components), NEW a \in Arguments
    PROVE  /\ Resolve(path) \in Seq(Names) /\ Target(a) \in Seq(Names)
           /\ a \in Seq(Names) \ {<<>>} => Len(Target(a)) > Len(Resolve(path))
<1>1. Resolve(path) \in Seq(Names) /\ a \in Seq(Components)
  BY ResolveOf, PathsOf
<1>2. Target(a) \in Seq(Names)
  BY <1>1, FromOf DEF Target
<1>3. ASSUME a \in Seq(Names), a # <<>>
      PROVE  Len(Target(a)) > Len(Resolve(path))
  <2> DEFINE d == Resolve(path)
  <2> HIDE DEF d
  <2>1. d \in Seq(Names) /\ Target(a) = d \o a
    BY <1>1, <1>3, FromOf DEF Target, d
  <2>2. Len(d \o a) > Len(d)
    BY <1>3, <2>1
  <2> QED
    BY <2>1, <2>2 DEF d
<1> QED
  BY <1>1, <1>2, <1>3

(* A directory that a move leaves where it was is not at or below the entry  *)
(* that moves.                                                               *)
LEMMA RebasedOf ==
    ASSUME NEW e \in Seq(Names), NEW from \in Seq(Names), NEW to \in Seq(Names),
           from # to, Rebased(e, from, to) = e
    PROVE  e # from /\ ~Below(from, e)
<1> SUFFICES ASSUME e = from \/ Below(from, e)
             PROVE  FALSE
  OBVIOUS
<1> DEFINE rest == SubSeq(e, Len(from) + 1, Len(e))
<1>1. /\ Len(from) \in Nat /\ Len(e) \in Nat /\ Len(to) \in Nat /\ Len(from) <= Len(e)
      /\ SubSeq(e, 1, Len(from)) = from
  BY DEF Below
<1>2. e = to \o rest
  BY DEF Rebased
<1>3. rest \in Seq(Names) /\ Len(rest) = Len(e) - Len(from)
  BY <1>1
<1> HIDE DEF rest
<1>4. Len(e) = Len(to) + Len(rest)
  BY <1>2, <1>3, ConcatProperties
<1>5. Len(to) = Len(from)
  BY <1>1, <1>3, <1>4
<1>6. SubSeq(to \o rest, 1, Len(to)) = to
  BY <1>3
<1> QED
  BY <1>1, <1>2, <1>5, <1>6

(* PlacesInv holds initially and every step of the shell keeps it.           *)
LEMMA PlacesInductive ==
    /\ Init => PlacesInv
    /\ ContextInv /\ PlacesInv /\ [Next]_vars => PlacesInv'
<1>1. Init => PlacesInv
  <2> SUFFICES ASSUME Init
               PROVE  PlacesInv
    OBVIOUS
  <2>1. path = <<>> /\ cwd = <<>> /\ ~mount
    BY Zenon DEF Init
  <2>2. /\ dirs \in [Parts -> SUBSET Seq(Names)] /\ files \in [Parts -> SUBSET Seq(Names)]
        /\ \A p \in Parts : <<>> \in dirs[p]
    <3>1. dirs = [p \in Parts |-> {<<>>}] /\ files = [p \in Parts |-> {}]
      BY Zenon DEF Init, Empty
    <3>2. <<>> \in Seq(Names)
      OBVIOUS
    <3> QED
      BY <3>1, <3>2
  <2> QED
    BY <2>1, <2>2 DEF PlacesInv, PathNamesDirectory
<1>2. ContextInv /\ PlacesInv /\ [Next]_vars => PlacesInv'
  <2> SUFFICES ASSUME ContextInv, PlacesInv, [Next]_vars
               PROVE  PlacesInv'
    OBVIOUS
  <2>0. /\ unit \in Parts \cup {NoPart} /\ mount \in BOOLEAN
        /\ mount => unit \in Parts /\ kind[unit] = "pfs"
    BY ShellAssumption DEF ContextInv, ContextMatchesDriver
  <2>a. /\ path \in Seq(Components)
        /\ dirs \in [Parts -> SUBSET Seq(Names)] /\ files \in [Parts -> SUBSET Seq(Names)]
        /\ \A p \in Parts : <<>> \in dirs[p]
        /\ mount /\ settled => Resolve(path) = cwd /\ cwd \in dirs[unit]
    BY DEF PlacesInv, PathNamesDirectory
  <2>1. ASSUME UNCHANGED <<mount, settled, path, unit, cwd>>,
               dirs' \in [Parts -> SUBSET Seq(Names)], files' \in [Parts -> SUBSET Seq(Names)],
               \A p \in Parts : <<>> \in dirs'[p],
               mount /\ settled => cwd \in dirs'[unit]
        PROVE  PlacesInv'
    <3>1. Resolve(path)' = Resolve(path)
      BY <2>1 DEF Resolve, From, Walk
    <3> QED
      BY <2>0, <2>a, <2>1, <3>1 DEF PlacesInv, PathNamesDirectory
  <2>2. ASSUME UNCHANGED <<mount, settled, path, unit, cwd, dirs, files>>
        PROVE  PlacesInv'
    BY <2>a, <2>1, <2>2
  <2>3. ASSUME mount' = FALSE, cwd' = <<>>, UNCHANGED <<path, dirs, files>>
        PROVE  PlacesInv'
    BY <2>a, <2>3 DEF PlacesInv, PathNamesDirectory
  <2>4. ASSUME NEW p \in Parts, NEW k, SetPart(p, k), mount => unit # p,
               UNCHANGED <<mount, settled, path, unit, cwd>>
        PROVE  PlacesInv'
    <3>1. /\ dirs' = [dirs EXCEPT ![p] = {<<>>}] /\ files' = [files EXCEPT ![p] = {}]
      BY <2>4 DEF SetPart, Empty
    <3>2. /\ dirs' \in [Parts -> SUBSET Seq(Names)] /\ files' \in [Parts -> SUBSET Seq(Names)]
          /\ \A q \in Parts : <<>> \in dirs'[q]
      BY <2>a, <3>1
    <3>3. mount => dirs'[unit] = dirs[unit]
      BY <2>0, <2>a, <2>4, <3>1
    <3> QED
      BY <2>a, <2>1, <2>4, <3>2, <3>3
  <2>5. CASE do_device
    BY <2>2, <2>5 DEF do_device, disk, driver
  <2>6. CASE do_initialize
    <3>1. ~mount /\ UNCHANGED <<mount, settled, path, unit, cwd>>
      BY <2>6, Required DEF do_initialize, context, driver
    <3>2. /\ dirs' \in [Parts -> SUBSET Seq(Names)] /\ files' \in [Parts -> SUBSET Seq(Names)]
          /\ \A q \in Parts : <<>> \in dirs'[q]
      <4>1. CASE UNCHANGED disk
        BY <2>a, <4>1 DEF disk
      <4>2. CASE dirs' = [p \in Parts |-> Empty] /\ files' = [p \in Parts |-> {}]
        BY <4>2 DEF Empty
      <4> QED
        BY <2>6, <4>1, <4>2 DEF do_initialize, Formatted
    <3> QED
      BY <2>1, <3>1, <3>2
  <2>7. CASE do_umount
    BY <2>2, <2>3, <2>7 DEF do_umount, disk, driver
  <2>8. CASE shell_exit
    BY <2>2, <2>3, <2>8 DEF shell_exit, disk, driver
  <2>9. ASSUME NEW p \in Parts, do_mkpart(p)
        PROVE  PlacesInv'
    <3>1. UNCHANGED <<mount, settled, path, unit, cwd>>
      BY <2>9 DEF do_mkpart, context, driver
    <3>2. CASE UNCHANGED disk
      BY <2>2, <3>1, <3>2 DEF disk
    <3>3. ASSUME kind[p] = "none", NEW k, SetPart(p, k)
          PROVE  PlacesInv'
      <4>1. mount => unit # p
        BY <2>0, <3>3
      <4> QED
        BY <2>4, <3>1, <3>3, <4>1
    <3> QED
      BY <2>9, <3>2, <3>3 DEF do_mkpart
  <2>10. ASSUME NEW p \in Parts, do_rmpart(p)
         PROVE  PlacesInv'
    <3>1. UNCHANGED <<mount, settled, path, unit, cwd>>
      BY <2>10 DEF do_rmpart, context, driver
    <3>2. CASE UNCHANGED disk
      BY <2>2, <3>1, <3>2 DEF disk
    <3> QED
      BY <2>4, <2>10, <3>1, <3>2 DEF do_rmpart
  <2>11. ASSUME NEW p \in Parts, do_mount(p)
         PROVE  PlacesInv'
    <3>1. ~mount /\ UNCHANGED <<path, dirs, files>>
      BY <2>11, Required DEF do_mount, disk
    <3>2. CASE UNCHANGED <<mount, settled, driver>>
      BY <2>2, <3>1, <3>2 DEF driver
    <3>3. CASE unit' = p /\ cwd' = <<>> /\ settled' = (path = <<>>)
      <4>1. settled' => Resolve(path)' = cwd' /\ cwd' \in (dirs[unit])'
        <5>1. settled' => path' = <<>>
          BY <3>1, <3>3
        <5>2. path' = <<>> => Resolve(path') = <<>>
          BY ResolveOf
        <5>3. dirs'[unit'] = dirs[p] /\ <<>> \in dirs[p]
          BY <2>a, <3>1, <3>3
        <5> QED
          BY <3>3, <5>1, <5>2, <5>3 DEF Resolve, From, Walk
      <4> QED
        BY <2>a, <3>1, <3>3, <4>1 DEF PlacesInv, PathNamesDirectory
    <3> QED
      BY <2>11, <3>2, <3>3 DEF do_mount
  <2>12. ASSUME NEW p \in Parts, NEW q \in Parts, RenamePartition(p, q)
         PROVE  PlacesInv'
    <3>1. ~mount /\ UNCHANGED <<mount, settled, path, unit, cwd>>
      BY <2>12 DEF RenamePartition, context, driver
    <3>2. /\ dirs' \in [Parts -> SUBSET Seq(Names)] /\ files' \in [Parts -> SUBSET Seq(Names)]
          /\ \A r \in Parts : <<>> \in dirs'[r]
      <4>1. CASE UNCHANGED disk
        BY <2>a, <4>1 DEF disk
      <4>2. CASE /\ dirs' = [dirs EXCEPT ![q] = dirs[p], ![p] = Empty]
                 /\ files' = [files EXCEPT ![q] = files[p], ![p] = {}]
        BY <2>a, <4>2 DEF Empty
      <4> QED
        BY <2>12, <4>1, <4>2 DEF RenamePartition
    <3> QED
      BY <2>1, <3>1, <3>2
  <2>13. ASSUME NEW arg \in CdArgs, do_cd(arg)
         PROVE  PlacesInv'
    <3>1. UNCHANGED <<mount, dirs, files, unit>>
      BY <2>13 DEF do_cd, disk, driver
    <3>2. CASE UNCHANGED <<path, settled, driver>>
      BY <2>2, <3>1, <3>2 DEF driver
    <3>3. CASE /\ IsDirectory(cd_path(arg)) /\ path' = cd_path(arg)
               /\ cwd' = Resolve(path')
      <4>1. path' \in Seq(Components)
        BY <2>a, <3>3, CdPathOf
      <4>2. Resolve(path') \in Seq(Names) /\ Len(path') \in 0 .. Len(path')
        BY <4>1, ResolveOf
      <4>3. Resolve(path') \in dirs[unit]
        BY <3>3, <4>2 DEF IsDirectory, Resolve, From
      <4>4. Resolve(path)' = Resolve(path')
        BY DEF Resolve, From, Walk
      <4> QED
        BY <2>a, <3>1, <3>3, <4>1, <4>2, <4>3, <4>4 DEF PlacesInv, PathNamesDirectory
    <3> QED
      BY <2>13, <3>2, <3>3 DEF do_cd
  <2>14. ASSUME NEW c, NEW a, NEW named, NEW possible, NEW nd, NEW nf, NEW nc,
                Change(c, a, named, possible, nd, nf, nc), mount,
                nd \in SUBSET Seq(Names), nf \in SUBSET Seq(Names), <<>> \in nd,
                /\ Resolve(path) = cwd /\ cwd \in dirs[unit]
                /\ nc = cwd \/ a \in Seq(Names) \ {<<>>}
                => nc = cwd /\ cwd \in nd
         PROVE  PlacesInv'
    <3>1. UNCHANGED <<mount, path, unit>> /\ unit \in Parts /\ cwd' = nc
      BY <2>0, <2>14 DEF Change
    <3>2. dirs' = [dirs EXCEPT ![unit] = nd] /\ files' = [files EXCEPT ![unit] = nf]
      BY <2>14 DEF Change
    <3>3. settled' => settled /\ (nc = cwd \/ a \in Seq(Names) \ {<<>>})
      BY <2>14, Zenon DEF Change
    <3>4. /\ dirs' \in [Parts -> SUBSET Seq(Names)] /\ files' \in [Parts -> SUBSET Seq(Names)]
          /\ \A r \in Parts : <<>> \in dirs'[r]
          /\ dirs'[unit] = nd
      BY <2>a, <2>14, <3>1, <3>2
    <3>5. settled' => Resolve(path) = cwd /\ nc = cwd /\ cwd \in nd
      BY <2>a, <2>14, <3>3, Zenon
    <3>6. Resolve(path)' = Resolve(path)
      BY <3>1 DEF Resolve, From, Walk
    <3> QED
      BY <2>a, <3>1, <3>4, <3>5, <3>6 DEF PlacesInv, PathNamesDirectory
  <2>15. ASSUME mount
         PROVE  dirs[unit] \in SUBSET Seq(Names) /\ files[unit] \in SUBSET Seq(Names)
                  /\ <<>> \in dirs[unit]
    BY <2>0, <2>a, <2>15
  <2>16. ASSUME NEW a \in Arguments, do_mkdir(a)
         PROVE  PlacesInv'
    <3>1. mount /\ Target(a) \in Seq(Names)
      BY <2>a, <2>16, Required, Targets DEF do_mkdir, Change
    <3>2. /\ dirs[unit] \cup {Target(a)} \in SUBSET Seq(Names) /\ files[unit] \in SUBSET Seq(Names)
          /\ <<>> \in dirs[unit] \cup {Target(a)}
      BY <2>15, <3>1
    <3> QED
      BY <2>14, <2>16, <3>1, <3>2, Zenon DEF do_mkdir
  <2>17. ASSUME NEW a \in Arguments, do_rmdir(a)
         PROVE  PlacesInv'
    <3> DEFINE nc == IF Target(a) = cwd THEN Removed ELSE cwd
    <3>1. /\ mount /\ Target(a) # <<>>
          /\ a \in Seq(Names) \ {<<>>} => Len(Target(a)) > Len(Resolve(path))
          /\ Resolve(path) \in Seq(Names)
      BY <2>a, <2>17, Required, Targets DEF do_rmdir, Change, Empty
    <3>2. /\ dirs[unit] \ {Target(a)} \in SUBSET Seq(Names) /\ files[unit] \in SUBSET Seq(Names)
          /\ <<>> \in dirs[unit] \ {Target(a)}
      BY <2>15, <3>1
    <3>3. ASSUME Resolve(path) = cwd, cwd \in dirs[unit],
                 nc = cwd \/ a \in Seq(Names) \ {<<>>}
          PROVE  nc = cwd /\ cwd \in dirs[unit] \ {Target(a)}
      <4>1. cwd # Removed
        <5>1. cwd \in Seq(Names) /\ Up \notin Names
          BY <2>15, <3>1, <3>3, ShellAssumption DEF Up
        <5>2. cwd = <<Up>> => cwd[1] \in Names /\ cwd[1] = Up
          BY <5>1
        <5> QED
          BY <5>1, <5>2 DEF Removed
      <4>2. Target(a) # cwd
        <5>1. ASSUME Target(a) = cwd, a \in Seq(Names) \ {<<>>}
              PROVE  FALSE
          <6>1. Len(Resolve(path)) > Len(Resolve(path)) /\ Len(Resolve(path)) \in Nat
            BY <3>1, <3>3, <5>1
          <6> QED
            BY <6>1
        <5> QED
          BY <3>3, <4>1, <5>1
      <4> QED
        BY <3>3, <4>2
    <3> HIDE DEF nc
    <3>4. Change("rmdir", a, {<<"rel", a>>},
                 /\ Target(a) \in dirs[unit] \ Empty
                 /\ \A e \in Entries(unit) : ~Below(Target(a), e),
                 dirs[unit] \ {Target(a)}, files[unit], nc)
      BY <2>17 DEF do_rmdir, nc
    <3> QED
      BY <2>14, <3>1, <3>2, <3>3, <3>4, Zenon
  <2>18. ASSUME NEW a \in Arguments, do_put(a)
         PROVE  PlacesInv'
    <3>1. mount /\ Target(a) \in Seq(Names)
      BY <2>a, <2>18, Required, Targets DEF do_put, Change
    <3>2. files[unit] \cup {Target(a)} \in SUBSET Seq(Names)
      BY <2>15, <3>1
    <3> QED
      BY <2>14, <2>15, <2>18, <3>1, <3>2, Zenon DEF do_put
  <2>19. ASSUME NEW a \in Arguments, do_rm(a)
         PROVE  PlacesInv'
    <3>1. mount
      BY <2>19, Required DEF do_rm, Change
    <3>2. files[unit] \ {Target(a)} \in SUBSET Seq(Names)
      BY <2>15, <3>1
    <3> QED
      BY <2>14, <2>15, <2>19, <3>1, <3>2, Zenon DEF do_rm
  <2>20. ASSUME NEW a \in Arguments, NEW to \in Destinations, RenameEntry(a, to)
         PROVE  PlacesInv'
    <3> DEFINE old == Target(a)
               new == From(Start(to), to[2])
               nc == Rebased(cwd, old, new)
    <3>1. /\ mount /\ old \in Seq(Names) /\ Resolve(path) \in Seq(Names)
          /\ a \in Seq(Names) \ {<<>>} => Len(old) > Len(Resolve(path))
      BY <2>a, <2>20, Targets DEF RenameEntry
    <3>2. Change("rename", a, {<<"rel", a>>, to}, Renamed(old, to, new),
                 Moved(dirs[unit], old, new), Moved(files[unit], old, new), nc)
      BY <2>20 DEF RenameEntry
    <3>3. Renamed(old, to, new)
      BY <3>2, Zenon DEF Change
    <3>4. Start(to) \in Seq(Names) /\ to[2] \in Seq(Components)
      <4>1. Start(to) \in dirs[unit]
        BY <3>3, Zenon DEF Renamed, Reachable
      <4>2. to[2] \in Arguments
        BY DEF Destinations
      <4> QED
        BY <2>15, <3>1, <4>1, <4>2, PathsOf
    <3>5. new \in Seq(Names)
      BY <3>4, FromOf
    <3>6. old # <<>> /\ old # new
      BY <3>3 DEF Renamed, Free, Entries, Empty
    <3> HIDE DEF old, new
    <3>7. ~Below(old, <<>>)
      BY <3>1 DEF Below
    <3>8. /\ Moved(dirs[unit], old, new) \in SUBSET Seq(Names)
          /\ Moved(files[unit], old, new) \in SUBSET Seq(Names)
          /\ <<>> \in Moved(dirs[unit], old, new)
      BY <2>15, <3>1, <3>5, <3>6, <3>7, MovedOf
    <3>9. ASSUME Resolve(path) = cwd, cwd \in dirs[unit],
                 nc = cwd \/ a \in Seq(Names) \ {<<>>}
          PROVE  nc = cwd /\ cwd \in Moved(dirs[unit], old, new)
      <4>1. cwd \in Seq(Names)
        BY <2>15, <3>1, <3>9
      <4>2. cwd # old /\ ~Below(old, cwd)
        <5>1. CASE nc = cwd
          BY <3>1, <3>5, <3>6, <4>1, <5>1, RebasedOf
        <5>2. CASE a \in Seq(Names) \ {<<>>}
          <6>1. Len(old) > Len(cwd) /\ Len(cwd) \in Nat /\ Len(old) \in Nat
            BY <3>1, <3>9, <4>1, <5>2
          <6> QED
            BY <6>1 DEF Below
        <5> QED
          BY <3>9, <5>1, <5>2
      <4>3. nc = cwd
        BY <4>2 DEF Rebased
      <4> QED
        BY <2>15, <3>1, <3>5, <3>9, <4>2, <4>3, MovedOf
    <3> HIDE DEF nc
    <3> QED
      BY <2>14, <3>1, <3>2, <3>8, <3>9, Zenon
  <2>21. ASSUME UNCHANGED <<context, disk, driver>>
         PROVE  PlacesInv'
    BY <2>2, <2>21 DEF context, disk, driver
  <2>22. ASSUME NEW c, ReadOnly(c) \/ Refused(c) \/ ChangeFails(c)
         PROVE  PlacesInv'
    BY <2>21, <2>22 DEF ReadOnly, Refused, ChangeFails
  <2>23. CASE UNCHANGED vars
    BY <2>21, <2>23 DEF vars
  <2> QED
    BY <2>5, <2>6, <2>7, <2>8, <2>9, <2>10, <2>11, <2>12, <2>13, <2>16, <2>17, <2>18, <2>19,
       <2>20, <2>22, <2>23, Zenon DEF Next
<1> QED
  BY <1>1, <1>2

(* Once chdir has accepted the path, its text keeps naming the driver's      *)
(* working directory, which stays where it is.                               *)
THEOREM PathSafe == Spec => []PathNamesDirectory
<1>1. PlacesInv => PathNamesDirectory
  BY DEF PlacesInv
<1> QED
  BY <1>1, ContextInductive, PlacesInductive, PTL DEF Spec

(* The entry e comes or goes on the mounted partition.                       *)
Differs(e) ==
    \/ ~(e \in dirs[unit] <=> e \in dirs'[unit])
    \/ ~(e \in files[unit] <=> e \in files'[unit])

(* What an argument names, read from the directory the prompt shows.         *)
Place(t) == From(IF t[1] = "abs" THEN <<>> ELSE Resolve(path), t[2])

(* A step that makes an entry come or go is one of the commands on files and *)
(* directories, and the entry is one that the command names, or below it.    *)
LEMMA ChangedNamed ==
    ASSUME ContextInv, PlacesInv, [Next]_vars, mount, settled, NEW e, Differs(e)
    PROVE  \E t \in last'.named : e = Place(t) \/ Below(Place(t), e)
<1>0. unit \in Parts /\ kind[unit] = "pfs"
  BY ShellAssumption DEF ContextInv, ContextMatchesDriver
<1>a. /\ path \in Seq(Components)
      /\ dirs \in [Parts -> SUBSET Seq(Names)] /\ files \in [Parts -> SUBSET Seq(Names)]
      /\ Resolve(path) = cwd
  BY DEF PlacesInv, PathNamesDirectory
<1>1. ASSUME dirs'[unit] = dirs[unit], files'[unit] = files[unit]
      PROVE  FALSE
  BY <1>1 DEF Differs
<1>2. ASSUME NEW p \in Parts, NEW k, SetPart(p, k), unit # p
      PROVE  FALSE
  <2>1. dirs'[unit] = dirs[unit] /\ files'[unit] = files[unit]
    BY <1>0, <1>a, <1>2 DEF SetPart
  <2> QED
    BY <1>1, <2>1
<1>3. ASSUME UNCHANGED <<dirs, files>>
      PROVE  FALSE
  BY <1>1, <1>3
<1>4. ~do_device /\ ~do_umount /\ ~shell_exit
  BY <1>3 DEF do_device, do_umount, shell_exit, disk
<1>5. ~do_initialize
  BY Required DEF do_initialize
<1>6. ASSUME NEW p \in Parts
      PROVE  ~do_mkpart(p) /\ ~do_rmpart(p) /\ ~do_mount(p)
  <2>1. kind[p] = "none" => unit # p
    BY <1>0
  <2>2. ~do_mount(p)
    BY Required DEF do_mount
  <2>3. ~do_mkpart(p)
    BY <1>2, <1>3, <2>1 DEF do_mkpart, disk
  <2>4. ~do_rmpart(p)
    BY <1>2, <1>3 DEF do_rmpart, disk
  <2> QED
    BY <2>2, <2>3, <2>4
<1>7. ASSUME NEW p \in Parts, NEW q \in Parts
      PROVE  ~RenamePartition(p, q)
  BY DEF RenamePartition
<1>8. ASSUME NEW arg \in CdArgs
      PROVE  ~do_cd(arg)
  BY <1>3 DEF do_cd, disk
<1>9. ASSUME NEW c
      PROVE  ~ReadOnly(c) /\ ~Refused(c) /\ ~ChangeFails(c)
  BY <1>3 DEF ReadOnly, Refused, ChangeFails, disk
<1>10. ~UNCHANGED vars
  BY <1>3 DEF vars, disk
<1>11. ASSUME NEW c, NEW a, NEW named, NEW possible, NEW nd, NEW nf, NEW nc,
              Change(c, a, named, possible, nd, nf, nc)
       PROVE  /\ ~(e \in dirs[unit] <=> e \in nd) \/ ~(e \in files[unit] <=> e \in nf)
              /\ last'.named = named /\ possible
  <2>1. dirs' = [dirs EXCEPT ![unit] = nd] /\ files' = [files EXCEPT ![unit] = nf]
    BY <1>11 DEF Change
  <2>2. dirs'[unit] = nd /\ files'[unit] = nf
    BY <1>0, <1>a, <2>1
  <2>3. ~(e \in dirs[unit] <=> e \in nd) \/ ~(e \in files[unit] <=> e \in nf)
    BY <2>2, Zenon DEF Differs
  <2>4. last'.named = named
    BY <1>11 DEF Change
  <2>5. possible
    BY <1>11, Zenon DEF Change
  <2> QED
    BY <2>3, <2>4, <2>5
<1>12. ASSUME NEW a
       PROVE  Place(<<"rel", a>>) = Target(a)
  BY DEF Place, Target
<1>13. ASSUME NEW a \in Arguments, do_mkdir(a) \/ do_rmdir(a) \/ do_put(a) \/ do_rm(a)
       PROVE  e = Target(a) /\ last'.named = {<<"rel", a>>}
  <2>1. CASE do_mkdir(a)
    <3>1. /\ \/ ~(e \in dirs[unit] <=> e \in dirs[unit] \cup {Target(a)})
             \/ ~(e \in files[unit] <=> e \in files[unit])
          /\ last'.named = {<<"rel", a>>}
      BY <1>11, <2>1, Zenon DEF do_mkdir
    <3> QED
      BY <3>1
  <2>2. CASE do_rmdir(a)
    <3>1. /\ \/ ~(e \in dirs[unit] <=> e \in dirs[unit] \ {Target(a)})
             \/ ~(e \in files[unit] <=> e \in files[unit])
          /\ last'.named = {<<"rel", a>>}
      BY <1>11, <2>2, Zenon DEF do_rmdir
    <3> QED
      BY <3>1
  <2>3. CASE do_put(a)
    <3>1. /\ \/ ~(e \in dirs[unit] <=> e \in dirs[unit])
             \/ ~(e \in files[unit] <=> e \in files[unit] \cup {Target(a)})
          /\ last'.named = {<<"rel", a>>}
      BY <1>11, <2>3, Zenon DEF do_put
    <3> QED
      BY <3>1
  <2>4. CASE do_rm(a)
    <3>1. /\ \/ ~(e \in dirs[unit] <=> e \in dirs[unit])
             \/ ~(e \in files[unit] <=> e \in files[unit] \ {Target(a)})
          /\ last'.named = {<<"rel", a>>}
      BY <1>11, <2>4, Zenon DEF do_rm
    <3> QED
      BY <3>1
  <2> QED
    BY <1>13, <2>1, <2>2, <2>3, <2>4
<1>14. ASSUME NEW a \in Arguments, NEW to \in Destinations, RenameEntry(a, to)
       PROVE  \E t \in last'.named : e = Place(t) \/ Below(Place(t), e)
  <2> DEFINE old == Target(a)
             new == From(Start(to), to[2])
  <2>1. /\ \/ ~(e \in dirs[unit] <=> e \in Moved(dirs[unit], old, new))
           \/ ~(e \in files[unit] <=> e \in Moved(files[unit], old, new))
        /\ last'.named = {<<"rel", a>>, to} /\ Renamed(old, to, new)
    <3>1. Change("rename", a, {<<"rel", a>>, to}, Renamed(old, to, new),
                 Moved(dirs[unit], old, new), Moved(files[unit], old, new),
                 Rebased(cwd, old, new))
      BY <1>14 DEF RenameEntry
    <3> DEFINE nd == Moved(dirs[unit], old, new)
               nf == Moved(files[unit], old, new)
               nc == Rebased(cwd, old, new)
               can == Renamed(old, to, new)
               named == {<<"rel", a>>, to}
    <3>2. Change("rename", a, named, can, nd, nf, nc)
      BY <3>1
    <3> HIDE DEF nd, nf, nc, can, named
    <3>3. /\ ~(e \in dirs[unit] <=> e \in nd) \/ ~(e \in files[unit] <=> e \in nf)
          /\ last'.named = named /\ can
      BY <1>11, <3>2
    <3> QED
      BY <3>3, Zenon DEF nd, nf, can, named
  <2>2. dirs[unit] \in SUBSET Seq(Names) /\ files[unit] \in SUBSET Seq(Names)
    BY <1>0, <1>a
  <2>3. old \in Seq(Names) /\ new \in Seq(Names)
    <3>1. Start(to) \in dirs[unit]
      BY <2>1, Zenon DEF Renamed, Reachable
    <3>2. to[2] \in Arguments
      BY DEF Destinations
    <3>3. Start(to) \in Seq(Names) /\ to[2] \in Seq(Components)
      BY <2>2, <3>1, <3>2, PathsOf
    <3> QED
      BY <1>a, <3>3, FromOf, Targets
  <2>4. old = Place(<<"rel", a>>) /\ new = Place(to)
    BY <1>a, <1>12 DEF Place, Start
  <2>5. ASSUME NEW S \in SUBSET Seq(Names), ~(e \in S <=> e \in Moved(S, old, new))
        PROVE  e = old \/ Below(old, e) \/ e = new \/ Below(new, e)
    <3> HIDE DEF old, new
    <3>1. CASE e \in S
      BY <2>3, <2>5, <3>1, MovedOf
    <3>2. CASE e \notin S
      <4>1. PICK t \in Seq(Names) : e = new \o t
        <5>1. e \in Moved(S, old, new)
          BY <2>5, <3>2, Zenon
        <5>2. \A d \in Moved(S, old, new) :
                 d \in S \/ \E t \in Seq(Names) : d = new \o t
          BY <2>3, <2>5, MovedOf
        <5> QED
          BY <3>2, <5>1, <5>2, Zenon
      <4>2. CASE t = <<>>
        BY <2>3, <4>1, <4>2
      <4>3. CASE t # <<>>
        <5>1. Len(new \o t) > Len(new) /\ SubSeq(new \o t, 1, Len(new)) = new
          BY <2>3, <4>3
        <5> QED
          BY <4>1, <5>1 DEF Below
      <4> QED
        BY <4>2, <4>3
    <3> QED
      BY <3>1, <3>2
  <2> HIDE DEF old, new
  <2>6. e = old \/ Below(old, e) \/ e = new \/ Below(new, e)
    BY <2>1, <2>2, <2>5, Zenon
  <2>7. <<"rel", a>> \in last'.named /\ to \in last'.named
    BY <2>1
  <2> QED
    BY <2>4, <2>6, <2>7, Zenon
<1>15. ASSUME NEW a \in Arguments, do_mkdir(a) \/ do_rmdir(a) \/ do_put(a) \/ do_rm(a)
       PROVE  \E t \in last'.named : e = Place(t) \/ Below(Place(t), e)
  <2>1. e = Place(<<"rel", a>>) /\ <<"rel", a>> \in last'.named
    BY <1>12, <1>13, <1>15
  <2> QED
    BY <2>1, Zenon
<1> QED
  BY <1>4, <1>5, <1>6, <1>7, <1>8, <1>9, <1>10, <1>14, <1>15, Zenon DEF Next

(* A command changes what its arguments name, read from the directory the    *)
(* prompt shows, and nothing else.                                           *)
THEOREM ChangesSafe == Spec => ChangesWhatIsNamed
<1> DEFINE Kept ==
      mount /\ settled =>
          LET At(t) == From(IF t[1] = "abs" THEN <<>> ELSE Resolve(path), t[2])
              Differing == {e \in dirs[unit] \cup dirs'[unit] \cup files[unit] \cup files'[unit] :
                              ~(e \in dirs[unit] <=> e \in dirs'[unit])
                                 \/ ~(e \in files[unit] <=> e \in files'[unit])}
          IN  \A e \in Differing : \E t \in last'.named :
                 e = At(t) \/ Below(At(t), e)
           Inv == ContextInv /\ PlacesInv
<1>1. Inv /\ [Next]_vars => Kept
  <2> SUFFICES ASSUME Inv, [Next]_vars, mount, settled, NEW e,
                      \/ ~(e \in dirs[unit] <=> e \in dirs'[unit])
                      \/ ~(e \in files[unit] <=> e \in files'[unit])
               PROVE  \E t \in last'.named : e = Place(t) \/ Below(Place(t), e)
    BY Zenon DEF Place
  <2>1. Differs(e)
    BY Zenon DEF Differs
  <2> QED
    BY <2>1, ChangedNamed
<1>2. Spec => []Inv
  BY ContextInductive, PlacesInductive, PTL DEF Spec
<1> HIDE DEF Kept, Inv
<1>3. []Inv /\ [][Next]_vars => [][Kept]_vars
  BY <1>1, PTL
<1> QED
  BY <1>2, <1>3, PTL DEF Spec, ChangesWhatIsNamed, Kept

(* Where the text of the path holds names only, "cd .." goes to the parent   *)
(* of the driver's working directory.                                        *)
THEOREM CdUpSafe == Spec => CdUpReachesParent
<1> DEFINE Reaches == settled /\ path \in Dirs /\ last'.cmd = "cd .." /\ last'.result = OK
                     => cwd' = Step(cwd, Up)
           Inv == ContextInv /\ PlacesInv
<1>1. Inv /\ [Next]_vars => [Reaches]_vars
  <2> SUFFICES ASSUME ContextInv, PlacesInv, Next, settled, path \in Dirs,
                      last'.cmd = "cd .."
               PROVE  last'.result = OK => cwd' = Step(cwd, Up)
    BY Zenon
  <2>1. ASSUME NEW c, NEW r, Returns(c, r), c # "cd .."
        PROVE  FALSE
    BY <2>1 DEF Returns
  <2>2. ~do_device /\ ~do_initialize /\ ~do_umount /\ ~shell_exit
    BY <2>1 DEF do_device, do_initialize, do_umount, shell_exit
  <2>3. ASSUME NEW p \in Parts
        PROVE  ~do_mkpart(p) /\ ~do_rmpart(p) /\ ~do_mount(p)
    BY <2>1 DEF do_mkpart, do_rmpart, do_mount
  <2>4. ASSUME NEW p \in Parts, NEW q \in Parts
        PROVE  ~RenamePartition(p, q)
    BY <2>1 DEF RenamePartition
  <2>10. ASSUME NEW c, NEW a, NEW named, NEW possible, NEW nd, NEW nf, NEW nc,
                Change(c, a, named, possible, nd, nf, nc), c # "cd .."
         PROVE  FALSE
    BY <2>10 DEF Change
  <2>5. ASSUME NEW a \in Arguments
        PROVE  ~do_mkdir(a) /\ ~do_rmdir(a) /\ ~do_put(a) /\ ~do_rm(a)
    BY <2>10, Zenon DEF do_mkdir, do_rmdir, do_put, do_rm
  <2>6. ASSUME NEW a \in Arguments, NEW to \in Destinations
        PROVE  ~RenameEntry(a, to)
    BY <2>10, Zenon DEF RenameEntry
  <2>7. \A c : ~ReadOnly(c) /\ ~ChangeFails(c)
    BY <2>1 DEF ReadOnly, ChangeFails
  <2>8. \A c \in DOMAIN Requirements : ~Refused(c)
    BY <2>1 DEF Refused, Requirements
  <2>9. ASSUME NEW arg \in CdArgs, do_cd(arg)
        PROVE  cwd' = Step(cwd, Up)
    <3>1. /\ arg[1] = "parent" /\ path' = cd_path(arg) /\ cwd' = Resolve(path') /\ mount
      BY <2>1, <2>9, Required DEF do_cd
    <3>2. path \in Seq(Names) /\ Resolve(path) = cwd /\ Resolve(path) = path
      BY <3>1, PathsOf, ResolveOf DEF PlacesInv, PathNamesDirectory
    <3>3. path' = IF path = <<>> THEN path ELSE Front(path)
      BY <3>1 DEF cd_path
    <3>4. path # <<>> => Front(path) \in Seq(Names)
      BY <3>2, FrontOf
    <3>5. Resolve(path') = path'
      BY <3>2, <3>3, <3>4, ResolveOf
    <3>6. Step(cwd, Up) = IF cwd = <<>> THEN cwd ELSE Front(cwd)
      BY DEF Step, Up, Blank
    <3> QED
      BY <3>1, <3>2, <3>3, <3>5, <3>6
  <2> QED
    BY <2>2, <2>3, <2>4, <2>5, <2>6, <2>7, <2>8, <2>9, Zenon DEF Next
<1>2. Spec => []Inv
  BY ContextInductive, PlacesInductive, PTL DEF Spec
<1> HIDE DEF Reaches, Inv
<1>3. []Inv /\ [][Next]_vars => [][Reaches]_vars
  BY <1>1, PTL
<1> QED
  BY <1>2, <1>3, PTL DEF Spec, CdUpReachesParent, Reaches
-------------------------------------------------------------------------------
(* mkpart (Mkpart.tla), for every size that may be asked for and every      *)
(* number of sub-partitions the driver allows.                               *)

(* Nothing has been created yet.                                            *)
Unallocated == main = 0 /\ alloc = 0 /\ largest = 0 /\ subs = 0 /\ fd = "none"

(* What do_mkpart relies on from one part of it to the next: while a size   *)
(* for main is looked for nothing exists; afterwards the index is that of   *)
(* main's size, and the sub-partition loop starts there and goes down.      *)
Phases ==
    /\ pc = "open" => result = Failure /\ i = MainIndex
    /\ pc \in {"open", "main"} /\ result = Failure => Unallocated
    /\ pc = "main" /\ result = Success => fd = "open" /\ i < MainIndex /\ main = Size(i)
    /\ pc = "subs" => /\ result = Success /\ fd = "open"
                      /\ i < MainIndex /\ j <= i /\ main = Size(i)
    /\ pc = "close" => (fd = "open" => result = Success)
    /\ pc = "format" => result = Success
    /\ pc \in {"format", "done"} => fd # "open"

(* As long as the driver has refused nothing, every size passed over was    *)
(* larger than what is left.                                                *)
Exhausted ==
    refused = FALSE =>
        /\ pc = "subs" /\ j < i => size_in_mb < Size(j + 1)
        /\ pc \in {"close", "format", "done"} /\ result = Success => size_in_mb < Size(0)

(* ... and while main is looked for, larger than what was asked for.        *)
Passed ==
    pc \in {"open", "main"} /\ result = Failure /\ refused = FALSE =>
        \A n \in i .. MainIndex - 1 : Size(n) > requested

MkpartInv ==
    /\ TypeOK
    /\ SizeConserved
    /\ SubsFitMain
    /\ MainIsLargest
    /\ Phases
    /\ Exhausted
    /\ Passed
-------------------------------------------------------------------------------
(* The table of sizes: positive, and in increasing order.                   *)
LEMMA SizesIncrease ==
    /\ \A n \in 0 .. 8 : Size(n) \in Nat /\ Size(n) > 0
    /\ \A m, n \in 0 .. 8 : m <= n => Size(m) <= Size(n)
  <1>1. /\ Size(0) = 8 /\ Size(1) = 16 /\ Size(2) = 32 /\ Size(3) = 64
        /\ Size(4) = 128 /\ Size(5) = 256 /\ Size(6) = 512 /\ Size(7) = 1024
        /\ Size(8) = 2048
    BY DEF Size, sizesMB
  <1>2. \A n \in 0 .. 8 : \/ n = 0 \/ n = 1 \/ n = 2 \/ n = 3 \/ n = 4
                          \/ n = 5 \/ n = 6 \/ n = 7 \/ n = 8
    OBVIOUS
  <1> QED BY <1>1, <1>2

(* do_mkpart starts with nothing created.                                   *)
LEMMA MkpartInitInv == MkpartInit => MkpartInv
  <1> SUFFICES ASSUME MkpartInit PROVE MkpartInv
    OBVIOUS
  <1> USE MkpartAssumption DEF MkpartInit, Success, Failure, MainIndex
  <1>1. TypeOK
    <2>1. requested \in Nat /\ size_in_mb \in Nat /\ pfs \in BOOLEAN
      BY Zenon
    <2>2. refused \in BOOLEAN /\ formatted \in BOOLEAN
      BY Zenon
    <2>a. fd \in {"none", "open", "kept"}
      OBVIOUS
    <2>3. /\ i \in 0 .. MainIndex /\ j \in -1 .. MainIndex - 1 /\ result \in {Success, Failure}
          /\ main \in Nat /\ alloc \in Nat /\ subs \in 0 .. MaxSubs /\ largest \in Nat
      OBVIOUS
    <2>4. pc \in {"open", "main", "subs", "close", "format", "done"}
      OBVIOUS
    <2> QED BY <2>1, <2>2, <2>a, <2>3, <2>4, Zenon DEF TypeOK
  <1>2. SizeConserved /\ SubsFitMain /\ MainIsLargest
    BY DEF SizeConserved, SubsFitMain, MainIsLargest
  <1>3. Phases
    BY DEF Phases, Unallocated
  <1>4. Exhausted /\ Passed
    BY DEF Exhausted, Passed
  <1> QED BY <1>1, <1>2, <1>3, <1>4 DEF MkpartInv

(* Steps that create nothing leave the sizes as they are; refusals only     *)
(* accumulate.                                                              *)
LEMMA SizesKept ==
    ASSUME MkpartInv, UNCHANGED <<requested, size_in_mb, apa>>,
           refused' = FALSE => refused = FALSE, refused' \in BOOLEAN
    PROVE  SizeConserved' /\ SubsFitMain' /\ MainIsLargest'
  <1>1. SizeConserved' /\ SubsFitMain'
    BY DEF MkpartInv, SizeConserved, SubsFitMain, apa
  <1>2. MainIsLargest'
    BY DEF MkpartInv, MainIsLargest, TypeOK, apa, Size, sizesMB
  <1> QED BY <1>1, <1>2

(* Every step keeps the invariant.                                          *)
LEMMA MkpartStepInv == MkpartInv /\ [MkpartNext]_mkpart_vars => MkpartInv'
  <1> SUFFICES ASSUME MkpartInv, [MkpartNext]_mkpart_vars PROVE MkpartInv'
    OBVIOUS
  <1> USE MkpartAssumption DEF Success, Failure, MainIndex
  <1>t. /\ TypeOK /\ SizeConserved /\ SubsFitMain /\ MainIsLargest
        /\ Phases /\ Exhausted /\ Passed
    BY DEF MkpartInv
  <1>1. CASE ExistsOrBadArgument
    <2>1. SizeConserved' /\ SubsFitMain' /\ MainIsLargest'
      BY <1>1, SizesKept DEF ExistsOrBadArgument, locals
    <2>2. TypeOK' /\ Phases' /\ Exhausted' /\ Passed'
      BY <1>1, <1>t DEF ExistsOrBadArgument, TypeOK, Phases, Exhausted, Passed,
            Unallocated, locals, apa
    <2> QED BY <2>1, <2>2 DEF MkpartInv
  <1>2. CASE NoSuchPartition
    <2>1. SizeConserved' /\ SubsFitMain' /\ MainIsLargest'
      BY <1>2, <1>t, SizesKept DEF NoSuchPartition, locals, TypeOK
    <2>2. TypeOK' /\ Phases' /\ Exhausted' /\ Passed'
      BY <1>2, <1>t DEF NoSuchPartition, TypeOK, Phases, Exhausted, Passed,
            Unallocated, locals, apa
    <2> QED BY <2>1, <2>2 DEF MkpartInv
  <1>3. CASE TryMain
    <2>1. /\ i - 1 \in 0 .. 8 /\ i' = i - 1 /\ i' \in 0 .. 8 /\ i \in 0 .. 9
          /\ pc = "main" /\ pc' = "main" /\ result = Failure
      BY <1>3, <1>t DEF TryMain, TypeOK
    <2>2. Unallocated /\ size_in_mb = requested
      BY <2>1, <1>t DEF Phases, SizeConserved, Unallocated, TypeOK
    <2>3. Size(i - 1) \in Nat /\ Size(i - 1) > 0
      BY <2>1, SizesIncrease
    <2>4. CASE /\ UNCHANGED <<size_in_mb, result, apa, fd>>
               /\ \/ UNCHANGED refused /\ Size(i - 1) > size_in_mb
                  \/ refused' = TRUE
      <3>1. refused' \in BOOLEAN /\ (refused' = FALSE => refused = FALSE)
        BY <1>t, <2>4 DEF TypeOK
      <3>2. SizeConserved' /\ SubsFitMain' /\ MainIsLargest'
        BY <1>3, <2>4, <3>1, SizesKept DEF TryMain
      <3>3. TypeOK' /\ Phases' /\ Exhausted'
        BY <1>3, <1>t, <2>1, <2>2, <2>4, <3>1 DEF TryMain, TypeOK, Phases, Exhausted,
              Unallocated, apa
      <3>4. Passed'
        <4>1. refused' = FALSE => /\ Size(i - 1) > requested
                                  /\ \A n \in i .. 8 : Size(n) > requested
          BY <1>t, <2>1, <2>2, <2>4 DEF Passed
        <4>2. \A n \in i' .. 8 : n = i - 1 \/ n \in i .. 8
          BY <2>1
        <4> QED BY <1>3, <4>1, <4>2 DEF TryMain, Passed
      <3> QED BY <3>2, <3>3, <3>4 DEF MkpartInv
    <2>5. CASE /\ Size(i - 1) <= size_in_mb
               /\ main' = Size(i - 1) /\ alloc' = Size(i - 1) /\ fd' = "open"
               /\ size_in_mb' = size_in_mb - Size(i - 1) /\ result' = Success
               /\ UNCHANGED <<refused, subs, largest>>
      <3>1. size_in_mb' \in Nat /\ alloc' + size_in_mb' = requested'
        BY <1>3, <1>t, <2>2, <2>3, <2>5 DEF TryMain, TypeOK, SizeConserved, Unallocated
      <3>2. main' = Size(i')
        BY <2>1, <2>5
      <3>3. MainIsLargest'
        <4>1. \A n \in 0 .. 8 : n \in i .. 8 \/ Size(n) <= Size(i - 1)
          BY <2>1, SizesIncrease
        <4>2. refused = FALSE => \A n \in i .. 8 : Size(n) > requested
          BY <1>t, <2>1 DEF Passed
        <4>3. \A n \in 0 .. 8 : Size(n) \in Nat
          BY SizesIncrease
        <4>4. refused' = FALSE =>
                 \A n \in 0 .. 8 : Size(n) <= requested => Size(n) <= Size(i - 1)
          BY <1>t, <2>5, <4>1, <4>2, <4>3 DEF TypeOK
        <4>5. requested' = requested /\ refused' \in BOOLEAN
          BY <1>3, <1>t, <2>5 DEF TryMain, TypeOK
        <4> QED BY <2>5, <4>4, <4>5 DEF MainIsLargest
      <3>4. TypeOK' /\ SizeConserved' /\ SubsFitMain'
        BY <1>3, <1>t, <2>1, <2>2, <2>3, <2>5, <3>1 DEF TryMain, TypeOK, SizeConserved,
              SubsFitMain, Unallocated
      <3>5. Phases' /\ Exhausted' /\ Passed'
        BY <1>3, <2>1, <2>5, <3>2 DEF TryMain, Phases, Exhausted, Passed
      <3> QED BY <3>3, <3>4, <3>5 DEF MkpartInv
    <2>6. CASE Size(i - 1) > size_in_mb
      BY <1>3, <2>4, <2>6 DEF TryMain
    <2>7. CASE Size(i - 1) <= size_in_mb
      <3>1. ~(Size(i - 1) > size_in_mb)
        BY <1>t, <2>3, <2>7 DEF TypeOK
      <3> QED BY <1>3, <2>4, <2>5, <2>7, <3>1 DEF TryMain
    <2> QED BY <1>t, <2>3, <2>6, <2>7 DEF TypeOK
  <1>4. CASE MainDone
    <2>1. i \in 0 .. 8
      BY <1>4, <1>t DEF MainDone, Phases, TypeOK
    <2>2. SizeConserved' /\ SubsFitMain' /\ MainIsLargest'
      BY <1>4, <1>t, SizesKept DEF MainDone, TypeOK
    <2>3. CASE fd = "open"
      <3>1. result = Success
        BY <1>4, <1>t, <2>3 DEF MainDone, Phases, TypeOK, Unallocated
      <3>2. TypeOK' /\ Phases' /\ Exhausted' /\ Passed'
        BY <1>4, <1>t, <2>1, <2>3, <3>1 DEF MainDone, TypeOK, Phases, Exhausted, Passed, apa
      <3> QED BY <2>2, <3>2 DEF MkpartInv
    <2>4. CASE fd # "open"
      <3>1. result = Failure
        BY <1>4, <1>t, <2>4 DEF MainDone, Phases, TypeOK
      <3>2. TypeOK' /\ Phases' /\ Exhausted' /\ Passed'
        BY <1>4, <1>t, <2>1, <2>4, <3>1 DEF MainDone, TypeOK, Phases, Exhausted, Passed, apa
      <3> QED BY <2>2, <3>2 DEF MkpartInv
    <2> QED BY <1>t, <2>3, <2>4 DEF TypeOK
  <1>5. CASE TrySub
    <2>1. /\ pc = "subs" /\ pc' = "subs" /\ i \in 0 .. 8 /\ j \in 0 .. 8 /\ j <= i
          /\ result = Success /\ fd = "open" /\ main = Size(i)
      BY <1>5, <1>t DEF TrySub, TypeOK, Phases
    <2>2. Size(j) \in Nat /\ Size(j) > 0 /\ Size(j) <= main
      BY <2>1, SizesIncrease
    <2>3. CASE /\ Size(j) <= size_in_mb /\ subs < MaxSubs
               /\ alloc' = alloc + Size(j) /\ subs' = subs + 1
               /\ largest' = IF Size(j) > largest THEN Size(j) ELSE largest
               /\ size_in_mb' = size_in_mb - Size(j)
               /\ UNCHANGED <<j, refused, main>>
      <3>1. /\ size_in_mb' \in Nat /\ alloc' \in Nat /\ alloc' + size_in_mb' = requested
            /\ subs' \in 0 .. MaxSubs /\ largest' \in Nat /\ largest' <= main
            /\ size_in_mb' <= size_in_mb
        BY <1>t, <2>2, <2>3 DEF TypeOK, SizeConserved, SubsFitMain
      <3>2. j < i => Size(j + 1) \in Nat
        BY <2>1, SizesIncrease
      <3>3. Exhausted'
        BY <1>5, <1>t, <2>1, <2>3, <3>1, <3>2 DEF TrySub, Exhausted, TypeOK
      <3>4. MainIsLargest'
        BY <1>5, <1>t, <2>3 DEF TrySub, MainIsLargest
      <3>5. TypeOK' /\ SizeConserved' /\ SubsFitMain' /\ Phases' /\ Passed'
        BY <1>5, <1>t, <2>1, <2>3, <3>1 DEF TrySub, TypeOK, SizeConserved, SubsFitMain,
              Phases, Passed
      <3> QED BY <3>3, <3>4, <3>5 DEF MkpartInv
    <2>4. CASE /\ j' = j - 1
               /\ refused' = (refused \/ Size(j) <= size_in_mb)
               /\ UNCHANGED <<size_in_mb, apa>>
      <3>1. refused' \in BOOLEAN /\ (refused' = FALSE => refused = FALSE)
        BY <1>t, <2>4, Zenon DEF TypeOK
      <3>2. refused' = FALSE => ~(Size(j) <= size_in_mb)
        BY <2>4, Zenon
      <3>3. Exhausted'
        <4>1. j' + 1 = j
          BY <2>1, <2>4
        <4>2. refused' = FALSE => size_in_mb' < Size(j)
          BY <1>t, <2>2, <2>4, <3>2 DEF TypeOK
        <4> QED BY <1>5, <2>1, <4>1, <4>2 DEF TrySub, Exhausted
      <3>4. SizeConserved' /\ SubsFitMain' /\ MainIsLargest'
        BY <1>5, <2>4, <3>1, SizesKept DEF TrySub
      <3>5. j' \in -1 .. 8 /\ j' <= i
        BY <2>1, <2>4
      <3>6. TypeOK' /\ Phases' /\ Passed'
        BY <1>5, <1>t, <2>1, <2>4, <3>1, <3>5 DEF TrySub, TypeOK, Phases, Passed, apa
      <3> QED BY <3>3, <3>4, <3>6 DEF MkpartInv
    <2> QED BY <1>5, <2>3, <2>4 DEF TrySub
  <1>6. CASE SubsDone
    <2>1. pc = "subs" /\ j \in -1 .. 8 /\ i \in 0 .. 8 /\ Size(0) \in Nat /\ Size(0) > 0
      BY <1>6, <1>t, SizesIncrease DEF SubsDone, TypeOK, Phases
    <2>2. refused = FALSE => size_in_mb < Size(0)
      <3>1. CASE size_in_mb = 0
        BY <2>1, <3>1
      <3>2. CASE j < 0
        <4>1. j < i /\ j + 1 = 0
          BY <2>1, <3>2
        <4>2. refused = FALSE => size_in_mb < Size(j + 1)
          BY <1>t, <2>1, <4>1 DEF Exhausted
        <4> QED BY <4>1, <4>2
      <3> QED BY <1>6, <3>1, <3>2 DEF SubsDone
    <2>3. SizeConserved' /\ SubsFitMain' /\ MainIsLargest'
      BY <1>6, <1>t, SizesKept DEF SubsDone, TypeOK, locals
    <2>4. TypeOK' /\ Phases' /\ Exhausted' /\ Passed'
      BY <1>6, <1>t, <2>1, <2>2 DEF SubsDone, TypeOK, Phases, Exhausted, Passed, locals, apa
    <2> QED BY <2>3, <2>4 DEF MkpartInv
  <1>7. CASE Close
    <2>1. ~(fd = "open" /\ result < 0)
      BY <1>7, <1>t DEF Close, Phases, TypeOK
    <2>2. fd' \in {"none", "open", "kept"} /\ fd' # "open"
      BY <1>7, <1>t, <2>1 DEF Close, TypeOK
    <2>3. SizeConserved' /\ SubsFitMain' /\ MainIsLargest'
      BY <1>7, <1>t, SizesKept DEF Close, TypeOK, locals
    <2>4. TypeOK' /\ Phases' /\ Exhausted' /\ Passed'
      BY <1>7, <1>t, <2>2 DEF Close, TypeOK, Phases, Exhausted, Passed, locals, apa
    <2> QED BY <2>3, <2>4 DEF MkpartInv
  <1>8. CASE mkpfs
    <2>1. refused' \in BOOLEAN /\ (refused' = FALSE => refused = FALSE)
      BY <1>8, <1>t, Zenon DEF mkpfs, TypeOK
    <2>2. SizeConserved' /\ SubsFitMain' /\ MainIsLargest'
      BY <1>8, <2>1, SizesKept DEF mkpfs
    <2>3. TypeOK' /\ Phases' /\ Exhausted' /\ Passed'
      BY <1>8, <1>t, <2>1 DEF mkpfs, TypeOK, Phases, Exhausted, Passed, apa
    <2> QED BY <2>2, <2>3 DEF MkpartInv
  <1>9. CASE UNCHANGED mkpart_vars
    <2>1. SizeConserved' /\ SubsFitMain' /\ MainIsLargest'
      BY <1>9, <1>t, SizesKept DEF mkpart_vars, locals, TypeOK
    <2>2. TypeOK' /\ Phases' /\ Exhausted' /\ Passed'
      BY <1>9, <1>t DEF mkpart_vars, TypeOK, Phases, Exhausted, Passed, Unallocated, locals, apa
    <2> QED BY <2>1, <2>2 DEF MkpartInv
  <1> QED BY <1>1, <1>2, <1>3, <1>4, <1>5, <1>6, <1>7, <1>8, <1>9 DEF MkpartNext

(* The inductive invariant holds in every state of mkpart.                  *)
THEOREM MkpartInductive == MkpartSpec => []MkpartInv
  BY MkpartInitInv, MkpartStepInv, PTL DEF MkpartSpec

(* Type correctness of do_mkpart's locals: the size left, an unsigned int,  *)
(* never wraps, and no index leaves the table of sizes.                     *)
THEOREM MkpartTypeCorrect == MkpartSpec => []TypeOK
  <1>1. MkpartInv => TypeOK
    BY DEF MkpartInv
  <1> QED BY MkpartInductive, <1>1, PTL

(* mkpart never allocates more than it was asked for, and knows what is     *)
(* left, whatever the driver refuses.                                       *)
THEOREM SizeIsConserved == MkpartSpec => []SizeConserved
  <1>1. MkpartInv => SizeConserved
    BY DEF MkpartInv
  <1> QED BY MkpartInductive, <1>1, PTL

(* No sub-partition is larger than the main partition.                      *)
THEOREM SubsNeverExceedMain == MkpartSpec => []SubsFitMain
  <1>1. MkpartInv => SubsFitMain
    BY DEF MkpartInv
  <1> QED BY MkpartInductive, <1>1, PTL

(* When the driver refuses nothing and mkpart succeeds, less than 8 MB of   *)
(* what was asked for is missing.                                           *)
THEOREM GreedyLosesNothing == MkpartSpec => []NothingLeftOver
  <1>1. MkpartInv => NothingLeftOver
    BY DEF MkpartInv, NothingLeftOver, Exhausted, TypeOK
  <1> QED BY MkpartInductive, <1>1, PTL

(* Unless the driver refused something, main has the largest size possible. *)
THEOREM MainLargestPossible == MkpartSpec => []MainIsLargest
  <1>1. MkpartInv => MainIsLargest
    BY DEF MkpartInv
  <1> QED BY MkpartInductive, <1>1, PTL

(* The descriptor is closed before mkpfs and at the end, on every path,     *)
(* unless the driver refused to close it.                                   *)
THEOREM AlwaysClosed == MkpartSpec => []ClosedBeforeFormat
  <1>1. MkpartInv => ClosedBeforeFormat
    BY DEF MkpartInv, ClosedBeforeFormat, Phases
  <1> QED BY MkpartInductive, <1>1, PTL
-------------------------------------------------------------------------------
(* parse_line (ParseLine.tla), for lines of any length.  The reference        *)
(* definition is a recursive function: first, that its equation has a         *)
(* solution and what follows for it from each position on.                    *)

(* What may be said of a text from a position on.                            *)
Readings == [ok : BOOLEAN, tokens : Seq(Seq(Chars))]
Bad == [ok |-> FALSE, tokens |-> <<>>]
Preceded(word, r) == [ok |-> r.ok, tokens |-> <<word>> \o r.tokens]

(* The first of some characters is where it is, and nowhere else.            *)
LEMMA FirstIs ==
    ASSUME NEW V, NEW s \in Seq(V), NEW k \in Nat \ {0}, k <= Len(s) + 1, NEW S
    PROVE  LET e == FirstOf(s, k, S) IN
           /\ e \in k .. Len(s) + 1
           /\ e <= Len(s) => s[e] \in S
           /\ \A n \in k .. e - 1 : s[n] \notin S
<1> DEFINE T == {n \in k .. Len(s) : s[n] \in S} \cup {Len(s) + 1}
<1>1. Len(s) \in Nat
  OBVIOUS
<1>2. T \subseteq Nat /\ T # {}
  BY <1>1
<1>3. \E x \in T : \A y \in T : x <= y
  <2> HIDE DEF T
  <2> QED
    BY <1>2, LeastNumber
<1>4. FirstOf(s, k, S) \in T /\ \A y \in T : FirstOf(s, k, S) <= y
  <2> HIDE DEF T
  <2>1. FirstOf(s, k, S) = Min(T)
    BY DEF FirstOf, T
  <2> QED
    BY <1>3, <2>1 DEF Min
<1> QED
  BY <1>1, <1>4

(* A place with these properties is that place.                              *)
LEMMA FirstUnique ==
    ASSUME NEW V, NEW s \in Seq(V), NEW k \in Nat \ {0}, NEW S, NEW e \in k .. Len(s) + 1,
           e <= Len(s) => s[e] \in S,
           \A n \in k .. e - 1 : s[n] \notin S
    PROVE  FirstOf(s, k, S) = e
<1> DEFINE f == FirstOf(s, k, S)
<1>1. Len(s) \in Nat /\ k <= Len(s) + 1
  OBVIOUS
<1>2. /\ f \in k .. Len(s) + 1
      /\ f <= Len(s) => s[f] \in S
      /\ \A n \in k .. f - 1 : s[n] \notin S
  BY <1>1, FirstIs
<1> HIDE DEF f
<1>3. ~(f < e)
  <2> SUFFICES ASSUME f < e
               PROVE  FALSE
    OBVIOUS
  <2>1. f \in k .. e - 1 /\ f <= Len(s)
    BY <1>1, <1>2
  <2> QED
    BY <1>2, <2>1
<1>4. ~(e < f)
  <2> SUFFICES ASSUME e < f
               PROVE  FALSE
    OBVIOUS
  <2>1. e \in k .. f - 1 /\ e <= Len(s)
    BY <1>1, <1>2
  <2> QED
    BY <1>2, <2>1
<1>5. f = e
  BY <1>1, <1>2, <1>3, <1>4
<1> QED
  BY <1>5 DEF f

(* A part of a sequence, by its positions.                                   *)
LEMMA PartOf ==
    ASSUME NEW V, NEW s \in Seq(V), NEW k \in Nat \ {0}, NEW e \in k .. Len(s) + 1
    PROVE  /\ SubSeq(s, k, e - 1) \in Seq(V)
           /\ SubSeq(s, k, e - 1) = [n \in 1 .. e - k |-> s[k + n - 1]]
<1>1. Len(s) \in Nat /\ e \in Nat /\ e - 1 \in Nat /\ (e - 1) - k + 1 = e - k /\ e - k \in Nat
  OBVIOUS
<1>2. SubSeq(s, k, e - 1) = [n \in 1 .. (e - 1) - k + 1 |-> s[k + n - 1]]
  OBVIOUS
<1>3. \A n \in 1 .. e - k : s[k + n - 1] \in V
  <2> SUFFICES ASSUME NEW n \in 1 .. e - k
               PROVE  s[k + n - 1] \in V
    OBVIOUS
  <2>1. k + n - 1 \in 1 .. Len(s)
    BY <1>1
  <2> QED
    BY <2>1
<1> DEFINE f == [n \in 1 .. e - k |-> s[k + n - 1]]
<1>4. f \in [1 .. e - k -> V]
  BY <1>3
<1>5. f \in Seq(V)
  <2> HIDE DEF f
  <2> QED
    BY <1>1, <1>4
<1> QED
  BY <1>1, <1>2, <1>5

(* The four cases of a reading.                                              *)
LEMMA Cases ==
    ASSUME NEW s \in Seq(Chars), NEW k \in 1 .. Len(s) + 1, NEW later
    PROVE  LET r == TokensFrom(s, k, later)
               closing == FirstOf(s, k + 1, {s[k]})
               blank == FirstOf(s, k, {Space, Quote, Apostrophe})
           IN  /\ k > Len(s) => r = [ok |-> TRUE, tokens |-> <<>>]
               /\ k <= Len(s) /\ s[k] = Space => r = later[k + 1]
               /\ k <= Len(s) /\ s[k] \in {Quote, Apostrophe} =>
                    /\ closing > Len(s) => r = Bad
                    /\ closing <= Len(s) =>
                         r = Preceded(SubSeq(s, k + 1, closing - 1), later[closing + 1])
               /\ k <= Len(s) /\ s[k] \notin {Space, Quote, Apostrophe} =>
                    /\ blank <= Len(s) /\ s[blank] # Space => r = Bad
                    /\ blank > Len(s) \/ s[blank] = Space =>
                         r = Preceded(SubSeq(s, k, blank - 1), later[blank])
<1> DEFINE closing == FirstOf(s, k + 1, {s[k]})
           blank == FirstOf(s, k, {Space, Quote, Apostrophe})
<1>1. Len(s) \in Nat /\ k \in Nat \ {0} /\ k + 1 \in Nat \ {0}
      /\ (k <= Len(s) => k + 1 <= Len(s) + 1)
  OBVIOUS
<1>2. k <= Len(s) => closing \in k + 1 .. Len(s) + 1
  BY <1>1, FirstIs
<1>3. blank \in k .. Len(s) + 1
  BY <1>1, FirstIs
<1>4. /\ k <= Len(s) => ~(k > Len(s))
      /\ k <= Len(s) => (closing <= Len(s) => ~(closing > Len(s)))
      /\ blank > Len(s) => ~(blank <= Len(s))
  <2> HIDE DEF closing, blank
  <2> QED
    BY <1>1, <1>2, <1>3
<1>5. Quote # Space /\ Apostrophe # Space
  BY DEF Quote, Space, Apostrophe
<1>6. TokensFrom(s, k, later) =
        IF k > Len(s) THEN [ok |-> TRUE, tokens |-> <<>>]
        ELSE IF s[k] = Space THEN later[k + 1]
        ELSE IF s[k] \in {Quote, Apostrophe}
        THEN IF closing > Len(s) THEN Bad
             ELSE Preceded(SubSeq(s, k + 1, closing - 1), later[closing + 1])
        ELSE IF blank <= Len(s) /\ s[blank] # Space THEN Bad
        ELSE Preceded(SubSeq(s, k, blank - 1), later[blank])
  BY DEF TokensFrom, Bad, Preceded
<1> HIDE DEF closing, blank
<1>7. /\ k > Len(s) => TokensFrom(s, k, later) = [ok |-> TRUE, tokens |-> <<>>]
      /\ k <= Len(s) /\ s[k] = Space => TokensFrom(s, k, later) = later[k + 1]
  BY <1>4, <1>6, Zenon
<1>8. k <= Len(s) /\ s[k] \in {Quote, Apostrophe} =>
        /\ closing > Len(s) => TokensFrom(s, k, later) = Bad
        /\ closing <= Len(s) => TokensFrom(s, k, later) =
              Preceded(SubSeq(s, k + 1, closing - 1), later[closing + 1])
  BY <1>4, <1>5, <1>6, Zenon
<1>9. k <= Len(s) /\ s[k] \notin {Space, Quote, Apostrophe} =>
        /\ blank <= Len(s) /\ s[blank] # Space => TokensFrom(s, k, later) = Bad
        /\ blank > Len(s) \/ s[blank] = Space => TokensFrom(s, k, later) =
              Preceded(SubSeq(s, k, blank - 1), later[blank])
  BY <1>4, <1>6, Zenon
<1> QED
  BY <1>7, <1>8, <1>9 DEF closing, blank

(* The positions a reading looks at are later ones; what it says is a        *)
(* reading.                                                                  *)
LEMMA LaterOnly ==
    ASSUME NEW s \in Seq(Chars), NEW k \in 1 .. Len(s) + 1,
           NEW f, NEW h, \A n \in k + 1 .. Len(s) + 1 : f[n] = h[n] /\ h[n] \in Readings
    PROVE  TokensFrom(s, k, f) = TokensFrom(s, k, h) /\ TokensFrom(s, k, f) \in Readings
<1> DEFINE m == Len(s)
           closing == FirstOf(s, k + 1, {s[k]})
           blank == FirstOf(s, k, {Space, Quote, Apostrophe})
<1>1. m \in Nat /\ k \in Nat \ {0} /\ k + 1 \in Nat \ {0}
  OBVIOUS
<1>2. ASSUME NEW word \in Seq(Chars), NEW r \in Readings
      PROVE  Preceded(word, r) \in Readings
  <2>1. r.ok \in BOOLEAN /\ r.tokens \in Seq(Seq(Chars))
    BY DEF Readings
  <2>2. <<word>> \o r.tokens \in Seq(Seq(Chars))
    BY <2>1
  <2> QED
    BY <2>1, <2>2 DEF Preceded, Readings
<1>3. CASE k > m
  <2>1. TokensFrom(s, k, f) = [ok |-> TRUE, tokens |-> <<>>]
    BY <1>3, Cases
  <2>2. TokensFrom(s, k, h) = [ok |-> TRUE, tokens |-> <<>>]
    BY <1>3, Cases
  <2>3. [ok |-> TRUE, tokens |-> <<>>] \in Readings
    BY DEF Readings
  <2> QED
    BY <2>1, <2>2, <2>3
<1>4. CASE k <= m /\ s[k] = Space
  <2>1. TokensFrom(s, k, f) = f[k + 1]
    BY <1>4, Cases
  <2>2. TokensFrom(s, k, h) = h[k + 1]
    BY <1>4, Cases
  <2>3. k + 1 \in k + 1 .. m + 1 /\ k + 1 \in 1 .. m + 1
    BY <1>1, <1>4
  <2> QED
    BY <2>1, <2>2, <2>3
<1>5. CASE k <= m /\ s[k] \in {Quote, Apostrophe}
  <2>1. closing \in k + 1 .. m + 1
    BY <1>1, <1>5, FirstIs
  <2>2. CASE closing > m
    <3>1. TokensFrom(s, k, f) = Bad
      BY <1>5, <2>2, Cases
    <3>2. TokensFrom(s, k, h) = Bad
      BY <1>5, <2>2, Cases
    <3> QED
      BY <3>1, <3>2 DEF Bad, Readings
  <2>3. CASE closing <= m
    <3> DEFINE word == SubSeq(s, k + 1, closing - 1)
    <3>1. TokensFrom(s, k, f) = Preceded(word, f[closing + 1])
      BY <1>5, <2>3, Cases
    <3>2. TokensFrom(s, k, h) = Preceded(word, h[closing + 1])
      BY <1>5, <2>3, Cases
    <3>3. word \in Seq(Chars)
      BY <1>1, <2>1, PartOf
    <3> HIDE DEF word, closing
    <3>4. closing + 1 \in k + 1 .. m + 1 /\ closing + 1 \in 1 .. m + 1
      BY <1>1, <2>1, <2>3
    <3> QED
      BY <1>2, <3>1, <3>2, <3>3, <3>4
  <2> HIDE DEF closing
  <2> QED
    BY <1>1, <2>1, <2>2, <2>3
<1>6. CASE k <= m /\ s[k] \notin {Space, Quote, Apostrophe}
  <2>1. blank \in k .. m + 1 /\ (blank <= m => s[blank] \in {Space, Quote, Apostrophe})
    BY <1>1, <1>6, FirstIs
  <2>2. CASE blank <= m /\ s[blank] # Space
    <3>1. TokensFrom(s, k, f) = Bad
      BY <1>6, <2>2, Cases
    <3>2. TokensFrom(s, k, h) = Bad
      BY <1>6, <2>2, Cases
    <3> QED
      BY <3>1, <3>2 DEF Bad, Readings
  <2>3. CASE blank > m \/ s[blank] = Space
    <3> DEFINE word == SubSeq(s, k, blank - 1)
    <3>1. TokensFrom(s, k, f) = Preceded(word, f[blank])
      BY <1>6, <2>3, Cases
    <3>2. TokensFrom(s, k, h) = Preceded(word, h[blank])
      BY <1>6, <2>3, Cases
    <3>3. word \in Seq(Chars)
      BY <1>1, <2>1, PartOf
    <3> HIDE DEF word, blank
    <3>4. blank \in k + 1 .. m + 1 /\ blank \in 1 .. m + 1
      BY <1>1, <1>6, <2>1
    <3> QED
      BY <1>2, <3>1, <3>2, <3>3, <3>4
  <2> HIDE DEF blank
  <2> QED
    BY <1>1, <2>1, <2>2, <2>3
<1> QED
  BY <1>1, <1>3, <1>4, <1>5, <1>6
(* The readings of a text satisfy the equation that defines them.            *)
LEMMA ReadingsExist ==
    ASSUME NEW s \in Seq(Chars)
    PROVE  \E f \in [1 .. Len(s) + 1 -> Readings] :
              \A k \in 1 .. Len(s) + 1 : f[k] = TokensFrom(s, k, f)
<1> DEFINE m == Len(s)
           Good(f, n) == \A k \in m + 1 - n .. m + 1 : k >= 1 => f[k] = TokensFrom(s, k, f)
           T == {n \in Nat : ~\E f \in [1 .. m + 1 -> Readings] : Good(f, n)}
<1>1. m \in Nat
  OBVIOUS
<1>2. T = {}
  <2> SUFFICES ASSUME T # {}
               PROVE  FALSE
    OBVIOUS
  <2>1. PICK x \in T : \A y \in T : x <= y
    <3>1. T \subseteq Nat
      OBVIOUS
    <3> HIDE DEF T
    <3> QED
      BY <3>1, LeastNumber
  <2>2. x \in Nat
    BY <2>1
  <2>3. \E f \in [1 .. m + 1 -> Readings] : \A k \in m + 2 - x .. m + 1 : k >= 1 => f[k] = TokensFrom(s, k, f)
    <3>1. CASE x = 0
      <4> DEFINE f == [k \in 1 .. m + 1 |-> Bad]
      <4>1. f \in [1 .. m + 1 -> Readings]
        BY DEF Bad, Readings
      <4>2. m + 2 - x .. m + 1 = {}
        BY <1>1, <3>1
      <4> HIDE DEF f
      <4> QED
        BY <4>1, <4>2
    <3>2. CASE x # 0
      <4>1. x - 1 \in Nat /\ ~(x <= x - 1) /\ m + 1 - (x - 1) = m + 2 - x
        BY <1>1, <2>2, <3>2
      <4>2. x - 1 \notin T
        <5> HIDE DEF T
        <5> QED
          BY <2>1, <4>1
      <4>3. PICK f \in [1 .. m + 1 -> Readings] : Good(f, x - 1)
        BY <4>1, <4>2
      <4> QED
        BY <4>1, <4>3
    <3> QED
      BY <3>1, <3>2
  <2>4. PICK f \in [1 .. m + 1 -> Readings] :
             \A k \in m + 2 - x .. m + 1 : k >= 1 => f[k] = TokensFrom(s, k, f)
    BY <2>3
  <2> DEFINE k0 == m + 1 - x
             h == [f EXCEPT ![k0] = TokensFrom(s, k0, f)]
  <2>5. h \in [1 .. m + 1 -> Readings] /\ \A n \in k0 + 1 .. m + 1 : n >= 1 => h[n] = f[n]
    <3>1. k0 \in 1 .. m + 1 => TokensFrom(s, k0, f) \in Readings
      <4> SUFFICES ASSUME k0 \in 1 .. m + 1
                   PROVE  TokensFrom(s, k0, f) \in Readings
        OBVIOUS
      <4>1. \A n \in k0 + 1 .. m + 1 : f[n] = f[n] /\ f[n] \in Readings
        BY <1>1
      <4> HIDE DEF k0
      <4> QED
        BY <4>1, LaterOnly
    <3>2. k0 \in Int
      BY <1>1, <2>2
    <3>3. ASSUME NEW y, k0 \in 1 .. m + 1 => y \in Readings
          PROVE  /\ [f EXCEPT ![k0] = y] \in [1 .. m + 1 -> Readings]
                 /\ \A n \in k0 + 1 .. m + 1 : n >= 1 => [f EXCEPT ![k0] = y][n] = f[n]
      <4> HIDE DEF k0, m, T, Good
      <4>1. [f EXCEPT ![k0] = y] \in [1 .. m + 1 -> Readings]
        BY <3>3
      <4>2. ASSUME NEW n \in k0 + 1 .. m + 1, n >= 1
            PROVE  [f EXCEPT ![k0] = y][n] = f[n]
        <5>1. n \in 1 .. m + 1 /\ n # k0
          BY <1>1, <3>2, <4>2
        <5> QED
          BY <5>1
      <4> QED
        BY <4>1, <4>2
    <3> HIDE DEF k0
    <3> QED
      BY <3>1, <3>3
  <2>6. ASSUME NEW k \in k0 .. m + 1, k >= 1
        PROVE  h[k] = TokensFrom(s, k, h)
    <3>1. k \in 1 .. m + 1 /\ k0 \in Int
      BY <1>1, <2>2, <2>6
    <3>2. \A n \in k + 1 .. m + 1 : h[n] = f[n] /\ f[n] \in Readings
      <4> SUFFICES ASSUME NEW n \in k + 1 .. m + 1
                   PROVE  h[n] = f[n] /\ f[n] \in Readings
        OBVIOUS
      <4> HIDE DEF h, k0, m, T, Good
      <4>1. n \in 1 .. m + 1 /\ n \in k0 + 1 .. m + 1 /\ n >= 1
        BY <1>1, <3>1
      <4> QED
        BY <2>5, <4>1
    <3>3. TokensFrom(s, k, h) = TokensFrom(s, k, f)
      <4> HIDE DEF h
      <4> QED
        BY <2>5, <3>1, <3>2, LaterOnly
    <3>4. CASE k = k0
      <4>1. h[k] = TokensFrom(s, k, f)
        BY <3>1, <3>4
      <4> QED
        BY <3>3, <4>1
    <3>5. CASE k # k0
      <4>1. k \in m + 2 - x .. m + 1 /\ k \in k0 + 1 .. m + 1
        BY <1>1, <2>2, <3>1, <3>5
      <4>2. f[k] = TokensFrom(s, k, f) /\ h[k] = f[k]
        <5> HIDE DEF h, k0
        <5> QED
          BY <2>4, <2>5, <2>6, <4>1
      <4> QED
        BY <3>3, <4>2
    <3> QED
      BY <3>4, <3>5
  <2>7. Good(h, x)
    <3> HIDE DEF h
    <3> QED
      BY <2>6
  <2> QED
    BY <2>1, <2>5, <2>7
<1>3. m \notin T
  BY <1>2
<1>4. PICK f \in [1 .. m + 1 -> Readings] : Good(f, m)
  BY <1>1, <1>3
<1>5. \A k \in 1 .. m + 1 : f[k] = TokensFrom(s, k, f)
  BY <1>1, <1>4
<1> QED
  BY <1>4, <1>5

(* Reference is the reading from the first character on.                     *)
LEMMA ReferenceOf ==
    ASSUME NEW s \in Seq(Chars)
    PROVE  \E f \in [1 .. Len(s) + 1 -> Readings] :
              /\ Reference(s) = f[1]
              /\ \A k \in 1 .. Len(s) + 1 : f[k] = TokensFrom(s, k, f)
<1> DEFINE m == Len(s)
           Eq(h) == h = [k \in 1 .. m + 1 |-> TokensFrom(s, k, h)]
           from == CHOOSE h : Eq(h)
<1>1. m \in Nat
  OBVIOUS
<1>2. Reference(s) = from[1]
  BY DEF Reference
<1>3. PICK f \in [1 .. m + 1 -> Readings] : \A k \in 1 .. m + 1 : f[k] = TokensFrom(s, k, f)
  BY ReadingsExist
<1>4. Eq(f)
  BY <1>3
<1>5. Eq(from)
  BY <1>4
<1> HIDE DEF from
<1>6. /\ DOMAIN from = 1 .. m + 1
      /\ \A k \in 1 .. m + 1 : from[k] = TokensFrom(s, k, from)
      /\ from = [k \in 1 .. m + 1 |-> from[k]]
  BY <1>5
<1> DEFINE T == {n \in Nat : n <= m /\ from[m + 1 - n] # f[m + 1 - n]}
<1>7. T = {}
  <2> SUFFICES ASSUME T # {}
               PROVE  FALSE
    OBVIOUS
  <2>1. PICK x \in T : \A y \in T : x <= y
    <3>1. T \subseteq Nat
      OBVIOUS
    <3> HIDE DEF T
    <3> QED
      BY <3>1, LeastNumber
  <2>2. x \in Nat /\ x <= m /\ from[m + 1 - x] # f[m + 1 - x]
    BY <2>1
  <2> DEFINE k == m + 1 - x
  <2>3. k \in 1 .. m + 1
    BY <1>1, <2>2
  <2>4. ASSUME NEW n \in k + 1 .. m + 1
        PROVE  from[n] = f[n]
    <3>1. m + 1 - n \in Nat /\ m + 1 - n <= m /\ ~(x <= m + 1 - n) /\ m + 1 - (m + 1 - n) = n
      BY <1>1, <2>2
    <3>2. m + 1 - n \notin T
      <4> HIDE DEF T
      <4> QED
        BY <2>1, <3>1
    <3> QED
      BY <3>1, <3>2
  <2>5. TokensFrom(s, k, from) = TokensFrom(s, k, f)
    <3> HIDE DEF k
    <3>1. \A n \in k + 1 .. m + 1 : from[n] = f[n] /\ f[n] \in Readings
      BY <1>1, <1>3, <2>3, <2>4
    <3> QED
      BY <2>3, <3>1, LaterOnly
  <2> QED
    BY <1>3, <1>6, <2>2, <2>3, <2>5
<1>8. m \in Nat /\ m <= m /\ m \notin T /\ m + 1 - m = 1
  BY <1>1, <1>7
<1>9. from[1] = f[1]
  BY <1>8
<1> QED
  BY <1>2, <1>3, <1>9
-----------------------------------------------------------------------------
(* The line that is read, its end included, as it was and as far as it       *)
(* counts.                                                                   *)
Original == Append(text, NUL)
Sentence == FirstLine(text)

(* The readings of a text.                                                   *)
IsReading(s, f) ==
    /\ f \in [1 .. Len(s) + 1 -> Readings]
    /\ Reference(s) = f[1]
    /\ \A k \in 1 .. Len(s) + 1 : f[k] = TokensFrom(s, k, f)
Rest(k) == (CHOOSE f : IsReading(Sentence, f))[k]

(* The strings returned so far.                                              *)
Words == [n \in DOMAIN tokens |-> StringAt(line, tokens[n])]

(* What was returned so far and what the text has from k on are its tokens.  *)
Agrees(k) ==
    /\ Reference(Sentence).ok = Rest(k).ok
    /\ Reference(Sentence).tokens = Words \o Rest(k).tokens

(* The string at k ends before the pointer.                                  *)
Terminated(l, k, p) ==
    \E e \in k .. p - 1 : e <= Len(l) /\ l[e] = NUL /\ \A n \in k .. e - 1 : l[n] # NUL

(* The pointer stays within the first line and its end, and the loop ends    *)
(* past it.                                                                  *)
ParseTypes ==
    /\ text \in Seq(Chars)
    /\ line \in Seq(Chars \cup {NUL}) /\ Len(line) = Len(text) + 1
    /\ pos \in 1 .. Len(Sentence) + 2
    /\ term \in BOOLEAN /\ (term <=> pos = Len(Sentence) + 2)
    /\ state \in {Pending, Plain, Quoted, Aposd}
    /\ start \in Nat \ {0} /\ tokens \in Seq(Nat \ {0})
    /\ ret \in {"none", "ok", "error"}

(* Where the loop is in the line: the returned strings and the tokens from   *)
(* there on are those of the text; within a token, nothing so far ends it.   *)
Delimiter == IF state = Quoted THEN Quote ELSE Apostrophe
Within ==
    /\ state = Pending => Agrees(IF term THEN Len(Sentence) + 1 ELSE pos)
    /\ state = Plain =>
         /\ ~term /\ start \in 1 .. pos - 1 /\ Agrees(start)
         /\ \A n \in start .. pos - 1 : Sentence[n] \notin {Space, Quote, Apostrophe}
    /\ state \in {Quoted, Aposd} =>
         /\ start \in 2 .. pos /\ start - 1 <= Len(Sentence) /\ Agrees(start - 1)
         /\ Sentence[start - 1] = Delimiter
         /\ \A n \in start .. pos - 1 : n <= Len(Sentence) => Sentence[n] # Delimiter

(* The line has not been written to where it is still to be read, nor in the *)
(* token being read; the tokens returned end before the pointer.             *)
Intact ==
    /\ \A n \in pos .. Len(line) : line[n] = Original[n]
    /\ state # Pending => \A n \in start .. Len(line) : line[n] = Original[n]
    /\ \A n \in DOMAIN tokens : Terminated(line, tokens[n], pos)

(* What a result says.                                                       *)
Returned ==
    /\ ret = "ok" => term /\ state = Pending
    /\ ret = "error" => Reference(Sentence).ok = FALSE

ParseInv == ParseTypes /\ Within /\ Intact /\ Returned

(* The characters are all different.                                         *)
LEMMA Characters ==
    /\ Chars = {Letter, Space, Newline, Quote, Apostrophe}
    /\ White = {Space, Newline, NUL}
    /\ Letter # Space /\ Letter # Newline /\ Letter # Quote /\ Letter # Apostrophe
    /\ Letter # NUL /\ Space # Newline /\ Space # Quote /\ Space # Apostrophe
    /\ Space # NUL /\ Newline # Quote /\ Newline # Apostrophe /\ Newline # NUL
    /\ Quote # Apostrophe /\ Quote # NUL /\ Apostrophe # NUL
BY DEF Chars, White, Letter, Space, Newline, Quote, Apostrophe, NUL

(* And so are the states of the loop.                                        *)
LEMMA States ==
    /\ Pending # Plain /\ Pending # Quoted /\ Pending # Aposd
    /\ Plain # Quoted /\ Plain # Aposd /\ Quoted # Aposd
BY DEF Pending, Plain, Quoted, Aposd

(* The first line of a text.                                                 *)
LEMMA SentenceOf ==
    ASSUME text \in Seq(Chars)
    PROVE  /\ Sentence \in Seq(Chars) /\ Len(Sentence) \in Nat /\ Len(Sentence) <= Len(text)
           /\ \A n \in 1 .. Len(Sentence) : /\ Sentence[n] = text[n] /\ Sentence[n] # Newline
                                            /\ Sentence[n] = Original[n] /\ Sentence[n] \in Chars
           /\ Original[Len(Sentence) + 1] \in {Newline, NUL}
           /\ Original \in Seq(Chars \cup {NUL}) /\ Len(Original) = Len(text) + 1
<1> DEFINE e == FirstOf(text, 1, {Newline})
<1>1. Len(text) \in Nat /\ 1 <= Len(text) + 1
  OBVIOUS
<1>2. /\ e \in 1 .. Len(text) + 1
      /\ e <= Len(text) => text[e] = Newline
      /\ \A n \in 1 .. e - 1 : text[n] # Newline
  BY <1>1, FirstIs
<1>3. Sentence \in Seq(Chars) /\ Sentence = [n \in 1 .. e - 1 |-> text[1 + n - 1]]
  <2>1. 1 \in Nat \ {0}
    OBVIOUS
  <2> HIDE DEF e
  <2>2. SubSeq(text, 1, e - 1) \in Seq(Chars)
        /\ SubSeq(text, 1, e - 1) = [n \in 1 .. e - 1 |-> text[1 + n - 1]]
    BY <1>2, <2>1, PartOf
  <2> QED
    BY <2>2 DEF Sentence, FirstLine, e
<1>4. /\ Original \in Seq(Chars \cup {NUL}) /\ Len(Original) = Len(text) + 1
      /\ \A n \in 1 .. Len(text) : Original[n] = text[n]
      /\ Original[Len(text) + 1] = NUL
  BY DEF Original
<1> HIDE DEF e
<1>5. Len(Sentence) = e - 1 /\ e - 1 \in Nat /\ e - 1 <= Len(text)
  BY <1>1, <1>2, <1>3
<1>6. ASSUME NEW n \in 1 .. e - 1
      PROVE  /\ Sentence[n] = text[n] /\ Sentence[n] # Newline
             /\ Sentence[n] = Original[n] /\ Sentence[n] \in Chars
  <2>1. n \in 1 .. Len(text) /\ 1 + n - 1 = n
    BY <1>1, <1>2
  <2> QED
    BY <1>2, <1>3, <1>4, <2>1
<1>7. Original[e] \in {Newline, NUL}
  <2>1. CASE e <= Len(text)
    BY <1>1, <1>2, <1>4, <2>1
  <2>2. CASE e = Len(text) + 1
    BY <1>4, <2>2
  <2> QED
    BY <1>1, <1>2, <2>1, <2>2
<1>8. (e - 1) + 1 = e
  BY <1>2
<1> QED
  BY <1>3, <1>4, <1>5, <1>6, <1>7, <1>8

(* The readings of the line.                                                 *)
LEMMA RestOf ==
    ASSUME text \in Seq(Chars)
    PROVE  /\ Reference(Sentence) = Rest(1)
           /\ \A k \in 1 .. Len(Sentence) + 1 :
                 Rest(k) \in Readings
           /\ \E f : /\ \A k \in 1 .. Len(Sentence) + 1 : Rest(k) = f[k] /\ f[k] = TokensFrom(Sentence, k, f)
<1> DEFINE f == CHOOSE f : IsReading(Sentence, f)
<1>1. \E h : IsReading(Sentence, h)
  BY SentenceOf, ReferenceOf DEF IsReading
<1>2. IsReading(Sentence, f)
  BY <1>1
<1>3. \A k : Rest(k) = f[k]
  BY DEF Rest
<1> HIDE DEF f
<1>4. 1 \in 1 .. Len(Sentence) + 1
  BY SentenceOf
<1> QED
  BY <1>2, <1>3, <1>4 DEF IsReading

(* A line of nothing has no tokens; a blank makes no difference.             *)
LEMMA RestBlank ==
    ASSUME text \in Seq(Chars)
    PROVE  /\ Rest(Len(Sentence) + 1) = [ok |-> TRUE, tokens |-> <<>>]
           /\ \A k \in 1 .. Len(Sentence) : Sentence[k] = Space => Rest(k) = Rest(k + 1)
<1>1. Sentence \in Seq(Chars) /\ Len(Sentence) \in Nat
  BY SentenceOf
<1>2. PICK f : \A k \in 1 .. Len(Sentence) + 1 : Rest(k) = f[k] /\ f[k] = TokensFrom(Sentence, k, f)
  BY RestOf
<1>3. Rest(Len(Sentence) + 1) = [ok |-> TRUE, tokens |-> <<>>]
  <2>1. Len(Sentence) + 1 \in 1 .. Len(Sentence) + 1 /\ Len(Sentence) + 1 > Len(Sentence)
    BY <1>1
  <2>2. TokensFrom(Sentence, Len(Sentence) + 1, f) = [ok |-> TRUE, tokens |-> <<>>]
    BY <1>1, <2>1, Cases
  <2> QED
    BY <1>2, <2>1, <2>2
<1>4. ASSUME NEW k \in 1 .. Len(Sentence), Sentence[k] = Space
      PROVE  Rest(k) = Rest(k + 1)
  <2>1. k \in 1 .. Len(Sentence) + 1 /\ k + 1 \in 1 .. Len(Sentence) + 1 /\ k <= Len(Sentence)
    BY <1>1
  <2>2. TokensFrom(Sentence, k, f) = f[k + 1]
    BY <1>1, <1>4, <2>1, Cases
  <2> QED
    BY <1>2, <2>1, <2>2
<1> QED
  BY <1>3, <1>4

(* A quoted token.                                                           *)
LEMMA RestQuoted ==
    ASSUME text \in Seq(Chars), NEW k \in 1 .. Len(Sentence),
           Sentence[k] \in {Quote, Apostrophe},
           NEW e \in k + 1 .. Len(Sentence) + 1,
           \A n \in k + 1 .. e - 1 : Sentence[n] # Sentence[k],
           e <= Len(Sentence) => Sentence[e] = Sentence[k]
    PROVE  /\ e > Len(Sentence) => Rest(k) = Bad
           /\ e <= Len(Sentence) =>
                Rest(k) = Preceded(SubSeq(Sentence, k + 1, e - 1), Rest(e + 1))
<1>1. Sentence \in Seq(Chars) /\ Len(Sentence) \in Nat
  BY SentenceOf
<1>2. PICK f : \A n \in 1 .. Len(Sentence) + 1 : Rest(n) = f[n] /\ f[n] = TokensFrom(Sentence, n, f)
  BY RestOf
<1>3. k + 1 \in Nat \ {0} /\ k \in 1 .. Len(Sentence) + 1 /\ k <= Len(Sentence)
      /\ (e <= Len(Sentence) => e + 1 \in 1 .. Len(Sentence) + 1)
  BY <1>1
<1>4. FirstOf(Sentence, k + 1, {Sentence[k]}) = e
  <2>1. /\ e <= Len(Sentence) => Sentence[e] \in {Sentence[k]}
        /\ \A n \in k + 1 .. e - 1 : Sentence[n] \notin {Sentence[k]}
    OBVIOUS
  <2> QED
    BY <1>1, <1>3, <2>1, FirstUnique
<1>5. /\ e > Len(Sentence) => TokensFrom(Sentence, k, f) = Bad
      /\ e <= Len(Sentence) =>
           TokensFrom(Sentence, k, f) = Preceded(SubSeq(Sentence, k + 1, e - 1), f[e + 1])
  BY <1>1, <1>3, <1>4, Cases
<1> QED
  BY <1>2, <1>3, <1>5

(* A plain token.                                                            *)
LEMMA RestPlain ==
    ASSUME text \in Seq(Chars), NEW k \in 1 .. Len(Sentence),
           NEW e \in k + 1 .. Len(Sentence) + 1,
           \A n \in k .. e - 1 : Sentence[n] \notin {Space, Quote, Apostrophe},
           e <= Len(Sentence) => Sentence[e] \in {Space, Quote, Apostrophe}
    PROVE  /\ e <= Len(Sentence) /\ Sentence[e] # Space => Rest(k) = Bad
           /\ e > Len(Sentence) \/ Sentence[e] = Space =>
                Rest(k) = Preceded(SubSeq(Sentence, k, e - 1), Rest(e))
<1>1. Sentence \in Seq(Chars) /\ Len(Sentence) \in Nat
  BY SentenceOf
<1>2. PICK f : \A n \in 1 .. Len(Sentence) + 1 : Rest(n) = f[n] /\ f[n] = TokensFrom(Sentence, n, f)
  BY RestOf
<1>3. /\ k \in Nat \ {0} /\ k \in 1 .. Len(Sentence) + 1 /\ k <= Len(Sentence)
      /\ e \in k .. Len(Sentence) + 1 /\ e \in 1 .. Len(Sentence) + 1 /\ k \in k .. e - 1
  BY <1>1
<1>4. FirstOf(Sentence, k, {Space, Quote, Apostrophe}) = e
  BY <1>1, <1>3, FirstUnique
<1>5. Sentence[k] \notin {Space, Quote, Apostrophe}
  BY <1>3
<1>6. /\ e <= Len(Sentence) /\ Sentence[e] # Space => TokensFrom(Sentence, k, f) = Bad
      /\ e > Len(Sentence) \/ Sentence[e] = Space =>
           TokensFrom(Sentence, k, f) = Preceded(SubSeq(Sentence, k, e - 1), f[e])
  BY <1>1, <1>3, <1>4, <1>5, Cases
<1> QED
  BY <1>2, <1>3, <1>6

(* A string that ends before a position does not depend on what is after.    *)
LEMMA StringOf ==
    ASSUME NEW V, NEW l \in Seq(V), NEW k \in Nat \ {0}, NEW e \in k .. Len(l), l[e] = NUL,
           \A n \in k .. e - 1 : l[n] # NUL
    PROVE  /\ StringAt(l, k) = [n \in 1 .. e - k |-> l[k + n - 1]]
           /\ StringAt(l, k) \in Seq(V)
<1>1. Len(l) \in Nat /\ e \in k .. Len(l) + 1
  OBVIOUS
<1>2. FirstOf(l, k, {NUL}) = e
  <2>1. l[e] \in {NUL} /\ \A n \in k .. e - 1 : l[n] \notin {NUL}
    OBVIOUS
  <2> QED
    BY <1>1, <2>1, FirstUnique
<1>3. /\ SubSeq(l, k, e - 1) \in Seq(V)
      /\ SubSeq(l, k, e - 1) = [n \in 1 .. e - k |-> l[k + n - 1]]
  BY <1>1, PartOf
<1> QED
  BY <1>2, <1>3, Zenon DEF StringAt

(* The same for the lines of parse_line.                                     *)
LEMMA StringsOf ==
    \A l \in Seq(Chars \cup {NUL}) : \A k \in Nat \ {0} : \A e \in k .. Len(l) :
        l[e] = NUL /\ (\A n \in k .. e - 1 : l[n] # NUL) =>
            StringAt(l, k) = [n \in 1 .. e - k |-> l[k + n - 1]]
BY StringOf

(* A function on the numbers up to d is a sequence.                          *)
LEMMA FunctionIsSeq ==
    ASSUME NEW V, NEW d \in Nat, NEW y \in [1 .. d -> V]
    PROVE  y \in Seq(V) /\ Len(y) = d
OBVIOUS

(* The strings that were returned stay what they are while the rest of the   *)
(* line is cut.                                                              *)
LEMMA WordsKept ==
    ASSUME ParseTypes, Intact, NEW l \in Seq(Chars \cup {NUL}), Len(l) = Len(line),
           \A n \in 1 .. Len(line) : n < pos => l[n] = line[n],
           NEW k \in DOMAIN tokens
    PROVE  /\ StringAt(l, tokens[k]) = StringAt(line, tokens[k])
           /\ StringAt(line, tokens[k]) \in Seq(Chars \cup {NUL})
           /\ Terminated(l, tokens[k], pos)
<1> DEFINE a == tokens[k]
<1>1. a \in Nat \ {0} /\ line \in Seq(Chars \cup {NUL}) /\ Len(line) \in Nat /\ pos \in Nat
  BY SentenceOf DEF ParseTypes
<1>2. Terminated(line, a, pos)
  BY DEF Intact
<1> HIDE DEF a
<1>3. PICK e \in a .. pos - 1 : e <= Len(line) /\ line[e] = NUL /\ \A n \in a .. e - 1 : line[n] # NUL
  BY <1>2 DEF Terminated
<1>4. e \in a .. Len(line) /\ e \in a .. Len(l) /\ e \in Nat /\ e < pos
  BY <1>1, <1>3
<1>5. \A n \in a .. e : l[n] = line[n]
  BY <1>1, <1>4
<1>6. l[e] = NUL /\ \A n \in a .. e - 1 : l[n] # NUL
  BY <1>1, <1>3, <1>4, <1>5
<1>7. Terminated(l, a, pos)
  BY <1>3, <1>4, <1>6 DEF Terminated
<1>8. /\ StringAt(line, a) = [n \in 1 .. e - a |-> line[a + n - 1]]
      /\ StringAt(line, a) \in Seq(Chars \cup {NUL})
  BY <1>1, <1>3, <1>4, StringOf
<1>9. StringAt(l, a) = [n \in 1 .. e - a |-> l[a + n - 1]]
  BY <1>1, <1>4, <1>6, StringOf
<1>10. \A n \in 1 .. e - a : l[a + n - 1] = line[a + n - 1]
  <2> SUFFICES ASSUME NEW n \in 1 .. e - a
               PROVE  l[a + n - 1] = line[a + n - 1]
    OBVIOUS
  <2>1. a + n - 1 \in a .. e
    BY <1>1, <1>4
  <2> QED
    BY <1>5, <2>1
<1>11. [n \in 1 .. e - a |-> l[a + n - 1]] = [n \in 1 .. e - a |-> line[a + n - 1]]
  BY <1>10
<1> QED
  BY <1>7, <1>8, <1>9, <1>11 DEF a

(* The strings that were returned are strings.                               *)
LEMMA WordsType ==
    ASSUME ParseTypes, Intact
    PROVE  Words \in Seq(Seq(Chars \cup {NUL})) /\ Len(Words) = Len(tokens)
<1>1. line \in Seq(Chars \cup {NUL}) /\ tokens \in Seq(Nat \ {0}) /\ Len(tokens) \in Nat
      /\ DOMAIN tokens = 1 .. Len(tokens)
  BY DEF ParseTypes
<1>2. \A k \in DOMAIN tokens : StringAt(line, tokens[k]) \in Seq(Chars \cup {NUL})
  BY <1>1, WordsKept
<1>3. Words \in [1 .. Len(tokens) -> Seq(Chars \cup {NUL})]
  BY <1>1, <1>2 DEF Words
<1> QED
  BY <1>1, <1>3

(* The text, and so what its tokens are, does not change.                    *)
LEMMA SameText ==
    ASSUME text' = text
    PROVE  Sentence' = Sentence /\ Original' = Original /\ \A k : Rest(k)' = Rest(k)
<1>1. Sentence' = Sentence /\ Original' = Original
  BY DEF Sentence, Original
<1>2. \A k : Rest(k)' = Rest(k)
  BY <1>1 DEF Rest
<1> QED
  BY <1>1, <1>2

(* A step that cuts nothing.                                                 *)
LEMMA NothingCut ==
    ASSUME UNCHANGED <<text, line, tokens>>
    PROVE  Words' = Words /\ \A k : Agrees(k) => Agrees(k)'
<1>1. Words' = Words
  BY DEF Words
<1> QED
  BY <1>1, SameText DEF Agrees

(* A sequence that is longer by one.                                         *)
LEMMA AppendIs ==
    ASSUME NEW V, NEW x \in Seq(V), NEW w \in V, NEW y \in Seq(V), Len(y) = Len(x) + 1,
           y[Len(x) + 1] = w, \A n \in 1 .. Len(x) : y[n] = x[n]
    PROVE  y = Append(x, w)
<1>1. /\ Append(x, w) \in Seq(V) /\ Len(Append(x, w)) = Len(x) + 1 /\ Len(x) \in Nat
      /\ Append(x, w)[Len(x) + 1] = w
      /\ \A n \in 1 .. Len(x) : Append(x, w)[n] = x[n]
  OBVIOUS
<1>2. ASSUME NEW n \in 1 .. Len(y)
      PROVE  y[n] = Append(x, w)[n]
  <2>1. n = Len(x) + 1 \/ n \in 1 .. Len(x)
    BY <1>1
  <2> QED
    BY <1>1, <2>1
<1> QED
  BY <1>1, <1>2, SeqEqual

(* The end of a token: the strings returned are one more.                    *)
LEMMA WordsGrow ==
    ASSUME ParseTypes, Intact, state # Pending, start \in 1 .. pos, pos <= Len(Sentence) + 1,
           line' = [line EXCEPT ![pos] = NUL], tokens' = Append(tokens, start)
    PROVE  /\ line' \in Seq(Chars \cup {NUL}) /\ Len(line') = Len(line)
           /\ tokens' \in Seq(Nat \ {0})
           /\ \A n \in 1 .. Len(line) : n # pos => line'[n] = line[n]
           /\ Words' = Append(Words, SubSeq(Sentence, start, pos - 1))
           /\ \A n \in DOMAIN tokens' : Terminated(line', tokens'[n], pos + 1)
<1>1. /\ text \in Seq(Chars) /\ line \in Seq(Chars \cup {NUL}) /\ Len(line) = Len(text) + 1
      /\ tokens \in Seq(Nat \ {0}) /\ start \in Nat \ {0} /\ pos \in Nat \ {0}
      /\ \A n \in start .. Len(line) : line[n] = Original[n]
  BY SentenceOf DEF ParseTypes, Intact
<1>2. /\ Sentence \in Seq(Chars) /\ Len(Sentence) \in Nat /\ Len(Sentence) <= Len(text)
      /\ \A n \in 1 .. Len(Sentence) : Sentence[n] = Original[n] /\ Sentence[n] \in Chars
  BY <1>1, SentenceOf
<1>3. pos \in 1 .. Len(line) /\ Len(line) \in Nat
  BY <1>1, <1>2
<1>4. /\ line' \in Seq(Chars \cup {NUL}) /\ Len(line') = Len(line)
      /\ \A n \in 1 .. Len(line) : n # pos => line'[n] = line[n]
      /\ line'[pos] = NUL
  BY <1>1, <1>3
<1>5. /\ tokens' \in Seq(Nat \ {0}) /\ Len(tokens') = Len(tokens) + 1 /\ Len(tokens) \in Nat
      /\ \A n \in 1 .. Len(tokens) : tokens'[n] = tokens[n]
      /\ tokens'[Len(tokens) + 1] = start
  BY <1>1
<1>6. ASSUME NEW k \in 1 .. Len(tokens)
      PROVE  /\ StringAt(line', tokens[k]) = StringAt(line, tokens[k])
             /\ Terminated(line', tokens[k], pos)
  <2>1. \A n \in 1 .. Len(line) : n < pos => line'[n] = line[n]
    BY <1>1, <1>4
  <2>2. k \in DOMAIN tokens
    BY <1>1
  <2> QED
    BY <1>4, <2>1, <2>2, WordsKept
<1>7. \A n \in start .. pos - 1 : n \in 1 .. Len(Sentence) /\ n \in 1 .. Len(line) /\ n # pos
  BY <1>1, <1>2, <1>3
<1>8. ASSUME NEW n \in start .. pos - 1
      PROVE  line'[n] = Sentence[n] /\ line'[n] # NUL
  <2>1. n \in 1 .. Len(Sentence) /\ n \in 1 .. Len(line) /\ n # pos /\ n \in start .. Len(line)
    BY <1>3, <1>7
  <2>2. line'[n] = Sentence[n] /\ Sentence[n] \in Chars
    BY <1>1, <1>2, <1>4, <2>1
  <2> QED
    BY <2>2, Characters
<1>9. pos \in start .. Len(line')
  BY <1>1, <1>3, <1>4
<1>10. StringAt(line', start) = SubSeq(Sentence, start, pos - 1)
  <2>1. StringAt(line', start) = [n \in 1 .. pos - start |-> line'[start + n - 1]]
    <3>1. start \in Nat \ {0}
      BY <1>1
    <3>2. ASSUME NEW l \in Seq(Chars \cup {NUL}), pos \in start .. Len(l), l[pos] = NUL,
                 \A n \in start .. pos - 1 : l[n] # NUL
          PROVE  StringAt(l, start) = [n \in 1 .. pos - start |-> l[start + n - 1]]
      BY <3>1, <3>2, StringsOf, Zenon
    <3> QED
      BY <1>4, <1>8, <1>9, <3>2, Zenon
  <2>2. pos \in start .. Len(Sentence) + 1
    BY <1>1, <1>2
  <2>3. SubSeq(Sentence, start, pos - 1) = [n \in 1 .. pos - start |-> Sentence[start + n - 1]]
    BY <1>1, <1>2, <2>2, PartOf
  <2>4. ASSUME NEW n \in 1 .. pos - start
        PROVE  line'[start + n - 1] = Sentence[start + n - 1]
    <3>1. start + n - 1 \in start .. pos - 1
      BY <1>1
    <3> QED
      BY <1>8, <3>1
  <2>5. [n \in 1 .. pos - start |-> line'[start + n - 1]]
          = [n \in 1 .. pos - start |-> Sentence[start + n - 1]]
    BY <2>4
  <2> QED
    BY <2>1, <2>3, <2>5, Zenon
<1>11. Terminated(line', start, pos + 1)
  <2>1. pos \in start .. (pos + 1) - 1 /\ pos <= Len(line')
    BY <1>1, <1>3, <1>4
  <2> QED
    BY <1>4, <1>8, <2>1 DEF Terminated
<1>12. \A n \in DOMAIN tokens' : Terminated(line', tokens'[n], pos + 1)
  <2> SUFFICES ASSUME NEW n \in DOMAIN tokens'
               PROVE  Terminated(line', tokens'[n], pos + 1)
    OBVIOUS
  <2>1. n \in 1 .. Len(tokens) \/ n = Len(tokens) + 1
    BY <1>5
  <2>2. CASE n \in 1 .. Len(tokens)
    <3>1. Terminated(line', tokens[n], pos) /\ tokens'[n] = tokens[n] /\ tokens[n] \in Nat
      <4>1. Terminated(line', tokens[n], pos)
        BY <1>6, <2>2, Zenon
      <4>2. tokens[n] \in Nat
        BY <1>1, <2>2
      <4> QED
        BY <1>5, <2>2, <4>1, <4>2, Zenon
    <3>2. \A e \in tokens[n] .. pos - 1 : e \in tokens[n] .. (pos + 1) - 1
      BY <1>1, <3>1
    <3> QED
      BY <3>1, <3>2 DEF Terminated
  <2>3. CASE n = Len(tokens) + 1
    BY <1>5, <1>11, <2>3
  <2> QED
    BY <2>1, <2>2, <2>3
<1>13. Words' = Append(Words, SubSeq(Sentence, start, pos - 1))
  <2> DEFINE w == SubSeq(Sentence, start, pos - 1)
  <2>1. Words \in Seq(Seq(Chars \cup {NUL})) /\ Len(Words) = Len(tokens)
    BY WordsType
  <2>2. \A n \in 1 .. Len(tokens) : Words[n] = StringAt(line, tokens[n])
    BY <1>1 DEF Words
  <2>3. Words' = [n \in 1 .. Len(tokens) + 1 |-> StringAt(line', tokens'[n])]
    BY <1>5 DEF Words
  <2>4. \A n \in 1 .. Len(tokens) : StringAt(line', tokens'[n]) = Words[n]
    BY <1>5, <1>6, <2>2, Zenon
  <2>5. StringAt(line', tokens'[Len(tokens) + 1]) = w
    BY <1>5, <1>10, Zenon
  <2>6. w \in Seq(Chars \cup {NUL})
    <3>1. pos \in start .. Len(Sentence) + 1
      BY <1>1, <1>2
    <3>2. w \in Seq(Chars)
      BY <1>1, <1>2, <3>1, PartOf
    <3> QED
      BY <3>2, SeqMonotonic
  <2> HIDE DEF w
  <2> DEFINE d == Len(tokens) + 1
  <2>7. d \in Nat /\ d \in 1 .. d /\ \A n \in 1 .. Len(tokens) : n \in 1 .. d
    BY <1>5
  <2>8. d = Len(Words) + 1
    BY <2>1
  <2> HIDE DEF d
  <2>9. \A n \in 1 .. d : Words'[n] = StringAt(line', tokens'[n])
    BY <2>3, Zenon DEF d
  <2>10. Words'[d] = w /\ \A n \in 1 .. Len(Words) : Words'[n] = Words[n]
    BY <2>1, <2>4, <2>5, <2>7, <2>9, Zenon DEF d
  <2>11. \A n \in 1 .. d : StringAt(line', tokens'[n]) \in Seq(Chars \cup {NUL})
    <3> SUFFICES ASSUME NEW n \in 1 .. d
                 PROVE  StringAt(line', tokens'[n]) \in Seq(Chars \cup {NUL})
      OBVIOUS
    <3>1. n = d \/ n \in 1 .. Len(tokens)
      BY <1>5 DEF d
    <3>2. \A k \in 1 .. Len(tokens) : Words[k] \in Seq(Chars \cup {NUL})
      BY <2>1
    <3> QED
      BY <2>4, <2>5, <2>6, <3>1, <3>2, Zenon DEF d
  <2>12. Words' \in [1 .. d -> Seq(Chars \cup {NUL})]
    BY <2>3, <2>11, Zenon DEF d
  <2>13. Words' \in Seq(Seq(Chars \cup {NUL})) /\ Len(Words') = Len(Words) + 1
    BY <2>7, <2>8, <2>12, FunctionIsSeq, Zenon
  <2>14. Words'[Len(Words) + 1] = w
    BY <2>8, <2>10, Zenon
  <2>15. Words' = Append(Words, w)
    BY <2>1, <2>6, <2>10, <2>13, <2>14, AppendIs, Zenon
  <2> QED
    BY <2>15 DEF w
<1> QED
  BY <1>4, <1>5, <1>12, <1>13

(* With the token at k cut off, the rest agrees.                             *)
LEMMA AgreesOn ==
    ASSUME ParseTypes, Intact, text' = text, NEW k, Agrees(k), NEW w \in Seq(Chars),
           NEW e \in 1 .. Len(Sentence) + 1,
           Rest(k) = Preceded(w, Rest(e)), Words' = Append(Words, w)
    PROVE  Agrees(e)'
<1>1. Rest(e) \in Readings
  BY RestOf DEF ParseTypes
<1>2. Rest(e).tokens \in Seq(Seq(Chars))
  BY <1>1 DEF Readings
<1> DEFINE V == Seq(Chars \cup {NUL})
<1>3. Words \in Seq(V)
  BY WordsType
<1>4. w \in V
  BY SeqMonotonic
<1>5. Rest(e).tokens \in Seq(V)
  <2>1. Seq(Chars) \subseteq V
    BY SeqMonotonic
  <2> HIDE DEF V
  <2> QED
    BY <1>2, <2>1, SeqMonotonic
<1>6. Rest(k).ok = Rest(e).ok /\ Rest(k).tokens = <<w>> \o Rest(e).tokens
  BY DEF Preceded
<1>7. ASSUME NEW r \in Seq(V), NEW x \in Seq(V)
      PROVE  x \o (<<w>> \o r) = Append(x, w) \o r
  <2> HIDE DEF V
  <2> QED
    BY <1>4, <1>7
<1>8. Words' \o Rest(e).tokens = Words \o Rest(k).tokens
  BY <1>3, <1>5, <1>6, <1>7
<1> QED
  BY <1>6, <1>8, SameText DEF Agrees

(* The character the pointer is at, and where the line ends.                 *)
LEMMA AtPointer ==
    ASSUME ParseTypes, Intact, ~term
    PROVE  /\ Len(Sentence) \in Nat /\ pos \in 1 .. Len(Sentence) + 1 /\ pos \in Nat \ {0}
           /\ Len(Sentence) + 1 <= Len(line) /\ pos + 1 \in 1 .. Len(Sentence) + 2
           /\ pos <= Len(Sentence) => /\ line[pos] = Sentence[pos]
                                      /\ line[pos] \in {Letter, Space, Quote, Apostrophe}
           /\ pos = Len(Sentence) + 1 => line[pos] \in {NUL, Newline}
           /\ line[pos] \in {NUL, Newline} <=> pos + 1 = Len(Sentence) + 2
<1>1. /\ Len(Sentence) \in Nat /\ Len(Sentence) <= Len(text) /\ Len(text) \in Nat
      /\ \A n \in 1 .. Len(Sentence) : /\ Sentence[n] = Original[n] /\ Sentence[n] # Newline
                                       /\ Sentence[n] \in Chars
      /\ Original[Len(Sentence) + 1] \in {Newline, NUL}
  BY SentenceOf DEF ParseTypes
<1>2. /\ pos \in 1 .. Len(Sentence) + 2 /\ pos # Len(Sentence) + 2
      /\ Len(line) = Len(text) + 1
      /\ \A n \in pos .. Len(line) : line[n] = Original[n]
  BY DEF ParseTypes, Intact
<1>3. /\ pos \in 1 .. Len(Sentence) + 1 /\ pos \in Nat \ {0} /\ pos \in pos .. Len(line)
      /\ Len(Sentence) + 1 <= Len(line) /\ pos + 1 \in 1 .. Len(Sentence) + 2
      /\ pos <= Len(Sentence) => pos \in 1 .. Len(Sentence)
      /\ pos <= Len(Sentence) \/ pos = Len(Sentence) + 1
      /\ pos + 1 = Len(Sentence) + 2 <=> pos = Len(Sentence) + 1
      /\ pos <= Len(Sentence) => pos # Len(Sentence) + 1
  BY <1>1, <1>2
<1>4. line[pos] = Original[pos]
  BY <1>2, <1>3
<1>5. pos <= Len(Sentence) => /\ line[pos] = Sentence[pos]
                              /\ line[pos] \in {Letter, Space, Quote, Apostrophe}
  BY <1>1, <1>3, <1>4, Characters, Zenon
<1>6. pos = Len(Sentence) + 1 => line[pos] \in {NUL, Newline}
  BY <1>1, <1>4
<1>7. line[pos] \in {NUL, Newline} <=> pos + 1 = Len(Sentence) + 2
  BY <1>3, <1>5, <1>6, Characters, Zenon
<1> QED  BY <1>1, <1>3, <1>5, <1>6, <1>7, Zenon

(* The pointer moves on and nothing is cut.                                  *)
LEMMA MovesOn ==
    ASSUME ParseTypes, Intact, Returned, ~term, ret = "none", Advance(line[pos]),
           UNCHANGED <<text, line, tokens, ret>>,
           state' \in {Pending, Plain, Quoted, Aposd}, start' \in Nat \ {0},
           state' # Pending => start' >= pos \/ (state # Pending /\ start' = start)
    PROVE  ParseTypes' /\ Intact' /\ Returned'
<1>1. /\ Len(Sentence) \in Nat /\ pos \in Nat \ {0} /\ pos + 1 \in 1 .. Len(Sentence) + 2
      /\ line[pos] \in {NUL, Newline} <=> pos + 1 = Len(Sentence) + 2
  BY AtPointer
<1>2. Sentence' = Sentence /\ Original' = Original
  BY SameText
<1>3. pos' = pos + 1 /\ term' = (line[pos] \in {NUL, Newline})
  BY DEF Advance
<1>4. ParseTypes'
  <2>1. pos' \in 1 .. Len(Sentence') + 2
    BY <1>1, <1>2, <1>3
  <2>2. term' \in BOOLEAN /\ (term' <=> pos' = Len(Sentence') + 2)
    <3>1. term' <=> line[pos] \in {NUL, Newline}
      BY <1>3
    <3>2. term' \in BOOLEAN
      BY <1>3, SMT
    <3> QED  BY <1>1, <1>2, <1>3, <3>1, <3>2
  <2> QED  BY <2>1, <2>2, Zenon DEF ParseTypes
<1>5. Intact'
  <2>1. \A n \in pos .. Len(line) : line[n] = Original[n]
    BY DEF Intact
  <2>2. \A n \in pos' .. Len(line') : line'[n] = Original'[n]
    BY <1>1, <1>2, <1>3, <2>1
  <2>3. ASSUME state' # Pending
        PROVE  \A n \in start' .. Len(line') : line'[n] = Original'[n]
    <3>1. CASE start' >= pos
      BY <3>1, <1>1, <1>2, <2>1
    <3>2. CASE state # Pending /\ start' = start
      BY <3>2, <1>2 DEF Intact
    <3> QED  BY <2>3, <3>1, <3>2
  <2>4. ASSUME NEW n \in DOMAIN tokens
        PROVE  Terminated(line, tokens[n], pos + 1)
    <3>1. Terminated(line, tokens[n], pos) /\ tokens[n] \in Nat \ {0}
      BY DEF Intact, ParseTypes
    <3>2. PICK e \in tokens[n] .. pos - 1 : e <= Len(line) /\ line[e] = NUL /\ \A q \in tokens[n] .. e - 1 : line[q] # NUL
      BY <3>1 DEF Terminated
    <3>3. e \in tokens[n] .. (pos + 1) - 1
      BY <1>1, <3>1
    <3> QED  BY <3>2, <3>3 DEF Terminated
  <2>5. \A n \in DOMAIN tokens' : Terminated(line', tokens'[n], pos')
    BY <1>3, <2>4
  <2> QED  BY <2>2, <2>3, <2>5, Zenon DEF Intact, Terminated
<1>6. Returned'
  BY DEF Returned
<1> QED  BY <1>4, <1>5, <1>6

(* The same for the places the invariant speaks of.                          *)
LEMMA AgreesThere ==
    ASSUME NEW k, Agrees(k)'
    PROVE  /\ k = start' => Agrees(start)'
           /\ k = start' - 1 => Agrees(start - 1)'
           /\ k = (IF term' THEN Len(Sentence') + 1 ELSE pos') =>
                Agrees(IF term THEN Len(Sentence) + 1 ELSE pos)'
<1>1. k = start' => Agrees(start)'
  BY DEF Agrees, Rest
<1>2. k = start' - 1 => Agrees(start - 1)'
  BY DEF Agrees, Rest
<1>3. k = (IF term' THEN Len(Sentence') + 1 ELSE pos') =>
        Agrees(IF term THEN Len(Sentence) + 1 ELSE pos)'
  BY DEF Agrees, Rest
<1> QED  BY <1>1, <1>2, <1>3

(* A turn outside a token.                                                   *)
LEMMA BeginStep ==
    ASSUME ParseInv, ret = "none", ~term, Begin(line[pos]), Advance(line[pos]),
           UNCHANGED <<text, ret>>
    PROVE  ParseInv'
<1> DEFINE m == Len(Sentence)
           ch == line[pos]
<1>1. ParseTypes /\ Within /\ Intact /\ Returned /\ text \in Seq(Chars)
  BY DEF ParseInv, ParseTypes
<1>2. /\ m \in Nat /\ pos \in 1 .. m + 1 /\ pos \in Nat \ {0}
      /\ pos <= m => ch = Sentence[pos] /\ ch \in {Letter, Space, Quote, Apostrophe}
      /\ pos = m + 1 => ch \in {NUL, Newline}
      /\ ch \in {NUL, Newline} <=> pos + 1 = m + 2
  BY <1>1, AtPointer
<1>3. /\ state = Pending /\ pos' = pos + 1 /\ line' = line /\ tokens' = tokens
      /\ text' = text /\ ret' = ret /\ (term' <=> ch \in {NUL, Newline})
      /\ start \in Nat \ {0}
  BY <1>1 DEF Begin, Advance, ParseTypes
<1>4. Sentence' = Sentence /\ Len(Sentence') = m
  BY <1>3, SameText
<1>5. \A k : Agrees(k) => Agrees(k)'
  BY <1>3, NothingCut
<1>6. Agrees(pos)
  BY <1>1, <1>3 DEF Within
<1>7. CASE ch \in White
  <2>1. state' = Pending /\ start' = start
    BY <1>3, <1>7, Characters DEF Begin
  <2>2. ParseTypes' /\ Intact' /\ Returned'
    BY <1>1, <1>3, <2>1, MovesOn
  <2>3. \E k : Agrees(k) /\ k = (IF term' THEN Len(Sentence') + 1 ELSE pos')
    <3>1. CASE pos <= m
      <4>1. ch = Space /\ Sentence[pos] = Space /\ ~term'
        BY <1>2, <1>3, <1>7, <3>1, Characters, Zenon
      <4>2. pos \in 1 .. m
        BY <1>2, <3>1
      <4>3. Rest(pos) = Rest(pos + 1)
        BY <1>1, <4>1, <4>2, RestBlank
      <4>4. Agrees(pos + 1)
        BY <1>6, <4>3, Zenon DEF Agrees
      <4> QED  BY <1>3, <4>1, <4>4
    <3>2. CASE pos = m + 1
      BY <1>2, <1>3, <1>4, <1>6, <3>2
    <3> QED  BY <1>2, <3>1, <3>2
  <2>4. Within'
    <3>1. Agrees(IF term THEN Len(Sentence) + 1 ELSE pos)'
      BY <1>5, <2>3, AgreesThere, Zenon
    <3> QED  BY <2>1, <3>1, States DEF Within
  <2> QED  BY <2>2, <2>4 DEF ParseInv
<1>8. ASSUME ch \notin White
      PROVE  pos \in 1 .. m /\ ~term' /\ Sentence[pos] = ch /\ ch \in {Letter, Quote, Apostrophe}
  <2>1. pos <= m
    BY <1>2, <1>8, Characters
  <2> QED  BY <1>2, <1>3, <1>8, <2>1, Characters
<1>9. CASE ch \in {Quote, Apostrophe}
  <2>0. ch \notin White
    BY <1>9, Characters
  <2>1. start' = pos + 1 /\ (ch = Quote => state' = Quoted) /\ (ch = Apostrophe => state' = Aposd)
    BY <1>9, <2>0, Characters DEF Begin
  <2>2. ParseTypes' /\ Intact' /\ Returned'
    <3>1. /\ state' \in {Pending, Plain, Quoted, Aposd} /\ start' \in Nat \ {0} /\ start' >= pos
      BY <1>2, <1>9, <2>1
    <3> QED  BY <1>1, <1>3, <3>1, MovesOn
  <2>3. Delimiter' = ch /\ state' \in {Quoted, Aposd}
    BY <1>9, <2>1, States, Characters DEF Delimiter
  <2>4. Agrees(start - 1)'
    <3>1. pos = start' - 1
      BY <1>2, <2>1
    <3> QED  BY <1>5, <1>6, <3>1, AgreesThere, Zenon
  <2>5. /\ start' \in 2 .. pos' /\ start' - 1 <= Len(Sentence') /\ Sentence'[start' - 1] = Delimiter'
        /\ \A n \in start' .. pos' - 1 : n <= Len(Sentence') => Sentence'[n] # Delimiter'
    <3>1. pos \in 1 .. m /\ Sentence[pos] = ch
      BY <1>8, <2>0
    <3>2. start' - 1 = pos /\ start' .. pos' - 1 = {} /\ start' \in 2 .. pos' /\ start' - 1 <= m
      BY <1>2, <1>3, <2>1, <3>1
    <3> QED  BY <1>4, <2>3, <3>1, <3>2, Zenon
  <2>6. Within'
    BY <2>3, <2>4, <2>5, States, Zenon DEF Within
  <2> QED  BY <2>2, <2>6 DEF ParseInv
<1>10. CASE ch = Letter
  <2>0. ch \notin White
    BY <1>10, Characters
  <2>1. start' = pos /\ state' = Plain
    BY <1>10, <2>0, Characters DEF Begin
  <2>2. ParseTypes' /\ Intact' /\ Returned'
    <3>1. /\ state' \in {Pending, Plain, Quoted, Aposd} /\ start' \in Nat \ {0} /\ start' >= pos
      BY <1>2, <2>1
    <3> QED  BY <1>1, <1>3, <3>1, MovesOn
  <2>3. Agrees(start)'
    BY <1>5, <1>6, <2>1, AgreesThere, Zenon
  <2>4. \A n \in start' .. pos' - 1 : Sentence'[n] \notin {Space, Quote, Apostrophe}
    <3>1. Sentence[pos] = Letter
      BY <1>8, <1>10, <2>0
    <3>2. start' .. pos' - 1 = {pos}
      BY <1>2, <1>3, <2>1
    <3> QED  BY <1>4, <3>1, <3>2, Characters
  <2>5. start' \in 1 .. pos' - 1 /\ ~term'
    BY <1>2, <1>3, <1>8, <2>0, <2>1
  <2>6. Within'
    BY <2>1, <2>3, <2>4, <2>5, States, Zenon DEF Within
  <2> QED  BY <2>2, <2>6 DEF ParseInv
<1> QED  BY <1>7, <1>8, <1>9, <1>10, Zenon

(* A turn within a token.                                                    *)
LEMMA InsideStep ==
    ASSUME ParseInv, ret = "none", ~term, Inside(line[pos]), Advance(line[pos]),
           UNCHANGED <<text, ret>>
    PROVE  ParseInv'
<1> DEFINE m == Len(Sentence)
           ch == line[pos]
<1>1. ParseTypes /\ Within /\ Intact /\ Returned /\ text \in Seq(Chars)
  BY DEF ParseInv, ParseTypes
<1>2. /\ m \in Nat /\ pos \in 1 .. m + 1 /\ pos \in Nat \ {0}
      /\ pos <= m => ch = Sentence[pos] /\ ch \in {Letter, Space, Quote, Apostrophe}
      /\ pos = m + 1 => ch \in {NUL, Newline}
      /\ ch \in {NUL, Newline} <=> pos + 1 = m + 2
  BY <1>1, AtPointer
<1>3. /\ state # Pending /\ ~Ends(state, ch) /\ ~Forbidden(state, ch)
      /\ pos' = pos + 1 /\ line' = line /\ tokens' = tokens
      /\ state' = state /\ start' = start
      /\ text' = text /\ ret' = ret /\ (term' <=> ch \in {NUL, Newline})
      /\ start \in Nat \ {0} /\ state \in {Pending, Plain, Quoted, Aposd}
  BY <1>1 DEF Inside, Advance, ParseTypes
<1>4. Sentence' = Sentence /\ Len(Sentence') = m
  BY <1>3, SameText
<1>5. \A k : Agrees(k) => Agrees(k)'
  BY <1>3, NothingCut
<1>6. ParseTypes' /\ Intact' /\ Returned'
  BY <1>1, <1>3, MovesOn
<1>7. CASE state = Plain
  <2>1. /\ start \in 1 .. pos - 1 /\ Agrees(start)
        /\ \A n \in start .. pos - 1 : Sentence[n] \notin {Space, Quote, Apostrophe}
    BY <1>1, <1>7 DEF Within
  <2>2. ch \notin White /\ ch \notin {Quote, Apostrophe}
    BY <1>3, <1>7 DEF Ends, Forbidden
  <2>3. ~term' /\ pos <= m /\ Sentence[pos] = Letter
    <3>1. ch \notin {NUL, Newline}
      BY <2>2, Characters
    <3>2. pos <= m
      BY <1>2, <3>1
    <3> QED  BY <1>2, <1>3, <2>2, <3>1, <3>2, Characters, Zenon
  <2>4. Agrees(start)'
    BY <1>3, <1>5, <2>1, AgreesThere, Zenon
  <2>5. \A n \in start' .. pos' - 1 : Sentence'[n] \notin {Space, Quote, Apostrophe}
    <3>1. \A n \in start' .. pos' - 1 : n \in start .. pos - 1 \/ n = pos
      BY <1>2, <1>3
    <3> QED  BY <1>4, <2>1, <2>3, <3>1, Characters, Zenon
  <2>6. start' \in 1 .. pos' - 1
    BY <1>2, <1>3, <2>1
  <2>7. Within'
    BY <1>3, <1>7, <2>3, <2>4, <2>5, <2>6, States, Zenon DEF Within
  <2> QED  BY <1>6, <2>7 DEF ParseInv
<1>8. CASE state \in {Quoted, Aposd}
  <2>1. /\ start \in 2 .. pos /\ start - 1 <= m /\ Agrees(start - 1)
        /\ Sentence[start - 1] = Delimiter
        /\ \A n \in start .. pos - 1 : n <= m => Sentence[n] # Delimiter
    BY <1>1, <1>8 DEF Within
  <2>2. ch # Delimiter /\ Delimiter' = Delimiter
    BY <1>3, <1>8, States DEF Ends, Delimiter
  <2>3. Agrees(start - 1)'
    BY <1>3, <1>5, <2>1, AgreesThere, Zenon
  <2>4. \A n \in start' .. pos' - 1 : n <= Len(Sentence') => Sentence'[n] # Delimiter'
    <3>1. \A n \in start' .. pos' - 1 : n \in start .. pos - 1 \/ n = pos
      BY <1>2, <1>3
    <3>2. pos <= m => Sentence[pos] # Delimiter
      BY <1>2, <2>2
    <3> QED  BY <1>4, <2>1, <2>2, <3>1, <3>2, Zenon
  <2>5. start' \in 2 .. pos' /\ start' - 1 <= Len(Sentence') /\ Sentence'[start' - 1] = Delimiter'
    BY <1>2, <1>3, <1>4, <2>1, <2>2
  <2>6. Within'
    BY <1>3, <1>8, <2>3, <2>4, <2>5, States, Zenon DEF Within
  <2> QED  BY <1>6, <2>6 DEF ParseInv
<1> QED  BY <1>3, <1>7, <1>8, Zenon

(* The turn at the end of a token.                                           *)
LEMMA EndStep ==
    ASSUME ParseInv, ret = "none", ~term, End(line[pos]), Advance(line[pos]),
           UNCHANGED <<text, ret>>
    PROVE  ParseInv'
<1> DEFINE m == Len(Sentence)
           ch == line[pos]
           w == SubSeq(Sentence, start, pos - 1)
<1>1. ParseTypes /\ Within /\ Intact /\ Returned /\ text \in Seq(Chars)
  BY DEF ParseInv, ParseTypes
<1>2. /\ m \in Nat /\ pos \in 1 .. m + 1 /\ pos \in Nat \ {0} /\ pos + 1 \in 1 .. m + 2
      /\ pos <= m => ch = Sentence[pos] /\ ch \in {Letter, Space, Quote, Apostrophe}
      /\ pos = m + 1 => ch \in {NUL, Newline}
      /\ ch \in {NUL, Newline} <=> pos + 1 = m + 2
      /\ m + 1 <= Len(line)
  BY <1>1, AtPointer
<1>3. /\ Ends(state, ch) /\ state' = Pending /\ pos' = pos + 1 /\ start' = start
      /\ line' = [line EXCEPT ![pos] = NUL] /\ tokens' = Append(tokens, start)
      /\ text' = text /\ ret' = ret /\ term' = (ch \in {NUL, Newline})
      /\ start \in Nat \ {0} /\ state \in {Pending, Plain, Quoted, Aposd}
  BY <1>1 DEF End, Advance, ParseTypes
<1>4. Sentence' = Sentence /\ Original' = Original /\ Len(Sentence') = m
  BY <1>3, SameText
<1>5. state \in {Plain, Quoted, Aposd} /\ state # Pending
  BY <1>3, States DEF Ends
<1>6. start \in 1 .. pos
  <2>1. CASE state = Plain
    <3>1. start \in 1 .. pos - 1
      BY <1>1, <2>1 DEF Within
    <3> QED  BY <1>2, <3>1
  <2>2. CASE state \in {Quoted, Aposd}
    <3>1. start \in 2 .. pos
      BY <1>1, <2>2 DEF Within
    <3> QED  BY <1>2, <3>1
  <2> QED  BY <1>5, <2>1, <2>2
<1>7. pos <= Len(Sentence) + 1
  BY <1>2
<1>8. /\ line' \in Seq(Chars \cup {NUL}) /\ Len(line') = Len(line) /\ tokens' \in Seq(Nat \ {0})
      /\ \A n \in 1 .. Len(line) : n # pos => line'[n] = line[n]
      /\ Words' = Append(Words, w)
      /\ \A n \in DOMAIN tokens' : Terminated(line', tokens'[n], pos + 1)
  BY <1>1, <1>3, <1>5, <1>6, <1>7, WordsGrow, Zenon
<1>9. ParseTypes'
  <2>1. term' \in BOOLEAN /\ (term' <=> pos' = Len(Sentence') + 2)
    <3>1. term' <=> ch \in {NUL, Newline}
      BY <1>3
    <3>2. term' \in BOOLEAN
      BY <1>3, SMT
    <3> QED  BY <1>2, <1>3, <1>4, <3>1, <3>2
  <2>2. pos' \in 1 .. Len(Sentence') + 2
    BY <1>2, <1>3, <1>4
  <2>3. text' \in Seq(Chars) /\ Len(line') = Len(text') + 1 /\ ret' \in {"none", "ok", "error"}
    BY <1>1, <1>3, <1>8, Zenon DEF ParseTypes
  <2>4. state' \in {Pending, Plain, Quoted, Aposd} /\ start' \in Nat \ {0}
    BY <1>3, Zenon
  <2> QED  BY <1>8, <2>1, <2>2, <2>3, <2>4, Zenon DEF ParseTypes
<1>10. Intact'
  <2>1. \A n \in pos .. Len(line) : line[n] = Original[n]
    BY <1>1 DEF Intact
  <2>2. \A n \in pos + 1 .. Len(line) : n \in 1 .. Len(line) /\ n # pos /\ n \in pos .. Len(line)
    BY <1>2
  <2>3. \A n \in pos' .. Len(line') : line'[n] = Original'[n]
    BY <1>3, <1>4, <1>8, <2>1, <2>2, Zenon
  <2>4. \A n \in DOMAIN tokens' : Terminated(line', tokens'[n], pos')
    BY <1>3, <1>8, Zenon
  <2> QED  BY <1>3, <2>3, <2>4, Zenon DEF Intact, Terminated
<1>11. Returned'
  BY <1>3 DEF Returned
<1>12. w \in Seq(Chars)
  <2>1. Sentence \in Seq(Chars)
    BY <1>1, SentenceOf
  <2>2. pos \in start .. m + 1
    BY <1>2, <1>6
  <2> QED  BY <1>3, <2>1, <2>2, PartOf
<1>13. ASSUME NEW e, NEW k, e \in 1 .. m + 1, Agrees(k), Rest(k) = Preceded(w, Rest(e)),
              e = (IF term' THEN Len(Sentence') + 1 ELSE pos')
       PROVE  Agrees(IF term THEN Len(Sentence) + 1 ELSE pos)'
  <2>1. Agrees(e)'
    BY <1>1, <1>3, <1>8, <1>12, <1>13, AgreesOn, Zenon
  <2> QED  BY <1>13, <2>1, AgreesThere, Zenon
<1>14. /\ pos <= m => pos + 1 \in 1 .. m + 1 /\ pos + 1 = (IF term' THEN Len(Sentence') + 1 ELSE pos')
       /\ pos = m + 1 => m + 1 \in 1 .. m + 1 /\ m + 1 = (IF term' THEN Len(Sentence') + 1 ELSE pos')
       /\ pos <= m \/ pos = m + 1
  <2>1. (term' <=> ch \in {NUL, Newline}) /\ pos' = pos + 1
    BY <1>3, Zenon
  <2>2. (term' <=> pos + 1 = m + 2) /\ m \in Nat /\ pos \in 1 .. m + 1
    BY <1>2, <2>1, Zenon
  <2> HIDE DEF m
  <2> QED  BY <1>4, <2>1, <2>2
<1>15. Agrees(IF term THEN Len(Sentence) + 1 ELSE pos)'
  <2>1. CASE state = Plain
    <3>1. /\ start \in 1 .. pos - 1 /\ Agrees(start) /\ ch \in White
          /\ \A n \in start .. pos - 1 : Sentence[n] \notin {Space, Quote, Apostrophe}
      BY <1>1, <1>3, <2>1, States DEF Within, Ends
    <3>2. start \in 1 .. Len(Sentence) /\ pos \in start + 1 .. Len(Sentence) + 1
      BY <1>2, <3>1
    <3>3. pos <= m => Sentence[pos] = Space
      BY <1>2, <3>1, Characters, Zenon
    <3>4. Rest(start) = Preceded(w, Rest(pos))
      <4>1. pos <= Len(Sentence) => Sentence[pos] \in {Space, Quote, Apostrophe}
        BY <3>3
      <4>2. pos > Len(Sentence) \/ Sentence[pos] = Space
        BY <1>2, <3>3
      <4> HIDE DEF w
      <4> QED  BY <1>1, <3>1, <3>2, <4>1, <4>2, RestPlain DEF w
    <3>5. CASE pos <= m
      <4>1. pos \in 1 .. Len(Sentence) /\ Sentence[pos] = Space
        BY <1>2, <3>3, <3>5
      <4>2. Rest(pos) = Rest(pos + 1)
        BY <1>1, <4>1, RestBlank
      <4>3. Rest(start) = Preceded(w, Rest(pos + 1))
        BY <3>4, <4>2, Zenon
      <4> QED  BY <1>13, <1>14, <3>1, <3>5, <4>3, Zenon
    <3>6. CASE pos = m + 1
      BY <1>13, <1>14, <3>1, <3>4, <3>6, Zenon
    <3> QED  BY <1>14, <3>5, <3>6
  <2>2. CASE state \in {Quoted, Aposd}
    <3>1. /\ start \in 2 .. pos /\ start - 1 <= m /\ Agrees(start - 1)
          /\ Sentence[start - 1] = Delimiter
          /\ \A n \in start .. pos - 1 : n <= m => Sentence[n] # Delimiter
      BY <1>1, <2>2 DEF Within
    <3>2. ch = Delimiter /\ Delimiter \in {Quote, Apostrophe}
      BY <1>3, <2>2, States DEF Ends, Delimiter
    <3>3. pos <= m /\ Sentence[pos] = Delimiter
      BY <1>2, <1>14, <3>2, Characters, Zenon
    <3>4. ASSUME NEW k, k = start - 1
          PROVE  Rest(k) = Preceded(w, Rest(pos + 1))
      <4>1. /\ k \in 1 .. Len(Sentence) /\ pos \in k + 1 .. Len(Sentence) + 1 /\ k + 1 = start
        BY <1>2, <3>1, <3>4
      <4>2. /\ Sentence[k] \in {Quote, Apostrophe} /\ Sentence[pos] = Sentence[k]
            /\ \A n \in k + 1 .. pos - 1 : Sentence[n] # Sentence[k]
        <5>1. \A n \in start .. pos - 1 : n <= m
          BY <1>2, <3>1, <3>3
        <5> QED  BY <3>1, <3>2, <3>3, <3>4, <4>1, <5>1, Zenon
      <4>3. Rest(k) = Preceded(SubSeq(Sentence, k + 1, pos - 1), Rest(pos + 1))
        BY <1>1, <3>3, <4>1, <4>2, RestQuoted
      <4> QED  BY <4>1, <4>3, Zenon
    <3> QED  BY <1>13, <1>14, <3>1, <3>3, <3>4, Zenon
  <2> QED  BY <1>5, <2>1, <2>2
<1>16. Within'
  BY <1>3, <1>15, States, Zenon DEF Within
<1> QED  BY <1>9, <1>10, <1>11, <1>16, Zenon DEF ParseInv

(* A token that is not closed makes the text malformed.                      *)
LEMMA Unclosed ==
    ASSUME ParseTypes, Within, state \in {Quoted, Aposd}, pos > Len(Sentence),
           NEW k, k = start - 1
    PROVE  Rest(k) = Bad
<1>1. text \in Seq(Chars) /\ pos \in 1 .. Len(Sentence) + 2 /\ Len(Sentence) \in Nat
  BY SentenceOf DEF ParseTypes
<1>2. /\ start \in 2 .. pos /\ start - 1 <= Len(Sentence)
      /\ Sentence[start - 1] = Delimiter
      /\ \A n \in start .. pos - 1 : n <= Len(Sentence) => Sentence[n] # Delimiter
  BY DEF Within
<1>3. ASSUME NEW e, e = Len(Sentence) + 1
      PROVE  Rest(k) = Bad
  <2>1. /\ k \in 1 .. Len(Sentence) /\ e \in k + 1 .. Len(Sentence) + 1 /\ k + 1 = start
        /\ \A n \in k + 1 .. e - 1 : n \in start .. pos - 1 /\ n <= Len(Sentence)
        /\ e > Len(Sentence) /\ ~(e <= Len(Sentence))
    BY <1>1, <1>2, <1>3
  <2>2. Sentence[k] = Delimiter /\ Delimiter \in {Quote, Apostrophe}
    BY <1>2 DEF Delimiter
  <2>3. \A n \in k + 1 .. e - 1 : Sentence[n] # Sentence[k]
    BY <1>2, <2>1, <2>2, Zenon
  <2>4. Sentence[k] \in {Quote, Apostrophe}
    BY <2>2
  <2> QED  BY <1>1, <2>1, <2>3, <2>4, RestQuoted
<1> QED  BY <1>3

(* A step that changes nothing but what is returned.                         *)
LEMMA OnlyReturned ==
    ASSUME ParseTypes, Within, Intact,
           UNCHANGED <<text, line, pos, state, start, tokens, term>>,
           ret' \in {"none", "ok", "error"},
           ret' = "ok" => term /\ state = Pending,
           ret' = "error" => Reference(Sentence).ok = FALSE
    PROVE  ParseInv'
<1>1. Sentence' = Sentence /\ Original' = Original
  BY SameText
<1>2. ParseTypes'
  BY <1>1 DEF ParseTypes
<1>3. Intact'
  BY <1>1 DEF Intact, Terminated
<1>4. Returned'
  BY <1>1 DEF Returned
<1>5. Delimiter' = Delimiter
  BY DEF Delimiter
<1>6. \A k : Agrees(k)' <=> Agrees(k)
  <2>1. Words' = Words /\ \A k : Rest(k)' = Rest(k)
    BY NothingCut, SameText
  <2> QED  BY <1>1, <2>1 DEF Agrees
<1>7. Within'
  BY <1>1, <1>5 DEF Within, Agrees, Rest, Words
<1> QED  BY <1>2, <1>3, <1>4, <1>7 DEF ParseInv

(* A character that may not stand there: the text is malformed.              *)
LEMMA ForbiddenStep ==
    ASSUME ParseInv, ret = "none", ~term, Forbidden(state, line[pos]), ret' = "error",
           UNCHANGED <<text, line, pos, state, start, tokens, term>>
    PROVE  ParseInv'
<1> DEFINE m == Len(Sentence)
           ch == line[pos]
<1>1. ParseTypes /\ Within /\ Intact /\ Returned /\ text \in Seq(Chars)
  BY DEF ParseInv, ParseTypes
<1>2. /\ m \in Nat /\ pos \in 1 .. m + 1 /\ pos \in Nat \ {0}
      /\ pos <= m => ch = Sentence[pos] /\ ch \in {Letter, Space, Quote, Apostrophe}
      /\ pos = m + 1 => ch \in {NUL, Newline}
      /\ pos <= m \/ pos = m + 1
  BY <1>1, AtPointer
<1>3. Reference(Sentence).ok = FALSE
  <2>1. CASE state = Plain /\ ch \in {Quote, Apostrophe}
    <3>1. /\ start \in 1 .. pos - 1 /\ Agrees(start)
          /\ \A n \in start .. pos - 1 : Sentence[n] \notin {Space, Quote, Apostrophe}
      BY <1>1, <2>1 DEF Within
    <3>2. pos <= m /\ Sentence[pos] \in {Quote, Apostrophe}
      BY <1>2, <2>1, Characters, Zenon
    <3>3. /\ start \in 1 .. Len(Sentence) /\ pos \in start + 1 .. Len(Sentence) + 1
      BY <1>2, <3>1
    <3>4. Sentence[pos] \in {Space, Quote, Apostrophe} /\ Sentence[pos] # Space
      BY <3>2, Characters
    <3>5. Rest(start) = Bad
      BY <1>1, <3>1, <3>2, <3>3, <3>4, RestPlain
    <3> QED  BY <3>1, <3>5 DEF Agrees, Bad
  <2>2. CASE state \in {Quoted, Aposd} /\ ch = NUL
    <3>1. /\ start \in 2 .. pos /\ start - 1 <= m /\ Agrees(start - 1)
          /\ Sentence[start - 1] = Delimiter
          /\ \A n \in start .. pos - 1 : n <= m => Sentence[n] # Delimiter
      BY <1>1, <2>2 DEF Within
    <3>2. pos = m + 1
      BY <1>2, <2>2, Characters, Zenon
    <3>3. ASSUME NEW k, k = start - 1
          PROVE  Rest(k) = Bad
      BY <1>1, <1>2, <2>2, <3>1, <3>2, <3>3, Unclosed
    <3> QED  BY <3>1, <3>3 DEF Agrees, Bad
  <2> QED  BY <2>1, <2>2 DEF Forbidden
<1> QED  BY <1>1, <1>3, OnlyReturned

(* The return: what is left of the text is empty or an unclosed token.       *)
LEMMA ReturnStep ==
    ASSUME ParseInv, Return
    PROVE  ParseInv'
<1>1. /\ ParseTypes /\ Within /\ Intact /\ Returned /\ text \in Seq(Chars)
      /\ term /\ ret' = IF state # Pending THEN "error" ELSE "ok"
      /\ UNCHANGED <<text, line, pos, state, start, tokens, term>>
  BY DEF ParseInv, ParseTypes, Return
<1>2. CASE state = Pending
  BY <1>1, <1>2, OnlyReturned
<1>3. CASE state # Pending
  <2>1. state \in {Quoted, Aposd}
    BY <1>1, <1>3 DEF ParseTypes, Within
  <2>2. /\ start \in 2 .. pos /\ start - 1 <= Len(Sentence) /\ Agrees(start - 1)
        /\ pos = Len(Sentence) + 2
    BY <1>1, <2>1 DEF Within, ParseTypes
  <2>3. ASSUME NEW k, k = start - 1
        PROVE  Rest(k) = Bad
    BY <1>1, <2>1, <2>2, <2>3, Unclosed, SentenceOf
  <2>4. Reference(Sentence).ok = FALSE
    BY <2>2, <2>3 DEF Agrees, Bad
  <2> QED  BY <1>1, <1>3, <2>4, OnlyReturned
<1> QED  BY <1>2, <1>3

(* The line before anything is read.                                         *)
LEMMA ParseStart ==
    ASSUME ParseInit
    PROVE  ParseInv
<1>1. text \in Seq(Chars) /\ Len(text) \in Nat
  <2>1. text \in UNION {[1 .. n -> Chars] : n \in 0 .. MaxLine}
    BY DEF ParseInit, BoundedSeq, SeqOf
  <2> QED  BY <2>1, MaxLineAssumption
<1>2. /\ line = Append(text, NUL) /\ pos = 1 /\ state = Pending /\ start = 1 /\ tokens = <<>>
      /\ term = FALSE /\ ret = "none"
  BY DEF ParseInit
<1>3. Sentence \in Seq(Chars) /\ Len(Sentence) \in Nat
  BY <1>1, SentenceOf
<1>4. ParseTypes
  <2>1. line \in Seq(Chars \cup {NUL}) /\ Len(line) = Len(text) + 1
    BY <1>1, <1>2, SentenceOf DEF Original
  <2>2. pos \in 1 .. Len(Sentence) + 2 /\ term \in BOOLEAN /\ (term <=> pos = Len(Sentence) + 2)
    <3>1. term \in BOOLEAN /\ ~term
      BY <1>2, Zenon
    <3>2. pos \in 1 .. Len(Sentence) + 2 /\ pos # Len(Sentence) + 2
      BY <1>2, <1>3
    <3> QED  BY <3>1, <3>2, Zenon
  <2>3. tokens \in Seq(Nat \ {0}) /\ start \in Nat \ {0} /\ ret \in {"none", "ok", "error"}
    BY <1>2
  <2> QED  BY <1>1, <1>2, <2>1, <2>2, <2>3 DEF ParseTypes
<1>5. Intact
  <2>1. DOMAIN tokens = {}
    BY <1>2
  <2>2. line = Original
    BY <1>2 DEF Original
  <2> QED  BY <1>2, <2>1, <2>2 DEF Intact
<1>6. Returned
  BY <1>2 DEF Returned
<1>7. Words = <<>>
  BY <1>2 DEF Words
<1>8. Agrees(1)
  <2>1. Reference(Sentence) = Rest(1) /\ Rest(1) \in Readings
    BY <1>1, <1>3, RestOf
  <2>2. Rest(1).tokens \in Seq(Seq(Chars))
    BY <2>1 DEF Readings
  <2>3. ASSUME NEW r \in Seq(Seq(Chars))
        PROVE  <<>> \o r = r
    OBVIOUS
  <2> QED  BY <1>7, <2>1, <2>2, <2>3 DEF Agrees
<1>9. Within
  BY <1>2, <1>8, States DEF Within
<1> QED  BY <1>4, <1>5, <1>6, <1>9 DEF ParseInv

(* What parse_line returns is what the invariant says it is.                 *)
LEMMA ParseResult ==
    ASSUME ParseInv
    PROVE  TokensAsDefined
<1>1. ParseTypes /\ Within /\ Intact /\ Returned /\ text \in Seq(Chars)
  BY DEF ParseInv, ParseTypes
<1>2. ASSUME ret = "ok"
      PROVE  Reference(Sentence).ok /\ Words = Reference(Sentence).tokens
  <2>1. Agrees(Len(Sentence) + 1)
    BY <1>1, <1>2 DEF Returned, Within
  <2>2. Rest(Len(Sentence) + 1) = [ok |-> TRUE, tokens |-> <<>>]
    BY <1>1, RestBlank
  <2>3. Reference(Sentence).ok = TRUE /\ Reference(Sentence).tokens = Words \o <<>>
    <3>1. Rest(Len(Sentence) + 1).ok = TRUE /\ Rest(Len(Sentence) + 1).tokens = <<>>
      BY <2>2
    <3> QED  BY <2>1, <3>1, Zenon DEF Agrees
  <2>4. Words \in Seq(Seq(Chars \cup {NUL}))
    BY <1>1, WordsType
  <2>5. ASSUME NEW r \in Seq(Seq(Chars \cup {NUL}))
        PROVE  r \o <<>> = r
    OBVIOUS
  <2> QED  BY <2>3, <2>4, <2>5
<1>3. ret = "error" => ~Reference(Sentence).ok
  BY <1>1 DEF Returned
<1> QED  BY <1>2, <1>3 DEF TokensAsDefined, Words, Sentence

(* parse_line (src/src/util.c): for every line, of any length, it accepts    *)
(* exactly the well-formed ones, and each pointer it returns is, in the line *)
(* as it was overwritten, the string of its token.                           *)
THEOREM TokensSafe == ParseSpec => []TokensAsDefined
<1>1. ParseInit => ParseInv
  BY ParseStart
<1>2. ASSUME ParseInv, [ParseNext]_parse_vars
      PROVE  ParseInv'
  <2>1. CASE Turn
    <3>1. CASE Begin(line[pos]) /\ Advance(line[pos]) /\ UNCHANGED ret
      BY <1>2, <2>1, <3>1, BeginStep DEF Turn
    <3>2. CASE End(line[pos]) /\ Advance(line[pos]) /\ UNCHANGED ret
      BY <1>2, <2>1, <3>2, EndStep DEF Turn
    <3>3. CASE Inside(line[pos]) /\ Advance(line[pos]) /\ UNCHANGED ret
      BY <1>2, <2>1, <3>3, InsideStep DEF Turn
    <3>4. CASE /\ Forbidden(state, line[pos]) /\ ret' = "error"
               /\ UNCHANGED <<line, pos, state, start, tokens, term>>
      BY <1>2, <2>1, <3>4, ForbiddenStep DEF Turn
    <3> QED  BY <2>1, <3>1, <3>2, <3>3, <3>4, Zenon DEF Turn
  <2>2. CASE Return
    BY <1>2, <2>2, ReturnStep
  <2>3. CASE UNCHANGED parse_vars
    <3>1. /\ UNCHANGED <<text, line, pos, state, start, tokens, term>> /\ ret' = ret
          /\ ParseTypes /\ Within /\ Intact /\ Returned
      BY <1>2, <2>3 DEF parse_vars, ParseInv
    <3>2. /\ ret \in {"none", "ok", "error"} /\ (ret = "ok" => term /\ state = Pending)
          /\ ret = "error" => Reference(Sentence).ok = FALSE
      BY <3>1 DEF ParseTypes, Returned
    <3> QED  BY <3>1, <3>2, OnlyReturned
  <2> QED  BY <1>2, <2>1, <2>2, <2>3 DEF ParseNext
<1>3. ParseInv => TokensAsDefined
  BY ParseResult
<1> QED  BY <1>1, <1>2, <1>3, PTL DEF ParseSpec
===============================================================================
