------------------------------ MODULE TarProofs ------------------------------
(***************************************************************************)
(* Proofs about pfs2tar (Tar), for any disks, names and sizes and whatever *)
(* calls fail.                                                             *)
(*                                                                         *)
(* Control says where the program is: what is mounted, which directories   *)
(* are open, and that nothing else is but what could not be closed.        *)
(* InStep says that the blocks of the tar file are entries, each as long   *)
(* as its header says, so that a restore that reads a header goes on at    *)
(* one.  Kept relates the disk to what it was before the restore, Passed   *)
(* the partitions that were listed to the headers in the archive.          *)
(*                                                                         *)
(* The last part is about the backups and restores in which no call fails: *)
(* Walked says that the archive describes the source and, of what is not   *)
(* in it yet, where the walk will find it; Brought says that the entries   *)
(* before the one that is read have been restored where they fit.          *)
(***************************************************************************)
EXTENDS Tar, CommonLemmas, SequenceTheorems, TLAPS

Data == Seq(Int)
Modes == [type : Types, bits : SUBSET Flags]
Nodes == [mode : Modes, time : Int, data : Data]
Trees == UNION {[D -> Nodes] : D \in SUBSET Paths}

(* The assumptions on the sizes and bounds, one by one.                      *)
LEMMA Bounds ==
    /\ Block \in Nat \ {0} /\ SizeModulus \in Nat \ {0} /\ NameField \in Nat \ {0}
    /\ PathMax \in Nat \ {0} /\ MaxOpen \in Nat \ {0} /\ TimeModulus \in Nat \ {0}
    /\ Now \in Nat /\ MaxRestores \in Nat /\ MaxFaults \in Nat
    /\ PrefixField \in Nat /\ SizeAt \in Nat /\ LinkField \in Nat
<1>1. {Block, SizeModulus, TimeModulus, NameField, PathMax, MaxOpen} \subseteq Nat \ {0}
  BY TarAssumption, Zenon
<1>3. {PrefixField, SizeAt, LinkField} \subseteq Nat
  BY TarAssumption, Zenon
<1>2. {Now, MaxRestores, MaxFaults} \subseteq Nat
  BY TarAssumption, Zenon
<1> QED
  BY <1>1, <1>2, <1>3

(* Order lists the partitions; All and None are not among them.              *)
LEMMA PartsOf == Order \in Seq(Parts) /\ All \notin Parts /\ None \notin Parts
  BY TarAssumption, Zenon

(* A node of a tree has the fields of a node.                                *)
LEMMA NodeType ==
    ASSUME NEW n, IsNode(n)
    PROVE  n \in Nodes /\ n.data \in Seq(Int) /\ (n.mode.type = "DIR" => n.data = <<>>)
<1>1. n.mode \in Modes /\ n.time \in Int
  BY DEF IsNode, Modes
<1>2. n.data \in Seq(Int) /\ (n.mode.type = "DIR" => n.data = <<>>)
  BY DEF IsNode
<1>3. n = [mode |-> n.mode, time |-> n.time, data |-> n.data]
  BY DEF IsNode
<1>4. n \in Nodes
  BY <1>1, <1>2, <1>3 DEF Nodes, Data
<1> QED
  BY <1>2, <1>4, Zenon

(* A tree is a function from paths to nodes.                                 *)
LEMMA TreeType ==
    ASSUME NEW t, IsTree(t)
    PROVE  t \in Trees
<1>1. t \in [DOMAIN t -> Range(t)] /\ DOMAIN t \subseteq Paths
  BY DEF IsTree
<1>2. \A path \in DOMAIN t : t[path] \in Nodes
  BY NodeType DEF IsTree
<1>3. t \in [DOMAIN t -> Nodes]
  BY <1>1, <1>2
<1> QED
  BY <1>1, <1>3 DEF Trees

(* What is known of the disks a backup is made of and a restore is made to.  *)
LEMMA DiskType ==
    ASSUME NEW d \in Disks \cup Targets
    PROVE  d \in [Parts -> Trees] /\ \A p \in Parts : IsTree(d[p])
<1>1. d \in [Parts -> Range(d)] /\ \A p \in Parts : IsTree(d[p])
  BY TarAssumption, Zenon
<1> QED
  BY <1>1, TreeType

(* The domain and the nodes of a function from paths to nodes.               *)
LEMMA TreeIs ==
    ASSUME NEW t \in Trees
    PROVE  /\ DOMAIN t \subseteq Paths
           /\ t \in [DOMAIN t -> Nodes]
           /\ \A q \in DOMAIN t : t[q] \in Nodes
  BY DEF Trees

(* Any such function is one.                                                 *)
LEMMA TreeIntro ==
    ASSUME NEW D \in SUBSET Paths, NEW t \in [D -> Nodes]
    PROVE  t \in Trees
  BY DEF Trees

(* A node with another time is a node, of the same mode and data.            *)
LEMMA Retimed ==
    ASSUME NEW n \in Nodes, NEW time \in Int
    PROVE  /\ [n EXCEPT !.time = time] \in Nodes
           /\ [n EXCEPT !.time = time].mode = n.mode
           /\ [n EXCEPT !.time = time].data = n.data
           /\ [n EXCEPT !.time = time].time = time
  BY DEF Nodes

(* What the driver makes is a node.                                          *)
LEMMA NewNode ==
    ASSUME NEW type \in Types, NEW bits \in SUBSET Flags, NEW time \in Int, NEW data \in Data
    PROVE  /\ Node(type, bits, time, data) \in Nodes
           /\ Node(type, bits, time, data).mode = [type |-> type, bits |-> bits]
           /\ Node(type, bits, time, data).data = data
           /\ Node(type, bits, time, data).time = time
  BY DEF Node, Nodes, Modes

(* Making a node: nothing goes away, what is new is at the path, and of what *)
(* was there nothing but the time of a directory changes.                    *)
LEMMA MakeOf ==
    ASSUME NEW t \in Trees, NEW path \in Paths, NEW node \in Nodes
    PROVE  /\ Make(t, path, node) \in Trees
           /\ DOMAIN t \subseteq DOMAIN Make(t, path, node)
           /\ DOMAIN Make(t, path, node) \subseteq DOMAIN t \cup {path}
           /\ CanMake(t, path) => path \in DOMAIN Make(t, path, node)
                                  /\ Make(t, path, node)[path] = node
           /\ ~CanMake(t, path) => Make(t, path, node) = t
           /\ \A q \in DOMAIN t :
                 /\ Make(t, path, node)[q].mode = t[q].mode
                 /\ Make(t, path, node)[q].data = t[q].data
                 /\ ~(CanMake(t, path) /\ q = Front(path)) => Make(t, path, node)[q] = t[q]
<1>1. DOMAIN t \subseteq Paths /\ t \in [DOMAIN t -> Nodes] /\ Now \in Int
  BY TreeIs, Bounds
<1>2. CASE ~CanMake(t, path)
  BY <1>2 DEF Make
<1>3. CASE CanMake(t, path)
  <2> DEFINE value(q) == IF q = path THEN node
                         ELSE IF q = Front(path) THEN [t[q] EXCEPT !.time = Now] ELSE t[q]
             u == [q \in DOMAIN t \cup {path} |-> value(q)]
  <2>1. Make(t, path, node) = u
    BY <1>3 DEF Make
  <2>2. path \notin DOMAIN t
    BY <1>3 DEF CanMake
  <2>3. ASSUME NEW q \in DOMAIN t
        PROVE  /\ value(q) \in Nodes
               /\ value(q).mode = t[q].mode /\ value(q).data = t[q].data
               /\ q # Front(path) => value(q) = t[q]
    <3>1. q # path /\ t[q] \in Nodes
      BY <1>1, <2>2
    <3>2. CASE q = Front(path)
      <4>1. value(q) = [t[q] EXCEPT !.time = Now]
        BY <3>1, <3>2
      <4> HIDE DEF value
      <4> QED
        BY <1>1, <3>1, <3>2, <4>1, Retimed
    <3>3. CASE q # Front(path)
      BY <3>1, <3>3
    <3> QED
      BY <3>2, <3>3
  <2>4. value(path) = node
    OBVIOUS
  <2> HIDE DEF value
  <2>5. u \in [DOMAIN t \cup {path} -> Nodes]
    BY <2>3, <2>4
  <2>6. u \in Trees
    <3> HIDE DEF u
    <3>1. DOMAIN t \cup {path} \in SUBSET Paths
      BY <1>1
    <3> QED
      BY <2>5, <3>1, TreeIntro
  <2> QED
    BY <1>3, <2>1, <2>3, <2>4, <2>6
<1> QED
  BY <1>2, <1>3

(* The length of a path is a number, and that of the root's is 0.            *)
LEMMA LengthOf ==
    /\ \A path \in Paths : Length(path) \in Nat
    /\ Length(<<>>) = 0
<1>1. ASSUME NEW path \in Paths
      PROVE  Length(path) \in Nat /\ (path = <<>> => Length(path) = 0)
  <2> DEFINE m == Len(path)
             next(i, n) == IF i \in 1 .. m THEN n + Weight[path[i]] ELSE n
             g == [i \in Nat |-> [n \in Nat |-> next(i, n)]]
             Eq(h) == h = [k \in 0 .. m |-> IF k = 0 THEN 0 ELSE h[k - 1] + Weight[path[k]]]
  <2>1. m \in Nat /\ \A i \in 1 .. m : path[i] \in DOMAIN Weight
    BY DEF Paths
  <2>2. \A i \in 1 .. m : Weight[path[i]] \in Nat
    BY <2>1, TarAssumption, Zenon
  <2>3. g \in [Nat -> [Nat -> Nat]]
    <3>1. \A i \in Nat, n \in Nat : next(i, n) \in Nat
      BY <2>2
    <3> HIDE DEF next
    <3> QED
      BY <3>1
  <2>4. PICK h \in [0 .. m -> Nat] : Follows(h, 0, g, m)
    <3> HIDE DEF g, m
    <3> QED
      BY <2>1, <2>3, Recursion
  <2> HIDE DEF m
  <2>5. \A i \in 1 .. m : h[i] = h[i - 1] + Weight[path[i]]
    <3> SUFFICES ASSUME NEW i \in 1 .. m
                 PROVE  h[i] = h[i - 1] + Weight[path[i]]
      OBVIOUS
    <3>1. h[i - 1] \in Nat /\ i \in Nat
      BY <2>1
    <3>2. h[i] = g[i][h[i - 1]]
      BY <2>4 DEF Follows
    <3>3. g[i][h[i - 1]] = next(i, h[i - 1])
      BY <3>1
    <3> QED
      BY <3>2, <3>3
  <2>6. Eq(h)
    <3>1. h[0] = 0
      BY <2>4 DEF Follows
    <3>2. \A i \in 0 .. m : h[i] = IF i = 0 THEN 0 ELSE h[i - 1] + Weight[path[i]]
      BY <2>1, <2>5, <3>1
    <3> QED
      BY <3>2
  <2> DEFINE f == CHOOSE x : Eq(x)
  <2>7. Length(path) = f[m]
    BY DEF Length, m
  <2>8. Eq(f)
    <3> HIDE DEF Eq
    <3> QED
      BY <2>6
  <2> HIDE DEF f
  <2> DEFINE T == {k \in 0 .. m : f[k] \notin Nat}
  <2>9. f[0] = 0 /\ \A k \in 1 .. m : f[k] = f[k - 1] + Weight[path[k]]
    <3> HIDE DEF f
    <3> QED
      BY <2>1, <2>8
  <2>10. T = {}
    <3> SUFFICES ASSUME T # {}
                 PROVE  FALSE
      OBVIOUS
    <3>1. PICK k \in T : \A j \in T : k <= j
      <4>1. T \subseteq Nat
        BY <2>1
      <4> HIDE DEF T
      <4> QED
        BY <4>1, LeastNumber
    <3>2. k \in 1 .. m /\ k - 1 \in 0 .. m /\ f[k - 1] \in Nat
      BY <2>1, <2>9, <3>1
    <3> QED
      BY <2>2, <2>9, <3>1, <3>2
  <2> QED
    BY <2>1, <2>7, <2>9, <2>10 DEF m
<1>2. <<>> \in Paths
  BY DEF Paths
<1> QED
  BY <1>1, <1>2

(* The directories above a path are made one after the other, each in what   *)
(* the one before has left.                                                  *)
LEMMA EnsureOf ==
    ASSUME NEW t \in Trees, NEW path \in Paths, NEW made \in 0 .. Len(path)
    PROVE  \E h \in [0 .. made -> Trees] :
              /\ h[0] = t
              /\ \A k \in 1 .. made : h[k] = Mkdir(h[k - 1], SubSeq(path, 1, k))
              /\ ensure_parent_dirs_exist(t, path, made) = h[made]
<1> DEFINE next(i, u) == IF i \in 1 .. made THEN Mkdir(u, SubSeq(path, 1, i)) ELSE u
           g == [i \in Nat |-> [u \in Trees |-> next(i, u)]]
           Eq(h) == h = [k \in 0 .. made |->
                            IF k = 0 THEN t ELSE Mkdir(h[k - 1], SubSeq(path, 1, k))]
<1>1. made \in Nat /\ \A i \in 1 .. made : SubSeq(path, 1, i) \in Paths
  BY DEF Paths
<1>2. \A i \in 1 .. made, u \in Trees : Mkdir(u, SubSeq(path, 1, i)) \in Trees
  <2>1. Node("DIR", Permissions, Now, <<>>) \in Nodes
    <3>1. "DIR" \in Types /\ Permissions \in SUBSET Flags /\ Now \in Int /\ <<>> \in Data
      BY Bounds DEF Types, Flags, Data
    <3> QED
      BY <3>1, NewNode
  <2> QED
    BY <1>1, <2>1, MakeOf DEF Mkdir
<1>3. g \in [Nat -> [Trees -> Trees]]
  <2>1. \A i \in Nat, u \in Trees : next(i, u) \in Trees
    BY <1>2
  <2> HIDE DEF next
  <2> QED
    BY <2>1
<1>4. PICK h \in [0 .. made -> Trees] : Follows(h, t, g, made)
  <2> HIDE DEF g
  <2> QED
    BY <1>1, <1>3, Recursion
<1>5. \A i \in 1 .. made : h[i] = Mkdir(h[i - 1], SubSeq(path, 1, i))
  <2> SUFFICES ASSUME NEW i \in 1 .. made
               PROVE  h[i] = Mkdir(h[i - 1], SubSeq(path, 1, i))
    OBVIOUS
  <2>1. h[i - 1] \in Trees /\ i \in Nat
    BY <1>1
  <2>2. h[i] = g[i][h[i - 1]]
    BY <1>4 DEF Follows
  <2>3. g[i][h[i - 1]] = next(i, h[i - 1])
    BY <2>1
  <2> QED
    BY <2>2, <2>3
<1>6. Eq(h)
  <2>1. h[0] = t
    BY <1>4 DEF Follows
  <2>2. \A i \in 0 .. made : h[i] = IF i = 0 THEN t ELSE Mkdir(h[i - 1], SubSeq(path, 1, i))
    BY <1>1, <1>5, <2>1
  <2> QED
    BY <2>2
<1> DEFINE f == CHOOSE x : Eq(x)
<1>7. ensure_parent_dirs_exist(t, path, made) = f[made]
  BY DEF ensure_parent_dirs_exist
<1>8. Eq(f)
  <2> HIDE DEF Eq
  <2> QED
    BY <1>6
<1> HIDE DEF f
<1> DEFINE T == {k \in 0 .. made : f[k] \notin Trees}
<1>9. f[0] = t /\ \A k \in 1 .. made : f[k] = Mkdir(f[k - 1], SubSeq(path, 1, k))
  BY <1>1, <1>8
<1>10. T = {}
  <2> SUFFICES ASSUME T # {}
               PROVE  FALSE
    OBVIOUS
  <2>1. PICK k \in T : \A j \in T : k <= j
    <3>1. T \subseteq Nat
      BY <1>1
    <3> HIDE DEF T
    <3> QED
      BY <3>1, LeastNumber
  <2>2. k \in 1 .. made /\ k - 1 \in 0 .. made /\ f[k - 1] \in Trees
    BY <1>1, <1>9, <2>1
  <2>3. f[k] \in Trees
    BY <1>2, <1>9, <2>2
  <2> QED
    BY <2>1, <2>3
<1>11. f \in [0 .. made -> Trees]
  BY <1>8, <1>10
<1> QED
  BY <1>7, <1>9, <1>11

(* Sequences put together one after the other.                               *)
LEMMA FlattenOf ==
    ASSUME NEW V, NEW seqs \in Seq(Seq(V)), seqs # <<>>
    PROVE  \E h \in [1 .. Len(seqs) -> Seq(V)] :
              /\ h[1] = seqs[1]
              /\ \A i \in 2 .. Len(seqs) : h[i] = h[i - 1] \o seqs[i]
              /\ FlattenSeq(seqs) = h[Len(seqs)]
<1> DEFINE n == Len(seqs)
           m == n - 1
           W == Seq(V)
           next(i, s) == IF i \in 1 .. m THEN s \o seqs[i + 1] ELSE s
           g == [i \in Nat |-> [s \in W |-> next(i, s)]]
           Eq(h) == h = [i \in 1 .. n |-> IF i = 1 THEN seqs[i] ELSE h[i - 1] \o seqs[i]]
<1>1. n \in Nat /\ n >= 1 /\ m \in Nat /\ \A i \in 1 .. n : seqs[i] \in W
  BY EmptySeq
<1>2. \A i \in 1 .. m, s \in W : s \o seqs[i + 1] \in W
  <2> SUFFICES ASSUME NEW i \in 1 .. m, NEW s \in W
               PROVE  s \o seqs[i + 1] \in W
    OBVIOUS
  <2>1. seqs[i + 1] \in Seq(V) /\ s \in Seq(V)
    BY <1>1
  <2> QED
    BY <2>1
<1>3. g \in [Nat -> [W -> W]]
  <2>1. \A i \in Nat, s \in W : next(i, s) \in W
    BY <1>2
  <2> HIDE DEF next, W
  <2> QED
    BY <2>1
<1>4. PICK a \in [0 .. m -> W] : Follows(a, seqs[1], g, m)
  <2>1. seqs[1] \in W
    BY <1>1
  <2> HIDE DEF g, m, W
  <2> QED
    BY <1>1, <1>3, <2>1, Recursion
<1> HIDE DEF W
<1>5. \A i \in 1 .. m : a[i] = a[i - 1] \o seqs[i + 1]
  <2> SUFFICES ASSUME NEW i \in 1 .. m
               PROVE  a[i] = a[i - 1] \o seqs[i + 1]
    OBVIOUS
  <2>1. a[i - 1] \in W /\ i \in Nat
    <3>1. i - 1 \in 0 .. m /\ i \in Nat
      BY <1>1
    <3> HIDE DEF m
    <3> QED
      BY <3>1
  <2>2. a[i] = g[i][a[i - 1]]
    BY <1>4 DEF Follows
  <2>3. g[i][a[i - 1]] = next(i, a[i - 1])
    BY <2>1
  <2> QED
    BY <2>2, <2>3
<1> DEFINE h == [i \in 1 .. n |-> a[i - 1]]
<1>6. Eq(h)
  <2>1. \A i \in 1 .. n : a[i - 1] = IF i = 1 THEN seqs[i] ELSE a[i - 2] \o seqs[i]
    <3> SUFFICES ASSUME NEW i \in 1 .. n
                 PROVE  a[i - 1] = IF i = 1 THEN seqs[i] ELSE a[i - 2] \o seqs[i]
      OBVIOUS
    <3>1. CASE i = 1
      BY <1>4, <3>1 DEF Follows
    <3>2. CASE i # 1
      <4>1. i - 1 \in 1 .. m /\ (i - 1) - 1 = i - 2 /\ (i - 1) + 1 = i
        BY <1>1, <3>2
      <4> QED
        BY <1>5, <3>2, <4>1
    <3> QED
      BY <3>1, <3>2
  <2>2. \A i \in 1 .. n : i # 1 => h[i - 1] = a[i - 2]
    BY <1>1
  <2> QED
    BY <2>1, <2>2
<1> DEFINE f == CHOOSE x : Eq(x)
<1>7. FlattenSeq(seqs) = f[n]
  BY <1>1 DEF FlattenSeq
<1>8. Eq(f)
  <2> HIDE DEF Eq
  <2> QED
    BY <1>6
<1> HIDE DEF f
<1> DEFINE T == {k \in 1 .. n : f[k] \notin W}
<1>9. f[1] = seqs[1] /\ \A k \in 2 .. n : f[k] = f[k - 1] \o seqs[k]
  <2>1. \A k \in 1 .. n : f[k] = IF k = 1 THEN seqs[k] ELSE f[k - 1] \o seqs[k]
    <3> HIDE DEF n
    <3> QED
      BY <1>8
  <2>2. 1 \in 1 .. n /\ \A k \in 2 .. n : k \in 1 .. n /\ k # 1
    BY <1>1
  <2> HIDE DEF n
  <2> QED
    BY <2>1, <2>2
<1>10. T = {}
  <2> SUFFICES ASSUME T # {}
               PROVE  FALSE
    OBVIOUS
  <2>1. PICK k \in T : \A j \in T : k <= j
    <3>1. T \subseteq Nat
      BY <1>1
    <3> HIDE DEF T
    <3> QED
      BY <3>1, LeastNumber
  <2>2. k \in 2 .. n /\ k - 1 \in 1 .. n /\ f[k - 1] \in W
    BY <1>1, <1>9, <2>1
  <2>3. f[k] \in W
    <3>1. (k - 1) \in 1 .. m /\ (k - 1) + 1 = k
      BY <2>2
    <3> QED
      BY <1>2, <1>9, <2>2, <3>1
  <2> QED
    BY <2>1, <2>3
<1>11. f \in [1 .. n -> W]
  BY <1>8, <1>10
<1> QED
  BY <1>7, <1>9, <1>11 DEF W

(* Between the trees t and u nothing went away, and but for the node at x    *)
(* nothing changed that was there: only directories have a new time.         *)
Grown(t, u, x) ==
    /\ DOMAIN t \subseteq DOMAIN u
    /\ \A q \in DOMAIN t : q # x =>
          /\ u[q].mode = t[q].mode /\ u[q].data = t[q].data
          /\ ~IsDir(t, q) => u[q] = t[q]

(* It adds up.                                                               *)
LEMMA GrownTransitive ==
    ASSUME NEW t, NEW u, NEW v, NEW x, Grown(t, u, x), Grown(u, v, x)
    PROVE  Grown(t, v, x)
<1>1. DOMAIN t \subseteq DOMAIN v
  BY DEF Grown
<1>2. ASSUME NEW q \in DOMAIN t, q # x
      PROVE  /\ v[q].mode = t[q].mode /\ v[q].data = t[q].data
             /\ ~IsDir(t, q) => v[q] = t[q]
  <2>1. /\ q \in DOMAIN u /\ u[q].mode = t[q].mode /\ u[q].data = t[q].data
        /\ ~IsDir(t, q) => u[q] = t[q]
    BY <1>2 DEF Grown
  <2>2. /\ v[q].mode = u[q].mode /\ v[q].data = u[q].data
        /\ ~IsDir(u, q) => v[q] = u[q]
    BY <1>2, <2>1 DEF Grown
  <2>3. IsDir(u, q) => IsDir(t, q)
    BY <2>1 DEF IsDir
  <2> QED
    BY <2>1, <2>2, <2>3
<1> QED
  BY <1>1, <1>2 DEF Grown

(* A new node changes nothing else.                                          *)
LEMMA MakeGrows ==
    ASSUME NEW t \in Trees, NEW path \in Paths, NEW node \in Nodes, NEW x
    PROVE  Grown(t, Make(t, path, node), x)
<1> DEFINE u == Make(t, path, node)
<1>1. /\ DOMAIN t \subseteq DOMAIN u
      /\ \A q \in DOMAIN t :
            /\ u[q].mode = t[q].mode /\ u[q].data = t[q].data
            /\ ~(CanMake(t, path) /\ q = Front(path)) => u[q] = t[q]
  BY MakeOf
<1>2. CanMake(t, path) => IsDir(t, Front(path))
  BY DEF CanMake
<1> HIDE DEF u
<1>3. Grown(t, u, x)
  BY <1>1, <1>2 DEF Grown
<1> QED
  BY <1>3 DEF u

(* The node that mkdir makes, and the one open makes.                        *)
LEMMA NewNodes ==
    /\ Node("DIR", Permissions, Now, <<>>) \in Nodes
    /\ Node("REG", {"R", "W"} \X Users, Now, <<>>) \in Nodes
    /\ \A link \in Seq(Int) : Node("LNK", Permissions, Now, link) \in Nodes
<1>1. "DIR" \in Types /\ "REG" \in Types /\ "LNK" \in Types
  BY DEF Types
<1>2. Permissions \in SUBSET Flags
  BY DEF Flags
<1>3. {"R", "W"} \X Users \in SUBSET Flags
  BY DEF Flags, Permissions, Rights
<1>4. Now \in Int /\ <<>> \in Data
  BY Bounds DEF Data
<1>5. \A link \in Seq(Int) : link \in Data
  BY DEF Data
<1> QED
  BY <1>1, <1>2, <1>3, <1>4, <1>5, NewNode

(* ensure_parent_dirs_exist, then: trees stay trees and lose nothing.        *)
LEMMA EnsureGrows ==
    ASSUME NEW t \in Trees, NEW path \in Paths, NEW made \in 0 .. Len(path), NEW x
    PROVE  /\ ensure_parent_dirs_exist(t, path, made) \in Trees
           /\ Grown(t, ensure_parent_dirs_exist(t, path, made), x)
<1>1. PICK h \in [0 .. made -> Trees] :
              /\ h[0] = t
              /\ \A k \in 1 .. made : h[k] = Mkdir(h[k - 1], SubSeq(path, 1, k))
              /\ ensure_parent_dirs_exist(t, path, made) = h[made]
  BY EnsureOf
<1>2. made \in Nat /\ \A i \in 1 .. made : SubSeq(path, 1, i) \in Paths
  BY DEF Paths
<1> DEFINE T == {k \in 0 .. made : ~Grown(t, h[k], x)}
<1>3. T = {}
  <2> SUFFICES ASSUME T # {}
               PROVE  FALSE
    OBVIOUS
  <2>1. PICK k \in T : \A j \in T : k <= j
    <3>1. T \subseteq Nat
      BY <1>2
    <3> HIDE DEF T
    <3> QED
      BY <3>1, LeastNumber
  <2>2. Grown(t, t, x)
    BY DEF Grown
  <2>3. k \in 1 .. made /\ k - 1 \in 0 .. made /\ Grown(t, h[k - 1], x)
    BY <1>1, <1>2, <2>1, <2>2
  <2>4. Grown(h[k - 1], h[k], x)
    <3>1. h[k - 1] \in Trees /\ SubSeq(path, 1, k) \in Paths
      BY <1>2, <2>3
    <3>2. h[k] = Make(h[k - 1], SubSeq(path, 1, k), Node("DIR", Permissions, Now, <<>>))
      BY <1>1, <2>3 DEF Mkdir
    <3> QED
      BY <3>1, <3>2, NewNodes, MakeGrows
  <2>5. Grown(t, h[k], x)
    BY <2>3, <2>4, GrownTransitive
  <2> QED
    BY <2>1, <2>5
<1>4. made \in 0 .. made /\ h[made] \in Trees
  BY <1>2
<1> QED
  BY <1>1, <1>3, <1>4

(* u is t with the mode's bits and the time that chstat gives at the path.    *)
Statted(t, b, F, u) ==
    /\ u \in Trees /\ Grown(t, u, b.path) /\ DOMAIN u = DOMAIN t
    /\ \A q \in DOMAIN t : q # b.path => u[q] = t[q]
    /\ b.path \in DOMAIN t =>
          u[b.path] = [mode |-> [type |-> t[b.path].mode.type,
                                 bits |-> IF "chstat mode" \in F THEN t[b.path].mode.bits
                                          ELSE convert_posix_mode_to_iomanx(b.mode).bits],
                       time |-> IF "chstat time" \in F THEN t[b.path].time
                                ELSE convert_posix_time_to_iox_time(b.mtime),
                       data |-> t[b.path].data]

(* chstat changes the node at the path, and only its mode's bits and time.   *)
LEMMA ChstatOf ==
    ASSUME NEW t \in Trees, NEW b, NEW F, b.mtime \in Int
    PROVE  Statted(t, b, F, chstat(t, b, F))
<1> USE DEF Statted
<1>1. DOMAIN t \subseteq Paths /\ t \in [DOMAIN t -> Nodes]
  BY TreeIs
<1>2. CASE b.path \notin DOMAIN t
  BY <1>2 DEF chstat, Grown
<1>3. CASE b.path \in DOMAIN t
  <2> DEFINE n == t[b.path]
             bits == IF "chstat mode" \in F THEN n.mode.bits
                     ELSE convert_posix_mode_to_iomanx(b.mode).bits
             time == IF "chstat time" \in F THEN n.time
                     ELSE convert_posix_time_to_iox_time(b.mtime)
             new == [mode |-> [type |-> n.mode.type, bits |-> bits], time |-> time, data |-> n.data]
             u == chstat(t, b, F)
  <2>1. /\ n \in Nodes /\ n.mode \in Modes /\ n.mode.type \in Types /\ n.mode.bits \in SUBSET Flags
        /\ n.time \in Int /\ n.data \in Data
    BY <1>1, <1>3 DEF Nodes, Modes
  <2>2. bits \in SUBSET Flags
    <3>1. convert_posix_mode_to_iomanx(b.mode).bits \in SUBSET Flags
      BY DEF convert_posix_mode_to_iomanx
    <3> QED
      BY <2>1, <3>1
  <2>3. time \in Int
    <3>1. convert_posix_time_to_iox_time(b.mtime) \in Int
      BY DEF convert_posix_time_to_iox_time, Jst
    <3> QED
      BY <2>1, <3>1
  <2>4. new \in Nodes
    <3> HIDE DEF n, bits, time
    <3> QED
      BY <2>1, <2>2, <2>3 DEF Nodes, Modes
  <2>5. u = [t EXCEPT ![b.path] = [[n EXCEPT !.mode.bits = bits] EXCEPT !.time = time]]
    <3>1. u = [t EXCEPT ![b.path].mode.bits = bits, ![b.path].time = time]
      BY <1>3 DEF chstat
    <3> QED
      BY <1>1, <1>3, <3>1
  <2>6. [[n EXCEPT !.mode.bits = bits] EXCEPT !.time = time] = new
    <3>1. n.mode = [type |-> n.mode.type, bits |-> n.mode.bits]
      BY <2>1 DEF Modes
    <3>2. n = [mode |-> n.mode, time |-> n.time, data |-> n.data]
      BY <2>1 DEF Nodes
    <3> HIDE DEF n, bits, time
    <3>3. [n EXCEPT !.mode.bits = bits] =
              [mode |-> [type |-> n.mode.type, bits |-> bits], time |-> n.time, data |-> n.data]
      BY <3>1, <3>2
    <3>4. ASSUME NEW y, y = [mode |-> [type |-> n.mode.type, bits |-> bits],
                             time |-> n.time, data |-> n.data]
          PROVE  [y EXCEPT !.time = time] = new
      BY <3>4
    <3> QED
      BY <3>3, <3>4, Zenon
  <2>7. u = [t EXCEPT ![b.path] = new]
    <3> HIDE DEF u, n, bits, time, new
    <3> QED
      BY <2>5, <2>6
  <2> HIDE DEF u, new
  <2>8. u \in [DOMAIN t -> Nodes] /\ u[b.path] = new /\ \A q \in DOMAIN t : q # b.path => u[q] = t[q]
    BY <1>1, <1>3, <2>4, <2>7
  <2>9. u \in Trees
    BY <1>1, <2>8, TreeIntro
  <2>10. Grown(t, u, b.path)
    BY <2>8 DEF Grown
  <2> QED
    BY <1>3, <2>8, <2>9, <2>10 DEF u, new
<1> QED
  BY <1>2, <1>3
-----------------------------------------------------------------------------
(* The blocks of a tar file.                                                 *)
Headers == [kind : {"header"}, part : Parts \cup {None}, path : Paths, type : Types,
            size : Nat, link : Seq(Int), mode : {convert_mode_to_posix(m) : m \in Modes},
            mtime : Int]
Contents == [kind : {"data"}, bytes : [1 .. Block -> Int]]
BlockSet == Headers \cup Contents \cup {Zero}

(* A block is what its kind says.                                            *)
LEMMA BlockKinds ==
    ASSUME NEW b \in BlockSet
    PROVE  /\ b.kind = "header" => b \in Headers
           /\ b.kind = "data" => b \in Contents
           /\ b.kind = "zero" => b = Zero
           /\ b.kind \in {"header", "data", "zero"}
<1>1. CASE b \in Headers
  BY <1>1 DEF Headers
<1>2. CASE b \in Contents
  BY <1>2 DEF Contents
<1>3. CASE b = Zero
  BY <1>3 DEF Zero
<1> QED
  BY <1>1, <1>2, <1>3 DEF BlockSet

(* The time that is stored: the same, in an unsigned int that holds it.      *)
LEMMA StampOf ==
    ASSUME NEW time \in Int
    PROVE  /\ Stamp(time) \in Int
           /\ convert_iox_stat_time_to_posix(time) \in 0 .. TimeModulus - 1
                => Stamp(time) = convert_iox_stat_time_to_posix(time)
<1>1. convert_iox_stat_time_to_posix(time) \in Int
  BY DEF convert_iox_stat_time_to_posix, Jst
<1>2. TimeModulus \in Nat /\ TimeModulus >= 1
  BY Bounds
<1>3. \A x \in Int, m \in Nat : m >= 1 => x % m \in Int /\ (x \in 0 .. m - 1 => x % m = x)
  OBVIOUS
<1> QED
  BY <1>1, <1>2, <1>3 DEF Stamp

(* The target that is stored: the same, in a field that holds it.            *)
LEMMA CutOf ==
    ASSUME NEW target \in Seq(Int)
    PROVE  Cut(target) \in Seq(Int) /\ (Len(target) <= LinkField => Cut(target) = target)
<1>1. CASE Len(target) <= LinkField
  BY <1>1 DEF Cut
<1>2. CASE ~(Len(target) <= LinkField)
  <2>1. SubSeq(target, 1, LinkField) \in Seq(Int)
    BY <1>2, Bounds
  <2> QED
    BY <1>2, <2>1 DEF Cut
<1> QED
  BY <1>1, <1>2

(* The sizes a header may hold: that of the file, and 0 where NAME stayed    *)
(* clear of the field.                                                       *)
LEMMA SizesOf ==
    ASSUME NEW path, NEW node, IsNode(node), NEW z \in SizeOf(path, node)
    PROVE  /\ z \in Nat
           /\ node.mode.type = "REG" => z = Len(node.data)
           /\ node.mode.type # "REG" => z < SizeModulus
           /\ node.mode.type # "REG" /\ ~Overruns(path) => z = 0
<1>1. SizeModulus \in Nat /\ SizeModulus >= 1
  BY Bounds
<1>2. CASE node.mode.type = "REG"
  <2>1. z = Len(node.data)
    BY <1>2 DEF SizeOf
  <2> QED
    BY <1>2, <2>1, NodeType
<1>3. CASE node.mode.type # "REG" /\ Overruns(path)
  <2>1. z \in 0 .. SizeModulus - 1
    BY <1>3 DEF SizeOf
  <2> QED
    BY <1>1, <1>3, <2>1
<1>4. CASE node.mode.type # "REG" /\ ~Overruns(path)
  <2>1. z = 0
    BY <1>4 DEF SizeOf
  <2> QED
    BY <1>1, <1>4, <2>1
<1> QED
  BY <1>2, <1>3, <1>4

(* The fields of a header.                                                   *)
LEMMA HeaderOf ==
    ASSUME NEW p \in Parts, NEW path \in Paths, NEW n \in Nodes, NEW size \in Nat,
           NEW link \in Seq(Int)
    PROVE  LET b == Header(p, path, n, size, link) IN
           /\ b \in Headers
           /\ b.kind = "header" /\ b.path = path /\ b.type = n.mode.type
           /\ b.size = size /\ b.link = link
           /\ b.mode = convert_mode_to_posix(n.mode)
           /\ b.mtime = Stamp(n.time)
           /\ b.part = IF Long(path) THEN None ELSE p
<1>1. n.mode \in Modes /\ n.mode.type \in Types /\ n.time \in Int
  BY DEF Nodes, Modes
<1> DEFINE part == IF Long(path) THEN None ELSE p
           mode == convert_mode_to_posix(n.mode)
           mtime == Stamp(n.time)
<1>2. /\ part \in Parts \cup {None} /\ mtime \in Int
      /\ mode \in {convert_mode_to_posix(m) : m \in Modes}
  BY <1>1, StampOf
<1>3. Header(p, path, n, size, link) =
        [kind |-> "header", part |-> part, path |-> path, type |-> n.mode.type, size |-> size,
         link |-> link, mode |-> mode, mtime |-> mtime]
  BY DEF Header
<1> HIDE DEF part, mode, mtime
<1>4. [kind |-> "header", part |-> part, path |-> path, type |-> n.mode.type, size |-> size,
         link |-> link, mode |-> mode, mtime |-> mtime] \in Headers
  BY <1>1, <1>2 DEF Headers
<1>5. Header(p, path, n, size, link) \in Headers
  BY <1>3, <1>4
<1> QED
  BY <1>3, <1>5 DEF part, mode, mtime

(* The blocks of a file's data.                                              *)
LEMMA DataBlocksOf ==
    ASSUME NEW data \in Seq(Int), NEW n \in Nat
    PROVE  /\ DataBlocks(data, n) \in Seq(BlockSet)
           /\ Len(DataBlocks(data, n)) = n
           /\ \A k \in 1 .. n : /\ DataBlocks(data, n)[k] = DataBlock(data, k)
                                /\ DataBlock(data, k) \in Contents
                                /\ DataBlock(data, k).kind = "data"
<1>1. ASSUME NEW k \in 1 .. n
      PROVE  DataBlock(data, k) \in Contents /\ DataBlock(data, k).kind = "data"
  <2> DEFINE value(i) == LET j == (k - 1) * Block + i
                         IN  IF j <= Len(data) THEN data[j] ELSE 0
             bytes == [i \in 1 .. Block |-> value(i)]
  <2>1. ASSUME NEW i \in 1 .. Block
        PROVE  value(i) \in Int
    <3> DEFINE o == (k - 1) * Block
    <3>1. o \in Nat
      <4>1. \A x \in Nat, y \in Nat : x * y \in Nat
        OBVIOUS
      <4>2. k - 1 \in Nat /\ Block \in Nat
        BY Bounds
      <4> QED
        BY <4>1, <4>2
    <3> HIDE DEF o
    <3>2. i \in Nat /\ i >= 1
      BY Bounds
    <3>3. IF o + i <= Len(data) THEN data[o + i] \in Int ELSE TRUE
      BY <3>1, <3>2
    <3> QED
      BY <3>3 DEF o
  <2>2. DataBlock(data, k) = [kind |-> "data", bytes |-> bytes]
    BY DEF DataBlock
  <2> HIDE DEF value
  <2>3. bytes \in [1 .. Block -> Int]
    BY <2>1
  <2> HIDE DEF bytes
  <2> QED
    BY <2>2, <2>3 DEF Contents
<1>2. DataBlocks(data, n) = [k \in 1 .. n |-> DataBlock(data, k)]
  BY DEF DataBlocks
<1>3. \A k \in 1 .. n : DataBlock(data, k) \in BlockSet
  BY <1>1 DEF BlockSet
<1> QED
  BY <1>1, <1>2, <1>3

(* What tar_c_file writes for a node: nothing, or a header that gives a      *)
(* size, and n blocks of data.                                               *)
LEMMA TarFileOf ==
    ASSUME NEW p \in Parts, NEW path \in Paths, NEW node, IsNode(node),
           NEW size \in SizeOf(path, node), NEW F, NEW n \in Nat,
           node.mode.type # "REG" => n = 0
    PROVE  LET new == tar_c_file(p, path, node, size, F, n)
               link == IF node.mode.type = "LNK" /\ "readlink" \notin F THEN Cut(node.data)
                       ELSE <<>>
           IN  /\ new \in Seq(BlockSet) /\ size \in Nat /\ link \in Seq(Int)
               /\ size >= SizeModulus => new = <<>>
               /\ size < SizeModulus =>
                    /\ Len(new) = 1 + n
                    /\ new[1] = Header(p, path, node, size, link)
                    /\ \A k \in 2 .. 1 + n : new[k] = DataBlock(node.data, k - 1)
                                             /\ new[k].kind = "data"
<1> DEFINE link == IF node.mode.type = "LNK" /\ "readlink" \notin F THEN Cut(node.data) ELSE <<>>
           b == Header(p, path, node, size, link)
           d == DataBlocks(node.data, n)
           new == tar_c_file(p, path, node, size, F, n)
<1>1. node \in Nodes /\ node.data \in Seq(Int)
  BY NodeType
<1>2. size \in Nat
  BY SizesOf
<1>3. link \in Seq(Int)
  <2>1. <<>> \in Seq(Int) /\ Cut(node.data) \in Seq(Int)
    BY <1>1, CutOf
  <2> QED
    BY <2>1, Zenon
<1>4. d \in Seq(BlockSet) /\ Len(d) = n
      /\ \A k \in 1 .. n : d[k] = DataBlock(node.data, k) /\ d[k].kind = "data"
  <2>1. CASE node.mode.type = "REG"
    BY <1>1, <2>1, DataBlocksOf
  <2>2. CASE node.mode.type # "REG"
    <3>1. n = 0
      BY <2>2
    <3>2. d = <<>>
      BY <3>1 DEF DataBlocks
    <3> HIDE DEF d
    <3> QED
      BY <3>1, <3>2
  <2> QED
    BY <2>1, <2>2
<1>5. b \in BlockSet
  BY <1>1, <1>2, <1>3, HeaderOf DEF BlockSet
<1>6. new = IF size >= SizeModulus THEN <<>> ELSE <<b>> \o d
  BY DEF tar_c_file
<1> HIDE DEF link, b, d, new
<1>7. /\ <<b>> \o d \in Seq(BlockSet) /\ Len(<<b>> \o d) = 1 + n /\ (<<b>> \o d)[1] = b
      /\ \A k \in 2 .. 1 + n : (<<b>> \o d)[k] = d[k - 1]
  BY <1>4, <1>5
<1>8. /\ new \in Seq(BlockSet)
      /\ size >= SizeModulus => new = <<>>
      /\ size < SizeModulus => new = <<b>> \o d
  BY <1>2, <1>6, <1>7, Bounds
<1>9. size < SizeModulus =>
        /\ Len(new) = 1 + n /\ new[1] = b
        /\ \A k \in 2 .. 1 + n : new[k] = DataBlock(node.data, k - 1) /\ new[k].kind = "data"
  <2> SUFFICES ASSUME size < SizeModulus
               PROVE  /\ Len(new) = 1 + n /\ new[1] = b
                      /\ \A k \in 2 .. 1 + n : new[k] = DataBlock(node.data, k - 1)
                                               /\ new[k].kind = "data"
    OBVIOUS
  <2>1. \A k \in 2 .. 1 + n : k - 1 \in 1 .. n
    OBVIOUS
  <2> QED
    BY <1>4, <1>7, <1>8, <2>1
<1> QED
  BY <1>2, <1>3, <1>8, <1>9 DEF link, b, new

(* How many blocks an entry has, and when as many are skipped.               *)
LEMMA BlocksOf ==
    ASSUME NEW size \in Nat
    PROVE  /\ Blocks(size) \in Nat
           /\ Skip(size) \in Nat
           /\ Blocks(0) = 0
           /\ size <= SizeModulus - Block => Skip(size) = Blocks(size)
<1>1. Block \in Nat /\ Block >= 1 /\ SizeModulus \in Nat /\ SizeModulus >= 1
  BY Bounds
<1>2. \A x \in Nat, y \in Nat : y >= 1 => x \div y \in Nat /\ x % y \in Nat
  OBVIOUS
<1>3. size + Block - 1 \in Nat /\ (size + Block - 1) % SizeModulus \in Nat
  BY <1>1, <1>2
<1>4. Blocks(size) \in Nat /\ Skip(size) \in Nat
  BY <1>1, <1>2, <1>3 DEF Blocks, Skip
<1>5. Blocks(0) = 0
  <2>1. \A y \in Nat : y >= 1 => (0 + y - 1) \div y = 0
    OBVIOUS
  <2> QED
    BY <1>1, <2>1 DEF Blocks
<1>6. ASSUME size <= SizeModulus - Block
      PROVE  Skip(size) = Blocks(size)
  <2>1. \A x \in Nat, y \in Nat : x < y => x % y = x
    OBVIOUS
  <2>2. size + Block - 1 < SizeModulus
    BY <1>1, <1>6
  <2> QED
    BY <1>1, <1>3, <2>1, <2>2 DEF Blocks, Skip
<1> QED
  BY <1>4, <1>5, <1>6

(* A chunk is a sequence of bytes.                                           *)
LEMMA ChunkType ==
    ASSUME tar \in Seq(BlockSet), at \in Nat, NEW size \in Nat, NEW k \in Nat \ {0}
    PROVE  Chunk(k, size) \in Seq(Int)
<1> DEFINE n == IF k * Block <= size THEN Block ELSE size - (k - 1) * Block
           value(i) == IF at + k <= Len(tar) /\ tar[at + k].kind = "data"
                       THEN tar[at + k].bytes[i] ELSE Junk
<1>1. n \in Int /\ n <= Block
  <2>1. Block \in Nat
    BY Bounds
  <2>2. k * Block \in Nat /\ (k - 1) * Block = k * Block - Block
    BY <2>1
  <2> QED
    BY <2>1, <2>2
<1>2. Chunk(k, size) = [i \in 1 .. n |-> value(i)]
  BY DEF Chunk
<1> HIDE DEF n
<1>3. ASSUME NEW i \in 1 .. n
      PROVE  value(i) \in Int
  <2>1. i \in 1 .. Block
    BY <1>1, Bounds
  <2>2. CASE at + k <= Len(tar) /\ tar[at + k].kind = "data"
    <3>1. tar[at + k] \in BlockSet
      BY <2>2
    <3>2. tar[at + k] \in Contents
      BY <2>2, <3>1, BlockKinds
    <3>3. tar[at + k].bytes[i] \in Int
      BY <2>1, <3>2 DEF Contents
    <3> QED
      BY <2>2, <3>3
  <2>3. CASE ~(at + k <= Len(tar) /\ tar[at + k].kind = "data")
    BY <2>3 DEF Junk
  <2> QED
    BY <2>2, <2>3
<1> HIDE DEF value
<1>4. CASE n \in Nat
  <2> DEFINE f == [i \in 1 .. n |-> value(i)]
  <2>1. f \in [1 .. n -> Int]
    BY <1>3
  <2> QED
    BY <1>2, <1>4, <2>1
<1>5. CASE n \notin Nat
  <2>1. 1 .. n = {}
    BY <1>1, <1>5
  <2>2. Chunk(k, size) = <<>>
    BY <1>2, <2>1
  <2> QED
    BY <2>2
<1> QED
  BY <1>4, <1>5

(* So is what the chunks that were written make.                             *)
LEMMA FlattenType ==
    ASSUME NEW V, NEW n \in Nat, NEW s \in [1 .. n -> Seq(V)]
    PROVE  FlattenSeq(s) \in Seq(V)
<1>1. s \in Seq(Seq(V)) /\ Len(s) = n
  OBVIOUS
<1>2. CASE s = <<>>
  BY <1>2 DEF FlattenSeq
<1>3. CASE s # <<>>
  <2>1. PICK h \in [1 .. Len(s) -> Seq(V)] : FlattenSeq(s) = h[Len(s)]
    BY <1>1, <1>3, FlattenOf
  <2>2. Len(s) \in 1 .. Len(s)
    BY <1>1, <1>3, EmptySeq
  <2> QED
    BY <2>1, <2>2
<1> QED
  BY <1>2, <1>3
-----------------------------------------------------------------------------
(* Types of the variables.                                                   *)
Frames == [dir : Paths, rest : SUBSET DOMAIN Weight]
Jobs == [mode : {"none", "backup", "restore"}, part : Parts \cup {All}, overwrite : BOOLEAN]
TypeInv ==
    /\ pc \in {"idle", "part", "visit", "dread", "unwind", "header", "umount"}
    /\ job \in Jobs
    /\ disk \in [Parts -> Trees] /\ before \in [Parts -> Trees] /\ source \in Disks
    /\ mounted \in Parts \cup {None}
    /\ todo \in Seq(Parts) /\ stack \in Seq(Frames) /\ here \in Paths
    /\ at \in Nat \ {0} /\ short \in BOOLEAN
    /\ pc # "idle" => tar \in Seq(BlockSet)
    /\ tar = NoFile \/ tar \in Seq(BlockSet)

(* A descriptor is open for each directory of the walk, and one for each     *)
(* close that failed.                                                        *)
Descriptors ==
    /\ open \in Nat /\ open >= Len(stack)
    /\ "close" \notin faults => open = Len(stack)

(* Which phase of which job the program is in, and what of the walk is open. *)
Walking == pc \in {"visit", "dread", "unwind"}
Phases ==
    /\ pc \notin {"idle", "part"} => todo # <<>> /\ mounted = Head(todo) /\ Selected(mounted)
    /\ pc # "idle" => job.mode # "none"
    /\ Walking => job.mode = "backup"
    /\ pc = "header" => job.mode = "restore"
    /\ job.mode # "restore" => disk = source
    /\ ~Walking => stack = <<>>
    /\ pc = "visit" => here \in DOMAIN disk[mounted] /\ (stack = <<>> => here = <<>>)
    /\ pc = "dread" => stack # <<>>
    /\ \A k \in DOMAIN stack : stack[k].rest \subseteq Names(disk[mounted], stack[k].dir)
Control == Phases /\ Descriptors

(* The mounted partition becomes u, the restore goes on at a block, and a    *)
(* file may stay open: one whose close failed.                               *)
Going(u, next) ==
    /\ faults \subseteq faults'
    /\ \E kept \in {0, 1} : (kept = 0 \/ "close" \in faults') /\ Restored(u, next, kept)

(* The next turn of the restore finds the mounted partition as u, after the  *)
(* calls F have failed, and goes on at a block.                              *)
Restoring(u, F, next) ==
    /\ AtHeader /\ ~Foreign(tar[at]) /\ ~Existing(tar[at], F)
    /\ Fail(F)
    /\ Grown(disk[mounted], u, tar[at].path)
    /\ Going(u, next)

(* How a turn that no call has failed in, or only the calls F, goes on.      *)
LEMMA Goes ==
    ASSUME NEW F, NEW u, NEW next, NEW kept \in {0, 1}, Restored(u, next, kept),
           \/ Fail(F) /\ (kept = 0 \/ "close" \in F)
           \/ faults' = faults /\ kept = 0
    PROVE  Going(u, next)
<1>1. faults \subseteq faults'
  BY DEF Fail
<1>2. kept = 0 \/ "close" \in faults'
  BY DEF Fail
<1> QED
  BY <1>1, <1>2, Zenon DEF Going

(* Skipped entries, and data taken for a header, open nothing.               *)
LEMMA SkipGoes ==
    ASSUME skip_entry
    PROVE  AtHeader /\ faults' = faults /\ Going(disk[mounted], at + 1 + Skip(tar[at].size))
<1>1. AtHeader /\ faults' = faults /\ Restored(disk[mounted], at + 1 + Skip(tar[at].size), 0)
  BY DEF skip_entry
<1> QED
  BY <1>1, Goes

(* The second of the two.                                                    *)
LEMMA MisreadGoes ==
    ASSUME misread
    PROVE  /\ pc = "header" /\ faults' = faults
           /\ \E n \in 0 .. Len(tar) - at : Going(disk[mounted], at + 1 + n)
<1>1. pc = "header" /\ faults' = faults
  BY DEF misread
<1>2. PICK n \in 0 .. Len(tar) - at : Restored(disk[mounted], at + 1 + n, 0)
  BY DEF misread
<1>3. Going(disk[mounted], at + 1 + n)
  BY <1>1, <1>2, Goes
<1> QED
  BY <1>1, <1>3

(* Descriptors come and go with the directories, but for a close that fails. *)
LEMMA DescriptorsGo ==
    ASSUME Descriptors, stack \in Seq(Frames), stack' \in Seq(Frames), faults \subseteq faults',
           NEW kept \in {0, 1}, kept = 0 \/ "close" \in faults',
           open' = open + (Len(stack') - Len(stack)) + kept
    PROVE  Descriptors'
<1>1. open \in Nat /\ open >= Len(stack) /\ ("close" \notin faults => open = Len(stack))
  BY DEF Descriptors
<1>2. Len(stack) \in Nat /\ Len(stack') \in Nat
  OBVIOUS
<1>3. open' \in Nat /\ open' >= Len(stack')
  BY <1>1, <1>2
<1>4. ASSUME "close" \notin faults'
      PROVE  open' = Len(stack')
  <2>1. kept = 0 /\ "close" \notin faults
    BY <1>4
  <2> QED
    BY <1>1, <1>2, <2>1
<1> QED
  BY <1>3, <1>4 DEF Descriptors

(* They stay while nothing is opened or closed.                              *)
LEMMA DescriptorsStay ==
    ASSUME Descriptors, UNCHANGED <<open, stack>>, faults \subseteq faults'
    PROVE  Descriptors'
  BY DEF Descriptors

(* A restore that has mounted a partition.                                   *)
LEMMA Mounted ==
    ASSUME TypeInv, Control, pc \notin {"idle", "part"}
    PROVE  mounted \in Parts /\ disk[mounted] \in Trees /\ tar \in Seq(BlockSet)
<1>1. todo \in Seq(Parts) /\ todo # <<>> /\ mounted = Head(todo)
  BY DEF TypeInv, Control, Phases
<1>2. mounted \in Parts
  BY <1>1
<1> QED
  BY <1>2 DEF TypeInv

(* The header that is read.                                                  *)
LEMMA ReadHeader ==
    ASSUME TypeInv, Control, AtHeader
    PROVE  /\ mounted \in Parts /\ disk[mounted] \in Trees /\ tar \in Seq(BlockSet)
           /\ at \in 1 .. Len(tar) /\ tar[at] \in Headers
           /\ tar[at].path \in Paths /\ tar[at].size \in Nat /\ tar[at].mtime \in Int
           /\ tar[at].link \in Seq(Int) /\ tar[at].type \in Types
           /\ ~Foreign(tar[at]) => tar[at].path # <<>> /\ tar[at].part = mounted
<1>1. mounted \in Parts /\ disk[mounted] \in Trees /\ tar \in Seq(BlockSet)
  BY Mounted DEF AtHeader
<1>2. at \in 1 .. Len(tar)
  BY <1>1 DEF AtHeader, InFile, TypeInv
<1>3. tar[at] \in BlockSet /\ tar[at].kind = "header"
  BY <1>1, <1>2 DEF AtHeader
<1>4. tar[at] \in Headers
  BY <1>3, BlockKinds
<1>5. ~Foreign(tar[at]) => tar[at].path # <<>> /\ tar[at].part = mounted
  BY DEF Foreign
<1> QED
  BY <1>1, <1>2, <1>4, <1>5 DEF Headers

(* Directories above a path that is not the root: as many as it has names,   *)
(* less one, or fewer.                                                       *)
LEMMA ParentsOf ==
    ASSUME NEW path \in Paths, path # <<>>, NEW F, NEW made \in Parents(path, F)
    PROVE  made \in 0 .. Len(path) /\ made < Len(path)
<1>1. Len(path) \in Nat /\ Len(path) >= 1
  BY EmptySeq DEF Paths
<1> QED
  BY <1>1 DEF Parents

(* A restored directory.                                                     *)
LEMMA DirectoryStep ==
    ASSUME TypeInv, Control, restore_directory
    PROVE  \E u \in Trees : \E F : Restoring(u, F, at + 1) /\ tar[at].type = "DIR"
<1> DEFINE b == tar[at]
<1>1. PICK F \in Failing({"getstat", "mkdir", "chstat mode", "chstat time"}),
           made \in 0 .. PathMax :
          LET t == ensure_parent_dirs_exist(disk[mounted], b.path, made)
              u == IF "mkdir" \in F THEN t ELSE Mkdir(t, b.path)
          IN  /\ ~Existing(b, F) /\ made \in Parents(b.path, F)
              /\ Fail(F)
              /\ Restored(chstat(u, b, F), at + 1, 0)
  BY DEF restore_directory
<1>2. AtHeader /\ b.type = "DIR" /\ ~Foreign(b)
  BY DEF restore_directory
<1>3. /\ disk[mounted] \in Trees /\ b.path \in Paths /\ b.path # <<>> /\ b.mtime \in Int
      /\ made \in 0 .. Len(b.path)
  BY <1>1, <1>2, ReadHeader, ParentsOf
<1> DEFINE t == ensure_parent_dirs_exist(disk[mounted], b.path, made)
           u == IF "mkdir" \in F THEN t ELSE Mkdir(t, b.path)
           v == chstat(u, b, F)
           x == b.path
<1>4. t \in Trees /\ Grown(disk[mounted], t, x)
  BY <1>3, EnsureGrows
<1>5. Grown(t, t, x)
  BY DEF Grown
<1>6. u \in Trees /\ Grown(t, u, x)
  <2>1. Mkdir(t, b.path) \in Trees /\ Grown(t, Mkdir(t, b.path), x)
    <3> HIDE DEF t
    <3> QED
      BY <1>3, <1>4, NewNodes, MakeOf, MakeGrows DEF Mkdir
  <2> HIDE DEF t
  <2> QED
    BY <1>4, <1>5, <2>1
<1>7. v \in Trees /\ Grown(u, v, x)
  <2> HIDE DEF u
  <2> QED
    BY <1>3, <1>6, ChstatOf DEF Statted
<1>8. Fail(F) /\ Going(v, at + 1) /\ ~Existing(b, F)
  <2>1. Fail(F) /\ Restored(v, at + 1, 0) /\ ~Existing(b, F)
    BY <1>1
  <2> HIDE DEF v
  <2> QED  BY <2>1, Goes
<1> HIDE DEF t, u, v
<1>9. Grown(disk[mounted], v, x)
  BY <1>4, <1>6, <1>7, GrownTransitive
<1>10. Restoring(v, F, at + 1)
  BY <1>2, <1>8, <1>9 DEF Restoring
<1> QED
  BY <1>2, <1>7, <1>10

(* A restored link.                                                          *)
LEMMA LinkStep ==
    ASSUME TypeInv, Control, restore_link
    PROVE  \E u \in Trees : \E F : Restoring(u, F, at + 1) /\ tar[at].type = "LNK"
<1> DEFINE b == tar[at]
<1>1. PICK F \in Failing({"getstat", "mkdir", "symlink"}), made \in 0 .. PathMax :
          LET t == ensure_parent_dirs_exist(disk[mounted], b.path, made)
          IN  /\ ~Existing(b, F) /\ made \in Parents(b.path, F)
              /\ Fail(F)
              /\ Restored(IF "symlink" \in F THEN t
                          ELSE Make(t, b.path, Node("LNK", Permissions, Now, b.link)),
                          at + 1, 0)
  BY DEF restore_link
<1>2. AtHeader /\ b.type = "LNK" /\ ~Foreign(b)
  BY DEF restore_link
<1>3. /\ disk[mounted] \in Trees /\ b.path \in Paths /\ b.path # <<>> /\ b.link \in Seq(Int)
      /\ made \in 0 .. Len(b.path)
  BY <1>1, <1>2, ReadHeader, ParentsOf
<1> DEFINE t == ensure_parent_dirs_exist(disk[mounted], b.path, made)
           w == Make(t, b.path, Node("LNK", Permissions, Now, b.link))
           u == IF "symlink" \in F THEN t ELSE w
           x == b.path
<1>4. t \in Trees /\ Grown(disk[mounted], t, x)
  BY <1>3, EnsureGrows
<1>5. Grown(t, t, x)
  BY DEF Grown
<1>6. w \in Trees /\ Grown(t, w, x)
  <2> HIDE DEF t
  <2> QED
    BY <1>3, <1>4, NewNodes, MakeOf, MakeGrows
<1>7. Fail(F) /\ Going(u, at + 1) /\ ~Existing(b, F)
  <2>1. Fail(F) /\ Restored(u, at + 1, 0) /\ ~Existing(b, F)
    BY <1>1
  <2> HIDE DEF u
  <2> QED  BY <2>1, Goes
<1>8. u \in Trees /\ Grown(t, u, x)
  <2> HIDE DEF t, w
  <2> QED
    BY <1>4, <1>5, <1>6
<1> HIDE DEF t, u
<1>9. Grown(disk[mounted], u, x)
  BY <1>4, <1>8, GrownTransitive
<1>10. Restoring(u, F, at + 1)
  BY <1>2, <1>7, <1>9 DEF Restoring
<1> QED
  BY <1>2, <1>8, <1>10

(* u is t with a file at the path that has this data.                        *)
Holding(t, path, data, u) ==
    /\ u \in Trees /\ Grown(t, u, path) /\ DOMAIN u = DOMAIN t \cup {path}
    /\ u[path].data = data /\ u[path].mode.type = "REG"
    /\ \A q \in DOMAIN t : q # path /\ (path \in DOMAIN t \/ q # Front(path)) => u[q] = t[q]

(* A file that could be opened for writing, with the data written to it.     *)
LEMMA WrittenOf ==
    ASSUME NEW t \in Trees, NEW path \in Paths, CanCreate(t, path), NEW data \in Data
    PROVE  Holding(t, path, data, [Create(t, path) EXCEPT ![path].data = data])
<1> DEFINE u == [Create(t, path) EXCEPT ![path].data = data]
<1> SUFFICES Holding(t, path, data, u)
  OBVIOUS
<1> USE DEF Holding
<1> DEFINE c == Create(t, path)
<1>1. DOMAIN t \subseteq Paths /\ t \in [DOMAIN t -> Nodes] /\ Now \in Int /\ <<>> \in Data
  BY TreeIs, Bounds DEF Data
<1>2. /\ c \in Trees /\ DOMAIN c = DOMAIN t \cup {path} /\ c[path].mode.type = "REG"
      /\ Grown(t, c, path)
      /\ \A q \in DOMAIN t : q # path /\ (path \in DOMAIN t \/ q # Front(path)) => c[q] = t[q]
  <2>1. CASE path \in DOMAIN t
    <3> DEFINE n == t[path]
               new == [mode |-> n.mode, time |-> Now, data |-> <<>>]
    <3>1. n \in Nodes /\ n.mode \in Modes /\ n.mode.type = "REG"
      BY <1>1, <2>1 DEF Nodes, CanCreate, CanMake
    <3>2. c = [t EXCEPT ![path] = [[n EXCEPT !.data = <<>>] EXCEPT !.time = Now]]
      <4>1. c = [t EXCEPT ![path].data = <<>>, ![path].time = Now]
        BY <2>1 DEF Create
      <4> QED
        BY <1>1, <2>1, <4>1
    <3>3. [[n EXCEPT !.data = <<>>] EXCEPT !.time = Now] = new
      <4>1. n = [mode |-> n.mode, time |-> n.time, data |-> n.data]
        BY <3>1 DEF Nodes
      <4> HIDE DEF n
      <4>2. [n EXCEPT !.data = <<>>] = [mode |-> n.mode, time |-> n.time, data |-> <<>>]
        BY <4>1
      <4>3. ASSUME NEW y, y = [mode |-> n.mode, time |-> n.time, data |-> <<>>]
            PROVE  [y EXCEPT !.time = Now] = new
        BY <4>3
      <4> QED
        BY <4>2, <4>3, Zenon
    <3>4. new \in Nodes /\ new.mode.type = "REG"
      <4> HIDE DEF n
      <4> QED
        BY <1>1, <3>1 DEF Nodes
    <3> HIDE DEF n, new, c
    <3>5. c = [t EXCEPT ![path] = new]
      BY <3>2, <3>3
    <3>6. /\ c \in [DOMAIN t -> Nodes] /\ c[path] = new
          /\ \A q \in DOMAIN t : q # path => c[q] = t[q]
      BY <1>1, <2>1, <3>4, <3>5
    <3>7. c \in Trees
      BY <1>1, <3>6, TreeIntro
    <3>8. Grown(t, c, path)
      BY <3>6 DEF Grown
    <3>9. DOMAIN c = DOMAIN t \cup {path}
      BY <2>1, <3>6
    <3> QED
      BY <3>4, <3>6, <3>7, <3>8, <3>9
  <2>2. CASE path \notin DOMAIN t
    <3> DEFINE node == Node("REG", {"R", "W"} \X Users, Now, <<>>)
    <3>1. CanMake(t, path) /\ c = Make(t, path, node)
      BY <2>2 DEF CanCreate, Create
    <3>2. node \in Nodes /\ node.mode.type = "REG"
      BY NewNodes DEF Node
    <3> HIDE DEF node, c
    <3>3. Grown(t, c, path)
      BY <3>1, <3>2, MakeGrows
    <3>4. /\ c \in Trees
          /\ DOMAIN t \subseteq DOMAIN c /\ DOMAIN c \subseteq DOMAIN t \cup {path}
          /\ path \in DOMAIN c /\ c[path] = node
          /\ \A q \in DOMAIN t : q # Front(path) => c[q] = t[q]
      BY <3>1, <3>2, MakeOf
    <3> QED
      BY <2>2, <3>2, <3>3, <3>4
  <2> QED
    BY <2>1, <2>2
<1> HIDE DEF c
<1>3. c \in [DOMAIN c -> Nodes] /\ DOMAIN c \subseteq Paths /\ c[path] \in Nodes
  BY <1>2, TreeIs
<1> DEFINE n == c[path]
           new == [mode |-> n.mode, time |-> n.time, data |-> data]
<1>4. [n EXCEPT !.data = data] = new
  <2>1. n = [mode |-> n.mode, time |-> n.time, data |-> n.data]
    BY <1>3 DEF Nodes
  <2> HIDE DEF n
  <2> QED
    BY <2>1
<1>5. new \in Nodes
  <2> HIDE DEF n
  <2> QED
    BY <1>3 DEF Nodes, n
<1>6. u = [c EXCEPT ![path] = new]
  <2>1. u = [c EXCEPT ![path].data = data]
    BY DEF c
  <2> QED
    BY <1>2, <1>3, <1>4, <2>1
<1>7. new.data = data /\ new.mode.type = "REG"
  BY <1>2
<1> HIDE DEF n, new, u
<1>8. /\ u \in [DOMAIN c -> Nodes] /\ u[path] = new
      /\ \A q \in DOMAIN c : q # path => u[q] = c[q]
  BY <1>2, <1>3, <1>5, <1>6
<1>9. u \in Trees
  BY <1>3, <1>8, TreeIntro
<1>10. Grown(c, u, path)
  BY <1>8 DEF Grown
<1>11. Grown(t, u, path)
  BY <1>2, <1>10, GrownTransitive
<1>12. DOMAIN u = DOMAIN t \cup {path}
  BY <1>2, <1>8
<1>13. \A q \in DOMAIN t : q # path /\ (path \in DOMAIN t \/ q # Front(path)) => u[q] = t[q]
  BY <1>2, <1>8
<1> QED
  BY <1>7, <1>8, <1>9, <1>11, <1>12, <1>13

(* The chunks that were written make a sequence of bytes.                    *)
LEMMA WrittenType ==
    ASSUME tar \in Seq(BlockSet), at \in Nat, NEW size \in Nat, NEW W
    PROVE  FlattenSeq([k \in 1 .. Blocks(size) |-> IF k \in W THEN Chunk(k, size) ELSE <<>>])
               \in Seq(Int)
<1> DEFINE last == Blocks(size)
           piece(k) == IF k \in W THEN Chunk(k, size) ELSE <<>>
           s == [k \in 1 .. last |-> piece(k)]
<1>1. last \in Nat
  BY BlocksOf
<1> HIDE DEF last
<1>2. ASSUME NEW k \in 1 .. last
      PROVE  piece(k) \in Seq(Int)
  <2>1. k \in Nat \ {0}
    BY <1>1
  <2>2. Chunk(k, size) \in Seq(Int)
    BY <2>1, ChunkType
  <2> QED
    BY <2>2
<1> HIDE DEF piece
<1>3. s \in [1 .. last -> Seq(Int)]
  BY <1>2
<1> HIDE DEF s
<1>4. FlattenSeq(s) \in Seq(Int)
  BY <1>1, <1>3, FlattenType
<1> QED
  BY <1>4 DEF s, piece, last

(* A restored file, or one that could not be opened.                         *)
LEMMA FileStep ==
    ASSUME TypeInv, Control, restore_file
    PROVE  /\ tar[at].type = "REG"
           /\ \E u \in Trees : \E F : \/ Restoring(u, F, at + 1 + Skip(tar[at].size))
                                     \/ Restoring(u, F, at + 1 + Blocks(tar[at].size))
<1> DEFINE b == tar[at]
           last == Blocks(b.size)
           piece(W, k) == IF k \in W THEN Chunk(k, b.size) ELSE <<>>
           data(W) == FlattenSeq([k \in 1 .. last |-> piece(W, k)])
<1>1. PICK F \in Failing({"getstat", "mkdir", "open", "write", "close", "chstat mode",
                          "chstat time"}),
           made \in 0 .. PathMax :
          LET t == ensure_parent_dirs_exist(disk[mounted], b.path, made)
          IN  /\ ~Existing(b, F) /\ made \in Parents(b.path, F)
              /\ Fail(F)
              /\ IF "open" \in F \/ open >= MaxOpen \/ ~CanCreate(t, b.path)
                 THEN "close" \notin F /\ Restored(t, at + 1 + Skip(b.size), 0)
                 ELSE \E written :
                        LET u == [Create(t, b.path) EXCEPT ![b.path].data = data(written)]
                        IN  Restored(chstat(u, b, F), at + 1 + last,
                                     IF "close" \in F THEN 1 ELSE 0)
  BY DEF restore_file
<1>2. AtHeader /\ b.type = "REG" /\ ~Foreign(b)
  BY DEF restore_file
<1>3. /\ disk[mounted] \in Trees /\ b.path \in Paths /\ b.path # <<>> /\ b.mtime \in Int
      /\ made \in 0 .. Len(b.path) /\ b.size \in Nat /\ tar \in Seq(BlockSet)
  BY <1>1, <1>2, ReadHeader, ParentsOf
<1> DEFINE t == ensure_parent_dirs_exist(disk[mounted], b.path, made)
           x == b.path
<1>4. t \in Trees /\ Grown(disk[mounted], t, x)
  BY <1>3, EnsureGrows
<1>5. Fail(F) /\ ~Existing(b, F)
  BY <1>1
<1>6. CASE "open" \in F \/ open >= MaxOpen \/ ~CanCreate(t, b.path)
  <2>1. Going(t, at + 1 + Skip(b.size))
    <3>1. Restored(t, at + 1 + Skip(b.size), 0)
      BY <1>1, <1>6
    <3> HIDE DEF t
    <3> QED  BY <1>5, <3>1, Goes
  <2>2. Restoring(t, F, at + 1 + Skip(b.size))
    <3> HIDE DEF t
    <3> QED
      BY <1>2, <1>4, <1>5, <2>1 DEF Restoring
  <2> QED
    BY <1>2, <1>4, <2>2
<1>7. CASE ~("open" \in F \/ open >= MaxOpen \/ ~CanCreate(t, b.path))
  <2>1. PICK written :
               LET u == [Create(t, b.path) EXCEPT ![b.path].data = data(written)]
               IN  Restored(chstat(u, b, F), at + 1 + last, IF "close" \in F THEN 1 ELSE 0)
    BY <1>1, <1>7
  <2> DEFINE d == data(written)
             u == [Create(t, b.path) EXCEPT ![b.path].data = d]
             v == chstat(u, b, F)
  <2>2. Going(v, at + 1 + last)
    <3> DEFINE kept == IF "close" \in F THEN 1 ELSE 0
    <3>1. Restored(v, at + 1 + last, kept)
      BY <2>1
    <3>2. kept \in {0, 1} /\ (kept = 0 \/ "close" \in F)
      BY Zenon
    <3> HIDE DEF v, kept, last
    <3> QED  BY <1>5, <3>1, <3>2, Goes
  <2>3. d \in Data
    <3>1. at \in Nat
      BY DEF TypeInv
    <3> QED
      BY <1>3, <3>1, WrittenType DEF Data
  <2>4. CanCreate(t, b.path)
    BY <1>7
  <2> HIDE DEF t, d
  <2>5. u \in Trees /\ Grown(t, u, x)
    <3>1. Holding(t, b.path, d, u)
      BY <1>3, <1>4, <2>3, <2>4, WrittenOf
    <3> HIDE DEF u
    <3> QED
      BY <3>1 DEF Holding
  <2> HIDE DEF u
  <2>6. v \in Trees /\ Grown(u, v, x)
    BY <1>3, <2>5, ChstatOf DEF Statted
  <2> HIDE DEF v
  <2>7. Grown(disk[mounted], v, x)
    BY <1>4, <2>5, <2>6, GrownTransitive
  <2>8. Restoring(v, F, at + 1 + last)
    BY <1>2, <1>5, <2>2, <2>7 DEF Restoring
  <2> QED
    BY <1>2, <2>6, <2>8
<1> QED
  BY <1>6, <1>7

(* A name a directory lists leads to a node in it.                           *)
LEMMA NamesOf ==
    ASSUME NEW t \in Trees, NEW dir \in Paths, NEW name \in Names(t, dir)
    PROVE  /\ Append(dir, name) \in DOMAIN t /\ Append(dir, name) \in Paths
           /\ name \in DOMAIN Weight
<1>1. PICK q \in DOMAIN t : q # <<>> /\ Front(q) = dir /\ Last(q) = name
  BY DEF Names
<1>2. q \in Seq(DOMAIN Weight)
  BY TreeIs DEF Paths
<1>3. Len(q) \in Nat /\ Len(q) >= 1
  BY <1>1, <1>2, EmptySeq
<1>4. q = Append(SubSeq(q, 1, Len(q) - 1), q[Len(q)]) /\ q[Len(q)] \in DOMAIN Weight
  BY <1>2, <1>3
<1>5. q = Append(dir, name) /\ name \in DOMAIN Weight
  BY <1>1, <1>4 DEF Front, Last
<1> QED
  BY <1>2, <1>5 DEF Paths

(* The other way round, too.                                                 *)
LEMMA NamesIntro ==
    ASSUME NEW t \in Trees, NEW dir \in Paths, NEW name \in DOMAIN Weight,
           Append(dir, name) \in DOMAIN t
    PROVE  name \in Names(t, dir)
<1> DEFINE q == Append(dir, name)
<1>1. dir \in Seq(DOMAIN Weight)
  BY DEF Paths
<1>2. q # <<>> /\ SubSeq(q, 1, Len(q) - 1) = dir /\ q[Len(q)] = name
  BY <1>1
<1> QED
  BY <1>2 DEF Names, Front, Last

(* What the sequence loses when its last element is taken away.              *)
LEMMA FrontOf ==
    ASSUME NEW V, NEW s \in Seq(V), s # <<>>
    PROVE  /\ Front(s) \in Seq(V) /\ Len(Front(s)) = Len(s) - 1
           /\ \A k \in 1 .. Len(s) - 1 : Front(s)[k] = s[k]
           /\ Last(s) \in V /\ Len(s) \in Nat /\ Len(s) >= 1
<1>1. Len(s) \in Nat /\ Len(s) >= 1
  BY EmptySeq
<1>2. SubSeq(s, 1, Len(s) - 1) \in Seq(V) /\ Len(SubSeq(s, 1, Len(s) - 1)) = Len(s) - 1
  <2>1. ASSUME NEW m \in Nat, m = Len(s) - 1
        PROVE  SubSeq(s, 1, m) \in Seq(V) /\ Len(SubSeq(s, 1, m)) = m
    <3>1. m <= Len(s)
      BY <1>1, <2>1
    <3> QED
      BY <3>1
  <2>2. Len(s) - 1 \in Nat
    BY <1>1
  <2> QED
    BY <2>1, <2>2
<1>3. \A k \in 1 .. Len(s) - 1 : SubSeq(s, 1, Len(s) - 1)[k] = s[k]
  BY <1>1
<1>4. s[Len(s)] \in V
  BY <1>1
<1> QED
  BY <1>1, <1>2, <1>3, <1>4 DEF Front, Last

(* The initial state.                                                        *)
LEMMA InitControl == Init => TypeInv /\ Control
<1> SUFFICES ASSUME Init
             PROVE  TypeInv /\ Control
  OBVIOUS
<1>1. disk \in Disks /\ disk \in [Parts -> Trees]
  BY DiskType DEF Init
<1>2. TypeInv
  <2>1. job \in Jobs
    BY DEF Init, Jobs
  <2>2. here \in Paths /\ todo \in Seq(Parts) /\ stack \in Seq(Frames)
    BY DEF Init, Paths
  <2>3. /\ pc = "idle" /\ tar = NoFile /\ mounted = None /\ at = 1 /\ short = FALSE
        /\ source = disk /\ before = disk
    BY DEF Init
  <2>4. /\ short \in BOOLEAN /\ mounted \in Parts \cup {None}
        /\ pc \in {"idle", "part", "visit", "dread", "unwind", "header", "umount"}
        /\ source \in Disks /\ before \in [Parts -> Trees]
    BY <1>1, <2>3, Zenon
  <2>5. at \in Nat \ {0}
    BY <2>3
  <2> QED
    BY <1>1, <2>1, <2>2, <2>3, <2>4, <2>5, Zenon DEF TypeInv
<1>3. Control
  BY DEF Init, Control, Phases, Walking, Descriptors
<1> QED
  BY <1>2, <1>3

(* The variables a restoring step leaves alone.                              *)
LEMMA ControlRestored ==
    ASSUME TypeInv, Control, pc = "header", NEW u \in Trees, NEW next \in Nat \ {0},
           Going(u, next)
    PROVE  TypeInv' /\ Phases'
<1>1. mounted \in Parts
  BY Mounted
<1>2. /\ disk' = [disk EXCEPT ![mounted] = u] /\ at' = next
      /\ UNCHANGED <<pc, job, mounted, todo, stack, here, tar, short, restores, source, before>>
  BY DEF Going, Restored, walk, archive, history
<1>3. disk' \in [Parts -> Trees]
  BY <1>1, <1>2 DEF TypeInv
<1>4. TypeInv'
  BY <1>2, <1>3 DEF TypeInv
<1>5. job.mode = "restore" /\ stack = <<>>
  BY DEF Control, Phases, Walking
<1>6. Phases'
  BY <1>2, <1>5 DEF Control, Phases, Walking, Selected
<1> QED
  BY <1>4, <1>6

(* The node a visit is about, whether it finds no descriptor left, and the   *)
(* blocks its data take.                                                     *)
Visited == disk[mounted][here]
Full == open >= MaxOpen
Needed == IF Visited.mode.type = "REG" THEN Blocks(Len(Visited.data)) ELSE 0

(* The visit writes n blocks of data, of which the last few may be lost.     *)
Archived(F, z, n, lost) ==
    LET new == tar_c_file(mounted, here, Visited, z, F, n)
        written == SubSeq(new, 1, Len(new) - lost)
    IN  /\ Fail(F)
        /\ n # Needed => "open" \in F \/ "read" \in F \/ Full
        /\ "open" \in F \/ Full => n = 0
        /\ "close" \in F => "open" \notin F /\ ~Full /\ z < SizeModulus
        /\ lost > 0 => "fwrite" \in F
        /\ lost <= Len(new)
        /\ tar' = tar \o written
        /\ short' = (short \/ Len(written) \in 1 .. Needed)

(* Then the loop goes on: below the node, if that is a directory.            *)
Descends(F) ==
    \/ /\ Visited.mode.type # "DIR" /\ pc' = "dread" /\ UNCHANGED stack
       /\ open' = IF "close" \in F THEN open + 1 ELSE open
    \/ /\ Visited.mode.type = "DIR" /\ (Full \/ "dopen" \in F)
       /\ pc' = "unwind" /\ UNCHANGED <<open, stack>>
    \/ /\ Visited.mode.type = "DIR" /\ ~Full
       /\ pc' = "dread" /\ open' = open + 1
       /\ stack' = Append(stack, [dir |-> here, rest |-> Names(disk[mounted], here)])

(* What is known when a node is visited.                                     *)
LEMMA VisitState ==
    ASSUME TypeInv, Control, pc = "visit"
    PROVE  /\ mounted \in Parts /\ job.mode = "backup" /\ source \in Disks /\ disk = source
           /\ IsTree(disk[mounted]) /\ here \in DOMAIN disk[mounted] /\ here \in Paths
           /\ IsNode(Visited) /\ Visited.mode.type \in {"DIR", "REG", "LNK"}
           /\ Needed \in Nat
           /\ tar \in Seq(BlockSet)
<1>1. job.mode = "backup" /\ disk = source /\ here \in DOMAIN disk[mounted]
  BY DEF Control, Phases, Walking
<1>2. mounted \in Parts /\ source \in Disks /\ tar \in Seq(BlockSet) /\ here \in Paths
  BY Mounted DEF TypeInv
<1>3. IsTree(disk[mounted])
  BY <1>1, <1>2, DiskType
<1>4. IsNode(Visited)
  BY <1>1, <1>3 DEF IsTree, Visited
<1>5. Visited.mode.type \in {"DIR", "REG", "LNK"}
  BY <1>4, NodeType DEF Nodes, Modes, Types
<1>6. Needed \in Nat
  <2>1. CASE Visited.mode.type = "REG"
    <3>1. Visited.data \in Seq(Int)
      BY <1>4, <2>1, NodeType
    <3>2. Len(Visited.data) \in Nat
      BY <3>1
    <3> QED
      BY <2>1, <3>2, BlocksOf DEF Needed
  <2>2. CASE Visited.mode.type # "REG"
    BY <2>2 DEF Needed
  <2> QED
    BY <2>1, <2>2
<1> QED
  BY <1>1, <1>2, <1>3, <1>4, <1>5, <1>6

(* What a visit does: a stat that fails, or an entry and maybe a directory.  *)
LEMMA VisitStep ==
    ASSUME TypeInv, Control, do_wrapped_ftw
    PROVE  /\ pc = "visit"
           /\ UNCHANGED <<job, disk, mounted, todo, here, at, restores, source, before>>
           /\ \/ /\ Fail({"getstat"})
                 /\ pc' = "unwind" /\ UNCHANGED <<open, stack, tar, short>>
              \/ \E F \in SUBSET {"open", "read", "close", "readlink", "dopen", "fwrite"} :
                    /\ \E z \in SizeOf(here, Visited), n \in 0 .. Needed,
                          lost \in 0 .. Needed + 1 : Archived(F, z, n, lost)
                    /\ Descends(F)
<1>1. pc = "visit" /\ UNCHANGED <<job, disk, mounted, todo, here, at, restores, source, before>>
  BY DEF do_wrapped_ftw, history
<1>2. Visited.mode.type \in {"DIR", "REG", "LNK"}
  BY <1>1, VisitState
<1> DEFINE Calls(F) == F \subseteq (CASE Visited.mode.type = "DIR" -> {"dopen", "fwrite"}
                                 [] Visited.mode.type = "REG" -> {"open", "read", "close", "fwrite"}
                                 [] Visited.mode.type = "LNK" -> {"readlink", "fwrite"})
           Writes(F, z, n, lost) ==
               LET new == tar_c_file(mounted, here, Visited, z, F, n)
                   written == SubSeq(new, 1, Len(new) - lost)
               IN  /\ n # Needed => "open" \in F \/ "read" \in F \/ Full
                   /\ "open" \in F \/ Full => n = 0
                   /\ "close" \in F => "open" \notin F /\ ~Full /\ z < SizeModulus
                   /\ lost > 0 => "fwrite" \in F
                   /\ lost <= Len(new)
                   /\ tar' = tar \o written
                   /\ short' = (short \/ Len(written) \in 1 .. Needed)
           Goes_on(F) ==
               IF Visited.mode.type # "DIR"
               THEN /\ pc' = "dread" /\ UNCHANGED stack
                    /\ open' = IF "close" \in F THEN open + 1 ELSE open
               ELSE IF Full \/ "dopen" \in F
               THEN pc' = "unwind" /\ UNCHANGED <<open, stack>>
               ELSE /\ pc' = "dread" /\ open' = open + 1
                    /\ stack' = Append(stack, [dir |-> here, rest |-> Names(disk[mounted], here)])
<1>3. PICK F : \/ /\ F = {"getstat"} /\ Fail(F)
                  /\ pc' = "unwind" /\ UNCHANGED <<open, stack, archive>>
               \/ /\ Calls(F) /\ Fail(F)
                  /\ \E z \in SizeOf(here, Visited), n \in 0 .. Needed, lost \in 0 .. Needed + 1 :
                        Writes(F, z, n, lost)
                  /\ Goes_on(F)
  BY Zenon DEF do_wrapped_ftw, Visited, Needed, Full
<1>4. CASE F = {"getstat"} /\ Fail(F) /\ pc' = "unwind" /\ UNCHANGED <<open, stack, archive>>
  BY <1>1, <1>4 DEF archive
<1>5. CASE /\ Calls(F) /\ Fail(F)
           /\ \E z \in SizeOf(here, Visited), n \in 0 .. Needed, lost \in 0 .. Needed + 1 :
                 Writes(F, z, n, lost)
           /\ Goes_on(F)
  <2>1. F \in SUBSET {"open", "read", "close", "readlink", "dopen", "fwrite"}
    BY <1>2, <1>5
  <2>2. Descends(F)
    BY <1>5 DEF Descends
  <2>3. ASSUME NEW z, NEW n, NEW lost, Writes(F, z, n, lost)
        PROVE  Archived(F, z, n, lost)
    BY <1>5, <2>3, Zenon DEF Archived
  <2> HIDE DEF Calls, Writes, Goes_on
  <2>4. \E z \in SizeOf(here, Visited), n \in 0 .. Needed, lost \in 0 .. Needed + 1 :
           Archived(F, z, n, lost)
    BY <1>5, <2>3, Zenon
  <2> QED
    BY <1>1, <2>1, <2>2, <2>4, Zenon
<1> HIDE DEF Calls, Writes, Goes_on
<1> QED
  BY <1>3, <1>4, <1>5

(* What a visit writes is blocks.                                            *)
LEMMA WrittenBlocks ==
    ASSUME TypeInv, Control, pc = "visit", NEW F, NEW z \in SizeOf(here, Visited),
           NEW n \in 0 .. Needed, NEW lost \in Nat,
           lost <= Len(tar_c_file(mounted, here, Visited, z, F, n))
    PROVE  LET new == tar_c_file(mounted, here, Visited, z, F, n)
               written == SubSeq(new, 1, Len(new) - lost)
           IN  /\ new \in Seq(BlockSet)
               /\ written \in Seq(BlockSet) /\ Len(written) = Len(new) - lost
               /\ \A k \in 1 .. Len(written) : written[k] = new[k]
<1> DEFINE new == tar_c_file(mounted, here, Visited, z, F, n)
           written == SubSeq(new, 1, Len(new) - lost)
<1>1. Visited.mode.type # "REG" => n = 0
  BY DEF Needed
<1>2. n \in Nat
  BY VisitState
<1>3. new \in Seq(BlockSet)
  BY <1>1, <1>2, VisitState, TarFileOf
<1> HIDE DEF new
<1>4. ASSUME NEW m \in Nat, m = Len(new) - lost
      PROVE  SubSeq(new, 1, m) \in Seq(BlockSet) /\ Len(SubSeq(new, 1, m)) = m
             /\ \A k \in 1 .. m : SubSeq(new, 1, m)[k] = new[k]
  <2>1. m <= Len(new)
    BY <1>3, <1>4
  <2> QED
    BY <1>3, <2>1
<1>5. Len(new) - lost \in Nat
  BY <1>3 DEF new
<1> QED
  BY <1>3, <1>4, <1>5 DEF new

(* A visit keeps the types and the walk as they should be.                   *)
LEMMA ControlVisit ==
    ASSUME TypeInv, Control, do_wrapped_ftw
    PROVE  TypeInv' /\ Phases'
<1>1. pc = "visit" /\ UNCHANGED <<job, disk, mounted, todo, here, at, restores, source, before>>
  BY VisitStep
<1>2. /\ mounted \in Parts /\ job.mode = "backup" /\ source \in Disks /\ disk = source
      /\ IsTree(disk[mounted]) /\ here \in DOMAIN disk[mounted] /\ here \in Paths
      /\ tar \in Seq(BlockSet)
  BY <1>1, VisitState
<1>3. todo # <<>> /\ mounted = Head(todo) /\ Selected(mounted)
      /\ stack \in Seq(Frames) /\ (stack = <<>> => here = <<>>)
      /\ \A k \in DOMAIN stack : stack[k].rest \subseteq Names(disk[mounted], stack[k].dir)
  BY <1>1 DEF Control, Phases, TypeInv
<1>4. tar' \in Seq(BlockSet) /\ short' \in BOOLEAN
  <2>1. CASE UNCHANGED <<tar, short>>
    BY <1>2, <2>1 DEF TypeInv
  <2>2. ASSUME NEW F, NEW z \in SizeOf(here, Visited), NEW n \in 0 .. Needed,
               NEW lost \in 0 .. Needed + 1, Archived(F, z, n, lost)
        PROVE  tar' \in Seq(BlockSet) /\ short' \in BOOLEAN
    <3> DEFINE new == tar_c_file(mounted, here, Visited, z, F, n)
               written == SubSeq(new, 1, Len(new) - lost)
    <3>1. tar' = tar \o written /\ lost <= Len(new)
      BY <2>2 DEF Archived
    <3>2. lost \in Nat
      BY <1>1, VisitState
    <3>3. written \in Seq(BlockSet)
      BY <1>1, <3>1, <3>2, WrittenBlocks
    <3>4. short' = (short \/ Len(written) \in 1 .. Needed)
      BY <2>2 DEF Archived
    <3> HIDE DEF written
    <3>5. tar' \in Seq(BlockSet)
      BY <1>2, <3>1, <3>3
    <3>6. short' \in BOOLEAN
      BY <3>4
    <3> QED
      BY <3>5, <3>6
  <2> QED
    BY <2>1, <2>2, VisitStep
<1>5. CASE pc' = "unwind" /\ UNCHANGED <<open, stack>>
  <2>1. TypeInv'
    BY <1>1, <1>4, <1>5 DEF TypeInv
  <2>2. Phases'
    BY <1>1, <1>2, <1>3, <1>5 DEF Control, Phases, Walking, Selected
  <2> QED
    BY <2>1, <2>2
<1>6. CASE Visited.mode.type # "DIR" /\ pc' = "dread" /\ UNCHANGED stack
  <2>1. TypeInv'
    BY <1>1, <1>4, <1>6 DEF TypeInv
  <2>2. stack # <<>>
    BY <1>2, <1>3, <1>6 DEF IsTree, IsDir, Visited
  <2>3. Phases'
    BY <1>1, <1>2, <1>3, <1>6, <2>2 DEF Control, Phases, Walking, Selected
  <2> QED
    BY <2>1, <2>3
<1>7. CASE /\ pc' = "dread"
           /\ stack' = Append(stack, [dir |-> here, rest |-> Names(disk[mounted], here)])
  <2> DEFINE f == [dir |-> here, rest |-> Names(disk[mounted], here)]
  <2>1. f \in Frames
    <3>1. Names(disk[mounted], here) \subseteq DOMAIN Weight
      BY <1>2, TreeType, NamesOf
    <3> QED
      BY <1>2, <3>1 DEF Frames
  <2>2. /\ stack' \in Seq(Frames) /\ Len(stack') = Len(stack) + 1 /\ stack' # <<>>
        /\ \A k \in 1 .. Len(stack) : stack'[k] = stack[k]
        /\ stack'[Len(stack) + 1] = f
    <3> HIDE DEF f
    <3> QED
      BY <1>3, <1>7, <2>1 DEF f
  <2>3. TypeInv'
    BY <1>1, <1>4, <1>7, <2>2 DEF TypeInv
  <2>4. \A k \in DOMAIN stack' : stack'[k].rest \subseteq Names(disk[mounted], stack'[k].dir)
    <3> SUFFICES ASSUME NEW k \in DOMAIN stack'
                 PROVE  stack'[k].rest \subseteq Names(disk[mounted], stack'[k].dir)
      OBVIOUS
    <3>1. k \in 1 .. Len(stack) \/ k = Len(stack) + 1
      BY <1>3, <2>2
    <3>2. CASE k \in 1 .. Len(stack)
      BY <1>3, <2>2, <3>2
    <3>3. CASE k = Len(stack) + 1
      BY <2>2, <3>3
    <3> QED
      BY <3>1, <3>2, <3>3
  <2>5. Phases'
    BY <1>1, <1>2, <1>3, <1>7, <2>2, <2>4 DEF Control, Phases, Walking, Selected
  <2> QED
    BY <2>3, <2>5
<1> QED
  BY <1>5, <1>6, <1>7, VisitStep DEF Descends

(* The directory being read is closed, or left open: one frame less.         *)
LEMMA ClosedFrame ==
    ASSUME TypeInv, Control, stack # <<>>, NEW F, Closed(F), UNCHANGED <<mounted, disk>>
    PROVE  /\ stack' \in Seq(Frames) /\ Len(stack') = Len(stack) - 1
           /\ \A k \in 1 .. Len(stack) - 1 : stack'[k] = stack[k]
           /\ \A k \in DOMAIN stack' : stack'[k].rest \subseteq Names(disk[mounted], stack'[k].dir)
<1>1. stack \in Seq(Frames)
      /\ \A k \in DOMAIN stack : stack[k].rest \subseteq Names(disk[mounted], stack[k].dir)
  BY DEF TypeInv, Control, Phases
<1>2. stack' = Front(stack)
  BY DEF Closed
<1>3. /\ stack' \in Seq(Frames) /\ Len(stack') = Len(stack) - 1
      /\ \A k \in 1 .. Len(stack) - 1 : stack'[k] = stack[k]
      /\ Len(stack) \in Nat /\ Len(stack) >= 1
  BY <1>1, <1>2, FrontOf
<1>4. \A k \in DOMAIN stack' : k \in 1 .. Len(stack) - 1 /\ k \in DOMAIN stack
  BY <1>1, <1>3
<1> QED
  BY <1>1, <1>2, <1>3, <1>4

(* One turn of the loop over a directory.                                    *)
LEMMA ControlDread ==
    ASSUME TypeInv, Control, dread
    PROVE  TypeInv' /\ Phases'
<1>1. /\ pc = "dread" /\ stack # <<>>
      /\ UNCHANGED <<job, disk, mounted, todo, tar, short, at, restores, source, before>>
  BY DEF dread, archive, history
<1>2. /\ job.mode = "backup" /\ disk = source
      /\ todo # <<>> /\ mounted = Head(todo) /\ Selected(mounted)
      /\ \A k \in DOMAIN stack : stack[k].rest \subseteq Names(disk[mounted], stack[k].dir)
  BY <1>1 DEF Control, Phases, Walking
<1>3. mounted \in Parts /\ disk[mounted] \in Trees /\ tar \in Seq(BlockSet)
      /\ stack \in Seq(Frames)
  BY <1>1, Mounted DEF TypeInv
<1>4. Last(stack) \in Frames /\ Len(stack) \in Nat /\ Len(stack) >= 1
      /\ Last(stack).rest \subseteq Names(disk[mounted], Last(stack).dir)
  <2>1. Last(stack) \in Frames /\ Len(stack) \in Nat /\ Len(stack) >= 1
    BY <1>1, <1>3, FrontOf
  <2>2. Len(stack) \in DOMAIN stack
    BY <1>3, <2>1
  <2> QED
    BY <1>2, <2>1, <2>2 DEF Last
<1>5. ASSUME NEW F, Closed(F), pc' = IF Len(stack) = 1 THEN "umount" ELSE "dread", UNCHANGED here
      PROVE  TypeInv' /\ Phases'
  <2>1. /\ stack' \in Seq(Frames) /\ Len(stack') = Len(stack) - 1
        /\ \A k \in DOMAIN stack' : stack'[k].rest \subseteq Names(disk[mounted], stack'[k].dir)
    BY <1>1, <1>5, ClosedFrame
  <2>2. TypeInv'
    BY <1>1, <1>5, <2>1 DEF TypeInv
  <2>3. IF Len(stack) = 1 THEN stack' = <<>> ELSE stack' # <<>>
    BY <1>4, <2>1, EmptySeq
  <2>4. Phases'
    BY <1>1, <1>2, <1>5, <2>1, <2>3 DEF Control, Phases, Walking, Selected
  <2> QED
    BY <2>2, <2>4
<1>6. ASSUME NEW F, Closed(F), pc' = "unwind", UNCHANGED here
      PROVE  TypeInv' /\ Phases'
  <2>1. /\ stack' \in Seq(Frames)
        /\ \A k \in DOMAIN stack' : stack'[k].rest \subseteq Names(disk[mounted], stack'[k].dir)
    BY <1>1, <1>6, ClosedFrame
  <2>2. TypeInv'
    BY <1>1, <1>6, <2>1 DEF TypeInv
  <2>3. Phases'
    BY <1>1, <1>2, <1>6, <2>1 DEF Control, Phases, Walking, Selected
  <2> QED
    BY <2>2, <2>3
<1>7. ASSUME NEW name \in Last(stack).rest,
             /\ here' = Append(Last(stack).dir, name)
             /\ stack' = [stack EXCEPT ![Len(stack)].rest = @ \ {name}]
             /\ pc' = "visit"
             /\ UNCHANGED open
      PROVE  TypeInv' /\ Phases'
  <2> DEFINE f == Last(stack)
             g == [dir |-> f.dir, rest |-> f.rest \ {name}]
  <2>1. f.dir \in Paths /\ f.rest \subseteq DOMAIN Weight
    BY <1>4 DEF Frames
  <2>2. here' \in DOMAIN disk[mounted] /\ here' \in Paths
    BY <1>3, <1>4, <1>7, <2>1, NamesOf
  <2>3. g \in Frames
    BY <2>1 DEF Frames
  <2>4. stack' = [stack EXCEPT ![Len(stack)] = g]
    <3>1. f = [dir |-> f.dir, rest |-> f.rest]
      BY <1>4 DEF Frames
    <3>2. [f EXCEPT !.rest = f.rest \ {name}] = g
      <4> HIDE DEF f
      <4> QED
        BY <3>1
    <3>3. stack' = [stack EXCEPT ![Len(stack)] = [f EXCEPT !.rest = f.rest \ {name}]]
      BY <1>3, <1>4, <1>7 DEF Last
    <3> HIDE DEF f, g
    <3> QED
      BY <3>2, <3>3
  <2> HIDE DEF g
  <2>5. /\ stack' \in Seq(Frames) /\ Len(stack') = Len(stack)
        /\ \A k \in 1 .. Len(stack) : stack'[k] = IF k = Len(stack) THEN g ELSE stack[k]
    BY <1>3, <1>4, <2>3, <2>4
  <2>6. TypeInv'
    BY <1>1, <1>7, <2>2, <2>5 DEF TypeInv
  <2>7. \A k \in DOMAIN stack' : stack'[k].rest \subseteq Names(disk[mounted], stack'[k].dir)
    <3> SUFFICES ASSUME NEW k \in DOMAIN stack'
                 PROVE  stack'[k].rest \subseteq Names(disk[mounted], stack'[k].dir)
      OBVIOUS
    <3>1. k \in 1 .. Len(stack) /\ k \in DOMAIN stack
      BY <1>3, <2>5
    <3>2. g.rest \subseteq Names(disk[mounted], g.dir)
      BY <1>4 DEF g
    <3> QED
      BY <1>2, <2>5, <3>1, <3>2
  <2>8. stack' # <<>>
    BY <1>4, <2>5, EmptySeq
  <2>9. Phases'
    BY <1>1, <1>2, <1>7, <2>2, <2>5, <2>7, <2>8 DEF Control, Phases, Walking, Selected
  <2> QED
    BY <2>6, <2>9
<1>8. \/ \E F : /\ Closed(F) /\ pc' = (IF Len(stack) = 1 THEN "umount" ELSE "dread")
                /\ UNCHANGED here
      \/ \E F : Closed(F) /\ pc' = "unwind" /\ UNCHANGED here
      \/ \E name \in Last(stack).rest :
             /\ here' = Append(Last(stack).dir, name)
             /\ stack' = [stack EXCEPT ![Len(stack)].rest = @ \ {name}]
             /\ pc' = "visit"
             /\ UNCHANGED open
  BY DEF dread
<1> QED
  BY <1>5, <1>6, <1>7, <1>8

(* Every step keeps the types of the variables and the phases of the job.    *)
LEMMA PhasesStep == TypeInv /\ Control /\ [Next]_vars => TypeInv' /\ Phases'
<1> SUFFICES ASSUME TypeInv, Control, [Next]_vars
             PROVE  TypeInv' /\ Phases'
  OBVIOUS
<1>1. ASSUME NEW part \in Parts \cup {All}, main_backup(part)
      PROVE  TypeInv' /\ Phases'
  <2>1. /\ pc = "idle" /\ job.mode = "none" /\ pc' = "part" /\ tar' = <<>> /\ todo' = Order
        /\ job' = [mode |-> "backup", part |-> part, overwrite |-> FALSE]
        /\ UNCHANGED <<disk, mounted, open, stack, here, at, restores, source, before, short, faults>>
    BY <1>1 DEF main_backup, walk, history
  <2>2. job' \in Jobs /\ job'.mode = "backup"
    BY <2>1 DEF Jobs
  <2>3. todo' \in Seq(Parts) /\ tar' \in Seq(BlockSet)
    BY <2>1, PartsOf
  <2>4. TypeInv'
    BY <2>1, <2>2, <2>3 DEF TypeInv
  <2>5. Phases'
    BY <2>1, <2>2 DEF Control, Phases, Walking
  <2> QED
    BY <2>4, <2>5
<1>2. ASSUME NEW part \in Parts \cup {All}, NEW overwrite \in BOOLEAN, main_restore(part, overwrite)
      PROVE  TypeInv' /\ Phases'
  <2>1. /\ pc = "idle" /\ tar # NoFile /\ pc' = "part" /\ todo' = Order
        /\ job' = [mode |-> "restore", part |-> part, overwrite |-> overwrite]
        /\ disk' \in IF restores = 0 THEN Targets ELSE {disk}
        /\ before' = disk' /\ mounted' = None /\ open' = 0 /\ stack' = <<>>
        /\ UNCHANGED <<here, tar, short, at, source, faults>>
    BY <1>2 DEF main_restore, archive
  <2>2. job' \in Jobs /\ job'.mode = "restore"
    BY <2>1 DEF Jobs
  <2>3. disk' \in [Parts -> Trees]
    <3>1. disk' \in Targets \/ disk' = disk
      BY <2>1
    <3> QED
      BY <3>1, DiskType DEF TypeInv
  <2>4. todo' \in Seq(Parts) /\ tar' \in Seq(BlockSet) /\ stack' \in Seq(Frames)
    BY <2>1, PartsOf DEF TypeInv
  <2>5. TypeInv'
    BY <2>1, <2>2, <2>3, <2>4 DEF TypeInv
  <2>6. Phases'
    BY <2>1, <2>2 DEF Control, Phases, Walking
  <2> QED
    BY <2>5, <2>6
<1>3. ASSUME mount
      PROVE  TypeInv' /\ Phases'
  <2>1. /\ pc = "part" /\ todo # <<>> /\ here' = <<>> /\ at' = 1
        /\ UNCHANGED <<job, disk, open, stack, tar, short, restores, source, before>>
    BY <1>3 DEF mount, archive, history
  <2>2. /\ todo \in Seq(Parts) /\ Head(todo) \in Parts /\ Tail(todo) \in Seq(Parts)
        /\ here' \in Paths /\ at' \in Nat \ {0} /\ tar \in Seq(BlockSet)
    BY <2>1 DEF TypeInv, Paths
  <2>3. CASE todo' = Tail(todo) /\ UNCHANGED <<pc, mounted>>
    <3>1. TypeInv'
      BY <2>1, <2>2, <2>3 DEF TypeInv
    <3>2. Phases'
      BY <2>1, <2>3 DEF Control, Phases, Walking
    <3> QED
      BY <3>1, <3>2
  <2>4. CASE /\ Selected(Head(todo)) /\ mounted' = Head(todo)
             /\ pc' = IF job.mode = "backup" THEN "visit" ELSE "header"
             /\ UNCHANGED todo
    <3>1. TypeInv'
      BY <2>1, <2>2, <2>4 DEF TypeInv
    <3>2. job.mode \in {"none", "backup", "restore"} /\ job.mode # "none"
      BY <2>1 DEF Control, Phases, TypeInv, Jobs
    <3>3. job.mode = "backup" => <<>> \in DOMAIN disk[Head(todo)]
      <4> SUFFICES ASSUME job.mode = "backup"
                   PROVE  <<>> \in DOMAIN disk[Head(todo)]
        OBVIOUS
      <4>1. disk = source /\ source \in Disks
        BY DEF Control, Phases, TypeInv
      <4>2. IsTree(disk[Head(todo)])
        BY <2>2, <4>1, DiskType
      <4> QED
        BY <4>2 DEF IsTree, IsDir
    <3>4. stack = <<>> /\ (job.mode # "restore" => disk = source)
      BY <2>1 DEF Control, Phases, Walking
    <3>5. Phases'
      BY <2>1, <2>4, <3>2, <3>3, <3>4 DEF Control, Phases, Walking, Selected
    <3> QED
      BY <3>1, <3>5
  <2>5. \/ todo' = Tail(todo) /\ UNCHANGED <<pc, mounted>>
        \/ /\ Selected(Head(todo)) /\ mounted' = Head(todo)
           /\ pc' = IF job.mode = "backup" THEN "visit" ELSE "header"
           /\ UNCHANGED todo
    BY <1>3 DEF mount
  <2> QED
    BY <2>3, <2>4, <2>5
<1>4. ASSUME umount
      PROVE  TypeInv' /\ Phases'
  <2>1. /\ pc = "umount" /\ pc' = "part" /\ todo' = Tail(todo)
        /\ mounted' = mounted \/ mounted' = None
        /\ UNCHANGED <<job, disk, open, stack, here, tar, short, at, restores, source, before>>
    BY <1>4 DEF umount, archive, history, walk
  <2>2. todo \in Seq(Parts) /\ todo # <<>> /\ Tail(todo) \in Seq(Parts)
    BY <2>1 DEF TypeInv, Control, Phases
  <2>3. TypeInv'
    BY <2>1, <2>2 DEF TypeInv
  <2>4. Phases'
    BY <2>1 DEF Control, Phases, Walking
  <2> QED
    BY <2>3, <2>4
<1>5. ASSUME unwind
      PROVE  TypeInv' /\ Phases'
  <2>1. /\ pc = "unwind"
        /\ UNCHANGED <<job, disk, mounted, todo, here, tar, short, at, restores, source, before>>
    BY <1>5 DEF unwind, archive, history
  <2>2. CASE stack = <<>>
    <3>1. pc' = "umount" /\ UNCHANGED <<open, stack>>
      BY <1>5, <2>2 DEF unwind
    <3>2. TypeInv'
      BY <2>1, <3>1 DEF TypeInv
    <3>3. Phases'
      BY <2>1, <2>2, <3>1 DEF Control, Phases, Walking, Selected
    <3> QED
      BY <3>2, <3>3
  <2>3. CASE stack # <<>>
    <3>1. PICK F : Closed(F) /\ UNCHANGED pc
      BY <1>5, <2>3 DEF unwind
    <3>2. /\ stack' \in Seq(Frames)
          /\ \A k \in DOMAIN stack' : stack'[k].rest \subseteq Names(disk[mounted], stack'[k].dir)
      BY <2>1, <2>3, <3>1, ClosedFrame
    <3>3. TypeInv'
      BY <2>1, <3>1, <3>2 DEF TypeInv
    <3>4. Phases'
      BY <2>1, <3>1, <3>2 DEF Control, Phases, Walking, Selected
    <3> QED
      BY <3>3, <3>4
  <2> QED
    BY <2>2, <2>3
<1>6. ASSUME main_end
      PROVE  TypeInv' /\ Phases'
  <2>1. /\ pc = "part" /\ todo' = <<>> /\ pc' = "idle"
        /\ UNCHANGED <<job, disk, mounted, open, stack, here, at, restores, source, before, short>>
        /\ \E F : LET end == IF job.mode = "backup" /\ "fwrite" \notin F
                             THEN tar \o <<Zero, Zero>> ELSE tar
                  IN  tar' = IF Len(end) <= 2 THEN NoFile ELSE end
    BY <1>6 DEF main_end, walk, history
  <2>2. tar \in Seq(BlockSet) /\ Zero \in BlockSet
    BY <2>1 DEF TypeInv, BlockSet
  <2>3. tar \o <<Zero, Zero>> \in Seq(BlockSet)
    BY <2>2
  <2>4. tar' = NoFile \/ tar' \in Seq(BlockSet)
    BY <2>1, <2>2, <2>3
  <2>5. todo' \in Seq(Parts)
    BY <2>1
  <2>6. TypeInv'
    BY <2>1, <2>4, <2>5 DEF TypeInv
  <2>7. Phases'
    BY <2>1 DEF Control, Phases, Walking
  <2> QED
    BY <2>6, <2>7
<1>7. ASSUME skip_entry
      PROVE  TypeInv' /\ Phases'
  <2>1. AtHeader /\ Going(disk[mounted], at + 1 + Skip(tar[at].size)) /\ pc = "header"
    BY <1>7, SkipGoes DEF AtHeader
  <2>2. disk[mounted] \in Trees /\ tar[at].size \in Nat /\ at \in Nat
    BY <2>1, ReadHeader DEF TypeInv
  <2>3. at + 1 + Skip(tar[at].size) \in Nat \ {0}
    BY <2>2, BlocksOf
  <2> QED
    BY <2>1, <2>2, <2>3, ControlRestored
<1>8. ASSUME restore_end
      PROVE  TypeInv' /\ Phases'
  <2>1. /\ pc = "header" /\ pc' = "umount"
        /\ UNCHANGED <<job, disk, mounted, open, todo, stack, here, tar, short, at, restores,
                       source, before, faults>>
    BY <1>8 DEF restore_end, walk, archive, history
  <2>2. TypeInv'
    BY <2>1 DEF TypeInv
  <2>3. Phases'
    BY <2>1 DEF Control, Phases, Walking, Selected
  <2> QED
    BY <2>2, <2>3
<1>9. ASSUME misread
      PROVE  TypeInv' /\ Phases'
  <2>1. pc = "header" /\ at \in Nat \ {0}
    BY <1>9 DEF misread, TypeInv
  <2>2. disk[mounted] \in Trees /\ tar \in Seq(BlockSet)
    BY <2>1, Mounted
  <2>3. PICK n \in 0 .. Len(tar) - at : Going(disk[mounted], at + 1 + n)
    BY <1>9, MisreadGoes
  <2>4. at + 1 + n \in Nat \ {0}
    BY <2>1, <2>2
  <2> QED
    BY <2>1, <2>2, <2>3, <2>4, ControlRestored
<1>10. ASSUME restore_directory \/ restore_link \/ restore_file
       PROVE  TypeInv' /\ Phases'
  <2>1. AtHeader
    BY <1>10 DEF restore_directory, restore_link, restore_file
  <2>2. at \in Nat \ {0} /\ tar[at].size \in Nat
    BY <2>1, ReadHeader DEF TypeInv
  <2>3. /\ at + 1 \in Nat \ {0} /\ at + 1 + Skip(tar[at].size) \in Nat \ {0}
        /\ at + 1 + Blocks(tar[at].size) \in Nat \ {0}
    BY <2>2, BlocksOf
  <2>4. \E u \in Trees, next \in Nat \ {0} : Going(u, next)
    BY <1>10, <2>3, DirectoryStep, LinkStep, FileStep DEF Restoring
  <2> QED
    BY <2>1, <2>4, ControlRestored DEF AtHeader
<1>11. ASSUME UNCHANGED vars
       PROVE  TypeInv' /\ Phases'
  <2>1. UNCHANGED <<pc, job, disk, mounted, open, todo, stack, here, tar, at, restores,
                    source, before, short, faults>>
    BY <1>11 DEF vars
  <2> QED
    BY <2>1 DEF TypeInv, Control, Phases, Walking, Selected
<1> QED
  BY <1>1, <1>2, <1>3, <1>4, <1>5, <1>6, <1>7, <1>8, <1>9, <1>10, <1>11,
     ControlVisit, ControlDread DEF Next

(* A close takes a descriptor with the frame, unless it fails.               *)
LEMMA DescriptorsClosed ==
    ASSUME TypeInv, Control, stack # <<>>, NEW F, Closed(F), Fail(F), UNCHANGED <<mounted, disk>>
    PROVE  Descriptors'
<1>1. stack \in Seq(Frames) /\ Descriptors
  BY DEF TypeInv, Control
<1>2. stack' \in Seq(Frames) /\ Len(stack') = Len(stack) - 1
  BY ClosedFrame
<1>3. Len(stack) \in Nat /\ open \in Nat /\ faults \subseteq faults'
  BY <1>1 DEF Descriptors, Fail
<1>4. CASE "close" \in F
  <2>1. open' = open /\ "close" \in faults'
    BY <1>4 DEF Closed, Fail
  <2>2. open' = open + (Len(stack') - Len(stack)) + 1
    BY <1>2, <1>3, <2>1
  <2> QED
    BY <1>1, <1>2, <1>3, <2>1, <2>2, DescriptorsGo
<1>5. CASE "close" \notin F
  <2>1. open' = open - 1
    BY <1>5 DEF Closed
  <2>2. open' = open + (Len(stack') - Len(stack)) + 0
    BY <1>2, <1>3, <2>1
  <2> QED
    BY <1>1, <1>2, <1>3, <2>2, DescriptorsGo
<1> QED
  BY <1>4, <1>5

(* A visit opens a directory with its frame; a file it reads may stay open.  *)
LEMMA DescriptorsVisit ==
    ASSUME TypeInv, Control, do_wrapped_ftw, TypeInv'
    PROVE  Descriptors'
<1>1. stack \in Seq(Frames) /\ stack' \in Seq(Frames) /\ Descriptors /\ open \in Nat
  BY DEF TypeInv, Control, Descriptors
<1>2. CASE Fail({"getstat"}) /\ UNCHANGED <<open, stack>>
  <2>1. faults \subseteq faults'
    BY <1>2 DEF Fail
  <2> QED
    BY <1>1, <1>2, <2>1, DescriptorsStay
<1>3. ASSUME NEW F, Fail(F), Descends(F)
      PROVE  Descriptors'
  <2>1. faults \subseteq faults' /\ ("close" \in F => "close" \in faults')
    BY <1>3 DEF Fail
  <2>2. CASE open' = open /\ UNCHANGED stack
    BY <1>1, <2>1, <2>2, DescriptorsStay
  <2>3. CASE open' = open + 1 /\ UNCHANGED stack /\ "close" \in F
    <3>1. open' = open + (Len(stack') - Len(stack)) + 1
      BY <1>1, <2>3
    <3> QED
      BY <1>1, <2>1, <2>3, <3>1, DescriptorsGo
  <2>4. ASSUME NEW f, open' = open + 1, stack' = Append(stack, f)
        PROVE  Descriptors'
    <3>1. Len(stack') = Len(stack) + 1
      BY <1>1, <2>4
    <3>2. open' = open + (Len(stack') - Len(stack)) + 0
      BY <1>1, <2>4, <3>1
    <3> QED
      BY <1>1, <2>1, <3>2, DescriptorsGo
  <2> QED
    BY <1>3, <2>2, <2>3, <2>4, Zenon DEF Descends
<1>4. ASSUME NEW F, NEW z, NEW n, NEW lost, Archived(F, z, n, lost)
      PROVE  Fail(F)
  BY <1>4 DEF Archived
<1> QED
  BY <1>2, <1>3, <1>4, VisitStep, Zenon

(* A turn of the restore.                                                    *)
LEMMA DescriptorsGoing ==
    ASSUME TypeInv, Control, NEW u, NEW next, Going(u, next)
    PROVE  Descriptors'
<1>1. PICK kept \in {0, 1} : (kept = 0 \/ "close" \in faults') /\ Restored(u, next, kept)
  BY DEF Going
<1>2. open' = open + kept /\ stack' = stack /\ faults \subseteq faults'
  BY <1>1 DEF Restored, walk, Going
<1>3. stack \in Seq(Frames) /\ stack' \in Seq(Frames) /\ Descriptors
  BY <1>2 DEF TypeInv, Control
<1>4. open' = open + (Len(stack') - Len(stack)) + kept
  BY <1>2, <1>3 DEF Descriptors
<1> QED
  BY <1>1, <1>2, <1>3, <1>4, DescriptorsGo

(* Every step leaves open the directories of the walk and what it could not  *)
(* close.                                                                    *)
LEMMA DescriptorsStep == TypeInv /\ Control /\ [Next]_vars => Descriptors'
<1> SUFFICES ASSUME TypeInv, Control, [Next]_vars
             PROVE  Descriptors'
  OBVIOUS
<1>0. Descriptors /\ TypeInv'
  BY PhasesStep DEF Control
<1>1. ASSUME UNCHANGED <<open, stack>>, faults \subseteq faults'
      PROVE  Descriptors'
  BY <1>0, <1>1, DescriptorsStay
<1>2. ASSUME NEW part, main_backup(part)
      PROVE  Descriptors'
  BY <1>1, <1>2 DEF main_backup, walk
<1>3. ASSUME NEW part, NEW overwrite, main_restore(part, overwrite)
      PROVE  Descriptors'
  <2>1. open' = 0 /\ stack' = <<>>
    BY <1>3 DEF main_restore
  <2> QED
    BY <2>1 DEF Descriptors
<1>4. ASSUME mount \/ umount \/ main_end \/ restore_end
      PROVE  Descriptors'
  <2>1. UNCHANGED <<open, stack>>
    BY <1>4 DEF mount, umount, main_end, restore_end, walk
  <2>2. faults \subseteq faults'
    BY <1>4 DEF mount, umount, main_end, restore_end, Fail
  <2> QED
    BY <1>1, <2>1, <2>2
<1>5. ASSUME dread
      PROVE  Descriptors'
  <2>1. stack # <<>> /\ UNCHANGED <<mounted, disk>>
    BY <1>5 DEF dread
  <2>2. PICK F : /\ Fail(F)
                 /\ \/ Closed(F)
                    \/ \E name : /\ stack' = [stack EXCEPT ![Len(stack)].rest = @ \ {name}]
                                 /\ UNCHANGED open
    BY <1>5 DEF dread
  <2>3. CASE Closed(F)
    BY <2>1, <2>2, <2>3, DescriptorsClosed
  <2>4. ASSUME NEW name, stack' = [stack EXCEPT ![Len(stack)].rest = @ \ {name}], UNCHANGED open
        PROVE  Descriptors'
    <3>1. stack \in Seq(Frames) /\ stack' \in Seq(Frames) /\ open \in Nat
      BY <1>0 DEF TypeInv, Descriptors
    <3>2. DOMAIN stack' = DOMAIN stack
      BY <2>4
    <3>3. Len(stack') = Len(stack)
      BY <3>1, <3>2
    <3>4. open' = open + (Len(stack') - Len(stack)) + 0
      BY <2>4, <3>1, <3>3
    <3>5. faults \subseteq faults'
      BY <2>2 DEF Fail
    <3> QED
      BY <1>0, <3>1, <3>4, <3>5, DescriptorsGo
  <2> QED
    BY <2>2, <2>3, <2>4
<1>6. ASSUME unwind
      PROVE  Descriptors'
  <2>1. CASE stack = <<>>
    BY <1>1, <1>6, <2>1 DEF unwind
  <2>2. CASE stack # <<>>
    <3>1. UNCHANGED <<mounted, disk>> /\ \E F : Fail(F) /\ Closed(F)
      BY <1>6, <2>2 DEF unwind
    <3> QED
      BY <2>2, <3>1, DescriptorsClosed
  <2> QED
    BY <2>1, <2>2
<1>7. ASSUME skip_entry \/ misread \/ restore_directory \/ restore_link \/ restore_file
      PROVE  Descriptors'
  <2>1. \E u, next : Going(u, next)
    BY <1>7, SkipGoes, MisreadGoes, DirectoryStep, LinkStep, FileStep DEF Restoring
  <2> QED
    BY <2>1, DescriptorsGoing
<1>8. ASSUME UNCHANGED vars
      PROVE  Descriptors'
  BY <1>1, <1>8 DEF vars
<1>9. ASSUME do_wrapped_ftw
      PROVE  Descriptors'
  BY <1>0, <1>9, DescriptorsVisit
<1> QED
  BY <1>2, <1>3, <1>4, <1>5, <1>6, <1>7, <1>8, <1>9 DEF Next

(* Both.                                                                     *)
LEMMA ControlStep == TypeInv /\ Control /\ [Next]_vars => TypeInv' /\ Control'
  BY PhasesStep, DescriptorsStep DEF Control

(* The program keeps to its phases: a backup does not change the disk, a     *)
(* partition is walked or restored only while it is mounted and was asked    *)
(* for, the descriptors in use are those of the frames of do_wrapped_ftw and *)
(* no others as long as every close succeeds, and every node that is visited *)
(* exists.                                                                   *)
THEOREM TarControl == Spec => [](TypeInv /\ Control)
<1>1. Init => TypeInv /\ Control
  BY InitControl
<1>2. (TypeInv /\ Control) /\ [Next]_vars => (TypeInv /\ Control)'
  BY ControlStep
<1> QED
  BY <1>1, <1>2, PTL DEF Spec
-----------------------------------------------------------------------------
(* A header whose SIZE is what tar_c_file put there: one NAME did not run    *)
(* into, or that of a file.                                                  *)
Overrun(b) == b.type # "REG" /\ Overruns(b.path)
Sound(b) == b.kind = "header" /\ ~Overrun(b)

(* An archive in which every such header is followed by as many blocks as it *)
(* says, and these by no further data.                                       *)
WellFormed(s) ==
    /\ s # <<>> => s[1].kind # "data"
    /\ \A i \in 1 .. Len(s) : Sound(s[i]) =>
          /\ i + Blocks(s[i].size) <= Len(s)
          /\ i + 1 + Blocks(s[i].size) <= Len(s) => s[i + 1 + Blocks(s[i].size)].kind # "data"

(* Only files have a size.                                                   *)
Sizes(s) == \A i \in 1 .. Len(s) : Sound(s[i]) /\ s[i].type # "REG" => s[i].size = 0

HasFile == pc # "idle" \/ tar # NoFile
InStep == HasFile => Sizes(tar) /\ (~short => WellFormed(tar))

(* Archives can be put one after the other.                                  *)
LEMMA WellFormedConcat ==
    ASSUME NEW s \in Seq(BlockSet), NEW e \in Seq(BlockSet)
    PROVE  /\ Sizes(s) /\ Sizes(e) => Sizes(s \o e)
           /\ WellFormed(s) /\ WellFormed(e) => WellFormed(s \o e)
<1> DEFINE c == s \o e
           m == Len(s)
<1>1. /\ Len(c) = m + Len(e) /\ m \in Nat /\ Len(e) \in Nat
      /\ \A i \in 1 .. m : c[i] = s[i]
      /\ \A i \in 1 .. Len(e) : c[m + i] = e[i]
  OBVIOUS
<1>2. \A i \in 1 .. Len(c) : i \in 1 .. m \/ (i - m \in 1 .. Len(e) /\ c[i] = e[i - m])
  <2> SUFFICES ASSUME NEW i \in 1 .. Len(c), i \notin 1 .. m
               PROVE  i - m \in 1 .. Len(e) /\ c[i] = e[i - m]
    OBVIOUS
  <2>1. i - m \in 1 .. Len(e) /\ m + (i - m) = i
    <3> HIDE DEF m, c
    <3> QED
      BY <1>1
  <2> QED
    BY <1>1, <2>1
<1> HIDE DEF c, m
<1>3. ASSUME Sizes(s), Sizes(e)
      PROVE  Sizes(c)
  <2> SUFFICES ASSUME NEW i \in 1 .. Len(c), Sound(c[i]), c[i].type # "REG"
               PROVE  c[i].size = 0
    BY DEF Sizes
  <2>1. CASE i \in 1 .. m
    BY <1>1, <1>3, <2>1 DEF Sizes, m
  <2>2. CASE i - m \in 1 .. Len(e) /\ c[i] = e[i - m]
    BY <1>3, <2>2 DEF Sizes
  <2> QED
    BY <1>2, <2>1, <2>2
<1>4. ASSUME WellFormed(s), WellFormed(e)
      PROVE  WellFormed(c)
  <2>1. e # <<>> => Len(e) >= 1 /\ c[m + 1] = e[1] /\ e[1].kind # "data"
    BY <1>1, <1>4, EmptySeq DEF WellFormed
  <2>2. Len(e) >= 1 => e # <<>>
    OBVIOUS
  <2>3. c # <<>> => c[1].kind # "data"
    <3>1. CASE m = 0
      <4>1. c # <<>> => e # <<>>
        BY <1>1, <3>1 DEF c, m
      <4> QED
        BY <2>1, <3>1, <4>1
    <3>2. CASE m # 0
      <4>1. s # <<>> /\ c[1] = s[1]
        BY <1>1, <3>2 DEF m
      <4> QED
        BY <1>4, <4>1 DEF WellFormed
    <3> QED
      BY <3>1, <3>2
  <2>4. ASSUME NEW i \in 1 .. Len(c), Sound(c[i])
        PROVE  /\ i + Blocks(c[i].size) <= Len(c)
               /\ i + 1 + Blocks(c[i].size) <= Len(c)
                    => c[i + 1 + Blocks(c[i].size)].kind # "data"
    <3> DEFINE n == Blocks(c[i].size)
    <3>1. n \in Nat
      <4>1. c[i] \in BlockSet
        <5>1. c \in Seq(BlockSet)
          BY DEF c
        <5> QED
          BY <5>1
      <4>2. c[i].size \in Nat
        BY <2>4, <4>1, BlockKinds DEF Headers, Sound
      <4> QED
        BY <4>2, BlocksOf
    <3>2. CASE i \in 1 .. m
      <4>1. c[i] = s[i] /\ i + n <= m /\ (i + 1 + n <= m => s[i + 1 + n].kind # "data")
        BY <1>1, <1>4, <2>4, <3>2 DEF WellFormed, m
      <4> HIDE DEF n
      <4>2. i + n <= Len(c)
        BY <1>1, <3>1, <4>1
      <4>3. ASSUME i + 1 + n <= Len(c)
            PROVE  c[i + 1 + n].kind # "data"
        <5>1. CASE i + 1 + n <= m
          <6>1. i + 1 + n \in 1 .. m
            BY <1>1, <3>1, <3>2, <5>1
          <6> QED
            BY <1>1, <4>1, <5>1, <6>1
        <5>2. CASE ~(i + 1 + n <= m)
          <6>1. i + 1 + n = m + 1 /\ Len(e) >= 1
            BY <1>1, <3>1, <3>2, <4>1, <4>3, <5>2
          <6> QED
            BY <2>1, <2>2, <6>1
        <5> QED
          BY <5>1, <5>2
      <4> QED
        BY <4>2, <4>3 DEF n
    <3>3. CASE i - m \in 1 .. Len(e) /\ c[i] = e[i - m]
      <4>1. /\ (i - m) + n <= Len(e)
            /\ (i - m) + 1 + n <= Len(e) => e[(i - m) + 1 + n].kind # "data"
        BY <1>4, <2>4, <3>3 DEF WellFormed
      <4> HIDE DEF n
      <4>2. i + n <= Len(c)
        BY <1>1, <3>1, <4>1
      <4>3. ASSUME i + 1 + n <= Len(c)
            PROVE  c[i + 1 + n].kind # "data"
        <5> DEFINE k == (i - m) + 1 + n
        <5>1. k \in 1 .. Len(e) /\ m + k = i + 1 + n
          BY <1>1, <3>1, <3>3, <4>3
        <5>2. e[k].kind # "data"
          BY <4>1, <5>1
        <5> HIDE DEF k
        <5>3. c[m + k] = e[k]
          BY <1>1, <5>1
        <5> QED
          BY <5>1, <5>2, <5>3
      <4> QED
        BY <4>2, <4>3 DEF n
    <3> QED
      BY <1>2, <3>2, <3>3
  <2> QED
    BY <2>3, <2>4 DEF WellFormed
<1> QED
  BY <1>3, <1>4 DEF c

(* What a visit writes is an archive of one entry or none, unless it is      *)
(* recorded as short.                                                        *)
LEMMA WrittenWellFormed ==
    ASSUME TypeInv, Control, pc = "visit", NEW F, NEW z \in SizeOf(here, Visited),
           NEW n \in 0 .. Needed,
           NEW lost \in 0 .. Needed + 1, Archived(F, z, n, lost)
    PROVE  \E e \in Seq(BlockSet) :
              tar' = tar \o e /\ Sizes(e) /\ (~short' => ~short /\ WellFormed(e))
<1> DEFINE new == tar_c_file(mounted, here, Visited, z, F, n)
           e == SubSeq(new, 1, Len(new) - lost)
           link == IF Visited.mode.type = "LNK" /\ "readlink" \notin F THEN Cut(Visited.data)
                   ELSE <<>>
           b == Header(mounted, here, Visited, z, link)
<1>1. /\ mounted \in Parts /\ here \in Paths /\ IsNode(Visited) /\ Needed \in Nat
      /\ n \in Nat /\ (Visited.mode.type # "REG" => n = 0) /\ lost \in Nat
  BY VisitState DEF Needed
<1>2. /\ new \in Seq(BlockSet) /\ z \in Nat /\ link \in Seq(Int)
      /\ z >= SizeModulus => new = <<>>
      /\ z < SizeModulus =>
           /\ Len(new) = 1 + n /\ new[1] = b
           /\ \A k \in 2 .. 1 + n : new[k].kind = "data"
  BY <1>1, TarFileOf
<1>3. /\ tar' = tar \o e /\ lost <= Len(new)
      /\ short' = (short \/ Len(e) \in 1 .. Needed)
  BY DEF Archived
<1>4. /\ e \in Seq(BlockSet) /\ Len(e) = Len(new) - lost
      /\ \A k \in 1 .. Len(e) : e[k] = new[k]
  BY <1>1, <1>3, WrittenBlocks
<1>5. b.kind = "header" /\ b.type = Visited.mode.type /\ b.size = z /\ b.path = here
  <2>1. Visited \in Nodes /\ z \in Nat /\ link \in Seq(Int)
    BY <1>1, <1>2, NodeType
  <2> HIDE DEF link, Visited
  <2> QED
    BY <1>1, <2>1, HeaderOf
<1>6. Sound(b) => Needed = Blocks(z)
  <2>1. CASE Visited.mode.type = "REG"
    BY <1>1, <2>1, SizesOf DEF Needed
  <2>2. CASE Visited.mode.type # "REG" /\ Overruns(here)
    BY <1>5, <2>2 DEF Sound, Overrun
  <2>3. CASE Visited.mode.type # "REG" /\ ~Overruns(here)
    BY <1>1, <2>3, SizesOf, BlocksOf DEF Needed
  <2> QED
    BY <2>1, <2>2, <2>3
<1>7. Sound(b) /\ b.type # "REG" => z = 0
  BY <1>1, <1>5, SizesOf DEF Sound, Overrun
<1> HIDE DEF new, e, b, link
<1>8. CASE z >= SizeModulus
  <2>0. new = <<>>
    BY <1>2, <1>8
  <2>1. Len(e) = 0 /\ e = <<>>
    BY <1>1, <1>3, <1>4, <2>0, EmptySeq
  <2>2. Sizes(e) /\ WellFormed(e)
    BY <2>1 DEF Sizes, WellFormed
  <2>3. ~short' => ~short
    BY <1>3
  <2> QED
    BY <1>3, <1>4, <2>2, <2>3
<1>9. CASE z < SizeModulus
  <2>1. Len(new) = 1 + n /\ new[1] = b /\ \A k \in 2 .. 1 + n : new[k].kind = "data"
    BY <1>2, <1>9
  <2>2. ASSUME NEW k \in 1 .. Len(e), e[k].kind = "header"
        PROVE  k = 1 /\ e[k] = b
    <3>1. e[k] = new[k] /\ k \in 1 .. 1 + n
      BY <1>1, <1>4, <2>1
    <3>2. CASE k = 1
      BY <2>1, <3>1, <3>2
    <3>3. CASE k # 1
      <4>1. k \in 2 .. 1 + n
        BY <1>1, <3>1, <3>3
      <4> QED
        BY <2>1, <2>2, <3>1, <4>1
    <3> QED
      BY <3>2, <3>3
  <2>3. Sizes(e)
    BY <1>5, <1>7, <2>2 DEF Sizes, Sound
  <2>4. ASSUME ~short'
        PROVE  ~short /\ WellFormed(e)
    <3>1. ~short /\ Len(e) \notin 1 .. Needed
      BY <1>3, <2>4
    <3>2. Len(e) = 0 \/ Len(e) = 1 + Needed
      BY <1>1, <1>4, <2>1, <3>1
    <3>3. CASE Len(e) = 0
      <4>1. e = <<>>
        BY <1>4, <3>3, EmptySeq
      <4> QED
        BY <3>1, <4>1 DEF WellFormed
    <3>4. CASE Len(e) = 1 + Needed
      <4>1. 1 \in 1 .. Len(e) /\ e[1] = b
        BY <1>1, <1>4, <2>1, <3>4
      <4>2. e[1].kind # "data"
        BY <1>5, <4>1
      <4>3. ASSUME NEW i \in 1 .. Len(e), Sound(e[i])
            PROVE  i + Blocks(e[i].size) <= Len(e) /\ ~(i + 1 + Blocks(e[i].size) <= Len(e))
        <5>1. i = 1 /\ e[i] = b
          BY <2>2, <4>3 DEF Sound
        <5>2. Blocks(e[i].size) = Needed
          BY <1>5, <1>6, <4>3, <5>1
        <5> QED
          BY <1>1, <3>4, <5>1, <5>2
      <4> QED
        BY <3>1, <4>2, <4>3 DEF WellFormed
    <3> QED
      BY <3>2, <3>3, <3>4
  <2> QED
    BY <1>3, <1>4, <2>3, <2>4
<1>10. z >= SizeModulus \/ z < SizeModulus
  <2>1. z \in Nat /\ SizeModulus \in Nat
    BY <1>2, Bounds
  <2> QED
    BY <2>1
<1> QED
  BY <1>8, <1>9, <1>10, Zenon

(* Only the backup writes to the tar file.                                   *)
LEMMA ArchiveKept ==
    ASSUME TypeInv, Control, Next
    PROVE  \/ \E part \in Parts \cup {All} : main_backup(part)
           \/ do_wrapped_ftw
           \/ main_end
           \/ UNCHANGED <<tar, short>> /\ HasFile /\ pc' # "idle"
<1>1. ASSUME NEW part, NEW overwrite, main_restore(part, overwrite)
      PROVE  UNCHANGED <<tar, short>> /\ HasFile /\ pc' # "idle"
  BY <1>1 DEF main_restore, archive, HasFile
<1>2. ASSUME mount
      PROVE  UNCHANGED <<tar, short>> /\ HasFile /\ pc' # "idle"
  BY <1>2 DEF mount, archive, HasFile
<1>3. ASSUME dread
      PROVE  UNCHANGED <<tar, short>> /\ HasFile /\ pc' # "idle"
  <2>1. pc' \in {"umount", "dread", "unwind", "visit"}
    BY <1>3 DEF dread
  <2> QED
    BY <1>3, <2>1 DEF dread, archive, HasFile
<1>4. ASSUME unwind
      PROVE  UNCHANGED <<tar, short>> /\ HasFile /\ pc' # "idle"
  BY <1>4 DEF unwind, archive, HasFile
<1>5. ASSUME umount
      PROVE  UNCHANGED <<tar, short>> /\ HasFile /\ pc' # "idle"
  BY <1>5 DEF umount, archive, HasFile
<1>6. ASSUME restore_end
      PROVE  UNCHANGED <<tar, short>> /\ HasFile /\ pc' # "idle"
  BY <1>6 DEF restore_end, archive, HasFile
<1>7. ASSUME pc = "header", NEW u, NEW next, Going(u, next)
      PROVE  UNCHANGED <<tar, short>> /\ HasFile /\ pc' # "idle"
  BY <1>7 DEF Going, Restored, archive, HasFile
<1>8. ASSUME skip_entry \/ misread
      PROVE  pc = "header" /\ \E u, next : Going(u, next)
  BY <1>8, SkipGoes, MisreadGoes DEF AtHeader
<1>9. ASSUME restore_directory \/ restore_link \/ restore_file
      PROVE  pc = "header" /\ \E u, next : Going(u, next)
  <2>1. pc = "header"
    BY <1>9 DEF restore_directory, restore_link, restore_file, AtHeader
  <2> QED
    BY <1>9, <2>1, DirectoryStep, LinkStep, FileStep DEF Restoring
<1> QED
  BY <1>1, <1>2, <1>3, <1>4, <1>5, <1>6, <1>7, <1>8, <1>9 DEF Next

(* Two blocks of zeros are an archive.                                       *)
LEMMA ZerosWellFormed ==
    <<Zero, Zero>> \in Seq(BlockSet) /\ Sizes(<<Zero, Zero>>) /\ WellFormed(<<Zero, Zero>>)
<1> DEFINE z == <<Zero, Zero>>
<1>1. Zero \in BlockSet /\ Zero.kind = "zero"
  BY DEF BlockSet, Zero
<1>2. z \in Seq(BlockSet) /\ Len(z) = 2 /\ z[1] = Zero /\ z[2] = Zero
  BY <1>1
<1>3. \A i \in 1 .. Len(z) : z[i].kind = "zero"
  BY <1>1, <1>2
<1> HIDE DEF z
<1>4. Sizes(z) /\ WellFormed(z)
  BY <1>1, <1>2, <1>3 DEF Sizes, WellFormed, Sound
<1> QED
  BY <1>2, <1>4 DEF z

(* The archive stays in step.                                                *)
LEMMA InStepStep == TypeInv /\ Control /\ InStep /\ [Next]_vars => InStep'
<1> SUFFICES ASSUME TypeInv, Control, InStep, [Next]_vars
             PROVE  InStep'
  OBVIOUS
<1> USE DEF InStep
<1>1. ASSUME NEW part, main_backup(part)
      PROVE  InStep'
  <2>1. tar' = <<>>
    BY <1>1 DEF main_backup
  <2> QED
    BY <2>1 DEF Sizes, WellFormed
<1>2. ASSUME do_wrapped_ftw
      PROVE  InStep'
  <2>1. pc = "visit" /\ tar \in Seq(BlockSet) /\ HasFile
    BY <1>2, VisitStep, VisitState DEF HasFile
  <2>2. CASE UNCHANGED <<tar, short>>
    BY <2>1, <2>2 DEF Sizes, WellFormed
  <2>3. ASSUME NEW F, NEW z \in SizeOf(here, Visited), NEW n \in 0 .. Needed,
               NEW lost \in 0 .. Needed + 1, Archived(F, z, n, lost)
        PROVE  InStep'
    <3>1. PICK e \in Seq(BlockSet) :
               tar' = tar \o e /\ Sizes(e) /\ (~short' => ~short /\ WellFormed(e))
      BY <2>1, <2>3, WrittenWellFormed
    <3>2. Sizes(tar \o e) /\ (~short' => WellFormed(tar \o e))
      BY <2>1, <3>1, WellFormedConcat
    <3> QED
      BY <3>1, <3>2 DEF Sizes, WellFormed
  <2> QED
    BY <1>2, <2>2, <2>3, VisitStep
<1>3. ASSUME main_end
      PROVE  InStep'
  <2>1. /\ pc = "part" /\ pc' = "idle" /\ short' = short
        /\ tar' = NoFile \/ tar' = tar \o <<Zero, Zero>> \/ tar' = tar
    BY <1>3 DEF main_end
  <2>2. HasFile /\ tar \in Seq(BlockSet)
    BY <2>1 DEF HasFile, TypeInv
  <2>3. CASE tar' = NoFile
    BY <2>1, <2>3 DEF HasFile
  <2>4. CASE tar' = tar \o <<Zero, Zero>>
    <3> DEFINE c == tar \o <<Zero, Zero>>
    <3>1. Sizes(c) /\ (~short => WellFormed(c))
      BY <2>2, ZerosWellFormed, WellFormedConcat
    <3> HIDE DEF c
    <3>2. tar' = c
      BY <2>4 DEF c
    <3> QED
      BY <2>1, <3>1, <3>2 DEF Sizes, WellFormed
  <2>5. CASE tar' = tar
    BY <2>1, <2>2, <2>5 DEF Sizes, WellFormed
  <2> QED
    BY <2>1, <2>3, <2>4, <2>5
<1>4. CASE UNCHANGED <<tar, short>> /\ HasFile /\ pc' # "idle"
  BY <1>4 DEF Sizes, WellFormed
<1>5. CASE UNCHANGED vars
  BY <1>5 DEF vars, Sizes, WellFormed, HasFile
<1> QED
  BY <1>1, <1>2, <1>3, <1>4, <1>5, ArchiveKept

(* An entry that leads astray: one so close to 4 GiB that the sum in fseek's *)
(* argument wraps, or with a SIZE that NAME ran into.                        *)
Wrapping(i) ==
    /\ tar[i].kind = "header"
    /\ tar[i].size > SizeModulus - Block \/ Overrun(tar[i])

(* In an archive that is in step a read that went on from a header by as     *)
(* many blocks as the header says does not arrive at data.                   *)
LEMMA GoesOn ==
    ASSUME TypeInv, Control, InStep, AtHeader, NEW u, NEW next,
           \/ next = at + 1 + Blocks(tar[at].size)
           \/ next = at + 1 + Skip(tar[at].size)
           \/ next = at + 1 /\ tar[at].type # "REG",
           Going(u, next)
    PROVE  ArchiveInStep'
<1>1. /\ tar' = tar /\ short' = short /\ at' = next /\ pc' = pc /\ pc = "header"
      /\ tar \in Seq(BlockSet) /\ at \in 1 .. Len(tar) /\ tar[at].size \in Nat
      /\ tar[at].kind = "header"
  BY ReadHeader DEF Going, Restored, archive, AtHeader
<1>2. Sizes(tar) /\ (~short => WellFormed(tar))
  BY <1>1 DEF InStep, HasFile
<1>3. /\ Blocks(tar[at].size) \in Nat /\ Skip(tar[at].size) \in Nat /\ Blocks(0) = 0
      /\ tar[at].size <= SizeModulus - Block => Skip(tar[at].size) = Blocks(tar[at].size)
  BY <1>1, BlocksOf
<1>4. next \in Nat /\ next >= at
  BY <1>1, <1>3
<1>5. CASE Wrapping(at)
  <2>1. at \in 1 .. next
    BY <1>1, <1>4
  <2> QED
    BY <1>1, <1>5, <2>1 DEF ArchiveInStep, Wrapping, Overrun
<1>6. CASE ~Wrapping(at)
  <2>0. Sound(tar[at])
    BY <1>1, <1>6 DEF Wrapping, Sound
  <2>1. tar[at].size <= SizeModulus - Block
    BY <1>1, <1>6, Bounds DEF Wrapping
  <2>2. next = at + 1 + Blocks(tar[at].size)
    <3>1. tar[at].type # "REG" => tar[at].size = 0
      BY <1>1, <1>2, <2>0 DEF Sizes
    <3>2. CASE tar[at].type # "REG" /\ next = at + 1
      <4>1. tar[at].size = 0 /\ Blocks(tar[at].size) = 0
        BY <1>3, <3>1, <3>2
      <4> QED
        BY <1>1, <3>2, <4>1
    <3> QED
      BY <1>3, <2>1, <3>2
  <2>3. ~short /\ next <= Len(tar) => tar[next].kind # "data"
    BY <1>1, <1>2, <2>0, <2>2 DEF WellFormed
  <2> QED
    BY <1>1, <2>3 DEF ArchiveInStep, InFile
<1> QED
  BY <1>5, <1>6

(* Data that is taken for a header means trouble before it.                  *)
LEMMA Misreads ==
    ASSUME TypeInv, Control, ArchiveInStep, misread
    PROVE  ArchiveInStep'
<1>1. pc = "header" /\ InFile /\ tar[at].kind = "data" /\ at \in Nat
  BY DEF misread, TypeInv
<1>2. PICK n \in 0 .. Len(tar) - at : Going(disk[mounted], at + 1 + n)
  BY MisreadGoes
<1>3. tar' = tar /\ short' = short /\ at' = at + 1 + n /\ n \in Nat
  <2>1. tar \in Seq(BlockSet)
    BY <1>1, Mounted
  <2> QED
    BY <1>1, <1>2, <2>1 DEF Going, Restored, archive
<1>4. CASE short
  BY <1>3, <1>4 DEF ArchiveInStep
<1>5. CASE ~short
  <2>1. PICK i \in 1 .. at : Wrapping(i)
    BY <1>1, <1>5 DEF ArchiveInStep, Wrapping, Overrun
  <2>2. i \in 1 .. at'
    BY <1>1, <1>3
  <2> QED
    BY <1>3, <2>1, <2>2 DEF ArchiveInStep, Wrapping, Overrun
<1> QED
  BY <1>4, <1>5

(* Every step of a restore goes on at a header.                              *)
LEMMA InStepReads ==
    TypeInv /\ Control /\ InStep /\ ArchiveInStep /\ [Next]_vars => ArchiveInStep'
<1> SUFFICES ASSUME TypeInv, Control, InStep, ArchiveInStep, [Next]_vars
             PROVE  ArchiveInStep'
  OBVIOUS
<1>1. ASSUME NEW part, main_backup(part)
      PROVE  pc' # "header"
  BY <1>1 DEF main_backup
<1>2. ASSUME NEW part, NEW overwrite, main_restore(part, overwrite)
      PROVE  pc' # "header"
  BY <1>2 DEF main_restore
<1>3. ASSUME mount
      PROVE  ArchiveInStep'
  <2>1. pc = "part" /\ at' = 1 /\ tar' = tar /\ short' = short
    BY <1>3 DEF mount, archive
  <2>2. tar \in Seq(BlockSet) /\ (~short => WellFormed(tar))
    BY <2>1 DEF InStep, HasFile, TypeInv
  <2>3. 1 <= Len(tar) => tar # <<>>
    BY <2>2
  <2>4. ~short /\ tar # <<>> => tar[1].kind # "data"
    BY <2>2 DEF WellFormed
  <2> QED
    BY <2>1, <2>3, <2>4 DEF ArchiveInStep, InFile
<1>4. ASSUME do_wrapped_ftw
      PROVE  pc' # "header"
  BY <1>4, VisitStep DEF Descends
<1>5. ASSUME dread
      PROVE  pc' # "header"
  <2>1. pc' \in {"umount", "dread", "unwind", "visit"}
    BY <1>5 DEF dread
  <2> QED
    BY <2>1
<1>6. ASSUME unwind \/ umount \/ main_end \/ restore_end
      PROVE  pc' # "header"
  BY <1>6 DEF unwind, umount, main_end, restore_end
<1>7. ASSUME skip_entry
      PROVE  ArchiveInStep'
  <2>1. AtHeader /\ Going(disk[mounted], at + 1 + Skip(tar[at].size))
    BY <1>7, SkipGoes
  <2> QED
    BY <2>1, GoesOn
<1>8. ASSUME restore_directory
      PROVE  ArchiveInStep'
  <2>1. PICK u, F : Restoring(u, F, at + 1) /\ tar[at].type = "DIR"
    BY <1>8, DirectoryStep
  <2>2. AtHeader /\ Going(u, at + 1)
    BY <2>1 DEF Restoring
  <2> QED
    BY <2>1, <2>2, GoesOn
<1>9. ASSUME restore_link
      PROVE  ArchiveInStep'
  <2>1. PICK u, F : Restoring(u, F, at + 1) /\ tar[at].type = "LNK"
    BY <1>9, LinkStep
  <2>2. AtHeader /\ Going(u, at + 1)
    BY <2>1 DEF Restoring
  <2> QED
    BY <2>1, <2>2, GoesOn
<1>10. ASSUME restore_file
       PROVE  ArchiveInStep'
  <2>1. PICK u, F : \/ Restoring(u, F, at + 1 + Skip(tar[at].size))
                    \/ Restoring(u, F, at + 1 + Blocks(tar[at].size))
    BY <1>10, FileStep
  <2>2. /\ AtHeader
        /\ \/ Going(u, at + 1 + Skip(tar[at].size))
           \/ Going(u, at + 1 + Blocks(tar[at].size))
    BY <2>1 DEF Restoring
  <2> QED
    BY <2>2, GoesOn
<1>11. CASE UNCHANGED vars
  BY <1>11 DEF vars, ArchiveInStep, InFile
<1>12. pc' # "header" => ArchiveInStep'
  BY DEF ArchiveInStep
<1> QED
  BY <1>1, <1>2, <1>3, <1>4, <1>5, <1>6, <1>7, <1>8, <1>9, <1>10, <1>11, <1>12, Misreads DEF Next

(* A restore reads headers where there are headers, however many entries it  *)
(* skips, fails to create or writes in part: unless the backup left an entry *)
(* shorter than its header says, or there is one whose size wraps in fseek's *)
(* argument or was overwritten by its name.                                  *)
THEOREM TarArchiveInStep == Spec => []ArchiveInStep
<1> DEFINE Inv == (TypeInv /\ Control) /\ InStep /\ ArchiveInStep
<1>1. Init => Inv
  <2>1. Init => InStep /\ ArchiveInStep
    BY DEF Init, InStep, HasFile, ArchiveInStep
  <2> QED
    BY <2>1, InitControl
<1>2. Inv /\ [Next]_vars => Inv'
  BY ControlStep, InStepStep, InStepReads
<1>3. Inv => ArchiveInStep
  OBVIOUS
<1> HIDE DEF Inv
<1> QED
  BY <1>1, <1>2, <1>3, PTL DEF Spec
-----------------------------------------------------------------------------
(* Nothing that is in the tree t is harmed in u.                             *)
Keeps(t, u) == \A x : Grown(t, u, x)
Kept ==
    job.mode = "restore" =>
        \A p \in Parts :
            /\ ~Selected(p) => disk[p] = before[p]
            /\ ~job.overwrite /\ "getstat" \notin faults => Keeps(before[p], disk[p])

(* Which steps change a disk: the start of a job, and the ones that restore. *)
LEMMA DiskKept ==
    ASSUME TypeInv, Control, [Next]_vars
    PROVE  \/ \E part : main_backup(part)
           \/ \E part, overwrite : main_restore(part, overwrite)
           \/ UNCHANGED <<job, before, disk>> /\ faults \subseteq faults'
           \/ UNCHANGED <<job, before>> /\ \E u \in Trees : \E F, next : Restoring(u, F, next)
<1> DEFINE Same == UNCHANGED <<job, before, disk>> /\ faults \subseteq faults'
<1>1. ASSUME mount
      PROVE  Same
  BY <1>1 DEF mount, history, Fail
<1>2. ASSUME do_wrapped_ftw
      PROVE  Same
  <2>1. UNCHANGED <<job, before, disk>>
    BY <1>2, VisitStep
  <2>2. \E F : Fail(F)
    BY <1>2, VisitStep DEF Archived
  <2> QED
    BY <2>1, <2>2 DEF Fail
<1>3. ASSUME dread
      PROVE  Same
  BY <1>3 DEF dread, history, Fail
<1>4. ASSUME unwind
      PROVE  Same
  BY <1>4 DEF unwind, history, Fail
<1>5. ASSUME umount
      PROVE  Same
  BY <1>5 DEF umount, history, Fail
<1>6. ASSUME main_end
      PROVE  Same
  BY <1>6 DEF main_end, history, Fail
<1>7. ASSUME restore_end
      PROVE  Same
  BY <1>7 DEF restore_end, history
<1>8. ASSUME skip_entry \/ misread
      PROVE  Same
  <2>1. pc = "header" /\ faults' = faults /\ \E next : Going(disk[mounted], next)
    BY <1>8, SkipGoes, MisreadGoes DEF AtHeader
  <2>2. mounted \in Parts /\ disk \in [Parts -> Trees]
    BY <2>1, Mounted DEF TypeInv
  <2>3. disk' = [disk EXCEPT ![mounted] = disk[mounted]] /\ UNCHANGED <<job, before>>
    BY <2>1 DEF Going, Restored, history
  <2>4. disk' = disk
    BY <2>2, <2>3
  <2> QED
    BY <2>1, <2>3, <2>4
<1>9. ASSUME restore_directory \/ restore_link \/ restore_file
      PROVE  UNCHANGED <<job, before>> /\ \E u \in Trees : \E F, next : Restoring(u, F, next)
  <2>1. \E u \in Trees : \E F, next : Restoring(u, F, next)
    BY <1>9, DirectoryStep, LinkStep, FileStep
  <2> QED
    BY <2>1 DEF Restoring, Going, Restored, history
<1>10. ASSUME UNCHANGED vars
       PROVE  Same
  BY <1>10 DEF vars
<1> QED
  BY <1>1, <1>2, <1>3, <1>4, <1>5, <1>6, <1>7, <1>8, <1>9, <1>10 DEF Next

(* What is restored harms nothing that was there.                            *)
LEMMA KeptRestoring ==
    ASSUME TypeInv, Control, Kept, UNCHANGED <<job, before>>,
           NEW u \in Trees, NEW F, NEW next, Restoring(u, F, next)
    PROVE  Kept'
<1>1. /\ AtHeader /\ ~Foreign(tar[at]) /\ ~Existing(tar[at], F)
      /\ faults' = faults \cup F
      /\ Grown(disk[mounted], u, tar[at].path)
      /\ disk' = [disk EXCEPT ![mounted] = u]
  BY DEF Restoring, Going, Restored, Fail
<1>2. /\ mounted \in Parts /\ disk \in [Parts -> Trees] /\ Selected(mounted)
      /\ job.mode = "restore" /\ job' = job /\ before' = before
  BY <1>1, ReadHeader DEF TypeInv, Control, Phases, AtHeader
<1> SUFFICES ASSUME NEW p \in Parts
             PROVE  /\ ~Selected(p) => disk'[p] = before[p]
                    /\ ~job.overwrite /\ "getstat" \notin faults' => Keeps(before[p], disk'[p])
  BY <1>2 DEF Kept, Selected
<1>3. /\ ~Selected(p) => disk[p] = before[p]
      /\ ~job.overwrite /\ "getstat" \notin faults => Keeps(before[p], disk[p])
  BY <1>2 DEF Kept
<1>4. CASE p # mounted
  <2>1. disk'[p] = disk[p]
    BY <1>1, <1>2, <1>4
  <2> QED
    BY <1>1, <1>3, <2>1
<1>5. CASE p = mounted
  <2>1. disk'[p] = u
    BY <1>1, <1>2, <1>5
  <2>2. ASSUME ~job.overwrite, "getstat" \notin faults'
        PROVE  Keeps(before[p], u)
    <3>1. tar[at].path \notin DOMAIN disk[p]
      BY <1>1, <1>5, <2>2 DEF Existing
    <3>2. ASSUME NEW x
          PROVE  Grown(before[p], u, x)
      <4>1. Grown(disk[p], u, x)
        BY <1>1, <1>5, <3>1 DEF Grown
      <4>2. Grown(before[p], disk[p], x)
        BY <1>1, <1>3, <2>2 DEF Keeps
      <4> QED
        BY <4>1, <4>2, GrownTransitive
    <3> QED
      BY <3>2 DEF Keeps
  <2> QED
    BY <1>2, <1>5, <2>1, <2>2
<1> QED
  BY <1>4, <1>5

(* No step harms what was there before the restore.                          *)
LEMMA KeptStep == TypeInv /\ Control /\ Kept /\ [Next]_vars => Kept'
<1> SUFFICES ASSUME TypeInv, Control, Kept, [Next]_vars
             PROVE  Kept'
  OBVIOUS
<1>1. ASSUME NEW part, main_backup(part)
      PROVE  Kept'
  <2>1. job'.mode = "backup"
    BY <1>1 DEF main_backup
  <2> QED
    BY <2>1 DEF Kept
<1>2. ASSUME NEW part, NEW overwrite, main_restore(part, overwrite)
      PROVE  Kept'
  <2>1. before' = disk'
    BY <1>2 DEF main_restore
  <2>2. \A t : Keeps(t, t)
    BY DEF Keeps, Grown
  <2> QED
    BY <2>1, <2>2 DEF Kept
<1>3. CASE UNCHANGED <<job, before, disk>> /\ faults \subseteq faults'
  BY <1>3 DEF Kept, Selected
<1> QED
  BY <1>1, <1>2, <1>3, DiskKept, KeptRestoring

(* A restore changes no other partition than the one asked for, and without  *)
(* --overwrite nothing that existed but the times of directories it adds to, *)
(* unless a getstat failed.                                                  *)
THEOREM TarKeepsExisting == Spec => []KeepsExisting
<1> DEFINE Inv == (TypeInv /\ Control) /\ Kept
<1>1. Init => Inv
  <2>1. Init => Kept
    BY DEF Init, Kept
  <2> QED
    BY <2>1, InitControl
<1>2. Inv /\ [Next]_vars => Inv'
  BY ControlStep, KeptStep
<1>3. Inv => KeepsExisting
  <2> SUFFICES ASSUME Kept, job.mode = "restore", NEW p \in Parts
               PROVE  /\ ~Selected(p) => disk[p] = before[p]
                      /\ ~job.overwrite /\ "getstat" \notin faults =>
                           \A path \in DOMAIN before[p] :
                              /\ disk[p][path].mode = before[p][path].mode
                              /\ disk[p][path].data = before[p][path].data
                              /\ ~IsDir(before[p], path) => disk[p][path] = before[p][path]
    BY DEF KeepsExisting
  <2>1. ASSUME Keeps(before[p], disk[p]), NEW path \in DOMAIN before[p]
        PROVE  /\ disk[p][path].mode = before[p][path].mode
               /\ disk[p][path].data = before[p][path].data
               /\ ~IsDir(before[p], path) => disk[p][path] = before[p][path]
    <3>1. PICK x : x # path
      <4>1. <<path>> # path \/ <<>> # path
        OBVIOUS
      <4> QED
        BY <4>1
    <3>2. Grown(before[p], disk[p], x)
      BY <2>1 DEF Keeps
    <3> QED
      BY <3>1, <3>2 DEF Grown
  <2> QED
    BY <2>1 DEF Kept
<1> HIDE DEF Inv
<1> QED
  BY <1>1, <1>2, <1>3, PTL DEF Spec
-----------------------------------------------------------------------------
(* The archive s has the root of partition p.                                *)
Rooted(s, p) ==
    \E i \in DOMAIN s : s[i].kind = "header" /\ s[i].part = p /\ s[i].path = <<>>

(* A backup none of whose calls failed that could lose a root.               *)
Untroubled ==
    /\ job.mode = "backup"
    /\ faults \cap {"mount", "umount", "getstat", "dread", "fwrite", "close"} = {}

(* Every partition the listing has passed is in the archive, and so is the   *)
(* one being walked once its root has been visited.                          *)
Passed ==
    /\ job.mode = "none" => mounted = None
    /\ Untroubled =>
         /\ pc = "part" => mounted = None
         /\ \A p \in Parts : Selected(p) /\ p \notin ToSet(todo) => Rooted(tar, p)
         /\ pc \notin {"idle", "part"} /\ (pc = "visit" => stack # <<>>) => Rooted(tar, mounted)

(* An archive that grows keeps its roots.                                    *)
LEMMA RootedGrows ==
    ASSUME NEW s \in Seq(BlockSet), NEW e \in Seq(BlockSet), NEW p, Rooted(s, p)
    PROVE  Rooted(s \o e, p) /\ Len(s) >= 1
<1>1. PICK i \in 1 .. Len(s) : s[i].kind = "header" /\ s[i].part = p /\ s[i].path = <<>>
  BY DEF Rooted
<1>2. i \in DOMAIN (s \o e) /\ (s \o e)[i] = s[i]
  OBVIOUS
<1> QED
  BY <1>1, <1>2 DEF Rooted

(* The listing moves on by one partition.                                    *)
LEMMA TailOf ==
    ASSUME NEW s \in Seq(Parts), s # <<>>, NEW p \in ToSet(s), p \notin ToSet(Tail(s))
    PROVE  p = Head(s)
<1>1. PICK i \in 1 .. Len(s) : p = s[i]
  BY DEF ToSet
<1>2. /\ Tail(s) \in Seq(Parts) /\ Len(Tail(s)) = Len(s) - 1
      /\ \A k \in 1 .. Len(s) - 1 : Tail(s)[k] = s[k + 1]
      /\ Len(s) \in Nat /\ Head(s) = s[1]
  OBVIOUS
<1>3. CASE i # 1
  <2>1. i - 1 \in 1 .. Len(s) - 1 /\ (i - 1) + 1 = i
    BY <1>2, <1>3
  <2>2. Tail(s)[i - 1] = p /\ i - 1 \in DOMAIN Tail(s)
    BY <1>1, <1>2, <2>1
  <2> QED
    BY <2>2 DEF ToSet
<1> QED
  BY <1>1, <1>2, <1>3

(* A visit writes all of a node, and for the root a header with its path.    *)
LEMMA RootedVisit ==
    ASSUME TypeInv, Control, pc = "visit", "fwrite" \notin faults',
           NEW F, NEW z \in SizeOf(here, Visited), NEW n \in 0 .. Needed,
           NEW lost \in 0 .. Needed + 1, Archived(F, z, n, lost)
    PROVE  \E e \in Seq(BlockSet) : tar' = tar \o e /\ (stack = <<>> => Rooted(e, mounted))
<1> DEFINE new == tar_c_file(mounted, here, Visited, z, F, n)
           e == SubSeq(new, 1, Len(new) - lost)
           link == IF Visited.mode.type = "LNK" /\ "readlink" \notin F THEN Cut(Visited.data)
                   ELSE <<>>
           b == Header(mounted, here, Visited, z, link)
<1>1. /\ mounted \in Parts /\ here \in Paths /\ IsNode(Visited) /\ Needed \in Nat
      /\ n \in Nat /\ (Visited.mode.type # "REG" => n = 0) /\ lost \in Nat
  BY VisitState DEF Needed
<1>2. /\ new \in Seq(BlockSet) /\ z \in Nat /\ link \in Seq(Int)
      /\ z < SizeModulus => Len(new) = 1 + n /\ new[1] = b
  BY <1>1, TarFileOf
<1>3. tar' = tar \o e /\ lost <= Len(new) /\ lost = 0
  <2>1. tar' = tar \o e /\ lost <= Len(new) /\ (lost > 0 => "fwrite" \in F)
    BY DEF Archived
  <2>2. faults' = faults \cup F
    BY DEF Archived, Fail
  <2> QED
    BY <1>1, <2>1, <2>2
<1>4. /\ e \in Seq(BlockSet) /\ Len(e) = Len(new)
      /\ \A k \in 1 .. Len(e) : e[k] = new[k]
  <2>1. /\ e \in Seq(BlockSet) /\ Len(e) = Len(new) - lost
        /\ \A k \in 1 .. Len(e) : e[k] = new[k]
    <3>1. lost \in Nat /\ lost <= Len(new)
      BY <1>1, <1>3
    <3> QED
      BY <3>1, WrittenBlocks, Zenon
  <2>2. Len(new) \in Nat
    BY <1>2
  <2> HIDE DEF e, new
  <2> QED
    BY <1>3, <2>1, <2>2
<1>5. ASSUME stack = <<>>
      PROVE  Rooted(e, mounted)
  <2>1. here = <<>>
    BY <1>5 DEF Control, Phases
  <2>2. Visited.mode.type = "DIR"
    BY <2>1, VisitState DEF IsTree, IsDir, Visited
  <2>3. z < SizeModulus
    BY <1>1, <2>2, SizesOf
  <2>4. Length(here) = 0
    BY <2>1, LengthOf
  <2>5. ~Long(here)
    BY <2>4, Bounds DEF Long
  <2>6. b.kind = "header" /\ b.path = here /\ b.part = mounted
    <3>1. Visited \in Nodes /\ z \in Nat /\ link \in Seq(Int)
      BY <1>1, <1>2, NodeType
    <3> HIDE DEF link, Visited
    <3> QED
      BY <1>1, <2>5, <3>1, HeaderOf
  <2> HIDE DEF e, new, b
  <2>7. 1 \in DOMAIN e /\ e[1] = b
    BY <1>1, <1>2, <1>4, <2>3
  <2> QED
    BY <2>1, <2>6, <2>7 DEF Rooted
<1> QED
  BY <1>3, <1>4, <1>5

(* Steps that leave the archive and the listing alone.                       *)
LEMMA PassedOn ==
    ASSUME Passed, UNCHANGED <<job, todo, tar, mounted>>, faults \subseteq faults',
           pc \notin {"idle", "part"}, pc' \notin {"idle", "part"},
           pc = "visit" => stack # <<>>
    PROVE  Passed'
  BY DEF Passed, Untroubled, Selected

(* No step of a backup loses a partition.                                    *)
LEMMA PassedStep == TypeInv /\ Control /\ Passed /\ [Next]_vars => Passed'
<1> SUFFICES ASSUME TypeInv, Control, Passed, [Next]_vars
             PROVE  Passed'
  OBVIOUS
<1>1. ASSUME NEW part, main_backup(part)
      PROVE  Passed'
  <2>1. /\ job.mode = "none" /\ job'.mode = "backup" /\ mounted' = mounted /\ todo' = Order
        /\ pc' = "part"
    BY <1>1 DEF main_backup
  <2> QED
    BY <2>1 DEF Passed, Parts
<1>2. ASSUME NEW part, NEW overwrite, main_restore(part, overwrite)
      PROVE  Passed'
  <2>1. job'.mode = "restore"
    BY <1>2 DEF main_restore
  <2> QED
    BY <2>1 DEF Passed, Untroubled
<1>3. ASSUME mount
      PROVE  Passed'
  <2>1. /\ pc = "part" /\ todo # <<>> /\ todo \in Seq(Parts)
        /\ UNCHANGED <<job, disk, open, stack, tar, short, restores, source, before>>
        /\ job.mode # "none" /\ stack = <<>>
    BY <1>3 DEF mount, archive, history, TypeInv, Control, Phases, Walking
  <2>2. PICK F \in SUBSET {"mount"} :
          /\ Fail(IF Selected(Head(todo)) THEN F ELSE {})
          /\ IF ~Selected(Head(todo)) \/ F # {} \/ mounted # None
             THEN todo' = Tail(todo) /\ UNCHANGED <<pc, mounted>>
             ELSE /\ mounted' = Head(todo)
                  /\ pc' = IF job.mode = "backup" THEN "visit" ELSE "header"
                  /\ UNCHANGED todo
    BY <1>3 DEF mount, Failing
  <2> SUFFICES ASSUME Untroubled'
               PROVE  /\ pc' = "part" => mounted' = None
                      /\ \A p \in Parts : Selected(p) /\ p \notin ToSet(todo') => Rooted(tar, p)
                      /\ ~(pc' \notin {"idle", "part"} /\ (pc' = "visit" => stack # <<>>))
    BY <2>1 DEF Passed, Selected
  <2>3. Untroubled /\ (Selected(Head(todo)) => F = {})
    <3>1. faults \subseteq faults' /\ (Selected(Head(todo)) => F \subseteq faults')
      BY <2>2 DEF Fail
    <3> QED
      BY <2>1, <2>2, <3>1 DEF Untroubled
  <2>4. mounted = None /\ \A p \in Parts : Selected(p) /\ p \notin ToSet(todo) => Rooted(tar, p)
    BY <2>1, <2>3 DEF Passed
  <2>5. CASE ~Selected(Head(todo))
    <3>1. todo' = Tail(todo) /\ pc' = pc /\ mounted' = mounted
      BY <2>2, <2>5
    <3> QED
      BY <2>1, <2>4, <2>5, <3>1, TailOf
  <2>6. CASE Selected(Head(todo))
    <3>1. pc' = "visit" /\ todo' = todo
      BY <2>2, <2>3, <2>4, <2>6 DEF Untroubled
    <3> QED
      BY <2>1, <2>4, <3>1
  <2> QED
    BY <2>5, <2>6
<1>4. ASSUME umount
      PROVE  Passed'
  <2>1. /\ pc = "umount" /\ pc' = "part" /\ todo' = Tail(todo)
        /\ todo \in Seq(Parts) /\ todo # <<>> /\ mounted = Head(todo)
        /\ UNCHANGED <<job, tar>> /\ job.mode # "none" /\ stack = <<>>
    BY <1>4 DEF umount, archive, Control, Phases, TypeInv, Walking
  <2>2. PICK F \in SUBSET {"umount"} :
            mounted' = (IF F # {} \/ open > 0 THEN mounted ELSE None) /\ Fail(F)
    BY <1>4 DEF umount, Failing
  <2> SUFFICES ASSUME Untroubled'
               PROVE  /\ mounted' = None
                      /\ \A p \in Parts : Selected(p) /\ p \notin ToSet(todo') => Rooted(tar, p)
    BY <2>1 DEF Passed, Selected
  <2>3. Untroubled /\ F = {}
    BY <2>1, <2>2 DEF Untroubled, Fail
  <2>5. open = 0
    <3>1. "close" \notin faults
      BY <2>3 DEF Untroubled
    <3> QED
      BY <2>1, <3>1 DEF Control, Descriptors
  <2>4. /\ \A p \in Parts : Selected(p) /\ p \notin ToSet(todo) => Rooted(tar, p)
        /\ Rooted(tar, mounted)
    BY <2>1, <2>3 DEF Passed
  <2> QED
    BY <2>1, <2>2, <2>3, <2>4, <2>5, TailOf
<1>5. ASSUME do_wrapped_ftw
      PROVE  Passed'
  <2>1. /\ pc = "visit" /\ UNCHANGED <<job, mounted, todo>> /\ tar \in Seq(BlockSet)
        /\ job.mode = "backup"
    BY <1>5, VisitStep, VisitState
  <2>2. pc' \in {"unwind", "dread"}
    BY <1>5, VisitStep DEF Descends
  <2> SUFFICES ASSUME Untroubled'
               PROVE  /\ \A p \in Parts : Selected(p) /\ p \notin ToSet(todo) => Rooted(tar', p)
                      /\ Rooted(tar', mounted)
    BY <2>1, <2>2 DEF Passed, Selected
  <2>3. PICK F \in SUBSET {"open", "read", "close", "readlink", "dopen", "fwrite"} :
              \E z \in SizeOf(here, Visited), n \in 0 .. Needed, lost \in 0 .. Needed + 1 :
                 Archived(F, z, n, lost)
    <3>1. ~Fail({"getstat"})
      BY DEF Untroubled, Fail
    <3> QED
      BY <1>5, <3>1, VisitStep
  <2>4. PICK z \in SizeOf(here, Visited), n \in 0 .. Needed, lost \in 0 .. Needed + 1 :
          Archived(F, z, n, lost)
    BY <2>3
  <2>5. Untroubled /\ "fwrite" \notin faults'
    BY <2>1, <2>4 DEF Archived, Fail, Untroubled
  <2>6. PICK e \in Seq(BlockSet) : tar' = tar \o e /\ (stack = <<>> => Rooted(e, mounted))
    BY <2>1, <2>4, <2>5, RootedVisit
  <2>7. Rooted(tar', mounted)
    <3>1. CASE stack = <<>>
      <4>1. PICK i \in 1 .. Len(e) : e[i].kind = "header" /\ e[i].part = mounted /\ e[i].path = <<>>
        BY <2>6, <3>1 DEF Rooted
      <4>2. Len(tar) + i \in DOMAIN (tar \o e) /\ (tar \o e)[Len(tar) + i] = e[i]
        BY <2>1
      <4> QED
        BY <2>6, <4>1, <4>2 DEF Rooted
    <3>2. CASE stack # <<>>
      <4>1. Rooted(tar, mounted)
        BY <2>1, <2>5, <3>2 DEF Passed
      <4> QED
        BY <2>1, <2>6, <4>1, RootedGrows
    <3> QED
      BY <3>1, <3>2
  <2>8. \A p \in Parts : Selected(p) /\ p \notin ToSet(todo) => Rooted(tar', p)
    BY <2>1, <2>5, <2>6, RootedGrows DEF Passed
  <2> QED
    BY <2>7, <2>8
<1>6. ASSUME dread
      PROVE  Passed'
  <2>1. /\ pc = "dread" /\ pc' \in {"umount", "dread", "unwind", "visit"}
        /\ UNCHANGED <<job, todo, tar, mounted>> /\ faults \subseteq faults'
    BY <1>6 DEF dread, archive, Fail
  <2> QED
    BY <2>1, PassedOn
<1>7. ASSUME unwind
      PROVE  Passed'
  <2>1. /\ pc = "unwind" /\ pc' \in {"umount", "unwind"}
        /\ UNCHANGED <<job, todo, tar, mounted>> /\ faults \subseteq faults'
    BY <1>7 DEF unwind, archive, Fail
  <2> QED
    BY <2>1, PassedOn
<1>8. ASSUME main_end
      PROVE  Passed'
  <2>1. /\ pc = "part" /\ pc' = "idle" /\ todo' = <<>> /\ UNCHANGED <<job, mounted>>
        /\ tar \in Seq(BlockSet) /\ job.mode # "none"
    BY <1>8 DEF main_end, TypeInv, Control, Phases
  <2>2. PICK F :
          LET end == IF job.mode = "backup" /\ "fwrite" \notin F
                     THEN tar \o <<Zero, Zero>> ELSE tar
          IN  /\ todo = <<>> \/ "dread" \in F
              /\ Fail(F)
              /\ tar' = IF Len(end) <= 2 THEN NoFile ELSE end
    BY <1>8 DEF main_end
  <2> SUFFICES ASSUME Untroubled', NEW p \in Parts, Selected(p)
               PROVE  Rooted(tar', p)
    BY <2>1 DEF Passed, Selected
  <2>3. Untroubled /\ job.mode = "backup" /\ "fwrite" \notin F /\ todo = <<>>
    BY <2>1, <2>2 DEF Untroubled, Fail
  <2>4. Rooted(tar, p)
    BY <2>3 DEF Passed, ToSet
  <2>5. Rooted(tar \o <<Zero, Zero>>, p) /\ Len(tar) >= 1
    BY <2>1, <2>4, ZerosWellFormed, RootedGrows
  <2>6. Len(tar \o <<Zero, Zero>>) = Len(tar) + 2 /\ Len(tar) \in Nat
    BY <2>1, ZerosWellFormed
  <2>7. tar' = tar \o <<Zero, Zero>>
    BY <2>2, <2>3, <2>5, <2>6
  <2> QED
    BY <2>5, <2>7
<1>9. ASSUME skip_entry \/ restore_end \/ misread
               \/ restore_directory \/ restore_link \/ restore_file
      PROVE  Passed'
  <2>1. pc = "header" /\ job' = job
    BY <1>9 DEF skip_entry, restore_end, misread, restore_directory, restore_link, restore_file,
                AtHeader, Restored
  <2>2. job'.mode = "restore"
    BY <2>1 DEF Control, Phases
  <2> QED
    BY <2>2 DEF Passed, Untroubled
<1>10. CASE UNCHANGED vars
  BY <1>10 DEF vars, Passed, Untroubled, Selected
<1> QED
  BY <1>1, <1>2, <1>3, <1>4, <1>5, <1>6, <1>7, <1>8, <1>9, <1>10 DEF Next

(* One partition's trouble is not another's: a backup whose mounts, stats,   *)
(* closes and writes succeed has the root of every partition it was asked    *)
(* for, whatever cannot be opened or read, whatever walk ends early and      *)
(* however few descriptors there are.                                        *)
THEOREM TarEveryPartitionArchived == Spec => []EveryPartitionArchived
<1> DEFINE Inv == (TypeInv /\ Control) /\ Passed /\ (pc = "idle" => todo = <<>>)
<1>1. Init => Inv
  <2>1. Init => Passed /\ (pc = "idle" => todo = <<>>)
    BY DEF Init, Passed, Untroubled
  <2> QED
    BY <2>1, InitControl
<1>2. Inv /\ [Next]_vars => Inv'
  <2>1. (TypeInv /\ Control) /\ (pc = "idle" => todo = <<>>) /\ [Next]_vars
           => (pc' = "idle" => todo' = <<>>)
    <3> SUFFICES ASSUME TypeInv, Control, pc = "idle" => todo = <<>>, [Next]_vars, pc' = "idle"
                 PROVE  todo' = <<>>
      OBVIOUS
    <3>1. ASSUME NEW part, main_backup(part)
          PROVE  FALSE
      BY <3>1 DEF main_backup
    <3>2. ASSUME do_wrapped_ftw
          PROVE  FALSE
      BY <3>2, VisitStep DEF Descends
    <3>3. ASSUME main_end
          PROVE  todo' = <<>>
      BY <3>3 DEF main_end
    <3>4. ASSUME UNCHANGED vars
          PROVE  todo' = <<>>
      BY <3>4 DEF vars
    <3> QED
      BY <3>1, <3>2, <3>3, <3>4, ArchiveKept
  <2> QED
    BY <2>1, ControlStep, PassedStep
<1>3. Inv => EveryPartitionArchived
  BY DEF Passed, EveryPartitionArchived, Untroubled, Rooted, ToSet
<1> HIDE DEF Inv
<1> QED
  BY <1>1, <1>2, <1>3, PTL DEF Spec
------------------------------------------------------------------------------
(* A backup and restores without a failed call, of disks that can be walked. *)
Clean == faults = {} /\ \A p \in Parts : Walkable(source[p])

(* The entry of a node: a header that gives size and link, then the data.    *)
Size(n) == IF n.mode.type = "REG" THEN Len(n.data) ELSE 0
Target(n) == IF n.mode.type = "LNK" THEN Cut(n.data) ELSE <<>>
HeaderFor(p, x, n) == Header(p, x, n, Size(n), Target(n))

(* LINK and MTIME hold all of the node's target and time.                    *)
Storable(n) ==
    /\ n.mode.type = "LNK" => Len(n.data) <= LinkField
    /\ convert_iox_stat_time_to_posix(n.time) \in 0 .. TimeModulus - 1

(* The archive s has a header of the node at x of the partition p.           *)
IsEntry(s, n, p, x) == s[n].kind = "header" /\ s[n].part = p /\ s[n].path = x
Listed(s, p, x) == \E n \in 1 .. Len(s) : IsEntry(s, n, p, x)

(* Every header is that of a node of the disk S, followed by its data; the   *)
(* header of its directory is before it; and none comes after the end.       *)
Describes(S, s, n, p, x) ==
    /\ p \in Parts /\ x \in DOMAIN S[p]
    /\ s[n] = HeaderFor(p, x, S[p][x])
    /\ \A k \in 1 .. Blocks(Size(S[p][x])) :
          n + k <= Len(s) /\ s[n + k] = DataBlock(S[p][x].data, k)
Faithful(S, s) == \A n \in 1 .. Len(s) :
    s[n].kind = "header" => Describes(S, s, n, s[n].part, s[n].path)
ParentsFirst(s) == \A n \in 1 .. Len(s) :
    s[n].kind = "header" /\ s[n].path # <<>> =>
        \E m \in 1 .. n - 1 : IsEntry(s, m, s[n].part, Front(s[n].path))
Ended(s) == \A m \in 1 .. Len(s), n \in 1 .. Len(s) :
    m < n /\ s[m].kind = "zero" => s[n].kind # "header"
NoZeros(s) == \A n \in 1 .. Len(s) : s[n].kind # "zero"

(* All of the tree t, which is that of the partition p, is in the archive.   *)
Complete(t, s, p) == \A x \in DOMAIN t : Listed(s, p, x)

(* The first k names of a path.                                              *)
Upto(q, k) == SubSeq(q, 1, k)

(* The walk of the tree t: a frame for each directory on the way, all of     *)
(* them in the archive, and what is not in it yet is at or below h, or below *)
(* a name that a frame has not read.                                         *)
OnTheWay(t, s, p, stk) ==
    \A k \in DOMAIN stk :
        Len(stk[k].dir) = k - 1 /\ stk[k].dir \in DOMAIN t /\ Listed(s, p, stk[k].dir)
Below(q, h) == Len(q) >= Len(h) /\ Upto(q, Len(h)) = h
InFrames(stk, q) ==
    \E k \in DOMAIN stk :
        Len(q) >= k /\ Upto(q, k - 1) = stk[k].dir /\ q[k] \in stk[k].rest

Reading(t, s, p, stk) ==
    /\ stk \in Seq(Frames) /\ OnTheWay(t, s, p, stk)
    /\ \A q \in DOMAIN t : Listed(s, p, q) \/ InFrames(stk, q)
Visiting(t, s, p, stk, h) ==
    /\ stk \in Seq(Frames) /\ OnTheWay(t, s, p, stk)
    /\ h \in DOMAIN t /\ Len(h) = Len(stk) /\ (stk # <<>> => Front(h) = Last(stk).dir)
    /\ \A q \in DOMAIN t : Listed(s, p, q) \/ Below(q, h) \/ InFrames(stk, q)

WalkedWell ==
    /\ pc # "unwind" /\ ~short
    /\ HasFile => Faithful(source, tar) /\ ParentsFirst(tar) /\ Ended(tar)
    /\ pc # "idle" /\ job.mode = "backup" => NoZeros(tar)
    /\ pc = "idle" /\ tar # NoFile => Len(tar) > 2
    /\ job.mode = "restore" => tar # NoFile /\ Len(tar) > 2
    /\ pc \in {"idle", "part"} => mounted = None
    /\ pc = "visit" => Visiting(source[mounted], tar, mounted, stack, here)
    /\ pc = "dread" => Reading(source[mounted], tar, mounted, stack)
    /\ HasFile => \A n \in 1 .. Len(tar) : tar[n].kind = "header" =>
                     \/ Complete(source[tar[n].part], tar, tar[n].part)
                     \/ Walking /\ tar[n].part = mounted
Walked == Clean => WalkedWell

(* A node that is in the way of x.                                           *)
Obstructed(t, x) ==
    \E k \in 1 .. Len(x) - 1 : Upto(x, k) \in DOMAIN t /\ ~IsDir(t, Upto(x, k))

(* Nothing is in its way, and what is there may be written over (Fits).      *)
Free(t, x, type, overwrite) ==
    /\ ~Obstructed(t, x)
    /\ x \in DOMAIN t => t[x].mode.type = type /\ type # "LNK" /\ overwrite

(* The node of t at x is as good as the old one.                             *)
Matches(t, x, old) ==
    /\ x \in DOMAIN t /\ t[x].data = old.data /\ t[x].mode.type = old.mode.type
    /\ old.mode.type # "LNK" => t[x].mode = old.mode
    /\ old.mode.type = "REG" \/ (old.mode.type = "DIR" /\ Names(t, x) = {}) => t[x].time = old.time

(* The partition d was b before; what is new in it is from the source S.     *)
Additions(S, b, d) ==
    /\ IsTree(d) /\ IsTree(b) /\ DOMAIN b \subseteq DOMAIN d
    /\ \A x \in DOMAIN b : d[x].mode.type = b[x].mode.type
    /\ \A x \in DOMAIN d \ DOMAIN b : x \in DOMAIN S /\ Matches(d, x, S[x])

(* The entries before the n-th block have been restored where they fit.      *)
RestoredUpTo(S, b, d, s, p, n, overwrite) ==
    \A m \in 1 .. Len(s) :
        m < n /\ s[m].kind = "header" /\ s[m].part = p /\ s[m].path # <<>> =>
            /\ s[m].path \in DOMAIN d \/ Obstructed(d, s[m].path)
            /\ Free(b, s[m].path, S[s[m].path].mode.type, overwrite)
                  => Matches(d, s[m].path, S[s[m].path])
Done(p, n) == RestoredUpTo(source[p], before[p], disk[p], tar, p, n, job.overwrite)

BroughtWell ==
    /\ \A p \in Parts : Additions(source[p], before[p], disk[p])
    /\ pc = "header" => Done(mounted, at) /\ (InFile => tar[at].kind # "data")
    /\ pc = "umount" => Done(mounted, Len(tar) + 1)
    /\ pc = "idle" => todo = <<>>
    /\ \A p \in Parts : Selected(p) /\ p \notin ToSet(todo) => Done(p, Len(tar) + 1)
Brought == Clean /\ job.mode = "restore" => BroughtWell

(* The blocks of a file: all but the last are full, the last is not empty.   *)
LEMMA BlocksCover ==
    ASSUME NEW size \in Nat, NEW N, N = Blocks(size)
    PROVE  /\ N \in Nat /\ size <= N * Block
           /\ N > 0 => (N - 1) * Block < size
<1> DEFINE x == size + Block - 1
<1>1. x \in Nat /\ Block \in Nat \ {0}
  BY Bounds
<1>2. /\ x = Block * (x \div Block) + (x % Block)
      /\ x % Block \in 0 .. Block - 1 /\ x \div Block \in Nat
  <2> HIDE DEF x
  <2> QED  BY <1>1
<1>3. N = x \div Block
  BY DEF Blocks
<1>4. ASSUME NEW r \in 0 .. Block - 1, NEW M \in Nat, NEW y \in Nat,
             y = Block * M + r, y = size + Block - 1
      PROVE  size <= M * Block /\ (M > 0 => (M - 1) * Block < size)
  <2>1. Block * M = M * Block /\ (M - 1) * Block = M * Block - Block
    BY <1>1
  <2> QED  BY <1>1, <1>4, <2>1
<1> QED  BY <1>1, <1>2, <1>3, <1>4

(* The names a path begins with.                                             *)
LEMMA UptoOf ==
    ASSUME NEW V, NEW q \in Seq(V), NEW k \in 0 .. Len(q)
    PROVE  /\ Upto(q, k) \in Seq(V) /\ Len(Upto(q, k)) = k
           /\ \A n \in 1 .. k : Upto(q, k)[n] = q[n]
<1>1. \A n \in 1 .. k : q[n] \in V
  OBVIOUS
<1>2. /\ SubSeq(q, 1, k) \in Seq(V)
      /\ Len(SubSeq(q, 1, k)) = IF 1 <= k THEN k - 1 + 1 ELSE 0
      /\ \A n \in 1 .. k - 1 + 1 : SubSeq(q, 1, k)[n] = q[1 + n - 1]
  BY <1>1, SubSeqProperties
<1>3. k \in Nat /\ \A n \in 1 .. k : 1 + n - 1 = n
  OBVIOUS
<1> HIDE DEF Upto
<1> QED  BY <1>2, <1>3 DEF Upto

(* A sequence is the path's beginning if it has the same names.              *)
LEMMA UptoIs ==
    ASSUME NEW V, NEW q \in Seq(V), NEW y \in Seq(V), Len(y) <= Len(q),
           \A n \in 1 .. Len(y) : y[n] = q[n]
    PROVE  Upto(q, Len(y)) = y
<1>1. Len(y) \in 0 .. Len(q)
  OBVIOUS
<1>2. /\ Upto(q, Len(y)) \in Seq(V) /\ Len(Upto(q, Len(y))) = Len(y)
      /\ \A n \in 1 .. Len(y) : Upto(q, Len(y))[n] = q[n]
  BY <1>1, UptoOf
<1> QED  BY <1>2, SeqEqual

(* The beginning, less its last name.                                        *)
LEMMA UptoFront ==
    ASSUME NEW V, NEW q \in Seq(V), NEW k \in 1 .. Len(q)
    PROVE  /\ Front(Upto(q, k)) = Upto(q, k - 1) /\ Upto(q, k) # <<>> /\ Last(Upto(q, k)) = q[k]
           /\ Upto(q, k) = Append(Upto(q, k - 1), q[k])
<1>1. k - 1 \in 0 .. Len(q) /\ k \in 0 .. Len(q) /\ k \in Nat /\ q[k] \in V
  OBVIOUS
<1>2. /\ Upto(q, k) \in Seq(V) /\ Len(Upto(q, k)) = k
      /\ \A n \in 1 .. k : Upto(q, k)[n] = q[n]
  BY <1>1, UptoOf
<1>3. /\ Upto(q, k - 1) \in Seq(V) /\ Len(Upto(q, k - 1)) = k - 1
      /\ \A n \in 1 .. k - 1 : Upto(q, k - 1)[n] = q[n]
  BY <1>1, UptoOf
<1> DEFINE y == Upto(q, k)
           z == Upto(q, k - 1)
<1> HIDE DEF y, z
<1>4. y # <<>>
  BY <1>1, <1>2 DEF y
<1>5. /\ Front(y) \in Seq(V) /\ Len(Front(y)) = Len(y) - 1
      /\ \A n \in 1 .. Len(y) - 1 : Front(y)[n] = y[n]
  BY <1>2, <1>4, FrontOf DEF y
<1>6. Front(y) = z
  <2>1. Len(Front(y)) = Len(z) /\ \A n \in 1 .. Len(Front(y)) : Front(y)[n] = z[n]
    BY <1>1, <1>2, <1>3, <1>5 DEF y, z
  <2> QED  BY <1>3, <1>5, <2>1, SeqEqual DEF z
<1>7. Last(y) = q[k]
  BY <1>1, <1>2 DEF Last, y
<1>8. y = Append(z, q[k])
  <2>1. /\ Append(z, q[k]) \in Seq(V) /\ Len(Append(z, q[k])) = Len(z) + 1
        /\ \A n \in 1 .. Len(z) : Append(z, q[k])[n] = z[n]
        /\ Append(z, q[k])[Len(z) + 1] = q[k]
    BY <1>1, <1>3, AppendProperties DEF z
  <2>2. Len(y) = Len(Append(z, q[k])) /\ \A n \in 1 .. Len(y) : y[n] = Append(z, q[k])[n]
    BY <1>1, <1>2, <1>3, <2>1 DEF y, z
  <2> QED  BY <1>2, <2>1, <2>2, SeqEqual DEF y
<1> QED  BY <1>4, <1>6, <1>7, <1>8 DEF y, z

(* The beginning of a beginning, and the whole path.                         *)
LEMMA UptoUpto ==
    ASSUME NEW V, NEW q \in Seq(V), NEW k \in 0 .. Len(q), NEW j \in 0 .. k
    PROVE  Upto(Upto(q, k), j) = Upto(q, j) /\ Upto(q, Len(q)) = q /\ Upto(q, 0) = <<>>
<1>1. j \in 0 .. Len(q) /\ Len(q) \in 0 .. Len(q) /\ 0 \in 0 .. Len(q) /\ k \in Nat /\ j \in Nat
  OBVIOUS
<1>2. /\ Upto(q, k) \in Seq(V) /\ Len(Upto(q, k)) = k
      /\ \A n \in 1 .. k : Upto(q, k)[n] = q[n]
  BY UptoOf
<1>3. /\ Upto(q, j) \in Seq(V) /\ Len(Upto(q, j)) = j
      /\ \A n \in 1 .. j : Upto(q, j)[n] = q[n]
  BY <1>1, UptoOf
<1> DEFINE y == Upto(q, k)
           z == Upto(q, j)
<1> HIDE DEF y, z
<1>4. Upto(y, Len(z)) = z
  <2>1. Len(z) <= Len(y) /\ \A n \in 1 .. Len(z) : z[n] = y[n]
    BY <1>1, <1>2, <1>3 DEF y, z
  <2> QED  BY <1>2, <1>3, <2>1, UptoIs DEF y, z
<1>5. Upto(q, Len(q)) = q
  BY UptoIs
<1>6. Upto(q, 0) \in Seq(V) /\ Len(Upto(q, 0)) = 0
  BY <1>1, UptoOf
<1> QED  BY <1>3, <1>4, <1>5, <1>6, EmptySeq DEF y, z

(* What leads to a node of a tree is in the tree, a directory.               *)
LEMMA PathsLead ==
    ASSUME NEW t, IsTree(t), NEW q \in DOMAIN t, NEW k \in 0 .. Len(q)
    PROVE  /\ Upto(q, k) \in DOMAIN t
           /\ k < Len(q) => IsDir(t, Upto(q, k))
<1> DEFINE m == Len(q)
           T == {n \in 0 .. m : Upto(q, m - n) \notin DOMAIN t}
<1>1. q \in Paths /\ q \in Seq(DOMAIN Weight) /\ m \in Nat
  BY DEF IsTree, Paths
<1>2. \A y \in DOMAIN t : y # <<>> => IsDir(t, Front(y))
  BY DEF IsTree
<1>3. ASSUME NEW n \in 1 .. m, Upto(q, n) \in DOMAIN t
      PROVE  IsDir(t, Upto(q, n - 1)) /\ Upto(q, n - 1) \in DOMAIN t
  <2>1. Front(Upto(q, n)) = Upto(q, n - 1) /\ Upto(q, n) # <<>>
    BY <1>1, <1>3, UptoFront
  <2> QED  BY <1>2, <1>3, <2>1 DEF IsDir
<1>4. T = {}
  <2> SUFFICES ASSUME T # {} PROVE FALSE
    OBVIOUS
  <2>1. T \subseteq Nat
    BY <1>1
  <2>2. PICK n \in T : \A l \in T : n <= l
    <3> HIDE DEF T
    <3> QED  BY <2>1, LeastNumber
  <2>3. n \in 0 .. m /\ Upto(q, m - n) \notin DOMAIN t
    BY <2>2
  <2>4. Upto(q, m) \in DOMAIN t
    <3>1. m \in 0 .. Len(q) /\ 0 \in 0 .. m
      BY <1>1
    <3> QED  BY <1>1, <3>1, UptoUpto
  <2>5. n # 0
    BY <1>1, <2>3, <2>4
  <2>6. n - 1 \in 0 .. m /\ n - 1 \notin T /\ m - (n - 1) \in 1 .. m /\ (m - (n - 1)) - 1 = m - n
    BY <1>1, <2>2, <2>3, <2>5
  <2> QED  BY <1>3, <2>3, <2>6
<1>5. Upto(q, k) \in DOMAIN t
  <2>1. m - k \in 0 .. m /\ m - (m - k) = k
    BY <1>1
  <2> QED  BY <1>4, <2>1
<1>6. ASSUME k < Len(q)
      PROVE  IsDir(t, Upto(q, k))
  <2>1. k + 1 \in 1 .. m /\ m - (k + 1) \in 0 .. m /\ m - (m - (k + 1)) = k + 1 /\ (k + 1) - 1 = k
    BY <1>1, <1>6
  <2>2. Upto(q, k + 1) \in DOMAIN t
    BY <1>4, <2>1
  <2> QED  BY <1>3, <2>1, <2>2
<1> QED  BY <1>5, <1>6

(* The entry that tar_c_file writes for a node when nothing fails.           *)
NodeEntry(e, p, x, n) ==
    /\ Len(e) = 1 + Blocks(Size(n)) /\ e[1] = HeaderFor(p, x, n)
    /\ \A k \in 1 .. Blocks(Size(n)) : e[1 + k] = DataBlock(n.data, k)

(* What is known of a node's entry.                                          *)
LEMMA EntryOf ==
    ASSUME NEW p \in Parts, NEW x \in Paths, NEW n, IsNode(n), ~Long(x)
    PROVE  LET b == HeaderFor(p, x, n) IN
           /\ Size(n) \in Nat /\ Blocks(Size(n)) \in Nat
           /\ b \in Headers /\ b.kind = "header" /\ b.part = p /\ b.path = x
           /\ b.type = n.mode.type /\ b.size = Size(n) /\ b.link = Target(n)
           /\ b.mode = convert_mode_to_posix(n.mode)
           /\ b.mtime = Stamp(n.time)
           /\ \A k \in 1 .. Blocks(Size(n)) :
                 DataBlock(n.data, k) \in Contents /\ DataBlock(n.data, k).kind = "data"
<1>1. n \in Nodes /\ n.data \in Seq(Int)
  BY NodeType
<1>2. Size(n) \in Nat
  BY <1>1 DEF Size
<1>3. Target(n) \in Seq(Int)
  <2>1. <<>> \in Seq(Int) /\ Cut(n.data) \in Seq(Int)
    BY <1>1, CutOf
  <2> QED  BY <2>1, Zenon DEF Target
<1>4. Blocks(Size(n)) \in Nat /\ Blocks(0) = 0
  BY <1>2, BlocksOf
<1>6. ASSUME NEW k \in 1 .. Blocks(Size(n))
      PROVE  DataBlock(n.data, k) \in Contents /\ DataBlock(n.data, k).kind = "data"
  <2>1. n.mode.type = "REG"
    BY <1>4 DEF Size
  <2> QED  BY <1>1, <1>4, <2>1, DataBlocksOf
<1>7. LET b == HeaderFor(p, x, n) IN
           /\ b \in Headers /\ b.kind = "header" /\ b.path = x
           /\ b.type = n.mode.type /\ b.size = Size(n) /\ b.link = Target(n)
           /\ b.mode = convert_mode_to_posix(n.mode)
           /\ b.mtime = Stamp(n.time)
           /\ b.part = IF Long(x) THEN None ELSE p
  BY <1>1, <1>2, <1>3, HeaderOf DEF HeaderFor
<1> QED  BY <1>2, <1>4, <1>6, <1>7

(* An entry that goes on with the archive s, and what there is then: what    *)
(* the archive says of the disk stays true, and the node is in it.           *)
Addable(S, s, e, p, x) ==
    /\ s \in Seq(BlockSet) /\ e \in Seq(BlockSet) /\ p \in Parts /\ x \in Paths
    /\ x \in DOMAIN S[p] /\ IsNode(S[p][x]) /\ ~Long(x)
    /\ NodeEntry(e, p, x, S[p][x])
    /\ Faithful(S, s) /\ ParentsFirst(s) /\ NoZeros(s)
    /\ x # <<>> => Listed(s, p, Front(x))
Added(S, s, c, p, x) ==
    /\ Faithful(S, c) /\ ParentsFirst(c) /\ NoZeros(c) /\ Ended(c)
    /\ Listed(c, p, x)
    /\ \A r, y : Listed(s, r, y) => Listed(c, r, y)
    /\ \A n \in 1 .. Len(c) : c[n].kind = "header" =>
          (n \in 1 .. Len(s) /\ c[n] = s[n]) \/ c[n].part = p

(* The archive grows by an entry.                                            *)
LEMMA EntryAdded ==
    ASSUME NEW S, NEW s, NEW e, NEW p, NEW x, Addable(S, s, e, p, x)
    PROVE  Added(S, s, s \o e, p, x)
<1> DEFINE c == s \o e
<1> SUFFICES /\ Faithful(S, c) /\ ParentsFirst(c) /\ NoZeros(c) /\ Ended(c)
             /\ Listed(c, p, x)
             /\ \A r, y : Listed(s, r, y) => Listed(c, r, y)
             /\ \A n \in 1 .. Len(c) : c[n].kind = "header" =>
                   (n \in 1 .. Len(s) /\ c[n] = s[n]) \/ c[n].part = p
  BY Zenon DEF Added
<1>0. /\ s \in Seq(BlockSet) /\ e \in Seq(BlockSet) /\ p \in Parts /\ x \in Paths
      /\ x \in DOMAIN S[p] /\ IsNode(S[p][x]) /\ ~Long(x)
      /\ NodeEntry(e, p, x, S[p][x])
      /\ Faithful(S, s) /\ ParentsFirst(s) /\ NoZeros(s)
      /\ x # <<>> => Listed(s, p, Front(x))
  BY DEF Addable
<1> USE <1>0
<1> DEFINE m == Len(s)
           b == HeaderFor(p, x, S[p][x])
           N == Blocks(Size(S[p][x]))
<1>1. /\ c \in Seq(BlockSet) /\ Len(c) = m + Len(e) /\ m \in Nat /\ Len(e) \in Nat
      /\ \A i \in 1 .. m : c[i] = s[i]
      /\ \A i \in 1 .. Len(e) : c[m + i] = e[i]
  OBVIOUS
<1> HIDE DEF c
<1>2. /\ N \in Nat /\ b.kind = "header" /\ b.part = p /\ b.path = x
      /\ \A k \in 1 .. N : DataBlock(S[p][x].data, k).kind = "data"
  BY EntryOf
<1>3. Len(e) = 1 + N /\ e[1] = b /\ \A k \in 1 .. N : e[1 + k] = DataBlock(S[p][x].data, k)
  BY DEF NodeEntry
<1> HIDE DEF m, b, N
<1>4. c[m + 1] = b /\ \A k \in 1 .. N : c[m + 1 + k] = DataBlock(S[p][x].data, k)
  <2>1. 1 \in 1 .. Len(e)
    BY <1>2, <1>3
  <2>2. ASSUME NEW k \in 1 .. N
        PROVE  c[m + 1 + k] = DataBlock(S[p][x].data, k)
    <3>1. 1 + k \in 1 .. Len(e) /\ m + (1 + k) = m + 1 + k
      BY <1>1, <1>2, <1>3
    <3>2. c[m + (1 + k)] = e[1 + k]
      BY <1>1, <3>1
    <3> QED  BY <1>3, <3>1, <3>2
  <2> QED  BY <1>1, <1>3, <2>1, <2>2
<1>5. ASSUME NEW n \in 1 .. Len(c)
      PROVE  \/ n \in 1 .. m /\ c[n] = s[n]
             \/ n = m + 1 /\ c[n] = b
             \/ c[n].kind = "data"
  <2>1. n \in 1 .. m \/ n = m + 1 \/ n - m - 1 \in 1 .. N
    BY <1>1, <1>2, <1>3
  <2>2. ASSUME n - m - 1 \in 1 .. N
        PROVE  c[n].kind = "data"
    <3>1. m + 1 + (n - m - 1) = n
      BY <1>1
    <3> QED  BY <1>2, <1>4, <2>2, <3>1
  <2> QED  BY <1>1, <1>4, <2>1, <2>2
<1>6. m + 1 \in 1 .. Len(c) /\ IsEntry(c, m + 1, p, x)
  BY <1>1, <1>2, <1>3, <1>4 DEF IsEntry
<1>7. ASSUME NEW r, NEW y, Listed(s, r, y)
      PROVE  Listed(c, r, y)
  <2>1. PICK n \in 1 .. m : IsEntry(s, n, r, y)
    BY <1>7 DEF Listed, m
  <2>2. n \in 1 .. Len(c) /\ IsEntry(c, n, r, y)
    BY <1>1, <2>1 DEF IsEntry
  <2> QED  BY <2>2 DEF Listed
<1>8. NoZeros(c)
  <2> SUFFICES ASSUME NEW n \in 1 .. Len(c) PROVE c[n].kind # "zero"
    BY DEF NoZeros
  <2> QED  BY <1>2, <1>5 DEF NoZeros, m
<1>9. ASSUME NEW n \in 1 .. Len(c), c[n].kind = "header"
      PROVE  Describes(S, c, n, c[n].part, c[n].path)
  <2>1. CASE n \in 1 .. m /\ c[n] = s[n]
    <3> DEFINE r == s[n].part
               y == s[n].path
               M == Blocks(Size(S[r][y]))
    <3>1. /\ r \in Parts /\ y \in DOMAIN S[r]
          /\ s[n] = HeaderFor(r, y, S[r][y])
          /\ \A k \in 1 .. M : n + k <= m /\ s[n + k] = DataBlock(S[r][y].data, k)
      BY <1>9, <2>1 DEF Faithful, Describes, m
    <3> HIDE DEF M
    <3>2. ASSUME NEW k \in 1 .. M
          PROVE  n + k <= Len(c) /\ c[n + k] = DataBlock(S[r][y].data, k)
      <4>1. n + k <= m /\ s[n + k] = DataBlock(S[r][y].data, k)
        BY <3>1
      <4>2. k \in Nat /\ n \in Nat /\ k >= 1
        <5>1. M \in Int \/ M \notin Int
          OBVIOUS
        <5> QED  BY <2>1
      <4>3. n + k \in 1 .. m /\ n + k <= Len(c)
        BY <1>1, <2>1, <4>1, <4>2
      <4> QED  BY <1>1, <4>1, <4>3
    <3> QED  BY <2>1, <3>1, <3>2 DEF Describes, M
  <2>2. CASE n = m + 1 /\ c[n] = b
    <3>1. ASSUME NEW k \in 1 .. N
          PROVE  n + k <= Len(c) /\ c[n + k] = DataBlock(S[p][x].data, k)
      <4>1. n + k <= Len(c)
        BY <1>1, <1>2, <1>3, <2>2
      <4> QED  BY <1>4, <2>2, <4>1
    <3>2. c[n].part = p /\ c[n].path = x
      BY <1>2, <2>2
    <3>3. Describes(S, c, n, p, x)
      BY <2>2, <3>1 DEF Describes, b, N
    <3> QED  BY <3>2, <3>3
  <2> QED  BY <1>5, <1>9, <2>1, <2>2
<1>10. ASSUME NEW n \in 1 .. Len(c), c[n].kind = "header", c[n].path # <<>>
       PROVE  \E l \in 1 .. n - 1 : IsEntry(c, l, c[n].part, Front(c[n].path))
  <2>1. CASE n \in 1 .. m /\ c[n] = s[n]
    <3>1. PICK l \in 1 .. n - 1 : IsEntry(s, l, s[n].part, Front(s[n].path))
      BY <1>10, <2>1 DEF ParentsFirst, m
    <3>2. l \in 1 .. m
      BY <1>1, <2>1
    <3> QED  BY <1>1, <2>1, <3>1, <3>2 DEF IsEntry
  <2>2. CASE n = m + 1 /\ c[n] = b
    <3>1. c[n].part = p /\ c[n].path = x
      BY <1>2, <2>2
    <3>2. PICK l \in 1 .. m : IsEntry(s, l, p, Front(x))
      BY <1>10, <3>1 DEF Listed, m
    <3>3. l \in 1 .. n - 1 /\ IsEntry(c, l, p, Front(x))
      BY <1>1, <2>2, <3>2 DEF IsEntry
    <3> QED  BY <3>1, <3>3
  <2> QED  BY <1>5, <1>10, <2>1, <2>2
<1>11. Faithful(S, c) /\ ParentsFirst(c)
  BY <1>9, <1>10 DEF Faithful, ParentsFirst
<1>12. Ended(c)
  BY <1>8 DEF Ended, NoZeros
<1>13. Listed(c, p, x)
  BY <1>6 DEF Listed
<1>14. ASSUME NEW n \in 1 .. Len(c), c[n].kind = "header"
       PROVE  (n \in 1 .. m /\ c[n] = s[n]) \/ c[n].part = p
  BY <1>2, <1>5, <1>14
<1> QED  BY <1>7, <1>8, <1>11, <1>12, <1>13, <1>14 DEF m

(* The archive c has the entries of s and is complete.                       *)
EndOf(S, s, c) ==
    /\ c \in Seq(BlockSet) /\ Len(c) = Len(s) + 2
    /\ Faithful(S, c) /\ ParentsFirst(c) /\ Ended(c)
    /\ \A r, y : Listed(s, r, y) => Listed(c, r, y)
    /\ \A n \in 1 .. Len(c) : c[n].kind = "header" => n \in 1 .. Len(s) /\ c[n] = s[n]

(* The zeros at the end add nothing.                                         *)
LEMMA ZerosAdded ==
    ASSUME NEW S, NEW s, s \in Seq(BlockSet), Faithful(S, s), ParentsFirst(s), NoZeros(s)
    PROVE  EndOf(S, s, s \o <<Zero, Zero>>)
<1> DEFINE c == s \o <<Zero, Zero>>
<1> DEFINE m == Len(s)
           z == <<Zero, Zero>>
<1>1. Zero \in BlockSet /\ Zero.kind = "zero"
  BY DEF BlockSet, Zero
<1>2. z \in Seq(BlockSet) /\ Len(z) = 2 /\ z[1] = Zero /\ z[2] = Zero
  BY <1>1
<1> HIDE DEF z
<1>3. /\ c \in Seq(BlockSet) /\ Len(c) = m + 2 /\ m \in Nat
      /\ \A i \in 1 .. m : c[i] = s[i]
      /\ \A i \in 1 .. 2 : c[m + i] = z[i]
  BY <1>2 DEF z
<1> HIDE DEF m, c
<1>4. ASSUME NEW n \in 1 .. Len(c)
      PROVE  (n \in 1 .. m /\ c[n] = s[n]) \/ (n > m /\ c[n].kind = "zero")
  <2>1. n \in 1 .. m \/ (n - m \in 1 .. 2 /\ m + (n - m) = n)
    BY <1>3
  <2>2. ASSUME n - m \in 1 .. 2, m + (n - m) = n
        PROVE  n > m /\ c[n].kind = "zero"
    <3>1. c[n] = z[n - m] /\ n > m
      BY <1>3, <2>2
    <3>2. n - m = 1 \/ n - m = 2
      BY <2>2
    <3> QED  BY <1>1, <1>2, <3>1, <3>2
  <2> QED  BY <1>3, <2>1, <2>2
<1>5. ASSUME NEW n \in 1 .. Len(c), c[n].kind = "header"
      PROVE  n \in 1 .. m /\ c[n] = s[n]
  BY <1>4, <1>5
<1>6. ASSUME NEW r, NEW y, Listed(s, r, y)
      PROVE  Listed(c, r, y)
  <2>1. PICK n \in 1 .. m : IsEntry(s, n, r, y)
    BY <1>6 DEF Listed, m
  <2>2. n \in 1 .. Len(c) /\ IsEntry(c, n, r, y)
    BY <1>3, <2>1 DEF IsEntry
  <2> QED  BY <2>2 DEF Listed
<1>7. ASSUME NEW n \in 1 .. Len(c), c[n].kind = "header"
      PROVE  Describes(S, c, n, c[n].part, c[n].path)
  <2>1. n \in 1 .. m /\ c[n] = s[n]
    BY <1>5, <1>7
  <2> DEFINE r == s[n].part
             y == s[n].path
             M == Blocks(Size(S[r][y]))
  <2>2. /\ r \in Parts /\ y \in DOMAIN S[r]
        /\ s[n] = HeaderFor(r, y, S[r][y])
        /\ \A k \in 1 .. M : n + k <= m /\ s[n + k] = DataBlock(S[r][y].data, k)
    BY <1>7, <2>1 DEF Faithful, Describes, m
  <2> HIDE DEF M
  <2>3. ASSUME NEW k \in 1 .. M
        PROVE  n + k <= Len(c) /\ c[n + k] = DataBlock(S[r][y].data, k)
    <3>1. n + k <= m /\ s[n + k] = DataBlock(S[r][y].data, k)
      BY <2>2
    <3>2. n + k \in 1 .. m /\ n + k <= Len(c)
      BY <1>3, <2>1, <3>1
    <3> QED  BY <1>3, <3>1, <3>2
  <2> QED  BY <2>1, <2>2, <2>3 DEF Describes, M
<1>8. ASSUME NEW n \in 1 .. Len(c), c[n].kind = "header", c[n].path # <<>>
      PROVE  \E l \in 1 .. n - 1 : IsEntry(c, l, c[n].part, Front(c[n].path))
  <2>1. n \in 1 .. m /\ c[n] = s[n]
    BY <1>5, <1>8
  <2>2. PICK l \in 1 .. n - 1 : IsEntry(s, l, s[n].part, Front(s[n].path))
    BY <1>8, <2>1 DEF ParentsFirst, m
  <2>3. l \in 1 .. m
    BY <1>3, <2>1
  <2> QED  BY <1>3, <2>1, <2>2, <2>3 DEF IsEntry
<1>9. ASSUME NEW i \in 1 .. Len(c), NEW n \in 1 .. Len(c), i < n, c[i].kind = "zero"
      PROVE  c[n].kind # "header"
  <2> SUFFICES ASSUME c[n].kind = "header" PROVE FALSE
    OBVIOUS
  <2>1. n \in 1 .. m
    BY <1>5
  <2>2. i \in 1 .. m /\ c[i] = s[i]
    BY <1>3, <1>9, <2>1
  <2> QED  BY <1>9, <2>2 DEF NoZeros, m
<1>10. Faithful(S, c) /\ ParentsFirst(c) /\ Ended(c)
  BY <1>7, <1>8, <1>9 DEF Faithful, ParentsFirst, Ended
<1>11. EndOf(S, s, c)
  BY <1>3, <1>5, <1>6, <1>10 DEF m, EndOf
<1> QED  BY <1>11 DEF c
(* The frame of h on top of the others.                                      *)
Pushed(stk2, stk, h, names) ==
    /\ stk2 \in Seq(Frames) /\ Len(stk2) = Len(stk) + 1
    /\ \A k \in 1 .. Len(stk) : stk2[k] = stk[k]
    /\ stk2[Len(stk) + 1].dir = h /\ stk2[Len(stk) + 1].rest = names

(* The walk of a tree, when the archive has grown from s to c by the node at *)
(* h: below a directory are the names it lists, below other nodes nothing.   *)
LEMMA WalkDown ==
    ASSUME NEW t, NEW h, NEW s, NEW c, NEW p, NEW stk, IsTree(t), Visiting(t, s, p, stk, h),
           Listed(c, p, h), \A y : Listed(s, p, y) => Listed(c, p, y)
    PROVE  /\ t[h].mode.type # "DIR" => Reading(t, c, p, stk)
           /\ \A stk2 : Pushed(stk2, stk, h, Names(t, h)) => Reading(t, c, p, stk2)
<1>0. /\ stk \in Seq(Frames) /\ OnTheWay(t, s, p, stk)
      /\ h \in DOMAIN t /\ Len(h) = Len(stk)
      /\ \A q \in DOMAIN t : Listed(s, p, q) \/ Below(q, h) \/ InFrames(stk, q)
  BY DEF Visiting
<1> USE <1>0
<1>1. /\ t \in Trees /\ h \in Paths /\ DOMAIN t \subseteq Paths
      /\ h \in Seq(DOMAIN Weight) /\ Len(h) \in Nat /\ Len(h) = Len(stk) /\ Len(stk) \in Nat
  BY TreeType, TreeIs DEF Paths
<1>2. OnTheWay(t, c, p, stk)
  BY DEF OnTheWay
<1>3. ASSUME NEW q \in DOMAIN t, Below(q, h), ~Listed(c, p, q)
      PROVE  Len(q) > Len(h) /\ IsDir(t, h) /\ q[Len(h) + 1] \in Names(t, h)
  <2>1. q \in Seq(DOMAIN Weight) /\ Len(q) \in Nat /\ Len(q) >= Len(h) /\ Upto(q, Len(h)) = h
    BY <1>1, <1>3 DEF Paths, Below
  <2>2. Len(q) # Len(h)
    <3> SUFFICES ASSUME Len(q) = Len(h) PROVE FALSE
      OBVIOUS
    <3>1. Len(q) \in 0 .. Len(q) /\ 0 \in 0 .. Len(q)
      BY <2>1
    <3>2. Upto(q, Len(q)) = q
      BY <2>1, <3>1, UptoUpto
    <3> QED  BY <1>3, <2>1, <3>2
  <2>3. Len(h) \in 0 .. Len(q) /\ Len(h) < Len(q) /\ Len(h) + 1 \in 1 .. Len(q)
        /\ Len(h) + 1 \in 0 .. Len(q) /\ (Len(h) + 1) - 1 = Len(h)
    BY <1>1, <2>1, <2>2
  <2>4. IsDir(t, h)
    BY <2>1, <2>3, PathsLead
  <2>5. Upto(q, Len(h) + 1) = Append(h, q[Len(h) + 1])
    BY <2>1, <2>3, UptoFront
  <2>6. Upto(q, Len(h) + 1) \in DOMAIN t
    BY <2>3, PathsLead
  <2>7. q[Len(h) + 1] \in DOMAIN Weight
    BY <2>1, <2>3
  <2>8. q[Len(h) + 1] \in Names(t, h)
    BY <1>1, <2>5, <2>6, <2>7, NamesIntro
  <2> QED  BY <1>1, <2>1, <2>3, <2>4, <2>8
<1>4. ASSUME t[h].mode.type # "DIR"
      PROVE  Reading(t, c, p, stk)
  <2>1. ~IsDir(t, h)
    BY <1>4 DEF IsDir
  <2>2. \A q \in DOMAIN t : Listed(c, p, q) \/ InFrames(stk, q)
    BY <1>3, <2>1
  <2> QED  BY <1>2, <2>2 DEF Reading
<1>5. ASSUME NEW stk2, Pushed(stk2, stk, h, Names(t, h))
      PROVE  Reading(t, c, p, stk2)
  <2>0. /\ stk2 \in Seq(Frames) /\ Len(stk2) = Len(stk) + 1
        /\ \A k \in 1 .. Len(stk) : stk2[k] = stk[k]
        /\ stk2[Len(stk) + 1].dir = h /\ stk2[Len(stk) + 1].rest = Names(t, h)
    BY <1>5 DEF Pushed
  <2> USE <2>0
  <2>1. DOMAIN stk2 = 1 .. Len(stk) + 1 /\ DOMAIN stk = 1 .. Len(stk)
    BY <1>5
  <2>2. OnTheWay(t, c, p, stk2)
    <3> SUFFICES ASSUME NEW k \in 1 .. Len(stk) + 1
                 PROVE  Len(stk2[k].dir) = k - 1 /\ stk2[k].dir \in DOMAIN t
                        /\ Listed(c, p, stk2[k].dir)
      BY <2>1 DEF OnTheWay
    <3>1. CASE k \in 1 .. Len(stk)
      BY <1>2, <1>5, <2>1, <3>1 DEF OnTheWay
    <3>2. CASE k = Len(stk) + 1
      BY <1>1, <1>5, <3>2
    <3> QED  BY <1>1, <3>1, <3>2
  <2>3. ASSUME NEW q \in DOMAIN t, ~Listed(c, p, q)
        PROVE  InFrames(stk2, q)
    <3>1. CASE InFrames(stk, q)
      <4>1. PICK k \in 1 .. Len(stk) :
                 Len(q) >= k /\ Upto(q, k - 1) = stk[k].dir /\ q[k] \in stk[k].rest
        BY <2>1, <3>1 DEF InFrames
      <4>2. k \in DOMAIN stk2 /\ stk2[k] = stk[k]
        BY <1>1, <1>5, <2>1
      <4> QED  BY <4>1, <4>2 DEF InFrames
    <3>2. CASE Below(q, h)
      <4> DEFINE k == Len(stk) + 1
      <4>1. Len(q) > Len(h) /\ q[Len(h) + 1] \in Names(t, h) /\ Upto(q, Len(h)) = h
        BY <1>3, <2>3, <3>2 DEF Below
      <4>2. Len(q) \in Nat
        BY <1>1 DEF Paths
      <4>3. k \in DOMAIN stk2 /\ Len(q) >= k /\ k - 1 = Len(h) /\ k = Len(h) + 1
        BY <1>1, <2>1, <4>1, <4>2
      <4>4. Upto(q, k - 1) = stk2[k].dir /\ q[k] \in stk2[k].rest
        BY <1>5, <4>1, <4>3
      <4> HIDE DEF k
      <4> QED  BY <4>3, <4>4 DEF InFrames
    <3> QED  BY <2>3, <3>1, <3>2
  <2> QED  BY <2>2, <2>3 DEF Reading
<1> QED  BY <1>4, <1>5

(* A name less in the last frame.                                            *)
NameTaken(stk2, stk, name) ==
    /\ stk2 \in Seq(Frames) /\ Len(stk2) = Len(stk)
    /\ \A k \in 1 .. Len(stk) : k # Len(stk) => stk2[k] = stk[k]
    /\ stk2[Len(stk)].dir = Last(stk).dir /\ stk2[Len(stk)].rest = Last(stk).rest \ {name}

(* The next name of the last frame: the walk goes on there.                  *)
LEMMA WalkOn ==
    ASSUME NEW t, NEW s, NEW p, NEW stk, NEW stk2, NEW name, IsTree(t), stk # <<>>,
           Reading(t, s, p, stk), NameTaken(stk2, stk, name), name \in DOMAIN Weight,
           Append(Last(stk).dir, name) \in DOMAIN t
    PROVE  Visiting(t, s, p, stk2, Append(Last(stk).dir, name))
<1>0. /\ stk \in Seq(Frames) /\ OnTheWay(t, s, p, stk)
      /\ \A q \in DOMAIN t : Listed(s, p, q) \/ InFrames(stk, q)
      /\ stk2 \in Seq(Frames) /\ Len(stk2) = Len(stk)
      /\ \A k \in 1 .. Len(stk) : k # Len(stk) => stk2[k] = stk[k]
      /\ stk2[Len(stk)].dir = Last(stk).dir /\ stk2[Len(stk)].rest = Last(stk).rest \ {name}
  BY DEF Reading, NameTaken
<1> USE <1>0
<1> DEFINE m == Len(stk)
           f == Last(stk)
           h == Append(Last(stk).dir, name)
<1>1. m \in Nat /\ m >= 1 /\ f \in Frames /\ DOMAIN stk = 1 .. m /\ DOMAIN stk2 = 1 .. m
      /\ m \in 1 .. m
  BY FrontOf
<1>2. f = stk[m] /\ f.dir \in Paths /\ f.dir \in Seq(DOMAIN Weight)
  BY <1>1 DEF Last, Frames, Paths
<1>3. Len(f.dir) = m - 1 /\ f.dir \in DOMAIN t /\ Listed(s, p, f.dir)
  BY <1>1, <1>2 DEF OnTheWay
<1>4. DOMAIN t \subseteq Paths
  BY TreeType, TreeIs
<1>5. stk2[m].dir = f.dir /\ stk2[m].rest = f.rest \ {name} /\ h = Append(f.dir, name)
      /\ \A k \in 1 .. m : k # m => stk2[k] = stk[k]
  OBVIOUS
<1> HIDE DEF m, f, h
<1>6. OnTheWay(t, s, p, stk2)
  <2> SUFFICES ASSUME NEW k \in 1 .. m
               PROVE  Len(stk2[k].dir) = k - 1 /\ stk2[k].dir \in DOMAIN t
                      /\ Listed(s, p, stk2[k].dir)
    BY <1>1 DEF OnTheWay
  <2>1. CASE k # m
    <3>1. stk2[k] = stk[k] /\ k \in DOMAIN stk
      BY <1>1, <1>5, <2>1
    <3> QED  BY <3>1 DEF OnTheWay
  <2>2. CASE k = m
    BY <1>3, <1>5, <2>2
  <2> QED  BY <2>1, <2>2
<1>7. Len(h) = m /\ h \in Seq(DOMAIN Weight) /\ h # <<>> /\ Front(h) = f.dir
  <2>1. Len(h) = m /\ h \in Seq(DOMAIN Weight) /\ h # <<>>
    BY <1>1, <1>2, <1>3, <1>5
  <2>2. SubSeq(h, 1, Len(h) - 1) = f.dir
    BY <1>2, <1>5
  <2> QED  BY <2>1, <2>2 DEF Front
<1>8. Front(h) = Last(stk2).dir /\ Len(h) = Len(stk2)
  <2>1. Last(stk2) = stk2[m]
    BY DEF Last, m
  <2> QED  BY <1>5, <1>7, <2>1 DEF m
<1>9. ASSUME NEW q \in DOMAIN t, InFrames(stk, q)
      PROVE  Below(q, h) \/ InFrames(stk2, q)
  <2>1. PICK k \in 1 .. m : Len(q) >= k /\ Upto(q, k - 1) = stk[k].dir /\ q[k] \in stk[k].rest
    BY <1>1, <1>9 DEF InFrames
  <2>2. CASE k # m \/ q[k] # name
    <3>1. stk2[k].dir = stk[k].dir /\ q[k] \in stk2[k].rest
      BY <1>2, <1>5, <2>1, <2>2
    <3> QED  BY <1>1, <2>1, <3>1 DEF InFrames
  <2>3. CASE k = m /\ q[k] = name
    <3>1. q \in Seq(DOMAIN Weight) /\ k \in 1 .. Len(q)
      BY <1>1, <1>4, <2>1 DEF Paths
    <3>2. Upto(q, k) = Append(Upto(q, k - 1), q[k])
      BY <3>1, UptoFront
    <3>3. Upto(q, k) = h
      BY <1>2, <1>5, <2>1, <2>3, <3>2
    <3> QED  BY <1>7, <2>1, <2>3, <3>3 DEF Below
  <2> QED  BY <2>2, <2>3
<1>10. \A q \in DOMAIN t : Listed(s, p, q) \/ Below(q, h) \/ InFrames(stk2, q)
  BY <1>9
<1>11. h \in DOMAIN t
  BY DEF h
<1>12. Visiting(t, s, p, stk2, h)
  BY <1>6, <1>8, <1>10, <1>11 DEF Visiting
<1> QED  BY <1>12 DEF h

(* A frame less.                                                             *)
Popped(stk2, stk) ==
    /\ stk2 \in Seq(Frames) /\ Len(stk2) = Len(stk) - 1
    /\ \A k \in 1 .. Len(stk) - 1 : stk2[k] = stk[k]

(* A directory that has been read is left: nothing was ahead in it.          *)
LEMMA WalkUp ==
    ASSUME NEW t, NEW s, NEW p, NEW stk, NEW stk2, stk # <<>>,
           Reading(t, s, p, stk), Popped(stk2, stk), Last(stk).rest = {}
    PROVE  /\ Reading(t, s, p, stk2)
           /\ stk2 = <<>> => Complete(t, s, p)
<1>0. /\ stk \in Seq(Frames) /\ OnTheWay(t, s, p, stk)
      /\ \A q \in DOMAIN t : Listed(s, p, q) \/ InFrames(stk, q)
      /\ stk2 \in Seq(Frames) /\ Len(stk2) = Len(stk) - 1
      /\ \A k \in 1 .. Len(stk) - 1 : stk2[k] = stk[k]
  BY DEF Reading, Popped
<1> USE <1>0
<1> DEFINE m == Len(stk)
<1>1. m \in Nat /\ m >= 1 /\ DOMAIN stk = 1 .. m /\ DOMAIN stk2 = 1 .. m - 1
  BY FrontOf
<1>2. stk[m].rest = {}
  BY DEF Last
<1> HIDE DEF m
<1>3. \A k \in 1 .. m - 1 : stk2[k] = stk[k] /\ k \in 1 .. m
  BY <1>1 DEF m
<1>4. OnTheWay(t, s, p, stk2)
  BY <1>1, <1>3 DEF OnTheWay
<1>5. ASSUME NEW q \in DOMAIN t, InFrames(stk, q)
      PROVE  InFrames(stk2, q)
  <2>1. PICK k \in 1 .. m : Len(q) >= k /\ Upto(q, k - 1) = stk[k].dir /\ q[k] \in stk[k].rest
    BY <1>1, <1>5 DEF InFrames
  <2>2. k \in 1 .. m - 1
    BY <1>1, <1>2, <2>1
  <2> QED  BY <1>1, <1>3, <2>1, <2>2 DEF InFrames
<1>6. ASSUME stk2 = <<>>, NEW q \in DOMAIN t
      PROVE  Listed(s, p, q)
  <2>1. DOMAIN stk2 = {}
    BY <1>6
  <2>2. ~InFrames(stk2, q)
    BY <2>1 DEF InFrames
  <2> QED  BY <1>5, <2>2
<1>7. Reading(t, s, p, stk2)
  BY <1>4, <1>5 DEF Reading
<1>8. stk2 = <<>> => Complete(t, s, p)
  BY <1>6 DEF Complete
<1> QED  BY <1>7, <1>8

(* The walk begins with everything below the root.                           *)
LEMMA WalkBegins ==
    ASSUME NEW t, NEW s, NEW p, IsTree(t)
    PROVE  Visiting(t, s, p, <<>>, <<>>)
<1>1. <<>> \in Seq(Frames) /\ OnTheWay(t, s, p, <<>>) /\ <<>> \in DOMAIN t
  BY DEF OnTheWay, IsTree, IsDir
<1>2. ASSUME NEW q \in DOMAIN t
      PROVE  Below(q, <<>>)
  <2>1. q \in Seq(DOMAIN Weight) /\ Len(q) \in Nat
    BY TreeType, TreeIs DEF Paths
  <2>2. 0 \in 0 .. Len(q) /\ 0 \in 0 .. 0
    BY <2>1
  <2>3. Upto(q, 0) = <<>>
    BY <2>1, <2>2, UptoUpto
  <2> QED  BY <2>1, <2>3 DEF Below
<1> QED  BY <1>1, <1>2 DEF Visiting

(* A clean step: no call has failed, in this step either.                    *)
LEMMA CleanStep ==
    ASSUME TypeInv, Control, [Next]_vars, Clean'
    PROVE  Clean /\ source' = source /\ faults' = {}
<1> DEFINE Same == source' = source /\ faults \subseteq faults'
<1>1. ASSUME NEW part, main_backup(part)
      PROVE  Same
  BY <1>1 DEF main_backup, history
<1>2. ASSUME NEW part, NEW overwrite, main_restore(part, overwrite)
      PROVE  Same
  BY <1>2 DEF main_restore
<1>3. ASSUME mount
      PROVE  Same
  BY <1>3 DEF mount, history, Fail
<1>4. ASSUME do_wrapped_ftw
      PROVE  Same
  <2>1. source' = source
    BY <1>4, VisitStep
  <2>2. \E F : Fail(F)
    BY <1>4, VisitStep DEF Archived
  <2> QED  BY <2>1, <2>2 DEF Fail
<1>5. ASSUME dread
      PROVE  Same
  BY <1>5 DEF dread, history, Fail
<1>6. ASSUME unwind
      PROVE  Same
  BY <1>6 DEF unwind, history, Fail
<1>7. ASSUME umount
      PROVE  Same
  BY <1>7 DEF umount, history, Fail
<1>8. ASSUME main_end
      PROVE  Same
  BY <1>8 DEF main_end, history, Fail
<1>9. ASSUME restore_end
      PROVE  Same
  BY <1>9 DEF restore_end, history
<1>10. ASSUME skip_entry \/ misread
       PROVE  Same
  <2>1. faults' = faults /\ \E u, next : Going(u, next)
    BY <1>10, SkipGoes, MisreadGoes
  <2> QED  BY <2>1 DEF Going, Restored, history
<1>11. ASSUME restore_directory \/ restore_link \/ restore_file
       PROVE  Same
  <2>1. \E u, F, next : Restoring(u, F, next)
    BY <1>11, DirectoryStep, LinkStep, FileStep
  <2> QED  BY <2>1 DEF Restoring, Going, Restored, history
<1>12. ASSUME UNCHANGED vars
       PROVE  Same
  BY <1>12 DEF vars
<1>13. Same
  BY <1>1, <1>2, <1>3, <1>4, <1>5, <1>6, <1>7, <1>8, <1>9, <1>10, <1>11, <1>12 DEF Next
<1>14. faults' = {} /\ \A p \in Parts : Walkable(source'[p])
  BY DEF Clean
<1> QED  BY <1>13, <1>14 DEF Clean

(* What can be walked: the limits, for each node.                            *)
LEMMA CleanNode ==
    ASSUME TypeInv, Clean, NEW p \in Parts, NEW x \in DOMAIN source[p]
    PROVE  /\ IsTree(source[p]) /\ IsNode(source[p][x]) /\ x \in Paths
           /\ ~Long(x) /\ Length(x) <= PathMax /\ Len(x) < MaxOpen
           /\ Len(source[p][x].data) <= SizeModulus - Block
           /\ Size(source[p][x]) \in Nat /\ Size(source[p][x]) <= SizeModulus - Block
           /\ Size(source[p][x]) < SizeModulus
           /\ Storable(source[p][x]) /\ ~Overruns(x)
<1>1. IsTree(source[p])
  BY DiskType DEF TypeInv
<1>2. IsNode(source[p][x]) /\ x \in Paths
  BY <1>1 DEF IsTree
<1>3. /\ ~Long(x) /\ Length(x) <= PathMax /\ Len(x) < MaxOpen
      /\ Len(source[p][x].data) <= SizeModulus - Block
  BY DEF Clean, Walkable
<1>4. Size(source[p][x]) \in Nat
  BY <1>2, <1>3, EntryOf
<1>5. Size(source[p][x]) <= SizeModulus - Block
  <2>1. CASE source[p][x].mode.type = "REG"
    BY <1>3, <2>1 DEF Size
  <2>2. CASE source[p][x].mode.type # "REG"
    <3>1. Size(source[p][x]) = 0
      BY <2>2 DEF Size
    <3>2. Len(source[p][x].data) \in Nat
      <4>1. source[p][x].data \in Seq(Int)
        BY <1>2, NodeType
      <4> QED  BY <4>1
    <3> QED  BY <1>3, <3>1, <3>2, Bounds
  <2> QED  BY <2>1, <2>2
<1>6. Size(source[p][x]) < SizeModulus
  BY <1>4, <1>5, Bounds
<1>7. Storable(source[p][x])
  BY DEF Clean, Walkable, Storable
<1>8. ~Overruns(x)
  BY <1>3 DEF Overruns
<1> QED  BY <1>1, <1>2, <1>3, <1>4, <1>5, <1>6, <1>7, <1>8

(* A clean visit writes the whole entry of the node.                         *)
LEMMA VisitWrites ==
    ASSUME TypeInv, Control, Clean, pc = "visit", ~Full,
           NEW z \in SizeOf(here, Visited), NEW n \in 0 .. Needed,
           NEW lost \in 0 .. Needed + 1, Archived({}, z, n, lost)
    PROVE  \E e \in Seq(BlockSet) :
              /\ tar' = tar \o e /\ (short' <=> short)
              /\ NodeEntry(e, mounted, here, source[mounted][here])
<1> DEFINE new == tar_c_file(mounted, here, Visited, z, {}, n)
           e == SubSeq(new, 1, Len(new) - lost)
           node == Visited
<1>1. /\ mounted \in Parts /\ here \in Paths /\ IsNode(node) /\ Needed \in Nat
      /\ n \in Nat /\ (node.mode.type # "REG" => n = 0) /\ lost \in Nat
      /\ here \in DOMAIN source[mounted] /\ disk = source
  BY VisitState DEF Needed
<1>2. node = source[mounted][here]
  BY <1>1 DEF Visited
<1>3. Size(node) < SizeModulus /\ Size(node) \in Nat /\ z = Size(node)
  <2>1. Size(node) < SizeModulus /\ Size(node) \in Nat /\ ~Overruns(here)
    BY <1>1, <1>2, CleanNode
  <2>2. z = Size(node)
    BY <1>1, <2>1, SizesOf DEF Size
  <2> QED  BY <2>1, <2>2
<1>4. Needed = Blocks(Size(node))
  <2>1. CASE node.mode.type = "REG"
    BY <2>1 DEF Needed, Size
  <2>2. CASE node.mode.type # "REG"
    BY <2>2, BlocksOf DEF Needed, Size
  <2> QED  BY <2>1, <2>2
<1>5. n = Needed /\ lost = 0 /\ tar' = tar \o e /\ lost <= Len(new)
      /\ short' = (short \/ Len(e) \in 1 .. Needed)
  <2>1. /\ n # Needed => "open" \in {} \/ "read" \in {} \/ Full
        /\ lost > 0 => "fwrite" \in {}
        /\ tar' = tar \o e /\ lost <= Len(new)
        /\ short' = (short \/ Len(e) \in 1 .. Needed)
    BY DEF Archived
  <2>2. n = Needed
    BY <2>1
  <2>3. ~(lost > 0)
    BY <2>1
  <2>4. lost = 0
    BY <1>1, <2>3
  <2> QED  BY <2>1, <2>2, <2>4
<1>6. /\ new \in Seq(BlockSet)
      /\ Len(new) = 1 + n
      /\ new[1] = Header(mounted, here, node, Size(node), Target(node))
      /\ \A k \in 2 .. 1 + n : new[k] = DataBlock(node.data, k - 1)
  <2>1. LET link == IF node.mode.type = "LNK" /\ "readlink" \notin {} THEN Cut(node.data) ELSE <<>>
        IN /\ new \in Seq(BlockSet)
           /\ z < SizeModulus =>
                /\ Len(new) = 1 + n
                /\ new[1] = Header(mounted, here, node, z, link)
                /\ \A k \in 2 .. 1 + n : new[k] = DataBlock(node.data, k - 1)
    BY <1>1, TarFileOf
  <2>2. "readlink" \notin {}
    OBVIOUS
  <2> HIDE DEF new, node
  <2> QED  BY <1>3, <2>1, <2>2, Zenon DEF Size, Target
<1>7. /\ e \in Seq(BlockSet) /\ Len(e) = Len(new) - lost
      /\ \A k \in 1 .. Len(e) : e[k] = new[k]
  <2>1. lost \in Nat /\ lost <= Len(new)
    BY <1>1, <1>5
  <2> QED  BY <2>1, WrittenBlocks, Zenon
<1> HIDE DEF new, e, node
<1>8. Len(e) = 1 + Needed
  BY <1>1, <1>5, <1>6, <1>7
<1>9. NodeEntry(e, mounted, here, node)
  <2>1. e[1] = HeaderFor(mounted, here, node)
    <3>1. 1 \in 1 .. Len(e)
      BY <1>1, <1>8
    <3> QED  BY <1>6, <1>7, <3>1 DEF HeaderFor
  <2>2. ASSUME NEW k \in 1 .. Needed
        PROVE  e[1 + k] = DataBlock(node.data, k)
    <3>1. 1 + k \in 1 .. Len(e) /\ 1 + k \in 2 .. 1 + n /\ (1 + k) - 1 = k
      BY <1>1, <1>5, <1>8
    <3> QED  BY <1>6, <1>7, <3>1
  <2> QED  BY <1>4, <1>8, <2>1, <2>2 DEF NodeEntry
<1>10. short' <=> short
  <2>1. Len(e) \notin 1 .. Needed
    BY <1>1, <1>8
  <2> QED  BY <1>5, <2>1
<1> QED  BY <1>2, <1>5, <1>7, <1>9, <1>10

(* A clean visit: the node is archived, a directory is opened.               *)
LEMMA WalkedVisit ==
    ASSUME TypeInv, Control, Clean, WalkedWell, do_wrapped_ftw, faults' = {}, source' = source
    PROVE  WalkedWell'
<1> DEFINE t == source[mounted]
<1>1. pc = "visit" /\ UNCHANGED <<job, disk, mounted, todo, here, at, restores, source, before>>
  BY VisitStep
<1>2. /\ mounted \in Parts /\ job.mode = "backup" /\ disk = source
      /\ IsTree(t) /\ here \in DOMAIN t /\ here \in Paths /\ tar \in Seq(BlockSet)
      /\ Visited = t[here]
  BY <1>1, VisitState DEF Visited
<1>3. /\ open = Len(stack) /\ stack \in Seq(Frames) /\ HasFile
  BY <1>1 DEF Control, Phases, Descriptors, Clean, TypeInv, HasFile
<1>4. /\ ~short /\ Faithful(source, tar) /\ ParentsFirst(tar) /\ NoZeros(tar)
      /\ Visiting(t, tar, mounted, stack, here)
      /\ \A n \in 1 .. Len(tar) : tar[n].kind = "header" =>
            Complete(source[tar[n].part], tar, tar[n].part) \/ tar[n].part = mounted
  BY <1>1, <1>2, <1>3 DEF WalkedWell, Walking
<1>5. IsNode(t[here]) /\ ~Long(here) /\ Len(here) < MaxOpen
  BY <1>2, CleanNode
<1>6. ~Full
  <2>1. Len(here) \in Nat /\ Len(here) = Len(stack)
    BY <1>2, <1>4 DEF Visiting, Paths
  <2> QED  BY <1>3, <1>5, <2>1, Bounds DEF Full
<1>7. /\ \E z \in SizeOf(here, Visited), n \in 0 .. Needed, lost \in 0 .. Needed + 1 :
            Archived({}, z, n, lost)
      /\ Descends({})
  <2>1. ~Fail({"getstat"})
    BY DEF Fail
  <2>2. ASSUME NEW F, Fail(F)
        PROVE  F = {}
    BY <2>2 DEF Fail
  <2>3. ASSUME NEW F, NEW z, NEW n, NEW lost, Archived(F, z, n, lost)
        PROVE  F = {}
    BY <2>2, <2>3 DEF Archived
  <2>4. PICK F : /\ \E z \in SizeOf(here, Visited), n \in 0 .. Needed, lost \in 0 .. Needed + 1 :
                       Archived(F, z, n, lost)
                 /\ Descends(F)
    BY <2>1, VisitStep
  <2> QED  BY <2>3, <2>4
<1>8. PICK e \in Seq(BlockSet) : /\ tar' = tar \o e /\ (short' <=> short)
                                 /\ NodeEntry(e, mounted, here, t[here])
  BY <1>1, <1>6, <1>7, VisitWrites
<1>9. here # <<>> => Listed(tar, mounted, Front(here))
  <2> SUFFICES ASSUME here # <<>> PROVE Listed(tar, mounted, Front(here))
    OBVIOUS
  <2>1. Len(here) = Len(stack) /\ Len(here) \in Nat /\ Len(here) # 0
    BY <1>2, <1>4, EmptySeq DEF Visiting, Paths
  <2>2. stack # <<>> /\ Len(stack) \in DOMAIN stack
    BY <1>3, <2>1
  <2>3. Front(here) = stack[Len(stack)].dir
    BY <1>4, <2>2 DEF Visiting, Last
  <2> QED  BY <1>4, <2>2, <2>3 DEF Visiting, OnTheWay
<1>10. Added(source, tar, tar', mounted, here)
  <2>1. Addable(source, tar, e, mounted, here)
    BY <1>2, <1>4, <1>5, <1>8, <1>9 DEF Addable
  <2>2. Added(source, tar, tar \o e, mounted, here)
    BY <2>1, EntryAdded
  <2> QED  BY <1>8, <2>2
<1>11. /\ Faithful(source, tar') /\ ParentsFirst(tar') /\ NoZeros(tar') /\ Ended(tar')
       /\ Listed(tar', mounted, here)
       /\ \A r, y : Listed(tar, r, y) => Listed(tar', r, y)
       /\ \A n \in 1 .. Len(tar') : tar'[n].kind = "header" =>
             (n \in 1 .. Len(tar) /\ tar'[n] = tar[n]) \/ tar'[n].part = mounted
  BY <1>10 DEF Added
<1> HIDE DEF t
<1>12. \A n \in 1 .. Len(tar') : tar'[n].kind = "header" =>
            Complete(source[tar'[n].part], tar', tar'[n].part) \/ tar'[n].part = mounted
  BY <1>4, <1>11 DEF Complete
<1>13. pc' = "dread" /\ Reading(t, tar', mounted, stack')
  <2>1. /\ t[here].mode.type # "DIR" => Reading(t, tar', mounted, stack)
        /\ \A stk2 : Pushed(stk2, stack, here, Names(t, here)) => Reading(t, tar', mounted, stk2)
    BY <1>2, <1>4, <1>11, WalkDown DEF t
  <2>2. CASE t[here].mode.type # "DIR" /\ pc' = "dread" /\ UNCHANGED stack
    BY <2>1, <2>2
  <2>3. CASE /\ pc' = "dread"
             /\ stack' = Append(stack, [dir |-> here, rest |-> Names(t, here)])
    <3> DEFINE f == [dir |-> here, rest |-> Names(t, here)]
    <3>1. f.dir = here /\ f.rest = Names(t, here)
      OBVIOUS
    <3>2. f \in Frames
      <4>1. Names(t, here) \subseteq DOMAIN Weight
        BY <1>2, TreeType, NamesOf DEF t
      <4> QED  BY <1>2, <4>1 DEF Frames
    <3>3. stack' = Append(stack, f)
      BY <2>3
    <3> HIDE DEF f
    <3>4. /\ Append(stack, f) \in Seq(Frames) /\ Len(Append(stack, f)) = Len(stack) + 1
          /\ \A k \in 1 .. Len(stack) : Append(stack, f)[k] = stack[k]
          /\ Append(stack, f)[Len(stack) + 1] = f
      BY <1>3, <3>2
    <3>5. Pushed(stack', stack, here, Names(t, here))
      BY <3>1, <3>3, <3>4 DEF Pushed
    <3> QED  BY <2>1, <2>3, <3>5
  <2>4. \/ t[here].mode.type # "DIR" /\ pc' = "dread" /\ UNCHANGED stack
        \/ /\ pc' = "dread"
           /\ stack' = Append(stack, [dir |-> here, rest |-> Names(t, here)])
    <3>1. "dopen" \notin {}
      OBVIOUS
    <3> QED  BY <1>2, <1>6, <1>7, <3>1 DEF Descends, t
  <2> QED  BY <2>2, <2>3, <2>4
<1>14. ~short' /\ job'.mode = "backup" /\ mounted' = mounted
  BY <1>1, <1>2, <1>4, <1>8
<1>15. /\ pc' # "idle" /\ pc' # "unwind" /\ pc' # "part" /\ pc' # "visit" /\ job'.mode # "restore"
       /\ pc' \notin {"idle", "part"}
  BY <1>13, <1>14
<1> QED
  BY <1>11, <1>12, <1>13, <1>14, <1>15 DEF WalkedWell, t, Walking

(* One clean turn of the loop over a directory.                              *)
LEMMA WalkedDread ==
    ASSUME TypeInv, Control, Clean, WalkedWell, dread, faults' = {}, source' = source
    PROVE  WalkedWell'
<1> DEFINE t == source[mounted]
<1>1. /\ pc = "dread" /\ stack # <<>>
      /\ UNCHANGED <<job, disk, mounted, todo, tar, short, at, restores, source, before>>
  BY DEF dread, archive, history
<1>2. /\ job.mode = "backup" /\ disk = source /\ stack \in Seq(Frames) /\ mounted \in Parts
      /\ tar \in Seq(BlockSet) /\ HasFile
      /\ \A k \in DOMAIN stack : stack[k].rest \subseteq Names(t, stack[k].dir)
  BY <1>1, Mounted DEF Control, Phases, Walking, TypeInv, HasFile
<1>3. /\ ~short /\ Faithful(source, tar) /\ ParentsFirst(tar) /\ Ended(tar) /\ NoZeros(tar)
      /\ Reading(t, tar, mounted, stack)
      /\ \A n \in 1 .. Len(tar) : tar[n].kind = "header" =>
            Complete(source[tar[n].part], tar, tar[n].part) \/ tar[n].part = mounted
  BY <1>1, <1>2 DEF WalkedWell, Walking
<1>4. IsTree(t)
  BY <1>2, DiskType DEF TypeInv
<1>5. Last(stack) \in Frames /\ Len(stack) \in Nat /\ Len(stack) >= 1
      /\ Last(stack).rest \subseteq Names(t, Last(stack).dir)
  <2>1. Last(stack) \in Frames /\ Len(stack) \in Nat /\ Len(stack) >= 1
    BY <1>1, <1>2, FrontOf
  <2>2. Len(stack) \in DOMAIN stack
    BY <1>2, <2>1
  <2> QED  BY <1>2, <2>1, <2>2 DEF Last
<1>6. \/ /\ Last(stack).rest = {} /\ Closed({})
         /\ pc' = IF Len(stack) = 1 THEN "umount" ELSE "dread"
      \/ \E name \in Last(stack).rest :
            IF Length(Append(Last(stack).dir, name)) > PathMax
            THEN TRUE
            ELSE /\ here' = Append(Last(stack).dir, name)
                 /\ stack' = [stack EXCEPT ![Len(stack)].rest = @ \ {name}]
                 /\ pc' = "visit"
  <2>1. PICK F :
          /\ Fail(F)
          /\ \/ /\ Last(stack).rest = {} \/ "dread" \in F
                /\ Closed(F)
                /\ pc' = IF Len(stack) = 1 THEN "umount" ELSE "dread"
             \/ \E name \in Last(stack).rest :
                      IF Length(Append(Last(stack).dir, name)) > PathMax
                      THEN TRUE
                      ELSE /\ here' = Append(Last(stack).dir, name)
                           /\ stack' = [stack EXCEPT ![Len(stack)].rest = @ \ {name}]
                           /\ pc' = "visit"
    BY DEF dread
  <2>2. F = {}
    BY <2>1 DEF Fail
  <2> QED  BY <2>1, <2>2
<1>7. ASSUME Last(stack).rest = {}, Closed({}), pc' = IF Len(stack) = 1 THEN "umount" ELSE "dread"
      PROVE  WalkedWell'
  <2>1. /\ stack' \in Seq(Frames) /\ Len(stack') = Len(stack) - 1
        /\ \A k \in 1 .. Len(stack) - 1 : stack'[k] = stack[k]
    BY <1>1, <1>7, ClosedFrame
  <2>2. Popped(stack', stack)
    BY <2>1 DEF Popped
  <2> HIDE DEF t
  <2>3. Reading(t, tar, mounted, stack') /\ (stack' = <<>> => Complete(t, tar, mounted))
    BY <1>1, <1>3, <1>7, <2>2, WalkUp
  <2>4. pc' = "umount" => Complete(t, tar, mounted)
    <3> SUFFICES ASSUME pc' = "umount" PROVE Complete(t, tar, mounted)
      OBVIOUS
    <3>1. Len(stack) = 1
      BY <1>7
    <3>2. stack' = <<>>
      BY <2>1, <3>1, EmptySeq
    <3> QED  BY <2>3, <3>2
  <2>5. pc' \in {"umount", "dread"}
    BY <1>7
  <2>6. /\ tar' = tar /\ mounted' = mounted /\ ~short' /\ job'.mode = "backup"
        /\ \A n \in 1 .. Len(tar) : tar[n].kind = "header" =>
             \/ Complete(source[tar[n].part], tar, tar[n].part)
             \/ pc' = "dread" /\ tar[n].part = mounted
    BY <1>1, <1>2, <1>3, <2>4, <2>5 DEF t
  <2>7. /\ pc' # "idle" /\ pc' # "unwind" /\ pc' # "part" /\ pc' # "visit" /\ job'.mode # "restore"
        /\ pc' \notin {"idle", "part"}
    BY <2>5, <2>6
  <2> QED  BY <1>3, <2>3, <2>5, <2>6, <2>7 DEF WalkedWell, Walking, t
<1>8. ASSUME NEW name \in Last(stack).rest,
             IF Length(Append(Last(stack).dir, name)) > PathMax
             THEN TRUE
             ELSE /\ here' = Append(Last(stack).dir, name)
                  /\ stack' = [stack EXCEPT ![Len(stack)].rest = @ \ {name}]
                  /\ pc' = "visit"
      PROVE  WalkedWell'
  <2> DEFINE h == Append(Last(stack).dir, name)
             f == Last(stack)
             g == [dir |-> f.dir, rest |-> f.rest \ {name}]
  <2>1. f.dir \in Paths /\ f.rest \subseteq DOMAIN Weight
    BY <1>5 DEF Frames
  <2>2. h \in DOMAIN t /\ h \in Paths /\ name \in DOMAIN Weight
    BY <1>4, <1>5, <1>8, <2>1, TreeType, NamesOf
  <2>3. Length(h) <= PathMax /\ Length(h) \in Nat
    BY <1>2, <2>2, CleanNode, LengthOf
  <2>4. ~(Length(h) > PathMax)
    <3> HIDE DEF h
    <3> QED  BY <2>3, Bounds
  <2>5. here' = h /\ stack' = [stack EXCEPT ![Len(stack)].rest = @ \ {name}] /\ pc' = "visit"
    BY <1>8, <2>4
  <2>6. g \in Frames /\ g.dir = f.dir /\ g.rest = f.rest \ {name}
    BY <2>1 DEF Frames
  <2>7. stack' = [stack EXCEPT ![Len(stack)] = g]
    <3>1. f = [dir |-> f.dir, rest |-> f.rest]
      BY <1>5 DEF Frames
    <3>2. [f EXCEPT !.rest = f.rest \ {name}] = g
      <4> HIDE DEF f
      <4> QED  BY <3>1
    <3>3. stack' = [stack EXCEPT ![Len(stack)] = [f EXCEPT !.rest = f.rest \ {name}]]
      BY <1>2, <1>5, <2>5 DEF Last
    <3> HIDE DEF f, g
    <3> QED  BY <3>2, <3>3
  <2> HIDE DEF g
  <2>8. /\ stack' \in Seq(Frames) /\ Len(stack') = Len(stack)
        /\ \A k \in 1 .. Len(stack) : stack'[k] = IF k = Len(stack) THEN g ELSE stack[k]
    BY <1>2, <1>5, <2>6, <2>7
  <2>9. NameTaken(stack', stack, name)
    <3>1. /\ \A k \in 1 .. Len(stack) : k # Len(stack) => stack'[k] = stack[k]
          /\ stack'[Len(stack)] = g
      BY <1>5, <2>8
    <3> QED  BY <2>6, <2>8, <3>1 DEF NameTaken
  <2>10. Visiting(t, tar, mounted, stack', h)
    <3> HIDE DEF t
    <3> QED  BY <1>1, <1>3, <1>4, <2>2, <2>9, WalkOn
  <2> HIDE DEF h, f, t
  <2>11. tar' = tar /\ mounted' = mounted /\ ~short' /\ job'.mode = "backup" /\ here' = h
    BY <1>1, <1>2, <1>3, <2>5
  <2> QED  BY <1>3, <2>5, <2>10, <2>11 DEF WalkedWell, Walking, t
<1> QED  BY <1>6, <1>7, <1>8

(* Steps that leave the archive alone, outside of a walk.                    *)
LEMMA WalkedSame ==
    ASSUME WalkedWell, HasFile, ~Walking, UNCHANGED <<tar, short, source>>,
           pc' \in {"part", "header", "umount"},
           pc' = "part" => mounted' = None,
           job'.mode = "backup" => NoZeros(tar),
           job'.mode = "restore" => tar # NoFile /\ Len(tar) > 2
    PROVE  WalkedWell'
<1>1. /\ ~short /\ Faithful(source, tar) /\ ParentsFirst(tar) /\ Ended(tar)
      /\ \A n \in 1 .. Len(tar) : tar[n].kind = "header" =>
            Complete(source[tar[n].part], tar, tar[n].part)
  BY DEF WalkedWell
<1>2. pc' # "idle" /\ pc' # "unwind" /\ pc' # "visit" /\ pc' # "dread"
      /\ (pc' \in {"idle", "part"} => mounted' = None)
  OBVIOUS
<1> QED  BY <1>1, <1>2 DEF WalkedWell

(* Nothing goes wrong with a backup or its archive in a clean step.          *)
LEMMA WalkedStep == TypeInv /\ Control /\ Walked /\ [Next]_vars => Walked'
<1> SUFFICES ASSUME TypeInv, Control, Walked, [Next]_vars, Clean'
             PROVE  WalkedWell'
  BY DEF Walked
<1>1. Clean /\ WalkedWell /\ source' = source /\ faults' = {}
  BY CleanStep DEF Walked
<1>2. ASSUME NEW part, main_backup(part)
      PROVE  WalkedWell'
  <2>1. /\ pc = "idle" /\ pc' = "part" /\ tar' = <<>> /\ job'.mode = "backup"
        /\ mounted' = mounted /\ short' = short
    BY <1>2 DEF main_backup
  <2>2. mounted = None /\ ~short
    BY <1>1, <2>1 DEF WalkedWell
  <2>3. /\ Faithful(source, <<>>) /\ ParentsFirst(<<>>) /\ Ended(<<>>) /\ NoZeros(<<>>)
        /\ \A n \in 1 .. Len(<<>>) : FALSE
    BY DEF Faithful, ParentsFirst, Ended, NoZeros
  <2> QED  BY <1>1, <2>1, <2>2, <2>3 DEF WalkedWell
<1>3. ASSUME NEW part, NEW overwrite, main_restore(part, overwrite)
      PROVE  WalkedWell'
  <2>1. /\ pc = "idle" /\ tar # NoFile /\ pc' = "part" /\ job'.mode = "restore"
        /\ mounted' = None /\ tar' = tar /\ short' = short
    BY <1>3 DEF main_restore, archive
  <2>2. Len(tar) > 2 /\ HasFile /\ ~Walking
    BY <1>1, <2>1 DEF WalkedWell, HasFile, Walking
  <2> QED  BY <1>1, <2>1, <2>2, WalkedSame
<1>4. ASSUME mount
      PROVE  WalkedWell'
  <2>1. /\ pc = "part" /\ todo # <<>> /\ here' = <<>> /\ stack' = stack
        /\ UNCHANGED <<tar, short, job>>
    BY <1>4 DEF mount, archive
  <2>2. HasFile /\ ~Walking /\ stack = <<>> /\ mounted = None /\ job.mode # "none"
    BY <1>1, <2>1 DEF HasFile, Walking, Control, Phases, WalkedWell
  <2>3. /\ job.mode = "backup" => NoZeros(tar)
        /\ job.mode = "restore" => tar # NoFile /\ Len(tar) > 2
    BY <1>1, <2>1 DEF WalkedWell
  <2>4. \/ pc' = "part" /\ mounted' = mounted
        \/ mounted' = Head(todo) /\ pc' = IF job.mode = "backup" THEN "visit" ELSE "header"
    BY <1>4, <2>1 DEF mount
  <2>5. CASE pc' = "part" /\ mounted' = mounted
    BY <1>1, <2>1, <2>2, <2>3, <2>5, WalkedSame
  <2>6. CASE pc' = "header"
    BY <1>1, <2>1, <2>2, <2>3, <2>6, WalkedSame
  <2>7. CASE pc' = "visit" /\ mounted' = Head(todo) /\ job.mode = "backup"
    <3>1. Head(todo) \in Parts
      BY <2>1 DEF TypeInv
    <3>2. IsTree(source[Head(todo)])
      BY <3>1, DiskType DEF TypeInv
    <3>3. Visiting(source[Head(todo)], tar, Head(todo), <<>>, <<>>)
      BY <3>2, WalkBegins
    <3>4. /\ ~short /\ Faithful(source, tar) /\ ParentsFirst(tar) /\ Ended(tar)
          /\ \A n \in 1 .. Len(tar) : tar[n].kind = "header" =>
                Complete(source[tar[n].part], tar, tar[n].part)
      BY <1>1, <2>2 DEF WalkedWell
    <3> QED  BY <1>1, <2>1, <2>2, <2>3, <2>7, <3>3, <3>4 DEF WalkedWell
  <2> QED  BY <2>4, <2>5, <2>6, <2>7
<1>5. ASSUME umount
      PROVE  WalkedWell'
  <2>1. /\ pc = "umount" /\ pc' = "part" /\ UNCHANGED <<job, tar, short>> /\ open = 0
        /\ HasFile /\ ~Walking
    <3>1. /\ pc = "umount" /\ pc' = "part" /\ UNCHANGED <<job, tar, short>> /\ stack = <<>>
          /\ HasFile /\ ~Walking
      BY <1>5 DEF umount, archive, Control, Phases, Walking, HasFile
    <3>2. open = Len(stack) /\ Len(stack) = 0
      BY <1>1, <3>1 DEF Control, Descriptors, Clean
    <3> QED  BY <3>1, <3>2
  <2>2. PICK F : mounted' = (IF F # {} \/ open > 0 THEN mounted ELSE None) /\ Fail(F)
    BY <1>5 DEF umount
  <2>3. F = {}
    BY <1>1, <2>2 DEF Fail
  <2>4. mounted' = None
    BY <2>1, <2>2, <2>3
  <2>5. /\ job.mode = "backup" => NoZeros(tar)
        /\ job.mode = "restore" => tar # NoFile /\ Len(tar) > 2
    BY <1>1, <2>1 DEF WalkedWell
  <2> QED  BY <1>1, <2>1, <2>4, <2>5, WalkedSame
<1>6. ASSUME unwind
      PROVE  WalkedWell'
  BY <1>1, <1>6 DEF unwind, WalkedWell
<1>7. ASSUME main_end
      PROVE  WalkedWell'
  <2>1. /\ pc = "part" /\ pc' = "idle" /\ UNCHANGED <<job, mounted, short>>
        /\ tar \in Seq(BlockSet) /\ HasFile /\ ~Walking
        /\ job.mode \in {"none", "backup", "restore"} /\ job.mode # "none"
    BY <1>7 DEF main_end, TypeInv, Control, Phases, HasFile, Walking, Jobs
  <2>2. PICK F :
          LET end == IF job.mode = "backup" /\ "fwrite" \notin F
                     THEN tar \o <<Zero, Zero>> ELSE tar
          IN  /\ Fail(F)
              /\ tar' = IF Len(end) <= 2 THEN NoFile ELSE end
    BY <1>7 DEF main_end
  <2>3. "fwrite" \notin F
    BY <1>1, <2>2 DEF Fail
  <2>4. /\ ~short /\ Faithful(source, tar) /\ ParentsFirst(tar) /\ Ended(tar) /\ mounted = None
        /\ \A n \in 1 .. Len(tar) : tar[n].kind = "header" =>
              Complete(source[tar[n].part], tar, tar[n].part)
        /\ job.mode = "backup" => NoZeros(tar)
        /\ job.mode = "restore" => tar # NoFile /\ Len(tar) > 2
    BY <1>1, <2>1 DEF WalkedWell
  <2>5. pc' # "unwind" /\ pc' # "visit" /\ pc' # "dread"
    BY <2>1
  <2>6. CASE tar' = NoFile
    <3>1. job.mode # "restore"
      <4> SUFFICES ASSUME job.mode = "restore" PROVE FALSE
        OBVIOUS
      <4>1. tar' = IF Len(tar) <= 2 THEN NoFile ELSE tar
        BY <2>2
      <4>2. Len(tar) \in Nat
        BY <2>1
      <4> QED  BY <2>4, <2>6, <4>1, <4>2
    <3>2. ~HasFile'
      BY <2>1, <2>6 DEF HasFile
    <3> QED  BY <1>1, <2>1, <2>4, <2>5, <2>6, <3>1, <3>2 DEF WalkedWell
  <2>7. CASE job.mode = "restore" /\ tar' # NoFile
    <3>1. tar' = tar
      BY <2>2, <2>7
    <3>2. pc' # "idle" \/ Len(tar) > 2
      BY <2>4, <2>7
    <3> QED  BY <1>1, <2>1, <2>4, <2>5, <2>7, <3>1, <3>2 DEF WalkedWell
  <2>8. CASE job.mode = "backup" /\ tar' # NoFile
    <3>1. tar' = tar \o <<Zero, Zero>> /\ ~(Len(tar') <= 2)
      BY <2>2, <2>3, <2>8
    <3>2. ASSUME NEW c, c = tar \o <<Zero, Zero>>
          PROVE  /\ Faithful(source, c) /\ ParentsFirst(c) /\ Ended(c) /\ Len(c) \in Nat
                 /\ \A n \in 1 .. Len(c) : c[n].kind = "header" =>
                       Complete(source[c[n].part], c, c[n].part)
      <4>1. /\ c \in Seq(BlockSet)
            /\ Faithful(source, c) /\ ParentsFirst(c) /\ Ended(c)
            /\ \A r, y : Listed(tar, r, y) => Listed(c, r, y)
            /\ \A n \in 1 .. Len(c) : c[n].kind = "header" => n \in 1 .. Len(tar) /\ c[n] = tar[n]
        <5>1. tar \in Seq(BlockSet) /\ Faithful(source, tar) /\ ParentsFirst(tar) /\ NoZeros(tar)
          BY <2>1, <2>4, <2>8
        <5>2. EndOf(source, tar, c)
          BY <3>2, <5>1, ZerosAdded
        <5> QED  BY <5>2 DEF EndOf
      <4> QED  BY <2>4, <4>1 DEF Complete
    <3>3. /\ Faithful(source, tar') /\ ParentsFirst(tar') /\ Ended(tar') /\ Len(tar') \in Nat
          /\ \A n \in 1 .. Len(tar') : tar'[n].kind = "header" =>
                Complete(source[tar'[n].part], tar', tar'[n].part)
      BY <3>1, <3>2
    <3>4. Len(tar') > 2
      BY <3>1, <3>3
    <3>5. job'.mode # "restore"
      BY <2>1, <2>8
    <3> QED  BY <1>1, <2>1, <2>4, <2>5, <3>3, <3>4, <3>5 DEF WalkedWell
  <2> QED  BY <2>1, <2>6, <2>7, <2>8
<1>8. ASSUME skip_entry \/ restore_end \/ misread
               \/ restore_directory \/ restore_link \/ restore_file
      PROVE  WalkedWell'
  <2>1. pc = "header" /\ UNCHANGED <<job, tar, short>> /\ pc' \in {"header", "umount"}
    BY <1>8 DEF skip_entry, restore_end, misread, restore_directory, restore_link, restore_file,
                AtHeader, Restored, archive
  <2>2. HasFile /\ ~Walking
    BY <2>1 DEF HasFile, Walking
  <2>3. job.mode = "restore" /\ tar # NoFile /\ Len(tar) > 2
    BY <1>1, <2>1 DEF WalkedWell, Control, Phases
  <2> QED  BY <1>1, <2>1, <2>2, <2>3, WalkedSame
<1>9. CASE UNCHANGED vars
  BY <1>1, <1>9 DEF vars, WalkedWell, HasFile, Walking
<1> QED
  BY <1>1, <1>2, <1>3, <1>4, <1>5, <1>6, <1>7, <1>8, <1>9, WalkedVisit, WalkedDread DEF Next
-----------------------------------------------------------------------------
(* A number of blocks holds more than a smaller one.                         *)
LEMMA Multiples ==
    ASSUME NEW a \in Nat, NEW b \in Nat, a <= b
    PROVE  /\ a * Block \in Nat /\ b * Block \in Nat /\ a * Block <= b * Block
           /\ (a + 1) * Block = a * Block + Block
<1>1. Block \in Nat
  BY Bounds
<1>2. \A x \in Nat, y \in Nat : x * y \in Nat
  OBVIOUS
<1>3. b - a \in Nat /\ b * Block = a * Block + (b - a) * Block
  BY <1>1
<1>4. (b - a) * Block \in Nat /\ a * Block \in Nat /\ b * Block \in Nat
  BY <1>1, <1>2, <1>3
<1>5. (a + 1) * Block = a * Block + Block
  BY <1>1
<1>6. \A x \in Nat, y \in Nat, z \in Nat : x = y + z => y <= x
  OBVIOUS
<1> QED  BY <1>3, <1>4, <1>5, <1>6

(* A sequence a that is the beginning of data.                               *)
Begins(a, data) == Len(a) <= Len(data) /\ \A j \in 1 .. Len(a) : a[j] = data[j]
(* b goes on where o bytes of the data are read.                             *)
GoesAfter(b, data, o) == o + Len(b) <= Len(data) /\ \A j \in 1 .. Len(b) : b[j] = data[o + j]

(* What goes on makes a longer beginning.                                    *)
LEMMA BeginsLonger ==
    ASSUME NEW data \in Seq(Int), NEW a \in Seq(Int), NEW b \in Seq(Int),
           Begins(a, data), GoesAfter(b, data, Len(a))
    PROVE  Begins(a \o b, data) /\ Len(a \o b) = Len(a) + Len(b)
<1>1. Len(a \o b) = Len(a) + Len(b) /\ Len(a) \in Nat /\ Len(b) \in Nat
  OBVIOUS
<1>2. ASSUME NEW j \in 1 .. Len(a) + Len(b)
      PROVE  (a \o b)[j] = data[j]
  <2>1. CASE j <= Len(a)
    <3>1. (a \o b)[j] = a[j] /\ j \in 1 .. Len(a)
      BY <2>1
    <3> QED  BY <3>1 DEF Begins
  <2>2. CASE ~(j <= Len(a))
    <3> DEFINE m == j - Len(a)
    <3>1. m \in 1 .. Len(b) /\ Len(a) + m = j
      BY <1>1, <2>2
    <3>2. (a \o b)[j] = b[m]
      BY <1>1, <2>2
    <3> HIDE DEF m
    <3> QED  BY <3>1, <3>2 DEF GoesAfter
  <2> QED  BY <2>1, <2>2
<1> QED  BY <1>1, <1>2 DEF Begins, GoesAfter

(* A beginning of full length is the data.                                   *)
LEMMA BeginsAll ==
    ASSUME NEW data \in Seq(Int), NEW a \in Seq(Int), Begins(a, data), Len(a) = Len(data)
    PROVE  a = data
  BY SeqEqual DEF Begins

(* s is the data in N chunks of a block each, but for the last.              *)
ChunkLen(k, size) == IF k * Block <= size THEN Block ELSE size - (k - 1) * Block
Chunked(s, data, N) ==
    /\ s \in [1 .. N -> Seq(Int)] /\ N = Blocks(Len(data))
    /\ \A k \in 1 .. N :
          Len(s[k]) = ChunkLen(k, Len(data)) /\ GoesAfter(s[k], data, (k - 1) * Block)

(* Where a chunk begins and how long it is.                                  *)
LEMMA ChunkPlace ==
    ASSUME NEW size \in Nat, NEW N, N = Blocks(size), NEW k \in 1 .. N
    PROVE  /\ (k - 1) * Block \in Nat /\ ChunkLen(k, size) \in Nat \ {0}
           /\ k < N => (k - 1) * Block + ChunkLen(k, size) = ((k + 1) - 1) * Block
           /\ k = N => (k - 1) * Block + ChunkLen(k, size) = size
           /\ (k - 1) * Block + ChunkLen(k, size) <= size
           /\ ChunkLen(k, size) <= Block
<1>1. N \in Nat /\ size <= N * Block /\ (N > 0 => (N - 1) * Block < size)
  BY BlocksCover
<1>2. Block \in Nat \ {0}
  BY Bounds
<1>3. /\ k - 1 \in Nat /\ k \in Nat /\ N - 1 \in Nat /\ N > 0
      /\ (k - 1) + 1 = k /\ (k + 1) - 1 = k /\ k - 1 <= N - 1
  BY <1>1
<1>4. (k - 1) * Block \in Nat /\ k * Block = (k - 1) * Block + Block
  BY <1>3, Multiples
<1>5. (k - 1) * Block <= (N - 1) * Block /\ (N - 1) * Block \in Nat
  BY <1>3, Multiples
<1>6. k < N => k * Block <= (N - 1) * Block
  <2>1. k < N => k <= N - 1
    BY <1>1
  <2> QED  BY <1>3, <2>1, Multiples
<1>7. ASSUME NEW a \in Nat, NEW b \in Nat, NEW c \in Nat, NEW B \in Nat \ {0}, NEW L,
             b = a + B, a <= c, c < size, L = (IF b <= size THEN B ELSE size - a)
      PROVE  L \in Nat \ {0} /\ (b <= c => a + L = b) /\ a + L <= size /\ L <= B
             /\ (size <= b => a + L = size)
  BY <1>7
<1>8. k * Block \in Nat /\ (N - 1) * Block < size
  BY <1>1, <1>2, <1>3, <1>4
<1> DEFINE L == ChunkLen(k, size)
<1>9. L = (IF k * Block <= size THEN Block ELSE size - (k - 1) * Block)
  BY DEF ChunkLen
<1> HIDE DEF L
<1>10. /\ L \in Nat \ {0} /\ (k * Block <= (N - 1) * Block => (k - 1) * Block + L = k * Block)
       /\ (k - 1) * Block + L <= size /\ L <= Block
       /\ (size <= k * Block => (k - 1) * Block + L = size)
  BY <1>2, <1>4, <1>5, <1>7, <1>8, <1>9
<1>11. k = N => size <= k * Block
  BY <1>1
<1> QED  BY <1>3, <1>4, <1>6, <1>10, <1>11 DEF L

(* The chunks of a file, put together again, are the file.                   *)
LEMMA Reassembled ==
    ASSUME NEW data \in Seq(Int), NEW N, NEW s, Chunked(s, data, N)
    PROVE  FlattenSeq(s) = data
<1>1. s \in [1 .. N -> Seq(Int)] /\ N = Blocks(Len(data)) /\ Len(data) \in Nat
  BY DEF Chunked
<1>2. N \in Nat /\ Len(data) <= N * Block
  BY <1>1, BlocksCover
<1>3. \A k \in 1 .. N :
        /\ s[k] \in Seq(Int) /\ Len(s[k]) = ChunkLen(k, Len(data))
        /\ GoesAfter(s[k], data, (k - 1) * Block)
  BY <1>1 DEF Chunked
<1>4. \A k \in 1 .. N :
           /\ (k - 1) * Block \in Nat
           /\ k < N => (k - 1) * Block + Len(s[k]) = ((k + 1) - 1) * Block
           /\ k = N => (k - 1) * Block + Len(s[k]) = Len(data)
  BY <1>1, <1>3, ChunkPlace
<1>5. s \in Seq(Seq(Int)) /\ Len(s) = N
  BY <1>1, <1>2
<1>6. CASE N = 0
  <2>1. s = <<>>
    BY <1>5, <1>6
  <2>2. FlattenSeq(s) = <<>>
    BY <2>1 DEF FlattenSeq
  <2>3. Len(data) = 0
    BY <1>1, <1>2, <1>6, Bounds
  <2> QED  BY <2>2, <2>3, EmptySeq
<1>7. CASE N # 0
  <2>1. s # <<>> /\ N >= 1
    BY <1>2, <1>5, <1>7
  <2>2. PICK h \in [1 .. N -> Seq(Int)] :
              /\ h[1] = s[1]
              /\ \A i \in 2 .. N : h[i] = h[i - 1] \o s[i]
              /\ FlattenSeq(s) = h[N]
    BY <1>5, <2>1, FlattenOf
  <2> DEFINE Good(i) == Begins(h[i], data) /\ Len(h[i]) = (i - 1) * Block + Len(s[i])
             T == {i \in 1 .. N : ~Good(i)}
  <2>3. Good(1)
    <3>1. 1 \in 1 .. N /\ (1 - 1) * Block = 0
      BY <1>2, <2>1, Bounds
    <3>2. GoesAfter(s[1], data, 0) /\ s[1] \in Seq(Int) /\ h[1] = s[1]
      BY <1>3, <2>2, <3>1
    <3>3. ASSUME NEW a \in Seq(Int), GoesAfter(a, data, 0)
          PROVE  Begins(a, data) /\ Len(a) = 0 + Len(a)
      BY <3>3 DEF GoesAfter, Begins
    <3> QED  BY <3>1, <3>2, <3>3
  <2>4. ASSUME NEW i \in 2 .. N, Good(i - 1)
        PROVE  Good(i)
    <3>1. i - 1 \in 1 .. N /\ i \in 1 .. N /\ i - 1 < N /\ ((i - 1) + 1) - 1 = i - 1
      BY <1>2
    <3>2. h[i] = h[i - 1] \o s[i] /\ h[i - 1] \in Seq(Int) /\ s[i] \in Seq(Int)
      BY <1>3, <2>2, <3>1
    <3>3. Begins(h[i - 1], data) /\ Len(h[i - 1]) = ((i - 1) - 1) * Block + Len(s[i - 1])
      BY <2>4
    <3>4. Len(h[i - 1]) = (i - 1) * Block
      BY <1>4, <3>1, <3>3
    <3>5. GoesAfter(s[i], data, Len(h[i - 1]))
      BY <1>3, <3>1, <3>4
    <3>6. Begins(h[i - 1] \o s[i], data) /\ Len(h[i - 1] \o s[i]) = Len(h[i - 1]) + Len(s[i])
      BY <3>2, <3>3, <3>5, BeginsLonger
    <3> QED  BY <3>2, <3>4, <3>6
  <2>5. Good(N)
    <3> HIDE DEF Good
    <3> SUFFICES ASSUME ~Good(N) PROVE FALSE
      OBVIOUS
    <3>1. N \in T /\ T \subseteq Nat
      BY <1>2, <2>1
    <3>2. PICK i \in T : \A j \in T : i <= j
      <4> HIDE DEF T
      <4> QED  BY <3>1, LeastNumber
    <3>3. i \in 1 .. N /\ ~Good(i)
      BY <3>2
    <3>4. i # 1
      BY <2>3, <3>3
    <3>5. i \in 2 .. N /\ i - 1 \in 1 .. N /\ ~(i <= i - 1)
      BY <1>2, <3>3, <3>4
    <3>6. Good(i - 1)
      BY <3>2, <3>5
    <3> QED  BY <2>4, <3>3, <3>5, <3>6
  <2>6. N \in 1 .. N
    BY <1>2, <2>1
  <2>7. Begins(h[N], data) /\ Len(h[N]) = Len(data) /\ h[N] \in Seq(Int)
    BY <1>4, <2>2, <2>5, <2>6
  <2> QED  BY <2>2, <2>7, BeginsAll
<1> QED  BY <1>6, <1>7

(* What a restore reads of an archived file is the file.                     *)
LEMMA ChunksOf ==
    ASSUME tar \in Seq(BlockSet), at \in 1 .. Len(tar), NEW data \in Seq(Int),
           \A k \in 1 .. Blocks(Len(data)) : at + k <= Len(tar) /\ tar[at + k] = DataBlock(data, k)
    PROVE  LET N == Blocks(Len(data)) IN
           FlattenSeq([k \in 1 .. N |-> IF k \in 1 .. N THEN Chunk(k, Len(data)) ELSE <<>>]) = data
<1> DEFINE N == Blocks(Len(data))
           size == Len(data)
           s == [k \in 1 .. N |-> IF k \in 1 .. N THEN Chunk(k, size) ELSE <<>>]
<1>1. size \in Nat /\ N \in Nat /\ at \in Nat
  BY BlocksOf
<1>2. ASSUME NEW k \in 1 .. N
      PROVE  /\ s[k] \in Seq(Int) /\ Len(s[k]) = ChunkLen(k, size)
             /\ GoesAfter(s[k], data, (k - 1) * Block)
  <2> DEFINE L == ChunkLen(k, size)
             o == (k - 1) * Block
             B == tar[at + k].bytes
  <2>1. o \in Nat /\ L \in Nat /\ o + L <= size /\ L <= Block
    BY <1>1, ChunkPlace
  <2>2. at + k <= Len(tar) /\ tar[at + k] = DataBlock(data, k)
    BY <1>2
  <2>3. tar[at + k].kind = "data"
        /\ B = [i \in 1 .. Block |-> IF o + i <= Len(data) THEN data[o + i] ELSE 0]
    BY <2>2 DEF DataBlock
  <2>4. s[k] = Chunk(k, size)
    OBVIOUS
  <2>5. Chunk(k, size) = [i \in 1 .. L |-> B[i]]
    BY <2>2, <2>3 DEF Chunk, ChunkLen
  <2> HIDE DEF L, o, B, s
  <2>6. ASSUME NEW i \in 1 .. L
        PROVE  B[i] = data[o + i] /\ data[o + i] \in Int
    <3>1. i \in 1 .. Block /\ o + i <= size /\ o + i \in 1 .. size
      BY <1>1, <2>1, Bounds
    <3> QED  BY <2>3, <3>1
  <2>7. s[k] = [i \in 1 .. L |-> data[o + i]] /\ \A i \in 1 .. L : data[o + i] \in Int
    BY <2>4, <2>5, <2>6
  <2>8. s[k] \in Seq(Int) /\ Len(s[k]) = L
    BY <2>1, <2>7
  <2>9. \A i \in 1 .. L : s[k][i] = data[o + i]
    BY <2>7
  <2>10. GoesAfter(s[k], data, o)
    BY <2>1, <2>8, <2>9 DEF GoesAfter
  <2> QED  BY <2>8, <2>10 DEF L, o
<1>3. s \in [1 .. N -> Seq(Int)]
  <2>1. s = [k \in 1 .. N |-> s[k]]
    OBVIOUS
  <2> HIDE DEF s
  <2> QED  BY <1>2, <2>1
<1> HIDE DEF s
<1>4. Chunked(s, data, N)
  BY <1>2, <1>3 DEF Chunked
<1> QED  BY <1>4, Reassembled DEF s
-----------------------------------------------------------------------------
(* A node with the type and the data of another is a node, too.              *)
LEMMA NodeSame ==
    ASSUME NEW n, IsNode(n), NEW m \in Nodes, m.mode.type = n.mode.type, m.data = n.data
    PROVE  IsNode(m)
<1>1. m \in [mode : [type : Types, bits : SUBSET Flags], time : Int, data : {m.data}]
  BY DEF Nodes, Modes
<1>2. n.data \in Seq(Int) /\ (n.mode.type = "DIR" => n.data = <<>>)
  BY DEF IsNode
<1> QED  BY <1>1, <1>2 DEF IsNode

(* Nothing can be made below what is not a directory.                        *)
LEMMA NothingBelow ==
    ASSUME NEW d, IsTree(d), NEW x \in Paths, Obstructed(d, x)
    PROVE  x \notin DOMAIN d /\ ~CanMake(d, x)
<1>1. x \in Seq(DOMAIN Weight) /\ Len(x) \in Nat
  BY DEF Paths
<1>2. PICK k \in 1 .. Len(x) - 1 : Upto(x, k) \in DOMAIN d /\ ~IsDir(d, Upto(x, k))
  BY DEF Obstructed
<1>3. /\ k \in 0 .. Len(x) /\ k < Len(x) /\ k \in 0 .. Len(x) - 1
      /\ Len(x) - 1 \in 0 .. Len(x) /\ Len(x) \in 1 .. Len(x)
  BY <1>1
<1>4. x \notin DOMAIN d
  BY <1>2, <1>3, PathsLead
<1>5. ASSUME CanMake(d, x)
      PROVE  FALSE
  <2>1. IsDir(d, Front(x)) /\ Front(x) \in DOMAIN d
    BY <1>5 DEF CanMake, IsDir
  <2>2. Front(x) = Upto(x, Len(x) - 1)
    <3>1. Front(Upto(x, Len(x))) = Upto(x, Len(x) - 1)
      BY <1>1, <1>3, UptoFront
    <3>2. Upto(x, Len(x)) = x
      BY <1>1, <1>3, UptoUpto
    <3> QED  BY <3>1, <3>2
  <2>3. Len(Front(x)) = Len(x) - 1
    BY <1>1, <1>3, <2>2, UptoOf
  <2>4. Upto(Front(x), k) = Upto(x, k)
    BY <1>1, <1>3, <2>2, UptoUpto
  <2>5. k # Len(x) - 1
    BY <1>2, <2>1, <2>2
  <2>6. k \in 0 .. Len(Front(x)) /\ k < Len(Front(x))
    BY <1>1, <1>3, <2>3, <2>5
  <2>7. IsDir(d, Upto(Front(x), k))
    BY <2>1, <2>6, PathsLead
  <2> QED  BY <1>2, <2>4, <2>7
<1> QED  BY <1>4, <1>5

(* The directory of x is there, or what is missing of it cannot be made.     *)
Ready(d, x) == Front(x) \in DOMAIN d \/ Obstructed(d, Front(x))

(* Of a path that is ready, no directory is made.                            *)
LEMMA NoneToMake ==
    ASSUME NEW d, IsTree(d), NEW x \in Paths, x # <<>>, Ready(d, x), NEW k \in 1 .. Len(x) - 1
    PROVE  ~CanMake(d, Upto(x, k))
<1>1. x \in Seq(DOMAIN Weight) /\ Len(x) \in Nat \ {0} /\ Len(x) \in 1 .. Len(x)
  BY DEF Paths
<1> DEFINE y == Front(x)
           L == Len(x) - 1
<1>2. y = Upto(x, L)
  <2>1. Front(Upto(x, Len(x))) = Upto(x, Len(x) - 1)
    BY <1>1, UptoFront
  <2>2. Upto(x, Len(x)) = x
    BY <1>1, UptoUpto
  <2> QED  BY <2>1, <2>2
<1>3. L \in 0 .. Len(x) /\ L \in Nat /\ k \in 0 .. L /\ k \in 0 .. Len(x)
  BY <1>1
<1>4. y \in Seq(DOMAIN Weight) /\ Len(y) = L
  <2> HIDE DEF y, L
  <2> QED  BY <1>1, <1>2, <1>3, UptoOf
<1>5. \A j \in 0 .. L : Upto(y, j) = Upto(x, j)
  BY <1>1, <1>2, <1>3, UptoUpto
<1> HIDE DEF y, L
<1>6. CASE y \in DOMAIN d
  <2>1. Upto(y, k) \in DOMAIN d
    BY <1>3, <1>4, <1>6, PathsLead
  <2> QED  BY <1>3, <1>5, <2>1 DEF CanMake
<1>7. CASE Obstructed(d, y)
  <2>1. PICK j \in 1 .. L - 1 : Upto(y, j) \in DOMAIN d /\ ~IsDir(d, Upto(y, j))
    BY <1>4, <1>7 DEF Obstructed
  <2>2. Upto(x, j) \in DOMAIN d /\ ~IsDir(d, Upto(x, j)) /\ j \in 0 .. L /\ j \in Nat
        /\ j \in 0 .. Len(x)
    BY <1>3, <1>5, <2>1
  <2>3. CASE k <= j
    <3>1. k \in 0 .. j
      BY <1>3, <2>2, <2>3
    <3>2. Len(Upto(x, j)) = j /\ Upto(Upto(x, j), k) = Upto(x, k)
      BY <1>1, <2>2, <3>1, UptoOf, UptoUpto
    <3>3. Upto(x, k) \in DOMAIN d
      BY <2>2, <3>1, <3>2, PathsLead
    <3> QED  BY <3>3 DEF CanMake
  <2>4. CASE ~(k <= j)
    <3>1. Len(Upto(x, k)) = k /\ Upto(x, k) \in Paths
      BY <1>1, <1>3, UptoOf DEF Paths
    <3>2. j \in 1 .. Len(Upto(x, k)) - 1 /\ j \in 0 .. k
      BY <1>3, <2>1, <2>2, <2>4, <3>1
    <3>3. Upto(Upto(x, k), j) = Upto(x, j)
      BY <1>1, <1>3, <3>2, UptoUpto
    <3>4. Obstructed(d, Upto(x, k))
      BY <2>2, <3>2, <3>3 DEF Obstructed
    <3> QED  BY <3>1, <3>4, NothingBelow
  <2> QED  BY <2>3, <2>4
<1> QED  BY <1>6, <1>7 DEF Ready, y

(* ensure_parent_dirs_exist leaves the partition as it is then.              *)
LEMMA EnsureSame ==
    ASSUME NEW d, IsTree(d), NEW x \in Paths, x # <<>>, Ready(d, x)
    PROVE  ensure_parent_dirs_exist(d, x, Len(x) - 1) = d
<1> DEFINE m == Len(x) - 1
<1>1. x \in Seq(DOMAIN Weight) /\ Len(x) \in Nat /\ m \in Nat /\ m \in 0 .. Len(x)
  BY DEF Paths
<1>2. d \in Trees
  BY TreeType
<1>3. PICK h \in [0 .. m -> Trees] :
              /\ h[0] = d
              /\ \A k \in 1 .. m : h[k] = Mkdir(h[k - 1], SubSeq(x, 1, k))
              /\ ensure_parent_dirs_exist(d, x, m) = h[m]
  BY <1>1, <1>2, EnsureOf
<1>4. \A k \in 1 .. m : Mkdir(d, SubSeq(x, 1, k)) = d
  <2> SUFFICES ASSUME NEW k \in 1 .. m PROVE Mkdir(d, SubSeq(x, 1, k)) = d
    OBVIOUS
  <2>1. ~CanMake(d, SubSeq(x, 1, k))
    BY NoneToMake DEF Upto
  <2> QED  BY <2>1 DEF Mkdir, Make
<1> DEFINE T == {k \in 0 .. m : h[k] # d}
<1>5. T = {}
  <2> HIDE DEF m
  <2> SUFFICES ASSUME T # {} PROVE FALSE
    OBVIOUS
  <2>1. T \subseteq Nat
    BY <1>1
  <2>2. PICK k \in T : \A l \in T : k <= l
    <3> HIDE DEF T
    <3> QED  BY <2>1, LeastNumber
  <2>3. k \in 0 .. m /\ h[k] # d /\ k # 0
    BY <1>3, <2>2
  <2>4. k \in 1 .. m /\ k - 1 \in 0 .. m /\ ~(k <= k - 1)
    BY <1>1, <2>3
  <2>5. h[k - 1] = d
    BY <2>2, <2>4
  <2> QED  BY <1>3, <1>4, <2>3, <2>4, <2>5
<1>6. m \in 0 .. m
  BY <1>1
<1> QED  BY <1>3, <1>5, <1>6

(* What is ready is there, or can be made, or something is in its way.       *)
LEMMA Placed ==
    ASSUME NEW d, IsTree(d), NEW x \in Paths, x # <<>>, Ready(d, x)
    PROVE  x \in DOMAIN d \/ CanMake(d, x) \/ Obstructed(d, x)
<1>1. x \in Seq(DOMAIN Weight) /\ Len(x) \in Nat \ {0} /\ Len(x) \in 1 .. Len(x)
  BY DEF Paths
<1> DEFINE y == Front(x)
           L == Len(x) - 1
<1>2. y = Upto(x, L)
  <2>1. Front(Upto(x, Len(x))) = Upto(x, Len(x) - 1)
    BY <1>1, UptoFront
  <2>2. Upto(x, Len(x)) = x
    BY <1>1, UptoUpto
  <2> QED  BY <2>1, <2>2
<1>3. L \in 0 .. Len(x) /\ L \in Nat
  BY <1>1
<1>4. y \in Seq(DOMAIN Weight) /\ Len(y) = L
  <2> HIDE DEF y, L
  <2> QED  BY <1>1, <1>2, <1>3, UptoOf
<1>5. \A j \in 0 .. L : Upto(y, j) = Upto(x, j)
  BY <1>1, <1>2, <1>3, UptoUpto
<1>6. CASE y \in DOMAIN d /\ ~IsDir(d, y)
  <2>1. L # 0
    <3>1. SUFFICES ASSUME L = 0 PROVE FALSE
      OBVIOUS
    <3>2. y = <<>>
      BY <1>4, <3>1, EmptySeq
    <3>3. IsDir(d, <<>>)
      BY DEF IsTree
    <3> QED  BY <1>6, <3>2, <3>3
  <2>2. L \in 1 .. L
    <3> HIDE DEF L
    <3> QED  BY <1>3, <2>1
  <2> QED  BY <1>2, <1>6, <2>2 DEF Obstructed
<1>7. CASE IsDir(d, y)
  BY <1>7 DEF CanMake
<1>8. CASE Obstructed(d, y)
  <2>1. PICK j \in 1 .. L - 1 : Upto(y, j) \in DOMAIN d /\ ~IsDir(d, Upto(y, j))
    BY <1>4, <1>8 DEF Obstructed
  <2>2. j \in 1 .. Len(x) - 1 /\ j \in 0 .. L
    BY <1>1, <2>1
  <2> HIDE DEF L, y
  <2> QED  BY <1>5, <2>1, <2>2 DEF Obstructed
<1> QED  BY <1>6, <1>7, <1>8 DEF Ready
-----------------------------------------------------------------------------
(* What an entry for x makes of the partition d when it is restored without  *)
(* a failed call: u has no more than x added to it, nothing else changes but *)
(* the time of its directory, and x is as the old node unless something else *)
(* is there.                                                                 *)
Put(d, u, x, old, ow) ==
    /\ IsTree(u) /\ DOMAIN d \subseteq DOMAIN u /\ DOMAIN u \subseteq DOMAIN d \cup {x}
    /\ \A q \in DOMAIN d : u[q].mode.type = d[q].mode.type
    /\ \A q \in DOMAIN d : q # x =>
          /\ u[q].mode = d[q].mode /\ u[q].data = d[q].data
          /\ u[q] = d[q] \/ (q = Front(x) /\ x \in DOMAIN u)
    /\ x \in DOMAIN u \/ Obstructed(u, x)
    /\ x \in DOMAIN u /\ x \notin DOMAIN d => Matches(u, x, old)
    /\ x \in DOMAIN d => u[x] = d[x] \/ (d[x].mode.type = old.mode.type => Matches(u, x, old))
    /\ x \in DOMAIN d /\ ow /\ old.mode.type # "LNK" /\ d[x].mode.type = old.mode.type
          => Matches(u, x, old)

(* A node that has all of the old one that a restore gives back.             *)
Same(n, old) ==
    /\ n.data = old.data /\ n.mode.type = old.mode.type
    /\ old.mode.type # "LNK" => n.mode = old.mode /\ n.time = old.time

(* u is d with the node n at x.                                              *)
Changed(d, u, x, n) ==
    /\ u \in Trees /\ DOMAIN u = DOMAIN d \cup {x} /\ u[x] = n
    /\ \A q \in DOMAIN d : q # x =>
          /\ u[q].mode = d[q].mode /\ u[q].data = d[q].data
          /\ u[q] = d[q] \/ (q = Front(x) /\ x \notin DOMAIN d)

(* Where the node may be put, and what it has to be.                         *)
MayPut(d, x, n, old) ==
    /\ IsTree(d) /\ x \in Paths /\ x # <<>> /\ IsNode(n)
    /\ CanMake(d, x) \/ x \in DOMAIN d
    /\ x \in DOMAIN d => n.mode.type = d[x].mode.type
    /\ x \notin DOMAIN d \/ d[x].mode.type = old.mode.type => Same(n, old)

(* A node put where it may be: x is as the old one, the rest as it was.      *)
LEMMA PutNode ==
    ASSUME NEW d, NEW u, NEW x, NEW n, NEW old, NEW ow, Changed(d, u, x, n), MayPut(d, x, n, old)
    PROVE  Put(d, u, x, old, ow)
<1>1. /\ u \in Trees /\ DOMAIN u = DOMAIN d \cup {x} /\ u[x] = n
      /\ \A q \in DOMAIN d : q # x =>
          /\ u[q].mode = d[q].mode /\ u[q].data = d[q].data
          /\ u[q] = d[q] \/ (q = Front(x) /\ x \notin DOMAIN d)
  BY DEF Changed
<1>2. /\ IsTree(d) /\ x \in Paths /\ x # <<>> /\ IsNode(n)
      /\ CanMake(d, x) \/ x \in DOMAIN d
      /\ x \in DOMAIN d => n.mode.type = d[x].mode.type
      /\ x \notin DOMAIN d \/ d[x].mode.type = old.mode.type => Same(n, old)
  BY DEF MayPut
<1>3. /\ \A q \in DOMAIN d : IsNode(d[q]) /\ (q # <<>> => IsDir(d, Front(q)))
      /\ IsDir(d, <<>>) /\ DOMAIN d \subseteq Paths
  BY <1>2 DEF IsTree
<1>4. \A q \in DOMAIN u : u[q] \in Nodes
  BY <1>1, TreeIs
<1>5. \A q \in DOMAIN d : u[q].mode.type = d[q].mode.type
  BY <1>1, <1>2
<1>6. \A y : IsDir(d, y) => IsDir(u, y)
  BY <1>1, <1>5 DEF IsDir
<1>7. IsTree(u)
  <2>1. u \in [DOMAIN u -> Range(u)] /\ DOMAIN u \subseteq Paths
    BY <1>1, <1>2, <1>3, TreeIs DEF Range
  <2>2. \A q \in DOMAIN u : IsNode(u[q])
    BY <1>1, <1>2, <1>3, <1>4, NodeSame
  <2>3. \A q \in DOMAIN u : q # <<>> => IsDir(u, Front(q))
    BY <1>1, <1>2, <1>3, <1>6 DEF CanMake
  <2> QED  BY <1>3, <1>6, <2>1, <2>2, <2>3 DEF IsTree
<1>8. Same(n, old) => Matches(u, x, old)
  BY <1>1 DEF Same, Matches
<1>9. x \in DOMAIN u
  BY <1>1
<1> QED  BY <1>1, <1>2, <1>5, <1>7, <1>8, <1>9 DEF Put

(* Nothing changes where something is in the way or may not be written over. *)
LEMMA PutNothing ==
    ASSUME NEW d, NEW x, NEW old, NEW ow, IsTree(d), x \in DOMAIN d \/ Obstructed(d, x),
           ~(x \in DOMAIN d /\ ow /\ old.mode.type # "LNK" /\ d[x].mode.type = old.mode.type)
    PROVE  Put(d, d, x, old, ow)
  BY DEF Put

(* What matched still does.                                                  *)
LEMMA StillMatches ==
    ASSUME NEW d, NEW u, NEW x \in Paths, x # <<>>, NEW old, NEW ow, Put(d, u, x, old, ow),
           NEW q, NEW n, Matches(d, q, n), q = x => n = old
    PROVE  Matches(u, q, n)
<1>1. /\ IsTree(u) /\ DOMAIN d \subseteq DOMAIN u /\ DOMAIN u \subseteq DOMAIN d \cup {x}
      /\ \A y \in DOMAIN d : u[y].mode.type = d[y].mode.type
      /\ \A y \in DOMAIN d : y # x =>
          /\ u[y].mode = d[y].mode /\ u[y].data = d[y].data
          /\ u[y] = d[y] \/ (y = Front(x) /\ x \in DOMAIN u)
      /\ x \in DOMAIN d => u[x] = d[x] \/ (d[x].mode.type = old.mode.type => Matches(u, x, old))
  BY DEF Put
<1>2. /\ q \in DOMAIN d /\ d[q].data = n.data /\ d[q].mode.type = n.mode.type
      /\ n.mode.type # "LNK" => d[q].mode = n.mode
      /\ n.mode.type = "REG" \/ (n.mode.type = "DIR" /\ Names(d, q) = {}) => d[q].time = n.time
  BY DEF Matches
<1>3. Names(d, q) \subseteq Names(u, q)
  BY <1>1 DEF Names
<1>4. CASE u[q] = d[q]
  BY <1>1, <1>2, <1>3, <1>4 DEF Matches
<1>5. CASE u[q] # d[q] /\ q = x
  BY <1>1, <1>2, <1>5
<1>6. CASE u[q] # d[q] /\ q # x
  <2>1. q = Front(x) /\ x \in DOMAIN u /\ u[q].mode = d[q].mode /\ u[q].data = d[q].data
    BY <1>1, <1>2, <1>6
  <2>2. u[q].mode.type = "DIR"
    BY <1>1, <2>1 DEF IsTree, IsDir
  <2>3. Last(x) \in Names(u, q)
    BY <2>1 DEF Names
  <2>4. n.mode.type = "DIR" /\ Names(u, q) # {}
    BY <1>1, <1>2, <2>2, <2>3
  <2> QED  BY <1>1, <1>2, <2>1, <2>4 DEF Matches
<1> QED  BY <1>4, <1>5, <1>6

(* What was in the way still is.                                             *)
LEMMA StillObstructed ==
    ASSUME NEW d, NEW u, NEW x, NEW old, NEW ow, Put(d, u, x, old, ow), NEW q, Obstructed(d, q)
    PROVE  Obstructed(u, q)
  BY DEF Put, Obstructed, IsDir

(* The restore of an entry for x of the source S keeps what was established. *)
Restorable(S, b, d, u, x, ow) ==
    /\ IsTree(S) /\ x \in DOMAIN S /\ x \in Paths /\ x # <<>>
    /\ Additions(S, b, d) /\ Put(d, u, x, S[x], ow)

(* What is new in the partition still comes from the source.                 *)
LEMMA AdditionsKept ==
    ASSUME NEW S, NEW b, NEW d, NEW u, NEW x, NEW ow, Restorable(S, b, d, u, x, ow)
    PROVE  Additions(S, b, u)
<1>1. /\ x \in DOMAIN S /\ x \in Paths /\ x # <<>> /\ Put(d, u, x, S[x], ow)
      /\ IsTree(d) /\ IsTree(b) /\ DOMAIN b \subseteq DOMAIN d
      /\ \A y \in DOMAIN b : d[y].mode.type = b[y].mode.type
      /\ \A y \in DOMAIN d \ DOMAIN b : y \in DOMAIN S /\ Matches(d, y, S[y])
  BY DEF Restorable, Additions
<1>2. /\ IsTree(u) /\ DOMAIN d \subseteq DOMAIN u /\ DOMAIN u \subseteq DOMAIN d \cup {x}
      /\ \A y \in DOMAIN d : u[y].mode.type = d[y].mode.type
      /\ x \in DOMAIN u /\ x \notin DOMAIN d => Matches(u, x, S[x])
  BY <1>1 DEF Put
<1>3. ASSUME NEW y \in DOMAIN u \ DOMAIN b
      PROVE  y \in DOMAIN S /\ Matches(u, y, S[y])
  <2>1. CASE y \in DOMAIN d
    BY <1>1, <1>3, <2>1, StillMatches
  <2>2. CASE y \notin DOMAIN d
    BY <1>1, <1>2, <1>3, <2>2
  <2> QED  BY <2>1, <2>2
<1> QED  BY <1>1, <1>2, <1>3 DEF Additions

(* The entries restored before stay restored.                                *)
LEMMA RestoredKept ==
    ASSUME NEW S, NEW b, NEW d, NEW u, NEW x, NEW ow, Restorable(S, b, d, u, x, ow),
           NEW s, NEW p, NEW n, RestoredUpTo(S, b, d, s, p, n, ow)
    PROVE  RestoredUpTo(S, b, u, s, p, n, ow)
<1>1. x \in DOMAIN S /\ x \in Paths /\ x # <<>> /\ Put(d, u, x, S[x], ow)
  BY DEF Restorable
<1>2. \A q : Obstructed(d, q) => Obstructed(u, q)
  BY <1>1, StillObstructed
<1>3. \A q : Matches(d, q, S[q]) => Matches(u, q, S[q])
  BY <1>1, StillMatches
<1>4. DOMAIN d \subseteq DOMAIN u
  BY <1>1 DEF Put
<1> QED  BY <1>2, <1>3, <1>4 DEF RestoredUpTo

(* The entry itself is restored, where it fits.                              *)
LEMMA EntryRestored ==
    ASSUME NEW S, NEW b, NEW d, NEW u, NEW x, NEW ow, Restorable(S, b, d, u, x, ow)
    PROVE  /\ x \in DOMAIN u \/ Obstructed(u, x)
           /\ Free(b, x, S[x].mode.type, ow) => Matches(u, x, S[x])
<1>1. /\ IsTree(S) /\ x \in DOMAIN S /\ x \in Paths /\ x # <<>> /\ Put(d, u, x, S[x], ow)
      /\ IsTree(d) /\ IsTree(b) /\ DOMAIN b \subseteq DOMAIN d
      /\ \A y \in DOMAIN b : d[y].mode.type = b[y].mode.type
      /\ \A y \in DOMAIN d \ DOMAIN b : y \in DOMAIN S /\ Matches(d, y, S[y])
  BY DEF Restorable, Additions
<1>2. /\ x \in DOMAIN u \/ Obstructed(u, x)
      /\ x \in DOMAIN u /\ x \notin DOMAIN d => Matches(u, x, S[x])
      /\ x \in DOMAIN d /\ ow /\ S[x].mode.type # "LNK" /\ d[x].mode.type = S[x].mode.type
            => Matches(u, x, S[x])
  BY <1>1 DEF Put
<1>3. Additions(S, b, u)
  BY AdditionsKept
<1>4. ASSUME Free(b, x, S[x].mode.type, ow)
      PROVE  Matches(u, x, S[x])
  <2>1. /\ ~Obstructed(b, x)
        /\ x \in DOMAIN b => b[x].mode.type = S[x].mode.type /\ S[x].mode.type # "LNK" /\ ow
    BY <1>4 DEF Free
  <2>2. CASE x \in DOMAIN u /\ x \notin DOMAIN d
    BY <1>2, <2>2
  <2>3. CASE x \in DOMAIN d /\ x \in DOMAIN b
    BY <1>1, <1>2, <2>1, <2>3
  <2>4. CASE x \in DOMAIN d /\ x \notin DOMAIN b
    BY <1>1, <2>4, StillMatches
  <2>5. CASE Obstructed(u, x)
    <3>1. PICK k \in 1 .. Len(x) - 1 : Upto(x, k) \in DOMAIN u /\ ~IsDir(u, Upto(x, k))
      BY <2>5 DEF Obstructed
    <3> DEFINE y == Upto(x, k)
    <3>2. y \in DOMAIN b => u[y].mode.type = b[y].mode.type
      BY <1>3 DEF Additions
    <3>3. y \notin DOMAIN b
      BY <2>1, <3>1, <3>2 DEF Obstructed, IsDir
    <3>4. y \in DOMAIN S /\ u[y].mode.type = S[y].mode.type
      BY <1>3, <3>1, <3>3 DEF Additions, Matches
    <3>5. IsDir(S, y)
      <4>1. Len(x) \in Nat
        BY <1>1 DEF Paths
      <4>2. k \in 0 .. Len(x) /\ k < Len(x)
        BY <4>1
      <4> QED  BY <1>1, <4>2, PathsLead
    <3> QED  BY <3>1, <3>4, <3>5 DEF IsDir
  <2> QED  BY <1>2, <2>2, <2>3, <2>4, <2>5
<1> QED  BY <1>2, <1>4

(* So the restore has come past the entry: the n-th block is its header, and *)
(* up to the block to go on at there are no more.                            *)
Passable(s, p, n, next, x) ==
    /\ n \in 1 .. Len(s) /\ next \in Nat /\ s[n].path = x
    /\ \A m \in 1 .. Len(s) : n < m /\ m < next => s[m].kind # "header"

(* The entries up to the block to go on at are restored.                     *)
LEMMA RestoredPast ==
    ASSUME NEW S, NEW b, NEW d, NEW u, NEW x, NEW ow, Restorable(S, b, d, u, x, ow),
           NEW s, NEW p, NEW n, RestoredUpTo(S, b, d, s, p, n, ow),
           NEW next, Passable(s, p, n, next, x)
    PROVE  RestoredUpTo(S, b, u, s, p, next, ow)
<1>1. RestoredUpTo(S, b, u, s, p, n, ow)
  BY RestoredKept
<1>2. /\ x \in DOMAIN u \/ Obstructed(u, x)
      /\ Free(b, x, S[x].mode.type, ow) => Matches(u, x, S[x])
  BY EntryRestored
<1>3. ASSUME NEW m \in 1 .. Len(s), m < next, s[m].kind = "header"
      PROVE  m < n \/ m = n
  BY <1>3 DEF Passable
<1>4. s[n].path = x
  BY DEF Passable
<1> QED  BY <1>1, <1>2, <1>3, <1>4 DEF RestoredUpTo

(* An entry of another partition, or of the root, is passed as well.         *)
LEMMA OthersPassed ==
    ASSUME NEW S, NEW b, NEW d, NEW ow, NEW s, NEW p, NEW n, RestoredUpTo(S, b, d, s, p, n, ow),
           NEW next, NEW x, Passable(s, p, n, next, x), s[n].part # p \/ x = <<>>
    PROVE  RestoredUpTo(S, b, d, s, p, next, ow)
<1>1. ASSUME NEW m \in 1 .. Len(s), m < next, s[m].kind = "header"
      PROVE  m < n \/ m = n
  BY <1>1 DEF Passable
<1>2. s[n].path = x
  BY DEF Passable
<1> QED  BY <1>1, <1>2 DEF RestoredUpTo
-----------------------------------------------------------------------------
(* The restore of the entry b of the old node at x to the partition d.       *)
Entry(d, b, p, x, old) ==
    /\ IsTree(d) /\ p \in Parts /\ x \in Paths /\ x # <<>> /\ Ready(d, x)
    /\ IsNode(old) /\ Storable(old) /\ ~Long(x) /\ b = HeaderFor(p, x, old)

(* What the entry says.                                                      *)
LEMMA EntrySays ==
    ASSUME NEW d, NEW b, NEW p, NEW x, NEW old, Entry(d, b, p, x, old)
    PROVE  /\ b.path = x /\ b.type = old.mode.type /\ b.size = Size(old)
           /\ old.mode.type = "LNK" => b.link = old.data
           /\ b.mtime \in Int
           /\ convert_posix_mode_to_iomanx(b.mode) = old.mode
           /\ convert_posix_time_to_iox_time(b.mtime) = old.time
           /\ old \in Nodes /\ d \in Trees
<1>1. /\ IsTree(d) /\ p \in Parts /\ x \in Paths
      /\ IsNode(old) /\ Storable(old) /\ ~Long(x) /\ b = HeaderFor(p, x, old)
  BY DEF Entry
<1>3. old \in Nodes /\ d \in Trees /\ old.data \in Seq(Int)
  BY <1>1, NodeType, TreeType
<1>4. old.mode \in [type : Types, bits : SUBSET Flags] /\ old.time \in Int
  BY <1>3 DEF Nodes, Modes
<1>2. /\ b \in Headers /\ b.path = x
      /\ b.type = old.mode.type /\ b.size = Size(old)
      /\ old.mode.type = "LNK" => b.link = old.data
      /\ b.mode = convert_mode_to_posix(old.mode)
      /\ b.mtime = convert_iox_stat_time_to_posix(old.time)
  <2>1. /\ b \in Headers /\ b.path = x
        /\ b.type = old.mode.type /\ b.size = Size(old) /\ b.link = Target(old)
        /\ b.mode = convert_mode_to_posix(old.mode)
        /\ b.mtime = Stamp(old.time)
    BY <1>1, EntryOf
  <2>2. Stamp(old.time) = convert_iox_stat_time_to_posix(old.time)
    BY <1>1, <1>4, StampOf DEF Storable
  <2>3. old.mode.type = "LNK" => Target(old) = old.data
    BY <1>1, <1>3, CutOf DEF Storable, Target
  <2> QED  BY <2>1, <2>2, <2>3
<1>5. convert_posix_mode_to_iomanx(b.mode) = old.mode
  BY <1>2, <1>4, ModesRoundTrip
<1>6. b.mtime \in Int /\ convert_posix_time_to_iox_time(b.mtime) = old.time
  <2>1. \A h \in Int : h + 9 \in Int /\ (h + 9) - 9 = h
    OBVIOUS
  <2> QED  BY <1>2, <1>4, <2>1
        DEF convert_iox_stat_time_to_posix, convert_posix_time_to_iox_time, Jst
<1> QED  BY <1>2, <1>3, <1>5, <1>6

(* The two chstat give the node the mode and the time of the old one.        *)
LEMMA StatGiven ==
    ASSUME NEW d, NEW b, NEW p, NEW x, NEW old, Entry(d, b, p, x, old),
           NEW v \in Trees, x \in DOMAIN v
    PROVE  LET u == chstat(v, b, {}) IN
           /\ u \in Trees /\ DOMAIN u = DOMAIN v
           /\ \A q \in DOMAIN v : q # x => u[q] = v[q]
           /\ u[x].mode.type = v[x].mode.type /\ u[x].data = v[x].data
           /\ u[x].time = old.time
           /\ v[x].mode.type = old.mode.type => u[x].mode = old.mode
<1> DEFINE u == chstat(v, b, {})
<1>1. /\ b.path = x /\ b.mtime \in Int
      /\ convert_posix_mode_to_iomanx(b.mode) = old.mode
      /\ convert_posix_time_to_iox_time(b.mtime) = old.time
      /\ old \in Nodes
  BY EntrySays
<1>2. /\ u \in Trees /\ DOMAIN u = DOMAIN v
      /\ \A q \in DOMAIN v : q # x => u[q] = v[q]
      /\ u[x] = [mode |-> [type |-> v[x].mode.type, bits |-> old.mode.bits],
                 time |-> old.time, data |-> v[x].data]
  <2>1. ASSUME NEW F, F = {}, NEW w, w = chstat(v, b, F)
        PROVE  /\ w \in Trees /\ DOMAIN w = DOMAIN v
               /\ \A q \in DOMAIN v : q # x => w[q] = v[q]
               /\ w[x] = [mode |-> [type |-> v[x].mode.type, bits |-> old.mode.bits],
                          time |-> old.time, data |-> v[x].data]
    <3>1. "chstat mode" \notin F /\ "chstat time" \notin F
      BY <2>1
    <3>2. Statted(v, b, F, w)
      BY <1>1, <2>1, ChstatOf
    <3> QED  BY <1>1, <3>1, <3>2 DEF Statted
  <2> QED  BY <2>1
<1> HIDE DEF u
<1>3. old.mode = [type |-> old.mode.type, bits |-> old.mode.bits]
  BY <1>1 DEF Nodes, Modes
<1> QED  BY <1>2, <1>3 DEF u

(* A node that was made or was there, and then got mode and time.            *)
LEMMA PutWithStat ==
    ASSUME NEW d, NEW b, NEW p, NEW x, NEW old, NEW ow, Entry(d, b, p, x, old),
           NEW v, Changed(d, v, x, v[x]), IsNode(v[x]), CanMake(d, x) \/ x \in DOMAIN d,
           x \in DOMAIN d => v[x].mode.type = d[x].mode.type,
           x \notin DOMAIN d => v[x].mode.type = old.mode.type,
           v[x].mode.type = old.mode.type => v[x].data = old.data
    PROVE  Put(d, chstat(v, b, {}), x, old, ow)
<1> DEFINE u == chstat(v, b, {})
<1>1. v \in Trees /\ DOMAIN v = DOMAIN d \cup {x} /\ x \in DOMAIN v
  BY DEF Changed
<1>2. /\ u \in Trees /\ DOMAIN u = DOMAIN v
      /\ \A q \in DOMAIN v : q # x => u[q] = v[q]
      /\ u[x].mode.type = v[x].mode.type /\ u[x].data = v[x].data
      /\ u[x].time = old.time
      /\ v[x].mode.type = old.mode.type => u[x].mode = old.mode
  BY <1>1, StatGiven
<1> HIDE DEF u
<1>3. Changed(d, u, x, u[x])
  BY <1>1, <1>2 DEF Changed
<1>4. IsNode(u[x])
  BY <1>1, <1>2, TreeIs, NodeSame
<1>5. v[x].mode.type = old.mode.type => Same(u[x], old)
  BY <1>2 DEF Same
<1>6. MayPut(d, x, u[x], old)
  BY <1>2, <1>4, <1>5 DEF MayPut, Entry
<1> QED  BY <1>3, <1>6, PutNode DEF u

(* A new node in a directory that exists.                                    *)
LEMMA Made ==
    ASSUME NEW d, IsTree(d), NEW x \in Paths, x # <<>>, NEW n \in Nodes, CanMake(d, x)
    PROVE  Changed(d, Make(d, x, n), x, n) /\ x \notin DOMAIN d
<1>1. d \in Trees
  BY TreeType
<1>2. /\ Make(d, x, n) \in Trees
      /\ DOMAIN d \subseteq DOMAIN Make(d, x, n)
      /\ DOMAIN Make(d, x, n) \subseteq DOMAIN d \cup {x}
      /\ x \in DOMAIN Make(d, x, n) /\ Make(d, x, n)[x] = n
      /\ \A q \in DOMAIN d :
            /\ Make(d, x, n)[q].mode = d[q].mode
            /\ Make(d, x, n)[q].data = d[q].data
            /\ q # Front(x) => Make(d, x, n)[q] = d[q]
  BY <1>1, MakeOf
<1> QED  BY <1>2 DEF Changed, CanMake

(* restore_directory: mkdir, then chstat, also of a directory that was there.*)
LEMMA PutDirectory ==
    ASSUME NEW d, NEW b, NEW p, NEW x, NEW old, NEW ow, Entry(d, b, p, x, old),
           old.mode.type = "DIR"
    PROVE  Put(d, chstat(Mkdir(d, x), b, {}), x, old, ow)
<1>1. /\ IsTree(d) /\ x \in Paths /\ x # <<>> /\ Ready(d, x) /\ IsNode(old)
      /\ d \in Trees /\ b.path = x
  BY EntrySays DEF Entry
<1>2. old.data = <<>>
  BY <1>1, NodeType
<1>3. x \in DOMAIN d \/ CanMake(d, x) \/ Obstructed(d, x)
  BY <1>1, Placed
<1>4. CASE x \in DOMAIN d
  <2>1. Mkdir(d, x) = d
    BY <1>4 DEF Mkdir, Make, CanMake
  <2>2. Changed(d, d, x, d[x])
    BY <1>1, <1>4 DEF Changed
  <2>3. IsNode(d[x])
    BY <1>1, <1>4 DEF IsTree
  <2>4. d[x].mode.type = "DIR" => d[x].data = <<>>
    BY <2>3, NodeType
  <2> QED  BY <1>2, <1>4, <2>1, <2>2, <2>3, <2>4, PutWithStat
<1>5. CASE CanMake(d, x)
  <2> DEFINE n == Node("DIR", Permissions, Now, <<>>)
             v == Mkdir(d, x)
  <2>1. n \in Nodes /\ n.mode.type = "DIR" /\ n.data = <<>>
    <3>1. n.mode.type = "DIR" /\ n.data = <<>>
      BY DEF Node
    <3> QED  BY <3>1, NewNodes
  <2>2. v = Make(d, x, n)
    BY DEF Mkdir
  <2> HIDE DEF n, v
  <2>3. Changed(d, v, x, n) /\ x \notin DOMAIN d
    BY <1>1, <1>5, <2>1, <2>2, Made
  <2>4. v[x] = n
    BY <2>3 DEF Changed
  <2>5. IsNode(n)
    BY <1>1, <1>2, <2>1, NodeSame
  <2>6. Put(d, chstat(v, b, {}), x, old, ow)
    BY <1>2, <1>5, <2>1, <2>3, <2>4, <2>5, PutWithStat
  <2> QED  BY <2>6 DEF v
<1>6. CASE Obstructed(d, x)
  <2>1. x \notin DOMAIN d /\ ~CanMake(d, x)
    BY <1>1, <1>6, NothingBelow
  <2>2. chstat(Mkdir(d, x), b, {}) = d
    BY <1>1, <2>1 DEF Mkdir, Make, chstat
  <2> QED  BY <1>1, <1>6, <2>1, <2>2, PutNothing
<1> QED  BY <1>3, <1>4, <1>5, <1>6

(* restore_link: a link is made, never changed.                              *)
LEMMA PutLink ==
    ASSUME NEW d, NEW b, NEW p, NEW x, NEW old, NEW ow, Entry(d, b, p, x, old),
           old.mode.type = "LNK"
    PROVE  Put(d, Make(d, x, Node("LNK", Permissions, Now, b.link)), x, old, ow)
<1>1. /\ IsTree(d) /\ x \in Paths /\ x # <<>> /\ Ready(d, x) /\ IsNode(old)
      /\ d \in Trees /\ b.path = x /\ b.link = old.data
  BY EntrySays DEF Entry
<1>2. old.data \in Seq(Int)
  BY <1>1, NodeType
<1>3. x \in DOMAIN d \/ CanMake(d, x) \/ Obstructed(d, x)
  BY <1>1, Placed
<1>4. CASE ~CanMake(d, x)
  <2>1. Make(d, x, Node("LNK", Permissions, Now, b.link)) = d
    BY <1>4 DEF Make
  <2> QED  BY <1>1, <1>3, <1>4, <2>1, PutNothing
<1>5. CASE CanMake(d, x)
  <2> DEFINE n == Node("LNK", Permissions, Now, b.link)
  <2>1. n \in Nodes /\ n.mode.type = "LNK" /\ n.data = old.data
    <3>1. n.mode.type = "LNK" /\ n.data = old.data
      BY <1>1 DEF Node
    <3> QED  BY <1>1, <1>2, <3>1, NewNodes
  <2> HIDE DEF n
  <2>2. Changed(d, Make(d, x, n), x, n) /\ x \notin DOMAIN d
    BY <1>1, <1>5, <2>1, Made
  <2>3. IsNode(n)
    BY <1>1, <2>1, NodeSame
  <2>4. MayPut(d, x, n, old)
    BY <1>1, <1>5, <2>1, <2>2, <2>3 DEF MayPut, Same
  <2>5. Put(d, Make(d, x, n), x, old, ow)
    BY <2>2, <2>4, PutNode
  <2> QED  BY <2>5 DEF n
<1> QED  BY <1>4, <1>5

(* restore_file: created or written over, then chstat; or left alone.        *)
LEMMA PutFile ==
    ASSUME NEW d, NEW b, NEW p, NEW x, NEW old, NEW ow, Entry(d, b, p, x, old),
           old.mode.type = "REG"
    PROVE  /\ ~CanCreate(d, x) => Put(d, d, x, old, ow)
           /\ CanCreate(d, x) =>
                Put(d, chstat([Create(d, x) EXCEPT ![x].data = old.data], b, {}), x, old, ow)
<1>1. /\ IsTree(d) /\ x \in Paths /\ x # <<>> /\ Ready(d, x) /\ IsNode(old)
      /\ d \in Trees /\ b.path = x
  BY EntrySays DEF Entry
<1>2. old.data \in Data
  BY <1>1, NodeType DEF Nodes
<1>3. x \in DOMAIN d \/ CanMake(d, x) \/ Obstructed(d, x)
  BY <1>1, Placed
<1>4. ASSUME ~CanCreate(d, x)
      PROVE  Put(d, d, x, old, ow)
  <2>1. ~CanMake(d, x) /\ (x \in DOMAIN d => d[x].mode.type # "REG")
    BY <1>4 DEF CanCreate
  <2> QED  BY <1>1, <1>3, <2>1, PutNothing
<1>5. ASSUME CanCreate(d, x)
      PROVE  Put(d, chstat([Create(d, x) EXCEPT ![x].data = old.data], b, {}), x, old, ow)
  <2> DEFINE v == [Create(d, x) EXCEPT ![x].data = old.data]
  <2>1. /\ v \in Trees
        /\ Grown(d, v, x)
        /\ DOMAIN v = DOMAIN d \cup {x}
        /\ v[x].data = old.data /\ v[x].mode.type = "REG"
        /\ \A q \in DOMAIN d : q # x /\ (x \in DOMAIN d \/ q # Front(x)) => v[q] = d[q]
    <3>1. Holding(d, x, old.data, v)
      BY <1>1, <1>2, <1>5, WrittenOf
    <3> HIDE DEF v
    <3> QED  BY <3>1 DEF Holding
  <2> HIDE DEF v
  <2>2. Changed(d, v, x, v[x])
    BY <2>1 DEF Changed, Grown
  <2>3. IsNode(v[x])
    <3>1. v[x] \in Nodes
      BY <2>1, TreeIs
    <3> QED  BY <1>1, <2>1, <3>1, NodeSame
  <2>4. /\ CanMake(d, x) \/ x \in DOMAIN d
        /\ x \in DOMAIN d => v[x].mode.type = d[x].mode.type
    BY <1>5, <2>1 DEF CanCreate, CanMake
  <2>5. Put(d, chstat(v, b, {}), x, old, ow)
    BY <2>1, <2>2, <2>3, <2>4, PutWithStat
  <2> QED  BY <2>5 DEF v
<1> QED  BY <1>4, <1>5

(* A restore at a header: which node of the source it is of, what comes      *)
(* after it, and that its directory has been dealt with.                     *)
CleanRestore ==
    /\ TypeInv /\ Control /\ InStep /\ Clean /\ WalkedWell /\ BroughtWell
    /\ job.mode = "restore"

(* The header that is read is that of a node of the source.                  *)
LEMMA HeaderRead ==
    ASSUME CleanRestore, AtHeader, NEW x, x = tar[at].path, NEW q, q = tar[at].part
    PROVE  /\ q \in Parts /\ IsTree(source[q]) /\ x \in DOMAIN source[q] /\ x \in Paths
           /\ IsNode(source[q][x]) /\ Storable(source[q][x]) /\ ~Long(x) /\ ~Overruns(x)
           /\ Describes(source, tar, at, q, x)
           /\ tar[at] = HeaderFor(q, x, source[q][x])
           /\ tar[at].size = Size(source[q][x]) /\ tar[at].size \in Nat
           /\ tar[at].type = source[q][x].mode.type
           /\ Skip(tar[at].size) = Blocks(tar[at].size)
           /\ Blocks(tar[at].size) \in Nat
           /\ tar[at].type # "REG" => Blocks(tar[at].size) = 0
<1>1. TypeInv /\ Control /\ Clean /\ WalkedWell
  BY DEF CleanRestore
<1>2. tar \in Seq(BlockSet) /\ at \in 1 .. Len(tar) /\ tar[at].kind = "header"
  BY <1>1, ReadHeader DEF AtHeader
<1>3. Faithful(source, tar)
  BY <1>1 DEF WalkedWell, HasFile, AtHeader
<1>4. Describes(source, tar, at, q, x)
  BY <1>2, <1>3 DEF Faithful
<1>5. q \in Parts /\ x \in DOMAIN source[q] /\ tar[at] = HeaderFor(q, x, source[q][x])
  BY <1>4 DEF Describes
<1>6. /\ IsTree(source[q]) /\ IsNode(source[q][x]) /\ x \in Paths
      /\ Storable(source[q][x]) /\ ~Long(x) /\ ~Overruns(x)
      /\ Size(source[q][x]) \in Nat /\ Size(source[q][x]) <= SizeModulus - Block
  BY <1>1, <1>5, CleanNode
<1>7. tar[at].size = Size(source[q][x]) /\ tar[at].type = source[q][x].mode.type
  <2>1. /\ HeaderFor(q, x, source[q][x]).size = Size(source[q][x])
        /\ HeaderFor(q, x, source[q][x]).type = source[q][x].mode.type
    BY DEF HeaderFor, Header
  <2> QED  BY <1>5, <2>1, Zenon
<1>8. /\ Skip(tar[at].size) = Blocks(tar[at].size) /\ Blocks(tar[at].size) \in Nat /\ Blocks(0) = 0
  BY <1>6, <1>7, BlocksOf
<1>9. tar[at].type # "REG" => tar[at].size = 0
  BY <1>7 DEF Size
<1> QED  BY <1>4, <1>5, <1>6, <1>7, <1>8, <1>9

(* Between a header and where the restore goes on there are no headers.      *)
LEMMA HeaderPassed ==
    ASSUME CleanRestore, AtHeader, NEW next, next = at + 1 + Blocks(tar[at].size)
    PROVE  /\ Passable(tar, mounted, at, next, tar[at].path)
           /\ next <= Len(tar) => tar[next].kind # "data"
<1> DEFINE x == tar[at].path
           q == tar[at].part
           N == Blocks(tar[at].size)
<1>1. /\ q \in Parts /\ x \in DOMAIN source[q] /\ x \in Paths
      /\ IsNode(source[q][x]) /\ ~Long(x) /\ ~Overruns(x)
      /\ Describes(source, tar, at, q, x) /\ N \in Nat
      /\ tar[at].size = Size(source[q][x])
  BY HeaderRead
<1>2. tar \in Seq(BlockSet) /\ at \in 1 .. Len(tar) /\ tar[at].kind = "header" /\ pc = "header"
  BY ReadHeader DEF AtHeader, CleanRestore
<1>3. \A k \in 1 .. N : tar[at + k] = DataBlock(source[q][x].data, k)
  BY <1>1 DEF Describes
<1>4. \A k \in 1 .. N : DataBlock(source[q][x].data, k).kind = "data"
  BY <1>1, EntryOf
<1> HIDE DEF N, x, q
<1>5. next \in Nat /\ next = at + 1 + N
  BY <1>1, <1>2 DEF N
<1>6. ASSUME NEW m \in 1 .. Len(tar), at < m, m < next
      PROVE  tar[m].kind # "header"
  <2>1. m - at \in 1 .. N /\ at + (m - at) = m
    BY <1>1, <1>2, <1>5, <1>6
  <2>2. tar[m].kind = "data"
    BY <1>3, <1>4, <2>1
  <2> QED  BY <2>2
<1>7. Passable(tar, mounted, at, next, x)
  BY <1>2, <1>5, <1>6 DEF Passable, x
<1>8. next <= Len(tar) => tar[next].kind # "data"
  <2>1. WellFormed(tar)
    BY <1>2 DEF CleanRestore, WalkedWell, InStep, HasFile
  <2>2. Sound(tar[at])
    BY <1>1, <1>2 DEF Sound, Overrun, x
  <2> QED  BY <1>2, <1>5, <2>1, <2>2 DEF WellFormed, N
<1> QED  BY <1>7, <1>8 DEF x

(* The directory of what is restored.                                        *)
LEMMA EntryReady ==
    ASSUME CleanRestore, AtHeader, ~Foreign(tar[at]), NEW x, x = tar[at].path
    PROVE  Entry(disk[mounted], tar[at], mounted, x, source[mounted][x])
<1>1. mounted \in Parts /\ tar[at].part = mounted /\ x # <<>> /\ at \in 1 .. Len(tar)
      /\ tar[at].kind = "header" /\ pc = "header" /\ tar \in Seq(BlockSet)
  BY ReadHeader DEF CleanRestore, AtHeader
<1>2. /\ IsTree(source[mounted]) /\ x \in DOMAIN source[mounted] /\ x \in Paths
      /\ IsNode(source[mounted][x]) /\ Storable(source[mounted][x]) /\ ~Long(x)
      /\ tar[at] = HeaderFor(mounted, x, source[mounted][x])
  BY <1>1, HeaderRead
<1>3. IsTree(disk[mounted])
  BY <1>1 DEF CleanRestore, BroughtWell, Additions
<1>4. RestoredUpTo(source[mounted], before[mounted], disk[mounted], tar, mounted, at, job.overwrite)
  BY <1>1 DEF CleanRestore, BroughtWell, Done
<1>5. ParentsFirst(tar)
  BY <1>1 DEF CleanRestore, WalkedWell, HasFile
<1>6. PICK m \in 1 .. at - 1 : IsEntry(tar, m, mounted, Front(x))
  BY <1>1, <1>5 DEF ParentsFirst
<1>7. m \in 1 .. Len(tar) /\ m < at
  BY <1>1, <1>6
<1>8. CASE Front(x) = <<>>
  BY <1>1, <1>2, <1>3, <1>8 DEF Entry, Ready, IsTree, IsDir
<1>9. CASE Front(x) # <<>>
  <2>1. Front(x) \in DOMAIN disk[mounted] \/ Obstructed(disk[mounted], Front(x))
    BY <1>4, <1>6, <1>7, <1>9 DEF RestoredUpTo, IsEntry
  <2> QED  BY <1>1, <1>2, <1>3, <2>1 DEF Entry, Ready
<1> QED  BY <1>8, <1>9

(* A turn of the restore at a header, when nothing fails.                    *)
Turn(u) ==
    /\ AtHeader /\ Going(u, at + 1 + Blocks(tar[at].size))
    /\ \/ Foreign(tar[at]) /\ u = disk[mounted]
       \/ ~Foreign(tar[at]) /\ Put(disk[mounted], u, tar[at].path,
                                   source[mounted][tar[at].path], job.overwrite)

(* skip_entry: of another partition, of the root, or of what exists.         *)
LEMMA SkipTurn ==
    ASSUME CleanRestore, skip_entry
    PROVE  \E u : Turn(u)
<1>1. /\ AtHeader /\ (Foreign(tar[at]) \/ Existing(tar[at], {}))
      /\ Going(disk[mounted], at + 1 + Skip(tar[at].size))
  <2>1. AtHeader /\ (Foreign(tar[at]) \/ Existing(tar[at], {}))
    BY DEF skip_entry
  <2> QED  BY <2>1, SkipGoes
<1>2. Skip(tar[at].size) = Blocks(tar[at].size)
  BY <1>1, HeaderRead
<1>3. CASE Foreign(tar[at])
  BY <1>1, <1>2, <1>3 DEF Turn
<1>4. CASE ~Foreign(tar[at])
  <2>1. tar[at].path \in DOMAIN disk[mounted] /\ ~job.overwrite
    BY <1>1, <1>4 DEF Existing
  <2>2. IsTree(disk[mounted])
    BY <1>1, <1>4, EntryReady DEF Entry
  <2>3. Put(disk[mounted], disk[mounted], tar[at].path, source[mounted][tar[at].path], job.overwrite)
    BY <2>1, <2>2, PutNothing
  <2> QED  BY <1>1, <1>2, <1>4, <2>3 DEF Turn
<1> QED  BY <1>3, <1>4

(* Nothing fails, and all the directories above are asked for.               *)
LEMMA NoFailure ==
    ASSUME Clean, NEW F, Fail(F), faults' = {}, NEW x, NEW made \in Parents(x, F)
    PROVE  F = {} /\ made = Len(x) - 1
<1>1. F = {}
  BY DEF Fail
<1> QED  BY <1>1 DEF Parents

(* What is to be restored, where, and at which block the restore goes on.    *)
LEMMA TurnEntry ==
    ASSUME CleanRestore, AtHeader, ~Foreign(tar[at]), NEW x, x = tar[at].path
    PROVE  /\ Entry(disk[mounted], tar[at], mounted, x, source[mounted][x])
           /\ source[mounted][x].mode.type = tar[at].type
           /\ ensure_parent_dirs_exist(disk[mounted], x, Len(x) - 1) = disk[mounted]
           /\ Skip(tar[at].size) = Blocks(tar[at].size)
           /\ tar[at].type # "REG" => at + 1 = at + 1 + Blocks(tar[at].size)
<1>1. Entry(disk[mounted], tar[at], mounted, x, source[mounted][x])
  BY EntryReady
<1>2. tar[at].type = source[mounted][x].mode.type
  BY <1>1, EntrySays
<1>3. ensure_parent_dirs_exist(disk[mounted], x, Len(x) - 1) = disk[mounted]
  BY <1>1, EnsureSame DEF Entry
<1>4. /\ Skip(tar[at].size) = Blocks(tar[at].size)
      /\ tar[at].type # "REG" => Blocks(tar[at].size) = 0
  BY HeaderRead
<1>5. at \in Nat
  BY DEF CleanRestore, TypeInv
<1> QED  BY <1>1, <1>2, <1>3, <1>4, <1>5

(* restore_directory is such a turn.                                         *)
LEMMA DirectoryTurn ==
    ASSUME CleanRestore, restore_directory, faults' = {}
    PROVE  \E u : Turn(u)
<1> DEFINE b == tar[at]
           x == tar[at].path
           d == disk[mounted]
<1>1. PICK F \in Failing({"getstat", "mkdir", "chstat mode", "chstat time"}), made \in 0 .. PathMax :
          LET t == ensure_parent_dirs_exist(d, x, made)
              v == IF "mkdir" \in F THEN t ELSE Mkdir(t, x)
          IN  /\ made \in Parents(x, F)
              /\ Fail(F)
              /\ Restored(chstat(v, b, F), at + 1, 0)
  BY DEF restore_directory
<1>2. AtHeader /\ b.type = "DIR" /\ ~Foreign(b)
  BY DEF restore_directory
<1>3. F = {} /\ made = Len(x) - 1
  BY <1>1, NoFailure DEF CleanRestore
<1>4. /\ Entry(d, b, mounted, x, source[mounted][x]) /\ source[mounted][x].mode.type = "DIR"
      /\ at + 1 = at + 1 + Blocks(b.size)
      /\ ensure_parent_dirs_exist(d, x, Len(x) - 1) = d
  BY <1>2, TurnEntry, Zenon
<1>5. Going(chstat(Mkdir(d, x), b, {}), at + 1)
  <2>1. "mkdir" \notin F
    BY <1>3
  <2>2. Fail(F) /\ Restored(chstat(Mkdir(d, x), b, {}), at + 1, 0)
    BY <1>1, <1>3, <1>4, <2>1
  <2> QED  BY <2>2, Goes
<1>6. Put(d, chstat(Mkdir(d, x), b, {}), x, source[mounted][x], job.overwrite)
  BY <1>4, PutDirectory
<1> HIDE DEF b, x, d
<1> QED  BY <1>2, <1>4, <1>5, <1>6 DEF Turn, b, x, d

(* restore_link is such a turn.                                              *)
LEMMA LinkTurn ==
    ASSUME CleanRestore, restore_link, faults' = {}
    PROVE  \E u : Turn(u)
<1> DEFINE b == tar[at]
           x == tar[at].path
           d == disk[mounted]
<1>1. PICK F \in Failing({"getstat", "mkdir", "symlink"}), made \in 0 .. PathMax :
          LET t == ensure_parent_dirs_exist(d, x, made)
          IN  /\ made \in Parents(x, F)
              /\ Fail(F)
              /\ Restored(IF "symlink" \in F THEN t
                          ELSE Make(t, x, Node("LNK", Permissions, Now, b.link)), at + 1, 0)
  BY DEF restore_link
<1>2. AtHeader /\ b.type = "LNK" /\ ~Foreign(b)
  BY DEF restore_link
<1>3. F = {} /\ made = Len(x) - 1
  BY <1>1, NoFailure DEF CleanRestore
<1>4. /\ Entry(d, b, mounted, x, source[mounted][x]) /\ source[mounted][x].mode.type = "LNK"
      /\ at + 1 = at + 1 + Blocks(b.size)
      /\ ensure_parent_dirs_exist(d, x, Len(x) - 1) = d
  BY <1>2, TurnEntry, Zenon
<1>5. Going(Make(d, x, Node("LNK", Permissions, Now, b.link)), at + 1)
  <2>1. "symlink" \notin F
    BY <1>3
  <2>2. Fail(F) /\ Restored(Make(d, x, Node("LNK", Permissions, Now, b.link)), at + 1, 0)
    BY <1>1, <1>3, <1>4, <2>1
  <2> QED  BY <2>2, Goes
<1>6. Put(d, Make(d, x, Node("LNK", Permissions, Now, b.link)), x, source[mounted][x], job.overwrite)
  BY <1>4, PutLink
<1> HIDE DEF b, x, d
<1> QED  BY <1>2, <1>4, <1>5, <1>6 DEF Turn, b, x, d

(* restore_file is such a turn: all the chunks are written.                  *)
LEMMA FileTurn ==
    ASSUME CleanRestore, restore_file, faults' = {}
    PROVE  \E u : Turn(u)
<1> DEFINE b == tar[at]
           x == tar[at].path
           d == disk[mounted]
           last == Blocks(b.size)
           old == source[mounted][x]
           data(W) == FlattenSeq([k \in 1 .. last |-> IF k \in W THEN Chunk(k, b.size) ELSE <<>>])
<1>0. ~(open >= MaxOpen)
  <2>1. AtHeader
    BY DEF restore_file
  <2>2. stack = <<>> /\ open = Len(stack)
    BY <2>1 DEF CleanRestore, Control, Phases, Descriptors, Clean, AtHeader, Walking
  <2> QED  BY <2>2, Bounds
<1>1. PICK F \in Failing({"getstat", "mkdir", "open", "write", "close", "chstat mode",
                      "chstat time"}),
           made \in 0 .. PathMax :
          LET t == ensure_parent_dirs_exist(d, x, made)
          IN  /\ ~Existing(b, F) /\ made \in Parents(x, F)
              /\ Fail(F)
              /\ IF "open" \in F \/ open >= MaxOpen \/ ~CanCreate(t, x)
                 THEN "close" \notin F /\ Restored(t, at + 1 + Skip(b.size), 0)
                 ELSE \E W \in SUBSET (1 .. last) :
                        LET v == [Create(t, x) EXCEPT ![x].data = data(W)]
                        IN  /\ W # 1 .. last => "write" \in F
                            /\ Restored(chstat(v, b, F), at + 1 + last,
                                        IF "close" \in F THEN 1 ELSE 0)
  BY DEF restore_file
<1>2. AtHeader /\ b.type = "REG" /\ ~Foreign(b)
  BY DEF restore_file
<1>3. F = {} /\ made = Len(x) - 1
  BY <1>1, NoFailure DEF CleanRestore
<1>4. Entry(d, b, mounted, x, old) /\ Skip(b.size) = last
  BY <1>2, TurnEntry, Zenon
<1>5. ensure_parent_dirs_exist(d, x, Len(x) - 1) = d
  BY <1>2, TurnEntry, Zenon
<1>6. old.mode.type = "REG"
  BY <1>2, TurnEntry, Zenon
<1>7. /\ ~CanCreate(d, x) => Put(d, d, x, old, job.overwrite)
      /\ CanCreate(d, x) =>
           Put(d, chstat([Create(d, x) EXCEPT ![x].data = old.data], b, {}), x, old, job.overwrite)
  BY <1>4, <1>6, PutFile
<1>8. /\ Skip(b.size) = last /\ b.size = Len(old.data)
      /\ old.data \in Seq(Int) /\ Describes(source, tar, at, mounted, x)
  <2>1. b.part = mounted /\ IsNode(old)
    BY <1>2, <1>4 DEF Foreign, Entry
  <2>2. old.data \in Seq(Int)
    BY <1>6, <2>1, NodeType
  <2>3. /\ Skip(b.size) = last /\ b.size = Size(old) /\ Describes(source, tar, at, mounted, x)
    BY <1>2, <2>1, HeaderRead
  <2> QED  BY <1>6, <2>2, <2>3 DEF Size
<1>9. data(1 .. last) = old.data
  <2>1. tar \in Seq(BlockSet) /\ at \in 1 .. Len(tar)
    BY <1>2, ReadHeader DEF CleanRestore
  <2>2. \A k \in 1 .. Blocks(Len(old.data)) :
           at + k <= Len(tar) /\ tar[at + k] = DataBlock(old.data, k)
    BY <1>6, <1>8 DEF Describes, Size
  <2>3. LET N == Blocks(Len(old.data)) IN
        FlattenSeq([k \in 1 .. N |-> IF k \in 1 .. N THEN Chunk(k, Len(old.data)) ELSE <<>>])
            = old.data
    BY <1>8, <2>1, <2>2, ChunksOf
  <2> QED  BY <1>8, <2>3
<1>10. "open" \notin F /\ "write" \notin F /\ "close" \notin F /\ ~(open >= MaxOpen)
  BY <1>0, <1>3, Zenon
<1> HIDE DEF data, b, x, d, old, last
<1>11. CASE ~CanCreate(d, x)
  <2>1. Going(d, at + 1 + Skip(b.size))
    <3>1. Fail(F) /\ Restored(d, at + 1 + Skip(b.size), 0)
      BY <1>1, <1>3, <1>5, <1>11
    <3> QED  BY <3>1, Goes
  <2> QED  BY <1>2, <1>7, <1>8, <1>11, <2>1 DEF Turn, b, x, d, old, last
<1>12. CASE CanCreate(d, x)
  <2>1. PICK W \in SUBSET (1 .. last) :
            /\ W # 1 .. last => "write" \in F
            /\ Restored(chstat([Create(d, x) EXCEPT ![x].data = data(W)], b, F), at + 1 + last, 0)
    BY <1>1, <1>3, <1>5, <1>10, <1>12
  <2>2. W = 1 .. last
    BY <1>10, <2>1
  <2>3. Going(chstat([Create(d, x) EXCEPT ![x].data = old.data], b, {}), at + 1 + last)
    <3>1. /\ Fail(F)
          /\ Restored(chstat([Create(d, x) EXCEPT ![x].data = old.data], b, {}), at + 1 + last, 0)
      BY <1>1, <1>3, <1>9, <2>1, <2>2
    <3> QED  BY <3>1, Goes
  <2> QED  BY <1>2, <1>7, <1>12, <2>3 DEF Turn, b, x, d, old, last
<1> QED  BY <1>11, <1>12

(* A turn of a restore keeps what it has brought back.                       *)
LEMMA BroughtTurn ==
    ASSUME CleanRestore, NEW u, Turn(u)
    PROVE  BroughtWell'
<1> DEFINE x == tar[at].path
           next == at + 1 + Blocks(tar[at].size)
<1>1. /\ TypeInv /\ Control /\ BroughtWell /\ AtHeader
  BY DEF CleanRestore, Turn
<1>2. /\ UNCHANGED <<pc, job, mounted, todo, tar, source, before>> /\ pc = "header"
      /\ disk' = [disk EXCEPT ![mounted] = u] /\ at' = next
  BY DEF Turn, Going, Restored, archive, history, AtHeader
<1>3. mounted \in Parts /\ todo \in Seq(Parts) /\ todo # <<>> /\ mounted = Head(todo)
      /\ disk \in [Parts -> Trees]
  BY <1>1, <1>2, Mounted DEF TypeInv, Control, Phases
<1>4. disk'[mounted] = u /\ \A p \in Parts : p # mounted => disk'[p] = disk[p]
  BY <1>2, <1>3
<1>5. mounted \in ToSet(todo)
  BY <1>3 DEF ToSet
<1>6. Passable(tar, mounted, at, next, x) /\ (next <= Len(tar) => tar[next].kind # "data")
  BY <1>1, HeaderPassed
<1> DEFINE S == source[mounted]
           b == before[mounted]
           d == disk[mounted]
<1> HIDE DEF x, next, S, b, d
<1>7. RestoredUpTo(S, b, d, tar, mounted, at, job.overwrite) /\ Additions(S, b, d)
  BY <1>1, <1>2, <1>3 DEF BroughtWell, Done, S, b, d
<1>8. Additions(S, b, u) /\ RestoredUpTo(S, b, u, tar, mounted, next, job.overwrite)
  <2>1. CASE Foreign(tar[at]) /\ u = d
    <3>1. tar[at].part # mounted \/ x = <<>>
      BY <2>1 DEF Foreign, x
    <3> QED  BY <1>6, <1>7, <2>1, <3>1, OthersPassed
  <2>2. CASE ~Foreign(tar[at]) /\ Put(d, u, x, S[x], job.overwrite)
    <3>1. Entry(d, tar[at], mounted, x, S[x])
      BY <1>1, <2>2, EntryReady DEF x, d, S
    <3>2. tar[at].part = mounted
      BY <2>2 DEF Foreign
    <3>3. IsTree(S) /\ x \in DOMAIN S /\ x \in Paths
      BY <1>1, <3>2, HeaderRead DEF x, S
    <3>4. Restorable(S, b, d, u, x, job.overwrite)
      BY <1>7, <2>2, <3>1, <3>3 DEF Restorable, Entry
    <3> QED  BY <1>6, <1>7, <3>4, AdditionsKept, RestoredPast
  <2> QED  BY <2>1, <2>2 DEF Turn, d, S, x
<1>9. \A p \in Parts : Additions(source'[p], before'[p], disk'[p])
  BY <1>1, <1>2, <1>4, <1>8 DEF BroughtWell, S, b
<1>10. Done(mounted, at)'
  BY <1>2, <1>4, <1>8 DEF Done, S, b
<1>11. \A p \in Parts : Selected(p)' /\ p \notin ToSet(todo') => Done(p, Len(tar) + 1)'
  <2> SUFFICES ASSUME NEW p \in Parts, Selected(p)', p \notin ToSet(todo')
               PROVE  Done(p, Len(tar) + 1)'
    OBVIOUS
  <2>1. Selected(p) /\ p \notin ToSet(todo)
    BY <1>2 DEF Selected
  <2>2. p # mounted
    BY <1>5, <2>1
  <2>3. Done(p, Len(tar) + 1)
    BY <1>1, <2>1 DEF BroughtWell
  <2> QED  BY <1>2, <1>4, <2>2, <2>3 DEF Done
<1>12. (InFile => tar[at].kind # "data")'
  BY <1>2, <1>6 DEF InFile
<1>13. pc' # "umount" /\ pc' # "idle"
  BY <1>2
<1> QED  BY <1>9, <1>10, <1>11, <1>12, <1>13 DEF BroughtWell

(* After the end of the archive there is nothing more to restore.            *)
LEMMA BroughtEnd ==
    ASSUME CleanRestore, restore_end
    PROVE  BroughtWell'
<1>1. /\ pc = "header" /\ pc' = "umount"
      /\ UNCHANGED <<job, disk, mounted, todo, tar, source, before>>
      /\ IF InFile THEN tar[at].kind = "zero" \/ (tar[at].kind = "data" /\ tar[at].bytes[1] = 0)
         ELSE TRUE
  BY DEF restore_end, archive, history
<1>2. TypeInv /\ Control /\ BroughtWell /\ WalkedWell
  BY DEF CleanRestore
<1>3. tar \in Seq(BlockSet) /\ at \in Nat \ {0} /\ Len(tar) \in Nat
  BY <1>1, <1>2 DEF TypeInv
<1>4. Ended(tar)
  BY <1>1, <1>2 DEF WalkedWell, HasFile
<1>5. Done(mounted, at) /\ (InFile => tar[at].kind # "data")
  BY <1>1, <1>2 DEF BroughtWell
<1>6. ASSUME NEW m \in 1 .. Len(tar), tar[m].kind = "header"
      PROVE  m < at
  <2> SUFFICES ASSUME ~(m < at) PROVE FALSE
    OBVIOUS
  <2>1. at \in 1 .. Len(tar) /\ InFile
    BY <1>3 DEF InFile
  <2>2. tar[at].kind = "zero"
    BY <1>1, <1>5, <2>1
  <2>3. m # at
    BY <1>6, <2>2
  <2>4. at < m
    BY <1>3, <2>3
  <2> QED  BY <1>4, <1>6, <2>1, <2>2, <2>4 DEF Ended
<1>7. Done(mounted, Len(tar) + 1)
  <2>1. \A m \in 1 .. Len(tar) : tar[m].kind = "header" => m < at
    BY <1>6
  <2> QED  BY <1>5, <2>1 DEF Done, RestoredUpTo
<1>8. Done(mounted, Len(tar) + 1)'
  BY <1>1, <1>7 DEF Done
<1>9. \A p \in Parts : Additions(source'[p], before'[p], disk'[p])
  BY <1>1, <1>2 DEF BroughtWell
<1>10. \A p \in Parts : Selected(p)' /\ p \notin ToSet(todo') => Done(p, Len(tar) + 1)'
  BY <1>1, <1>2 DEF BroughtWell, Selected, Done
<1>11. pc' # "header" /\ pc' # "idle"
  BY <1>1
<1> QED  BY <1>8, <1>9, <1>10, <1>11 DEF BroughtWell

(* Mounting the next partition, or passing over it.                          *)
LEMMA BroughtMount ==
    ASSUME CleanRestore, mount, faults' = {}
    PROVE  BroughtWell'
<1>1. TypeInv /\ Control /\ BroughtWell /\ WalkedWell /\ InStep /\ job.mode = "restore"
  BY DEF CleanRestore
<1>2. /\ pc = "part" /\ todo # <<>> /\ todo \in Seq(Parts) /\ at' = 1
      /\ UNCHANGED <<job, disk, tar, source, before>>
  BY <1>1 DEF mount, archive, history, TypeInv
<1>3. PICK F \in SUBSET {"mount"} :
          /\ Fail(IF Selected(Head(todo)) THEN F ELSE {})
          /\ IF ~Selected(Head(todo)) \/ F # {} \/ mounted # None
             THEN todo' = Tail(todo) /\ UNCHANGED <<pc, mounted>>
             ELSE /\ mounted' = Head(todo)
                  /\ pc' = IF job.mode = "backup" THEN "visit" ELSE "header"
                  /\ UNCHANGED todo
  BY DEF mount, Failing
<1>4. mounted = None /\ ~short /\ tar \in Seq(BlockSet)
  BY <1>1, <1>2 DEF WalkedWell, TypeInv
<1>5. Selected(Head(todo)) => F = {}
  BY <1>3 DEF Fail
<1>6. \A p \in Parts : Additions(source'[p], before'[p], disk'[p])
  BY <1>1, <1>2 DEF BroughtWell
<1>7. \A p \in Parts : Selected(p) /\ p \notin ToSet(todo) => Done(p, Len(tar) + 1)
  BY <1>1 DEF BroughtWell
<1>8. \A p \in Parts : Done(p, Len(tar) + 1) => Done(p, Len(tar) + 1)'
  BY <1>2 DEF Done
<1>9. \A p : Selected(p)' <=> Selected(p)
  BY <1>2 DEF Selected
<1>10. CASE ~Selected(Head(todo))
  <2>1. todo' = Tail(todo) /\ pc' = "part"
    BY <1>2, <1>3, <1>10
  <2>2. \A p \in Parts : Selected(p) /\ p \notin ToSet(todo') => p \notin ToSet(todo)
    BY <1>2, <1>10, <2>1, TailOf
  <2>3. pc' # "header" /\ pc' # "umount" /\ pc' # "idle"
    BY <2>1
  <2> QED  BY <1>6, <1>7, <1>8, <1>9, <2>2, <2>3 DEF BroughtWell
<1>11. CASE Selected(Head(todo))
  <2>1. todo' = todo /\ pc' = "header" /\ mounted' = Head(todo)
    BY <1>1, <1>3, <1>4, <1>5, <1>11
  <2>2. Done(mounted, at)'
    <3>1. \A m \in 1 .. Len(tar') : ~(m < at')
      BY <1>2
    <3> QED  BY <3>1 DEF Done, RestoredUpTo
  <2>3. (InFile => tar[at].kind # "data")'
    <3>1. WellFormed(tar)
      BY <1>1, <1>2, <1>4 DEF InStep, HasFile
    <3>2. 1 <= Len(tar) => tar # <<>>
      BY <1>4
    <3> QED  BY <1>2, <3>1, <3>2 DEF WellFormed, InFile
  <2>4. pc' # "umount" /\ pc' # "idle"
    BY <2>1
  <2> QED  BY <1>6, <1>7, <1>8, <1>9, <2>1, <2>2, <2>3, <2>4 DEF BroughtWell
<1> QED  BY <1>10, <1>11

(* A partition that has been restored is unmounted.                          *)
LEMMA BroughtUmount ==
    ASSUME CleanRestore, umount
    PROVE  BroughtWell'
<1>1. TypeInv /\ Control /\ BroughtWell
  BY DEF CleanRestore
<1>2. /\ pc = "umount" /\ pc' = "part" /\ todo' = Tail(todo) /\ todo \in Seq(Parts)
      /\ UNCHANGED <<job, disk, tar, source, before>>
  BY <1>1 DEF umount, archive, history, TypeInv
<1>3. todo # <<>> /\ mounted = Head(todo) /\ Done(mounted, Len(tar) + 1)
  BY <1>1, <1>2 DEF Control, Phases, BroughtWell
<1>4. \A p \in Parts : Additions(source'[p], before'[p], disk'[p])
  BY <1>1, <1>2 DEF BroughtWell
<1>5. \A p \in Parts : Selected(p) /\ p \notin ToSet(todo) => Done(p, Len(tar) + 1)
  BY <1>1 DEF BroughtWell
<1>6. \A p : Done(p, Len(tar) + 1) => Done(p, Len(tar) + 1)'
  BY <1>2 DEF Done
<1>7. \A p : Selected(p)' <=> Selected(p)
  BY <1>2 DEF Selected
<1>8. \A p \in Parts : Selected(p) /\ p \notin ToSet(todo') => Done(p, Len(tar) + 1)
  BY <1>2, <1>3, <1>5, TailOf
<1>9. pc' # "header" /\ pc' # "umount" /\ pc' # "idle"
  BY <1>2
<1> QED  BY <1>4, <1>6, <1>7, <1>8, <1>9 DEF BroughtWell

(* The end of a restore: all the partitions have been listed, and the tar    *)
(* file stays.                                                               *)
LEMMA BroughtMainEnd ==
    ASSUME CleanRestore, main_end, faults' = {}
    PROVE  BroughtWell'
<1>1. TypeInv /\ Control /\ BroughtWell /\ WalkedWell /\ job.mode = "restore"
  BY DEF CleanRestore
<1>2. /\ pc = "part" /\ pc' = "idle" /\ todo' = <<>>
      /\ UNCHANGED <<job, disk, source, before>>
  BY DEF main_end, history
<1>3. PICK F \in Failing({"dread", "fwrite"}) :
          LET end == IF job.mode = "backup" /\ "fwrite" \notin F
                     THEN tar \o <<Zero, Zero>> ELSE tar
          IN  /\ todo = <<>> \/ "dread" \in F
              /\ Fail(F)
              /\ tar' = IF Len(end) <= 2 THEN NoFile ELSE end
  BY DEF main_end
<1>4. F = {}
  BY <1>3 DEF Fail
<1>5. todo = <<>>
  BY <1>3, <1>4
<1>6. tar \in Seq(BlockSet) /\ Len(tar) > 2
  BY <1>1, <1>2 DEF WalkedWell, TypeInv
<1>7. tar' = tar
  <2>1. job.mode # "backup"
    BY <1>1
  <2>2. tar' = IF Len(tar) <= 2 THEN NoFile ELSE tar
    BY <1>3, <2>1
  <2>3. ~(Len(tar) <= 2)
    BY <1>6
  <2> QED  BY <2>2, <2>3
<1>8. \A p \in Parts : Additions(source'[p], before'[p], disk'[p])
  BY <1>1, <1>2 DEF BroughtWell
<1>9. \A p \in Parts : Selected(p) /\ p \notin ToSet(todo) => Done(p, Len(tar) + 1)
  BY <1>1 DEF BroughtWell
<1>10. \A p : Done(p, Len(tar) + 1) => Done(p, Len(tar) + 1)'
  BY <1>2, <1>7 DEF Done
<1>11. \A p : Selected(p)' <=> Selected(p)
  BY <1>2 DEF Selected
<1>12. pc' # "header" /\ pc' # "umount"
  BY <1>2
<1> QED  BY <1>2, <1>5, <1>8, <1>9, <1>10, <1>11, <1>12 DEF BroughtWell

(* A restore begins: nothing has been added to the disk yet.                 *)
LEMMA BroughtBegins ==
    ASSUME TypeInv, Control, job.mode = "restore" => BroughtWell,
           NEW part, NEW overwrite, main_restore(part, overwrite)
    PROVE  BroughtWell'
<1>1. /\ disk' \in IF restores = 0 THEN Targets ELSE {disk}
      /\ before' = disk' /\ todo' = Order /\ pc' = "part" /\ source' = source
  BY DEF main_restore
<1>2. \A p \in Parts : IsTree(disk'[p])
  <2>1. CASE disk' \in Targets
    BY <2>1, DiskType
  <2>2. CASE disk' = disk /\ job.mode = "restore"
    BY <2>2 DEF BroughtWell, Additions
  <2>3. CASE disk' = disk /\ job.mode # "restore"
    <3>1. disk' \in Disks
      BY <2>3 DEF Control, Phases, TypeInv
    <3> QED  BY <3>1, DiskType
  <2> QED  BY <1>1, <2>1, <2>2, <2>3
<1>3. \A S, d : IsTree(d) => Additions(S, d, d)
  BY DEF Additions
<1>4. \A p \in Parts : Additions(source'[p], before'[p], disk'[p])
  BY <1>1, <1>2, <1>3
<1>5. \A p \in Parts : p \in ToSet(todo')
  BY <1>1 DEF Parts
<1>6. pc' # "header" /\ pc' # "umount" /\ pc' # "idle"
  BY <1>1
<1> QED  BY <1>4, <1>5, <1>6 DEF BroughtWell

(* Every step keeps what the restores have brought back.                     *)
LEMMA BroughtStep ==
    TypeInv /\ Control /\ InStep /\ Walked /\ Brought /\ [Next]_vars => Brought'
<1> SUFFICES ASSUME TypeInv, Control, InStep, Walked, Brought, [Next]_vars, Clean',
                    job'.mode = "restore"
             PROVE  BroughtWell'
  BY DEF Brought
<1>1. Clean /\ WalkedWell /\ source' = source /\ faults' = {}
  BY CleanStep DEF Walked
<1>2. job.mode = "restore" => CleanRestore /\ BroughtWell
  BY <1>1 DEF Brought, CleanRestore
<1>3. ASSUME NEW part, main_backup(part)
      PROVE  BroughtWell'
  <2>1. job'.mode = "backup"
    BY <1>3 DEF main_backup
  <2> QED  BY <2>1
<1>4. ASSUME NEW part, NEW overwrite, main_restore(part, overwrite)
      PROVE  BroughtWell'
  BY <1>2, <1>4, BroughtBegins
<1>5. ASSUME mount \/ umount \/ main_end
      PROVE  BroughtWell'
  <2>1. job' = job
    BY <1>5 DEF mount, umount, main_end
  <2> QED  BY <1>1, <1>2, <1>5, <2>1, BroughtMount, BroughtUmount, BroughtMainEnd
<1>6. ASSUME do_wrapped_ftw \/ dread \/ unwind
      PROVE  BroughtWell'
  <2>1. job' = job /\ Walking
    BY <1>6 DEF do_wrapped_ftw, dread, unwind, Walking
  <2>2. job.mode = "backup"
    BY <2>1 DEF Control, Phases
  <2> QED  BY <2>1, <2>2
<1>7. ASSUME skip_entry \/ restore_end \/ misread
               \/ restore_directory \/ restore_link \/ restore_file
      PROVE  BroughtWell'
  <2>1. pc = "header"
    BY <1>7 DEF skip_entry, restore_end, misread, restore_directory, restore_link, restore_file,
                AtHeader
  <2>2. CleanRestore /\ BroughtWell
    BY <1>2, <2>1 DEF Control, Phases
  <2>3. ~misread
    BY <2>1, <2>2 DEF BroughtWell, misread
  <2>4. CASE restore_end
    BY <2>2, <2>4, BroughtEnd
  <2>5. CASE skip_entry \/ restore_directory \/ restore_link \/ restore_file
    <3>1. \E u : Turn(u)
      BY <1>1, <2>2, <2>5, SkipTurn, DirectoryTurn, LinkTurn, FileTurn
    <3> QED  BY <2>2, <3>1, BroughtTurn
  <2> QED  BY <1>7, <2>3, <2>4, <2>5
<1>8. CASE UNCHANGED vars
  BY <1>2, <1>8 DEF vars, BroughtWell, Done, Selected, InFile
<1> QED
  BY <1>3, <1>4, <1>5, <1>6, <1>7, <1>8 DEF Next

(* Fits says the same as Free.                                               *)
LEMMA FitsIsFree ==
    ASSUME NEW t, NEW path, NEW type, Fits(t, path, type)
    PROVE  Free(t, path, type, job.overwrite)
<1>1. \A k \in 1 .. Len(path) - 1 : k \in 0 .. Len(path) - 1
  OBVIOUS
<1> QED  BY <1>1 DEF Fits, Free, Obstructed, Upto

(* What has been brought back is what RoundTrip asks for.                    *)
LEMMA BroughtBack ==
    ASSUME TypeInv, Walked, Brought
    PROVE  RoundTrip
<1> SUFFICES ASSUME pc = "idle", job.mode = "restore", Clean,
                    NEW i \in DOMAIN tar, tar[i].kind = "header", Selected(tar[i].part),
                    NEW path \in DOMAIN source[tar[i].part] \ {<<>>},
                    Fits(before[tar[i].part], path, source[tar[i].part][path].mode.type)
             PROVE  Matches(disk[tar[i].part], path, source[tar[i].part][path])
  BY DEF RoundTrip, Clean, Matches
<1> DEFINE p == tar[i].part
<1>1. WalkedWell /\ BroughtWell
  BY DEF Walked, Brought
<1>2. tar # NoFile /\ tar \in Seq(BlockSet) /\ i \in 1 .. Len(tar)
  BY <1>1 DEF WalkedWell, TypeInv
<1>3. /\ Faithful(source, tar)
      /\ \A n \in 1 .. Len(tar) : tar[n].kind = "header" =>
            Complete(source[tar[n].part], tar, tar[n].part)
  BY <1>1, <1>2 DEF WalkedWell, HasFile, Walking
<1>4. p \in Parts
  BY <1>2, <1>3 DEF Faithful, Describes
<1>5. Listed(tar, p, path)
  BY <1>2, <1>3 DEF Complete
<1>6. PICK n \in 1 .. Len(tar) : IsEntry(tar, n, p, path)
  BY <1>5 DEF Listed
<1>7. todo = <<>>
  BY <1>1 DEF BroughtWell
<1>8. Done(p, Len(tar) + 1)
  <2>1. p \notin ToSet(todo)
    BY <1>7 DEF ToSet
  <2> QED  BY <1>1, <1>4, <2>1 DEF BroughtWell
<1>9. Free(before[p], path, source[p][path].mode.type, job.overwrite)
  BY FitsIsFree
<1>10. n < Len(tar) + 1
  BY <1>2, <1>6
<1> QED  BY <1>6, <1>8, <1>9, <1>10 DEF Done, RestoredUpTo, IsEntry

(* A backup in which no call fails, of disks that can be walked, is complete *)
(* and ordered: every header of the tar file is that of a node, with its     *)
(* data after it and the header of its directory before it; a partition that *)
(* has a header has one of each of its nodes when its walk is over; and the  *)
(* walk always ends by reading everything, with everything closed.           *)
THEOREM TarBackupComplete == Spec => []Walked
<1> DEFINE Inv == TypeInv /\ Control /\ Walked
<1>1. Init => Inv
  <2>1. Init => Walked
    BY DEF Init, Walked, WalkedWell, HasFile
  <2> QED  BY <2>1, InitControl
<1>2. Inv /\ [Next]_vars => Inv'
  BY ControlStep, WalkedStep
<1> QED  BY <1>1, <1>2, PTL DEF Spec

(* Backup and restore are inverse to each other: without a failed call,      *)
(* everything that was archived and fits is there after the restore, with    *)
(* its data, mode and time, whatever else the target has and with or without *)
(* --overwrite.                                                              *)
THEOREM TarRoundTrip == Spec => []RoundTrip
<1> DEFINE Inv == TypeInv /\ Control /\ InStep /\ Walked /\ Brought
<1>1. Init => Inv
  <2>1. Init => InStep
    BY DEF Init, InStep, HasFile
  <2>2. Init => Walked
    BY DEF Init, Walked, WalkedWell, HasFile
  <2>3. Init => Brought
    BY DEF Init, Brought
  <2> QED  BY <2>1, <2>2, <2>3, InitControl
<1>2. Inv /\ [Next]_vars => Inv'
  BY ControlStep, InStepStep, WalkedStep, BroughtStep
<1>3. Inv => RoundTrip
  BY BroughtBack
<1> QED  BY <1>1, <1>2, <1>3, PTL DEF Spec
==============================================================================
