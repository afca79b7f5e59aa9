---------------------------- MODULE ArchiveProofs ----------------------------
(***************************************************************************)
(* Theorems about Archive, for all commands, over whatever is on disk, and *)
(* wherever they are interrupted: nothing is lost outside the windows, and *)
(* in a window something is; and each path is as it was or as it should    *)
(* be.                                                                     *)
(*                                                                         *)
(* The invariant says that the directories form a tree.  A number for each *)
(* id, its depth, grows from a directory to what is in it, so that no walk *)
(* along names comes back to where it was, and what is deleted bottom-up   *)
(* is always a leaf.  Only that there are such numbers is said, not what   *)
(* they are.                                                               *)
(***************************************************************************)
EXTENDS Archive, FiniteSetTheorems, SequenceTheorems, InductionLemmas

-------------------------------------------------------------------------------
(* The least number not in use exists and is not in use. *)
LEMMA FreshIsFree ==
    ASSUME NEW used, used \subseteq Nat, IsFiniteSet(used)
    PROVE  Fresh(0, used) \in Nat \ used
<1> DEFINE k == Cardinality(used)
           T == (0 .. k) \ used
<1>1. k \in Nat
    BY FS_CardinalityType
<1>2. T # {}
  <2>1. SUFFICES ASSUME 0 .. k \subseteq used PROVE FALSE
      OBVIOUS
  <2>2. Cardinality(0 .. k) = k + 1
      BY <1>1, FS_Interval
  <2>3. Cardinality(0 .. k) <= k
      BY <2>1, FS_Subset
  <2>4. QED BY <1>1, <2>2, <2>3
<1>3. PICK m \in T : \A n \in T : m <= n
    BY <1>2, LeastNumber, T \subseteq Nat
<1>4. m \in 0 .. 0 + k /\ m \notin used /\ \A n \in 0 .. m - 1 : n \in used
    BY <1>1, <1>3
<1>5. /\ Fresh(0, used) \in 0 .. 0 + k
      /\ Fresh(0, used) \notin used
    BY <1>4 DEF Fresh
<1>6. QED BY <1>1, <1>5

-------------------------------------------------------------------------------
(***************************************************************************)
(* A tree of directories, T: for each directory the ids in it, by name.    *)
(* Every id of I but the root is in exactly one directory under one name,  *)
(* and deeper than its directory.                                          *)
(***************************************************************************)
IsTree(T, I, depth) ==
    /\ Root \in DOMAIN T /\ DOMAIN T \subseteq I
    /\ depth \in [I -> Nat]
    /\ \A d \in DOMAIN T : \A n \in DOMAIN T[d] :
         T[d][n] \in I \ {Root} /\ depth[d] < depth[T[d][n]]
    /\ \A c, d \in DOMAIN T : \A m \in DOMAIN T[c], n \in DOMAIN T[d] :
         T[c][m] = T[d][n] => c = d /\ m = n
    /\ \A id \in I \ {Root} : \E d \in DOMAIN T : \E n \in DOMAIN T[d] : T[d][n] = id

(* A new id under a new name. *)
LEMMA NamingKeepsTree ==
    ASSUME NEW T, NEW I, NEW depth, IsTree(T, I, depth),
           NEW d \in DOMAIN T, NEW name, name \notin DOMAIN T[d], NEW id, id \notin I,
           NEW U, DOMAIN U = DOMAIN T,
           \A c \in DOMAIN T : c # d => U[c] = T[c],
           DOMAIN U[d] = DOMAIN T[d] \cup {name},
           \A n \in DOMAIN T[d] : U[d][n] = T[d][n],
           U[d][name] = id
    PROVE  \E deeper : IsTree(U, I \cup {id}, deeper)
<1> DEFINE deeper == [i \in I \cup {id} |-> IF i = id THEN depth[d] + 1 ELSE depth[i]]
           J == I \cup {id}
<1>1. Root \in DOMAIN U /\ DOMAIN U \subseteq J
    BY DEF IsTree
<1>2. deeper \in [J -> Nat]
    BY DEF IsTree
<1>3. /\ \A i \in I : deeper[i] = depth[i]
      /\ deeper[id] = depth[d] + 1
      /\ d \in I
    BY DEF IsTree
<1> HIDE DEF deeper
<1>4. \A c \in DOMAIN U : \A n \in DOMAIN U[c] :
          (c = d /\ n = name /\ U[c][n] = id) \/ (n \in DOMAIN T[c] /\ U[c][n] = T[c][n])
    OBVIOUS
<1>5. ASSUME NEW c \in DOMAIN U, NEW n \in DOMAIN U[c]
      PROVE  U[c][n] \in J \ {Root} /\ deeper[c] < deeper[U[c][n]]
  <2>1. CASE c = d /\ n = name /\ U[c][n] = id
      BY <2>1, <1>3 DEF IsTree
  <2>2. CASE n \in DOMAIN T[c] /\ U[c][n] = T[c][n]
      BY <2>2, <1>3 DEF IsTree
  <2>3. QED BY <2>1, <2>2, <1>4
<1>6. ASSUME NEW b \in DOMAIN U, NEW c \in DOMAIN U, NEW m \in DOMAIN U[b], NEW n \in DOMAIN U[c],
             U[b][m] = U[c][n]
      PROVE  b = c /\ m = n
  <2>1. CASE b = d /\ m = name /\ U[b][m] = id
      BY <2>1, <1>4, <1>6 DEF IsTree
  <2>2. CASE c = d /\ n = name /\ U[c][n] = id
      BY <2>2, <1>4, <1>6 DEF IsTree
  <2>3. CASE /\ m \in DOMAIN T[b] /\ U[b][m] = T[b][m]
             /\ n \in DOMAIN T[c] /\ U[c][n] = T[c][n]
      BY <2>3, <1>6 DEF IsTree
  <2>4. QED BY <2>1, <2>2, <2>3, <1>4
<1>7. ASSUME NEW i \in J \ {Root}
      PROVE  \E c \in DOMAIN U : \E n \in DOMAIN U[c] : U[c][n] = i
  <2>1. CASE i = id
      BY <2>1
  <2>2. CASE i # id
    <3>1. PICK c \in DOMAIN T : \E n \in DOMAIN T[c] : T[c][n] = i
        BY <2>2 DEF IsTree
    <3>2. PICK n \in DOMAIN T[c] : T[c][n] = i
        BY <3>1
    <3>3. n \in DOMAIN U[c] /\ U[c][n] = i
        BY <3>2
    <3>4. QED BY <3>1, <3>3
  <2>3. QED BY <2>1, <2>2
<1>8. IsTree(U, J, deeper)
    BY <1>1, <1>2, <1>5, <1>6, <1>7 DEF IsTree
<1>9. QED BY <1>8

(* A directory that had no node block yet gets an empty one. *)
LEMMA EmptyDirKeepsTree ==
    ASSUME NEW T, NEW I, NEW depth, IsTree(T, I, depth),
           NEW id \in I, id \notin DOMAIN T,
           NEW U, DOMAIN U = DOMAIN T \cup {id}, \A c \in DOMAIN T : U[c] = T[c],
           DOMAIN U[id] = {}
    PROVE  IsTree(U, I, depth)
<1>1. \A c \in DOMAIN U : \A n \in DOMAIN U[c] :
          c \in DOMAIN T /\ n \in DOMAIN T[c] /\ U[c][n] = T[c][n]
    OBVIOUS
<1>2. \A i \in I \ {Root} : \E c \in DOMAIN U : \E n \in DOMAIN U[c] : U[c][n] = i
    BY DEF IsTree
<1>3. QED BY <1>1, <1>2 DEF IsTree

(* An id below which nothing is leaves the tree. *)
LEMMA RemovalKeepsTree ==
    ASSUME NEW T, NEW I, NEW depth, IsTree(T, I, depth),
           NEW d \in DOMAIN T, NEW name \in DOMAIN T[d], NEW id, T[d][name] = id,
           id \in DOMAIN T => DOMAIN T[id] = {},
           NEW U, DOMAIN U = DOMAIN T \ {id},
           \A c \in DOMAIN U : c # d => U[c] = T[c],
           DOMAIN U[d] = {m \in DOMAIN T[d] : T[d][m] # id},
           \A m \in DOMAIN U[d] : U[d][m] = T[d][m],
           NEW less \in [I \ {id} -> Nat], \A i \in I \ {id} : less[i] = depth[i]
    PROVE  IsTree(U, I \ {id}, less)
<1>1. id # Root /\ Root \in DOMAIN U /\ DOMAIN U \subseteq I \ {id}
    BY DEF IsTree
<1>2. \A c \in DOMAIN U : \A n \in DOMAIN U[c] :
          c \in DOMAIN T /\ n \in DOMAIN T[c] /\ U[c][n] = T[c][n] /\ U[c][n] # id
    BY DEF IsTree
<1>3. ASSUME NEW c \in DOMAIN U, NEW n \in DOMAIN U[c]
      PROVE  U[c][n] \in (I \ {id}) \ {Root} /\ less[c] < less[U[c][n]]
    BY <1>1, <1>2 DEF IsTree
<1>4. \A b, c \in DOMAIN U : \A m \in DOMAIN U[b], n \in DOMAIN U[c] :
          U[b][m] = U[c][n] => b = c /\ m = n
    BY <1>2 DEF IsTree
<1>5. ASSUME NEW i \in (I \ {id}) \ {Root}
      PROVE  \E c \in DOMAIN U : \E n \in DOMAIN U[c] : U[c][n] = i
  <2>1. PICK c \in DOMAIN T : \E n \in DOMAIN T[c] : T[c][n] = i
      BY DEF IsTree
  <2>2. PICK n \in DOMAIN T[c] : T[c][n] = i
      BY <2>1
  <2>3. c # id
      BY <2>2
  <2>4. c \in DOMAIN U /\ n \in DOMAIN U[c] /\ U[c][n] = i
      BY <2>2, <2>3
  <2>5. QED BY <2>4
<1>6. QED BY <1>1, <1>3, <1>4, <1>5 DEF IsTree
-------------------------------------------------------------------------------
(***************************************************************************)
(* The inductive invariant.  Between two steps the parts of the archive    *)
(* agree but for the entry the command is at: a directory whose node block *)
(* is not made yet, or a file whose data is not there yet or any more.     *)
(***************************************************************************)
Components ==
    UNION ( {Range(BaseDir)}
        \cup {Range(p) : p \in Paths \cup UNION {DOMAIN d : d \in Disks}}
        \cup {Range(arg) : arg \in UNION {Range(args) : args \in Arguments}} )

Routes == Seq(Components)

Frames == [path : Routes, id : Nat, parent : Nat, left : SUBSET Components]
Entries == [kind : Kinds, pointer : Nat]

InsertSteps == {"node", "free", "store", "point"}

(* What is stored. *)
StoredType ==
    /\ entry \in [DOMAIN entry -> Entries]
    /\ DOMAIN entry \subseteq Nat /\ IsFiniteSet(DOMAIN entry)
    /\ Root \in DOMAIN entry /\ entry[Root] = [kind |-> "dir", pointer |-> 0]
    /\ DOMAIN node \subseteq Nat /\ IsFiniteSet(DOMAIN node) /\ 0 \in DOMAIN node
    /\ \A b \in DOMAIN node :
         DOMAIN node[b] \subseteq Components /\ \A n \in DOMAIN node[b] : node[b][n] \in Nat
    /\ DOMAIN data \subseteq Nat \ {0} /\ IsFiniteSet(DOMAIN data)

(* What the process keeps. *)
CommandType ==
    /\ disk \in Disks \cup {NoDisk}
    /\ cmd \in [do : {"none", "insert", "delete"}, compress : BOOLEAN, args : Seq(Routes),
                path : Routes]
    /\ cmd.do = "none" => cmd = NoCommand
    /\ stack \in Seq(Frames)
    /\ now \in [path : Routes, id : Nat, chunk : Nat]
    /\ pc \in Steps
    /\ pc \in {"closed", "ended"} <=> cmd.do = "none"
    /\ cmd.do = "none" => stack = <<>>
    /\ pc \notin InsertSteps => now.path = <<>>
    /\ lost \in BOOLEAN

Pointer(id) == entry[id].pointer

(* The directories that have their node block, and the tree they are. *)
WithNode == {d \in Dirs : ~(pc = "node" /\ d = now.id)}
Hierarchy == [d \in WithNode |-> DirOf(d)]

NodesAgree ==
    /\ \A d \in WithNode : Pointer(d) \in DOMAIN node
    /\ \A d, e \in WithNode : Pointer(d) = Pointer(e) => d = e

(* The files whose data is missing, and the chunk no entry points to yet. *)
Bare(id) ==
    \/ pc \in {"store", "point"} /\ id = now.id
    \/ pc = "free" /\ id = now.id /\ Pointer(id) = 0
    \/ pc = "entry" /\ id = Top.id
Held == {c \in DOMAIN data : ~(pc = "point" /\ c = now.chunk)}

DataAgrees ==
    /\ \A f \in Files : Bare(f) <=> Pointer(f) \notin Held
    /\ \A f, g \in Files : Pointer(f) \in Held /\ Pointer(f) = Pointer(g) => f = g
    /\ \A c \in Held : \E f \in Files : Pointer(f) = c

(* Insertion: the frames are directories of the archive, and what is to be inserted in
   them is on disk. *)
OnDiskIn(dirs, f) ==
    /\ f.id \in dirs
    /\ \A name \in f.left : Append(f.path, name) \in DOMAIN disk
OnDisk(f) == OnDiskIn(WithNode, f)

Inserting ==
    cmd.do = "insert" =>
        /\ pc # "entry"
        /\ disk \in Disks
        /\ stack # <<>> => cmd.path \in DOMAIN disk
        /\ \A i \in 1 .. Len(stack) : OnDisk(stack[i])

AtWork ==
    pc \in InsertSteps =>
        /\ cmd.do = "insert" /\ stack # <<>>
        /\ now.id \in DOMAIN entry \ {Root}
        /\ now.path \in DOMAIN disk
        /\ IsDir(now.id) <=> pc = "node"
        /\ pc = "node" => Pointer(now.id) = 0
        /\ pc = "point" => now.chunk \in DOMAIN data

(* Deletion: the frames are a way down the tree.  What is left of a directory is what
   is still in it, but for the entry of the next frame. *)
Left(i) ==
    {n \in ToDelete(stack[i].id) :
        i < Len(stack) => DirOf(stack[i].id)[n] # stack[i + 1].id}

OnTheWayDown(i, depth) ==
    /\ stack[i].id \in DOMAIN entry \ {Root}
    /\ stack[i].left = Left(i)
    /\ stack[i].parent \in DOMAIN entry
    /\ IsDir(stack[i].id) => IsDir(stack[i].parent)
    /\ IsDir(stack[i].parent) =>
         \E n \in DOMAIN DirOf(stack[i].parent) : DirOf(stack[i].parent)[n] = stack[i].id
    /\ i > 1 => stack[i].parent = stack[i - 1].id /\ IsDir(stack[i].parent)
    /\ \A j \in 1 .. i - 1 : depth[stack[j].id] < depth[stack[i].id]

Deleting(depth) ==
    /\ cmd.do = "delete" => \A i \in 1 .. Len(stack) : OnTheWayDown(i, depth)
    /\ pc = "entry" => cmd.do = "delete" /\ stack # <<>> /\ Top.left = {}

Agreement ==
    /\ NodesAgree
    /\ DataAgrees
    /\ \E depth : IsTree(Hierarchy, DOMAIN entry, depth) /\ Deleting(depth)

IInv ==
    /\ StoredType
    /\ CommandType
    /\ Inserting
    /\ AtWork
    /\ ~lost => Agreement
    /\ lost => cmd.do = "none" /\ ~Whole

-------------------------------------------------------------------------------
(***************************************************************************)
(* The paths a command works on are sequences of the names of components.  *)
(***************************************************************************)
LEMMA ArgumentsAreRoutes ==
    /\ BaseDir \in Routes
    /\ \A args \in Arguments : args \in Seq(Routes) /\ \A i \in 1 .. Len(args) : args[i] # <<>>
    /\ \A d \in Disks : DOMAIN d \subseteq Routes
    /\ Paths \subseteq Routes
<1> DEFINE S == {Range(BaseDir)}
           P == {Range(p) : p \in Paths \cup UNION {DOMAIN d : d \in Disks}}
           A == {Range(arg) : arg \in UNION {Range(args) : args \in Arguments}}
<1>1. Components = UNION (S \cup P \cup A)
    BY DEF Components
<1> HIDE DEF S, P, A
<1>2. \A R \in S \cup P \cup A : R \subseteq Components
    BY <1>1
<1>3. BaseDir \in Routes
  <2>1. BaseDir \in Seq(Range(BaseDir)) /\ Range(BaseDir) \in S
      BY ArchiveAssumption DEF S
  <2>2. QED BY <2>1, <1>2, SeqMonotonic DEF Routes
<1>4. ASSUME NEW d \in Disks, NEW p \in DOMAIN d
      PROVE  p \in Routes
  <2>1. p \in Seq(Range(p)) /\ Range(p) \in P
      BY ArchiveAssumption DEF P
  <2>2. QED BY <2>1, <1>2, SeqMonotonic DEF Routes
<1>5. ASSUME NEW args \in Arguments
      PROVE  args \in Seq(Routes) /\ \A i \in 1 .. Len(args) : args[i] # <<>>
  <2>1. args \in Seq(Range(args))
      BY ArchiveAssumption
  <2>2. Len(args) \in Nat /\ DOMAIN args = 1 .. Len(args)
      BY <2>1, LenProperties
  <2>3. ASSUME NEW i \in 1 .. Len(args)
        PROVE  args[i] \in Routes /\ args[i] # <<>>
    <3>1. args[i] \in Seq(Range(args[i])) \ {<<>>}
        BY <2>2, ArchiveAssumption
    <3>2. args[i] \in Range(args)
        BY <2>2 DEF Range
    <3>3. Range(args[i]) \in A
        BY <3>2 DEF A
    <3>4. QED BY <3>1, <3>3, <1>2, SeqMonotonic DEF Routes
  <2>4. args \in [1 .. Len(args) -> Routes]
    <3>1. args \in [1 .. Len(args) -> Range(args)]
        BY <2>1, LenProperties
    <3>2. QED BY <3>1, <2>3
  <2>5. QED BY <2>2, <2>3, <2>4
<1>6. ASSUME NEW p \in Paths
      PROVE  p \in Routes
  <2>1. p \in Seq(Range(p)) /\ Range(p) \in P
      BY TreesAssumption DEF P
  <2>2. QED BY <2>1, <1>2, SeqMonotonic DEF Routes
<1>7. QED BY <1>3, <1>4, <1>5, <1>6

(* RealPath goes along the path, a component at a time. *)
LEMMA RealPathWalks ==
    ASSUME NEW path \in Routes
    PROVE  \E out \in [0 .. Len(path) -> Routes] :
             /\ out[0] = <<>>
             /\ \A n \in 1 .. Len(path) :
                  out[n] = IF path[n] = ".." THEN Front(out[n - 1])
                           ELSE IF path[n] = "." THEN out[n - 1]
                           ELSE Append(out[n - 1], path[n])
             /\ RealPath(path) = out[Len(path)]
<1> DEFINE N == Len(path)
           Walk(out, item) == IF item = ".." THEN Front(out)
                              ELSE IF item = "." THEN out ELSE Append(out, item)
           step == [x \in (1 .. N) \X Routes |-> Walk(x[2], path[x[1]])]
           Body(f) == [n \in 0 .. N |->
                         CASE n = 0                   -> <<>>
                           [] n > 0 /\ path[n] = ".." -> Front(f[n - 1])
                           [] n > 0 /\ path[n] = "."  -> f[n - 1]
                           [] OTHER                   -> Append(f[n - 1], path[n])]
           out == CHOOSE f : f = Body(f)
<1>1. N \in Nat /\ \A n \in 1 .. N : path[n] \in Components
    BY LenProperties, ElementOfSeq DEF Routes
<1>2. <<>> \in Routes
    BY EmptySeq DEF Routes
<1>3. ASSUME NEW r \in Routes, NEW item \in Components
      PROVE  Walk(r, item) \in Routes
  <2>1. Append(r, item) \in Routes
      BY AppendProperties DEF Routes
  <2>2. Front(r) \in Routes
    <3>1. \A i \in 1 .. Len(r) - 1 : r[i] \in Components
        BY LenProperties, ElementOfSeq DEF Routes
    <3>2. 1 \in Int /\ Len(r) - 1 \in Int
        BY LenProperties DEF Routes
    <3>3. SubSeq(r, 1, Len(r) - 1) \in Seq(Components)
        BY <3>1, <3>2, SubSeqProperties
    <3>4. QED BY <3>3 DEF Routes, Front
  <2>3. QED BY <2>1, <2>2
<1> HIDE DEF N
<1>4. step \in [(1 .. N) \X Routes -> Routes]
  <2>1. ASSUME NEW x \in (1 .. N) \X Routes PROVE Walk(x[2], path[x[1]]) \in Routes
    <3>1. x[2] \in Routes /\ path[x[1]] \in Components
        BY <1>1
    <3> HIDE DEF Walk
    <3>2. QED BY <3>1, <1>3
  <2>2. QED BY <2>1
<1>5. PICK f \in [0 .. N -> Routes] : GoesOn(f, N, <<>>, step)
  <2> HIDE DEF step
  <2>1. QED BY <1>1, <1>2, <1>4, RecursionExists
<1>6. f = Body(f)
  <2>1. ASSUME NEW n \in 1 .. N PROVE f[n] = Walk(f[n - 1], path[n])
    <3>1. <<n, f[n - 1]>> \in (1 .. N) \X Routes
        BY <1>5, <1>1
    <3>2. f[n] = step[<<n, f[n - 1]>>]
        BY <1>5 DEF GoesOn
    <3>3. QED BY <3>1, <3>2
  <2>2. f[0] = <<>>
      BY <1>5 DEF GoesOn
  <2>3. ASSUME NEW n \in 0 .. N PROVE f[n] = Body(f)[n]
    <3>1. CASE n = 0
        BY <3>1, <2>2
    <3>2. CASE n # 0
      <4>1. n \in 1 .. N
          BY <3>2, <1>1
      <4>2. Body(f)[n] = Walk(f[n - 1], path[n])
          BY <4>1
      <4>3. QED BY <4>1, <4>2, <2>1
    <3>3. QED BY <3>1, <3>2
  <2> DEFINE B == Body(f)
  <2>4. B = [n \in 0 .. N |-> B[n]]
      OBVIOUS
  <2>5. f = [n \in 0 .. N |-> f[n]]
      BY <1>5
  <2>6. \A n \in 0 .. N : f[n] = B[n]
      BY <2>3
  <2> HIDE DEF B
  <2>7. f = B
      BY <2>4, <2>5, <2>6
  <2>8. QED BY <2>7 DEF B
<1>7. out = Body(out)
  <2> HIDE DEF Body
  <2>1. QED BY <1>6
<1>8. RealPath(path) = out[N]
    BY DEF RealPath, N
<1> HIDE DEF out
<1>9. out[0] = <<>> /\ \A n \in 1 .. N : out[n] = Walk(out[n - 1], path[n])
  <2>1. out[0] = <<>>
      BY <1>7, <1>1
  <2>2. ASSUME NEW n \in 1 .. N PROVE out[n] = Walk(out[n - 1], path[n])
    <3>1. n \in 0 .. N /\ n > 0 /\ n # 0
        OBVIOUS
    <3>2. Body(out)[n] = Walk(out[n - 1], path[n])
        BY <3>1
    <3> HIDE DEF Body, Walk
    <3>3. QED BY <3>2, <1>7
  <2> HIDE DEF Walk
  <2>3. QED BY <2>1, <2>2
<1>10. \A n \in 0 .. N : out[n] \in Routes
  <2> DEFINE H == {n \in 0 .. N : out[n] \in Routes}
  <2>1. 0 \in H
      BY <1>1, <1>2, <1>9
  <2>2. ASSUME NEW n \in 1 .. N, n - 1 \in H PROVE n \in H
    <3>1. out[n - 1] \in Routes /\ path[n] \in Components
        BY <2>2, <1>1
    <3>2. Walk(out[n - 1], path[n]) \in Routes
      <4> HIDE DEF Walk
      <4>1. QED BY <3>1, <1>3
    <3>3. QED BY <3>2, <1>9
  <2> HIDE DEF H
  <2>3. \A n \in 0 .. N : n \in H
      BY <1>1, <2>1, <2>2, UpTo
  <2>4. QED BY <2>3 DEF H
<1>11. out \in [0 .. N -> Routes]
  <2>1. out = [n \in 0 .. N |-> out[n]]
    <3> DEFINE B == Body(out)
    <3>1. B = [n \in 0 .. N |-> B[n]]
        OBVIOUS
    <3> HIDE DEF B
    <3>2. QED BY <1>7, <3>1 DEF B
  <2>2. QED BY <1>10, <2>1
<1>12. QED BY <1>8, <1>9, <1>11 DEF N

LEMMA RealPathIsRoute ==
    ASSUME NEW path \in Routes
    PROVE  RealPath(path) \in Routes
<1>1. PICK out \in [0 .. Len(path) -> Routes] : RealPath(path) = out[Len(path)]
    BY RealPathWalks
<1>2. Len(path) \in 0 .. Len(path)
    BY LenProperties DEF Routes
<1>3. QED BY <1>1, <1>2

LEMMA FullPathIsRoute ==
    ASSUME NEW arg \in Routes, arg # <<>>
    PROVE  FullPath(arg) \in Routes
<1>1. Tail(arg) \in Routes
    BY HeadTailProperties DEF Routes
<1>2. BaseDir \o arg \in Routes
    BY ArgumentsAreRoutes, ConcatProperties DEF Routes
<1>3. QED BY <1>1, <1>2 DEF FullPath

LEMMA RelativeIsRoute ==
    ASSUME NEW path \in Routes
    PROVE  Relative(path) \in Routes
<1>1. PICK a \in Nat : a = Len(BaseDir) + 1 /\ a > 0
    BY ArgumentsAreRoutes, LenProperties DEF Routes
<1>2. PICK b \in Nat : b = Len(path)
    BY LenProperties DEF Routes
<1>3. \A i \in a .. b : path[i] \in Components
    BY <1>1, <1>2, ElementOfSeq DEF Routes
<1>4. SubSeq(path, a, b) \in Seq(Components)
    BY <1>3, SubSeqProperties
<1>5. QED BY <1>1, <1>2, <1>4 DEF Relative, Routes

(* CreateRelativePath goes along the arguments. *)
LEMMA RelativePathsWalk ==
    ASSUME NEW args \in Arguments
    PROVE  \E out \in [0 .. Len(args) -> Seq(Routes)] :
             /\ out[0] = <<>>
             /\ \A n \in 1 .. Len(args) : LET real == RealPath(FullPath(args[n])) IN
                  out[n] = IF LiesBelowBase(real) THEN Append(out[n - 1], Relative(real))
                           ELSE out[n - 1]
             /\ CreateRelativePath(args) = out[Len(args)]
<1> DEFINE N == Len(args)
           real == [i \in DOMAIN args |-> RealPath(FullPath(args[i]))]
           Walk(out, r) == IF LiesBelowBase(r) THEN Append(out, Relative(r)) ELSE out
           step == [x \in (1 .. N) \X Seq(Routes) |-> Walk(x[2], real[x[1]])]
           Body(f) == [n \in 0 .. N |->
                         CASE n = 0                            -> <<>>
                           [] n > 0 /\ LiesBelowBase(real[n]) -> Append(f[n - 1], Relative(real[n]))
                           [] OTHER                           -> f[n - 1]]
           out == CHOOSE f : f = Body(f)
<1>1. /\ N \in Nat /\ DOMAIN args = 1 .. N
      /\ \A n \in 1 .. N : args[n] \in Routes /\ args[n] # <<>>
    BY ArgumentsAreRoutes, LenProperties, ElementOfSeq
<1>2. \A n \in 1 .. N : real[n] \in Routes
    BY <1>1, FullPathIsRoute, RealPathIsRoute
<1>3. <<>> \in Seq(Routes)
    BY EmptySeq
<1>4. ASSUME NEW r \in Routes, NEW l \in Seq(Routes) PROVE Walk(l, r) \in Seq(Routes)
    BY RelativeIsRoute, AppendProperties
<1>5. CreateRelativePath(args) = out[N]
    BY DEF CreateRelativePath
<1> HIDE DEF N, real
<1>6. step \in [(1 .. N) \X Seq(Routes) -> Seq(Routes)]
  <2> HIDE DEF Walk
  <2>1. QED BY <1>2, <1>4
<1>7. PICK f \in [0 .. N -> Seq(Routes)] : GoesOn(f, N, <<>>, step)
  <2> HIDE DEF step
  <2>1. QED BY <1>1, <1>3, <1>6, RecursionExists
<1>8. f = Body(f)
  <2>1. ASSUME NEW n \in 1 .. N PROVE f[n] = Walk(f[n - 1], real[n])
    <3>1. <<n, f[n - 1]>> \in (1 .. N) \X Seq(Routes)
        BY <1>7, <1>1
    <3>2. f[n] = step[<<n, f[n - 1]>>]
        BY <1>7 DEF GoesOn
    <3> HIDE DEF Walk
    <3>3. QED BY <3>1, <3>2
  <2>2. ASSUME NEW n \in 0 .. N PROVE f[n] = Body(f)[n]
    <3>1. CASE n = 0
        BY <3>1, <1>7 DEF GoesOn
    <3>2. CASE n # 0
      <4>1. n \in 1 .. N
          BY <3>2, <1>1
      <4>2. Body(f)[n] = Walk(f[n - 1], real[n])
          BY <4>1
      <4>3. QED BY <4>1, <4>2, <2>1
    <3>3. QED BY <3>1, <3>2
  <2> DEFINE B == Body(f)
  <2>3. B = [n \in 0 .. N |-> B[n]]
      OBVIOUS
  <2>4. \A n \in 0 .. N : f[n] = B[n]
      BY <2>2
  <2> HIDE DEF B
  <2>5. f = B
      BY <2>3, <2>4, <1>7
  <2>6. QED BY <2>5 DEF B
<1>9. out = Body(out)
  <2> HIDE DEF Body
  <2>1. QED BY <1>8
<1> HIDE DEF out
<1>10. out[0] = <<>>
    BY <1>9, <1>1
<1>11. ASSUME NEW n \in 1 .. N PROVE out[n] = Walk(out[n - 1], real[n])
  <2>1. n \in 0 .. N /\ n > 0 /\ n # 0
      OBVIOUS
  <2>2. Body(out)[n] = Walk(out[n - 1], real[n])
      BY <2>1
  <2> HIDE DEF Body, Walk
  <2>3. QED BY <2>2, <1>9
<1> DEFINE H == {n \in 0 .. N : out[n] \in Seq(Routes)}
<1>12. 0 \in H
  <2>1. 0 \in 0 .. N
      BY <1>1
  <2>2. out[0] \in Seq(Routes)
      BY <1>3, <1>10
  <2> HIDE DEF Body, Walk, step
  <2>3. QED BY <2>1, <2>2
<1>13. ASSUME NEW n \in 1 .. N, n - 1 \in H PROVE n \in H
  <2>1. out[n - 1] \in Seq(Routes) /\ real[n] \in Routes
      BY <1>13, <1>2
  <2> HIDE DEF Walk
  <2>2. QED BY <2>1, <1>4, <1>11
<1> HIDE DEF H
<1>14. \A n \in 0 .. N : n \in H
    BY <1>1, <1>12, <1>13, UpTo
<1>15. out = [n \in 0 .. N |-> out[n]]
  <2> DEFINE B == Body(out)
  <2>1. B = [n \in 0 .. N |-> B[n]]
      OBVIOUS
  <2> HIDE DEF B
  <2>2. QED BY <1>9, <2>1 DEF B
<1>16. out \in [0 .. N -> Seq(Routes)]
  <2>1. \A n \in 0 .. N : out[n] \in Seq(Routes)
      BY <1>14 DEF H
  <2>2. QED BY <1>15, <2>1
<1>17. \A n \in 1 .. N : real[n] = RealPath(FullPath(args[n]))
    BY <1>1 DEF real
<1>18. QED BY <1>1, <1>5, <1>10, <1>11, <1>16, <1>17 DEF N

LEMMA RelativePathsAreRoutes ==
    ASSUME NEW args \in Arguments
    PROVE  CreateRelativePath(args) \in Seq(Routes)
<1>1. PICK out \in [0 .. Len(args) -> Seq(Routes)] : CreateRelativePath(args) = out[Len(args)]
    BY RelativePathsWalk
<1>2. Len(args) \in 0 .. Len(args)
    BY ArgumentsAreRoutes, LenProperties
<1>3. QED BY <1>1, <1>2
-------------------------------------------------------------------------------
(***************************************************************************)
(* Looking a path up ends at an entry of the archive, in the directory the *)
(* path without its last component leads to.  Or, below a file, at the     *)
(* file once more.                                                         *)
(***************************************************************************)
Places == {NotFound} \cup {Found(id) : id \in DOMAIN entry} \cup {Past(id) : id \in Files}

NamesLeadToEntries ==
    /\ Root \in DOMAIN entry
    /\ \A d \in Dirs : \A n \in DOMAIN DirOf(d) : DirOf(d)[n] \in DOMAIN entry \ {Root}

LEMMA ComponentKeepsPlace ==
    ASSUME NamesLeadToEntries, NEW at \in Places, NEW name
    PROVE  Component(at, name) \in Places
<1>1. CASE at = NotFound
    BY <1>1 DEF Component, NotFound, Places
<1>2. ASSUME NEW id \in DOMAIN entry, at = Found(id) PROVE Component(at, name) \in Places
  <2>1. at.found /\ ~at.past /\ at.id = id
      BY <1>2 DEF Found
  <2>2. CASE IsDir(id)
    <3>1. Component(at, name) = LookUp(at, name)
        BY <2>1, <2>2 DEF Component
    <3>2. id \in Dirs
        BY <2>2 DEF Dirs
    <3>3. QED BY <2>1, <3>1, <3>2 DEF LookUp, Places, NamesLeadToEntries
  <2>3. CASE ~IsDir(id)
    <3>1. Component(at, name) = Past(id)
        BY <2>1, <2>3 DEF Component
    <3>2. id \in Files
        BY <2>3 DEF Files, Dirs
    <3>3. QED BY <3>1, <3>2 DEF Places
  <2>4. QED BY <2>2, <2>3
<1>3. ASSUME NEW id \in Files, at = Past(id) PROVE Component(at, name) \in Places
  <2>1. at.past
      BY <1>3 DEF Past
  <2>2. Component(at, name) = NotFound
      BY <2>1 DEF Component
  <2>3. QED BY <2>2 DEF Places
<1>4. QED BY <1>1, <1>2, <1>3 DEF Places

(* GetEntry goes along the path, a component at a time. *)
LEMMA GetEntryWalks ==
    ASSUME NamesLeadToEntries, NEW path \in Routes
    PROVE  \E at \in [0 .. Len(path) -> Places] :
             /\ at[0] = Found(Root)
             /\ \A n \in 1 .. Len(path) : at[n] = Component(at[n - 1], path[n])
             /\ GetEntry(path) = at[Len(path)]
<1> DEFINE N == Len(path)
           step == [x \in (1 .. N) \X Places |-> Component(x[2], path[x[1]])]
           Body(f) == [n \in 0 .. N |-> IF n = 0 THEN Found(Root)
                                        ELSE Component(f[n - 1], path[n])]
           at == CHOOSE f : f = Body(f)
<1>1. N \in Nat
    BY LenProperties DEF Routes
<1>2. Found(Root) \in Places
    BY DEF Places, NamesLeadToEntries
<1>3. GetEntry(path) = at[N]
    BY DEF GetEntry
<1> HIDE DEF N
<1>4. step \in [(1 .. N) \X Places -> Places]
  <2>1. \A x \in (1 .. N) \X Places : Component(x[2], path[x[1]]) \in Places
      BY ComponentKeepsPlace
  <2>2. QED BY <2>1
<1>5. PICK f \in [0 .. N -> Places] : GoesOn(f, N, Found(Root), step)
  <2> HIDE DEF step
  <2>1. QED BY <1>1, <1>2, <1>4, RecursionExists
<1>6. \A n \in 1 .. N : f[n] = Component(f[n - 1], path[n])
  <2>1. ASSUME NEW n \in 1 .. N PROVE f[n] = Component(f[n - 1], path[n])
    <3>1. <<n, f[n - 1]>> \in (1 .. N) \X Places
        BY <1>5, <1>1
    <3>2. f[n] = step[<<n, f[n - 1]>>]
        BY <1>5 DEF GoesOn
    <3>3. QED BY <3>1, <3>2
  <2>2. QED BY <2>1
<1>7. f = Body(f)
  <2>1. \A n \in 0 .. N : f[n] = Body(f)[n]
      BY <1>5, <1>6, <1>1 DEF GoesOn
  <2> DEFINE B == Body(f)
  <2>2. B = [n \in 0 .. N |-> B[n]]
      OBVIOUS
  <2>3. \A n \in 0 .. N : f[n] = B[n]
      BY <2>1
  <2> HIDE DEF B
  <2>4. f = B
      BY <2>2, <2>3, <1>5
  <2>5. QED BY <2>4 DEF B
<1>8. at = Body(at)
  <2> HIDE DEF Body
  <2>1. QED BY <1>7
<1> HIDE DEF at
<1>9. at[0] = Found(Root) /\ \A n \in 1 .. N : at[n] = Component(at[n - 1], path[n])
  <2>1. at[0] = Found(Root)
      BY <1>8, <1>1
  <2>2. ASSUME NEW n \in 1 .. N PROVE at[n] = Component(at[n - 1], path[n])
    <3>1. n \in 0 .. N /\ n # 0
        OBVIOUS
    <3>2. Body(at)[n] = Component(at[n - 1], path[n])
        BY <3>1
    <3> HIDE DEF Body
    <3>3. QED BY <3>2, <1>8
  <2>3. QED BY <2>1, <2>2
<1> DEFINE H == {n \in 0 .. N : f[n] = at[n]}
<1>10. 0 \in H
    BY <1>1, <1>5, <1>9 DEF GoesOn
<1>11. \A n \in 1 .. N : n - 1 \in H => n \in H
    BY <1>6, <1>9
<1> HIDE DEF H
<1>12. \A n \in 0 .. N : n \in H
    BY <1>1, <1>10, <1>11, UpTo
<1>13. GetEntry(path) = f[N]
    BY <1>1, <1>3, <1>12 DEF H
<1>14. f[0] = Found(Root)
    BY <1>5 DEF GoesOn
<1>15. QED BY <1>6, <1>13, <1>14 DEF N

(* The last component is looked up where the path without it leads to. *)
LEMMA GetEntryOfFront ==
    ASSUME NamesLeadToEntries, NEW path \in Routes, path # <<>>
    PROVE  /\ Front(path) \in Routes
           /\ GetEntry(Front(path)) \in Places
           /\ GetEntry(path) = Component(GetEntry(Front(path)), Last(path))
<1>1. PICK N \in Nat : N = Len(path) /\ N > 0
    BY EmptySeq, LenProperties DEF Routes
<1>2. \A n \in 1 .. N : path[n] \in Components
    BY <1>1, ElementOfSeq DEF Routes
<1>3. /\ Front(path) \in Routes
      /\ Len(Front(path)) = N - 1
      /\ \A n \in 1 .. N - 1 : Front(path)[n] = path[n]
  <2>1. Front(path) = SubSeq(path, 1, N - 1)
      BY <1>1 DEF Front
  <2>2. 1 \in Int /\ N - 1 \in Int /\ \A n \in 1 .. N - 1 : path[n] \in Components
      BY <1>1, <1>2
  <2>3. /\ SubSeq(path, 1, N - 1) \in Seq(Components)
        /\ Len(SubSeq(path, 1, N - 1)) = IF 1 <= N - 1 THEN N - 1 - 1 + 1 ELSE 0
        /\ \A n \in 1 .. N - 1 - 1 + 1 : SubSeq(path, 1, N - 1)[n] = path[1 + n - 1]
      BY <2>2, SubSeqProperties
  <2>4. QED BY <1>1, <2>1, <2>3 DEF Routes
<1>4. PICK at \in [0 .. N -> Places] :
             /\ at[0] = Found(Root)
             /\ \A n \in 1 .. N : at[n] = Component(at[n - 1], path[n])
             /\ GetEntry(path) = at[N]
    BY <1>1, GetEntryWalks
<1>5. PICK up \in [0 .. N - 1 -> Places] :
             /\ up[0] = Found(Root)
             /\ \A n \in 1 .. N - 1 : up[n] = Component(up[n - 1], Front(path)[n])
             /\ GetEntry(Front(path)) = up[N - 1]
    BY <1>3, GetEntryWalks
<1> DEFINE H == {n \in 0 .. N - 1 : up[n] = at[n]}
<1>6. 0 \in H
    BY <1>1, <1>4, <1>5
<1>7. ASSUME NEW n \in 1 .. N - 1, n - 1 \in H PROVE n \in H
  <2>1. at[n] = Component(at[n - 1], path[n])
      BY <1>4
  <2>2. up[n] = Component(up[n - 1], path[n])
      BY <1>3, <1>5
  <2>3. QED BY <2>1, <2>2, <1>7
<1>8. N - 1 \in Nat
    BY <1>1
<1>9. up[N - 1] = at[N - 1]
  <2> HIDE DEF H
  <2>1. \A n \in 0 .. N - 1 : n \in H
      BY <1>6, <1>7, <1>8, UpTo
  <2>2. N - 1 \in H
      BY <2>1, <1>8
  <2>3. QED BY <2>2 DEF H
<1>10. at[N] = Component(at[N - 1], path[N])
    BY <1>1, <1>4
<1>11. Last(path) = path[N]
    BY <1>1 DEF Last
<1>12. up[N - 1] \in Places
    BY <1>5, <1>8
<1>13. QED BY <1>3, <1>4, <1>5, <1>9, <1>10, <1>11, <1>12

(* So what is found is an entry, and is named in the directory in front of it; if that
   is none, it is a file, found a second time. *)
LEMMA FoundIsNamed ==
    ASSUME NamesLeadToEntries, NEW path \in Routes, path # <<>>, GetEntry(path).found,
           \A f \in Files : f # Root
    PROVE  LET id == GetEntry(path).id
               up == GetEntry(Front(path)).id
           IN  /\ id \in DOMAIN entry \ {Root}
               /\ up \in DOMAIN entry
               /\ IsDir(up) => \E n \in DOMAIN DirOf(up) : DirOf(up)[n] = id
               /\ ~IsDir(up) => ~IsDir(id)
<1> DEFINE at == GetEntry(path)
           up == GetEntry(Front(path))
<1>1. up \in Places /\ at = Component(up, Last(path))
    BY GetEntryOfFront
<1> HIDE DEF at, up
<1>2. at.found
    BY DEF at
<1>3. up.found /\ ~up.past
  <2>1. SUFFICES ASSUME ~up.found \/ up.past PROVE FALSE
      OBVIOUS
  <2>2. at = NotFound
      BY <1>1, <2>1 DEF Component
  <2>3. QED BY <2>2, <1>2 DEF NotFound
<1>4. PICK i \in DOMAIN entry : up = Found(i)
    BY <1>1, <1>3 DEF Places, NotFound, Past
<1>5. up.id = i
    BY <1>4 DEF Found
<1>6. CASE IsDir(i)
  <2>1. at = LookUp(up, Last(path))
      BY <1>1, <1>3, <1>5, <1>6 DEF Component
  <2>2. Last(path) \in DOMAIN DirOf(i) /\ at = Found(DirOf(i)[Last(path)])
      BY <2>1, <1>2, <1>5 DEF LookUp, NotFound
  <2>3. at.id = DirOf(i)[Last(path)]
      BY <2>2 DEF Found
  <2>4. at.id \in DOMAIN entry \ {Root}
      BY <2>2, <2>3, <1>6 DEF NamesLeadToEntries, Dirs
  <2>5. QED BY <2>2, <2>3, <2>4, <1>5, <1>6 DEF at, up
<1>7. CASE ~IsDir(i)
  <2>1. at = Past(i)
      BY <1>1, <1>3, <1>5, <1>7 DEF Component
  <2>2. at.id = i
      BY <2>1 DEF Past
  <2>3. i # Root
      BY <1>7 DEF Files, Dirs
  <2>4. QED BY <2>2, <2>3, <1>5, <1>7 DEF at, up
<1>8. QED BY <1>6, <1>7
-------------------------------------------------------------------------------
(***************************************************************************)
(* Outside the windows agreement is what Whole says with cardinalities,    *)
(* inside of them Whole is false.                                          *)
(***************************************************************************)
LEMMA NoNodeMissing ==
    ASSUME StoredType, pc # "node", NEW depth, IsTree(Hierarchy, DOMAIN entry, depth)
    PROVE  /\ WithNode = Dirs
           /\ NamesLeadToEntries
           /\ \A f \in Files : f # Root
<1>1. WithNode = Dirs
    BY DEF WithNode
<1>2. DOMAIN Hierarchy = Dirs /\ \A d \in Dirs : Hierarchy[d] = DirOf(d)
    BY <1>1 DEF Hierarchy
<1>3. Root \in DOMAIN entry
    BY DEF StoredType
<1>4. ASSUME NEW d \in Dirs, NEW n \in DOMAIN DirOf(d)
      PROVE  DirOf(d)[n] \in DOMAIN entry \ {Root}
  <2>1. d \in DOMAIN Hierarchy /\ Hierarchy[d] = DirOf(d)
      BY <1>2
  <2>2. Hierarchy[d][n] \in DOMAIN entry \ {Root}
      BY <2>1 DEF IsTree
  <2>3. QED BY <2>1, <2>2
<1>5. \A f \in Files : f # Root
  <2>1. Root \in Dirs
      BY <1>2 DEF IsTree
  <2>2. QED BY <2>1 DEF Files
<1>6. QED BY <1>1, <1>3, <1>4, <1>5 DEF NamesLeadToEntries

LEMMA WholeIfAllAgree ==
    ASSUME StoredType, pc # "node", NodesAgree,
           NEW depth, IsTree(Hierarchy, DOMAIN entry, depth),
           \A f \in Files : Pointer(f) \in DOMAIN data,
           \A f, g \in Files : Pointer(f) = Pointer(g) => f = g,
           \A c \in DOMAIN data : \E f \in Files : Pointer(f) = c
    PROVE  Whole
<1>1. WithNode = Dirs /\ NamesLeadToEntries
    BY NoNodeMissing
<1>2. DOMAIN Hierarchy = Dirs /\ \A d \in Dirs : Hierarchy[d] = DirOf(d)
    BY <1>1 DEF Hierarchy
<1>3. /\ \A d \in Dirs : entry[d].pointer \in DOMAIN node
      /\ \A d, e \in Dirs : d # e => entry[d].pointer # entry[e].pointer
    BY <1>1 DEF NodesAgree, Pointer
<1>4. {entry[f].pointer : f \in Files} = DOMAIN data
  <2>1. \A f \in Files : entry[f].pointer \in DOMAIN data
      BY DEF Pointer
  <2>2. ASSUME NEW c \in DOMAIN data PROVE c \in {entry[f].pointer : f \in Files}
    <3>1. PICK f \in Files : Pointer(f) = c
        OBVIOUS
    <3>2. QED BY <3>1 DEF Pointer
  <2> DEFINE P == {entry[f].pointer : f \in Files}
  <2>3. P \subseteq DOMAIN data
      BY <2>1
  <2>4. DOMAIN data \subseteq P
      BY <2>2
  <2> HIDE DEF P
  <2>5. P = DOMAIN data
      BY <2>3, <2>4
  <2>6. QED BY <2>5 DEF P
<1>5. IsFiniteSet(DOMAIN entry) /\ IsFiniteSet(DOMAIN data) /\ Root \in DOMAIN entry
    BY DEF StoredType
<1>6. Cardinality(Files) = Cardinality(DOMAIN data)
  <2> DEFINE f == [i \in Files |-> Pointer(i)]
  <2>1. f \in [Files -> DOMAIN data]
      OBVIOUS
  <2>2. f \in Injection(Files, DOMAIN data) /\ f \in Surjection(Files, DOMAIN data)
      BY <2>1 DEF Injection, Surjection, IsInjective
  <2>3. QED BY <2>2, <1>5, FS_Injection
<1>7. \A d \in Dirs : \A n \in DOMAIN DirOf(d) : DirOf(d)[n] \in DOMAIN entry \ {Root}
    BY <1>1 DEF NamesLeadToEntries
<1>8. \A c, d \in Dirs : \A m \in DOMAIN DirOf(c), n \in DOMAIN DirOf(d) :
          DirOf(c)[m] = DirOf(d)[n] => c = d /\ m = n
  <2>1. \A c, d \in DOMAIN Hierarchy : \A m \in DOMAIN Hierarchy[c], n \in DOMAIN Hierarchy[d] :
            Hierarchy[c][m] = Hierarchy[d][n] => c = d /\ m = n
      BY DEF IsTree
  <2>2. QED BY <2>1, <1>2
<1>9. \A i \in DOMAIN entry \ {Root} : \E d \in Dirs : \E n \in DOMAIN DirOf(d) : DirOf(d)[n] = i
  <2>1. \A i \in DOMAIN entry \ {Root} :
            \E d \in DOMAIN Hierarchy : \E n \in DOMAIN Hierarchy[d] : Hierarchy[d][n] = i
      BY DEF IsTree
  <2>2. QED BY <2>1, <1>2
<1> DEFINE T == DOMAIN entry \ {Root}
           g == [p \in Named |-> DirOf(p[1])[p[2]]]
<1>10. \A p \in Named : /\ p = <<p[1], p[2]>>
                        /\ p[1] \in Dirs /\ p[2] \in DOMAIN DirOf(p[1])
    BY DEF Named
<1>11. \A d \in Dirs : \A n \in DOMAIN DirOf(d) : <<d, n>> \in Named
    BY DEF Named
<1> HIDE DEF T
<1>12. g \in [Named -> T]
  <2>1. \A p \in Named : DirOf(p[1])[p[2]] \in T
      BY <1>7, <1>10 DEF T
  <2>2. QED BY <2>1
<1>13. \A i \in T : \E p \in Named : g[p] = i
  <2>1. ASSUME NEW i \in T PROVE \E p \in Named : g[p] = i
    <3>1. PICK d \in Dirs : \E n \in DOMAIN DirOf(d) : DirOf(d)[n] = i
        BY <1>9 DEF T
    <3>2. PICK n \in DOMAIN DirOf(d) : DirOf(d)[n] = i
        BY <3>1
    <3>3. <<d, n>> \in Named
        BY <1>11
    <3>4. g[<<d, n>>] = i
        BY <3>2, <3>3
    <3>5. QED BY <3>3, <3>4
  <2>2. QED BY <2>1
<1>14. \A p, q \in Named : g[p] = g[q] => p = q
    BY <1>8, <1>10
<1>15. {DirOf(p[1])[p[2]] : p \in Named} = T
  <2>1. \A p \in Named : g[p] = DirOf(p[1])[p[2]]
      OBVIOUS
  <2> HIDE DEF g
  <2>2. QED BY <2>1, <1>12, <1>13
<1>16. Cardinality(Named) = Cardinality(T)
  <2> HIDE DEF g
  <2>1. g \in Injection(Named, T) /\ g \in Surjection(Named, T)
      BY <1>12, <1>13, <1>14 DEF Injection, Surjection, IsInjective
  <2>2. IsFiniteSet(T)
      BY <1>5, FS_RemoveElement DEF T
  <2>3. QED BY <2>1, <2>2, FS_Injection
<1>17. Cardinality(T) = Cardinality(DOMAIN entry) - 1
    BY <1>5, FS_RemoveElement DEF T
<1>18. QED BY <1>3, <1>4, <1>6, <1>15, <1>16, <1>17 DEF Whole, T

LEMMA AllAgreeOutsideWindows ==
    ASSUME IInv, ~lost, ~InWindow
    PROVE  /\ pc # "node"
           /\ \A f \in Files : Pointer(f) \in DOMAIN data
           /\ \A f, g \in Files : Pointer(f) = Pointer(g) => f = g
           /\ \A c \in DOMAIN data : \E f \in Files : Pointer(f) = c
<1>1. DataAgrees
    BY DEF IInv, Agreement
<1>2. pc # "node" /\ pc # "store"
    BY DEF InWindow
<1>3. CASE pc = "point"
  <2>1. /\ now.id \in Files
        /\ now.chunk \in DOMAIN data
        /\ Pointer(now.id) = now.chunk
      BY <1>3 DEF IInv, AtWork, InWindow, Files, Dirs, InsertSteps, Pointer
  <2>2. Held = DOMAIN data \ {now.chunk}
      BY <1>3 DEF Held
  <2>3. \A f \in Files : Bare(f) <=> f = now.id
      BY <1>3 DEF Bare
  <2>4. \A f \in Files : f # now.id => Pointer(f) \in Held
      BY <1>1, <2>3 DEF DataAgrees
  <2>5. QED BY <1>1, <1>2, <2>1, <2>2, <2>4 DEF DataAgrees
<1>4. CASE pc # "point"
  <2>1. Held = DOMAIN data
      BY <1>4 DEF Held
  <2>2. \A f \in Files : ~Bare(f)
    <3>1. ASSUME NEW f \in Files, Bare(f) PROVE FALSE
      <4>1. ~IsDir(f)
          BY DEF Files, Dirs
      <4>2. QED BY <4>1, <3>1, <1>2, <1>4 DEF Bare, InWindow, Pointer
    <3>2. QED BY <3>1
  <2>3. QED BY <1>1, <1>2, <2>1, <2>2 DEF DataAgrees
<1>5. QED BY <1>3, <1>4

LEMMA WholeOutsideWindows ==
    ASSUME IInv, ~lost, ~InWindow
    PROVE  Whole
<1>1. StoredType /\ NodesAgree /\ \E depth : IsTree(Hierarchy, DOMAIN entry, depth)
    BY DEF IInv, Agreement
<1>2. PICK depth : IsTree(Hierarchy, DOMAIN entry, depth)
    BY <1>1
<1>3. QED BY <1>1, <1>2, AllAgreeOutsideWindows, WholeIfAllAgree

LEMMA NotWholeInWindows ==
    ASSUME IInv, ~lost, InWindow
    PROVE  ~Whole
<1>1. StoredType /\ DataAgrees /\ AtWork
    BY DEF IInv, Agreement
<1>2. CASE pc = "node"
  <2>1. now.id \in Dirs /\ now.id # Root /\ Pointer(now.id) = 0
      BY <1>1, <1>2 DEF AtWork, InsertSteps, Dirs
  <2>2. Root \in Dirs /\ Pointer(Root) = 0
      BY <1>1 DEF StoredType, Dirs, IsDir, Pointer
  <2>3. QED BY <2>1, <2>2 DEF Whole, Pointer
<1>3. CASE pc # "node"
  <2>1. \E f \in Files : Pointer(f) \notin DOMAIN data
    <3>1. CASE pc \in InsertSteps
      <4>1. now.id \in Files
          BY <1>1, <1>3, <3>1 DEF AtWork, Files, Dirs
      <4>2. Bare(now.id)
          BY <1>3, <3>1 DEF InWindow, Bare, Pointer, InsertSteps
      <4>3. Pointer(now.id) \notin Held
          BY <4>1, <4>2, <1>1 DEF DataAgrees
      <4>4. Pointer(now.id) \notin DOMAIN data
          BY <4>3, <1>3, <3>1 DEF Held, InWindow, Pointer, InsertSteps
      <4>5. QED BY <4>1, <4>4
    <3>2. CASE pc \notin InsertSteps
      <4>1. pc = "entry" /\ ~IsDir(Top.id)
          BY <3>2 DEF InWindow, InsertSteps
      <4>2. stack # <<>> /\ cmd.do = "delete"
          BY <4>1 DEF IInv, Agreement, Deleting
      <4>3. Top.id \in DOMAIN entry
        <5>1. \E depth : Deleting(depth)
            BY DEF IInv, Agreement
        <5>2. PICK L \in Nat : L = Len(stack) /\ L > 0
            BY <4>2, EmptySeq, LenProperties DEF IInv, CommandType
        <5>3. stack[L].id \in DOMAIN entry
            BY <4>2, <5>1, <5>2 DEF Deleting, OnTheWayDown
        <5>4. QED BY <5>2, <5>3 DEF Top, Last
      <4>4. Top.id \in Files
          BY <4>1, <4>3 DEF Files, Dirs
      <4>5. Bare(Top.id)
          BY <4>1 DEF Bare
      <4>6. Held = DOMAIN data
          BY <4>1 DEF Held
      <4>7. QED BY <4>4, <4>5, <4>6, <1>1 DEF DataAgrees
    <3>3. QED BY <3>1, <3>2
  <2>2. QED BY <2>1 DEF Whole, Pointer
<1>4. QED BY <1>2, <1>3
-------------------------------------------------------------------------------
(***************************************************************************)
(* The frames of the recursion, and what there is to insert in them.       *)
(***************************************************************************)
LEMMA LongerPrefix ==
    ASSUME NEW q \in Routes, NEW n \in 1 .. Len(q)
    PROVE  SubSeq(q, 1, n) = Append(SubSeq(q, 1, n - 1), q[n])
<1>1. /\ Len(q) \in Nat /\ 1 \in 1 .. Len(q) /\ n \in 1 .. Len(q) /\ q \in Seq(Components)
      /\ q[n] \in Components
    BY LenProperties, ElementOfSeq DEF Routes
<1>2. SubSeq(q, 1, n) = SubSeq(q, 1, n - 1) \o <<q[n]>>
    BY <1>1, SubSeqRecursiveSecond
<1>3. SubSeq(q, 1, n - 1) \in Seq(Components)
  <2>1. \A i \in 1 .. n - 1 : q[i] \in Components
      BY <1>1, ElementOfSeq
  <2>2. 1 \in Int /\ n - 1 \in Int
      BY <1>1
  <2>3. QED BY <2>1, <2>2, SubSeqProperties
<1>4. Append(SubSeq(q, 1, n - 1), q[n]) = SubSeq(q, 1, n - 1) \o <<q[n]>>
    BY <1>1, <1>3, AppendIsConcat
<1>5. QED BY <1>2, <1>4

LEMMA OnePathOn ==
    ASSUME NEW p \in Routes, NEW q \in Routes, IsStrictPrefix(p, q)
    PROVE  /\ q[Len(p) + 1] \in Components
           /\ Append(p, q[Len(p) + 1]) \in Prefixes(q)
<1>1. PICK k \in Nat : k = Len(p)
    BY LenProperties DEF Routes
<1>2. PICK l \in Nat : l = Len(q)
    BY LenProperties DEF Routes
<1>3. k <= l /\ SubSeq(p, 1, k) = SubSeq(q, 1, k) /\ p # q
    BY <1>1, <1>2 DEF IsStrictPrefix, IsPrefix
<1>4. SubSeq(p, 1, k) = p /\ SubSeq(q, 1, l) = q
    BY <1>1, <1>2, SubSeqFull DEF Routes
<1>5. k + 1 \in 1 .. l
    BY <1>3, <1>4
<1>6. SubSeq(q, 1, k + 1) = Append(SubSeq(q, 1, k + 1 - 1), q[k + 1])
    BY <1>2, <1>5, LongerPrefix
<1>7. SubSeq(q, 1, k + 1) = Append(p, q[k + 1])
    BY <1>3, <1>4, <1>6
<1>8. q[k + 1] \in Components
    BY <1>2, <1>5, ElementOfSeq DEF Routes
<1>9. SubSeq(q, 1, k + 1) \in Prefixes(q)
    BY <1>2, <1>5 DEF Prefixes
<1>10. QED BY <1>1, <1>7, <1>8, <1>9

LEMMA FrontAndLast ==
    ASSUME NEW q \in Routes, q # <<>>
    PROVE  Last(q) \in Components /\ q = Append(Front(q), Last(q))
<1>1. PICK l \in Nat : l = Len(q) /\ l > 0
    BY EmptySeq, LenProperties DEF Routes
<1>2. SubSeq(q, 1, l) = Append(SubSeq(q, 1, l - 1), q[l])
    BY <1>1, LongerPrefix
<1>3. SubSeq(q, 1, l) = q
    BY <1>1, SubSeqFull DEF Routes
<1>4. q[l] \in Components
    BY <1>1, ElementOfSeq DEF Routes
<1>5. QED BY <1>1, <1>2, <1>3, <1>4 DEF Front, Last

LEMMA NamesBelowAreOnDisk ==
    ASSUME disk \in Disks, NEW path \in Routes
    PROVE  /\ NamesBelow(path) \subseteq Components
           /\ \A name \in NamesBelow(path) : Append(path, name) \in DOMAIN disk
<1>1. ASSUME NEW name \in NamesBelow(path)
      PROVE  name \in Components /\ Append(path, name) \in DOMAIN disk
  <2>1. PICK q \in DOMAIN disk : q # <<>> /\ Front(q) = path /\ name = Last(q)
      BY DEF NamesBelow
  <2>2. q \in Routes
      BY ArgumentsAreRoutes
  <2>3. QED BY <2>1, <2>2, FrontAndLast
<1>2. QED BY <1>1

LEMMA ToInsertIsOnDisk ==
    ASSUME disk \in Disks, cmd.path \in DOMAIN disk, NEW path \in Routes
    PROVE  /\ ToInsert(path) \subseteq Components
           /\ \A name \in ToInsert(path) : Append(path, name) \in DOMAIN disk
<1>1. cmd.path \in Routes /\ Prefixes(cmd.path) \subseteq DOMAIN disk
    BY ArgumentsAreRoutes, ArchiveAssumption
<1>2. CASE IsStrictPrefix(path, cmd.path)
    BY <1>1, <1>2, OnePathOn DEF ToInsert
<1>3. CASE ~IsStrictPrefix(path, cmd.path)
    BY <1>3, NamesBelowAreOnDisk DEF ToInsert
<1>4. QED BY <1>2, <1>3

LEMMA FirstNameIsOnDisk ==
    ASSUME disk \in Disks, NEW path \in DOMAIN disk, path # <<>>
    PROVE  Head(path) \in Components /\ Append(<<>>, Head(path)) \in DOMAIN disk
<1>1. path \in Routes /\ Prefixes(path) \subseteq DOMAIN disk
    BY ArgumentsAreRoutes, ArchiveAssumption
<1>2. PICK l \in Nat : l = Len(path) /\ l > 0
    BY <1>1, EmptySeq, LenProperties DEF Routes
<1>3. SubSeq(path, 1, 1) = Append(SubSeq(path, 1, 1 - 1), path[1])
    BY <1>1, <1>2, LongerPrefix
<1>4. SubSeq(path, 1, 1 - 1) = <<>>
    BY SubSeqEmpty
<1>5. path[1] \in Components /\ Head(path) = path[1]
    BY <1>1, <1>2, ElementOfSeq DEF Routes
<1>6. SubSeq(path, 1, 1) \in Prefixes(path)
    BY <1>2 DEF Prefixes
<1>7. QED BY <1>1, <1>3, <1>4, <1>5, <1>6

(* The innermost frame; without one of its names; with one more frame; left. *)
LEMMA TopIsFrame ==
    ASSUME stack \in Seq(Frames), stack # <<>>
    PROVE  /\ Len(stack) \in Nat \ {0}
           /\ Top = stack[Len(stack)]
           /\ Top \in Frames
    BY EmptySeq, LenProperties, ElementOfSeq DEF Top, Last

LEMMA FrameWithoutName ==
    ASSUME stack \in Seq(Frames), stack # <<>>, NEW name
    PROVE  LET s == WithoutName(name)
           IN  /\ s \in Seq(Frames) /\ s # <<>> /\ Len(s) = Len(stack)
               /\ \A i \in 1 .. Len(stack) : i # Len(stack) => s[i] = stack[i]
               /\ s[Len(s)] \in Frames
               /\ s[Len(s)].path = Top.path /\ s[Len(s)].id = Top.id
               /\ s[Len(s)].parent = Top.parent /\ s[Len(s)].left = Top.left \ {name}
<1>1. PICK L \in Nat \ {0} : L = Len(stack)
    BY TopIsFrame
<1>2. stack[L] \in Frames /\ Top = stack[L]
    BY <1>1, TopIsFrame
<1> DEFINE f == [stack[L] EXCEPT !.left = @ \ {name}]
<1>3. /\ f \in Frames
      /\ f.path = Top.path /\ f.id = Top.id /\ f.parent = Top.parent
      /\ f.left = Top.left \ {name}
    BY <1>2 DEF Frames
<1> HIDE DEF f
<1>4. WithoutName(name) = [stack EXCEPT ![L] = f]
    BY <1>1 DEF WithoutName, f
<1>5. L \in 1 .. Len(stack)
    BY <1>1
<1>6. /\ [stack EXCEPT ![L] = f] \in Seq(Frames)
      /\ Len([stack EXCEPT ![L] = f]) = Len(stack)
      /\ \A j \in 1 .. Len(stack) : [stack EXCEPT ![L] = f][j] = IF j = L THEN f ELSE stack[j]
    BY <1>3, <1>5, ExceptSeq
<1> DEFINE s == [stack EXCEPT ![L] = f]
<1>7. s \in Seq(Frames) /\ Len(s) = L /\ s[L] = f /\ \A j \in 1 .. L : j # L => s[j] = stack[j]
    BY <1>1, <1>5, <1>6
<1> HIDE DEF s
<1>8. s # <<>>
    BY <1>7, <1>1, EmptySeq
<1>9. QED BY <1>1, <1>3, <1>4, <1>7, <1>8 DEF s

LEMMA FrameAdded ==
    ASSUME NEW s \in Seq(Frames), NEW f \in Frames
    PROVE  /\ Append(s, f) \in Seq(Frames) /\ Append(s, f) # <<>>
           /\ Len(s) \in Nat /\ Len(Append(s, f)) = Len(s) + 1
           /\ \A i \in 1 .. Len(s) : Append(s, f)[i] = s[i]
           /\ Append(s, f)[Len(s) + 1] = f
    BY AppendProperties, LenProperties

LEMMA FrameLeft ==
    ASSUME NEW s \in Seq(Frames), s # <<>>
    PROVE  /\ Front(s) \in Seq(Frames) /\ Len(s) \in Nat \ {0}
           /\ Len(Front(s)) = Len(s) - 1
           /\ \A i \in 1 .. Len(s) - 1 : Front(s)[i] = s[i]
<1>1. PICK L \in Nat : L = Len(s) /\ L > 0
    BY EmptySeq, LenProperties
<1>2. 1 \in Int /\ L - 1 \in Int /\ \A i \in 1 .. L - 1 : s[i] \in Frames
    BY <1>1, ElementOfSeq
<1>3. /\ SubSeq(s, 1, L - 1) \in Seq(Frames)
      /\ Len(SubSeq(s, 1, L - 1)) = IF 1 <= L - 1 THEN L - 1 - 1 + 1 ELSE 0
      /\ \A i \in 1 .. L - 1 - 1 + 1 : SubSeq(s, 1, L - 1)[i] = s[1 + i - 1]
    BY <1>2, SubSeqProperties
<1>4. /\ Len(SubSeq(s, 1, L - 1)) = L - 1
      /\ \A i \in 1 .. L - 1 : SubSeq(s, 1, L - 1)[i] = s[i]
    BY <1>1, <1>3
<1>5. QED BY <1>1, <1>3, <1>4 DEF Front
-------------------------------------------------------------------------------
(***************************************************************************)
(* Steps that leave what is stored alone.                                  *)
(***************************************************************************)
LEMMA SameStore ==
    ASSUME UNCHANGED <<entry, node, data>>
    PROVE  /\ StoredType => StoredType'
           /\ Dirs' = Dirs /\ Files' = Files
           /\ \A id : IsDir(id)' = IsDir(id) /\ Pointer(id)' = Pointer(id) /\ DirOf(id)' = DirOf(id)
           /\ Whole <=> Whole'
<1>1. StoredType => StoredType'
    BY DEF StoredType
<1>2. \A id : IsDir(id)' = IsDir(id) /\ Pointer(id)' = Pointer(id) /\ DirOf(id)' = DirOf(id)
    BY DEF IsDir, Pointer, DirOf
<1>3. Dirs' = Dirs
    BY DEF Dirs, IsDir
<1>4. Files' = Files
    BY <1>3 DEF Files
<1>5. Named' = Named
    BY <1>3 DEF Named, DirOf
<1>6. {DirOf(p[1])[p[2]] : p \in Named}' = {DirOf(p[1])[p[2]] : p \in Named}
    BY <1>5 DEF DirOf
<1>7. {entry[f].pointer : f \in Files}' = {entry[f].pointer : f \in Files}
    BY <1>4
<1>8. Whole <=> Whole'
  <2> DEFINE A == {DirOf(p[1])[p[2]] : p \in Named}
             B == {entry[f].pointer : f \in Files}
  <2>1. A' = A /\ B' = B
      BY <1>6, <1>7
  <2>2. Whole <=> /\ \A d \in Dirs : entry[d].pointer \in DOMAIN node
                  /\ \A d, e \in Dirs : d # e => entry[d].pointer # entry[e].pointer
                  /\ B = DOMAIN data
                  /\ Cardinality(Files) = Cardinality(DOMAIN data)
                  /\ A = DOMAIN entry \ {Root}
                  /\ Cardinality(Named) = Cardinality(DOMAIN entry) - 1
      BY Zenon DEF Whole
  <2>3. Whole' <=> /\ \A d \in Dirs' : entry'[d].pointer \in DOMAIN node'
                   /\ \A d, e \in Dirs' : d # e => entry'[d].pointer # entry'[e].pointer
                   /\ B' = DOMAIN data'
                   /\ Cardinality(Files') = Cardinality(DOMAIN data')
                   /\ A' = DOMAIN entry' \ {Root}
                   /\ Cardinality(Named') = Cardinality(DOMAIN entry') - 1
      BY Zenon DEF Whole
  <2> HIDE DEF A, B
  <2>4. QED BY <1>3, <1>4, <1>5, <2>1, <2>2, <2>3
<1>9. QED BY <1>1, <1>2, <1>3, <1>4, <1>8

LEMMA SameTree ==
    ASSUME UNCHANGED <<entry, node, data>>, pc # "node", pc' # "node"
    PROVE  /\ WithNode' = WithNode /\ Hierarchy' = Hierarchy
           /\ NodesAgree => NodesAgree'
<1>1. WithNode' = WithNode
    BY SameStore DEF WithNode
<1>2. Hierarchy' = Hierarchy
    BY <1>1 DEF Hierarchy, DirOf
<1>3. NodesAgree => NodesAgree'
    BY <1>1 DEF NodesAgree, Pointer
<1>4. QED BY <1>1, <1>2, <1>3

LEMMA SameData ==
    ASSUME UNCHANGED <<entry, node, data>>, pc # "point", pc' # "point",
           \A f \in Files : Bare(f)' <=> Bare(f)
    PROVE  DataAgrees => DataAgrees'
<1>1. Held' = Held /\ Files' = Files
    BY SameStore DEF Held
<1>2. QED BY <1>1 DEF DataAgrees, Pointer

(* A command starts. *)
LEMMA CommandStarts ==
    ASSUME IInv, UNCHANGED <<entry, node, data, stack, now, lost>>,
           cmd.do = "none", ~lost, pc' = "run",
           cmd' \in [do : {"insert", "delete"}, compress : BOOLEAN, args : Seq(Routes),
                     path : Routes],
           disk' \in Disks \cup {NoDisk}, cmd'.do = "insert" => disk' \in Disks
    PROVE  IInv'
<1>1. stack = <<>> /\ stack' = <<>> /\ Len(stack') = 0 /\ pc \in {"closed", "ended"}
    BY DEF IInv, CommandType
<1>2. StoredType'
    BY SameStore DEF IInv
<1>3. CommandType'
    BY <1>1 DEF IInv, CommandType, InsertSteps, Steps
<1>4. Inserting' /\ AtWork'
    BY <1>1 DEF Inserting, AtWork, InsertSteps
<1>5. NodesAgree' /\ Hierarchy' = Hierarchy
    BY <1>1, SameTree DEF IInv, Agreement
<1>6. DataAgrees'
  <2>1. \A f \in Files : Bare(f)' <=> Bare(f)
      BY <1>1 DEF Bare
  <2>2. QED BY <2>1, <1>1, SameData DEF IInv, Agreement
<1>7. \A depth : Deleting(depth)'
    BY <1>1 DEF Deleting
<1>8. Agreement'
    BY <1>5, <1>6, <1>7 DEF IInv, Agreement
<1>9. QED BY <1>2, <1>3, <1>4, <1>8 DEF IInv

(* A command ends, in or outside a window; the process goes. *)
LEMMA CommandEnds ==
    ASSUME IInv, UNCHANGED <<entry, node, data>>,
           cmd' = NoCommand, pc' \in {"ended", "closed"}, stack' = <<>>,
           now' \in [path : {<<>>}, id : Nat, chunk : Nat],
           disk' \in Disks \cup {NoDisk},
           lost' = (lost \/ InWindow)
    PROVE  IInv'
<1>1. <<>> \in Routes /\ <<>> \in Seq(Frames) /\ <<>> \in Seq(Routes) /\ Len(<<>>) = 0
    BY EmptySeq DEF Routes
<1>2. StoredType'
    BY SameStore DEF IInv
<1>3. CommandType'
  <2>1. /\ cmd'.do = "none"
        /\ cmd' \in [do : {"none", "insert", "delete"}, compress : BOOLEAN, args : Seq(Routes),
                     path : Routes]
      BY <1>1 DEF NoCommand
  <2>2. now' \in [path : Routes, id : Nat, chunk : Nat] /\ now'.path = <<>>
      BY <1>1
  <2>3. lost' \in BOOLEAN
      BY DEF IInv, CommandType
  <2>4. QED BY <1>1, <2>1, <2>2, <2>3 DEF CommandType, Steps
<1>4. cmd'.do = "none"
    BY DEF NoCommand
<1>5. Inserting' /\ AtWork'
    BY <1>4 DEF Inserting, AtWork, InsertSteps
<1>6. ASSUME ~lost'
      PROVE  Agreement'
  <2>1. ~lost /\ ~InWindow
      BY <1>6
  <2>2. /\ pc # "node"
        /\ \A f \in Files : Pointer(f) \in DOMAIN data
        /\ \A f, g \in Files : Pointer(f) = Pointer(g) => f = g
        /\ \A c \in DOMAIN data : \E f \in Files : Pointer(f) = c
      BY <2>1, AllAgreeOutsideWindows
  <2>3. NodesAgree' /\ Hierarchy' = Hierarchy
      BY <2>1, <2>2, SameTree DEF IInv, Agreement
  <2>4. Files' = Files /\ Held' = DOMAIN data /\ \A f : ~Bare(f)'
      BY SameStore DEF Held, Bare
  <2>5. DataAgrees'
      BY <2>2, <2>4 DEF DataAgrees, Pointer
  <2>6. \A depth : Deleting(depth)'
      BY <1>4 DEF Deleting
  <2>7. QED BY <2>1, <2>3, <2>5, <2>6 DEF IInv, Agreement
<1>7. lost' => ~Whole'
  <2>1. lost \/ InWindow => ~Whole
      BY NotWholeInWindows DEF IInv
  <2>2. QED BY <2>1, SameStore
<1>8. QED BY <1>2, <1>3, <1>4, <1>5, <1>6, <1>7 DEF IInv

(* The recursion of an insertion moves to another directory or another name. *)
LEMMA InsertionMoves ==
    ASSUME IInv, UNCHANGED <<disk, entry, node, data, now, lost>>,
           cmd.do = "insert", pc = "run", pc' = "run",
           cmd' \in [do : {"insert"}, compress : BOOLEAN, args : Seq(Routes), path : Routes],
           stack' \in Seq(Frames), stack' # <<>> => cmd'.path \in DOMAIN disk,
           \A i \in 1 .. Len(stack') : OnDisk(stack'[i])
    PROVE  IInv'
<1>1. ~lost
    BY DEF IInv
<1>2. StoredType'
    BY SameStore DEF IInv
<1>3. CommandType'
    BY DEF IInv, CommandType, InsertSteps, Steps
<1>4. NodesAgree' /\ Hierarchy' = Hierarchy /\ WithNode' = WithNode
    BY <1>1, SameTree DEF IInv, Agreement
<1>5. Inserting'
    BY <1>4 DEF Inserting, OnDisk, OnDiskIn, IInv
<1>6. AtWork'
    BY DEF AtWork, InsertSteps
<1>7. DataAgrees'
  <2>1. \A f \in Files : Bare(f)' <=> Bare(f)
      BY DEF Bare
  <2>2. QED BY <2>1, <1>1, SameData DEF IInv, Agreement
<1>8. \A depth : Deleting(depth)'
    BY DEF Deleting
<1>9. Agreement'
    BY <1>1, <1>4, <1>7, <1>8 DEF IInv, Agreement
<1>10. QED BY <1>1, <1>2, <1>3, <1>5, <1>6, <1>9 DEF IInv
-------------------------------------------------------------------------------
(***************************************************************************)
(* The actions that change nothing stored.                                 *)
(***************************************************************************)
LEMMA AppendStep ==
    ASSUME IInv, NEW args \in Arguments, NEW compress \in BOOLEAN, AppendPaths(args, compress)
    PROVE  IInv'
<1>1. CreateRelativePath(args) \in Seq(Routes) /\ <<>> \in Routes
    BY RelativePathsAreRoutes, EmptySeq DEF Routes
<1>2. cmd.do = "none" /\ ~lost
    BY DEF AppendPaths, IInv, CommandType
<1>3. cmd' \in [do : {"insert", "delete"}, compress : BOOLEAN, args : Seq(Routes), path : Routes]
    BY <1>1 DEF AppendPaths
<1>4. /\ UNCHANGED <<entry, node, data, stack, now, lost>>
      /\ pc' = "run" /\ disk' \in Disks
    BY DEF AppendPaths
<1>5. QED BY <1>2, <1>3, <1>4, CommandStarts

LEMMA DeleteStep ==
    ASSUME IInv, NEW args \in Arguments, Delete(args)
    PROVE  IInv'
<1>1. CreateRelativePath(args) \in Seq(Routes) /\ <<>> \in Routes
    BY RelativePathsAreRoutes, EmptySeq DEF Routes
<1>2. cmd.do = "none" /\ ~lost
    BY DEF Delete, IInv, CommandType
<1>3. cmd' = [do |-> "delete", compress |-> FALSE, args |-> CreateRelativePath(args), path |-> <<>>]
    BY DEF Delete
<1>4. /\ cmd' \in [do : {"insert", "delete"}, compress : BOOLEAN, args : Seq(Routes), path : Routes]
      /\ cmd'.do = "delete"
    BY <1>1, <1>3
<1>5. /\ UNCHANGED <<entry, node, data, stack, now, lost>>
      /\ pc' = "run" /\ disk' \in Disks \cup {NoDisk}
    BY DEF Delete, IInv, CommandType
<1>6. QED BY <1>2, <1>4, <1>5, CommandStarts

LEMMA FinishStep ==
    ASSUME IInv, Finish
    PROVE  IInv'
<1>1. ~InWindow
    BY DEF Finish, InWindow
<1>2. now \in [path : {<<>>}, id : Nat, chunk : Nat]
    BY DEF Finish, IInv, CommandType, InsertSteps
<1>3. lost' = (lost \/ InWindow)
    BY <1>1 DEF Finish, IInv, CommandType
<1>4. QED BY <1>2, <1>3, CommandEnds DEF Finish

LEMMA ExitStep ==
    ASSUME IInv, Exit
    PROVE  IInv'
<1>1. ~InWindow
    BY DEF Exit, InWindow
<1>2. now \in [path : {<<>>}, id : Nat, chunk : Nat]
    BY DEF Exit, IInv, CommandType, InsertSteps
<1>3. lost' = (lost \/ InWindow)
    BY <1>1 DEF Exit, IInv, CommandType
<1>4. cmd = NoCommand /\ stack = <<>> /\ disk \in Disks \cup {NoDisk}
    BY DEF Exit, IInv, CommandType
<1>5. QED BY <1>2, <1>3, <1>4, CommandEnds DEF Exit

LEMMA DieStep ==
    ASSUME IInv, pc \notin {"ended", "closed"}, Die
    PROVE  IInv'
<1>1. ~lost
    BY DEF IInv, CommandType
<1>2. now' \in [path : {<<>>}, id : Nat, chunk : Nat]
    BY DEF Die, NoEntry, Root
<1>3. InWindow \in BOOLEAN
    BY DEF InWindow
<1>4. lost' = (lost \/ InWindow)
    BY <1>1, <1>3 DEF Die
<1>5. QED BY <1>2, <1>4, CommandEnds DEF Die

(* Insertion. *)
LEMMA NextArgumentStep ==
    ASSUME IInv, NextArgument
    PROVE  IInv'
<1> DEFINE path == Head(cmd.args)
           left == IF path = <<>> THEN NamesBelow(<<>>) ELSE {Head(path)}
           f == Frame(<<>>, Root, Root, left)
<1>1. /\ pc = "run" /\ cmd.do = "insert" /\ cmd.args # <<>>
      /\ cmd' = [cmd EXCEPT !.args = Tail(cmd.args), !.path = path]
      /\ stack' = IF path \notin DOMAIN disk THEN <<>> ELSE <<f>>
      /\ UNCHANGED <<disk, entry, node, data, now, pc, lost>>
    BY DEF NextArgument, ArgumentsLeft
<1>2. cmd.args \in Seq(Routes) /\ disk \in Disks
    BY <1>1 DEF IInv, CommandType, Inserting
<1>3. path \in Routes /\ Tail(cmd.args) \in Seq(Routes) /\ <<>> \in Routes
    BY <1>1, <1>2, HeadTailProperties, EmptySeq DEF Routes
<1>4. /\ cmd' \in [do : {"insert"}, compress : BOOLEAN, args : Seq(Routes), path : Routes]
      /\ cmd'.path = path
    BY <1>1, <1>3 DEF IInv, CommandType
<1>5. CASE path \notin DOMAIN disk
  <2>1. stack' = <<>> /\ stack' \in Seq(Frames) /\ Len(stack') = 0
      BY <1>1, <1>5, EmptySeq
  <2>2. QED BY <2>1, <1>1, <1>4, InsertionMoves
<1>6. CASE path \in DOMAIN disk
  <2>1. left \subseteq Components /\ \A name \in left : Append(<<>>, name) \in DOMAIN disk
    <3>1. CASE path = <<>>
        BY <3>1, <1>2, <1>3, NamesBelowAreOnDisk
    <3>2. CASE path # <<>>
        BY <3>2, <1>2, <1>6, FirstNameIsOnDisk
    <3>3. QED BY <3>1, <3>2
  <2>2. Root \in WithNode
      BY <1>1 DEF IInv, StoredType, WithNode, Dirs, IsDir
  <2> HIDE DEF path, left
  <2>3. f \in Frames /\ f.id = Root /\ f.left = left /\ f.path = <<>>
      BY <1>3, <2>1 DEF Frame, Frames, Root
  <2>4. OnDisk(f)
      BY <2>1, <2>2, <2>3 DEF OnDisk, OnDiskIn
  <2>5. stack' = <<f>>
      BY <1>1, <1>6
  <2> HIDE DEF f
  <2>6. stack' \in Seq(Frames) /\ Len(stack') = 1 /\ stack'[1] = f
      BY <2>3, <2>5
  <2>7. \A i \in 1 .. Len(stack') : OnDisk(stack'[i])
      BY <2>4, <2>6
  <2>8. QED BY <2>6, <2>7, <1>1, <1>4, <1>6, InsertionMoves
<1>7. QED BY <1>5, <1>6

(* Without one of its names the innermost frame is still on disk, and so are the others. *)
LEMMA WithoutNameIsOnDisk ==
    ASSUME stack \in Seq(Frames), stack # <<>>,
           \A i \in 1 .. Len(stack) : OnDisk(stack[i]), NEW name
    PROVE  \A i \in 1 .. Len(WithoutName(name)) : OnDisk(WithoutName(name)[i])
<1> DEFINE s == WithoutName(name)
<1>1. /\ Len(s) = Len(stack)
      /\ \A i \in 1 .. Len(stack) : i # Len(stack) => s[i] = stack[i]
      /\ s[Len(s)].path = Top.path /\ s[Len(s)].id = Top.id
      /\ s[Len(s)].left = Top.left \ {name}
    BY FrameWithoutName
<1> HIDE DEF s
<1>2. Len(stack) \in Nat \ {0} /\ Top = stack[Len(stack)]
    BY TopIsFrame
<1>3. OnDisk(Top)
    BY <1>2
<1>4. OnDisk(s[Len(s)])
    BY <1>1, <1>3 DEF OnDisk, OnDiskIn
<1>5. ASSUME NEW i \in 1 .. Len(s) PROVE OnDisk(s[i])
    BY <1>1, <1>4
<1>6. QED BY <1>5 DEF s

(* What a frame of an insertion says of the state between two steps. *)
LEMMA InsertingFacts ==
    ASSUME IInv, cmd.do = "insert", pc = "run", stack # <<>>
    PROVE  /\ ~lost /\ stack \in Seq(Frames) /\ now.path = <<>>
           /\ disk \in Disks /\ cmd.path \in DOMAIN disk
           /\ cmd \in [do : {"insert"}, compress : BOOLEAN, args : Seq(Routes), path : Routes]
           /\ \A i \in 1 .. Len(stack) : OnDisk(stack[i])
           /\ Top.path \in Routes /\ Top.left \subseteq Components
           /\ Top.id \in Dirs /\ \A name \in Top.left : Append(Top.path, name) \in DOMAIN disk
           /\ WithNode = Dirs /\ NamesLeadToEntries /\ \A f \in Files : f # Root
<1>1. /\ ~lost /\ stack \in Seq(Frames) /\ disk \in Disks /\ now.path = <<>>
      /\ cmd \in [do : {"insert"}, compress : BOOLEAN, args : Seq(Routes), path : Routes]
      /\ cmd.path \in DOMAIN disk /\ \A i \in 1 .. Len(stack) : OnDisk(stack[i])
    BY DEF IInv, CommandType, Inserting, InsertSteps
<1>2. Len(stack) \in Nat \ {0} /\ Top = stack[Len(stack)] /\ Top \in Frames
    BY <1>1, TopIsFrame
<1>3. OnDisk(Top) /\ Top.path \in Routes /\ Top.left \subseteq Components
    BY <1>1, <1>2 DEF Frames
<1>4. WithNode = Dirs /\ NamesLeadToEntries /\ \A f \in Files : f # Root
    BY <1>1, NoNodeMissing DEF IInv, Agreement
<1>5. QED BY <1>1, <1>3, <1>4 DEF OnDisk, OnDiskIn

LEMMA RefuseStep ==
    ASSUME IInv, NextName, NEW name \in Top.left, RefuseEntry(name)
    PROVE  IInv'
<1>1. /\ pc = "run" /\ cmd.do = "insert" /\ stack # <<>>
      /\ stack' = WithoutName(name)
      /\ UNCHANGED <<disk, entry, node, data, cmd, now, pc, lost>>
    BY DEF NextName, RefuseEntry
<1>2. /\ stack \in Seq(Frames) /\ cmd.path \in DOMAIN disk
      /\ cmd \in [do : {"insert"}, compress : BOOLEAN, args : Seq(Routes), path : Routes]
      /\ \A i \in 1 .. Len(stack) : OnDisk(stack[i])
    BY <1>1, InsertingFacts
<1>3. stack' \in Seq(Frames) /\ \A i \in 1 .. Len(stack') : OnDisk(stack'[i])
    BY <1>1, <1>2, FrameWithoutName, WithoutNameIsOnDisk
<1>4. QED BY <1>1, <1>2, <1>3, InsertionMoves

LEMMA LeaveStep ==
    ASSUME IInv, LeaveDirectory
    PROVE  IInv'
<1>1. /\ pc = "run" /\ cmd.do = "insert" /\ stack # <<>>
      /\ stack' = Front(stack)
      /\ UNCHANGED <<disk, entry, node, data, cmd, now, pc, lost>>
    BY DEF LeaveDirectory
<1>2. /\ stack \in Seq(Frames) /\ cmd.path \in DOMAIN disk
      /\ cmd \in [do : {"insert"}, compress : BOOLEAN, args : Seq(Routes), path : Routes]
      /\ \A i \in 1 .. Len(stack) : OnDisk(stack[i])
    BY <1>1, InsertingFacts
<1>3. /\ stack' \in Seq(Frames) /\ Len(stack) \in Nat \ {0} /\ Len(stack') = Len(stack) - 1
      /\ \A i \in 1 .. Len(stack) - 1 : stack'[i] = stack[i]
    BY <1>1, <1>2, FrameLeft
<1>4. \A i \in 1 .. Len(stack') : OnDisk(stack'[i])
    BY <1>2, <1>3
<1>5. QED BY <1>1, <1>2, <1>3, <1>4, InsertionMoves

(* Entering a directory of the archive, with what is to be inserted in it. *)
LEMMA EnteredIsOnDisk ==
    ASSUME disk \in Disks, cmd.path \in DOMAIN disk, NEW dirs, NEW s \in Seq(Frames),
           \A i \in 1 .. Len(s) : OnDiskIn(dirs, s[i]),
           NEW path \in Routes, NEW id \in dirs, id \in Nat, Top.id \in Nat
    PROVE  /\ Enter(s, path, id) \in Seq(Frames) /\ Enter(s, path, id) # <<>>
           /\ \A i \in 1 .. Len(Enter(s, path, id)) : OnDiskIn(dirs, Enter(s, path, id)[i])
<1> DEFINE f == Frame(path, id, Top.id, ToInsert(path))
<1>1. ToInsert(path) \subseteq Components /\ \A n \in ToInsert(path) : Append(path, n) \in DOMAIN disk
    BY ToInsertIsOnDisk
<1>2. f \in Frames /\ f.id = id /\ f.path = path /\ f.left = ToInsert(path)
    BY <1>1 DEF Frame, Frames
<1>3. OnDiskIn(dirs, f)
    BY <1>1, <1>2 DEF OnDiskIn
<1>4. Enter(s, path, id) = Append(s, f)
    BY DEF Enter
<1> HIDE DEF f
<1> DEFINE t == Append(s, f)
<1>5. /\ t \in Seq(Frames) /\ t # <<>> /\ Len(s) \in Nat /\ Len(t) = Len(s) + 1
      /\ \A i \in 1 .. Len(s) : t[i] = s[i]
      /\ t[Len(s) + 1] = f
    BY <1>2, FrameAdded
<1> HIDE DEF t
<1>6. ASSUME NEW i \in 1 .. Len(t) PROVE OnDiskIn(dirs, t[i])
  <2>1. CASE i = Len(s) + 1
      BY <2>1, <1>3, <1>5
  <2>2. CASE i # Len(s) + 1
      BY <2>2, <1>5
  <2>3. QED BY <2>1, <2>2
<1>7. QED BY <1>4, <1>5, <1>6 DEF t

LEMMA RouteBelow ==
    ASSUME NEW path \in Routes, NEW name \in Components
    PROVE  Append(path, name) \in Routes
    BY AppendProperties DEF Routes

LEMMA UpdateDirStep ==
    ASSUME IInv, NextName, NEW name \in Top.left, UpdateEntry(name), IsDir(DirOf(Top.id)[name])
    PROVE  IInv'
<1> DEFINE path == Append(Top.path, name)
           id   == DirOf(Top.id)[name]
<1>1. /\ pc = "run" /\ cmd.do = "insert" /\ stack # <<>>
      /\ name \in DOMAIN DirOf(Top.id)
      /\ stack' = Enter(WithoutName(name), path, id)
      /\ UNCHANGED <<disk, entry, node, data, cmd, now, pc, lost>>
    BY DEF NextName, UpdateEntry
<1>2. /\ stack \in Seq(Frames) /\ disk \in Disks /\ cmd.path \in DOMAIN disk
      /\ cmd \in [do : {"insert"}, compress : BOOLEAN, args : Seq(Routes), path : Routes]
      /\ \A i \in 1 .. Len(stack) : OnDisk(stack[i])
      /\ Top.path \in Routes /\ Top.left \subseteq Components /\ Top.id \in Dirs
      /\ WithNode = Dirs /\ NamesLeadToEntries
    BY <1>1, InsertingFacts
<1>3. path \in Routes
    BY <1>2, RouteBelow
<1>4. id \in WithNode /\ id \in Nat /\ Top.id \in Nat
    BY <1>1, <1>2 DEF NamesLeadToEntries, Dirs, IInv, StoredType
<1> HIDE DEF path, id
<1>5. /\ WithoutName(name) \in Seq(Frames)
      /\ \A i \in 1 .. Len(WithoutName(name)) : OnDisk(WithoutName(name)[i])
    BY <1>1, <1>2, FrameWithoutName, WithoutNameIsOnDisk
<1>6. stack' \in Seq(Frames) /\ \A i \in 1 .. Len(stack') : OnDisk(stack'[i])
    BY <1>1, <1>2, <1>3, <1>4, <1>5, EnteredIsOnDisk DEF OnDisk
<1>7. QED BY <1>1, <1>2, <1>6, InsertionMoves
-------------------------------------------------------------------------------
(***************************************************************************)
(* The steps at one entry: it is inserted or updated, its old data goes,   *)
(* the new data is stored, the pointer set; or its node block is made.     *)
(***************************************************************************)
LEMMA AtWorkFacts ==
    ASSUME IInv, pc \in InsertSteps
    PROVE  /\ ~lost /\ cmd.do = "insert" /\ stack \in Seq(Frames) /\ stack # <<>>
           /\ disk \in Disks /\ cmd.path \in DOMAIN disk
           /\ \A i \in 1 .. Len(stack) : OnDisk(stack[i])
           /\ now \in [path : Routes, id : Nat, chunk : Nat]
           /\ now.id \in DOMAIN entry \ {Root}
           /\ now.path \in DOMAIN disk
           /\ IsDir(now.id) <=> pc = "node"
           /\ StoredType /\ CommandType /\ NodesAgree /\ DataAgrees
    BY DEF IInv, AtWork, Inserting, CommandType, InsertSteps, Agreement

LEMMA UpdateFileStep ==
    ASSUME IInv, NextName, NEW name \in Top.left, UpdateEntry(name), ~IsDir(DirOf(Top.id)[name])
    PROVE  IInv'
<1> DEFINE path == Append(Top.path, name)
           id   == DirOf(Top.id)[name]
<1>1. /\ pc = "run" /\ cmd.do = "insert" /\ stack # <<>>
      /\ name \in DOMAIN DirOf(Top.id)
      /\ now' = [path |-> path, id |-> id, chunk |-> 0]
      /\ pc' = "free"
      /\ stack' = WithoutName(name)
      /\ UNCHANGED <<disk, entry, node, data, cmd, lost>>
    BY DEF NextName, UpdateEntry
<1>2. /\ ~lost /\ stack \in Seq(Frames) /\ disk \in Disks /\ cmd.path \in DOMAIN disk
      /\ \A i \in 1 .. Len(stack) : OnDisk(stack[i])
      /\ Top.path \in Routes /\ Top.left \subseteq Components /\ Top.id \in Dirs
      /\ path \in DOMAIN disk
      /\ WithNode = Dirs /\ NamesLeadToEntries
    BY <1>1, InsertingFacts
<1>3. path \in Routes
    BY <1>2, RouteBelow
<1>4. id \in DOMAIN entry \ {Root} /\ id \in Nat
    BY <1>1, <1>2 DEF NamesLeadToEntries, IInv, StoredType
<1>5. ~IsDir(id)
    OBVIOUS
<1> HIDE DEF path, id
<1>6. /\ stack' \in Seq(Frames) /\ stack' # <<>>
      /\ \A i \in 1 .. Len(stack') : OnDisk(stack'[i])
    BY <1>1, <1>2, FrameWithoutName, WithoutNameIsOnDisk
<1>7. /\ now' \in [path : Routes, id : Nat, chunk : Nat]
      /\ now'.id = id /\ now'.path = path
    BY <1>1, <1>3, <1>4
<1>8. StoredType'
    BY <1>1, SameStore DEF IInv
<1>9. CommandType'
    BY <1>1, <1>6, <1>7 DEF IInv, CommandType, InsertSteps, Steps
<1>10. NodesAgree' /\ Hierarchy' = Hierarchy /\ WithNode' = WithNode
    BY <1>1, <1>2, SameTree DEF IInv, Agreement
<1>11. Inserting'
    BY <1>1, <1>2, <1>6, <1>10 DEF Inserting, OnDisk, OnDiskIn
<1>12. AtWork'
    BY <1>1, <1>2, <1>4, <1>5, <1>6, <1>7, SameStore DEF AtWork, IsDir
<1>13. DataAgrees'
  <2>1. ASSUME NEW f \in Files PROVE Bare(f)' <=> Bare(f)
    <3>1. ~Bare(f)
        BY <1>1 DEF Bare
    <3>2. Pointer(f) \in Held /\ Pointer(f) # 0
        BY <3>1, <1>2 DEF IInv, Agreement, DataAgrees, Held, StoredType
    <3>3. ~Bare(f)'
        BY <3>2, <1>1 DEF Bare, Pointer
    <3>4. QED BY <3>1, <3>3
  <2>2. QED BY <2>1, <1>1, <1>2, SameData DEF IInv, Agreement
<1>14. \A depth : Deleting(depth)'
    BY <1>1 DEF Deleting
<1>15. Agreement'
    BY <1>1, <1>2, <1>10, <1>13, <1>14 DEF IInv, Agreement
<1>16. QED BY <1>1, <1>2, <1>8, <1>9, <1>11, <1>12, <1>15 DEF IInv

(* What the steps at a file have in common: the tree does not change. *)
LEMMA FileWork ==
    ASSUME IInv, pc \in {"free", "store", "point"}, pc' \in {"store", "point", "run"},
           UNCHANGED <<disk, node, cmd, stack, lost>>,
           DOMAIN entry' = DOMAIN entry, entry'[now.id] \in Entries, entry'[now.id].kind # "dir",
           \A i \in DOMAIN entry : i # now.id => entry'[i] = entry[i],
           entry' = [i \in DOMAIN entry |-> entry'[i]],
           DOMAIN data' \subseteq Nat \ {0}, IsFiniteSet(DOMAIN data'),
           DataAgrees',
           now' \in [path : Routes, id : Nat, chunk : Nat],
           pc' = "run" => now'.path = <<>>,
           pc' # "run" => now'.id = now.id /\ now'.path = now.path,
           pc' = "point" => now'.chunk \in DOMAIN data'
    PROVE  IInv'
<1>1. /\ ~lost /\ cmd.do = "insert" /\ stack \in Seq(Frames) /\ stack # <<>>
      /\ now.id \in DOMAIN entry \ {Root} /\ ~IsDir(now.id)
      /\ now.path \in DOMAIN disk
      /\ StoredType /\ CommandType /\ NodesAgree /\ DataAgrees
    BY AtWorkFacts DEF InsertSteps
<1>2. \A i \in DOMAIN entry : entry'[i] \in Entries
    BY <1>1 DEF StoredType
<1>3. StoredType'
    BY <1>1, <1>2 DEF StoredType
<1>4. CommandType'
    BY <1>1 DEF CommandType, InsertSteps, Steps
<1>5. /\ \A i \in DOMAIN entry : IsDir(i)' <=> IsDir(i)
      /\ \A i \in DOMAIN entry : i # now.id => Pointer(i)' = Pointer(i)
    BY <1>1 DEF IsDir, Pointer
<1>6. Dirs' = Dirs /\ now.id \notin Dirs
    BY <1>1, <1>5 DEF Dirs
<1>7. WithNode' = Dirs /\ WithNode = Dirs
    BY <1>6 DEF WithNode
<1>8. \A d \in Dirs : Pointer(d)' = Pointer(d) /\ DirOf(d)' = DirOf(d)
    BY <1>5, <1>6 DEF Dirs, Pointer, DirOf
<1>9. NodesAgree'
    BY <1>1, <1>7, <1>8 DEF NodesAgree
<1>10. Hierarchy' = Hierarchy
    BY <1>7, <1>8 DEF Hierarchy
<1>11. Inserting'
    BY <1>7, <1>1 DEF IInv, Inserting, OnDisk, OnDiskIn
<1>12. AtWork'
    BY <1>1, <1>5 DEF AtWork, InsertSteps, IsDir
<1>13. \A depth : Deleting(depth)'
    BY <1>1 DEF Deleting
<1>14. Agreement'
    BY <1>1, <1>9, <1>10, <1>13 DEF IInv, Agreement
<1>15. QED BY <1>1, <1>3, <1>4, <1>11, <1>12, <1>14 DEF IInv

LEMMA FreeOldDataStep ==
    ASSUME IInv, FreeOldData
    PROVE  IInv'
<1> DEFINE p == Pointer(now.id)
<1>1. /\ pc = "free" /\ pc' = "store"
      /\ data' = IF p # 0 THEN WithoutChunk(p) ELSE data
      /\ UNCHANGED <<disk, entry, node, cmd, stack, now, lost>>
    BY DEF FreeOldData, Pointer
<1>2. /\ now \in [path : Routes, id : Nat, chunk : Nat]
      /\ now.id \in DOMAIN entry /\ ~IsDir(now.id)
      /\ StoredType /\ DataAgrees
    BY <1>1, AtWorkFacts DEF InsertSteps
<1>3. now.id \in Files /\ Files' = Files
    BY <1>1, <1>2 DEF Files, Dirs, IsDir
<1>4. Held = DOMAIN data /\ Held' = DOMAIN data' /\ 0 \notin DOMAIN data
    BY <1>1, <1>2 DEF Held, StoredType
<1>5. \A f \in Files : Bare(f)' <=> f = now.id
    BY <1>1 DEF Bare
<1>6. \A f \in Files : Bare(f) <=> f = now.id /\ p = 0
    BY <1>1 DEF Bare
<1>7. DOMAIN data' = DOMAIN data \ {p}
    BY <1>1, <1>4 DEF WithoutChunk
<1>8. \A f \in Files : Pointer(f)' = Pointer(f)
    BY <1>1 DEF Pointer
<1>9. DataAgrees'
  <2>1. ASSUME NEW f \in Files PROVE Bare(f)' <=> Pointer(f)' \notin Held'
    <3>1. CASE f = now.id
        BY <3>1, <1>4, <1>5, <1>7, <1>8
    <3>2. CASE f # now.id
      <4>1. Pointer(f) \in Held
          BY <3>2, <1>2, <1>6 DEF DataAgrees
      <4>2. Pointer(f) # p
          BY <4>1, <3>2, <1>2, <1>3 DEF DataAgrees
      <4>3. QED BY <3>2, <4>1, <4>2, <1>4, <1>5, <1>7, <1>8
    <3>3. QED BY <3>1, <3>2
  <2>2. \A f, g \in Files : Pointer(f)' \in Held' /\ Pointer(f)' = Pointer(g)' => f = g
      BY <1>2, <1>4, <1>7, <1>8 DEF DataAgrees
  <2>3. \A c \in Held' : \E f \in Files : Pointer(f)' = c
      BY <1>2, <1>4, <1>7, <1>8 DEF DataAgrees
  <2>4. QED BY <2>1, <2>2, <2>3, <1>3 DEF DataAgrees
<1>10. DOMAIN data' \subseteq Nat \ {0} /\ IsFiniteSet(DOMAIN data')
    BY <1>2, <1>7, FS_RemoveElement DEF StoredType
<1>11. /\ entry[now.id] \in Entries /\ entry[now.id].kind # "dir"
       /\ entry = [i \in DOMAIN entry |-> entry[i]]
    BY <1>2 DEF StoredType, IsDir
<1>12. QED BY <1>1, <1>2, <1>9, <1>10, <1>11, FileWork

LEMMA StoreDataStep ==
    ASSUME IInv, StoreData
    PROVE  IInv'
<1>1. PICK chunk \in FreeChunks :
             /\ data' = [c \in DOMAIN data \cup {chunk} |->
                            IF c = chunk THEN disk[now.path].content ELSE data[c]]
             /\ now' = [now EXCEPT !.chunk = chunk]
    BY DEF StoreData
<1>2. pc = "store" /\ pc' = "point" /\ UNCHANGED <<disk, entry, node, cmd, stack, lost>>
    BY DEF StoreData
<1>3. /\ now \in [path : Routes, id : Nat, chunk : Nat]
      /\ now.id \in DOMAIN entry /\ ~IsDir(now.id)
      /\ StoredType /\ DataAgrees
    BY <1>2, AtWorkFacts DEF InsertSteps
<1>4. chunk \in Nat \ {0} /\ chunk \notin DOMAIN data
  <2>1. Cardinality(DOMAIN data) \in Nat
      BY <1>3, FS_CardinalityType DEF StoredType
  <2>2. QED BY <2>1 DEF FreeChunks
<1>5. /\ now' \in [path : Routes, id : Nat, chunk : Nat]
      /\ now'.id = now.id /\ now'.path = now.path /\ now'.chunk = chunk
    BY <1>1, <1>3, <1>4
<1>6. DOMAIN data' = DOMAIN data \cup {chunk}
    BY <1>1
<1>7. DOMAIN data' \subseteq Nat \ {0} /\ IsFiniteSet(DOMAIN data')
    BY <1>3, <1>4, <1>6, FS_AddElement DEF StoredType
<1>8. Held = DOMAIN data /\ Held' = DOMAIN data
    BY <1>2, <1>4, <1>5, <1>6 DEF Held
<1>9. Files' = Files /\ \A f \in Files : Pointer(f)' = Pointer(f)
    BY <1>2 DEF Files, Dirs, IsDir, Pointer
<1>10. \A f \in Files : Bare(f)' <=> Bare(f)
    BY <1>2, <1>5 DEF Bare
<1>11. DataAgrees'
    BY <1>3, <1>8, <1>9, <1>10 DEF DataAgrees
<1>12. /\ entry[now.id] \in Entries /\ entry[now.id].kind # "dir"
       /\ entry = [i \in DOMAIN entry |-> entry[i]]
    BY <1>3 DEF StoredType, IsDir
<1>13. now'.chunk \in DOMAIN data'
    BY <1>5, <1>6
<1>14. QED BY <1>2, <1>5, <1>7, <1>11, <1>12, <1>13, FileWork

LEMMA SetPointerStep ==
    ASSUME IInv, SetPointer
    PROVE  IInv'
<1>1. /\ pc = "point" /\ pc' = "run" /\ now' = NoEntry
      /\ entry' = [entry EXCEPT ![now.id].pointer = now.chunk]
      /\ UNCHANGED <<disk, node, data, cmd, stack, lost>>
    BY DEF SetPointer
<1>2. /\ now \in [path : Routes, id : Nat, chunk : Nat]
      /\ now.id \in DOMAIN entry /\ ~IsDir(now.id)
      /\ StoredType /\ DataAgrees /\ now.chunk \in DOMAIN data
    BY <1>1, AtWorkFacts DEF InsertSteps, IInv, AtWork
<1>3. /\ now' \in [path : Routes, id : Nat, chunk : Nat] /\ now'.path = <<>>
    BY <1>1, EmptySeq DEF NoEntry, Root, Routes
<1>4. PICK w, k : w = now.id /\ k = now.chunk
    OBVIOUS
<1>5. /\ DOMAIN entry' = DOMAIN entry
      /\ entry'[w] = [entry[w] EXCEPT !.pointer = k]
      /\ \A i \in DOMAIN entry : i # w => entry'[i] = entry[i]
      /\ entry' = [i \in DOMAIN entry |-> entry'[i]]
    BY <1>1, <1>2, <1>4 DEF StoredType
<1>6. /\ entry'[w] \in Entries /\ entry'[w].kind = entry[w].kind
      /\ entry'[w].pointer = k
  <2>1. entry[w] \in Entries /\ k \in Nat
      BY <1>2, <1>4 DEF StoredType
  <2>2. QED BY <2>1, <1>5 DEF Entries
<1>7. entry'[w].kind # "dir"
    BY <1>2, <1>4, <1>6 DEF IsDir
<1>8. \A i \in DOMAIN entry : IsDir(i)' <=> IsDir(i)
    BY <1>5, <1>6 DEF IsDir
<1>9. Files' = Files /\ w \in Files
    BY <1>2, <1>4, <1>5, <1>8 DEF Files, Dirs
<1>10. /\ \A f \in Files : f # w => Pointer(f)' = Pointer(f)
       /\ Pointer(w)' = k
    BY <1>5, <1>6 DEF Pointer, Files
<1>11. Held = DOMAIN data \ {k} /\ Held' = DOMAIN data /\ k \in DOMAIN data
    BY <1>1, <1>2, <1>4 DEF Held
<1>12. /\ \A f \in Files : Bare(f) <=> f = w
       /\ \A f \in Files : ~Bare(f)'
    BY <1>1, <1>4 DEF Bare
<1>13. \A f \in Files : f # w => Pointer(f) \in Held
    BY <1>2, <1>12 DEF DataAgrees
<1>14. DataAgrees'
  <2>1. \A f \in Files : Pointer(f)' \in Held'
      BY <1>10, <1>11, <1>13
  <2>2. \A f, g \in Files : Pointer(f)' = Pointer(g)' => f = g
      BY <1>2, <1>10, <1>11, <1>13 DEF DataAgrees
  <2>3. ASSUME NEW c \in Held' PROVE \E f \in Files : Pointer(f)' = c
    <3>1. CASE c = k
        BY <3>1, <1>9, <1>10
    <3>2. CASE c # k
      <4>1. PICK f \in Files : Pointer(f) = c /\ c \in Held
          BY <3>2, <1>2, <1>11 DEF DataAgrees
      <4>2. f # w
          BY <4>1, <1>2, <1>9, <1>12 DEF DataAgrees
      <4>3. QED BY <4>1, <4>2, <1>10
    <3>3. QED BY <3>1, <3>2
  <2>4. QED BY <2>1, <2>2, <2>3, <1>9, <1>12 DEF DataAgrees
<1>15. DOMAIN data' \subseteq Nat \ {0} /\ IsFiniteSet(DOMAIN data')
    BY <1>1, <1>2 DEF StoredType
<1>16. QED BY <1>1, <1>3, <1>4, <1>5, <1>6, <1>7, <1>14, <1>15, FileWork
(* A new directory gets its node block: it becomes a directory with nothing in it. *)
LEMMA MakeNodeStep ==
    ASSUME IInv, MakeNode
    PROVE  IInv'
<1>1. PICK w, b : w = now.id /\ b = FreshNode
    OBVIOUS
<1>2. /\ pc = "node" /\ pc' = "run" /\ now' = NoEntry
      /\ node' = [c \in DOMAIN node \cup {b} |-> IF c = b THEN EmptyDir ELSE node[c]]
      /\ entry' = [entry EXCEPT ![w].pointer = b]
      /\ stack' = Enter(stack, now.path, w)
      /\ UNCHANGED <<disk, data, cmd, lost>>
    BY <1>1 DEF MakeNode
<1>3. /\ ~lost /\ cmd.do = "insert" /\ stack \in Seq(Frames) /\ stack # <<>>
      /\ disk \in Disks /\ cmd.path \in DOMAIN disk
      /\ \A i \in 1 .. Len(stack) : OnDisk(stack[i])
      /\ now \in [path : Routes, id : Nat, chunk : Nat]
      /\ w \in DOMAIN entry \ {Root} /\ IsDir(w) /\ w \in Nat
      /\ StoredType /\ CommandType /\ NodesAgree /\ DataAgrees
    BY <1>1, <1>2, AtWorkFacts DEF InsertSteps
<1>4. PICK depth : IsTree(Hierarchy, DOMAIN entry, depth)
    BY <1>3 DEF IInv, Agreement
<1>5. b \in Nat /\ b \notin DOMAIN node
    BY <1>1, <1>3, FreshIsFree DEF FreshNode, StoredType
<1>6. /\ DOMAIN entry' = DOMAIN entry
      /\ entry'[w] = [entry[w] EXCEPT !.pointer = b]
      /\ \A i \in DOMAIN entry : i # w => entry'[i] = entry[i]
      /\ entry' = [i \in DOMAIN entry |-> entry'[i]]
    BY <1>2, <1>3 DEF StoredType
<1>7. /\ entry'[w] \in Entries /\ entry'[w].kind = entry[w].kind
      /\ entry'[w].pointer = b
  <2>1. entry[w] \in Entries
      BY <1>3 DEF StoredType
  <2>2. QED BY <2>1, <1>5, <1>6 DEF Entries
<1>8. /\ DOMAIN node' = DOMAIN node \cup {b}
      /\ node'[b] = EmptyDir /\ DOMAIN node'[b] = {}
      /\ \A c \in DOMAIN node : node'[c] = node[c]
    BY <1>2, <1>5 DEF EmptyDir
<1>9. StoredType'
  <2>1. \A i \in DOMAIN entry : entry'[i] \in Entries
      BY <1>3, <1>6, <1>7 DEF StoredType
  <2>2. IsFiniteSet(DOMAIN node')
      BY <1>3, <1>8, FS_AddElement DEF StoredType
  <2>3. \A c \in DOMAIN node' :
            DOMAIN node'[c] \subseteq Components /\ \A n \in DOMAIN node'[c] : node'[c][n] \in Nat
      BY <1>3, <1>8 DEF StoredType
  <2>4. DOMAIN node' \subseteq Nat /\ 0 \in DOMAIN node'
      BY <1>3, <1>5, <1>8 DEF StoredType
  <2>5. entry'[Root] = [kind |-> "dir", pointer |-> 0]
      BY <1>3, <1>6 DEF StoredType
  <2>6. QED BY <1>2, <1>3, <1>6, <2>1, <2>2, <2>3, <2>4, <2>5 DEF StoredType
<1>10. /\ \A i \in DOMAIN entry : IsDir(i)' <=> IsDir(i)
       /\ \A i \in DOMAIN entry : i # w => Pointer(i)' = Pointer(i)
       /\ Pointer(w)' = b
    BY <1>6, <1>7 DEF IsDir, Pointer
<1>11. /\ Dirs' = Dirs /\ Files' = Files /\ w \in Dirs
       /\ WithNode = Dirs \ {w} /\ WithNode' = Dirs
  <2>1. Dirs' = Dirs /\ w \in Dirs
      BY <1>3, <1>6, <1>10 DEF Dirs
  <2>2. QED BY <2>1, <1>1, <1>2, <1>6 DEF Files, WithNode
<1>12. \A d \in WithNode : Pointer(d) \in DOMAIN node /\ Pointer(d)' = Pointer(d) /\ d # w
    BY <1>3, <1>10, <1>11 DEF NodesAgree, Dirs
<1>13. NodesAgree'
  <2>1. \A d \in Dirs : d # w => Pointer(d)' = Pointer(d) /\ Pointer(d) \in DOMAIN node
      BY <1>11, <1>12
  <2>2. \A d \in Dirs : Pointer(d)' \in DOMAIN node'
      BY <1>8, <1>10, <2>1
  <2>3. \A d, e \in Dirs : d # w /\ e # w /\ Pointer(d) = Pointer(e) => d = e
      BY <1>3, <1>11 DEF NodesAgree
  <2>4. \A d, e \in Dirs : Pointer(d)' = Pointer(e)' => d = e
      BY <1>5, <1>10, <2>1, <2>3
  <2>5. QED BY <2>2, <2>4, <1>11 DEF NodesAgree
<1>14. \A d \in WithNode : DirOf(d)' = DirOf(d)
    BY <1>8, <1>12 DEF DirOf, Pointer
<1>15. DOMAIN DirOf(w)' = {}
    BY <1>7, <1>8 DEF DirOf
<1>16. IsTree(Hierarchy', DOMAIN entry, depth)
  <2> DEFINE T == Hierarchy
             U == Hierarchy'
  <2>1. DOMAIN T = WithNode /\ DOMAIN U = Dirs
      BY <1>11 DEF Hierarchy
  <2>2. \A d \in WithNode : U[d] = T[d]
      BY <1>11, <1>14 DEF Hierarchy
  <2>3. DOMAIN U[w] = {}
      BY <1>11, <1>15 DEF Hierarchy
  <2>4. IsTree(T, DOMAIN entry, depth)
      BY <1>4
  <2> HIDE DEF T, U
  <2>5. /\ w \in DOMAIN entry /\ w \notin DOMAIN T
        /\ DOMAIN U = DOMAIN T \cup {w} /\ \A d \in DOMAIN T : U[d] = T[d]
      BY <1>3, <1>11, <2>1, <2>2
  <2>6. IsTree(U, DOMAIN entry, depth)
      BY <2>3, <2>4, <2>5, EmptyDirKeepsTree
  <2>7. QED BY <2>6 DEF U
<1>17. DataAgrees'
  <2>1. Held' = Held
      BY <1>2 DEF Held
  <2>2. \A f \in Files : Pointer(f)' = Pointer(f)
      BY <1>10, <1>11 DEF Files
  <2>3. \A f \in Files : Bare(f)' <=> Bare(f)
      BY <1>2 DEF Bare
  <2>4. QED BY <1>3, <1>11, <2>1, <2>2, <2>3 DEF DataAgrees
<1>18. /\ stack' \in Seq(Frames) /\ stack' # <<>>
       /\ \A i \in 1 .. Len(stack') : OnDiskIn(Dirs, stack'[i])
  <2>1. \A i \in 1 .. Len(stack) : OnDiskIn(Dirs, stack[i])
      BY <1>3, <1>11 DEF OnDisk, OnDiskIn
  <2>2. Top.id \in Nat /\ now.path \in Routes
      BY <1>3, TopIsFrame DEF Frames
  <2>3. QED BY <2>1, <2>2, <1>2, <1>3, <1>11, EnteredIsOnDisk
<1>19. Inserting'
    BY <1>2, <1>3, <1>11, <1>18 DEF Inserting, OnDisk, OnDiskIn
<1>20. CommandType'
  <2>1. now' \in [path : Routes, id : Nat, chunk : Nat] /\ now'.path = <<>>
      BY <1>2, EmptySeq DEF NoEntry, Root, Routes
  <2>2. QED BY <2>1, <1>2, <1>3, <1>18 DEF CommandType, InsertSteps, Steps
<1>21. AtWork' /\ \A e : Deleting(e)'
    BY <1>2, <1>3 DEF AtWork, InsertSteps, Deleting
<1>22. Agreement'
    BY <1>6, <1>13, <1>16, <1>17, <1>21 DEF Agreement
<1>23. QED BY <1>2, <1>3, <1>9, <1>19, <1>20, <1>21, <1>22 DEF IInv

(* A new entry is named in the innermost directory of the stack. *)
LEMMA InsertEntryStep ==
    ASSUME IInv, NextName, NEW name \in Top.left, InsertEntry(name)
    PROVE  IInv'
<1>1. PICK up, path, id, b :
          up = Top.id /\ path = Append(Top.path, name) /\ id = FreshId /\ b = Pointer(Top.id)
    OBVIOUS
<1> DEFINE kind == disk[path].kind
<1>2. /\ pc = "run" /\ cmd.do = "insert" /\ stack # <<>>
      /\ name \notin DOMAIN DirOf(up)
      /\ entry' = [i \in DOMAIN entry \cup {id} |->
                      IF i = id THEN [kind |-> kind, pointer |-> 0] ELSE entry[i]]
      /\ node' = [node EXCEPT ![b] = [n \in DOMAIN @ \cup {name} |-> IF n = name THEN id ELSE @[n]]]
      /\ now' = [path |-> path, id |-> id, chunk |-> 0]
      /\ pc' = IF kind = "dir" THEN "node" ELSE "free"
      /\ stack' = WithoutName(name)
      /\ UNCHANGED <<disk, data, cmd, lost>>
    BY <1>1 DEF NextName, InsertEntry, Pointer
<1>3. /\ ~lost /\ stack \in Seq(Frames) /\ disk \in Disks /\ cmd.path \in DOMAIN disk
      /\ cmd \in [do : {"insert"}, compress : BOOLEAN, args : Seq(Routes), path : Routes]
      /\ \A i \in 1 .. Len(stack) : OnDisk(stack[i])
      /\ name \in Components /\ up \in Dirs /\ path \in DOMAIN disk /\ path \in Routes
      /\ WithNode = Dirs
    BY <1>1, <1>2, InsertingFacts, RouteBelow
<1>4. StoredType /\ CommandType /\ NodesAgree /\ DataAgrees
    BY <1>3 DEF IInv, Agreement
<1>5. PICK depth : IsTree(Hierarchy, DOMAIN entry, depth)
    BY <1>3 DEF IInv, Agreement
<1>6. kind \in Kinds
    BY <1>3, ArchiveAssumption
<1> HIDE DEF kind
<1>7. id \in Nat /\ id \notin DOMAIN entry /\ id # Root
    BY <1>1, <1>4, FreshIsFree DEF FreshId, StoredType
<1>8. /\ DOMAIN entry' = DOMAIN entry \cup {id}
      /\ entry'[id] = [kind |-> kind, pointer |-> 0]
      /\ \A i \in DOMAIN entry : entry'[i] = entry[i]
      /\ entry' = [i \in DOMAIN entry' |-> entry'[i]]
    BY <1>2, <1>7
<1>9. b \in DOMAIN node /\ DirOf(up) = node[b] /\ b = Pointer(up)
    BY <1>1, <1>3, <1>4 DEF NodesAgree, DirOf, Pointer
<1>10. /\ DOMAIN node' = DOMAIN node
       /\ \A c \in DOMAIN node : c # b => node'[c] = node[c]
       /\ DOMAIN node'[b] = DOMAIN node[b] \cup {name}
       /\ node'[b][name] = id
       /\ \A n \in DOMAIN node[b] : node'[b][n] = node[b][n]
  <2>1. name \notin DOMAIN node[b]
      BY <1>2, <1>9
  <2> DEFINE names == [n \in DOMAIN node[b] \cup {name} |-> IF n = name THEN id ELSE node[b][n]]
  <2>2. node' = [node EXCEPT ![b] = names]
      BY <1>2
  <2>3. /\ DOMAIN names = DOMAIN node[b] \cup {name}
        /\ names[name] = id
        /\ \A n \in DOMAIN node[b] : names[n] = node[b][n]
      BY <2>1
  <2> HIDE DEF names
  <2>4. QED BY <2>2, <2>3, <1>9
<1>11. StoredType'
  <2>1. \A i \in DOMAIN entry' : entry'[i] \in Entries
      BY <1>4, <1>6, <1>8 DEF StoredType, Entries
  <2>2. DOMAIN entry' \subseteq Nat /\ IsFiniteSet(DOMAIN entry') /\ Root \in DOMAIN entry'
      BY <1>4, <1>7, <1>8, FS_AddElement DEF StoredType
  <2>3. entry'[Root] = [kind |-> "dir", pointer |-> 0]
      BY <1>4, <1>8 DEF StoredType
  <2>4. \A c \in DOMAIN node' :
            DOMAIN node'[c] \subseteq Components /\ \A n \in DOMAIN node'[c] : node'[c][n] \in Nat
    <3>1. ASSUME NEW c \in DOMAIN node
          PROVE  DOMAIN node'[c] \subseteq Components /\ \A n \in DOMAIN node'[c] : node'[c][n] \in Nat
      <4>1. DOMAIN node[c] \subseteq Components /\ \A n \in DOMAIN node[c] : node[c][n] \in Nat
          BY <1>4 DEF StoredType
      <4>2. QED BY <4>1, <1>3, <1>7, <1>10
    <3>2. QED BY <3>1, <1>10
  <2>5. entry' \in [DOMAIN entry' -> Entries]
      BY <2>1, <1>8
  <2>6. QED BY <1>2, <1>4, <1>10, <2>2, <2>3, <2>4, <2>5 DEF StoredType
<1>12. /\ \A i \in DOMAIN entry : (IsDir(i)' <=> IsDir(i)) /\ Pointer(i)' = Pointer(i)
       /\ IsDir(id)' <=> kind = "dir"
       /\ Pointer(id)' = 0
    BY <1>8 DEF IsDir, Pointer
<1>13. WithNode' = Dirs
  <2>1. Dirs' = IF kind = "dir" THEN Dirs \cup {id} ELSE Dirs
      BY <1>8, <1>12 DEF Dirs
  <2>2. now'.id = id /\ id \notin Dirs
      BY <1>2, <1>7 DEF Dirs
  <2>3. pc' = "node" <=> kind = "dir"
      BY <1>2
  <2>4. QED BY <2>1, <2>2, <2>3 DEF WithNode
<1>14. Files' = IF kind = "dir" THEN Files ELSE Files \cup {id}
    BY <1>7, <1>8, <1>12 DEF Files, Dirs
<1>15. NodesAgree'
  <2>1. \A d \in Dirs : Pointer(d)' = Pointer(d)
      BY <1>12 DEF Dirs
  <2>2. QED BY <2>1, <1>3, <1>4, <1>10, <1>13 DEF NodesAgree
<1>16. /\ \A d \in Dirs : d # up => DirOf(d)' = DirOf(d)
       /\ DirOf(up)' = node'[b]
  <2>1. \A d \in Dirs : Pointer(d)' = Pointer(d) /\ Pointer(d) \in DOMAIN node
      BY <1>3, <1>4, <1>12 DEF Dirs, NodesAgree
  <2>2. \A d \in Dirs : DirOf(d)' = node'[Pointer(d)] /\ DirOf(d) = node[Pointer(d)]
      BY <2>1 DEF DirOf, Pointer
  <2>3. \A d \in Dirs : d # up => Pointer(d) # b
      BY <1>3, <1>4, <1>9 DEF NodesAgree
  <2>4. QED BY <1>3, <1>9, <1>10, <2>1, <2>2, <2>3
<1>17. \E deeper : IsTree(Hierarchy', DOMAIN entry', deeper)
  <2> DEFINE T == Hierarchy
             U == Hierarchy'
             I == DOMAIN entry
  <2>1. DOMAIN T = Dirs /\ DOMAIN U = Dirs
      BY <1>3, <1>13 DEF Hierarchy
  <2>2. \A d \in Dirs : T[d] = DirOf(d) /\ U[d] = DirOf(d)'
      BY <1>3, <1>13 DEF Hierarchy
  <2>3. \A d \in Dirs : d # up => U[d] = T[d]
      BY <2>2, <1>16
  <2>4. T[up] = node[b] /\ U[up] = node'[b]
      BY <2>2, <1>3, <1>9, <1>16
  <2>5. IsTree(T, I, depth)
      BY <1>5
  <2> HIDE DEF T, U
  <2>6. /\ DOMAIN U = DOMAIN T /\ up \in DOMAIN T
        /\ name \notin DOMAIN T[up]
        /\ \A d \in DOMAIN T : d # up => U[d] = T[d]
        /\ DOMAIN U[up] = DOMAIN T[up] \cup {name}
        /\ \A n \in DOMAIN T[up] : U[up][n] = T[up][n]
        /\ U[up][name] = id
      BY <2>1, <2>3, <2>4, <1>2, <1>3, <1>9, <1>10
  <2> HIDE DEF I
  <2>7. \E deeper : IsTree(U, I \cup {id}, deeper)
      BY <2>5, <2>6, <1>7, NamingKeepsTree DEF I
  <2>8. QED BY <2>7, <1>8 DEF U, I
<1>18. DataAgrees'
  <2>1. Held' = DOMAIN data /\ Held = DOMAIN data /\ 0 \notin DOMAIN data
      BY <1>2, <1>4 DEF Held, StoredType
  <2>2. \A f \in Files : Pointer(f)' = Pointer(f) /\ f # id /\ ~Bare(f)
      BY <1>2, <1>7, <1>12 DEF Files, Bare
  <2>3. \A f \in Files : Pointer(f) \in DOMAIN data
      BY <1>4, <2>1, <2>2 DEF DataAgrees
  <2>4. \A f \in Files' : Bare(f)' <=> f = id
      BY <1>2, <1>7, <1>12, <1>14, <2>2 DEF Bare
  <2>5. QED BY <1>4, <1>12, <1>14, <2>1, <2>2, <2>3, <2>4 DEF DataAgrees
<1>19. /\ stack' \in Seq(Frames) /\ stack' # <<>>
       /\ \A i \in 1 .. Len(stack') : OnDisk(stack'[i])
    BY <1>2, <1>3, FrameWithoutName, WithoutNameIsOnDisk
<1>20. Inserting'
    BY <1>2, <1>3, <1>13, <1>19 DEF Inserting, OnDisk, OnDiskIn
<1>21. /\ now' \in [path : Routes, id : Nat, chunk : Nat]
       /\ now'.id = id /\ now'.path = path
    BY <1>2, <1>3, <1>7
<1>22. CommandType'
    BY <1>2, <1>3, <1>4, <1>19, <1>21 DEF CommandType, InsertSteps, Steps
<1>23. AtWork'
    BY <1>2, <1>3, <1>7, <1>8, <1>12, <1>19, <1>21 DEF AtWork, Pointer, IsDir
<1>24. \A e : Deleting(e)'
    BY <1>2, <1>3 DEF Deleting
<1>25. Agreement'
    BY <1>15, <1>17, <1>18, <1>24 DEF Agreement
<1>26. QED BY <1>2, <1>3, <1>11, <1>20, <1>22, <1>23, <1>25 DEF IInv
-------------------------------------------------------------------------------
(***************************************************************************)
(* A new archive.                                                          *)
(***************************************************************************)
JustCreated ==
    /\ entry = OnlyRoot /\ node = [b \in {0} |-> EmptyDir] /\ data = [b \in {} |-> Absent]
    /\ pc \notin {"node", "store", "point", "free", "entry"} /\ stack = <<>>

LEMMA OnlyRootAgrees == JustCreated => StoredType /\ Agreement
<1> SUFFICES ASSUME JustCreated PROVE StoredType /\ Agreement
    OBVIOUS
<1>0. /\ entry = OnlyRoot /\ node = [b \in {0} |-> EmptyDir] /\ data = [b \in {} |-> Absent]
      /\ pc \notin {"node", "store", "point", "free", "entry"} /\ stack = <<>>
    BY DEF JustCreated
<1> DEFINE dir == [kind |-> "dir", pointer |-> 0]
<1>1. /\ DOMAIN entry = {0} /\ entry[0] = dir /\ entry = [i \in DOMAIN entry |-> entry[i]]
      /\ DOMAIN node = {0} /\ DOMAIN node[0] = {} /\ DOMAIN data = {}
    BY <1>0 DEF OnlyRoot, Root, EmptyDir
<1>2. dir \in Entries /\ dir.kind = "dir" /\ dir.pointer = 0
    BY DEF Entries, Kinds
<1>3. IsFiniteSet({0}) /\ IsFiniteSet({})
    BY FS_Singleton, FS_EmptySet
<1>4. entry \in [DOMAIN entry -> Entries]
    BY <1>1, <1>2
<1> HIDE DEF dir
<1>5. StoredType
    BY <1>1, <1>2, <1>3, <1>4 DEF StoredType, Root, dir
<1>6. Dirs = {0} /\ Files = {} /\ WithNode = {0} /\ Held = {}
    BY <1>0, <1>1, <1>2 DEF Dirs, Files, IsDir, WithNode, Held
<1>7. Pointer(0) = 0 /\ DOMAIN DirOf(0) = {}
    BY <1>1, <1>2 DEF Pointer, DirOf
<1>8. NodesAgree /\ DataAgrees
    BY <1>1, <1>6, <1>7 DEF NodesAgree, DataAgrees
<1>9. DOMAIN Hierarchy = {0} /\ DOMAIN Hierarchy[0] = {}
    BY <1>6, <1>7 DEF Hierarchy
<1>10. IsTree(Hierarchy, DOMAIN entry, [i \in {0} |-> 0])
    BY <1>1, <1>9 DEF IsTree, Root
<1>11. Len(stack) = 0 /\ pc # "entry"
    BY <1>0, EmptySeq
<1>12. \A depth : Deleting(depth)
    BY <1>11 DEF Deleting
<1>13. QED BY <1>5, <1>8, <1>10, <1>12 DEF Agreement

LEMMA CreateStep ==
    ASSUME IInv, NEW args \in Arguments, NEW compress \in BOOLEAN, Create(args, compress)
    PROVE  IInv'
<1>1. /\ pc = "closed" /\ pc' = "run" /\ disk' \in Disks /\ lost' = FALSE
      /\ entry' = OnlyRoot
      /\ node' = [b \in {0} |-> EmptyDir]
      /\ data' = [b \in {} |-> Absent]
      /\ UNCHANGED <<stack, now>>
      /\ cmd' = [do |-> "insert", compress |-> compress, args |-> CreateRelativePath(args),
                 path |-> <<>>]
    BY DEF Create
<1>2. CommandType /\ stack = <<>> /\ stack' = <<>> /\ Len(stack') = 0 /\ now.path = <<>>
    BY <1>1 DEF IInv, CommandType, InsertSteps
<1>3. StoredType' /\ Agreement'
  <2>1. JustCreated'
      BY <1>1, <1>2 DEF JustCreated, OnlyRoot, EmptyDir
  <2>2. QED BY <2>1, OnlyRootAgrees, PTL
<1>4. CommandType'
  <2>1. CreateRelativePath(args) \in Seq(Routes) /\ <<>> \in Routes
      BY RelativePathsAreRoutes, EmptySeq DEF Routes
  <2>2. /\ cmd' \in [do : {"insert"}, compress : BOOLEAN, args : Seq(Routes), path : Routes]
        /\ cmd'.do = "insert"
      BY <1>1, <2>1
  <2>3. QED BY <1>1, <1>2, <2>2 DEF CommandType, Steps, InsertSteps
<1>5. Inserting' /\ AtWork'
    BY <1>1, <1>2 DEF Inserting, AtWork, InsertSteps
<1>6. QED BY <1>1, <1>3, <1>4, <1>5 DEF IInv
-------------------------------------------------------------------------------
(***************************************************************************)
(* Deletion.                                                               *)
(***************************************************************************)

(* What the frames of a deletion say of the state between two steps. *)
LEMMA DeletingFacts ==
    ASSUME IInv, cmd.do = "delete"
    PROVE  /\ ~lost /\ StoredType /\ CommandType /\ NodesAgree /\ DataAgrees
           /\ pc \in {"run", "entry"} /\ now.path = <<>>
           /\ cmd \in [do : {"delete"}, compress : BOOLEAN, args : Seq(Routes), path : Routes]
           /\ stack \in Seq(Frames)
           /\ WithNode = Dirs /\ NamesLeadToEntries /\ \A f \in Files : f # Root
           /\ DOMAIN Hierarchy = Dirs /\ \A d \in Dirs : Hierarchy[d] = DirOf(d)
           /\ \E depth : /\ IsTree(Hierarchy, DOMAIN entry, depth)
                         /\ \A i \in 1 .. Len(stack) : OnTheWayDown(i, depth)
<1>1. /\ ~lost /\ StoredType /\ CommandType /\ NodesAgree /\ DataAgrees
      /\ cmd \in [do : {"delete"}, compress : BOOLEAN, args : Seq(Routes), path : Routes]
      /\ stack \in Seq(Frames)
    BY DEF IInv, CommandType, Agreement
<1>2. pc \in {"run", "entry"} /\ now.path = <<>>
    BY <1>1 DEF IInv, AtWork, CommandType, Steps, InsertSteps
<1>3. \E depth : /\ IsTree(Hierarchy, DOMAIN entry, depth)
                 /\ \A i \in 1 .. Len(stack) : OnTheWayDown(i, depth)
    BY <1>1 DEF IInv, Agreement, Deleting
<1>4. WithNode = Dirs /\ NamesLeadToEntries /\ \A f \in Files : f # Root
    BY <1>1, <1>2, <1>3, NoNodeMissing
<1>5. DOMAIN Hierarchy = Dirs /\ \A d \in Dirs : Hierarchy[d] = DirOf(d)
    BY <1>4 DEF Hierarchy
<1>6. QED BY <1>1, <1>2, <1>3, <1>4, <1>5

(* The recursion of a deletion moves to another path or further down. *)
LEMMA DeletionMoves ==
    ASSUME IInv, UNCHANGED <<disk, entry, node, data, now, lost>>,
           cmd.do = "delete", pc = "run", pc' = "run",
           cmd' \in [do : {"delete"}, compress : BOOLEAN, args : Seq(Routes), path : Routes],
           stack' \in Seq(Frames),
           NEW depth, IsTree(Hierarchy, DOMAIN entry, depth),
           \A i \in 1 .. Len(stack') : OnTheWayDown(i, depth)'
    PROVE  IInv'
<1>1. ~lost
    BY DEF IInv
<1>2. StoredType'
    BY SameStore DEF IInv
<1>3. CommandType'
    BY DEF IInv, CommandType, InsertSteps, Steps
<1>4. NodesAgree' /\ Hierarchy' = Hierarchy
    BY <1>1, SameTree DEF IInv, Agreement
<1>5. Inserting' /\ AtWork'
    BY DEF Inserting, AtWork, InsertSteps
<1>6. DataAgrees'
  <2>1. \A f \in Files : Bare(f)' <=> Bare(f)
      BY DEF Bare
  <2>2. QED BY <2>1, <1>1, SameData DEF IInv, Agreement
<1>7. Deleting(depth)'
    BY DEF Deleting
<1>8. Agreement'
    BY <1>4, <1>6, <1>7 DEF Agreement
<1>9. QED BY <1>1, <1>2, <1>3, <1>5, <1>8 DEF IInv

(* What is to be deleted below an entry are names of components. *)
LEMMA ToDeleteIsNames ==
    ASSUME StoredType, NodesAgree, WithNode = Dirs, NEW id \in DOMAIN entry
    PROVE  /\ ToDelete(id) \subseteq Components
           /\ IsDir(id) => id \in Dirs /\ ToDelete(id) = DOMAIN DirOf(id)
<1>1. CASE IsDir(id)
  <2>1. id \in Dirs /\ DirOf(id) = node[Pointer(id)] /\ Pointer(id) \in DOMAIN node
      BY <1>1 DEF Dirs, NodesAgree, DirOf, Pointer
  <2>2. QED BY <2>1, <1>1 DEF StoredType, ToDelete
<1>2. CASE ~IsDir(id)
    BY <1>2 DEF ToDelete
<1>3. QED BY <1>1, <1>2

LEMMA NextToDeleteStep ==
    ASSUME IInv, NextToDelete
    PROVE  IInv'
<1>1. PICK path, at, up : path = Head(cmd.args) /\ at = GetEntry(path) /\ up = GetEntry(Front(path)).id
    OBVIOUS
<1>2. PICK t : t = ToDelete(at.id)
    OBVIOUS
<1> DEFINE f == Frame(path, at.id, up, t)
<1>3. /\ pc = "run" /\ cmd.do = "delete" /\ cmd.args # <<>>
      /\ cmd' = [cmd EXCEPT !.args = Tail(cmd.args), !.path = path]
      /\ stack' = IF path = <<>> \/ ~at.found THEN <<>> ELSE <<f>>
      /\ UNCHANGED <<disk, entry, node, data, now, pc, lost>>
    BY <1>1, <1>2 DEF NextToDelete, ArgumentsLeft
<1>4. /\ cmd \in [do : {"delete"}, compress : BOOLEAN, args : Seq(Routes), path : Routes]
      /\ StoredType /\ NodesAgree
      /\ WithNode = Dirs /\ NamesLeadToEntries /\ \A i \in Files : i # Root
    BY <1>3, DeletingFacts
<1>5. PICK depth : IsTree(Hierarchy, DOMAIN entry, depth)
    BY <1>3, DeletingFacts
<1>6. path \in Routes /\ Tail(cmd.args) \in Seq(Routes)
    BY <1>1, <1>3, <1>4, HeadTailProperties
<1>7. cmd' \in [do : {"delete"}, compress : BOOLEAN, args : Seq(Routes), path : Routes]
    BY <1>3, <1>4, <1>6
<1>8. CASE path = <<>> \/ ~at.found
  <2>1. stack' = <<>> /\ stack' \in Seq(Frames) /\ Len(stack') = 0
      BY <1>3, <1>8, EmptySeq
  <2>2. QED BY <2>1, <1>3, <1>5, <1>7, DeletionMoves
<1>9. CASE path # <<>> /\ at.found
  <2>1. /\ at.id \in DOMAIN entry \ {Root} /\ up \in DOMAIN entry
        /\ IsDir(up) => \E n \in DOMAIN DirOf(up) : DirOf(up)[n] = at.id
        /\ IsDir(at.id) => IsDir(up)
      BY <1>1, <1>4, <1>6, <1>9, FoundIsNamed
  <2>2. at.id \in Nat /\ up \in Nat /\ t \subseteq Components
      BY <1>2, <1>4, <2>1, ToDeleteIsNames DEF StoredType
  <2>3. f \in Frames /\ f.id = at.id /\ f.parent = up /\ f.left = t
      BY <1>6, <2>2 DEF Frame, Frames
  <2>4. stack' = <<f>>
      BY <1>3, <1>9
  <2> HIDE DEF f
  <2>5. stack' \in Seq(Frames) /\ Len(stack') = 1 /\ stack'[1] = f
      BY <2>3, <2>4
  <2>6. OnTheWayDown(1, depth)'
    <3>1. Left(1)' = t
      <4>1. Left(1)' = ToDelete(f.id)'
          BY <2>5 DEF Left
      <4>2. ToDelete(f.id)' = ToDelete(at.id)
          BY <1>3, <2>3, SameStore DEF ToDelete
      <4>3. QED BY <4>1, <4>2, <1>2
    <3>2. \A j \in 1 .. 1 - 1 : FALSE
        OBVIOUS
    <3>3. QED BY <1>3, <2>1, <2>3, <2>5, <3>1, <3>2, SameStore DEF OnTheWayDown
  <2>7. \A i \in 1 .. Len(stack') : OnTheWayDown(i, depth)'
      BY <2>5, <2>6
  <2>8. QED BY <2>5, <2>7, <1>3, <1>5, <1>7, DeletionMoves
<1>10. QED BY <1>8, <1>9
(* Down into an entry of the innermost directory of the stack. *)
LEMMA DeleteBelowStep ==
    ASSUME IInv, DeleteBelow
    PROVE  IInv'
<1>1. PICK name \in Top.left : LET id == DirOf(Top.id)[name] IN
          stack' = Append(WithoutName(name),
                          Frame(Append(Top.path, name), id, Top.id, ToDelete(id)))
    BY DEF DeleteBelow
<1>2. PICK up, id, t, path, s :
          /\ up = Top.id /\ id = DirOf(up)[name] /\ t = ToDelete(id) /\ path = Append(Top.path, name)
          /\ s = WithoutName(name)
    OBVIOUS
<1> DEFINE f == Frame(path, id, up, t)
<1>3. /\ pc = "run" /\ cmd.do = "delete" /\ stack # <<>>
      /\ stack' = Append(s, f)
      /\ UNCHANGED <<disk, entry, node, data, cmd, now, pc, lost>>
    BY <1>1, <1>2 DEF DeleteBelow
<1>4. /\ cmd \in [do : {"delete"}, compress : BOOLEAN, args : Seq(Routes), path : Routes]
      /\ StoredType /\ NodesAgree /\ stack \in Seq(Frames)
      /\ WithNode = Dirs /\ NamesLeadToEntries
      /\ DOMAIN Hierarchy = Dirs /\ \A d \in Dirs : Hierarchy[d] = DirOf(d)
    BY <1>3, DeletingFacts
<1>5. PICK depth : /\ IsTree(Hierarchy, DOMAIN entry, depth)
                   /\ \A i \in 1 .. Len(stack) : OnTheWayDown(i, depth)
    BY <1>3, DeletingFacts
<1>6. PICK L \in Nat \ {0} : L = Len(stack)
    BY <1>3, <1>4, TopIsFrame
<1>7. Top = stack[L] /\ Top \in Frames
    BY <1>3, <1>4, <1>6, TopIsFrame
<1>8. OnTheWayDown(L, depth)
    BY <1>5, <1>6
<1>9. up \in DOMAIN entry \ {Root} /\ Top.left = ToDelete(up)
    BY <1>2, <1>6, <1>7, <1>8 DEF OnTheWayDown, Left
<1>10. IsDir(up) /\ up \in Dirs /\ name \in DOMAIN DirOf(up) /\ Top.left = DOMAIN DirOf(up)
    BY <1>4, <1>9, ToDeleteIsNames DEF ToDelete
<1>11. id \in DOMAIN entry \ {Root}
    BY <1>2, <1>4, <1>10 DEF NamesLeadToEntries
<1>12. t \subseteq Components /\ name \in Components
    BY <1>2, <1>4, <1>7, <1>11, ToDeleteIsNames DEF Frames
<1>13. path \in Routes
    BY <1>2, <1>7, <1>12, RouteBelow DEF Frames
<1>14. f \in Frames /\ f.id = id /\ f.parent = up /\ f.left = t
    BY <1>4, <1>9, <1>11, <1>12, <1>13 DEF Frame, Frames, StoredType
<1> HIDE DEF f
<1>15. /\ s \in Seq(Frames) /\ Len(s) = L
       /\ \A i \in 1 .. L : i # L => s[i] = stack[i]
       /\ s[L].id = up /\ s[L].parent = Top.parent /\ s[L].left = Top.left \ {name}
    BY <1>2, <1>3, <1>4, <1>6, FrameWithoutName
<1>16. /\ stack' \in Seq(Frames) /\ Len(stack') = L + 1
       /\ \A i \in 1 .. L : stack'[i] = s[i]
       /\ stack'[L + 1] = f
    BY <1>3, <1>14, <1>15, FrameAdded
<1>17. /\ \A i \in 1 .. L : stack'[i].id = stack[i].id /\ stack'[i].parent = stack[i].parent
       /\ \A i \in 1 .. L - 1 : stack'[i].left = stack[i].left
       /\ stack'[L].left = Top.left \ {name}
       /\ stack'[L].id = up
  <2>1. \A i \in 1 .. L : i # L => stack'[i] = stack[i]
      BY <1>15, <1>16
  <2>2. stack'[L] = s[L] /\ stack[L].id = up /\ stack[L].parent = Top.parent
      BY <1>2, <1>7, <1>16
  <2>3. QED BY <2>1, <2>2, <1>15
<1>18. \A m \in DOMAIN DirOf(up) : DirOf(up)[m] = id => m = name
    BY <1>2, <1>4, <1>5, <1>10 DEF IsTree
<1>19. depth[up] < depth[id]
    BY <1>2, <1>4, <1>5, <1>10 DEF IsTree
<1>20. \A i : ToDelete(i)' = ToDelete(i)
    BY <1>3, SameStore DEF ToDelete
<1>21. depth \in [DOMAIN entry -> Nat] /\ \A i \in 1 .. L : stack[i].id \in DOMAIN entry
    BY <1>5, <1>6 DEF IsTree, OnTheWayDown
<1>22. ASSUME NEW i \in 1 .. L PROVE OnTheWayDown(i, depth)'
  <2>1. OnTheWayDown(i, depth)
      BY <1>5, <1>6
  <2>2. stack'[i].left = Left(i)'
    <3>1. CASE i = L
      <4>1. Left(L)' = {n \in ToDelete(up) : DirOf(up)[n] # id}
          BY <1>3, <1>14, <1>16, <1>17, <1>20, SameStore DEF Left
      <4>2. {n \in ToDelete(up) : DirOf(up)[n] # id} = Top.left \ {name}
          BY <1>2, <1>9, <1>10, <1>18
      <4>3. QED BY <3>1, <4>1, <4>2, <1>17
    <3>2. CASE i # L
      <4>1. i \in 1 .. L - 1 /\ i + 1 \in 1 .. L /\ i < L /\ i < L + 1
          BY <3>2
      <4>2. stack'[i].id = stack[i].id /\ stack'[i + 1].id = stack[i + 1].id
          BY <4>1, <1>17
      <4>3. Left(i)' = Left(i)
          BY <4>1, <4>2, <1>3, <1>6, <1>16, <1>20, SameStore DEF Left
      <4>4. stack[i].left = Left(i)
          BY <2>1 DEF OnTheWayDown
      <4>5. QED BY <4>1, <4>3, <4>4, <1>17
    <3>3. QED BY <3>1, <3>2
  <2>3. /\ stack'[i].id = stack[i].id /\ stack'[i].parent = stack[i].parent
        /\ i > 1 => stack'[i - 1].id = stack[i - 1].id
        /\ \A j \in 1 .. i - 1 : stack'[j].id = stack[j].id
      BY <1>17
  <2>4. QED BY <2>1, <2>2, <2>3, <1>3, SameStore DEF OnTheWayDown
<1>23. OnTheWayDown(L + 1, depth)'
  <2>1. Left(L + 1)' = t
    <3>1. ~(L + 1 < Len(stack'))
        BY <1>16
    <3>2. Left(L + 1)' = ToDelete(id)'
        BY <3>1, <1>14, <1>16 DEF Left
    <3>3. QED BY <3>2, <1>2, <1>20
  <2>2. \A j \in 1 .. L : depth[stack'[j].id] < depth[id]
    <3>1. \A j \in 1 .. L : j # L => depth[stack[j].id] < depth[up]
        BY <1>2, <1>7, <1>8 DEF OnTheWayDown
    <3>2. ASSUME NEW j \in 1 .. L PROVE depth[stack'[j].id] < depth[id]
      <4>1. CASE j = L
          BY <4>1, <1>17, <1>19
      <4>2. CASE j # L
        <5>1. depth[stack[j].id] < depth[up]
            BY <3>1, <4>2
        <5>2. depth[stack[j].id] \in Nat /\ depth[up] \in Nat /\ depth[id] \in Nat
            BY <1>9, <1>11, <1>21
        <5>3. QED BY <5>1, <5>2, <1>17, <1>19
      <4>3. QED BY <4>1, <4>2
    <3>3. QED BY <3>2
  <2>3. /\ L + 1 - 1 = L
        /\ IsDir(up)'
        /\ name \in (DOMAIN DirOf(up))' /\ DirOf(up)'[name] = id
      BY <1>2, <1>3, <1>10, SameStore
  <2>4. stack'[L + 1].parent = up /\ stack'[L].id = up
      BY <1>14, <1>16, <1>17
  <2>5. QED BY <2>1, <2>2, <2>3, <2>4, <1>3, <1>9, <1>11, <1>14, <1>16 DEF OnTheWayDown
<1>24. \A i \in 1 .. Len(stack') : OnTheWayDown(i, depth)'
    BY <1>16, <1>22, <1>23
<1>25. QED BY <1>3, <1>4, <1>5, <1>16, <1>24, DeletionMoves

(* The data of a file goes before its entry. *)
LEMMA DeleteDataStep ==
    ASSUME IInv, DeleteData
    PROVE  IInv'
<1>1. PICK t, p : t = Top.id /\ p = Pointer(t)
    OBVIOUS
<1>2. /\ pc = "run" /\ pc' = "entry" /\ cmd.do = "delete" /\ stack # <<>> /\ Top.left = {}
      /\ data' = IF IsDir(t) THEN data ELSE WithoutChunk(p)
      /\ UNCHANGED <<disk, entry, node, cmd, stack, now, lost>>
    BY <1>1 DEF DeleteData, Pointer
<1>3. /\ ~lost /\ StoredType /\ CommandType /\ NodesAgree /\ DataAgrees
      /\ now.path = <<>> /\ stack \in Seq(Frames)
    BY <1>2, DeletingFacts
<1>4. PICK depth : /\ IsTree(Hierarchy, DOMAIN entry, depth)
                   /\ \A i \in 1 .. Len(stack) : OnTheWayDown(i, depth)
    BY <1>2, DeletingFacts
<1>5. t \in DOMAIN entry
  <2>1. Top = stack[Len(stack)] /\ Len(stack) \in 1 .. Len(stack)
      BY <1>2, <1>3, TopIsFrame
  <2>2. QED BY <2>1, <1>1, <1>4 DEF OnTheWayDown
<1>6. Top' = Top
    BY <1>2 DEF Top
<1>7. /\ Dirs' = Dirs /\ Files' = Files /\ WithNode' = WithNode
      /\ \A i : IsDir(i)' = IsDir(i) /\ Pointer(i)' = Pointer(i) /\ DirOf(i)' = DirOf(i)
    BY <1>2 DEF Dirs, Files, WithNode, IsDir, Pointer, DirOf
<1>8. NodesAgree' /\ Hierarchy' = Hierarchy
    BY <1>2, <1>3, <1>7 DEF NodesAgree, Hierarchy
<1>9. Held = DOMAIN data /\ Held' = DOMAIN data'
    BY <1>2 DEF Held
<1>10. DOMAIN data' = IF IsDir(t) THEN DOMAIN data ELSE DOMAIN data \ {p}
    BY <1>2 DEF WithoutChunk
<1>11. \A f \in Files : Pointer(f) \in DOMAIN data
  <2>1. \A f \in Files : ~Bare(f)
      BY <1>2 DEF Bare
  <2>2. QED BY <2>1, <1>3, <1>9 DEF DataAgrees
<1>12. \A f, g \in Files : Pointer(f) = Pointer(g) => f = g
    BY <1>3, <1>9, <1>11 DEF DataAgrees
<1>13. \A f \in Files : Bare(f)' <=> f = t
    BY <1>1, <1>2, <1>6 DEF Bare
<1>14. t \in Files <=> ~IsDir(t)
    BY <1>5 DEF Files, Dirs
<1>15. DataAgrees'
  <2>1. \A f \in Files : Bare(f)' <=> Pointer(f)' \notin Held'
      BY <1>1, <1>7, <1>9, <1>10, <1>11, <1>12, <1>13, <1>14
  <2>2. \A f, g \in Files : Pointer(f)' \in Held' /\ Pointer(f)' = Pointer(g)' => f = g
      BY <1>7, <1>12
  <2>3. \A c \in Held' : \E f \in Files : Pointer(f)' = c
      BY <1>3, <1>7, <1>9, <1>10 DEF DataAgrees
  <2>4. QED BY <2>1, <2>2, <2>3, <1>7 DEF DataAgrees
<1>16. StoredType'
  <2>1. DOMAIN data \subseteq Nat \ {0} /\ IsFiniteSet(DOMAIN data)
      BY <1>3 DEF StoredType
  <2>2. IsFiniteSet(DOMAIN data \ {p})
      BY <2>1, FS_RemoveElement
  <2>3. DOMAIN data' \subseteq Nat \ {0} /\ IsFiniteSet(DOMAIN data')
      BY <2>1, <2>2, <1>10
  <2>4. QED BY <2>3, <1>2, <1>3 DEF StoredType
<1>17. CommandType'
    BY <1>2, <1>3 DEF CommandType, Steps, InsertSteps
<1>18. Inserting' /\ AtWork'
    BY <1>2 DEF Inserting, AtWork, InsertSteps
<1>19. Deleting(depth)'
  <2>1. \A i : Left(i)' = Left(i)
      BY <1>2, <1>7 DEF Left, ToDelete
  <2>2. ASSUME NEW i \in 1 .. Len(stack) PROVE OnTheWayDown(i, depth)'
      BY <2>1, <1>2, <1>4, <1>7 DEF OnTheWayDown
  <2>3. QED BY <2>2, <1>2, <1>6 DEF Deleting
<1>20. Agreement'
    BY <1>2, <1>4, <1>8, <1>15, <1>19 DEF Agreement
<1>21. QED BY <1>2, <1>3, <1>16, <1>17, <1>18, <1>20 DEF IInv
(* An entry is deleted once nothing is left below it and its data is gone.  If what is
   taken for its directory is none, its name remains and the archive is lost. *)
LEMMA DeleteEntryFacts ==
    ASSUME IInv, DeleteEntry, NEW L, L = Len(stack)
    PROVE  /\ cmd.do = "delete" /\ stack # <<>> /\ L \in Nat \ {0}
           /\ Top = stack[L] /\ Top \in Frames
           /\ IsDir(Top.id) => DOMAIN DirOf(Top.id) = {}
           /\ Top.id \in DOMAIN entry \ {Root} /\ Top.parent \in DOMAIN entry
<1>1. pc = "entry"
    BY DEF DeleteEntry
<1>2. cmd.do = "delete" /\ stack # <<>> /\ Top.left = {}
    BY <1>1 DEF IInv, CommandType, Agreement, Deleting
<1>3. stack \in Seq(Frames)
    BY DEF IInv, CommandType
<1>4. L \in Nat \ {0} /\ Top = stack[L] /\ Top \in Frames
    BY <1>2, <1>3, TopIsFrame
<1>5. PICK depth : \A i \in 1 .. Len(stack) : OnTheWayDown(i, depth)
    BY <1>2, DeletingFacts
<1>6. OnTheWayDown(L, depth)
    BY <1>4, <1>5
<1>7. Top.left = ToDelete(Top.id)
    BY <1>4, <1>6 DEF OnTheWayDown, Left
<1>8. IsDir(Top.id) => DOMAIN DirOf(Top.id) = {}
    BY <1>2, <1>7 DEF ToDelete
<1>9. QED BY <1>2, <1>4, <1>6, <1>8 DEF OnTheWayDown

LEMMA DeleteLostEntryStep ==
    ASSUME IInv, DeleteEntry, ~IsDir(Top.parent)
    PROVE  IInv'
<1>1. PICK t : t = Top.id
    OBVIOUS
<1>2. /\ pc' = "ended" /\ lost' = TRUE /\ cmd' = NoCommand /\ stack' = <<>>
      /\ entry' = [i \in DOMAIN entry \ {t} |-> entry[i]]
      /\ UNCHANGED <<disk, node, data, now>>
    BY <1>1 DEF DeleteEntry
<1>3. t \in DOMAIN entry \ {Root} /\ cmd.do = "delete"
    BY <1>1, DeleteEntryFacts
<1>4. /\ StoredType /\ CommandType /\ now.path = <<>>
      /\ DOMAIN Hierarchy = Dirs /\ \A d \in Dirs : Hierarchy[d] = DirOf(d)
    BY <1>3, DeletingFacts
<1>5. PICK depth : IsTree(Hierarchy, DOMAIN entry, depth)
    BY <1>3, DeletingFacts
<1>6. PICK d \in Dirs : \E n \in DOMAIN DirOf(d) : DirOf(d)[n] = t
  <2>1. \A i \in DOMAIN entry \ {Root} :
            \E d \in DOMAIN Hierarchy : \E n \in DOMAIN Hierarchy[d] : Hierarchy[d][n] = i
      BY <1>5 DEF IsTree
  <2>2. QED BY <2>1, <1>3, <1>4
<1>7. PICK n \in DOMAIN DirOf(d) : DirOf(d)[n] = t
    BY <1>6
<1>8. d # t
  <2>1. depth[d] < depth[t] /\ depth[t] \in Nat
      BY <1>3, <1>4, <1>5, <1>6, <1>7 DEF IsTree
  <2>2. QED BY <2>1
<1>9. /\ DOMAIN entry' = DOMAIN entry \ {t}
      /\ \A i \in DOMAIN entry \ {t} : entry'[i] = entry[i]
      /\ entry' = [i \in DOMAIN entry' |-> entry'[i]]
    BY <1>2
<1>10. d \in Dirs' /\ DirOf(d)' = DirOf(d)
    BY <1>2, <1>6, <1>8, <1>9 DEF Dirs, IsDir, DirOf
<1>11. ~Whole'
  <2>1. <<d, n>> \in Named'
    <3>1. n \in (DOMAIN DirOf(d))'
        BY <1>7, <1>10
    <3>2. QED BY <1>10, <3>1 DEF Named
  <2>2. t \in {DirOf(p[1])[p[2]] : p \in Named}'
    <3>1. DirOf(<<d, n>>[1])'[<<d, n>>[2]] = t
        BY <1>7, <1>10
    <3>2. QED BY <2>1, <3>1
  <2>3. t \notin DOMAIN entry'
      BY <1>9
  <2>4. QED BY <2>2, <2>3 DEF Whole
<1>12. StoredType'
  <2>1. IsFiniteSet(DOMAIN entry')
      BY <1>4, <1>9, FS_RemoveElement DEF StoredType
  <2>2. entry' \in [DOMAIN entry' -> Entries]
      BY <1>4, <1>9 DEF StoredType
  <2>3. QED BY <1>2, <1>3, <1>4, <1>9, <2>1, <2>2 DEF StoredType
<1>13. CommandType'
  <2>1. <<>> \in Routes /\ <<>> \in Seq(Frames) /\ <<>> \in Seq(Routes)
      BY EmptySeq DEF Routes
  <2>2. /\ cmd'.do = "none"
        /\ cmd' \in [do : {"none", "insert", "delete"}, compress : BOOLEAN, args : Seq(Routes),
                     path : Routes]
      BY <1>2, <2>1 DEF NoCommand
  <2>3. QED BY <1>2, <1>4, <2>1, <2>2 DEF CommandType, Steps
<1>14. cmd'.do = "none"
    BY <1>2 DEF NoCommand
<1>15. Inserting' /\ AtWork'
    BY <1>2, <1>14 DEF Inserting, AtWork, InsertSteps
<1>16. QED BY <1>2, <1>11, <1>12, <1>13, <1>14, <1>15 DEF IInv
LEMMA DeleteNamedEntryStep ==
    ASSUME IInv, DeleteEntry, IsDir(Top.parent)
    PROVE  IInv'
<1>1. PICK t, p, b, L : t = Top.id /\ p = Top.parent /\ b = Pointer(p) /\ L = Len(stack)
    OBVIOUS
<1>2. /\ pc = "entry" /\ pc' = "run" /\ lost' = FALSE
      /\ entry' = [i \in DOMAIN entry \ {t} |-> entry[i]]
      /\ node' = [node EXCEPT ![b] = [n \in {m \in DOMAIN @ : @[m] # t} |-> @[n]]]
      /\ stack' = Front(stack)
      /\ UNCHANGED <<disk, data, cmd, now>>
    BY <1>1 DEF DeleteEntry, Pointer
<1>3. /\ cmd.do = "delete" /\ stack # <<>> /\ L \in Nat \ {0} /\ Top = stack[L]
      /\ IsDir(t) => DOMAIN DirOf(t) = {}
      /\ t \in DOMAIN entry \ {Root} /\ p \in Dirs
    BY <1>1, DeleteEntryFacts DEF Dirs
<1>4. /\ ~lost /\ StoredType /\ CommandType /\ NodesAgree /\ DataAgrees /\ now.path = <<>>
      /\ stack \in Seq(Frames) /\ WithNode = Dirs
      /\ DOMAIN Hierarchy = Dirs /\ \A d \in Dirs : Hierarchy[d] = DirOf(d)
    BY <1>3, DeletingFacts
<1>5. PICK depth : /\ IsTree(Hierarchy, DOMAIN entry, depth)
                   /\ \A i \in 1 .. L : OnTheWayDown(i, depth)
    BY <1>1, <1>3, DeletingFacts
<1>6. PICK name \in DOMAIN DirOf(p) : DirOf(p)[name] = t
  <2>1. OnTheWayDown(L, depth)
      BY <1>3, <1>5
  <2>2. QED BY <2>1, <1>1, <1>3 DEF OnTheWayDown
<1>7. depth \in [DOMAIN entry -> Nat] /\ depth[p] < depth[t] /\ p # t
  <2>1. depth \in [DOMAIN entry -> Nat] /\ depth[p] < depth[t]
      BY <1>3, <1>4, <1>5, <1>6 DEF IsTree
  <2>2. depth[t] \in Nat
      BY <2>1, <1>3
  <2>3. QED BY <2>1, <2>2
<1>8. /\ DOMAIN entry' = DOMAIN entry \ {t}
      /\ \A i \in DOMAIN entry \ {t} : entry'[i] = entry[i]
      /\ entry' = [i \in DOMAIN entry' |-> entry'[i]]
    BY <1>2
<1>9. b \in DOMAIN node /\ DirOf(p) = node[b]
    BY <1>1, <1>3, <1>4 DEF NodesAgree, DirOf, Pointer
<1>10. /\ DOMAIN node' = DOMAIN node
       /\ \A c \in DOMAIN node : c # b => node'[c] = node[c]
       /\ DOMAIN node'[b] = {m \in DOMAIN node[b] : node[b][m] # t}
       /\ \A n \in DOMAIN node'[b] : node'[b][n] = node[b][n]
  <2> DEFINE rest == [n \in {m \in DOMAIN node[b] : node[b][m] # t} |-> node[b][n]]
  <2>1. node' = [node EXCEPT ![b] = rest]
      BY <1>2
  <2>2. /\ DOMAIN rest = {m \in DOMAIN node[b] : node[b][m] # t}
        /\ \A n \in DOMAIN rest : rest[n] = node[b][n]
      OBVIOUS
  <2> HIDE DEF rest
  <2>3. QED BY <2>1, <2>2, <1>9
<1>11. StoredType'
  <2>1. IsFiniteSet(DOMAIN entry')
    <3>1. IsFiniteSet(DOMAIN entry)
        BY <1>4 DEF StoredType
    <3>2. IsFiniteSet(DOMAIN entry \ {t})
        BY <3>1, FS_RemoveElement
    <3>3. QED BY <3>2, <1>8
  <2>2. entry' \in [DOMAIN entry' -> Entries]
      BY <1>4, <1>8 DEF StoredType
  <2>3. ASSUME NEW c \in DOMAIN node
        PROVE  DOMAIN node'[c] \subseteq Components /\ \A n \in DOMAIN node'[c] : node'[c][n] \in Nat
    <3>1. DOMAIN node[c] \subseteq Components /\ \A n \in DOMAIN node[c] : node[c][n] \in Nat
        BY <1>4 DEF StoredType
    <3>2. DOMAIN node'[c] \subseteq DOMAIN node[c] /\ \A n \in DOMAIN node'[c] : node'[c][n] = node[c][n]
        BY <1>10
    <3>3. QED BY <3>1, <3>2
  <2>4. Root \in DOMAIN entry' /\ entry'[Root] = [kind |-> "dir", pointer |-> 0]
      BY <1>3, <1>4, <1>8 DEF StoredType
  <2>5. DOMAIN entry' \subseteq Nat
      BY <1>4, <1>8 DEF StoredType
  <2>6. QED BY <1>2, <1>4, <1>10, <2>1, <2>2, <2>3, <2>4, <2>5 DEF StoredType
<1>12. \A i \in DOMAIN entry \ {t} : (IsDir(i)' <=> IsDir(i)) /\ Pointer(i)' = Pointer(i)
    BY <1>8 DEF IsDir, Pointer
<1>13. Dirs' = Dirs \ {t} /\ Files' = Files \ {t} /\ WithNode' = Dirs \ {t} /\ p \in Dirs'
  <2>1. Dirs' = Dirs \ {t}
      BY <1>8, <1>12 DEF Dirs
  <2>2. QED BY <2>1, <1>2, <1>3, <1>7, <1>8 DEF Files, WithNode
<1>14. \A d \in Dirs \ {t} : /\ Pointer(d)' = Pointer(d)
                             /\ Pointer(d) \in DOMAIN node
                             /\ DirOf(d) = node[Pointer(d)] /\ DirOf(d)' = node'[Pointer(d)]
  <2>1. \A d \in Dirs \ {t} : Pointer(d)' = Pointer(d) /\ Pointer(d) \in DOMAIN node
      BY <1>4, <1>12 DEF Dirs, NodesAgree
  <2>2. QED BY <2>1 DEF DirOf, Pointer
<1>15. NodesAgree'
    BY <1>4, <1>10, <1>13, <1>14 DEF NodesAgree
<1>16. \A d \in Dirs \ {t} : d # p => DirOf(d)' = DirOf(d)
  <2>1. \A d \in Dirs \ {t} : d # p => Pointer(d) # b
      BY <1>1, <1>3, <1>4 DEF NodesAgree
  <2>2. QED BY <2>1, <1>10, <1>14
<1>17. /\ (DOMAIN DirOf(p))' = {m \in DOMAIN DirOf(p) : DirOf(p)[m] # t}
       /\ \A m \in (DOMAIN DirOf(p))' : DirOf(p)'[m] = DirOf(p)[m]
  <2>1. DirOf(p)' = node'[b]
      BY <1>1, <1>3, <1>7, <1>14
  <2>2. QED BY <2>1, <1>9, <1>10
<1>18. PICK less \in [DOMAIN entry \ {t} -> Nat] : \A i \in DOMAIN entry \ {t} : less[i] = depth[i]
  <2> DEFINE less == [i \in DOMAIN entry \ {t} |-> depth[i]]
  <2>1. less \in [DOMAIN entry \ {t} -> Nat] /\ \A i \in DOMAIN entry \ {t} : less[i] = depth[i]
      BY <1>7
  <2> HIDE DEF less
  <2>2. QED BY <2>1
<1>19. IsTree(Hierarchy', DOMAIN entry', less)
  <2> DEFINE T == Hierarchy
             U == Hierarchy'
             I == DOMAIN entry
  <2>1. DOMAIN U = Dirs \ {t} /\ \A d \in Dirs \ {t} : U[d] = DirOf(d)'
      BY <1>13 DEF Hierarchy
  <2>2. DOMAIN T = Dirs /\ \A d \in Dirs : T[d] = DirOf(d)
      BY <1>4
  <2>3. IsTree(T, I, depth)
      BY <1>5
  <2> HIDE DEF T, U
  <2>4. p \in DOMAIN T /\ name \in DOMAIN T[p] /\ T[p][name] = t
      BY <1>3, <1>6, <2>2
  <2>5. t \in DOMAIN T => DOMAIN T[t] = {}
      BY <1>3, <2>2 DEF Dirs
  <2>6. /\ DOMAIN U = DOMAIN T \ {t}
        /\ \A d \in DOMAIN U : d # p => U[d] = T[d]
      BY <1>16, <2>1, <2>2
  <2>7. /\ DOMAIN U[p] = {m \in DOMAIN T[p] : T[p][m] # t}
        /\ \A m \in DOMAIN U[p] : U[p][m] = T[p][m]
    <3>1. U[p] = DirOf(p)' /\ T[p] = DirOf(p)
        BY <1>3, <1>7, <2>1, <2>2
    <3>2. QED BY <3>1, <1>17
  <2> HIDE DEF I
  <2>8. IsTree(U, I \ {t}, less)
      BY <1>18, <2>3, <2>4, <2>5, <2>6, <2>7, RemovalKeepsTree DEF I
  <2>9. QED BY <2>8, <1>8 DEF U, I
<1>20. DataAgrees'
  <2>1. Held = DOMAIN data /\ Held' = DOMAIN data
      BY <1>2 DEF Held
  <2>2. /\ \A f \in Files : Bare(f) <=> f = t
        /\ \A f \in Files : ~Bare(f)'
      BY <1>1, <1>2 DEF Bare
  <2>3. \A f \in Files \ {t} : Pointer(f)' = Pointer(f)
      BY <1>12 DEF Files
  <2>4. \A f \in Files : f = t <=> Pointer(f) \notin Held
      BY <1>4, <2>2 DEF DataAgrees
  <2>5. \A f \in Files' : Pointer(f)' \in Held'
      BY <1>13, <2>1, <2>3, <2>4
  <2>6. \A f, g \in Files' : Pointer(f)' = Pointer(g)' => f = g
      BY <1>4, <1>13, <2>1, <2>3, <2>4 DEF DataAgrees
  <2>7. ASSUME NEW c \in Held' PROVE \E f \in Files' : Pointer(f)' = c
    <3>1. PICK f \in Files : Pointer(f) = c
        BY <1>4, <2>1 DEF DataAgrees
    <3>2. f # t
        BY <3>1, <2>1, <2>4
    <3>3. QED BY <3>1, <3>2, <1>13, <2>3
  <2>8. QED BY <1>13, <2>2, <2>5, <2>6, <2>7 DEF DataAgrees
<1>21. /\ stack' \in Seq(Frames) /\ Len(stack') = L - 1
       /\ \A i \in 1 .. L - 1 : stack'[i] = stack[i]
    BY <1>1, <1>2, <1>3, <1>4, FrameLeft
<1>22. \A i \in 1 .. L - 1 : /\ stack[i].id \in DOMAIN entry \ {t, Root}
                             /\ depth[stack[i].id] < depth[t]
  <2>1. OnTheWayDown(L, depth) /\ t = stack[L].id
      BY <1>1, <1>3, <1>5
  <2>2. \A i \in 1 .. L - 1 : depth[stack[i].id] < depth[t]
      BY <2>1 DEF OnTheWayDown
  <2>3. \A i \in 1 .. L - 1 : stack[i].id \in DOMAIN entry \ {Root}
    <3>1. \A i \in 1 .. L - 1 : OnTheWayDown(i, depth)
        BY <1>3, <1>5
    <3>2. QED BY <3>1 DEF OnTheWayDown
  <2>4. depth[t] \in Nat
      BY <1>3, <1>7
  <2>5. QED BY <2>2, <2>3, <2>4
<1>23. \A i \in 2 .. L : p = stack[L].parent /\ stack[i].parent = stack[i - 1].id /\ IsDir(stack[i].parent)
    BY <1>1, <1>3, <1>5 DEF OnTheWayDown
<1>24. ASSUME NEW i \in 1 .. L - 1 PROVE OnTheWayDown(i, less)'
  <2>1. PICK d : d = stack[i].id
      OBVIOUS
  <2>2. d \in Dirs \ {t, Root} /\ stack'[i] = stack[i]
    <3>1. i + 1 \in 2 .. L /\ i + 1 - 1 = i
        BY <1>3
    <3>2. IsDir(stack[i].id)
        BY <1>23, <3>1
    <3>3. QED BY <2>1, <3>2, <1>21, <1>22 DEF Dirs
  <2>3. OnTheWayDown(i, depth)
      BY <1>3, <1>5
  <2>4. stack[i].left = Left(i) /\ ToDelete(d) = DOMAIN DirOf(d) /\ ToDelete(d)' = (DOMAIN DirOf(d))'
    <3>1. IsDir(d) /\ IsDir(d)'
        BY <2>2, <1>12 DEF Dirs
    <3>2. QED BY <3>1, <2>3 DEF OnTheWayDown, ToDelete
  <2>5. stack'[i].left = Left(i)'
    <3>1. CASE i = L - 1
      <4>1. d = p /\ stack[i + 1].id = t /\ i < L
        <5>1. L \in 2 .. L /\ i + 1 = L /\ L - 1 = i
            BY <3>1, <1>3
        <5>2. QED BY <5>1, <2>1, <1>1, <1>3, <1>23
      <4>2. Left(i) = {n \in DOMAIN DirOf(p) : DirOf(p)[n] # t}
          BY <4>1, <2>1, <2>4, <1>1 DEF Left
      <4>3. Left(i)' = (DOMAIN DirOf(p))'
        <5>1. ~(i < Len(stack')) /\ stack'[i].id = d
            BY <3>1, <2>1, <2>2, <1>3, <1>21
        <5>2. Left(i)' = ToDelete(d)'
            BY <5>1 DEF Left
        <5>3. QED BY <5>2, <4>1, <2>4
      <4>4. QED BY <4>2, <4>3, <2>2, <2>4, <1>17
    <3>2. CASE i # L - 1
      <4>1. i + 1 \in 1 .. L - 1 /\ i < L - 1 /\ i < L
          BY <3>2, <1>3
      <4>2. stack'[i + 1] = stack[i + 1]
          BY <4>1, <1>21
      <4>3. d # p
        <5>1. L \in 2 .. L /\ i \in 1 .. L - 1 - 1 /\ L - 1 \in 1 .. L
            BY <4>1, <1>3
        <5>2. p = stack[L - 1].id
            BY <5>1, <1>23
        <5>3. OnTheWayDown(L - 1, depth)
            BY <5>1, <1>5
        <5>4. depth[d] < depth[p]
            BY <5>1, <5>2, <5>3, <2>1 DEF OnTheWayDown
        <5>5. depth[p] \in Nat
            BY <1>3, <1>7 DEF Dirs
        <5>6. QED BY <5>4, <5>5
      <4>4. DirOf(d)' = DirOf(d)
          BY <4>3, <2>2, <1>16
      <4>5. Left(i)' = Left(i)
          BY <4>1, <4>2, <4>4, <2>1, <2>2, <2>4, <1>1, <1>21 DEF Left
      <4>6. QED BY <4>5, <2>2, <2>4
    <3>3. QED BY <3>1, <3>2
  <2>6. PICK q : q = stack[i].parent
      OBVIOUS
  <2>7. /\ q \in DOMAIN entry /\ IsDir(q)
        /\ \E n \in DOMAIN DirOf(q) : DirOf(q)[n] = d
      BY <2>1, <2>2, <2>3, <2>6 DEF OnTheWayDown, Dirs
  <2>8. PICK n \in DOMAIN DirOf(q) : DirOf(q)[n] = d
      BY <2>7
  <2>9. q \in Dirs /\ q # t
    <3>1. q \in Dirs
        BY <2>7 DEF Dirs
    <3>2. depth[q] < depth[d]
        BY <3>1, <2>8, <1>4, <1>5 DEF IsTree
    <3>3. depth[d] < depth[t]
        BY <2>1, <1>22
    <3>4. depth[q] \in Nat /\ depth[d] \in Nat /\ depth[t] \in Nat
        BY <3>1, <2>2, <1>3, <1>7 DEF Dirs
    <3>5. QED BY <3>1, <3>2, <3>3, <3>4
  <2>10. n \in (DOMAIN DirOf(q))' /\ DirOf(q)'[n] = d
    <3>1. CASE q = p
        BY <3>1, <2>2, <2>8, <1>17
    <3>2. CASE q # p
        BY <3>2, <2>8, <2>9, <1>16
    <3>3. QED BY <3>1, <3>2
  <2>11. q \in DOMAIN entry' /\ IsDir(q)'
      BY <2>7, <2>9, <1>8, <1>12
  <2>12. d \in DOMAIN entry' \ {Root}
      BY <2>2, <1>8 DEF Dirs
  <2>13. \A j \in 1 .. i - 1 : less[stack'[j].id] < less[d]
    <3>1. ASSUME NEW j \in 1 .. i - 1 PROVE less[stack'[j].id] < less[d]
      <4>1. depth[stack[j].id] < depth[d]
          BY <2>1, <2>3 DEF OnTheWayDown
      <4>2. j \in 1 .. L - 1
          BY <1>3
      <4>3. QED BY <4>1, <4>2, <1>18, <1>21, <1>22, <2>1
    <3>2. QED BY <3>1
  <2>14. i > 1 => q = stack'[i - 1].id
    <3>1. ASSUME i > 1 PROVE q = stack'[i - 1].id
      <4>1. i - 1 \in 1 .. L - 1 /\ i \in 2 .. L
          BY <3>1, <1>3
      <4>2. QED BY <4>1, <2>6, <1>21, <1>23
    <3>2. QED BY <3>1
  <2>15. stack'[i].id = d /\ stack'[i].parent = q
      BY <2>1, <2>2, <2>6
  <2>16. QED BY <2>5, <2>10, <2>11, <2>12, <2>13, <2>14, <2>15 DEF OnTheWayDown, IsDir, DirOf
<1>25. Deleting(less)'
    BY <1>2, <1>21, <1>24 DEF Deleting
<1>26. Agreement'
  <2>1. \E e : IsTree(Hierarchy', DOMAIN entry', e) /\ Deleting(e)'
      BY <1>19, <1>25
  <2>2. QED BY <2>1, <1>15, <1>20 DEF Agreement
<1>27. CommandType'
    BY <1>2, <1>3, <1>4, <1>21 DEF CommandType, Steps, InsertSteps
<1>28. Inserting' /\ AtWork'
    BY <1>2, <1>3 DEF Inserting, AtWork, InsertSteps
<1>29. QED BY <1>2, <1>11, <1>26, <1>27, <1>28 DEF IInv
LEMMA DeleteEntryStep ==
    ASSUME IInv, DeleteEntry
    PROVE  IInv'
    BY DeleteLostEntryStep, DeleteNamedEntryStep
-------------------------------------------------------------------------------
(***************************************************************************)
(* Every step keeps the invariant.                                         *)
(***************************************************************************)
LEMMA InitHasIInv == Init => IInv
<1> SUFFICES ASSUME Init PROVE IInv
    OBVIOUS
<1>1. StoredType /\ Agreement
  <2>1. JustCreated
      BY DEF Init, JustCreated
  <2>2. QED BY <2>1, OnlyRootAgrees
<1>2. CommandType
  <2>1. <<>> \in Routes /\ <<>> \in Seq(Frames) /\ <<>> \in Seq(Routes)
      BY EmptySeq DEF Routes
  <2>2. /\ cmd = NoCommand /\ cmd.do = "none"
        /\ cmd \in [do : {"none", "insert", "delete"}, compress : BOOLEAN, args : Seq(Routes),
                    path : Routes]
      BY <2>1 DEF Init, NoCommand
  <2>3. now \in [path : Routes, id : Nat, chunk : Nat] /\ now.path = <<>>
      BY <2>1 DEF Init, NoEntry, Root
  <2>4. QED BY <2>1, <2>2, <2>3 DEF Init, CommandType, Steps
<1>3. Inserting /\ AtWork
    BY DEF Init, NoCommand, Inserting, AtWork, InsertSteps
<1>4. QED BY <1>1, <1>2, <1>3 DEF Init, IInv

LEMMA StutteringKeepsIInv ==
    ASSUME IInv, UNCHANGED vars
    PROVE  IInv'
<1>1. UNCHANGED <<disk, entry, node, data, cmd, stack, now, pc, lost>>
    BY DEF vars
<1>2. StoredType' /\ Dirs' = Dirs /\ Files' = Files /\ (Whole <=> Whole')
    BY <1>1, SameStore DEF IInv
<1>3. WithNode' = WithNode
    BY <1>1, <1>2 DEF WithNode
<1>4. Hierarchy' = Hierarchy /\ (NodesAgree => NodesAgree')
    BY <1>1, <1>3 DEF Hierarchy, NodesAgree, DirOf, Pointer
<1>5. DataAgrees => DataAgrees'
  <2>1. Held' = Held /\ \A f : Bare(f)' <=> Bare(f)
      BY <1>1 DEF Held, Bare, Pointer, Top
  <2>2. QED BY <2>1, <1>1, <1>2 DEF DataAgrees, Pointer
<1>6. \A depth : Deleting(depth) => Deleting(depth)'
  <2>1. \A i : Left(i)' = Left(i)
      BY <1>1 DEF Left, ToDelete, IsDir, DirOf
  <2>2. \A i, depth : OnTheWayDown(i, depth) => OnTheWayDown(i, depth)'
      BY <1>1, <2>1 DEF OnTheWayDown, IsDir, DirOf
  <2>3. QED BY <1>1, <2>2 DEF Deleting, Top
<1>7. Agreement => Agreement'
    BY <1>1, <1>4, <1>5, <1>6 DEF Agreement
<1>8. CommandType'
    BY <1>1 DEF IInv, CommandType
<1>9. Inserting' /\ AtWork'
    BY <1>1, <1>3 DEF IInv, Inserting, OnDisk, OnDiskIn, AtWork, IsDir, Pointer
<1>10. QED BY <1>1, <1>2, <1>7, <1>8, <1>9 DEF IInv

LEMMA NextNameStep ==
    ASSUME IInv, NextName
    PROVE  IInv'
<1>1. PICK name \in Top.left : InsertEntry(name) \/ UpdateEntry(name) \/ RefuseEntry(name)
    BY DEF NextName
<1>2. CASE InsertEntry(name)
    BY <1>2, InsertEntryStep
<1>3. CASE UpdateEntry(name) /\ IsDir(DirOf(Top.id)[name])
    BY <1>3, UpdateDirStep
<1>4. CASE UpdateEntry(name) /\ ~IsDir(DirOf(Top.id)[name])
    BY <1>4, UpdateFileStep
<1>5. CASE RefuseEntry(name)
    BY <1>5, RefuseStep
<1>6. QED BY <1>1, <1>2, <1>3, <1>4, <1>5

LEMMA NextKeepsIInv == IInv /\ [Next]_vars => IInv'
<1> SUFFICES ASSUME IInv, [Next]_vars PROVE IInv'
    OBVIOUS
<1>1. ASSUME NEW args \in Arguments, NEW compress \in BOOLEAN, Create(args, compress) PROVE IInv'
    BY <1>1, CreateStep
<1>2. ASSUME NEW args \in Arguments, NEW compress \in BOOLEAN, AppendPaths(args, compress) PROVE IInv'
    BY <1>2, AppendStep
<1>3. ASSUME NEW args \in Arguments, Delete(args) PROVE IInv'
    BY <1>3, DeleteStep
<1>4. CASE NextArgument
    BY <1>4, NextArgumentStep
<1>5. CASE NextName
    BY <1>5, NextNameStep
<1>6. CASE LeaveDirectory
    BY <1>6, LeaveStep
<1>7. CASE MakeNode
    BY <1>7, MakeNodeStep
<1>8. CASE FreeOldData
    BY <1>8, FreeOldDataStep
<1>9. CASE StoreData
    BY <1>9, StoreDataStep
<1>10. CASE SetPointer
    BY <1>10, SetPointerStep
<1>11. CASE CompressedElsewhere
    BY <1>11, DieStep DEF CompressedElsewhere
<1>12. CASE NextToDelete
    BY <1>12, NextToDeleteStep
<1>13. CASE DeleteBelow
    BY <1>13, DeleteBelowStep
<1>14. CASE DeleteData
    BY <1>14, DeleteDataStep
<1>15. CASE DeleteEntry
    BY <1>15, DeleteEntryStep
<1>16. CASE Finish
    BY <1>16, FinishStep
<1>17. CASE Exit
    BY <1>17, ExitStep
<1>18. CASE Interrupt
    BY <1>18, DieStep DEF Interrupt
<1>19. CASE UNCHANGED vars
    BY <1>19, StutteringKeepsIInv
<1>20. QED
    BY <1>1, <1>2, <1>3, <1>4, <1>5, <1>6, <1>7, <1>8, <1>9, <1>10, <1>11, <1>12, <1>13, <1>14,
       <1>15, <1>16, <1>17, <1>18, <1>19 DEF Next, Step

(* Between any two steps of any commands, the parts of the archive agree but for the
   entry that the command is at; or they contradict one another, and "lost" says so. *)
THEOREM PartsAgree == Spec => []IInv
<1>1. Init => IInv
    BY InitHasIInv
<1>2. IInv /\ [Next]_vars => IInv'
    BY NextKeepsIInv
<1>3. QED BY <1>1, <1>2, PTL DEF Spec

-------------------------------------------------------------------------------
(* Entries, node blocks, chunks and the state of the command have their types, and a
   process that has ended is in no directory and at no entry. *)
THEOREM TypeCorrectness == Spec => []TypeOK
<1>1. IInv => TypeOK
  <2> SUFFICES ASSUME IInv PROVE TypeOK
      OBVIOUS
  <2>1. StoredType /\ CommandType
      BY DEF IInv
  <2>2. \A id \in DOMAIN entry : id \in Nat /\ entry[id].kind \in Kinds /\ entry[id].pointer \in Nat
      BY <2>1 DEF StoredType, Entries
  <2>3. \A b \in DOMAIN node : b \in Nat /\ \A n \in DOMAIN node[b] : node[b][n] \in Nat
      BY <2>1 DEF StoredType
  <2>4. cmd.do = "none" <=> cmd = NoCommand
      BY <2>1 DEF CommandType, NoCommand
  <2>5. pc \in {"ended", "closed"} => stack = <<>> /\ now.path = <<>>
      BY <2>1 DEF CommandType, InsertSteps
  <2>6. QED BY <2>1, <2>2, <2>3, <2>4, <2>5 DEF TypeOK, StoredType, CommandType
<1>2. QED BY <1>1, PartsAgree, PTL

(* Whatever create, append and delete did, over whatever was on disk, and wherever they
   were interrupted outside the windows: afterwards every directory has a node block of
   its own, every file and link data of its own, every entry but the root one name, and
   nothing is kept that no entry points to. *)
THEOREM NothingIsLostOutsideWindows == Spec => []WholeUnlessLost
<1>1. IInv => WholeUnlessLost
  <2>1. pc = "ended" => ~InWindow
      BY DEF InWindow
  <2>2. QED BY <2>1, WholeOutsideWindows DEF WholeUnlessLost
<1>2. QED BY <1>1, PartsAgree, PTL

(* The windows are no larger than they are: a command that was interrupted in one, or
   that deleted a path below a file, leaves parts that contradict one another. *)
THEOREM WindowsAreWindows == Spec => []LostInWindows
<1>1. IInv => LostInWindows
  <2> SUFFICES ASSUME IInv, pc = "ended", lost PROVE ~Whole
      BY DEF LostInWindows
  <2>1. QED BY DEF IInv
<1>2. QED BY <1>1, PartsAgree, PTL
-------------------------------------------------------------------------------
(***************************************************************************)
(* Paths and their prefixes.                                               *)
(***************************************************************************)
LEMMA RouteIs ==
    ASSUME NEW p \in Routes
    PROVE  /\ Len(p) \in Nat
           /\ \A i \in 1 .. Len(p) : p[i] \in Components
           /\ p = <<>> <=> Len(p) = 0
    BY EmptySeq, LenProperties, ElementOfSeq DEF Routes

LEMMA SameRoute ==
    ASSUME NEW p \in Routes, NEW q \in Routes, Len(p) = Len(q),
           \A i \in 1 .. Len(p) : p[i] = q[i]
    PROVE  p = q
    BY SeqEqual DEF Routes

LEMMA PrefixIs ==
    ASSUME NEW p \in Routes, NEW q \in Routes
    PROVE  IsPrefix(p, q) <=> Len(p) <= Len(q) /\ \A i \in 1 .. Len(p) : p[i] = q[i]
<1>1. PICK k \in Nat : k = Len(p)
    BY RouteIs
<1>2. PICK l \in Nat : l = Len(q)
    BY RouteIs
<1>3. SUFFICES ASSUME k <= l
      PROVE  SubSeq(p, 1, k) = SubSeq(q, 1, k) <=> \A i \in 1 .. k : p[i] = q[i]
    BY <1>1, <1>2 DEF IsPrefix
<1>4. SubSeq(p, 1, k) = p
    BY <1>1, SubSeqFull DEF Routes
<1> DEFINE s == SubSeq(q, 1, k)
<1>5. s \in Routes /\ Len(s) = k /\ \A i \in 1 .. k : s[i] = q[i]
  <2>1. \A i \in 1 .. k : q[i] \in Components
      BY <1>2, <1>3, RouteIs
  <2>2. /\ s \in Seq(Components)
        /\ Len(s) = IF 1 <= k THEN k - 1 + 1 ELSE 0
        /\ \A i \in 1 .. k - 1 + 1 : s[i] = q[1 + i - 1]
      BY <2>1, SubSeqProperties
  <2>3. QED BY <2>2 DEF Routes
<1> HIDE DEF s
<1>6. s = p <=> \A i \in 1 .. k : p[i] = s[i]
    BY <1>1, <1>5, SameRoute
<1>7. QED BY <1>4, <1>5, <1>6 DEF s

LEMMA PrefixOrder ==
    /\ <<>> \in Routes
    /\ \A p \in Routes : IsPrefix(p, p) /\ IsPrefix(<<>>, p) /\ (IsPrefix(p, <<>>) => p = <<>>)
    /\ \A p, q \in Routes : IsPrefix(p, q) /\ IsPrefix(q, p) => p = q
    /\ \A p, q, r \in Routes : IsPrefix(p, q) /\ IsPrefix(q, r) => IsPrefix(p, r)
    /\ \A p, q, r \in Routes : IsPrefix(p, r) /\ IsPrefix(q, r) => IsPrefix(p, q) \/ IsPrefix(q, p)
<1>1. <<>> \in Routes /\ Len(<<>>) = 0
    BY EmptySeq DEF Routes
<1>2. ASSUME NEW p \in Routes
      PROVE  IsPrefix(p, p) /\ IsPrefix(<<>>, p) /\ (IsPrefix(p, <<>>) => p = <<>>)
    BY <1>1, RouteIs, PrefixIs
<1>3. ASSUME NEW p \in Routes, NEW q \in Routes, IsPrefix(p, q), IsPrefix(q, p)
      PROVE  p = q
    BY <1>3, RouteIs, PrefixIs, SameRoute
<1>4. ASSUME NEW p \in Routes, NEW q \in Routes, NEW r \in Routes
      PROVE  /\ IsPrefix(p, q) /\ IsPrefix(q, r) => IsPrefix(p, r)
             /\ IsPrefix(p, r) /\ IsPrefix(q, r) => IsPrefix(p, q) \/ IsPrefix(q, p)
  <2>1. PICK j \in Nat, k \in Nat, l \in Nat : j = Len(p) /\ k = Len(q) /\ l = Len(r)
      BY RouteIs
  <2>2. /\ IsPrefix(p, q) <=> j <= k /\ \A i \in 1 .. j : p[i] = q[i]
        /\ IsPrefix(q, p) <=> k <= j /\ \A i \in 1 .. k : q[i] = p[i]
        /\ IsPrefix(q, r) <=> k <= l /\ \A i \in 1 .. k : q[i] = r[i]
        /\ IsPrefix(p, r) <=> j <= l /\ \A i \in 1 .. j : p[i] = r[i]
      BY <2>1, PrefixIs
  <2>3. QED BY <2>2
<1>5. QED BY <1>1, <1>2, <1>3, <1>4

LEMMA AppendOnce ==
    ASSUME NEW p \in Routes, NEW n \in Components, NEW q \in Routes, NEW m \in Components,
           Append(q, m) = Append(p, n)
    PROVE  q = p /\ m = n
    BY AppendInjective DEF Routes

LEMMA AppendIs ==
    ASSUME NEW p \in Routes, NEW n \in Components
    PROVE  /\ Append(p, n) \in Routes /\ Append(p, n) # <<>>
           /\ Front(Append(p, n)) = p /\ Last(Append(p, n)) = n
           /\ Append(p, n)[Len(p) + 1] = n
           /\ IsPrefix(p, Append(p, n)) /\ ~IsPrefix(Append(p, n), p)
           /\ \A q \in Routes : IsPrefix(q, Append(p, n)) <=> q = Append(p, n) \/ IsPrefix(q, p)
<1> DEFINE a == Append(p, n)
<1>1. PICK k \in Nat : k = Len(p)
    BY RouteIs
<1>2. /\ a \in Routes /\ a # <<>> /\ Len(a) = k + 1 /\ a[k + 1] = n
      /\ \A i \in 1 .. k : a[i] = p[i]
    BY <1>1, AppendProperties DEF Routes
<1>3. \A q \in Routes : \A m \in Components : Append(q, m) = Append(p, n) => q = p /\ m = n
    BY AppendOnce
<1> HIDE DEF a
<1>4. Last(a) = n
    BY <1>2 DEF Last
<1>5. Front(a) = p
  <2>1. Last(a) \in Components /\ a = Append(Front(a), Last(a)) /\ Front(a) \in Routes
    <3>1. \A i \in 1 .. k : a[i] \in Components
        BY <1>1, <1>2, RouteIs
    <3>2. SubSeq(a, 1, k) \in Routes
        BY <3>1, SubSeqProperties DEF Routes
    <3>3. Front(a) = SubSeq(a, 1, k)
        BY <1>2 DEF Front
    <3>4. QED BY <1>2, <3>2, <3>3, FrontAndLast
  <2>2. QED BY <2>1, <1>3 DEF a
<1>6. IsPrefix(p, a) /\ ~IsPrefix(a, p)
    BY <1>1, <1>2, PrefixIs
<1>7. ASSUME NEW q \in Routes
      PROVE  IsPrefix(q, a) <=> q = a \/ IsPrefix(q, p)
  <2>1. PICK l \in Nat : l = Len(q)
      BY RouteIs
  <2>2. /\ IsPrefix(q, a) <=> l <= k + 1 /\ \A i \in 1 .. l : q[i] = a[i]
        /\ IsPrefix(q, p) <=> l <= k /\ \A i \in 1 .. l : q[i] = p[i]
      BY <1>1, <1>2, <2>1, PrefixIs
  <2>3. l = k + 1 /\ (\A i \in 1 .. l : q[i] = a[i]) => q = a
      BY <1>2, <2>1, SameRoute
  <2>4. QED BY <1>2, <2>1, <2>2, <2>3
<1>8. QED BY <1>1, <1>2, <1>3, <1>4, <1>5, <1>6, <1>7 DEF a

(* From a directory there is one name that leads on to a path below it. *)
LEMMA NextNameOn ==
    ASSUME NEW p \in Routes, NEW q \in Routes, IsPrefix(p, q), p # q
    PROVE  /\ q[Len(p) + 1] \in Components
           /\ \A n \in Components : IsPrefix(Append(p, n), q) <=> n = q[Len(p) + 1]
<1>1. PICK k \in Nat, l \in Nat : k = Len(p) /\ l = Len(q)
    BY RouteIs
<1>2. k <= l /\ \A i \in 1 .. k : p[i] = q[i]
    BY <1>1, PrefixIs
<1>3. k + 1 \in 1 .. l
    BY <1>1, <1>2, SameRoute
<1>4. q[k + 1] \in Components
    BY <1>1, <1>3, RouteIs
<1>5. ASSUME NEW n \in Components
      PROVE  IsPrefix(Append(p, n), q) <=> n = q[k + 1]
  <2>1. /\ Append(p, n) \in Routes /\ Len(Append(p, n)) = k + 1 /\ Append(p, n)[k + 1] = n
        /\ \A i \in 1 .. k : Append(p, n)[i] = p[i]
      BY <1>1, AppendProperties DEF Routes
  <2>2. IsPrefix(Append(p, n), q) <=> k + 1 <= l /\ \A i \in 1 .. k + 1 : Append(p, n)[i] = q[i]
      BY <1>1, <2>1, PrefixIs
  <2>3. QED BY <1>2, <1>3, <2>1, <2>2
<1>6. QED BY <1>1, <1>4, <1>5

LEMMA BelowName ==
    ASSUME NEW p \in Routes, NEW n \in Components, NEW q \in Routes, IsPrefix(Append(p, n), q)
    PROVE  IsPrefix(p, q) /\ p # q
<1>1. Append(p, n) \in Routes /\ IsPrefix(p, Append(p, n)) /\ ~IsPrefix(Append(p, n), p)
    BY AppendIs
<1>2. QED BY <1>1, PrefixOrder

LEMMA PrefixesAre ==
    ASSUME NEW q \in Routes
    PROVE  \A p : p \in Prefixes(q) <=> p \in Routes /\ IsPrefix(p, q)
<1>1. PICK l \in Nat : l = Len(q)
    BY RouteIs
<1>2. ASSUME NEW k \in 0 .. l
      PROVE  /\ SubSeq(q, 1, k) \in Routes /\ Len(SubSeq(q, 1, k)) = k
             /\ \A i \in 1 .. k : SubSeq(q, 1, k)[i] = q[i]
  <2>1. \A i \in 1 .. k : q[i] \in Components
      BY <1>1, RouteIs
  <2>2. /\ SubSeq(q, 1, k) \in Seq(Components)
        /\ Len(SubSeq(q, 1, k)) = IF 1 <= k THEN k - 1 + 1 ELSE 0
        /\ \A i \in 1 .. k - 1 + 1 : SubSeq(q, 1, k)[i] = q[1 + i - 1]
      BY <2>1, SubSeqProperties
  <2>3. QED BY <2>2 DEF Routes
<1>3. ASSUME NEW p \in Prefixes(q)
      PROVE  p \in Routes /\ IsPrefix(p, q)
  <2>1. PICK k \in 0 .. l : p = SubSeq(q, 1, k)
      BY <1>1 DEF Prefixes
  <2>2. p \in Routes /\ Len(p) = k /\ \A i \in 1 .. k : p[i] = q[i]
      BY <1>2, <2>1
  <2>3. QED BY <1>1, <2>2, PrefixIs
<1>4. ASSUME NEW p \in Routes, IsPrefix(p, q)
      PROVE  p \in Prefixes(q)
  <2>1. PICK k \in Nat : k = Len(p) /\ k <= l /\ \A i \in 1 .. k : p[i] = q[i]
      BY <1>1, <1>4, RouteIs, PrefixIs
  <2>2. k \in 0 .. l
      BY <2>1
  <2>3. p = SubSeq(q, 1, k)
    <3>1. /\ SubSeq(q, 1, k) \in Routes /\ Len(SubSeq(q, 1, k)) = k
          /\ \A i \in 1 .. k : SubSeq(q, 1, k)[i] = q[i]
        BY <1>2, <2>2
    <3>2. QED BY <2>1, <3>1, SameRoute
  <2>4. QED BY <1>1, <2>2, <2>3 DEF Prefixes
<1>5. QED BY <1>3, <1>4

(* What holds for the empty path, and for a path one name longer if for the path, holds
   for all of them. *)
LEMMA RouteInduction ==
    ASSUME NEW H, <<>> \in H,
           \A p \in Routes : \A n \in Components : p \in H => Append(p, n) \in H
    PROVE  \A p \in Routes : p \in H
<1> SUFFICES ASSUME NEW p \in Routes
             PROVE  p \in H
    OBVIOUS
<1>1. PICK l \in Nat : l = Len(p)
    BY RouteIs
<1> DEFINE G == {n \in 0 .. l : SubSeq(p, 1, n) \in H}
<1>2. 0 \in G
  <2>1. SubSeq(p, 1, 0) = <<>>
      BY SubSeqEmpty
  <2>2. SubSeq(p, 1, 0) \in H
      BY <2>1, Zenon
  <2>3. QED BY <2>2
<1>3. ASSUME NEW n \in 1 .. l, n - 1 \in G
      PROVE  n \in G
  <2>1. p[n] \in Components /\ \A i \in 1 .. n - 1 : p[i] \in Components
      BY <1>1, RouteIs
  <2>2. SubSeq(p, 1, n - 1) \in Routes
    <3>1. 1 \in Int /\ n - 1 \in Int
        BY <1>1
    <3>2. QED BY <2>1, <3>1, SubSeqProperties DEF Routes
  <2>3. SubSeq(p, 1, n) = Append(SubSeq(p, 1, n - 1), p[n])
      BY <1>1, LongerPrefix
  <2>4. SubSeq(p, 1, n - 1) \in H
      BY <1>3
  <2>5. SubSeq(p, 1, n) \in H
      BY <2>1, <2>2, <2>3, <2>4
  <2>6. QED BY <2>5
<1>4. l \in G
  <2> HIDE DEF G
  <2>1. QED BY <1>2, <1>3, UpTo
<1>5. SubSeq(p, 1, l) = p
    BY <1>1, SubSeqFull DEF Routes
<1>6. QED BY <1>4, <1>5
-------------------------------------------------------------------------------
(***************************************************************************)
(* RealPath leaves what the reference definition keeps: with each          *)
(* component it walks over, it has one item for each name that no ".."     *)
(* has taken back so far, in their order.                                  *)
(***************************************************************************)
IsName(item) == item \notin {".", ".."}

CountsTo(path, n, i) ==
    /\ IsName(path[i])
    /\ \A j \in i + 1 .. n : Ups(path, i + 1, j) <= Names(path, i + 1, j)

(* out is what is left of the first n components; out[a] is the one at p[a], and
   k - a items came after it, with k the length of out. *)
LeftBy(path, out, n, p) ==
    /\ p \in [1 .. Len(out) -> 1 .. n]
    /\ \A a, b \in 1 .. Len(out) : a < b => p[a] < p[b]
    /\ \A a \in 1 .. Len(out) :
         /\ out[a] = path[p[a]]
         /\ CountsTo(path, n, p[a])
         /\ Names(path, p[a] + 1, n) = Ups(path, p[a] + 1, n) + Len(out) - a
    /\ \A i \in 1 .. n : CountsTo(path, n, i) => \E a \in 1 .. Len(out) : p[a] = i

LEMMA NothingToTally ==
    ASSUME NEW path, NEW n \in Nat
    PROVE  Names(path, n + 1, n) = 0 /\ Ups(path, n + 1, n) = 0
<1>1. n + 1 .. n = {}
    OBVIOUS
<1>2. {i \in n + 1 .. n : path[i] \notin {".", ".."}} = {} /\ {i \in n + 1 .. n : path[i] = ".."} = {}
    BY <1>1
<1>3. QED BY <1>2, FS_EmptySet DEF Names, Ups

LEMMA NamesTally ==
    ASSUME NEW path, NEW n \in Nat \ {0}, NEW i \in 1 .. n
    PROVE  /\ Names(path, i, n - 1) \in Nat
           /\ Names(path, i, n) = Names(path, i, n - 1) + IF IsName(path[n]) THEN 1 ELSE 0
<1> DEFINE S(m) == {j \in i .. m : path[j] \notin {".", ".."}}
<1>1. IsFiniteSet(i .. n - 1)
    BY FS_Interval
<1>2. IsFiniteSet(S(n - 1)) /\ Cardinality(S(n - 1)) \in Nat
    BY <1>1, FS_Subset, FS_CardinalityType
<1>3. n \notin S(n - 1)
    OBVIOUS
<1>4. i .. n = (i .. n - 1) \cup {n}
    OBVIOUS
<1>5. CASE IsName(path[n])
  <2>1. S(n) = S(n - 1) \cup {n}
      BY <1>4, <1>5 DEF IsName
  <2> HIDE DEF S
  <2>2. Cardinality(S(n)) = Cardinality(S(n - 1)) + 1
      BY <1>2, <1>3, <2>1, FS_AddElement
  <2>3. QED BY <1>2, <1>5, <2>2 DEF S, Names
<1>6. CASE ~IsName(path[n])
  <2>1. S(n) = S(n - 1)
      BY <1>4, <1>6 DEF IsName
  <2> HIDE DEF S
  <2>2. Cardinality(S(n)) = Cardinality(S(n - 1))
      BY <2>1
  <2>3. QED BY <1>2, <1>6, <2>2 DEF S, Names
<1>7. QED BY <1>5, <1>6

LEMMA UpsTally ==
    ASSUME NEW path, NEW n \in Nat \ {0}, NEW i \in 1 .. n
    PROVE  /\ Ups(path, i, n - 1) \in Nat
           /\ Ups(path, i, n) = Ups(path, i, n - 1) + IF path[n] = ".." THEN 1 ELSE 0
<1> DEFINE S(m) == {j \in i .. m : path[j] = ".."}
<1>1. IsFiniteSet(i .. n - 1)
    BY FS_Interval
<1>2. IsFiniteSet(S(n - 1)) /\ Cardinality(S(n - 1)) \in Nat
    BY <1>1, FS_Subset, FS_CardinalityType
<1>3. n \notin S(n - 1)
    OBVIOUS
<1>4. i .. n = (i .. n - 1) \cup {n}
    OBVIOUS
<1>5. CASE path[n] = ".."
  <2>1. S(n) = S(n - 1) \cup {n}
      BY <1>4, <1>5
  <2> HIDE DEF S
  <2>2. Cardinality(S(n)) = Cardinality(S(n - 1)) + 1
      BY <1>2, <1>3, <2>1, FS_AddElement
  <2>3. QED BY <1>2, <1>5, <2>2 DEF S, Ups
<1>6. CASE path[n] # ".."
  <2>1. S(n) = S(n - 1)
      BY <1>4, <1>6
  <2> HIDE DEF S
  <2>2. Cardinality(S(n)) = Cardinality(S(n - 1))
      BY <2>1
  <2>3. QED BY <1>2, <1>6, <2>2 DEF S, Ups
<1>7. QED BY <1>5, <1>6

(* What counts up to n - 1 counts up to n unless the component there takes it back. *)
LEMMA CountsOn ==
    ASSUME NEW path, NEW n \in Nat \ {0}, NEW i \in 1 .. n - 1
    PROVE  CountsTo(path, n, i) <=> CountsTo(path, n - 1, i) /\ Ups(path, i + 1, n) <= Names(path, i + 1, n)
<1>1. \A j : j \in i + 1 .. n <=> j \in i + 1 .. n - 1 \/ j = n
    OBVIOUS
<1>2. QED BY <1>1 DEF CountsTo

LEMMA NameIsAppended ==
    ASSUME NEW path, NEW n \in Nat \ {0}, NEW out \in Routes, NEW p, LeftBy(path, out, n - 1, p),
           IsName(path[n]), path[n] \in Components
    PROVE  \E q : LeftBy(path, Append(out, path[n]), n, q)
<1>1. PICK k \in Nat : k = Len(out)
    BY RouteIs
<1>2. PICK more \in Routes :
        /\ more = Append(out, path[n]) /\ Len(more) = k + 1
        /\ \A a \in 1 .. k : more[a] = out[a]
        /\ more[k + 1] = path[n]
    BY <1>1, AppendProperties DEF Routes
<1>3. PICK q : q = [a \in 1 .. k + 1 |-> IF a = k + 1 THEN n ELSE p[a]]
    OBVIOUS
<1>4. /\ p \in [1 .. k -> 1 .. n - 1]
      /\ \A a, b \in 1 .. k : a < b => p[a] < p[b]
      /\ \A i \in 1 .. n - 1 : CountsTo(path, n - 1, i) => \E a \in 1 .. k : p[a] = i
    BY <1>1 DEF LeftBy
<1>5. q[k + 1] = n /\ \A a \in 1 .. k : q[a] = p[a]
    BY <1>3
<1>6. q \in [1 .. k + 1 -> 1 .. n]
    BY <1>3, <1>4
<1>7. \A a, b \in 1 .. k + 1 : a < b => q[a] < q[b]
    BY <1>3, <1>4
<1>8. ASSUME NEW a \in 1 .. k
      PROVE  /\ CountsTo(path, n, p[a])
             /\ Names(path, p[a] + 1, n) = Ups(path, p[a] + 1, n) + k + 1 - a
  <2>1. /\ CountsTo(path, n - 1, p[a])
        /\ Names(path, p[a] + 1, n - 1) = Ups(path, p[a] + 1, n - 1) + k - a
      BY <1>1 DEF LeftBy
  <2>2. PICK i \in 1 .. n - 1 : i = p[a]
      BY <1>4
  <2>3. i + 1 \in 1 .. n /\ path[n] # ".."
      BY DEF IsName
  <2>4. PICK u \in Nat : u = Ups(path, i + 1, n - 1) /\ Ups(path, i + 1, n) = u
      BY <2>3, UpsTally
  <2>5. Names(path, i + 1, n - 1) = u + k - a
      BY <2>1, <2>2, <2>4
  <2>6. Names(path, i + 1, n) = Names(path, i + 1, n - 1) + 1
      BY <2>3, NamesTally
  <2>7. Names(path, i + 1, n) = u + k + 1 - a
      BY <2>5, <2>6
  <2>8. CountsTo(path, n, i)
      BY <2>1, <2>2, <2>4, <2>7, CountsOn
  <2>9. QED BY <2>2, <2>4, <2>7, <2>8
<1>9. CountsTo(path, n, n) /\ Names(path, n + 1, n) = 0 /\ Ups(path, n + 1, n) = 0
  <2>1. n + 1 .. n = {}
      OBVIOUS
  <2>2. QED BY <2>1, NothingToTally DEF CountsTo
<1>10. ASSUME NEW a \in 1 .. k + 1
       PROVE  /\ more[a] = path[q[a]]
              /\ CountsTo(path, n, q[a])
              /\ Names(path, q[a] + 1, n) = Ups(path, q[a] + 1, n) + (k + 1) - a
  <2>1. CASE a = k + 1
      BY <1>2, <1>5, <1>9, <2>1
  <2>2. CASE a # k + 1
    <3>1. a \in 1 .. k
        BY <2>2
    <3>2. more[a] = out[a] /\ out[a] = path[p[a]] /\ q[a] = p[a]
        BY <1>1, <1>2, <1>5, <3>1 DEF LeftBy
    <3>3. Ups(path, p[a] + 1, n) + k + 1 - a = Ups(path, p[a] + 1, n) + (k + 1) - a
      <4>1. p[a] + 1 \in 1 .. n
          BY <1>4, <3>1
      <4>2. Ups(path, p[a] + 1, n) \in Int
          BY <4>1, UpsTally
      <4>3. QED BY <4>2
    <3>4. QED BY <3>1, <3>2, <3>3, <1>8
  <2>3. QED BY <2>1, <2>2
<1>11. ASSUME NEW i \in 1 .. n, CountsTo(path, n, i)
       PROVE  \E a \in 1 .. k + 1 : q[a] = i
  <2>1. CASE i = n
      BY <1>5, <2>1
  <2>2. CASE i # n
    <3>1. i \in 1 .. n - 1
        BY <2>2
    <3>2. CountsTo(path, n - 1, i)
        BY <1>11, <3>1, CountsOn
    <3>3. PICK a \in 1 .. k : p[a] = i
        BY <1>4, <3>1, <3>2
    <3>4. QED BY <1>5, <3>3
  <2>3. QED BY <2>1, <2>2
<1>12. LeftBy(path, more, n, q)
    BY <1>2, <1>6, <1>7, <1>10, <1>11 DEF LeftBy
<1>13. QED BY <1>2, <1>12

LEMMA DotIsLeftOut ==
    ASSUME NEW path, NEW n \in Nat \ {0}, NEW out \in Routes, NEW p, LeftBy(path, out, n - 1, p),
           path[n] = "."
    PROVE  LeftBy(path, out, n, p)
<1>1. PICK k \in Nat : k = Len(out)
    BY RouteIs
<1>2. /\ p \in [1 .. k -> 1 .. n - 1]
      /\ \A a, b \in 1 .. k : a < b => p[a] < p[b]
      /\ \A i \in 1 .. n - 1 : CountsTo(path, n - 1, i) => \E a \in 1 .. k : p[a] = i
    BY <1>1 DEF LeftBy
<1>3. p \in [1 .. k -> 1 .. n]
    BY <1>2
<1>4. ~IsName(path[n]) /\ path[n] # ".."
    BY DEF IsName
<1>5. ASSUME NEW a \in 1 .. k
      PROVE  /\ out[a] = path[p[a]]
             /\ CountsTo(path, n, p[a])
             /\ Names(path, p[a] + 1, n) = Ups(path, p[a] + 1, n) + k - a
  <2>1. /\ out[a] = path[p[a]]
        /\ CountsTo(path, n - 1, p[a])
        /\ Names(path, p[a] + 1, n - 1) = Ups(path, p[a] + 1, n - 1) + k - a
      BY <1>1 DEF LeftBy
  <2>2. PICK i \in 1 .. n - 1 : i = p[a]
      BY <1>2
  <2>3. i + 1 \in 1 .. n
      OBVIOUS
  <2>4. PICK u \in Nat : u = Ups(path, i + 1, n - 1) /\ Ups(path, i + 1, n) = u
      BY <1>4, <2>3, UpsTally
  <2>5. Names(path, i + 1, n - 1) = u + k - a
      BY <2>1, <2>2, <2>4
  <2>6. Names(path, i + 1, n) = u + k - a
      BY <1>4, <2>3, <2>5, NamesTally
  <2>7. CountsTo(path, n, i)
      BY <2>1, <2>2, <2>4, <2>6, CountsOn
  <2>8. QED BY <2>1, <2>2, <2>4, <2>6, <2>7
<1>6. ASSUME NEW i \in 1 .. n, CountsTo(path, n, i)
      PROVE  \E a \in 1 .. k : p[a] = i
  <2>1. i # n
      BY <1>4, <1>6 DEF CountsTo
  <2>2. i \in 1 .. n - 1
      BY <2>1
  <2>3. CountsTo(path, n - 1, i)
      BY <1>6, <2>2, CountsOn
  <2>4. QED BY <1>2, <2>2, <2>3
<1>7. QED BY <1>1, <1>2, <1>3, <1>5, <1>6 DEF LeftBy

LEMMA UpTakesBack ==
    ASSUME NEW path, NEW n \in Nat \ {0}, NEW out \in Routes, NEW p, LeftBy(path, out, n - 1, p),
           path[n] = ".."
    PROVE  \E q : LeftBy(path, Front(out), n, q)
<1>1. PICK k \in Nat : k = Len(out)
    BY RouteIs
<1>2. PICK l \in Nat : l = IF k = 0 THEN 0 ELSE k - 1
    OBVIOUS
<1>3. PICK less : less = Front(out)
    OBVIOUS
<1>4. Len(less) = l /\ \A a \in 1 .. l : less[a] = out[a]
  <2>1. \A i \in 1 .. k - 1 : out[i] \in Components
      BY <1>1, RouteIs
  <2>2. less = SubSeq(out, 1, k - 1)
      BY <1>1, <1>3 DEF Front
  <2>3. /\ Len(less) = IF 1 <= k - 1 THEN k - 1 - 1 + 1 ELSE 0
        /\ \A i \in 1 .. k - 1 - 1 + 1 : less[i] = out[1 + i - 1]
      BY <2>1, <2>2, SubSeqProperties
  <2>4. Len(less) = l
      BY <2>3, <1>2
  <2>5. \A a \in 1 .. l : a \in 1 .. k - 1 - 1 + 1 /\ 1 + a - 1 = a
      BY <1>2
  <2>6. QED BY <2>3, <2>4, <2>5
<1>5. /\ p \in [1 .. k -> 1 .. n - 1]
      /\ \A a, b \in 1 .. k : a < b => p[a] < p[b]
      /\ \A i \in 1 .. n - 1 : CountsTo(path, n - 1, i) => \E a \in 1 .. k : p[a] = i
    BY <1>1 DEF LeftBy
<1>6. PICK q : q = [a \in 1 .. l |-> p[a]]
    OBVIOUS
<1>7. \A a \in 1 .. l : a \in 1 .. k /\ q[a] = p[a]
    BY <1>2, <1>6
<1>8. q \in [1 .. l -> 1 .. n] /\ \A a, b \in 1 .. l : a < b => q[a] < q[b]
  <2>1. \A a \in 1 .. l : p[a] \in 1 .. n
      BY <1>5, <1>7
  <2>2. QED BY <1>5, <1>6, <1>7, <2>1
<1>9. ~IsName(path[n])
    BY DEF IsName
<1>10. ASSUME NEW a \in 1 .. k
       PROVE  /\ out[a] = path[p[a]]
              /\ CountsTo(path, n, p[a]) <=> a <= l
              /\ Names(path, p[a] + 1, n) = Ups(path, p[a] + 1, n) + (k - 1) - a
  <2>1. /\ out[a] = path[p[a]]
        /\ CountsTo(path, n - 1, p[a])
        /\ Names(path, p[a] + 1, n - 1) = Ups(path, p[a] + 1, n - 1) + k - a
      BY <1>1 DEF LeftBy
  <2>2. PICK i \in 1 .. n - 1 : i = p[a]
      BY <1>5
  <2>3. i + 1 \in 1 .. n
      OBVIOUS
  <2>4. PICK u \in Nat : u = Ups(path, i + 1, n - 1) /\ Ups(path, i + 1, n) = u + 1
      BY <2>3, UpsTally
  <2>5. Names(path, i + 1, n - 1) = u + k - a
      BY <2>1, <2>2, <2>4
  <2>6. Names(path, i + 1, n) = u + k - a
      BY <1>9, <2>3, <2>5, NamesTally
  <2>7. CountsTo(path, n, i) <=> u + 1 <= u + k - a
      BY <2>1, <2>2, <2>4, <2>6, CountsOn
  <2>8. u + 1 <= u + k - a <=> a <= l
      BY <1>2
  <2>9. u + k - a = u + 1 + (k - 1) - a
      OBVIOUS
  <2>10. QED BY <2>1, <2>2, <2>4, <2>6, <2>7, <2>8, <2>9
<1>11. k > 0 => k - 1 = l
    BY <1>2
<1>12. ASSUME NEW a \in 1 .. l
       PROVE  /\ less[a] = path[q[a]]
              /\ CountsTo(path, n, q[a])
              /\ Names(path, q[a] + 1, n) = Ups(path, q[a] + 1, n) + l - a
  <2>1. a \in 1 .. k /\ k - 1 = l /\ q[a] = p[a] /\ less[a] = out[a] /\ a <= l
      BY <1>4, <1>7, <1>2
  <2>2. /\ out[a] = path[p[a]]
        /\ CountsTo(path, n, p[a])
        /\ Names(path, p[a] + 1, n) = Ups(path, p[a] + 1, n) + (k - 1) - a
      BY <1>10, <2>1
  <2>3. QED BY <2>1, <2>2
<1>13. ASSUME NEW i \in 1 .. n, CountsTo(path, n, i)
       PROVE  \E a \in 1 .. l : q[a] = i
  <2>1. i # n
      BY <1>9, <1>13 DEF CountsTo
  <2>2. i \in 1 .. n - 1
      BY <2>1
  <2>3. CountsTo(path, n - 1, i)
      BY <1>13, <2>2, CountsOn
  <2>4. PICK a \in 1 .. k : p[a] = i
      BY <1>5, <2>2, <2>3
  <2>5. a <= l
      BY <1>10, <1>13, <2>4
  <2>6. a \in 1 .. l
      BY <2>5
  <2>7. QED BY <1>7, <2>4, <2>6
<1>14. LeftBy(path, less, n, q)
    BY <1>4, <1>8, <1>12, <1>13 DEF LeftBy
<1>15. QED BY <1>3, <1>14

LEMMA RealPathIsLeft ==
    ASSUME NEW path \in Routes
    PROVE  RealPath(path) \in Routes /\ \E p : LeftBy(path, RealPath(path), Len(path), p)
<1>1. PICK N \in Nat : N = Len(path) /\ \A n \in 1 .. N : path[n] \in Components
    BY RouteIs
<1>2. PICK out \in [0 .. N -> Routes] :
        /\ out[0] = <<>>
        /\ \A n \in 1 .. N :
             out[n] = IF path[n] = ".." THEN Front(out[n - 1])
                      ELSE IF path[n] = "." THEN out[n - 1]
                      ELSE Append(out[n - 1], path[n])
        /\ RealPath(path) = out[N]
    BY <1>1, RealPathWalks
<1> DEFINE H == {n \in 0 .. N : \E p : LeftBy(path, out[n], n, p)}
<1>3. 0 \in H
  <2>1. PICK none \in Routes : none = <<>> /\ Len(none) = 0 /\ none = out[0]
      BY <1>2, PrefixOrder, RouteIs
  <2>2. PICK p : p = [a \in 1 .. 0 |-> a]
      OBVIOUS
  <2>3. p \in [1 .. 0 -> 1 .. 0]
      BY <2>2
  <2>4. LeftBy(path, none, 0, p)
      BY <2>1, <2>3 DEF LeftBy
  <2>5. QED BY <2>1, <2>4
<1>4. ASSUME NEW n \in 1 .. N, n - 1 \in H
      PROVE  n \in H
  <2>1. PICK p : LeftBy(path, out[n - 1], n - 1, p)
      BY <1>4
  <2>2. n \in Nat \ {0} /\ out[n - 1] \in Routes /\ path[n] \in Components
      BY <1>1, <1>2
  <2>3. CASE path[n] = ".."
    <3>1. PICK q : LeftBy(path, Front(out[n - 1]), n, q)
        BY <2>1, <2>2, <2>3, UpTakesBack
    <3>2. QED BY <1>2, <2>3, <3>1
  <2>4. CASE path[n] = "."
    <3>1. LeftBy(path, out[n - 1], n, p)
        BY <2>1, <2>2, <2>4, DotIsLeftOut
    <3>2. out[n] = out[n - 1]
        BY <1>2, <2>4
    <3>3. QED BY <3>1, <3>2
  <2>5. CASE path[n] # ".." /\ path[n] # "."
    <3>1. IsName(path[n])
        BY <2>5 DEF IsName
    <3>2. PICK q : LeftBy(path, Append(out[n - 1], path[n]), n, q)
        BY <2>1, <2>2, <3>1, NameIsAppended
    <3>3. QED BY <1>2, <2>5, <3>2
  <2>6. QED BY <2>3, <2>4, <2>5
<1> HIDE DEF H
<1>5. \A n \in 0 .. N : n \in H
    BY <1>3, <1>4, UpTo
<1>6. QED BY <1>1, <1>2, <1>5 DEF H

(* As many numbers of an ascending list are up to its a-th one as its place says. *)
UpToIn(i, kept) == {j \in kept : j <= i}
Lists(kept, p, k) == kept = {p[a] : a \in 1 .. k} /\ \A a, b \in 1 .. k : a < b => p[a] < p[b]

LEMMA PlaceInList ==
    ASSUME NEW k \in Nat, NEW n \in Nat, NEW p \in [1 .. k -> 1 .. n], NEW kept, Lists(kept, p, k)
    PROVE  Cardinality(kept) = k /\ \A a \in 1 .. k : Cardinality(UpToIn(p[a], kept)) = a
<1>0. /\ \A a, b \in 1 .. k : a < b => p[a] < p[b]
      /\ kept = {p[a] : a \in 1 .. k}
    BY DEF Lists
<1>1. ASSUME NEW a \in 0 .. k, NEW S,
             \A j : j \in S <=> \E b \in 1 .. a : j = p[b]
      PROVE  Cardinality(S) = a
  <2>1. PICK f : f = [b \in 1 .. a |-> p[b]]
      OBVIOUS
  <2>2. f \in [1 .. a -> S]
      BY <1>1, <2>1
  <2>3. \A b, c \in 1 .. a : f[b] = f[c] => b = c
    <3>1. SUFFICES ASSUME NEW b \in 1 .. a, NEW c \in 1 .. a, b < c PROVE f[b] # f[c]
        OBVIOUS
    <3>2. b \in 1 .. k /\ c \in 1 .. k
        OBVIOUS
    <3>3. p[b] < p[c] /\ p[b] \in 1 .. n /\ p[c] \in 1 .. n
        BY <1>0, <3>1, <3>2
    <3>4. QED BY <2>1, <3>3
  <2>4. \A s \in S : \E b \in 1 .. a : f[b] = s
      BY <1>1, <2>1
  <2>5. f \in Bijection(1 .. a, S)
      BY <2>2, <2>3, <2>4 DEF Bijection, Injection, Surjection, IsInjective
  <2>6. IsFiniteSet(1 .. a) /\ Cardinality(1 .. a) = a
      BY FS_Interval
  <2>7. ExistsBijection(1 .. a, S)
      BY <2>5 DEF ExistsBijection
  <2>8. Cardinality(S) = Cardinality(1 .. a)
      BY <2>6, <2>7, FS_Bijection, Zenon
  <2>9. QED BY <2>6, <2>8
<1>2. Cardinality(kept) = k
  <2>1. \A j : j \in kept <=> \E b \in 1 .. k : j = p[b]
      BY <1>0
  <2>2. QED BY <1>1, <2>1
<1>3. ASSUME NEW a \in 1 .. k
      PROVE  Cardinality(UpToIn(p[a], kept)) = a
  <2> DEFINE S == {j \in kept : j <= p[a]}
  <2>1. \A b \in 1 .. k : b <= a => p[b] <= p[a]
      BY <1>0
  <2>2. \A b \in 1 .. k : p[b] <= p[a] => b <= a
    <3>1. SUFFICES ASSUME NEW b \in 1 .. k, a < b PROVE ~(p[b] <= p[a])
        OBVIOUS
    <3>2. p[a] < p[b] /\ p[a] \in 1 .. n /\ p[b] \in 1 .. n
        BY <1>0, <3>1
    <3>3. QED BY <3>2
  <2>3. ASSUME NEW j PROVE j \in S <=> \E b \in 1 .. a : j = p[b]
    <3>1. ASSUME j \in S PROVE \E b \in 1 .. a : j = p[b]
      <4>1. PICK b \in 1 .. k : p[b] = j
          BY <1>0, <3>1
      <4>2. b \in 1 .. a
          BY <2>2, <3>1, <4>1
      <4>3. QED BY <4>1, <4>2
    <3>2. ASSUME NEW b \in 1 .. a, j = p[b] PROVE j \in S
      <4>1. b \in 1 .. k
          OBVIOUS
      <4>2. QED BY <1>0, <2>1, <3>2, <4>1
    <3>3. QED BY <3>1, <3>2
  <2> HIDE DEF S
  <2>4. Cardinality(S) = a
      BY <1>1, <2>3
  <2>5. QED BY <2>4 DEF S, UpToIn
<1>4. QED BY <1>2, <1>3

(* The components the reference definition keeps, and where the n-th of them is. *)
Kept(path) == {i \in DOMAIN path : Counts(path, i)}
PlaceOf(path, n) == CHOOSE i \in Kept(path) : Cardinality(UpToIn(i, Kept(path))) = n

(* A path a command is given, however long and with "." and ".." wherever they are: the
   walk over the linked list of its components leaves those that no later ".." takes
   back, in their order. *)
THEOREM RealPathIsDenoted ==
    ASSUME NEW arg, FullPath(arg) \in Routes
    PROVE  RealPath(FullPath(arg)) = Denoted(arg)
<1>1. PICK path \in Routes : path = FullPath(arg)
    OBVIOUS
<1>2. PICK out \in Routes : out = RealPath(path)
    BY RealPathIsLeft
<1>3. PICK N \in Nat : N = Len(path) /\ DOMAIN path = 1 .. N
    BY LenProperties DEF Routes
<1>4. PICK k \in Nat : k = Len(out)
    BY RouteIs
<1>5. PICK p : LeftBy(path, out, N, p)
    BY <1>2, <1>3, RealPathIsLeft
<1>6. /\ p \in [1 .. k -> 1 .. N]
      /\ \A a, b \in 1 .. k : a < b => p[a] < p[b]
      /\ \A a \in 1 .. k : out[a] = path[p[a]]
      /\ \A i \in 1 .. N : CountsTo(path, N, i) <=> \E a \in 1 .. k : p[a] = i
    BY <1>4, <1>5 DEF LeftBy
<1>7. PICK kept : kept = Kept(path)
    OBVIOUS
<1>8. Lists(kept, p, k)
  <2>1. \A i : Counts(path, i) <=> CountsTo(path, N, i)
      BY <1>3 DEF Counts, CountsTo, IsName
  <2>2. kept = {i \in 1 .. N : \E a \in 1 .. k : p[a] = i}
      BY <1>3, <1>6, <1>7, <2>1 DEF Kept
  <2>3. QED BY <1>6, <2>2 DEF Lists
<1>9. Cardinality(kept) = k /\ \A a \in 1 .. k : Cardinality(UpToIn(p[a], kept)) = a
    BY <1>6, <1>8, PlaceInList
<1>10. ASSUME NEW a \in 1 .. k
       PROVE  PlaceOf(path, a) = p[a]
  <2>1. p[a] \in kept /\ Cardinality(UpToIn(p[a], kept)) = a
      BY <1>8, <1>9 DEF Lists
  <2>2. ASSUME NEW i \in kept, Cardinality(UpToIn(i, kept)) = a PROVE i = p[a]
    <3>1. PICK b \in 1 .. k : i = p[b]
        BY <1>8 DEF Lists
    <3>2. Cardinality(UpToIn(p[b], kept)) = b
        BY <1>9
    <3>3. b = a
        BY <2>2, <3>1, <3>2
    <3>4. QED BY <3>1, <3>3
  <2>3. QED BY <1>7, <2>1, <2>2 DEF PlaceOf
<1>11. Denoted(arg) = [a \in 1 .. k |-> path[PlaceOf(path, a)]]
    BY <1>1, <1>7, <1>9 DEF Denoted, Kept, PlaceOf, UpToIn
<1>12. Denoted(arg) = [a \in 1 .. k |-> out[a]]
    BY <1>6, <1>10, <1>11
<1>13. out = [a \in 1 .. k |-> out[a]]
  <2>1. out \in [1 .. Len(out) -> Components]
      BY LenProperties DEF Routes
  <2>2. QED BY <2>1, <1>4
<1>14. QED BY <1>1, <1>2, <1>12, <1>13

(* What the commands are asked to do is what CreateRelativePath makes of the arguments;
   an archive in "/" is the exception. *)
LEMMA RequestedPaths ==
    ASSUME BaseDir # <<>>, NEW args \in Arguments
    PROVE  LET paths == CreateRelativePath(args)
           IN  /\ paths \in Seq(Routes)
               /\ \A p : p \in Requested(args) <=> \E i \in 1 .. Len(paths) : paths[i] = p
<1> DEFINE N == Len(args)
           real(n) == RealPath(FullPath(args[n]))
           Below == {n \in 1 .. N : LiesBelowBase(real(n))}
           In(paths, p) == \E i \in 1 .. Len(paths) : paths[i] = p
<1>1. N \in Nat /\ DOMAIN args = 1 .. N /\ \A n \in 1 .. N : args[n] \in Routes /\ args[n] # <<>>
    BY ArgumentsAreRoutes, LenProperties, ElementOfSeq
<1>2. ASSUME NEW n \in 1 .. N
      PROVE  /\ real(n) = Denoted(args[n])
             /\ Relative(real(n)) \in Routes
             /\ LiesBelowBase(real(n)) <=> IsPrefix(BaseDir, Denoted(args[n]))
  <2>1. PICK arg \in Routes : arg = args[n] /\ arg # <<>>
      BY <1>1
  <2>2. FullPath(arg) \in Routes
      BY <2>1, FullPathIsRoute
  <2>3. real(n) = Denoted(args[n]) /\ real(n) \in Routes
      BY <2>1, <2>2, RealPathIsDenoted, RealPathIsRoute
  <2>4. QED BY <2>3, RelativeIsRoute DEF LiesBelowBase
<1>3. PICK out \in [0 .. N -> Seq(Routes)] :
        /\ out[0] = <<>>
        /\ \A n \in 1 .. N : out[n] = IF LiesBelowBase(real(n))
                                      THEN Append(out[n - 1], Relative(real(n)))
                                      ELSE out[n - 1]
        /\ CreateRelativePath(args) = out[N]
    BY RelativePathsWalk
<1>4. \A p : p \in Requested(args) <=> \E n \in Below : Relative(real(n)) = p
    BY <1>1, <1>2 DEF Requested
<1> DEFINE Some(m, p) == \E n \in Below : n <= m /\ Relative(real(n)) = p
           H == {m \in 0 .. N : \A p : In(out[m], p) <=> Some(m, p)}
<1>5. 0 \in H
  <2>1. Len(out[0]) = 0
      BY <1>3, EmptySeq
  <2>2. ASSUME NEW p PROVE ~In(out[0], p) /\ ~Some(0, p)
      BY <2>1, <1>1
  <2> HIDE DEF In, Some
  <2>3. 0 \in 0 .. N
      BY <1>1
  <2>4. QED BY <2>2, <2>3
<1>6. ASSUME NEW m \in 1 .. N, m - 1 \in H
      PROVE  m \in H
  <2> HIDE DEF N, real, Below, In, Some
  <2>1. out[m - 1] \in Seq(Routes) /\ \A p : In(out[m - 1], p) <=> Some(m - 1, p)
      BY <1>1, <1>6
  <2>2. CASE m \in Below
    <3>1. PICK r \in Routes : r = Relative(real(m))
        BY <1>2
    <3>2. PICK old \in Seq(Routes) : old = out[m - 1]
        BY <2>1
    <3>3. PICK k \in Nat : k = Len(old)
        BY LenProperties
    <3>4. PICK more \in Seq(Routes) :
            /\ more = Append(old, r) /\ Len(more) = k + 1
            /\ \A i \in 1 .. k : more[i] = old[i]
            /\ more[k + 1] = r
        BY <3>3, AppendProperties
    <3>5. out[m] = more
        BY <1>3, <2>2, <3>1, <3>2, <3>4 DEF Below
    <3>6. ASSUME NEW p PROVE In(more, p) <=> In(old, p) \/ p = r
        BY <3>3, <3>4 DEF In
    <3>7. ASSUME NEW p PROVE Some(m, p) <=> Some(m - 1, p) \/ p = r
      <4>1. \A n \in Below : n <= m <=> n <= m - 1 \/ n = m
          BY <1>1 DEF Below
      <4>2. QED BY <2>2, <3>1, <4>1 DEF Some
    <3>8. QED BY <2>1, <3>2, <3>5, <3>6, <3>7
  <2>3. CASE m \notin Below
    <3>1. out[m] = out[m - 1]
        BY <1>3, <2>3 DEF Below
    <3>2. ASSUME NEW p PROVE Some(m, p) <=> Some(m - 1, p)
      <4>1. \A n \in Below : n <= m <=> n <= m - 1
          BY <1>1, <2>3 DEF Below
      <4>2. QED BY <4>1 DEF Some
    <3>3. QED BY <2>1, <3>1, <3>2
  <2>4. QED BY <2>2, <2>3
<1> HIDE DEF H
<1>7. N \in H
  <2>1. \A m \in 0 .. N : m \in H
      BY <1>1, <1>5, <1>6, UpTo
  <2>2. QED BY <1>1, <2>1
<1>8. \A p : In(out[N], p) <=> \E n \in Below : Relative(real(n)) = p
  <2>1. \A p : Some(N, p) <=> \E n \in Below : Relative(real(n)) = p
      BY <1>1
  <2>2. QED BY <1>7, <2>1 DEF H
<1>9. CreateRelativePath(args) = out[N] /\ out[N] \in Seq(Routes)
    BY <1>1, <1>3
<1>10. QED BY <1>4, <1>8, <1>9
-------------------------------------------------------------------------------
(***************************************************************************)
(* What the commands do to each path.  Each entry has a place, the path    *)
(* that leads to it; the directory whose node block is not made yet has    *)
(* one too.                                                                *)
(***************************************************************************)
IsPlaced(place) ==
    /\ place \in [DOMAIN entry -> Routes] /\ place[Root] = <<>>
    /\ \A d \in WithNode : \A n \in DOMAIN DirOf(d) : place[DirOf(d)[n]] = Append(place[d], n)

(* Each entry but the root is in one directory, under one name. *)
NamedOnce ==
    /\ Root \in WithNode /\ WithNode \subseteq DOMAIN entry
    /\ \A d \in WithNode : \A n \in DOMAIN DirOf(d) :
         n \in Components /\ DirOf(d)[n] \in DOMAIN entry \ {Root}
    /\ \A c, d \in WithNode : \A m \in DOMAIN DirOf(c), n \in DOMAIN DirOf(d) :
         DirOf(c)[m] = DirOf(d)[n] => c = d /\ m = n
    /\ \A id \in DOMAIN entry \ {Root} :
         \E d \in WithNode : \E n \in DOMAIN DirOf(d) : DirOf(d)[n] = id

(* What is extracted from an entry. *)
ItemOf(id) ==
    IF IsDir(id) THEN [kind |-> "dir", content |-> Absent]
    ELSE [kind |-> entry[id].kind, content |-> data[Pointer(id)]]

InTree(tree, p, item) == p \in DOMAIN tree /\ tree[p] = item

(* The entry at work has no data, or is a directory without a node block. *)
Unsettled(id) ==
    /\ id = now.id
    /\ \/ pc \in {"node", "store"}
       \/ pc = "free" /\ Pointer(id) = 0
       \/ pc = "point" /\ Pointer(id) # now.chunk

(* Inserting.  What is near an argument is to come; what is near the path at work and
   at or below a name left in a frame, or the entry at work, is pending. *)
ToCome(p) == \E i \in 1 .. Len(cmd.args) : cmd.args[i] \in DOMAIN disk /\ Near(p, cmd.args[i])
Came(p) == stack # <<>> /\ Near(p, cmd.path)

PendingIn(p, f) == \E name \in f.left : IsPrefix(Append(f.path, name), p)
InStack(p, s) == \E i \in 1 .. Len(s) : PendingIn(p, s[i])
Pending(p) == InStack(p, stack) \/ (pc \in InsertSteps /\ IsPrefix(now.path, p))

(* What is to be inserted at a path: what is to come or came is, unless a name on the
   way to it has another kind in the archive. *)
Planned(p) == p \in DOMAIN disk /\ Agrees(before, disk, p) /\ InTree(after, p, disk[p])

Plan(p) ==
    /\ p \in DOMAIN before => p \in DOMAIN after
    /\ p \in DOMAIN after => Planned(p) \/ InTree(before, p, after[p])
    /\ p \in DOMAIN disk /\ Agrees(before, disk, p) /\ (ToCome(p) \/ Came(p)) => Planned(p)

(* An entry is of the kind it was or should be, and so is what is extracted from it. *)
IsOldOrNew(id, p) ==
    /\ p \in DOMAIN before => entry[id].kind = before[p].kind
    /\ p \notin DOMAIN before => p \in DOMAIN after /\ entry[id].kind = after[p].kind
    /\ ~Unsettled(id) => InTree(before, p, ItemOf(id)) \/ InTree(after, p, ItemOf(id))

IsThere(place, p) ==
    \E id \in DOMAIN entry : place[id] = p /\ ~Unsettled(id) /\ InTree(after, p, ItemOf(id))

StackWell(place, s, path) ==
    \A i \in 1 .. Len(s) :
        /\ place[s[i].id] = s[i].path
        /\ \A name \in s[i].left : Near(Append(s[i].path, name), path)

WorksOn(place) ==
    pc \in InsertSteps =>
        /\ place[now.id] = now.path
        /\ Near(now.path, cmd.path)
        /\ entry[now.id].kind = disk[now.path].kind
        /\ pc = "point" => data[now.chunk] = disk[now.path].content

Inserts(place) ==
    /\ StackWell(place, stack, cmd.path)
    /\ WorksOn(place)
    /\ \A p \in Paths : Plan(p)
    /\ \A id \in DOMAIN entry : place[id] \in Paths => IsOldOrNew(id, place[id])
    /\ \A p \in Paths \cap DOMAIN before : \E id \in DOMAIN entry : place[id] = p
    /\ \A p \in Paths \cap DOMAIN after :
         IsThere(place, p) \/ (Pending(p) /\ Near(p, cmd.path)) \/ ToCome(p)

(* Deleting.  What is there is as it was, and what should not be there is below the path
   at work or an argument. *)
Deleted(id) == pc = "entry" /\ id = Top.id /\ ~IsDir(id)
ToGo(p) ==
    \/ stack # <<>> /\ IsPrefix(cmd.path, p)
    \/ \E i \in 1 .. Len(cmd.args) : cmd.args[i] # <<>> /\ IsPrefix(cmd.args[i], p)

DeletesDown(place, s) ==
    s # <<>> =>
        /\ cmd.path # <<>>
        /\ IsDir(s[1].parent) =>
             /\ s[1].path = cmd.path
             /\ \A i \in 1 .. Len(s) : place[s[i].id] = s[i].path /\ IsPrefix(cmd.path, s[i].path)

AsItWas(place, id) ==
    /\ place[id] \in DOMAIN before
    /\ ~Deleted(id) => before[place[id]] = ItemOf(id)
    /\ place[id] \in DOMAIN after \/ ToGo(place[id])

Deletes(place) ==
    /\ DeletesDown(place, stack)
    /\ \A p \in Paths : p \in DOMAIN after => ~ToGo(p) /\ InTree(before, p, after[p])
    /\ \A id \in DOMAIN entry : place[id] \in Paths => AsItWas(place, id)
    /\ \A p \in Paths \cap DOMAIN after : \E id \in DOMAIN entry : place[id] = p

(* Ended. *)
Ends(place) ==
    /\ \A id \in DOMAIN entry :
         place[id] \in Paths =>
            InTree(before, place[id], ItemOf(id)) \/ InTree(after, place[id], ItemOf(id))
    /\ \A p \in Paths \cap DOMAIN before \cap DOMAIN after : \E id \in DOMAIN entry : place[id] = p

Faithful(place) ==
    /\ IsPlaced(place)
    /\ cmd.do = "insert" => Inserts(place)
    /\ cmd.do = "delete" => Deletes(place)
    /\ pc = "ended" => Ends(place)

TreeInv == ~lost => \E place : Faithful(place)
-------------------------------------------------------------------------------
(***************************************************************************)
(* Places.                                                                 *)
(***************************************************************************)
LEMMA EachIsNamedOnce ==
    ASSUME IInv, ~lost
    PROVE  NamedOnce
<1>1. PICK depth : IsTree(Hierarchy, DOMAIN entry, depth)
    BY DEF IInv, Agreement
<1>2. DOMAIN Hierarchy = WithNode /\ \A d \in WithNode : Hierarchy[d] = DirOf(d)
    BY DEF Hierarchy
<1>3. \A d \in WithNode : DOMAIN DirOf(d) \subseteq Components
    BY DEF IInv, Agreement, StoredType, NodesAgree, DirOf, Pointer
<1> DEFINE T == Hierarchy
<1>4. /\ Root \in WithNode /\ WithNode \subseteq DOMAIN entry
      /\ \A d \in WithNode : \A n \in DOMAIN T[d] : T[d][n] \in DOMAIN entry \ {Root}
      /\ \A c, d \in WithNode : \A m \in DOMAIN T[c], n \in DOMAIN T[d] :
           T[c][m] = T[d][n] => c = d /\ m = n
      /\ \A id \in DOMAIN entry \ {Root} : \E d \in WithNode : \E n \in DOMAIN T[d] : T[d][n] = id
    BY <1>1, <1>2 DEF IsTree
<1> HIDE DEF T
<1>5. \A d \in WithNode : T[d] = DirOf(d)
    BY <1>2 DEF T
<1>6. \A d \in WithNode : \A n \in DOMAIN DirOf(d) :
         n \in Components /\ DirOf(d)[n] \in DOMAIN entry \ {Root}
    BY <1>3, <1>4, <1>5
<1>7. \A c, d \in WithNode : \A m \in DOMAIN DirOf(c), n \in DOMAIN DirOf(d) :
         DirOf(c)[m] = DirOf(d)[n] => c = d /\ m = n
    BY <1>4, <1>5
<1>8. \A id \in DOMAIN entry \ {Root} : \E d \in WithNode : \E n \in DOMAIN DirOf(d) :
         DirOf(d)[n] = id
  <2>1. SUFFICES ASSUME NEW id \in DOMAIN entry \ {Root}
        PROVE  \E d \in WithNode : \E n \in DOMAIN DirOf(d) : DirOf(d)[n] = id
      OBVIOUS
  <2>2. PICK d \in WithNode : \E n \in DOMAIN T[d] : T[d][n] = id
      BY <1>4
  <2>3. QED BY <2>2, <1>5
<1>9. QED BY <1>4, <1>6, <1>7, <1>8 DEF NamedOnce

(* An entry below the root is in the directory whose place is in front of its own. *)
LEMMA PlaceOfNamed ==
    ASSUME NamedOnce, NEW place, IsPlaced(place), NEW id \in DOMAIN entry
    PROVE  /\ place[id] \in Routes
           /\ id = Root <=> place[id] = <<>>
           /\ id # Root =>
                \E d \in WithNode : \E n \in DOMAIN DirOf(d) :
                   /\ DirOf(d)[n] = id /\ n \in Components /\ d \in DOMAIN entry
                   /\ place[d] \in Routes /\ place[id] = Append(place[d], n)
<1>1. place[id] \in Routes /\ place[Root] = <<>>
    BY DEF IsPlaced
<1>2. ASSUME id # Root
      PROVE  /\ place[id] # <<>>
             /\ \E d \in WithNode : \E n \in DOMAIN DirOf(d) :
                   /\ DirOf(d)[n] = id /\ n \in Components /\ d \in DOMAIN entry
                   /\ place[d] \in Routes /\ place[id] = Append(place[d], n)
  <2>1. PICK d \in WithNode : \E n \in DOMAIN DirOf(d) : DirOf(d)[n] = id
      BY <1>2 DEF NamedOnce
  <2>2. PICK n \in DOMAIN DirOf(d) : DirOf(d)[n] = id
      BY <2>1
  <2>3. n \in Components /\ d \in DOMAIN entry /\ place[d] \in Routes
      BY DEF NamedOnce, IsPlaced
  <2>4. place[id] = Append(place[d], n)
      BY <2>2 DEF IsPlaced
  <2>5. place[id] # <<>>
      BY <2>3, <2>4, AppendIs
  <2>6. QED BY <2>2, <2>3, <2>4, <2>5
<1>3. QED BY <1>1, <1>2

(* No two entries have one place. *)
LEMMA OnePlaceEach ==
    ASSUME NamedOnce, NEW place, IsPlaced(place)
    PROVE  \A i, j \in DOMAIN entry : place[i] = place[j] => i = j
<1> DEFINE H == {p \in Routes : \A i, j \in DOMAIN entry : place[i] = p /\ place[j] = p => i = j}
<1>1. <<>> \in H
    BY PlaceOfNamed, PrefixOrder
<1>2. ASSUME NEW p \in Routes, NEW n \in Components, p \in H
      PROVE  Append(p, n) \in H
  <2>1. SUFFICES ASSUME NEW i \in DOMAIN entry, NEW j \in DOMAIN entry,
                        place[i] = Append(p, n), place[j] = Append(p, n)
        PROVE  i = j
      BY AppendIs
  <2>2. ASSUME NEW k \in DOMAIN entry, place[k] = Append(p, n)
        PROVE  \E d \in WithNode : d \in DOMAIN entry /\ place[d] = p /\ n \in DOMAIN DirOf(d)
                                   /\ DirOf(d)[n] = k
    <3>1. k # Root
        BY <2>2, AppendIs, PlaceOfNamed
    <3>2. PICK d \in WithNode : \E m \in DOMAIN DirOf(d) :
             /\ DirOf(d)[m] = k /\ m \in Components /\ d \in DOMAIN entry
             /\ place[d] \in Routes /\ place[k] = Append(place[d], m)
        BY <3>1, PlaceOfNamed
    <3>3. PICK m \in DOMAIN DirOf(d) :
             /\ DirOf(d)[m] = k /\ m \in Components /\ d \in DOMAIN entry
             /\ place[d] \in Routes /\ place[k] = Append(place[d], m)
        BY <3>2
    <3>4. place[d] = p /\ m = n
        BY <2>2, <3>3, AppendOnce
    <3>5. QED BY <3>3, <3>4
  <2>3. PICK d \in WithNode : d \in DOMAIN entry /\ place[d] = p /\ n \in DOMAIN DirOf(d)
                              /\ DirOf(d)[n] = i
      BY <2>1, <2>2
  <2>4. PICK e \in WithNode : e \in DOMAIN entry /\ place[e] = p /\ n \in DOMAIN DirOf(e)
                              /\ DirOf(e)[n] = j
      BY <2>1, <2>2
  <2>5. d = e
      BY <1>2, <2>3, <2>4
  <2>6. QED BY <2>3, <2>4, <2>5
<1>3. \A p \in Routes : p \in H
  <2> HIDE DEF H
  <2>1. QED BY <1>1, <1>2, RouteInduction
<1>4. QED BY <1>3 DEF IsPlaced

(* What leads to an entry is the place of a directory that has the next name. *)
LEMMA AbovePlaced ==
    ASSUME NamedOnce, NEW place, IsPlaced(place), NEW id \in DOMAIN entry,
           NEW q \in Routes, IsPrefix(q, place[id]), q # place[id]
    PROVE  \E d \in WithNode : \E n \in DOMAIN DirOf(d) :
              place[d] = q /\ n \in Components /\ IsPrefix(Append(q, n), place[id])
<1> DEFINE Leads(r, d, n, p) == place[d] = r /\ n \in Components /\ IsPrefix(Append(r, n), p)
           H == {p \in Routes :
                   \A i \in DOMAIN entry : place[i] = p =>
                      \A r \in Routes : IsPrefix(r, p) /\ r # p =>
                         \E d \in WithNode : \E n \in DOMAIN DirOf(d) : Leads(r, d, n, p)}
<1>1. <<>> \in H
    BY PrefixOrder
<1>2. ASSUME NEW p \in Routes, NEW n \in Components, p \in H
      PROVE  Append(p, n) \in H
  <2> DEFINE a == Append(p, n)
  <2>1. SUFFICES ASSUME NEW i \in DOMAIN entry, place[i] = a,
                        NEW r \in Routes, IsPrefix(r, a), r # a
        PROVE  \E d \in WithNode : \E m \in DOMAIN DirOf(d) : Leads(r, d, m, a)
    <3> HIDE DEF Leads
    <3>1. QED BY AppendIs
  <2>2. a # <<>> /\ a \in Routes /\ IsPrefix(p, a) /\ IsPrefix(a, a) /\ IsPrefix(r, p)
      BY <2>1, AppendIs, PrefixOrder
  <2>3. i # Root
      BY <2>1, <2>2, PlaceOfNamed
  <2>4. PICK d \in WithNode : \E m \in DOMAIN DirOf(d) :
             /\ DirOf(d)[m] = i /\ m \in Components /\ d \in DOMAIN entry
             /\ place[d] \in Routes /\ place[i] = Append(place[d], m)
      BY <2>3, PlaceOfNamed
  <2>5. PICK m \in DOMAIN DirOf(d) :
             /\ DirOf(d)[m] = i /\ m \in Components /\ d \in DOMAIN entry
             /\ place[d] \in Routes /\ place[i] = Append(place[d], m)
      BY <2>4
  <2>6. place[d] = p /\ m = n
      BY <2>1, <2>5, AppendOnce
  <2>7. CASE r = p
    <3>1. Leads(r, d, m, a)
        BY <2>2, <2>5, <2>6, <2>7
    <3>2. QED BY <3>1
  <2>8. CASE r # p
    <3>1. \E e \in WithNode : \E k \in DOMAIN DirOf(e) : Leads(r, e, k, p)
      <4> HIDE DEF Leads
      <4>1. QED BY <1>2, <2>2, <2>5, <2>6, <2>8
    <3>2. PICK e \in WithNode : \E k \in DOMAIN DirOf(e) : Leads(r, e, k, p)
        BY <3>1
    <3>9. PICK k \in DOMAIN DirOf(e) : Leads(r, e, k, p)
        BY <3>2
    <3>3. Append(r, k) \in Routes
        BY <3>9, AppendIs
    <3>4. Leads(r, e, k, a)
      <4> HIDE DEF a
      <4>1. QED BY <2>2, <3>9, <3>3, PrefixOrder
    <3>5. QED BY <3>4
  <2>9. QED BY <2>7, <2>8
<1>3. \A p \in Routes : p \in H
  <2> HIDE DEF H
  <2>1. QED BY <1>1, <1>2, RouteInduction
<1>4. QED BY <1>3 DEF IsPlaced

-------------------------------------------------------------------------------
(* Looking a path up finds the entry that has it as its place. *)
LEMMA FoundAtItsPlace ==
    ASSUME NamedOnce, WithNode = Dirs, NamesLeadToEntries, NEW place, IsPlaced(place)
    PROVE  /\ \A p \in Routes :
                GetEntry(p).found /\ ~GetEntry(p).past =>
                   /\ GetEntry(p).id \in DOMAIN entry /\ place[GetEntry(p).id] = p
                   /\ GetEntry(p) = Found(GetEntry(p).id)
           /\ \A id \in DOMAIN entry : GetEntry(place[id]) = Found(id)
<1> DEFINE Finds(p) ==
             /\ GetEntry(p).found /\ ~GetEntry(p).past =>
                  \E id \in DOMAIN entry : GetEntry(p) = Found(id) /\ place[id] = p
             /\ \A id \in DOMAIN entry : place[id] = p => GetEntry(p) = Found(id)
           H == {p \in Routes : Finds(p)}
<1>1. <<>> \in H
  <2>1. <<>> \in Routes /\ Len(<<>>) = 0
      BY PrefixOrder, RouteIs
  <2>2. PICK at \in [0 .. 0 -> Places] : at[0] = Found(Root) /\ GetEntry(<<>>) = at[0]
      BY <2>1, GetEntryWalks
  <2>3. Finds(<<>>)
      BY <2>2, PlaceOfNamed DEF NamedOnce, IsPlaced
  <2> HIDE DEF Finds
  <2>4. QED BY <2>1, <2>3
<1>2. ASSUME NEW p \in Routes, NEW n \in Components, p \in H
      PROVE  Append(p, n) \in H
  <2> DEFINE a == Append(p, n)
  <2>1. a \in Routes /\ a # <<>> /\ Front(a) = p /\ Last(a) = n
      BY AppendIs
  <2>2. GetEntry(p) \in Places /\ GetEntry(a) = Component(GetEntry(p), n)
      BY <2>1, GetEntryOfFront
  <2>3. ASSUME GetEntry(a).found, ~GetEntry(a).past
        PROVE  \E id \in DOMAIN entry : GetEntry(a) = Found(id) /\ place[id] = a
    <3>1. GetEntry(p).found /\ ~GetEntry(p).past
        BY <2>2, <2>3 DEF Component, NotFound
    <3>2. PICK d \in DOMAIN entry : GetEntry(p) = Found(d) /\ place[d] = p
        BY <3>1, <1>2
    <3>3. GetEntry(p).id = d
        BY <3>2 DEF Found
    <3>4. IsDir(d)
        BY <2>2, <2>3, <3>1, <3>3 DEF Component, Past
    <3>5. GetEntry(a) = LookUp(GetEntry(p), n)
        BY <2>2, <3>1, <3>3, <3>4 DEF Component
    <3>6. n \in DOMAIN DirOf(d) /\ GetEntry(a) = Found(DirOf(d)[n])
        BY <2>3, <3>3, <3>5 DEF LookUp, NotFound
    <3>7. d \in WithNode
        BY <3>4 DEF Dirs
    <3>8. DirOf(d)[n] \in DOMAIN entry /\ place[DirOf(d)[n]] = a
        BY <3>2, <3>6, <3>7 DEF NamedOnce, IsPlaced
    <3>9. QED BY <3>6, <3>8
  <2>4. ASSUME NEW id \in DOMAIN entry, place[id] = a
        PROVE  GetEntry(a) = Found(id)
    <3>1. id # Root
        BY <2>1, <2>4, PlaceOfNamed
    <3>9. PICK d \in WithNode : \E m \in DOMAIN DirOf(d) :
             /\ DirOf(d)[m] = id /\ m \in Components /\ d \in DOMAIN entry
             /\ place[d] \in Routes /\ place[id] = Append(place[d], m)
        BY <3>1, PlaceOfNamed
    <3>2. PICK m \in DOMAIN DirOf(d) :
             /\ DirOf(d)[m] = id /\ m \in Components /\ d \in DOMAIN entry
             /\ place[d] \in Routes /\ place[id] = Append(place[d], m)
        BY <3>9
    <3>3. place[d] = p /\ m = n
        BY <2>4, <3>2, AppendOnce
    <3>4. GetEntry(p) = Found(d)
        BY <1>2, <3>2, <3>3
    <3>5. GetEntry(p).found /\ ~GetEntry(p).past /\ GetEntry(p).id = d
        BY <3>4 DEF Found
    <3>6. IsDir(d)
        BY DEF Dirs
    <3>7. GetEntry(a) = LookUp(GetEntry(p), n)
        BY <2>2, <3>5, <3>6 DEF Component
    <3>8. QED BY <3>2, <3>3, <3>5, <3>7 DEF LookUp
  <2>5. Finds(a)
      BY <2>3, <2>4
  <2> HIDE DEF Finds
  <2>6. QED BY <2>1, <2>5
<1>3. \A p \in Routes : p \in H
  <2> HIDE DEF H
  <2>1. QED BY <1>1, <1>2, RouteInduction
<1>4. ASSUME NEW p \in Routes, GetEntry(p).found, ~GetEntry(p).past
      PROVE  /\ GetEntry(p).id \in DOMAIN entry /\ place[GetEntry(p).id] = p
             /\ GetEntry(p) = Found(GetEntry(p).id)
  <2>1. PICK id \in DOMAIN entry : GetEntry(p) = Found(id) /\ place[id] = p
      BY <1>3, <1>4
  <2>2. GetEntry(p).id = id
      BY <2>1 DEF Found
  <2>3. QED BY <2>1, <2>2
<1>5. ASSUME NEW id \in DOMAIN entry PROVE GetEntry(place[id]) = Found(id)
    BY <1>3 DEF IsPlaced
<1>6. QED BY <1>4, <1>5

(* So the tree has what is extracted from the entry that has its place there. *)
LEMMA TreeShows ==
    ASSUME NamedOnce, WithNode = Dirs, NamesLeadToEntries, NEW place, IsPlaced(place),
           NEW p \in Paths
    PROVE  /\ p \in DOMAIN Tree <=> \E id \in DOMAIN entry : place[id] = p
           /\ \A id \in DOMAIN entry : place[id] = p => InTree(Tree, p, ItemOf(id))
<1> DEFINE at == [r \in Paths |-> GetEntry(r)]
           D == {r \in Paths : at[r].found /\ ~at[r].past}
<1>1. Tree = [r \in D |-> Extracted(at[r])]
    BY DEF Tree
<1>2. at[p] = GetEntry(p) /\ p \in Routes
    BY ArgumentsAreRoutes
<1>3. p \in D => \E id \in DOMAIN entry : place[id] = p
    BY <1>2, FoundAtItsPlace
<1>4. ASSUME NEW id \in DOMAIN entry, place[id] = p
      PROVE  p \in D /\ Extracted(at[p]) = ItemOf(id)
  <2>1. at[p] = Found(id)
      BY <1>2, <1>4, FoundAtItsPlace
  <2>2. at[p].found /\ ~at[p].past /\ at[p].id = id
      BY <2>1 DEF Found
  <2> HIDE DEF at
  <2>3. Extracted(at[p]) = ItemOf(id)
      BY <2>2 DEF Extracted, ItemOf, Pointer
  <2>4. QED BY <2>2, <2>3
<1> HIDE DEF D, at
<1>5. QED BY <1>1, <1>3, <1>4 DEF InTree

(* When a command ended, that is what the property is about. *)
LEMMA EachPathAtEnd ==
    ASSUME IInv, TreeInv
    PROVE  EachPathOldOrNew
<1>1. SUFFICES ASSUME pc = "ended", ~lost, NEW p \in Paths
      PROVE  At(Tree, p) \in {At(before, p), At(after, p)}
    BY Zenon DEF EachPathOldOrNew
<1>2. PICK place : Faithful(place)
    BY <1>1 DEF TreeInv
<1>3. NamedOnce
    BY <1>1, EachIsNamedOnce
<1>4. WithNode = Dirs /\ NamesLeadToEntries
  <2>1. PICK depth : IsTree(Hierarchy, DOMAIN entry, depth)
      BY <1>1 DEF IInv, Agreement
  <2>2. QED BY <1>1, <2>1, NoNodeMissing DEF IInv
<1>5. IsPlaced(place) /\ Ends(place)
    BY <1>1, <1>2 DEF Faithful
<1>6. /\ p \in DOMAIN Tree <=> \E id \in DOMAIN entry : place[id] = p
      /\ \A id \in DOMAIN entry : place[id] = p => InTree(Tree, p, ItemOf(id))
    BY <1>3, <1>4, <1>5, TreeShows
<1>7. CASE p \in DOMAIN Tree
  <2>1. PICK id \in DOMAIN entry : place[id] = p
      BY <1>6, <1>7
  <2>2. At(Tree, p) = ItemOf(id)
      BY <1>6, <2>1 DEF InTree, At
  <2>3. InTree(before, p, ItemOf(id)) \/ InTree(after, p, ItemOf(id))
      BY <1>5, <2>1 DEF Ends
  <2>4. QED BY <2>2, <2>3 DEF InTree, At
<1>8. CASE p \notin DOMAIN Tree
  <2>1. At(Tree, p) = Absent
      BY <1>8 DEF At
  <2>2. p \notin DOMAIN before \/ p \notin DOMAIN after
      BY <1>5, <1>6, <1>8 DEF Ends
  <2>3. QED BY <2>1, <2>2 DEF At
<1>9. QED BY <1>7, <1>8
-------------------------------------------------------------------------------
(***************************************************************************)
(* What is on disk, and what is planned.                                   *)
(***************************************************************************)
DirItem == [kind |-> "dir", content |-> Absent]

LEMMA DiskIs ==
    ASSUME disk \in Disks, NEW p \in DOMAIN disk
    PROVE  /\ p \in Routes
           /\ disk[p] = [kind |-> disk[p].kind, content |-> disk[p].content]
           /\ disk[p].kind = "dir" => disk[p] = DirItem
           /\ \A q \in Routes : IsPrefix(q, p) =>
                 q \in DOMAIN disk /\ (q # p => disk[q].kind = "dir")
<1>1. p \in Routes
    BY ArgumentsAreRoutes
<1>2. /\ disk[p] = [kind |-> disk[p].kind, content |-> disk[p].content]
      /\ disk[p].kind = "dir" => disk[p].content = Absent
      /\ \A q \in Prefixes(p) \ {p} : disk[q].kind = "dir"
      /\ Prefixes(p) \subseteq DOMAIN disk
    BY ArchiveAssumption, TreesAssumption
<1>3. ASSUME NEW q \in Routes, IsPrefix(q, p)
      PROVE  q \in DOMAIN disk /\ (q # p => disk[q].kind = "dir")
  <2>1. q \in Prefixes(p)
      BY <1>1, <1>3, PrefixesAre
  <2>2. QED BY <1>2, <2>1
<1>4. disk[p].kind = "dir" => disk[p] = DirItem
    BY <1>2 DEF DirItem
<1>5. QED BY <1>1, <1>2, <1>3, <1>4

LEMMA PathsAre ==
    ASSUME NEW p \in Paths
    PROVE  p \in Routes /\ \A q \in Routes : IsPrefix(q, p) => q \in Paths
<1>1. p \in Routes /\ Prefixes(p) \subseteq Paths
    BY ArgumentsAreRoutes, TreesAssumption
<1>2. QED BY <1>1, PrefixesAre

LEMMA AgreesIs ==
    ASSUME NEW tree, NEW d, NEW p \in Routes
    PROVE  Agrees(tree, d, p) <=>
             \A q \in Routes : IsPrefix(q, p) /\ q \in DOMAIN tree => tree[q].kind = d[q].kind
    BY PrefixesAre DEF Agrees

LEMMA NearIs ==
    ASSUME NEW p \in Routes, NEW q \in Routes
    PROVE  Near(p, q) <=> IsPrefix(p, q) \/ IsPrefix(q, p)
    BY DEF Near

(* Between two steps of a command. *)
Between(place) == IInv /\ ~lost /\ NamedOnce /\ Faithful(place)

LEMMA InsertsFacts ==
    ASSUME NEW place, Between(place), cmd.do = "insert"
    PROVE  /\ NamedOnce /\ IsPlaced(place) /\ Inserts(place)
           /\ disk \in Disks /\ cmd.path \in Routes /\ cmd.args \in Seq(Routes)
           /\ stack \in Seq(Frames)
           /\ stack # <<>> => cmd.path \in DOMAIN disk
           /\ \A d \in WithNode : d \in DOMAIN entry /\ IsDir(d)
    BY DEF Between, Faithful, IInv, CommandType, Inserting, WithNode, Dirs

(* Where the directories above a path are in the archive, it is planned as soon as its
   own kind does not differ. *)
LEMMA AgreesBelow ==
    ASSUME NEW place, Between(place), cmd.do = "insert", NEW q \in Paths, q \in DOMAIN disk,
           \A r \in Routes : IsPrefix(r, q) /\ r # q => \E d \in WithNode : place[d] = r,
           q \in DOMAIN before => before[q].kind = disk[q].kind
    PROVE  Agrees(before, disk, q)
<1>1. q \in Routes /\ \A r \in Routes : IsPrefix(r, q) => r \in Paths
    BY PathsAre
<1>2. SUFFICES ASSUME NEW r \in Routes, IsPrefix(r, q), r \in DOMAIN before
      PROVE  before[r].kind = disk[r].kind
    BY <1>1, AgreesIs
<1>3. CASE r # q
  <2>1. PICK d \in WithNode : place[d] = r
      BY <1>2, <1>3
  <2>2. d \in DOMAIN entry /\ IsDir(d) /\ disk \in Disks
      BY InsertsFacts
  <2>3. entry[d].kind = before[r].kind
      BY <1>1, <1>2, <2>1, <2>2, InsertsFacts DEF Inserts, IsOldOrNew
  <2>4. disk[r].kind = "dir"
      BY <1>2, <1>3, <2>2, DiskIs
  <2>5. QED BY <2>2, <2>3, <2>4 DEF IsDir
<1>4. QED BY <1>2, <1>3

LEMMA AtWorkIsPlanned ==
    ASSUME NEW place, Between(place), pc \in InsertSteps, now.path \in Paths
    PROVE  Planned(now.path)
<1> DEFINE q == now.path
<1>1. /\ cmd.do = "insert" /\ stack # <<>> /\ disk \in Disks
      /\ now.id \in DOMAIN entry /\ q \in DOMAIN disk
    BY AtWorkFacts DEF Between
<1>2. IsPlaced(place) /\ NamedOnce /\ Inserts(place)
    BY <1>1, InsertsFacts
<1>3. place[now.id] = q /\ Near(q, cmd.path) /\ entry[now.id].kind = disk[q].kind
    BY <1>2 DEF Inserts, WorksOn
<1>4. IsOldOrNew(now.id, q)
    BY <1>1, <1>2, <1>3 DEF Inserts
<1>5. \A r \in Routes : IsPrefix(r, q) /\ r # q => \E d \in WithNode : place[d] = r
    BY <1>1, <1>2, <1>3, AbovePlaced
<1>6. q \in DOMAIN before => before[q].kind = disk[q].kind
    BY <1>3, <1>4 DEF IsOldOrNew
<1>7. Agrees(before, disk, q)
    BY <1>1, <1>5, <1>6, AgreesBelow
<1>8. QED BY <1>1, <1>2, <1>3, <1>7 DEF Inserts, Plan, Came

(* What is to be at a path and is not being worked on is there, or is planned. *)
LEMMA ThereOrPlanned ==
    ASSUME NEW place, Between(place), cmd.do = "insert", NEW p \in Paths, p \in DOMAIN after,
           \A id \in DOMAIN entry : place[id] = p => ~Unsettled(id)
    PROVE  IsThere(place, p) \/ Planned(p)
<1>1. Plan(p) /\ Inserts(place)
    BY InsertsFacts DEF Inserts
<1>2. SUFFICES ASSUME InTree(before, p, after[p])
      PROVE  IsThere(place, p)
    BY <1>1 DEF Plan
<1>3. PICK id \in DOMAIN entry : place[id] = p
    BY <1>1, <1>2 DEF Inserts, InTree
<1>4. IsOldOrNew(id, p) /\ ~Unsettled(id)
    BY <1>1, <1>3 DEF Inserts
<1>5. InTree(after, p, ItemOf(id))
    BY <1>2, <1>4 DEF IsOldOrNew, InTree
<1>6. QED BY <1>3, <1>4, <1>5 DEF IsThere

(* A directory is there as soon as it has its node block. *)
LEMMA DirectoryIsThere ==
    ASSUME NEW place, Between(place), cmd.do = "insert", NEW p \in Paths, p \in DOMAIN after,
           NEW d \in WithNode, place[d] = p, ~Unsettled(d)
    PROVE  IsThere(place, p)
<1>1. Plan(p) /\ Inserts(place) /\ d \in DOMAIN entry /\ IsDir(d) /\ disk \in Disks
    BY InsertsFacts DEF Inserts
<1>2. IsOldOrNew(d, p) /\ ItemOf(d) = DirItem
    BY <1>1 DEF Inserts, ItemOf, DirItem
<1>3. SUFFICES InTree(after, p, ItemOf(d))
    BY <1>1 DEF IsThere
<1>4. SUFFICES ASSUME InTree(before, p, ItemOf(d)), ~InTree(before, p, after[p])
      PROVE  InTree(after, p, ItemOf(d))
    BY <1>2 DEF IsOldOrNew, InTree
<1>5. Planned(p)
    BY <1>1, <1>4 DEF Plan
<1>6. p \in Routes
    BY PathsAre
<1>7. before[p].kind = disk[p].kind /\ p \in DOMAIN disk
    BY <1>4, <1>5, <1>6, AgreesIs, PrefixOrder DEF Planned, InTree
<1>8. disk[p] = DirItem
    BY <1>1, <1>2, <1>4, <1>7, DiskIs DEF InTree, DirItem
<1>9. QED BY <1>2, <1>5, <1>8 DEF Planned

-------------------------------------------------------------------------------
(***************************************************************************)
(* Entering directories: what is below one and near the path at work is    *)
(* below one of the names left in it.                                      *)
(***************************************************************************)
LEMMA NamesBelowLead ==
    ASSUME disk \in Disks, NEW q \in Routes, NEW p \in Routes, p \in DOMAIN disk,
           IsPrefix(q, p), q # p
    PROVE  \E n \in NamesBelow(q) : n \in Components /\ IsPrefix(Append(q, n), p)
<1>1. PICK n \in Components : IsPrefix(Append(q, n), p)
    BY NextNameOn
<1>2. Append(q, n) \in DOMAIN disk /\ Append(q, n) # <<>> /\ Front(Append(q, n)) = q
      /\ Last(Append(q, n)) = n
    BY <1>1, AppendIs, DiskIs
<1>3. n \in NamesBelow(q)
    BY <1>2 DEF NamesBelow
<1>4. QED BY <1>1, <1>3

LEMMA ToInsertLeads ==
    ASSUME disk \in Disks, cmd.path \in Routes, NEW q \in Routes, NEW p \in Routes,
           p \in DOMAIN disk, Near(p, cmd.path), IsPrefix(q, p), q # p
    PROVE  \E n \in ToInsert(q) : IsPrefix(Append(q, n), p)
<1>1. CASE IsStrictPrefix(q, cmd.path)
  <2> DEFINE n == cmd.path[Len(q) + 1]
  <2>1. IsPrefix(q, cmd.path) /\ q # cmd.path
      BY <1>1 DEF IsStrictPrefix
  <2>2. n \in Components /\ IsPrefix(Append(q, n), cmd.path) /\ Append(q, n) \in Routes
      BY <2>1, NextNameOn, AppendIs
  <2>3. IsPrefix(Append(q, n), p)
    <3>1. CASE IsPrefix(cmd.path, p)
        BY <2>2, <3>1, PrefixOrder
    <3>2. CASE IsPrefix(p, cmd.path)
      <4>1. PICK m \in Components : IsPrefix(Append(q, m), p)
          BY NextNameOn
      <4>2. IsPrefix(Append(q, m), cmd.path)
          BY <3>2, <4>1, AppendIs, PrefixOrder
      <4>3. m = n
          BY <2>1, <4>2, NextNameOn
      <4>4. QED BY <4>1, <4>3
    <3>3. QED BY <3>1, <3>2 DEF Near
  <2>4. QED BY <1>1, <2>3 DEF ToInsert
<1>2. CASE ~IsStrictPrefix(q, cmd.path)
    BY <1>2, NamesBelowLead DEF ToInsert
<1>3. QED BY <1>1, <1>2

LEMMA ToInsertIsNear ==
    ASSUME disk \in Disks, cmd.path \in DOMAIN disk, NEW q \in Routes, Near(q, cmd.path),
           NEW n \in ToInsert(q)
    PROVE  Near(Append(q, n), cmd.path)
<1>1. cmd.path \in Routes /\ n \in Components
    BY ArgumentsAreRoutes, ToInsertIsOnDisk
<1>2. CASE IsStrictPrefix(q, cmd.path)
    BY <1>1, <1>2, NextNameOn DEF ToInsert, IsStrictPrefix, Near
<1>3. CASE ~IsStrictPrefix(q, cmd.path)
  <2>1. IsPrefix(cmd.path, q)
      BY <1>1, <1>3, PrefixOrder DEF IsStrictPrefix, Near
  <2>2. QED BY <1>1, <2>1, AppendIs DEF Near
<1>4. QED BY <1>2, <1>3

-------------------------------------------------------------------------------
(***************************************************************************)
(* Steps that change what is left to do, and nothing in the archive.       *)
(***************************************************************************)
LEMMA SamePlaces ==
    ASSUME NEW place, IsPlaced(place), UNCHANGED <<entry, node>>, WithNode' = WithNode
    PROVE  IsPlaced(place)'
    BY DEF IsPlaced, DirOf

LEMMA MovesOn ==
    ASSUME NEW place, Between(place), cmd.do = "insert", pc = "run",
           UNCHANGED <<disk, entry, node, data, now, pc, before, after>>, cmd'.do = "insert",
           StackWell(place, stack', cmd'.path),
           \A p \in Paths : ToCome(p)' \/ Came(p)' => ToCome(p) \/ Came(p),
           \A p \in Paths \cap DOMAIN after :
              IsThere(place, p) \/ (InStack(p, stack') /\ Near(p, cmd'.path)) \/ ToCome(p)'
    PROVE  Faithful(place)'
<1>1. IsPlaced(place) /\ Inserts(place) /\ NamedOnce
    BY InsertsFacts
<1>2. IsPlaced(place)'
    BY <1>1, SamePlaces, SameTree
<1>3. \A id : IsDir(id)' = IsDir(id) /\ ItemOf(id)' = ItemOf(id) /\ Unsettled(id)' = Unsettled(id)
    BY DEF ItemOf, IsDir, Pointer, Unsettled
<1>4. StackWell(place, stack, cmd.path)'
    BY DEF StackWell
<1>5. WorksOn(place)'
    BY DEF WorksOn, InsertSteps
<1>6. ASSUME NEW p \in Paths PROVE Plan(p)'
  <2>1. Planned(p)' <=> Planned(p)
      BY DEF Planned, InTree, Agrees
  <2>2. Agrees(before, disk, p)' <=> Agrees(before, disk, p)
      BY DEF Agrees
  <2>3. InTree(before, p, after[p])' <=> InTree(before, p, after[p])
      BY DEF InTree
  <2>4. Plan(p)
      BY <1>1 DEF Inserts
  <2>5. QED BY <2>1, <2>2, <2>3, <2>4 DEF Plan
<1>7. ASSUME NEW id \in DOMAIN entry', place[id] \in Paths
      PROVE  IsOldOrNew(id, place[id])'
  <2>1. IsOldOrNew(id, place[id])
      BY <1>1, <1>7 DEF Inserts
  <2>2. QED BY <1>3, <2>1 DEF IsOldOrNew, InTree
<1>8. \A p \in Paths \cap DOMAIN before' : \E id \in DOMAIN entry' : place[id] = p
    BY <1>1 DEF Inserts
<1>9. ASSUME NEW p \in Paths \cap DOMAIN after'
      PROVE  (IsThere(place, p) \/ (Pending(p) /\ Near(p, cmd.path)) \/ ToCome(p))'
  <2>1. IsThere(place, p)' <=> IsThere(place, p)
      BY <1>3 DEF IsThere, InTree
  <2>2. InStack(p, stack') => Pending(p)'
      BY DEF Pending, InStack
  <2>3. QED BY <2>1, <2>2
<1>10. Inserts(place)'
    BY <1>4, <1>5, <1>6, <1>7, <1>8, <1>9 DEF Inserts
<1>11. QED BY <1>2, <1>10 DEF Faithful

LEMMA NameTaken ==
    ASSUME stack \in Seq(Frames), stack # <<>>, NEW name, NEW p, InStack(p, stack)
    PROVE  InStack(p, WithoutName(name)) \/ IsPrefix(Append(Top.path, name), p)
<1> DEFINE s == WithoutName(name)
<1>1. /\ Len(s) = Len(stack) /\ Len(stack) \in Nat \ {0} /\ Top = stack[Len(stack)]
      /\ \A i \in 1 .. Len(stack) : i # Len(stack) => s[i] = stack[i]
      /\ s[Len(s)].path = Top.path /\ s[Len(s)].left = Top.left \ {name}
    BY FrameWithoutName, TopIsFrame
<1> HIDE DEF s
<1>2. PICK i \in 1 .. Len(stack) : PendingIn(p, stack[i])
    BY DEF InStack
<1>3. CASE i # Len(stack)
  <2>1. PendingIn(p, s[i])
      BY <1>1, <1>2, <1>3
  <2>2. QED BY <1>1, <2>1 DEF InStack, s
<1>4. CASE i = Len(stack)
  <2>1. PICK n \in Top.left : IsPrefix(Append(Top.path, n), p)
      BY <1>1, <1>2, <1>4 DEF PendingIn
  <2>2. CASE n = name
      BY <2>1, <2>2
  <2>3. CASE n # name
    <3>1. PendingIn(p, s[Len(s)])
        BY <1>1, <2>1, <2>3 DEF PendingIn
    <3>2. Len(s) \in 1 .. Len(s)
        BY <1>1
    <3>3. QED BY <3>1, <3>2 DEF InStack, s
  <2>4. QED BY <2>2, <2>3
<1>5. QED BY <1>3, <1>4

LEMMA WithoutNameIsWell ==
    ASSUME stack \in Seq(Frames), stack # <<>>, NEW name, NEW place, NEW path,
           StackWell(place, stack, path)
    PROVE  StackWell(place, WithoutName(name), path)
<1> DEFINE s == WithoutName(name)
<1>1. /\ Len(s) = Len(stack) /\ Len(stack) \in Nat \ {0} /\ Top = stack[Len(stack)]
      /\ \A i \in 1 .. Len(stack) : i # Len(stack) => s[i] = stack[i]
      /\ s[Len(s)].path = Top.path /\ s[Len(s)].id = Top.id /\ s[Len(s)].left = Top.left \ {name}
    BY FrameWithoutName, TopIsFrame
<1> HIDE DEF s
<1>2. ASSUME NEW i \in 1 .. Len(s)
      PROVE  /\ place[s[i].id] = s[i].path
             /\ \A n \in s[i].left : Near(Append(s[i].path, n), path)
  <2>1. /\ place[stack[i].id] = stack[i].path
        /\ \A n \in stack[i].left : Near(Append(stack[i].path, n), path)
      BY <1>1 DEF StackWell
  <2>2. CASE i # Len(stack)
      BY <1>1, <2>1, <2>2
  <2>3. CASE i = Len(stack)
      BY <1>1, <2>1, <2>3
  <2>4. QED BY <2>2, <2>3
<1>3. QED BY <1>2 DEF StackWell, s

LEMMA EnteredIsWell ==
    ASSUME disk \in Disks, cmd.path \in DOMAIN disk, NEW s \in Seq(Frames),
           NEW q \in Routes, Near(q, cmd.path), NEW id \in Nat, Top.id \in Nat, NEW place
    PROVE  /\ place[id] = q /\ StackWell(place, s, cmd.path) =>
                StackWell(place, Enter(s, q, id), cmd.path)
           /\ \A p : InStack(p, s) => InStack(p, Enter(s, q, id))
           /\ \A p \in DOMAIN disk :
                Near(p, cmd.path) /\ IsPrefix(q, p) /\ q # p => InStack(p, Enter(s, q, id))
<1> DEFINE f == Frame(q, id, Top.id, ToInsert(q))
           t == Append(s, f)
<1>1. ToInsert(q) \subseteq Components
    BY ToInsertIsOnDisk
<1>2. f \in Frames /\ f.id = id /\ f.path = q /\ f.left = ToInsert(q)
    BY <1>1 DEF Frame, Frames
<1>3. Enter(s, q, id) = t
    BY DEF Enter
<1> HIDE DEF f
<1>4. /\ Len(s) \in Nat /\ Len(t) = Len(s) + 1
      /\ \A i \in 1 .. Len(s) : t[i] = s[i]
      /\ t[Len(s) + 1] = f
    BY <1>2, FrameAdded
<1> HIDE DEF t
<1>5. ASSUME place[id] = q, StackWell(place, s, cmd.path)
      PROVE  StackWell(place, t, cmd.path)
  <2>1. \A n \in f.left : Near(Append(f.path, n), cmd.path)
      BY <1>2, ToInsertIsNear
  <2>2. ASSUME NEW i \in 1 .. Len(t)
        PROVE  /\ place[t[i].id] = t[i].path
               /\ \A n \in t[i].left : Near(Append(t[i].path, n), cmd.path)
    <3>1. CASE i = Len(s) + 1
        BY <1>2, <1>4, <1>5, <2>1, <3>1
    <3>2. CASE i # Len(s) + 1
      <4>1. i \in 1 .. Len(s) /\ t[i] = s[i]
          BY <1>4, <3>2
      <4>2. QED BY <1>5, <4>1 DEF StackWell
    <3>3. QED BY <3>1, <3>2
  <2>3. QED BY <2>2 DEF StackWell
<1>6. ASSUME NEW p, InStack(p, s) PROVE InStack(p, t)
  <2>1. PICK i \in 1 .. Len(s) : PendingIn(p, s[i])
      BY <1>6 DEF InStack
  <2>2. i \in 1 .. Len(t) /\ t[i] = s[i]
      BY <1>4
  <2>3. QED BY <2>1, <2>2 DEF InStack
<1>7. ASSUME NEW p \in DOMAIN disk, Near(p, cmd.path), IsPrefix(q, p), q # p
      PROVE  InStack(p, t)
  <2>1. p \in Routes /\ cmd.path \in Routes
      BY DiskIs
  <2>2. PICK n \in ToInsert(q) : IsPrefix(Append(q, n), p)
      BY <1>7, <2>1, ToInsertLeads
  <2>3. PendingIn(p, f)
      BY <1>2, <2>2 DEF PendingIn
  <2>4. Len(s) + 1 \in 1 .. Len(t)
      BY <1>4
  <2>5. QED BY <1>4, <2>3, <2>4 DEF InStack
<1>8. QED BY <1>3, <1>5, <1>6, <1>7

-------------------------------------------------------------------------------
(* The innermost frame is at its place. *)
LEMMA TopIsPlaced ==
    ASSUME NEW place, Between(place), cmd.do = "insert", pc = "run", stack # <<>>
    PROVE  /\ place[Top.id] = Top.path /\ Top.path \in Routes /\ Top.id \in WithNode
           /\ Top.id \in Nat /\ Top.left \subseteq Components
           /\ \A name \in Top.left :
                /\ Append(Top.path, name) \in Routes /\ Append(Top.path, name) \in DOMAIN disk
                /\ Near(Append(Top.path, name), cmd.path)
           /\ \A name \in DOMAIN DirOf(Top.id) :
                /\ DirOf(Top.id)[name] \in DOMAIN entry /\ DirOf(Top.id)[name] \in Nat
                /\ place[DirOf(Top.id)[name]] = Append(Top.path, name)
<1>1. /\ NamedOnce /\ IsPlaced(place) /\ Inserts(place) /\ stack \in Seq(Frames)
      /\ DOMAIN entry \subseteq Nat
    BY InsertsFacts DEF Between, IInv, StoredType
<1>2. Len(stack) \in Nat \ {0} /\ Top = stack[Len(stack)]
    BY <1>1, TopIsFrame
<1>3. /\ place[Top.id] = Top.path
      /\ \A name \in Top.left : Near(Append(Top.path, name), cmd.path)
    BY <1>1, <1>2 DEF Inserts, StackWell
<1>4. /\ Top.id \in WithNode /\ Top.path \in Routes /\ Top.left \subseteq Components
      /\ \A name \in Top.left : Append(Top.path, name) \in DOMAIN disk
    BY InsertingFacts DEF Between
<1>5. \A name \in Top.left : Append(Top.path, name) \in Routes
    BY <1>4, AppendIs
<1>6. \A name \in DOMAIN DirOf(Top.id) :
         DirOf(Top.id)[name] \in DOMAIN entry /\ place[DirOf(Top.id)[name]] = Append(Top.path, name)
    BY <1>1, <1>3, <1>4 DEF NamedOnce, IsPlaced
<1>7. QED BY <1>1, <1>3, <1>4, <1>5, <1>6 DEF NamedOnce

LEMMA NothingUnsettled ==
    ASSUME pc = "run"
    PROVE  /\ \A id : ~Unsettled(id)
           /\ \A p : Pending(p) <=> InStack(p, stack)
    BY DEF Unsettled, Pending, InsertSteps

LEMMA RefuseIsFaithful ==
    ASSUME NEW place, Between(place), NextName, NEW name \in Top.left, RefuseEntry(name)
    PROVE  Faithful(place)'
<1> DEFINE q == Append(Top.path, name)
           id == DirOf(Top.id)[name]
<1>1. /\ pc = "run" /\ cmd.do = "insert" /\ stack # <<>>
      /\ name \in DOMAIN DirOf(Top.id) /\ entry[id].kind # disk[q].kind
      /\ stack' = WithoutName(name)
      /\ UNCHANGED <<disk, entry, node, data, cmd, now, pc, before, after>>
    BY DEF NextName, RefuseEntry
<1>2. /\ NamedOnce /\ IsPlaced(place) /\ Inserts(place) /\ stack \in Seq(Frames)
    BY <1>1, InsertsFacts
<1>3. q \in Routes /\ id \in DOMAIN entry /\ place[id] = q
    BY <1>1, TopIsPlaced
<1> HIDE DEF q, id
<1>4. StackWell(place, stack', cmd'.path)
    BY <1>1, <1>2, WithoutNameIsWell DEF Inserts
<1>5. \A p \in Paths : ToCome(p)' \/ Came(p)' => ToCome(p) \/ Came(p)
    BY <1>1 DEF ToCome, Came, Near
<1>6. ASSUME NEW p \in Paths \cap DOMAIN after
      PROVE  IsThere(place, p) \/ (InStack(p, stack') /\ Near(p, cmd'.path)) \/ ToCome(p)'
  <2>1. IsThere(place, p) \/ (InStack(p, stack) /\ Near(p, cmd.path)) \/ ToCome(p)
      BY <1>1, <1>2, NothingUnsettled DEF Inserts
  <2>2. ToCome(p)' <=> ToCome(p)
      BY <1>1 DEF ToCome
  <2>3. SUFFICES ASSUME IsPrefix(q, p), Planned(p)
        PROVE  FALSE
    <3>1. InStack(p, stack) => InStack(p, stack') \/ IsPrefix(q, p)
        BY <1>1, <1>2, NameTaken DEF q
    <3>2. IsThere(place, p) \/ Planned(p)
        BY <1>1, NothingUnsettled, ThereOrPlanned
    <3>3. QED BY <1>1, <2>1, <2>2, <3>1, <3>2
  <2>4. p \in Routes /\ q \in Paths
      BY <1>3, <2>3, PathsAre
  <2>5. IsOldOrNew(id, q) /\ Plan(q)
      BY <1>2, <1>3, <2>4 DEF Inserts
  <2>6. q \in DOMAIN before => before[q].kind = disk[q].kind
      BY <1>3, <2>3, <2>4, AgreesIs DEF Planned
  <2>7. q \notin DOMAIN before => InTree(after, q, disk[q])
      BY <2>5 DEF IsOldOrNew, Plan, Planned, InTree
  <2>8. QED BY <1>1, <2>5, <2>6, <2>7 DEF IsOldOrNew, InTree
<1>7. QED BY <1>1, <1>4, <1>5, <1>6, MovesOn

LEMMA LeaveIsFaithful ==
    ASSUME NEW place, Between(place), LeaveDirectory
    PROVE  Faithful(place)'
<1>1. /\ pc = "run" /\ cmd.do = "insert" /\ stack # <<>> /\ Top.left = {}
      /\ stack' = Front(stack)
      /\ UNCHANGED <<disk, entry, node, data, cmd, now, pc, before, after>>
    BY DEF LeaveDirectory
<1>2. /\ NamedOnce /\ IsPlaced(place) /\ Inserts(place) /\ stack \in Seq(Frames)
    BY <1>1, InsertsFacts
<1>3. /\ Len(stack) \in Nat \ {0} /\ Len(stack') = Len(stack) - 1 /\ Top = stack[Len(stack)]
      /\ \A i \in 1 .. Len(stack) - 1 : stack'[i] = stack[i]
    BY <1>1, <1>2, FrameLeft, TopIsFrame
<1>4. StackWell(place, stack', cmd'.path)
  <2>1. \A i \in 1 .. Len(stack') : i \in 1 .. Len(stack) /\ stack'[i] = stack[i]
      BY <1>3
  <2>2. StackWell(place, stack, cmd.path)
      BY <1>2 DEF Inserts
  <2>3. QED BY <1>1, <2>1, <2>2 DEF StackWell
<1>5. \A p \in Paths : ToCome(p)' \/ Came(p)' => ToCome(p) \/ Came(p)
    BY <1>1 DEF ToCome, Came, Near
<1>6. ASSUME NEW p \in Paths \cap DOMAIN after
      PROVE  IsThere(place, p) \/ (InStack(p, stack') /\ Near(p, cmd'.path)) \/ ToCome(p)'
  <2>1. IsThere(place, p) \/ (InStack(p, stack) /\ Near(p, cmd.path)) \/ ToCome(p)
      BY <1>1, <1>2, NothingUnsettled DEF Inserts
  <2>2. ToCome(p)' <=> ToCome(p)
      BY <1>1 DEF ToCome
  <2>3. ASSUME InStack(p, stack) PROVE InStack(p, stack')
    <3>1. PICK i \in 1 .. Len(stack) : PendingIn(p, stack[i])
        BY <2>3 DEF InStack
    <3>2. i # Len(stack)
        BY <1>1, <1>3, <3>1 DEF PendingIn
    <3>3. i \in 1 .. Len(stack') /\ stack'[i] = stack[i]
        BY <1>3, <3>2
    <3>4. PendingIn(p, stack'[i])
        BY <3>1, <3>3
    <3>5. QED BY <3>3, <3>4 DEF InStack
  <2>4. QED BY <1>1, <2>1, <2>2, <2>3
<1>7. QED BY <1>1, <1>4, <1>5, <1>6, MovesOn

LEMMA UpdateDirIsFaithful ==
    ASSUME NEW place, Between(place), NextName, NEW name \in Top.left, UpdateEntry(name),
           IsDir(DirOf(Top.id)[name])
    PROVE  Faithful(place)'
<1> DEFINE q == Append(Top.path, name)
           id == DirOf(Top.id)[name]
           s == WithoutName(name)
<1>1. /\ pc = "run" /\ cmd.do = "insert" /\ stack # <<>>
      /\ name \in DOMAIN DirOf(Top.id) /\ IsDir(id)
      /\ stack' = Enter(s, q, id)
      /\ UNCHANGED <<disk, entry, node, data, cmd, now, pc, before, after>>
    BY DEF NextName, UpdateEntry
<1>2. /\ NamedOnce /\ IsPlaced(place) /\ Inserts(place) /\ stack \in Seq(Frames)
      /\ disk \in Disks /\ cmd.path \in DOMAIN disk
    BY <1>1, InsertsFacts
<1>3. /\ q \in Routes /\ id \in DOMAIN entry /\ id \in Nat /\ place[id] = q /\ Top.id \in Nat
      /\ Near(q, cmd.path)
    BY <1>1, TopIsPlaced
<1> HIDE DEF q, id
<1>4. s \in Seq(Frames) /\ StackWell(place, s, cmd.path)
    BY <1>1, <1>2, WithoutNameIsWell, FrameWithoutName DEF Inserts
<1> HIDE DEF s
<1>5. /\ StackWell(place, stack', cmd'.path)
      /\ \A p : InStack(p, s) => InStack(p, stack')
      /\ \A p \in DOMAIN disk :
           Near(p, cmd.path) /\ IsPrefix(q, p) /\ q # p => InStack(p, stack')
    BY <1>1, <1>2, <1>3, <1>4, EnteredIsWell
<1>6. \A p \in Paths : ToCome(p)' \/ Came(p)' => ToCome(p) \/ Came(p)
    BY <1>1 DEF ToCome, Came, Near
<1>7. ASSUME NEW p \in Paths \cap DOMAIN after
      PROVE  IsThere(place, p) \/ (InStack(p, stack') /\ Near(p, cmd'.path)) \/ ToCome(p)'
  <2>1. IsThere(place, p) \/ (InStack(p, stack) /\ Near(p, cmd.path)) \/ ToCome(p)
      BY <1>1, <1>2, NothingUnsettled DEF Inserts
  <2>2. ToCome(p)' <=> ToCome(p)
      BY <1>1 DEF ToCome
  <2>3. InStack(p, stack) => InStack(p, stack') \/ IsPrefix(q, p)
      BY <1>1, <1>2, <1>5, NameTaken DEF q, s
  <2>4. ASSUME IsPrefix(q, p), Near(p, cmd.path)
        PROVE  IsThere(place, p) \/ InStack(p, stack')
    <3>1. CASE p = q
      <4>1. id \in WithNode
          BY <1>1, <1>3 DEF WithNode, Dirs
      <4>2. QED BY <1>1, <1>3, <3>1, <4>1, NothingUnsettled, DirectoryIsThere
    <3>2. CASE p # q
      <4>1. IsThere(place, p) \/ Planned(p)
          BY <1>1, NothingUnsettled, ThereOrPlanned
      <4>2. QED BY <1>5, <2>4, <3>2, <4>1 DEF Planned
    <3>3. QED BY <3>1, <3>2
  <2>5. QED BY <1>1, <2>1, <2>2, <2>3, <2>4
<1>8. QED BY <1>1, <1>5, <1>6, <1>7, MovesOn

LEMMA FirstNameOn ==
    ASSUME NEW p \in Routes, p # <<>>
    PROVE  /\ Head(p) \in Components
           /\ \A n \in Components : IsPrefix(Append(<<>>, n), p) <=> n = Head(p)
<1>1. PICK e \in Routes : e = <<>> /\ IsPrefix(e, p) /\ Len(e) = 0
    BY PrefixOrder, RouteIs
<1>2. /\ p[Len(e) + 1] \in Components
      /\ \A n \in Components : IsPrefix(Append(e, n), p) <=> n = p[Len(e) + 1]
    BY <1>1, NextNameOn
<1>3. p[1] \in Components /\ \A n \in Components : IsPrefix(Append(e, n), p) <=> n = p[1]
    BY <1>1, <1>2
<1>4. Head(p) = p[1]
    BY DEF Routes
<1>5. QED BY <1>1, <1>3, <1>4

LEMMA NextArgumentIsFaithful ==
    ASSUME NEW place, Between(place), NextArgument
    PROVE  Faithful(place)'
<1> DEFINE path == Head(cmd.args)
           left == IF path = <<>> THEN NamesBelow(<<>>) ELSE {Head(path)}
           f == Frame(<<>>, Root, Root, left)
<1>1. /\ pc = "run" /\ cmd.do = "insert" /\ cmd.args # <<>> /\ stack = <<>>
      /\ cmd' = [cmd EXCEPT !.args = Tail(cmd.args), !.path = path]
      /\ stack' = IF path \notin DOMAIN disk THEN <<>> ELSE <<f>>
      /\ UNCHANGED <<disk, entry, node, data, now, pc, before, after>>
    BY DEF NextArgument, ArgumentsLeft
<1>2. /\ NamedOnce /\ IsPlaced(place) /\ Inserts(place)
      /\ disk \in Disks /\ cmd.args \in Seq(Routes)
    BY <1>1, InsertsFacts
<1>3. /\ path \in Routes /\ Len(cmd.args) \in Nat \ {0} /\ path = cmd.args[1]
      /\ Len(Tail(cmd.args)) = Len(cmd.args) - 1
      /\ \A i \in 1 .. Len(cmd.args) - 1 : Tail(cmd.args)[i] = cmd.args[i + 1]
    BY <1>1, <1>2, HeadTailProperties, EmptySeq
<1>4. cmd'.do = "insert" /\ cmd'.path = path /\ cmd'.args = Tail(cmd.args)
    BY <1>1 DEF Between, IInv, CommandType
<1> HIDE DEF path
<1>5. \A p : ToCome(p) => ToCome(p)' \/ (path \in DOMAIN disk /\ Near(p, path))
  <2>1. SUFFICES ASSUME NEW p, NEW i \in 1 .. Len(cmd.args), cmd.args[i] \in DOMAIN disk,
                        Near(p, cmd.args[i]), i # 1
        PROVE  ToCome(p)'
      BY <1>3 DEF ToCome
  <2>2. PICK j \in 1 .. Len(cmd.args) - 1 : i = j + 1
      BY <1>3, <2>1
  <2>3. cmd'.args[j] = cmd.args[i] /\ j \in 1 .. Len(cmd'.args)
      BY <1>3, <1>4, <2>2
  <2>4. Near(p, cmd'.args[j]) /\ cmd'.args[j] \in DOMAIN disk'
      BY <1>1, <2>1, <2>3
  <2>5. QED BY <2>3, <2>4 DEF ToCome, Near
<1>6. \A p : ToCome(p)' => ToCome(p)
  <2>1. SUFFICES ASSUME NEW p, NEW j \in 1 .. Len(cmd'.args), cmd'.args[j] \in DOMAIN disk,
                        Near(p, cmd'.args[j])
        PROVE  ToCome(p)
      BY <1>1 DEF ToCome, Near
  <2>2. j + 1 \in 1 .. Len(cmd.args) /\ cmd'.args[j] = cmd.args[j + 1]
      BY <1>3, <1>4
  <2>3. QED BY <2>1, <2>2 DEF ToCome
<1>7. \A p : Came(p)' => ToCome(p)
  <2>1. SUFFICES ASSUME NEW p, Came(p)' PROVE ToCome(p)
      OBVIOUS
  <2>2. stack' # <<>> /\ Near(p, path)
      BY <1>4, <2>1 DEF Came, Near
  <2>3. path \in DOMAIN disk /\ 1 \in 1 .. Len(cmd.args)
      BY <1>1, <1>3, <2>2
  <2>4. QED BY <1>3, <2>2, <2>3 DEF ToCome
<1>8. Len(stack) = 0
    BY <1>1, EmptySeq
<1>9. \A p \in Paths \cap DOMAIN after : IsThere(place, p) \/ ToCome(p)
    BY <1>1, <1>2, <1>8, NothingUnsettled DEF Inserts, InStack
<1>10. CASE path \notin DOMAIN disk
  <2>1. stack' = <<>> /\ Len(stack') = 0
      BY <1>1, <1>10, EmptySeq
  <2>2. StackWell(place, stack', cmd'.path)
      BY <2>1 DEF StackWell
  <2>3. QED BY <1>1, <1>4, <1>5, <1>6, <1>7, <1>9, <1>10, <2>2, MovesOn
<1>11. CASE path \in DOMAIN disk
  <2>1. left \subseteq Components /\ \A n \in left : Near(Append(<<>>, n), path)
    <3>1. <<>> \in Routes
        BY PrefixOrder
    <3>2. CASE path = <<>>
      <4>1. left \subseteq Components
          BY <1>2, <3>1, <3>2, NamesBelowAreOnDisk
      <4>2. \A n \in left : IsPrefix(<<>>, Append(<<>>, n))
          BY <3>1, <4>1, AppendIs
      <4>3. QED BY <3>2, <4>1, <4>2 DEF Near
    <3>3. CASE path # <<>>
      <4>1. Head(path) \in Components /\ IsPrefix(Append(<<>>, Head(path)), path)
          BY <1>3, <3>3, FirstNameOn
      <4>2. QED BY <3>3, <4>1 DEF Near
    <3>4. QED BY <3>2, <3>3
  <2>2. ASSUME NEW p \in DOMAIN disk, p # <<>>, Near(p, path)
        PROVE  PendingIn(p, f)
    <3>1. <<>> \in Routes /\ p \in Routes /\ IsPrefix(<<>>, p) /\ IsPrefix(<<>>, path)
        BY <1>2, <1>3, DiskIs, PrefixOrder
    <3>2. \E n \in left : IsPrefix(Append(<<>>, n), p)
      <4>1. CASE path = <<>>
          BY <1>2, <2>2, <3>1, <4>1, NamesBelowLead
      <4>2. CASE path # <<>>
        <5>1. Head(p) \in Components /\ IsPrefix(Append(<<>>, Head(p)), p)
            BY <2>2, <3>1, FirstNameOn
        <5>2. Head(path) \in Components /\ IsPrefix(Append(<<>>, Head(path)), path)
            BY <1>3, <4>2, FirstNameOn
        <5>3. Append(<<>>, Head(path)) \in Routes /\ Append(<<>>, Head(p)) \in Routes
            BY <3>1, <5>1, <5>2, AppendIs
        <5>4. IsPrefix(Append(<<>>, Head(path)), p)
          <6>1. CASE IsPrefix(path, p)
              BY <1>3, <3>1, <5>2, <5>3, <6>1, PrefixOrder
          <6>2. CASE IsPrefix(p, path)
            <7>1. IsPrefix(Append(<<>>, Head(p)), path)
                BY <1>3, <3>1, <5>1, <5>3, <6>2, PrefixOrder
            <7>2. Head(p) = Head(path)
                BY <1>3, <4>2, <5>1, <7>1, FirstNameOn
            <7>3. QED BY <5>1, <7>2
          <6>3. QED BY <2>2, <6>1, <6>2 DEF Near
        <5>5. QED BY <4>2, <5>4
      <4>3. QED BY <4>1, <4>2
    <3>3. QED BY <3>2 DEF PendingIn, Frame
  <2> HIDE DEF left
  <2>3. f.id = Root /\ f.left = left /\ f.path = <<>>
      BY DEF Frame
  <2>4. stack' = <<f>>
      BY <1>1, <1>11
  <2> HIDE DEF f
  <2>5. Len(stack') = 1 /\ stack'[1] = f
      BY <2>4
  <2>6. StackWell(place, stack', cmd'.path)
    <3>1. place[f.id] = f.path /\ \A n \in f.left : Near(Append(f.path, n), path)
        BY <1>2, <2>1, <2>3 DEF IsPlaced
    <3>2. \A i \in 1 .. Len(stack') : stack'[i] = f
        BY <2>5
    <3>3. QED BY <1>4, <3>1, <3>2 DEF StackWell
  <2>7. ASSUME NEW p \in Paths \cap DOMAIN after
        PROVE  IsThere(place, p) \/ (InStack(p, stack') /\ Near(p, cmd'.path)) \/ ToCome(p)'
    <3>1. SUFFICES ASSUME Near(p, path), ~IsThere(place, p)
          PROVE  InStack(p, stack')
        BY <1>4, <1>5, <1>9
    <3>2. Planned(p)
        BY <1>1, <3>1, NothingUnsettled, ThereOrPlanned
    <3>3. p # <<>>
      <4>1. SUFFICES ASSUME p = <<>> PROVE IsThere(place, p)
          BY <3>1
      <4>2. Root \in WithNode /\ place[Root] = p
          BY <1>2, <4>1 DEF NamedOnce, IsPlaced
      <4>3. QED BY <1>1, <4>2, NothingUnsettled, DirectoryIsThere
    <3>4. PendingIn(p, stack'[1]) /\ 1 \in 1 .. Len(stack')
        BY <2>2, <2>5, <3>1, <3>2, <3>3 DEF Planned
    <3>5. QED BY <3>4 DEF InStack
  <2>8. \A p \in Paths : ToCome(p)' \/ Came(p)' => ToCome(p) \/ Came(p)
      BY <1>6, <1>7
  <2>9. QED BY <1>1, <1>4, <2>6, <2>7, <2>8, MovesOn
<1>12. QED BY <1>10, <1>11
-------------------------------------------------------------------------------
(***************************************************************************)
(* Steps at one entry, w, at its place q: a new entry, one that is worked  *)
(* on, or one that is done.                                                *)
(***************************************************************************)
LEMMA SamePlan ==
    ASSUME NEW place, Between(place), cmd.do = "insert", UNCHANGED <<disk, cmd, before, after>>,
           stack' # <<>> => stack # <<>>, NEW p \in Paths
    PROVE  Plan(p)' /\ (ToCome(p)' <=> ToCome(p)) /\ (Planned(p)' <=> Planned(p))
<1>1. Planned(p)' <=> Planned(p)
    BY DEF Planned, InTree, Agrees
<1>2. Agrees(before, disk, p)' <=> Agrees(before, disk, p)
    BY DEF Agrees
<1>3. InTree(before, p, after[p])' <=> InTree(before, p, after[p])
    BY DEF InTree
<1>4. ToCome(p)' <=> ToCome(p)
    BY DEF ToCome, Near
<1>5. Came(p)' => Came(p)
    BY DEF Came, Near
<1>6. Plan(p)
    BY InsertsFacts DEF Inserts
<1>7. QED BY <1>1, <1>2, <1>3, <1>4, <1>5, <1>6 DEF Plan

LEMMA WorkGoesOn ==
    ASSUME NEW place, Between(place), cmd.do = "insert",
           UNCHANGED <<disk, cmd, before, after>>, stack' # <<>> => stack # <<>>, pc' # "ended",
           NEW w, NEW q \in Routes, NEW placed,
           DOMAIN entry' = DOMAIN entry \cup {w},
           \A id \in DOMAIN entry : placed[id] = place[id], placed[w] = q,
           \A id \in DOMAIN entry \ {w} :
              /\ entry'[id].kind = entry[id].kind /\ ItemOf(id)' = ItemOf(id)
              /\ ~Unsettled(id) /\ ~Unsettled(id)',
           IsPlaced(placed)', StackWell(placed, stack', cmd.path), WorksOn(placed)',
           Near(q, cmd.path),
           q \in Paths => IsOldOrNew(w, q)',
           q \in Paths \cap DOMAIN after => IsThere(placed, q)' \/ Pending(q)',
           \A p \in Paths \cap DOMAIN after :
              p # q /\ Near(p, cmd.path) /\ Pending(p) => IsThere(placed, p)' \/ Pending(p)'
    PROVE  Faithful(placed)'
<1>1. Inserts(place)
    BY InsertsFacts
<1>2. StackWell(placed, stack, cmd.path)'
    BY DEF StackWell, Near
<1>3. \A p \in Paths : Plan(p)'
    BY SamePlan
<1>4. ASSUME NEW id \in DOMAIN entry', placed[id] \in Paths
      PROVE  IsOldOrNew(id, placed[id])'
  <2>1. CASE id = w
      BY <1>4, <2>1
  <2>2. CASE id # w
    <3>1. id \in DOMAIN entry /\ placed[id] = place[id]
        BY <2>2
    <3>2. IsOldOrNew(id, placed[id]) /\ ~Unsettled(id)
        BY <1>1, <1>4, <2>2, <3>1 DEF Inserts
    <3>3. entry'[id].kind = entry[id].kind /\ ItemOf(id)' = ItemOf(id)
        BY <2>2, <3>1
    <3>4. QED BY <3>2, <3>3 DEF IsOldOrNew, InTree
  <2>3. QED BY <2>1, <2>2
<1>5. ASSUME NEW p \in Paths \cap DOMAIN before'
      PROVE  \E id \in DOMAIN entry' : placed[id] = p
  <2>1. PICK id \in DOMAIN entry : place[id] = p
      BY <1>1 DEF Inserts
  <2>2. QED BY <2>1
<1>6. ASSUME NEW p \in Paths \cap DOMAIN after'
      PROVE  (IsThere(placed, p) \/ (Pending(p) /\ Near(p, cmd.path)) \/ ToCome(p))'
  <2>1. Near(p, cmd.path)' <=> Near(p, cmd.path)
      BY DEF Near
  <2>2. CASE p = q
      BY <1>6, <2>1, <2>2
  <2>3. CASE p # q /\ IsThere(place, p)
    <3>1. PICK id \in DOMAIN entry : place[id] = p /\ InTree(after, p, ItemOf(id))
        BY <2>3 DEF IsThere
    <3>2. id # w /\ placed[id] = p
        BY <2>3, <3>1
    <3>3. ItemOf(id)' = ItemOf(id) /\ ~Unsettled(id)' /\ id \in DOMAIN entry'
        BY <3>2
    <3>4. IsThere(placed, p)'
        BY <3>1, <3>2, <3>3 DEF IsThere, InTree
    <3>5. QED BY <3>4
  <2>4. CASE p # q /\ Pending(p) /\ Near(p, cmd.path)
      BY <1>6, <2>1, <2>4
  <2>5. ToCome(p)' <=> ToCome(p)
      BY SamePlan
  <2>6. QED BY <1>1, <1>6, <2>2, <2>3, <2>4, <2>5 DEF Inserts
<1>7. Inserts(placed)'
    BY <1>2, <1>3, <1>4, <1>5, <1>6 DEF Inserts
<1>8. QED BY <1>7 DEF Faithful

(* The steps at a file.  The data is what is on disk once the entry points to it. *)
LEMMA FileWorkGoesOn ==
    ASSUME NEW place, Between(place), pc \in {"free", "store", "point"},
           pc' \in {"store", "point", "run"},
           UNCHANGED <<disk, node, cmd, stack, before, after>>,
           DOMAIN entry' = DOMAIN entry, entry'[now.id].kind = entry[now.id].kind,
           \A id \in DOMAIN entry : id # now.id => entry'[id] = entry[id],
           \A c \in Held : c # Pointer(now.id) => c \in DOMAIN data' /\ data'[c] = data[c],
           pc' # "run" => now'.id = now.id /\ now'.path = now.path,
           pc' = "point" => data'[now'.chunk] = disk[now.path].content,
           NEW w, w = now.id,
           ~Unsettled(w)' => data'[Pointer(w)'] = disk[now.path].content,
           pc' = "run" => ~Unsettled(w)'
    PROVE  Faithful(place)'
<1>1. PICK q : q = now.path
    OBVIOUS
<1>2. /\ cmd.do = "insert" /\ stack # <<>> /\ disk \in Disks
      /\ w \in DOMAIN entry /\ q \in DOMAIN disk /\ ~IsDir(w) /\ DataAgrees /\ NodesAgree
    BY <1>1, AtWorkFacts DEF Between, InsertSteps
<1>3. IsPlaced(place) /\ NamedOnce /\ Inserts(place)
    BY <1>2, InsertsFacts
<1>4. /\ place[w] = q /\ Near(q, cmd.path) /\ entry[w].kind = disk[q].kind
      /\ StackWell(place, stack, cmd.path) /\ q \in Routes
    BY <1>1, <1>2, <1>3, DiskIs DEF Inserts, WorksOn, InsertSteps
<1>5. /\ \A id \in DOMAIN entry : entry'[id].kind = entry[id].kind
      /\ \A id \in DOMAIN entry : IsDir(id)' <=> IsDir(id)
      /\ \A id \in DOMAIN entry : id # w => Pointer(id)' = Pointer(id)
    BY DEF IsDir, Pointer
<1>6. \A id \in DOMAIN entry : id # w => ~Unsettled(id) /\ ~Unsettled(id)'
    BY DEF Unsettled
<1>7. WithNode' = WithNode
    BY <1>5 DEF WithNode, Dirs
<1>8. \A d \in WithNode : d # w /\ DirOf(d)' = DirOf(d)
    BY <1>2, <1>5 DEF WithNode, Dirs, DirOf, Pointer
<1>9. IsPlaced(place)'
    BY <1>3, <1>7, <1>8 DEF IsPlaced
<1>10. ASSUME NEW id \in DOMAIN entry \ {w}
       PROVE  ItemOf(id)' = ItemOf(id)
  <2>1. CASE IsDir(id)
      BY <1>5, <2>1 DEF ItemOf
  <2>2. CASE ~IsDir(id)
    <3>1. id \in Files /\ w \in Files /\ ~Bare(id)
        BY <1>2, <2>2 DEF Files, Dirs, Bare
    <3>2. Pointer(id) \in Held /\ Pointer(id) # Pointer(w)
        BY <1>2, <1>10, <3>1 DEF DataAgrees
    <3>3. data'[Pointer(id)] = data[Pointer(id)]
        BY <3>2
    <3>4. QED BY <1>5, <1>10, <2>2, <3>3 DEF ItemOf
  <2>3. QED BY <2>1, <2>2
<1>11. ASSUME q \in Paths
       PROVE  /\ IsOldOrNew(w, q)'
              /\ pc' = "run" => IsThere(place, q)'
  <2>1. InTree(after, q, disk[q]) /\ IsOldOrNew(w, q)
      BY <1>1, <1>2, <1>3, <1>4, <1>11, AtWorkIsPlanned DEF Planned, InsertSteps, Inserts
  <2>2. disk[q] = [kind |-> disk[q].kind, content |-> disk[q].content]
      BY <1>2, DiskIs
  <2>3. ~Unsettled(w)' => ItemOf(w)' = disk[q]
      BY <1>1, <1>2, <1>4, <1>5, <2>2 DEF ItemOf
  <2>4. ~Unsettled(w)' => InTree(after, q, ItemOf(w))'
      BY <2>1, <2>3 DEF InTree
  <2>5. IsOldOrNew(w, q)'
      BY <1>2, <1>5, <2>1, <2>4 DEF IsOldOrNew
  <2>6. pc' = "run" => IsThere(place, q)'
      BY <1>2, <1>4, <2>4 DEF IsThere
  <2>7. QED BY <2>5, <2>6
<1>12. pc' # "run" => \A p : Pending(p) => Pending(p)'
    BY DEF Pending, InStack, InsertSteps
<1>13. pc' # "run" => Pending(q)'
    BY <1>1, <1>4, PrefixOrder DEF Pending, InsertSteps
<1>14. WorksOn(place)'
    BY <1>1, <1>4, <1>5 DEF WorksOn, InsertSteps, Near
<1>15. ASSUME NEW p \in Paths \cap DOMAIN after, p # q, Pending(p)
       PROVE  IsThere(place, p)' \/ Pending(p)'
  <2>1. CASE InStack(p, stack)
      BY <2>1 DEF Pending, InStack
  <2>2. CASE pc' # "run"
      BY <1>12, <1>15, <2>2
  <2>3. CASE ~InStack(p, stack)
    <3>1. IsPrefix(q, p) /\ p \in Routes
        BY <1>1, <1>15, <2>3, PathsAre DEF Pending
    <3>2. disk[q].kind # "dir"
        BY <1>2, <1>4 DEF IsDir
    <3>3. ~Planned(p)
        BY <1>2, <1>4, <1>15, <3>1, <3>2, DiskIs DEF Planned
    <3>4. IsThere(place, p)
        BY <1>2, <1>4, <1>6, <1>15, <3>3, ThereOrPlanned
    <3>5. PICK id \in DOMAIN entry : place[id] = p /\ InTree(after, p, ItemOf(id))
        BY <3>4 DEF IsThere
    <3>6. id # w
        BY <1>4, <1>15, <3>5
    <3>7. ItemOf(id)' = ItemOf(id) /\ ~Unsettled(id)' /\ id \in DOMAIN entry'
        BY <1>6, <1>10, <3>6
    <3>8. IsThere(place, p)'
        BY <3>5, <3>7 DEF IsThere, InTree
    <3>9. QED BY <3>8
  <2>4. QED BY <2>1, <2>2, <2>3
<1>16. /\ DOMAIN entry' = DOMAIN entry \cup {w} /\ pc' # "ended"
       /\ StackWell(place, stack', cmd.path) /\ (stack' # <<>> => stack # <<>>)
    BY <1>2, <1>4
<1>17. \A id \in DOMAIN entry \ {w} :
          /\ entry'[id].kind = entry[id].kind /\ ItemOf(id)' = ItemOf(id)
          /\ ~Unsettled(id) /\ ~Unsettled(id)'
    BY <1>5, <1>6, <1>10
<1>18. QED BY <1>2, <1>4, <1>9, <1>11, <1>13, <1>14, <1>15, <1>16, <1>17, WorkGoesOn

LEMMA FreeIsFaithful ==
    ASSUME NEW place, Between(place), FreeOldData
    PROVE  Faithful(place)'
<1>1. PICK w : w = now.id
    OBVIOUS
<1>2. /\ pc = "free" /\ pc' = "store"
      /\ data' = IF Pointer(w) # 0 THEN WithoutChunk(Pointer(w)) ELSE data
      /\ UNCHANGED <<disk, entry, node, cmd, stack, now, before, after>>
    BY <1>1 DEF FreeOldData, Pointer
<1>3. \A c \in Held : c # Pointer(w) => c \in DOMAIN data' /\ data'[c] = data[c]
    BY <1>2 DEF Held, WithoutChunk
<1>4. Unsettled(w)'
    BY <1>1, <1>2 DEF Unsettled
<1>5. QED BY <1>1, <1>2, <1>3, <1>4, FileWorkGoesOn

LEMMA StoreIsFaithful ==
    ASSUME NEW place, Between(place), StoreData
    PROVE  Faithful(place)'
<1>1. PICK w : w = now.id
    OBVIOUS
<1>2. PICK chunk \in FreeChunks :
             /\ data' = [c \in DOMAIN data \cup {chunk} |->
                            IF c = chunk THEN disk[now.path].content ELSE data[c]]
             /\ now' = [now EXCEPT !.chunk = chunk]
    BY DEF StoreData
<1>3. /\ pc = "store" /\ pc' = "point"
      /\ UNCHANGED <<disk, entry, node, cmd, stack, before, after>>
    BY DEF StoreData
<1>4. now \in [path : Routes, id : Nat, chunk : Nat]
    BY <1>3, AtWorkFacts DEF Between, InsertSteps
<1>5. now'.id = now.id /\ now'.path = now.path /\ now'.chunk = chunk
    BY <1>2, <1>4
<1>6. chunk \notin DOMAIN data /\ data'[chunk] = disk[now.path].content
      /\ \A c \in DOMAIN data : c \in DOMAIN data' /\ data'[c] = data[c]
    BY <1>2 DEF FreeChunks
<1>7. \A c \in Held : c # Pointer(now.id) => c \in DOMAIN data' /\ data'[c] = data[c]
    BY <1>6 DEF Held
<1>8. ~Unsettled(w)' => Pointer(w)' = chunk
    BY <1>1, <1>3, <1>5 DEF Unsettled
<1>9. QED BY <1>1, <1>3, <1>5, <1>6, <1>7, <1>8, FileWorkGoesOn

LEMMA PointIsFaithful ==
    ASSUME NEW place, Between(place), SetPointer
    PROVE  Faithful(place)'
<1>1. PICK w, k : w = now.id /\ k = now.chunk
    OBVIOUS
<1>2. /\ pc = "point" /\ pc' = "run"
      /\ entry' = [entry EXCEPT ![w].pointer = k]
      /\ UNCHANGED <<disk, node, data, cmd, stack, before, after>>
    BY <1>1 DEF SetPointer
<1>3. w \in DOMAIN entry /\ StoredType /\ cmd.do = "insert"
    BY <1>1, <1>2, AtWorkFacts DEF Between, InsertSteps
<1>4. /\ DOMAIN entry' = DOMAIN entry
      /\ entry'[w] = [entry[w] EXCEPT !.pointer = k]
      /\ \A i \in DOMAIN entry : i # w => entry'[i] = entry[i]
    BY <1>2, <1>3 DEF StoredType
<1>5. entry'[w].kind = entry[w].kind /\ entry'[w].pointer = k
  <2>1. entry[w] \in Entries
      BY <1>3 DEF StoredType
  <2>2. QED BY <2>1, <1>4 DEF Entries
<1>6. data[k] = disk[now.path].content
    BY <1>1, <1>2, <1>3, InsertsFacts DEF Inserts, WorksOn, InsertSteps
<1>7. Pointer(w)' = k /\ ~Unsettled(w)'
    BY <1>2, <1>5 DEF Pointer, Unsettled
<1>8. \A c \in Held : c # Pointer(w) => c \in DOMAIN data' /\ data'[c] = data[c]
    BY <1>2 DEF Held
<1>9. QED BY <1>1, <1>2, <1>4, <1>5, <1>6, <1>7, <1>8, FileWorkGoesOn

LEMMA UpdateFileIsFaithful ==
    ASSUME NEW place, Between(place), NextName, NEW name \in Top.left, UpdateEntry(name),
           ~IsDir(DirOf(Top.id)[name])
    PROVE  Faithful(place)'
<1>1. PICK q, w : q = Append(Top.path, name) /\ w = DirOf(Top.id)[name]
    OBVIOUS
<1>2. /\ pc = "run" /\ cmd.do = "insert" /\ stack # <<>>
      /\ name \in DOMAIN DirOf(Top.id) /\ ~IsDir(w)
      /\ entry[w].kind = disk[q].kind
      /\ now' = [path |-> q, id |-> w, chunk |-> 0]
      /\ pc' = "free"
      /\ stack' = WithoutName(name)
      /\ UNCHANGED <<disk, entry, node, data, cmd, before, after>>
    BY <1>1 DEF NextName, UpdateEntry
<1>3. /\ NamedOnce /\ IsPlaced(place) /\ Inserts(place) /\ stack \in Seq(Frames)
    BY <1>2, InsertsFacts
<1>4. /\ q \in Routes /\ w \in DOMAIN entry /\ place[w] = q /\ Near(q, cmd.path)
    BY <1>1, <1>2, TopIsPlaced
<1>5. StackWell(place, stack', cmd.path)
    BY <1>2, <1>3, WithoutNameIsWell DEF Inserts
<1>6. Pointer(w) # 0
  <2>1. w \in Files /\ ~Bare(w) /\ DataAgrees /\ StoredType
      BY <1>2, <1>4 DEF Files, Dirs, Bare, Between, IInv, Agreement
  <2>2. QED BY <2>1 DEF DataAgrees, StoredType, Held
<1>7. \A id : /\ IsDir(id)' = IsDir(id) /\ Pointer(id)' = Pointer(id) /\ ItemOf(id)' = ItemOf(id)
              /\ ~Unsettled(id)
    BY <1>2 DEF IsDir, Pointer, ItemOf, Unsettled
<1>8. \A id : ~Unsettled(id)'
    BY <1>2, <1>6, <1>7 DEF Unsettled
<1>9. IsPlaced(place)'
    BY <1>2, <1>3, SamePlaces, SameTree
<1>10. q \in Paths => IsOldOrNew(w, q)'
  <2>1. SUFFICES ASSUME q \in Paths PROVE IsOldOrNew(w, q)'
      OBVIOUS
  <2>2. IsOldOrNew(w, q)
      BY <1>3, <1>4, <2>1 DEF Inserts
  <2>3. QED BY <1>2, <1>7, <2>2 DEF IsOldOrNew, InTree
<1>11. now'.path = q /\ now'.id = w
    BY <1>2
<1>12. WorksOn(place)'
    BY <1>2, <1>4, <1>11 DEF WorksOn, Near
<1>13. Pending(q)'
    BY <1>2, <1>4, <1>11, PrefixOrder DEF Pending, InsertSteps
<1>14. ASSUME NEW p, Pending(p)
       PROVE  Pending(p)'
  <2>1. InStack(p, stack) => InStack(p, WithoutName(name)) \/ IsPrefix(q, p)
      BY <1>1, <1>2, <1>3, NameTaken
  <2>2. InStack(p, stack') => Pending(p)'
      BY DEF Pending, InStack
  <2>3. IsPrefix(q, p) => Pending(p)'
      BY <1>2, <1>11 DEF Pending, InsertSteps
  <2>4. QED BY <1>2, <1>14, <2>1, <2>2, <2>3, NothingUnsettled
<1>15. DOMAIN entry' = DOMAIN entry \cup {w} /\ pc' # "ended"
    BY <1>2, <1>4
<1>16. \A id \in DOMAIN entry \ {w} : entry'[id].kind = entry[id].kind
    BY <1>2
<1>17. QED BY <1>2, <1>4, <1>5, <1>7, <1>8, <1>9, <1>10, <1>12, <1>13, <1>14, <1>15, <1>16,
              WorkGoesOn

LEMMA MakeNodeIsFaithful ==
    ASSUME NEW place, Between(place), MakeNode
    PROVE  Faithful(place)'
<1>1. PICK w, b, q, t : w = now.id /\ b = FreshNode /\ q = now.path /\ t = stack'
    OBVIOUS
<1>2. /\ pc = "node" /\ pc' = "run"
      /\ node' = [c \in DOMAIN node \cup {b} |-> IF c = b THEN EmptyDir ELSE node[c]]
      /\ entry' = [entry EXCEPT ![w].pointer = b]
      /\ t = Enter(stack, q, w)
      /\ UNCHANGED <<disk, data, cmd, before, after>>
    BY <1>1 DEF MakeNode
<1>3. /\ cmd.do = "insert" /\ stack \in Seq(Frames) /\ stack # <<>>
      /\ disk \in Disks /\ cmd.path \in DOMAIN disk /\ q \in DOMAIN disk
      /\ w \in DOMAIN entry /\ IsDir(w) /\ w \in Nat
      /\ StoredType /\ NodesAgree
    BY <1>1, <1>2, AtWorkFacts DEF Between, InsertSteps, StoredType
<1>4. IsPlaced(place) /\ NamedOnce /\ Inserts(place)
    BY <1>3, InsertsFacts
<1>5. /\ place[w] = q /\ Near(q, cmd.path) /\ entry[w].kind = disk[q].kind
      /\ StackWell(place, stack, cmd.path) /\ q \in Routes
    BY <1>1, <1>2, <1>3, <1>4, DiskIs DEF Inserts, WorksOn, InsertSteps
<1>6. b \notin DOMAIN node
    BY <1>1, <1>3, FreshIsFree DEF FreshNode, StoredType
<1>7. /\ DOMAIN entry' = DOMAIN entry
      /\ \A i \in DOMAIN entry : i # w => entry'[i] = entry[i]
      /\ entry'[w] = [entry[w] EXCEPT !.pointer = b]
    BY <1>2, <1>3 DEF StoredType
<1>8. entry'[w].kind = entry[w].kind /\ entry'[w].pointer = b
  <2>1. entry[w] \in Entries
      BY <1>3 DEF StoredType
  <2>2. QED BY <2>1, <1>7 DEF Entries
<1>9. /\ \A i \in DOMAIN entry : entry'[i].kind = entry[i].kind /\ (IsDir(i)' <=> IsDir(i))
      /\ \A i \in DOMAIN entry : i # w => Pointer(i)' = Pointer(i)
      /\ Pointer(w)' = b
    BY <1>7, <1>8 DEF IsDir, Pointer
<1>10. WithNode' = WithNode \cup {w} /\ w \notin WithNode
  <2>1. Dirs' = Dirs /\ w \in Dirs
      BY <1>3, <1>7, <1>9 DEF Dirs
  <2>2. QED BY <2>1, <1>1, <1>2 DEF WithNode
<1>11. DOMAIN DirOf(w)' = {}
    BY <1>2, <1>8 DEF DirOf, EmptyDir
<1>12. ASSUME NEW d \in WithNode
       PROVE  DirOf(d)' = DirOf(d)
  <2>1. d \in DOMAIN entry /\ d # w /\ Pointer(d) \in DOMAIN node
      BY <1>3, <1>10 DEF WithNode, Dirs, NodesAgree
  <2>2. QED BY <1>2, <1>6, <1>7, <2>1 DEF DirOf, Pointer
<1>13. IsPlaced(place)'
    BY <1>4, <1>7, <1>10, <1>11, <1>12 DEF IsPlaced
<1>14. \A id \in DOMAIN entry \ {w} : ItemOf(id)' = ItemOf(id)
    BY <1>2, <1>9 DEF ItemOf
<1>15. ItemOf(w)' = DirItem /\ disk[q] = DirItem
    BY <1>3, <1>5, <1>9, DiskIs DEF ItemOf, DirItem, IsDir
<1>16. \A id : (id # w => ~Unsettled(id)) /\ ~Unsettled(id)'
    BY <1>1, <1>2 DEF Unsettled
<1>17. ASSUME q \in Paths
       PROVE  IsOldOrNew(w, q)' /\ IsThere(place, q)'
  <2>1. InTree(after, q, disk[q]) /\ IsOldOrNew(w, q)
      BY <1>1, <1>2, <1>3, <1>4, <1>5, <1>17, AtWorkIsPlanned DEF Planned, InsertSteps, Inserts
  <2>2. InTree(after, q, ItemOf(w))'
      BY <2>1, <1>2, <1>15 DEF InTree
  <2>3. IsOldOrNew(w, q)'
      BY <1>2, <1>3, <1>9, <2>1, <2>2 DEF IsOldOrNew
  <2>4. IsThere(place, q)'
      BY <1>3, <1>5, <1>7, <1>16, <2>2 DEF IsThere
  <2>5. QED BY <2>3, <2>4
<1>18. /\ StackWell(place, t, cmd.path)
       /\ \A p : InStack(p, stack) => InStack(p, t)
       /\ \A p \in DOMAIN disk :
            Near(p, cmd.path) /\ IsPrefix(q, p) /\ q # p => InStack(p, t)
  <2>1. Top.id \in Nat
      BY <1>3, TopIsFrame DEF Frames
  <2>2. QED BY <1>2, <1>3, <1>5, <2>1, EnteredIsWell
<1>19. \A p : InStack(p, t) => Pending(p)'
    BY <1>1 DEF Pending, InStack
<1>20. ASSUME NEW p \in Paths \cap DOMAIN after, p # q, Near(p, cmd.path), Pending(p)
       PROVE  IsThere(place, p)' \/ Pending(p)'
  <2>1. CASE InStack(p, stack)
      BY <1>18, <1>19, <2>1
  <2>2. CASE ~InStack(p, stack)
    <3>1. IsPrefix(q, p)
        BY <1>1, <1>20, <2>2 DEF Pending
    <3>2. CASE Planned(p)
        BY <1>18, <1>19, <1>20, <3>1, <3>2 DEF Planned
    <3>3. CASE ~Planned(p)
      <4>1. IsThere(place, p)
          BY <1>3, <1>5, <1>16, <1>20, <3>3, ThereOrPlanned
      <4>2. PICK id \in DOMAIN entry : place[id] = p /\ InTree(after, p, ItemOf(id))
          BY <4>1 DEF IsThere
      <4>3. id # w
          BY <1>5, <1>20, <4>2
      <4>4. ItemOf(id)' = ItemOf(id) /\ ~Unsettled(id)' /\ id \in DOMAIN entry'
          BY <1>7, <1>14, <1>16, <4>3
      <4>5. IsThere(place, p)'
          BY <1>2, <4>2, <4>4 DEF IsThere, InTree
      <4>6. QED BY <4>5
    <3>4. QED BY <3>2, <3>3
  <2>3. QED BY <2>1, <2>2
<1>21. WorksOn(place)'
    BY <1>2 DEF WorksOn, InsertSteps
<1>22. \A id \in DOMAIN entry \ {w} :
          /\ entry'[id].kind = entry[id].kind /\ ItemOf(id)' = ItemOf(id)
          /\ ~Unsettled(id) /\ ~Unsettled(id)'
    BY <1>9, <1>14, <1>16
<1>23. /\ DOMAIN entry' = DOMAIN entry \cup {w} /\ pc' # "ended"
       /\ StackWell(place, stack', cmd.path)
  <2>1. w \in DOMAIN entry /\ DOMAIN entry' = DOMAIN entry
      BY <1>3, <1>7
  <2>2. DOMAIN entry \cup {w} = DOMAIN entry
      BY <2>1
  <2>3. StackWell(place, stack', cmd.path)
    <3>1. StackWell(place, t, cmd.path) /\ t = stack'
        BY <1>1, <1>18
    <3>2. QED BY <3>1, Zenon
  <2>4. pc' # "ended"
      BY <1>2
  <2>5. QED BY <2>1, <2>2, <2>3, <2>4
<1>24. /\ UNCHANGED <<disk, cmd, before, after>> /\ cmd.do = "insert"
       /\ stack' # <<>> => stack # <<>>
       /\ q \in Paths => IsOldOrNew(w, q)'
       /\ q \in Paths \cap DOMAIN after => IsThere(place, q)' \/ Pending(q)'
    BY <1>2, <1>3, <1>17
<1>25. QED BY <1>5, <1>13, <1>20, <1>21, <1>22, <1>23, <1>24, WorkGoesOn

-------------------------------------------------------------------------------
(* A new entry: nothing was at its path. *)
InsertedAt(up, name, w, q) ==
    /\ w \in Nat /\ w \notin DOMAIN entry
    /\ DOMAIN entry' = DOMAIN entry \cup {w}
    /\ \A i \in DOMAIN entry : entry'[i] = entry[i]
    /\ entry'[w] = [kind |-> disk[q].kind, pointer |-> 0]
    /\ WithNode' = WithNode
    /\ \A d \in WithNode : d # up => DirOf(d)' = DirOf(d)
    /\ DOMAIN DirOf(up)' = DOMAIN DirOf(up) \cup {name}
    /\ DirOf(up)'[name] = w
    /\ \A n \in DOMAIN DirOf(up) : DirOf(up)'[n] = DirOf(up)[n]

LEMMA InsertedIs ==
    ASSUME IInv, NextName, NEW name \in Top.left, InsertEntry(name),
           NEW up, NEW w, NEW q, up = Top.id, w = FreshId, q = Append(Top.path, name)
    PROVE  InsertedAt(up, name, w, q)
<1>1. PICK b, kind : b = Pointer(up) /\ kind = disk[q].kind
    OBVIOUS
<1>2. /\ pc = "run" /\ cmd.do = "insert" /\ stack # <<>>
      /\ name \notin DOMAIN DirOf(up)
      /\ entry' = [i \in DOMAIN entry \cup {w} |->
                      IF i = w THEN [kind |-> kind, pointer |-> 0] ELSE entry[i]]
      /\ node' = [node EXCEPT ![b] = [n \in DOMAIN @ \cup {name} |-> IF n = name THEN w ELSE @[n]]]
      /\ now' = [path |-> q, id |-> w, chunk |-> 0]
      /\ pc' = IF kind = "dir" THEN "node" ELSE "free"
    BY <1>1 DEF NextName, InsertEntry, Pointer
<1>3. up \in Dirs /\ WithNode = Dirs /\ StoredType /\ NodesAgree
    BY <1>2, InsertingFacts DEF IInv, Agreement
<1>4. w \in Nat /\ w \notin DOMAIN entry
    BY <1>3, FreshIsFree DEF FreshId, StoredType
<1>5. /\ DOMAIN entry' = DOMAIN entry \cup {w}
      /\ entry'[w] = [kind |-> kind, pointer |-> 0]
      /\ \A i \in DOMAIN entry : entry'[i] = entry[i]
    BY <1>2, <1>4
<1>6. b \in DOMAIN node /\ DirOf(up) = node[b] /\ name \notin DOMAIN node[b]
    BY <1>1, <1>2, <1>3 DEF NodesAgree, DirOf, Pointer
<1>7. /\ DOMAIN node' = DOMAIN node
      /\ \A c \in DOMAIN node : c # b => node'[c] = node[c]
      /\ DOMAIN node'[b] = DOMAIN node[b] \cup {name}
      /\ node'[b][name] = w
      /\ \A n \in DOMAIN node[b] : node'[b][n] = node[b][n]
  <2> DEFINE names == [n \in DOMAIN node[b] \cup {name} |-> IF n = name THEN w ELSE node[b][n]]
  <2>1. node' = [node EXCEPT ![b] = names]
      BY <1>2
  <2>2. /\ DOMAIN names = DOMAIN node[b] \cup {name}
        /\ names[name] = w
        /\ \A n \in DOMAIN node[b] : names[n] = node[b][n]
      BY <1>6
  <2> HIDE DEF names
  <2>3. QED BY <1>6, <2>1, <2>2
<1>8. /\ \A i \in DOMAIN entry : (IsDir(i)' <=> IsDir(i)) /\ Pointer(i)' = Pointer(i)
      /\ IsDir(w)' <=> kind = "dir"
    BY <1>5 DEF IsDir, Pointer
<1>9. WithNode' = WithNode
  <2>1. Dirs' = IF kind = "dir" THEN Dirs \cup {w} ELSE Dirs
      BY <1>5, <1>8 DEF Dirs
  <2>2. now'.id = w /\ w \notin Dirs
      BY <1>2, <1>4 DEF Dirs
  <2>3. pc' = "node" <=> kind = "dir"
      BY <1>2
  <2>4. QED BY <1>3, <2>1, <2>2, <2>3 DEF WithNode
<1>10. \A d \in Dirs : Pointer(d)' = Pointer(d) /\ Pointer(d) \in DOMAIN node
    BY <1>3, <1>8 DEF Dirs, NodesAgree
<1>11. \A d \in Dirs : DirOf(d)' = node'[Pointer(d)] /\ DirOf(d) = node[Pointer(d)]
    BY <1>10 DEF DirOf, Pointer
<1>12. \A d \in Dirs : d # up => Pointer(d) # b
    BY <1>1, <1>3 DEF NodesAgree
<1>13. \A d \in WithNode : d # up => DirOf(d)' = DirOf(d)
    BY <1>3, <1>7, <1>10, <1>11, <1>12
<1>14. DirOf(up)' = node'[b]
    BY <1>1, <1>3, <1>11
<1>15. QED BY <1>1, <1>4, <1>5, <1>6, <1>7, <1>9, <1>13, <1>14 DEF InsertedAt

LEMMA NothingWasThere ==
    ASSUME NEW place, Between(place), cmd.do = "insert", pc = "run", stack # <<>>,
           NEW name \in Top.left, name \notin DOMAIN DirOf(Top.id),
           NEW q, q = Append(Top.path, name)
    PROVE  /\ \A id \in DOMAIN entry : place[id] # q
           /\ q \in Paths => q \notin DOMAIN before /\ Planned(q)
<1>1. /\ NamedOnce /\ IsPlaced(place) /\ Inserts(place) /\ stack \in Seq(Frames) /\ disk \in Disks
    BY InsertsFacts
<1>2. /\ q \in Routes /\ q \in DOMAIN disk /\ Near(q, cmd.path) /\ name \in Components
      /\ place[Top.id] = Top.path /\ Top.path \in Routes /\ Top.id \in WithNode
    BY TopIsPlaced
<1>3. Top.id \in DOMAIN entry
    BY <1>1, <1>2 DEF NamedOnce
<1>4. ASSUME NEW id \in DOMAIN entry, place[id] = q
      PROVE  FALSE
  <2>1. q # <<>>
      BY <1>2, AppendIs
  <2>2. id # Root
      BY <1>1, <1>4, <2>1, PlaceOfNamed
  <2>3. PICK d \in WithNode : \E n \in DOMAIN DirOf(d) :
                   /\ DirOf(d)[n] = id /\ n \in Components /\ d \in DOMAIN entry
                   /\ place[d] \in Routes /\ place[id] = Append(place[d], n)
      BY <1>1, <2>2, PlaceOfNamed
  <2>4. PICK n \in DOMAIN DirOf(d) :
                   /\ n \in Components /\ d \in DOMAIN entry
                   /\ place[d] \in Routes /\ q = Append(place[d], n)
      BY <1>4, <2>3
  <2>5. place[d] = Top.path /\ n = name
      BY <1>2, <2>4, AppendOnce
  <2>6. d = Top.id
      BY <1>1, <1>2, <1>3, <2>4, <2>5, OnePlaceEach
  <2>7. QED BY <2>4, <2>5, <2>6
<1>5. ASSUME NEW r \in Routes, IsPrefix(r, q), r # q
      PROVE  \E d \in WithNode : place[d] = r
  <2>1. IsPrefix(r, Top.path)
      BY <1>2, <1>5, AppendIs
  <2>2. CASE r = Top.path
      BY <1>2, <2>2
  <2>3. CASE r # Top.path
      BY <1>1, <1>2, <1>3, <2>1, <2>3, AbovePlaced
  <2>4. QED BY <2>2, <2>3
<1>6. ASSUME q \in Paths
      PROVE  q \notin DOMAIN before /\ Planned(q)
  <2>1. q \notin DOMAIN before
      BY <1>1, <1>4, <1>6 DEF Inserts
  <2>2. Agrees(before, disk, q)
      BY <1>2, <1>5, <1>6, <2>1, AgreesBelow
  <2>3. QED BY <1>1, <1>2, <1>6, <2>1, <2>2 DEF Inserts, Plan, Came
<1>7. QED BY <1>4, <1>6

LEMMA InsertEntryIsFaithful ==
    ASSUME NEW place, Between(place), NextName, NEW name \in Top.left, InsertEntry(name)
    PROVE  \E placed : Faithful(placed)'
<1>1. PICK up, w, q, s : up = Top.id /\ w = FreshId /\ q = Append(Top.path, name)
                         /\ s = WithoutName(name)
    OBVIOUS
<1>2. /\ pc = "run" /\ cmd.do = "insert" /\ stack # <<>>
      /\ name \notin DOMAIN DirOf(up)
      /\ now' = [path |-> q, id |-> w, chunk |-> 0]
      /\ pc' = IF disk[q].kind = "dir" THEN "node" ELSE "free"
      /\ stack' = s
      /\ UNCHANGED <<disk, data, cmd, before, after>>
    BY <1>1 DEF NextName, InsertEntry
<1>3. /\ NamedOnce /\ IsPlaced(place) /\ Inserts(place) /\ stack \in Seq(Frames)
    BY <1>2, InsertsFacts
<1>4. /\ q \in Routes /\ Near(q, cmd.path) /\ up \in WithNode
      /\ place[up] = Top.path /\ name \in Components
    BY <1>1, <1>2, TopIsPlaced
<1>5. InsertedAt(up, name, w, q)
    BY <1>1, InsertedIs, Zenon DEF Between
<1>6. /\ w \in Nat /\ w \notin DOMAIN entry
      /\ DOMAIN entry' = DOMAIN entry \cup {w}
      /\ \A i \in DOMAIN entry : entry'[i] = entry[i]
      /\ entry'[w] = [kind |-> disk[q].kind, pointer |-> 0]
    BY <1>5 DEF InsertedAt
<1>7. /\ WithNode' = WithNode
      /\ \A d \in WithNode : d # up => DirOf(d)' = DirOf(d)
      /\ DOMAIN DirOf(up)' = DOMAIN DirOf(up) \cup {name}
      /\ DirOf(up)'[name] = w
      /\ \A n \in DOMAIN DirOf(up) : DirOf(up)'[n] = DirOf(up)[n]
    BY <1>5 DEF InsertedAt
<1>8. /\ \A id \in DOMAIN entry : place[id] # q
      /\ q \in Paths => q \notin DOMAIN before /\ Planned(q)
    BY <1>1, <1>2, NothingWasThere
<1>9. PICK placed : placed = [i \in DOMAIN entry \cup {w} |-> IF i = w THEN q ELSE place[i]]
    OBVIOUS
<1>10. /\ placed \in [DOMAIN entry \cup {w} -> Routes] /\ placed[w] = q
      /\ \A id \in DOMAIN entry : placed[id] = place[id]
    BY <1>3, <1>4, <1>6, <1>9 DEF IsPlaced
<1>11. IsPlaced(placed)'
  <2>1. Root \in DOMAIN entry /\ placed[Root] = <<>>
      BY <1>3, <1>10 DEF IsPlaced, NamedOnce
  <2>2. ASSUME NEW d \in WithNode, NEW n \in DOMAIN DirOf(d)'
        PROVE  placed[DirOf(d)'[n]] = Append(placed[d], n)
    <3>1. d \in DOMAIN entry
        BY <1>3 DEF NamedOnce
    <3>2. CASE d = up /\ n = name
        BY <1>1, <1>4, <1>7, <1>10, <3>1, <3>2
    <3>3. CASE ~(d = up /\ n = name)
      <4>1. n \in DOMAIN DirOf(d) /\ DirOf(d)'[n] = DirOf(d)[n]
          BY <1>7, <2>2, <3>3
      <4>2. DirOf(d)[n] \in DOMAIN entry /\ place[DirOf(d)[n]] = Append(place[d], n)
          BY <1>3, <4>1 DEF IsPlaced, NamedOnce
      <4>3. QED BY <1>10, <3>1, <4>1, <4>2
    <3>4. QED BY <3>2, <3>3
  <2>3. QED BY <1>6, <1>7, <1>10, <2>1, <2>2 DEF IsPlaced
<1>12. /\ \A i \in DOMAIN entry : (IsDir(i)' <=> IsDir(i)) /\ Pointer(i)' = Pointer(i)
       /\ Pointer(w)' = 0
    BY <1>6 DEF IsDir, Pointer
<1>13. \A id \in DOMAIN entry \ {w} :
          /\ entry'[id].kind = entry[id].kind /\ ItemOf(id)' = ItemOf(id)
          /\ ~Unsettled(id) /\ ~Unsettled(id)'
    BY <1>2, <1>6, <1>12 DEF ItemOf, Unsettled
<1>14. Unsettled(w)'
    BY <1>2, <1>12 DEF Unsettled
<1>15. StackWell(placed, stack', cmd.path)
  <2>1. StackWell(place, s, cmd.path)
      BY <1>1, <1>2, <1>3, WithoutNameIsWell DEF Inserts
  <2>2. \A i \in 1 .. Len(s) : OnDisk(s[i])
      BY <1>1, <1>2, <1>3, InsertingFacts, WithoutNameIsOnDisk DEF Between
  <2>3. \A i \in 1 .. Len(s) : s[i].id \in DOMAIN entry
      BY <1>3, <2>2 DEF OnDisk, OnDiskIn, NamedOnce
  <2>4. QED BY <1>2, <1>10, <2>1, <2>3 DEF StackWell
<1>16. now'.path = q /\ now'.id = w
    BY <1>2
<1>17. WorksOn(placed)'
    BY <1>2, <1>4, <1>6, <1>10, <1>16 DEF WorksOn, Near
<1>18. q \in Paths => IsOldOrNew(w, q)'
  <2>1. SUFFICES ASSUME q \in Paths PROVE IsOldOrNew(w, q)'
      OBVIOUS
  <2>2. q \notin DOMAIN before /\ q \in DOMAIN after /\ after[q] = disk[q]
      BY <1>8, <2>1 DEF Planned, InTree
  <2>3. QED BY <1>2, <1>6, <1>14, <2>2 DEF IsOldOrNew
<1>19. Pending(q)'
    BY <1>2, <1>4, <1>16, PrefixOrder DEF Pending, InsertSteps
<1>20. ASSUME NEW p, Pending(p)
       PROVE  Pending(p)'
  <2>1. InStack(p, stack) => InStack(p, s) \/ IsPrefix(q, p)
      BY <1>1, <1>2, <1>3, NameTaken
  <2>2. InStack(p, stack') => Pending(p)'
      BY DEF Pending, InStack
  <2>3. IsPrefix(q, p) => Pending(p)'
      BY <1>2, <1>16 DEF Pending, InsertSteps
  <2>4. QED BY <1>2, <1>20, <2>1, <2>2, <2>3, NothingUnsettled
<1>21. pc' # "ended"
    BY <1>2
<1>22. Faithful(placed)'
    BY <1>2, <1>4, <1>6, <1>10, <1>11, <1>13, <1>15, <1>17, <1>18, <1>19, <1>20, <1>21,
       WorkGoesOn
<1>23. QED BY <1>22
-------------------------------------------------------------------------------
(***************************************************************************)
(* Deletion.                                                               *)
(***************************************************************************)
LEMMA DeletesFacts ==
    ASSUME NEW place, Between(place), cmd.do = "delete"
    PROVE  /\ NamedOnce /\ IsPlaced(place) /\ Deletes(place)
           /\ WithNode = Dirs /\ NamesLeadToEntries
           /\ stack \in Seq(Frames) /\ cmd.path \in Routes /\ cmd.args \in Seq(Routes)
           /\ \A i \in DOMAIN entry : place[i] \in Routes
<1>1. NamedOnce /\ IsPlaced(place) /\ Deletes(place) /\ IInv
    BY DEF Between, Faithful
<1>2. WithNode = Dirs /\ NamesLeadToEntries /\ stack \in Seq(Frames)
    BY <1>1, DeletingFacts
<1>3. cmd.path \in Routes /\ cmd.args \in Seq(Routes)
    BY <1>1 DEF IInv, CommandType
<1>4. QED BY <1>1, <1>2, <1>3 DEF IsPlaced

LEMMA DeletionGoesOn ==
    ASSUME NEW place, Between(place), cmd.do = "delete",
           UNCHANGED <<before, after>>, cmd'.do = "delete", pc' # "ended",
           NEW placed, IsPlaced(placed)', DeletesDown(placed, stack)',
           DOMAIN entry' \subseteq DOMAIN entry, \A id \in DOMAIN entry' : placed[id] = place[id],
           \A id \in DOMAIN entry' : ~Deleted(id) /\ (~Deleted(id)' => ItemOf(id)' = ItemOf(id)),
           \A p \in Paths : ToGo(p)' => ToGo(p),
           \A id \in DOMAIN entry' :
              place[id] \in Paths /\ ToGo(place[id]) => ToGo(place[id])',
           \A id \in DOMAIN entry \ DOMAIN entry' : place[id] \in Paths => ToGo(place[id])
    PROVE  Faithful(placed)'
<1>1. Deletes(place)
    BY DeletesFacts
<1>2. ASSUME NEW p \in Paths, p \in DOMAIN after'
      PROVE  ~ToGo(p)' /\ InTree(before, p, after[p])'
  <2>1. ~ToGo(p) /\ InTree(before, p, after[p])
      BY <1>1, <1>2 DEF Deletes
  <2>2. QED BY <2>1 DEF InTree
<1>3. ASSUME NEW id \in DOMAIN entry', placed[id] \in Paths
      PROVE  AsItWas(placed, id)'
  <2>1. PICK p : p = placed[id]
      OBVIOUS
  <2>2. p = place[id] /\ p \in Paths /\ id \in DOMAIN entry
      BY <1>3, <2>1
  <2>3. AsItWas(place, id)
      BY <1>1, <2>2 DEF Deletes
  <2>4. p \in DOMAIN after => p \in DOMAIN after'
      OBVIOUS
  <2>5. ToGo(p) => ToGo(p)'
      BY <2>2
  <2>6. ~Deleted(id)' => before[p] = ItemOf(id)'
      BY <2>2, <2>3 DEF AsItWas
  <2>7. p \in DOMAIN before /\ (p \in DOMAIN after \/ ToGo(p))
      BY <2>2, <2>3 DEF AsItWas
  <2>8. QED BY <2>1, <2>5, <2>6, <2>7 DEF AsItWas
<1>4. ASSUME NEW p \in Paths \cap DOMAIN after'
      PROVE  \E id \in DOMAIN entry' : placed[id] = p
  <2>1. PICK id \in DOMAIN entry : place[id] = p
      BY <1>1 DEF Deletes
  <2>2. ~ToGo(p)
      BY <1>1 DEF Deletes
  <2>3. id \in DOMAIN entry'
      BY <2>1, <2>2
  <2>4. QED BY <2>1, <2>3
<1>5. Deletes(placed)'
    BY <1>2, <1>3, <1>4 DEF Deletes
<1>6. QED BY <1>5 DEF Faithful

LEMMA DeleteBelowIsFaithful ==
    ASSUME NEW place, Between(place), DeleteBelow
    PROVE  Faithful(place)'
<1>1. PICK name \in Top.left : LET id == DirOf(Top.id)[name] IN
          stack' = Append(WithoutName(name),
                          Frame(Append(Top.path, name), id, Top.id, ToDelete(id)))
    BY DEF DeleteBelow
<1>2. PICK up, id, t, q, s, r :
          /\ up = Top.id /\ id = DirOf(up)[name] /\ t = ToDelete(id) /\ q = Append(Top.path, name)
          /\ s = WithoutName(name) /\ r = stack'
    OBVIOUS
<1> DEFINE f == Frame(q, id, up, t)
<1>3. /\ pc = "run" /\ cmd.do = "delete" /\ stack # <<>>
      /\ r = Append(s, f)
      /\ UNCHANGED <<disk, entry, node, data, cmd, now, pc, before, after>>
    BY <1>1, <1>2 DEF DeleteBelow
<1>4. /\ IInv /\ StoredType /\ NodesAgree /\ stack \in Seq(Frames)
      /\ WithNode = Dirs /\ NamesLeadToEntries
    BY <1>3, DeletingFacts DEF Between
<1>5. PICK depth : \A i \in 1 .. Len(stack) : OnTheWayDown(i, depth)
    BY <1>3, <1>4, DeletingFacts
<1>6. PICK L \in Nat \ {0} : L = Len(stack)
    BY <1>3, <1>4, TopIsFrame
<1>7. Top = stack[L] /\ Top \in Frames
    BY <1>3, <1>4, <1>6, TopIsFrame
<1>8. OnTheWayDown(L, depth)
    BY <1>5, <1>6
<1>9. up \in DOMAIN entry /\ Top.left = ToDelete(up)
    BY <1>2, <1>6, <1>7, <1>8 DEF OnTheWayDown, Left
<1>10. up \in Dirs /\ name \in DOMAIN DirOf(up)
    BY <1>4, <1>9, ToDeleteIsNames DEF ToDelete
<1>11. id \in DOMAIN entry /\ id \in Nat /\ up \in Nat
    BY <1>2, <1>4, <1>9, <1>10 DEF NamesLeadToEntries, StoredType
<1>12. t \subseteq Components /\ name \in Components
    BY <1>2, <1>4, <1>7, <1>11, ToDeleteIsNames DEF Frames
<1>13. q \in Routes
    BY <1>2, <1>7, <1>12, RouteBelow DEF Frames
<1>14. f \in Frames /\ f.id = id /\ f.path = q
    BY <1>11, <1>12, <1>13 DEF Frame, Frames
<1> HIDE DEF f
<1>15. /\ s \in Seq(Frames) /\ Len(s) = L
       /\ \A i \in 1 .. L : i # L => s[i] = stack[i]
       /\ s[L].id = up /\ s[L].parent = Top.parent /\ s[L].path = Top.path
    BY <1>2, <1>3, <1>4, <1>6, FrameWithoutName
<1>16. /\ Len(r) = L + 1
       /\ \A i \in 1 .. L : r[i] = s[i]
       /\ r[L + 1] = f
    BY <1>3, <1>14, <1>15, FrameAdded
<1>17. \A i \in 1 .. L : r[i].id = stack[i].id /\ r[i].parent = stack[i].parent
                         /\ r[i].path = stack[i].path
  <2>1. \A i \in 1 .. L : i # L => r[i] = stack[i]
      BY <1>15, <1>16
  <2>2. r[L] = s[L] /\ stack[L].id = up
      BY <1>2, <1>7, <1>16
  <2>3. QED BY <1>7, <1>15, <2>1, <2>2
<1>18. IsPlaced(place) /\ Deletes(place) /\ cmd.path \in Routes
    BY <1>3, DeletesFacts
<1>19. DeletesDown(place, r)
  <2>1. cmd.path # <<>>
      BY <1>3, <1>18 DEF Deletes, DeletesDown
  <2>2. SUFFICES ASSUME IsDir(r[1].parent)
        PROVE  /\ r[1].path = cmd.path
               /\ \A i \in 1 .. Len(r) : place[r[i].id] = r[i].path /\ IsPrefix(cmd.path, r[i].path)
      BY <2>1 DEF DeletesDown
  <2>3. 1 \in 1 .. L /\ r[1].parent = stack[1].parent /\ r[1].path = stack[1].path
      BY <1>17
  <2>4. /\ stack[1].path = cmd.path
        /\ \A i \in 1 .. L : place[stack[i].id] = stack[i].path /\ IsPrefix(cmd.path, stack[i].path)
      BY <1>3, <1>6, <1>18, <2>2, <2>3 DEF Deletes, DeletesDown
  <2>5. place[up] = Top.path /\ IsPrefix(cmd.path, Top.path) /\ Top.path \in Routes
      BY <1>2, <1>7, <2>4 DEF Frames
  <2>6. place[id] = q
      BY <1>2, <1>4, <1>10, <1>18, <2>5 DEF IsPlaced
  <2>7. IsPrefix(cmd.path, q)
      BY <1>2, <1>12, <1>18, <2>5, AppendIs
  <2>8. \A i \in 1 .. L : place[r[i].id] = r[i].path /\ IsPrefix(cmd.path, r[i].path)
      BY <1>17, <2>4
  <2>9. \A i \in 1 .. Len(r) : i \in 1 .. L \/ i = L + 1
      BY <1>16
  <2>10. QED BY <1>14, <1>16, <2>3, <2>4, <2>6, <2>7, <2>8, <2>9
<1>20. DeletesDown(place, stack)'
    BY <1>2, <1>3, <1>19 DEF DeletesDown, IsDir
<1>21. IsPlaced(place)'
    BY <1>3, <1>18, SamePlaces, SameTree
<1>22. \A i : ItemOf(i)' = ItemOf(i) /\ ~Deleted(i)
    BY <1>3 DEF ItemOf, IsDir, Pointer, Deleted
<1>23. r # <<>>
    BY <1>3, <1>14, <1>15, FrameAdded
<1>24. \A p : ToGo(p)' <=> ToGo(p)
    BY <1>2, <1>3, <1>23 DEF ToGo
<1>25. QED BY <1>3, <1>20, <1>21, <1>22, <1>24, DeletionGoesOn

LEMMA DeleteDataIsFaithful ==
    ASSUME NEW place, Between(place), DeleteData
    PROVE  Faithful(place)'
<1>1. PICK t, p : t = Top.id /\ p = Pointer(t)
    OBVIOUS
<1>2. /\ pc = "run" /\ pc' = "entry" /\ cmd.do = "delete" /\ stack # <<>>
      /\ data' = IF IsDir(t) THEN data ELSE WithoutChunk(p)
      /\ UNCHANGED <<disk, entry, node, cmd, stack, now, before, after>>
    BY <1>1 DEF DeleteData, Pointer
<1>3. IsPlaced(place) /\ Deletes(place) /\ WithNode = Dirs /\ DataAgrees
    BY <1>2, DeletesFacts, DeletingFacts DEF Between
<1>4. /\ \A i : IsDir(i)' = IsDir(i) /\ Pointer(i)' = Pointer(i) /\ DirOf(i)' = DirOf(i)
      /\ WithNode' = WithNode
    BY <1>2 DEF Dirs, WithNode, IsDir, Pointer, DirOf
<1>5. IsPlaced(place)'
    BY <1>2, <1>3, <1>4 DEF IsPlaced
<1>6. \A i : Deleted(i)' <=> i = t /\ ~IsDir(t)
    BY <1>1, <1>2, <1>4 DEF Deleted, Top
<1>7. ASSUME NEW i \in DOMAIN entry
      PROVE  ~Deleted(i) /\ (~Deleted(i)' => ItemOf(i)' = ItemOf(i))
  <2>1. ~Deleted(i)
      BY <1>2 DEF Deleted
  <2>2. CASE IsDir(i)
      BY <1>4, <2>1, <2>2 DEF ItemOf
  <2>3. CASE IsDir(t)
      BY <1>2, <1>4, <2>1, <2>3 DEF ItemOf
  <2>4. CASE ~IsDir(i) /\ ~IsDir(t) /\ i # t
    <3>1. i \in Files /\ ~Bare(i)
        BY <1>2, <2>4 DEF Files, Dirs, Bare
    <3>2. Pointer(i) \in Held
        BY <1>3, <3>1 DEF DataAgrees
    <3>3. t \in DOMAIN entry
      <4>1. stack \in Seq(Frames) /\ \E depth : \A j \in 1 .. Len(stack) : OnTheWayDown(j, depth)
          BY <1>2, DeletingFacts DEF Between
      <4>2. Top = stack[Len(stack)] /\ Len(stack) \in 1 .. Len(stack)
          BY <1>2, <4>1, TopIsFrame
      <4>3. QED BY <1>1, <4>1, <4>2 DEF OnTheWayDown
    <3>4. t \in Files
        BY <2>4, <3>3 DEF Files, Dirs
    <3>5. Pointer(i) # p
        BY <1>1, <1>3, <2>4, <3>1, <3>2, <3>4 DEF DataAgrees
    <3>6. data'[Pointer(i)] = data[Pointer(i)]
        BY <1>2, <2>4, <3>2, <3>5 DEF WithoutChunk, Held
    <3>7. QED BY <1>2, <1>4, <2>1, <2>4, <3>6 DEF ItemOf
  <2>5. QED BY <1>6, <2>1, <2>2, <2>3, <2>4
<1>8. \A q : ToGo(q)' <=> ToGo(q)
    BY <1>2 DEF ToGo
<1>9. DeletesDown(place, stack)'
    BY <1>2, <1>3, <1>4 DEF Deletes, DeletesDown
<1>10. DOMAIN entry' = DOMAIN entry /\ cmd'.do = "delete" /\ pc' # "ended"
    BY <1>2
<1>11. QED BY <1>2, <1>5, <1>7, <1>8, <1>9, <1>10, DeletionGoesOn

(* What is found in a directory is at the place where it was looked for. *)
LEMMA FoundInDirectory ==
    ASSUME NamedOnce, WithNode = Dirs, NamesLeadToEntries, NEW place, IsPlaced(place),
           NEW path \in Routes, path # <<>>, GetEntry(path).found,
           IsDir(GetEntry(Front(path)).id)
    PROVE  place[GetEntry(path).id] = path
<1> DEFINE at == GetEntry(path)
           up == GetEntry(Front(path))
<1>1. up \in Places /\ at = Component(up, Last(path)) /\ at.found /\ IsDir(up.id)
    BY GetEntryOfFront
<1>2. at = GetEntry(path)
    OBVIOUS
<1> HIDE DEF at, up
<1>3. ~at.past
    BY <1>1 DEF Component, NotFound, LookUp, Found
<1>4. QED BY <1>1, <1>2, <1>3, FoundAtItsPlace

(* A path that something is at or below is found. *)
LEMMA FoundAbove ==
    ASSUME NamedOnce, WithNode = Dirs, NamesLeadToEntries, NEW place, IsPlaced(place),
           NEW path \in Routes, NEW id \in DOMAIN entry, IsPrefix(path, place[id])
    PROVE  GetEntry(path).found
<1>1. PICK i \in DOMAIN entry : place[i] = path
  <2>1. CASE path = place[id]
      BY <2>1
  <2>2. CASE path # place[id]
      BY <2>2, AbovePlaced DEF NamedOnce
  <2>3. QED BY <2>1, <2>2
<1>2. GetEntry(path) = Found(i)
    BY <1>1, FoundAtItsPlace
<1>3. QED BY <1>2 DEF Found

LEMMA NextToDeleteIsFaithful ==
    ASSUME NEW place, Between(place), NextToDelete
    PROVE  Faithful(place)'
<1>1. PICK path, at, up, r :
          path = Head(cmd.args) /\ at = GetEntry(path) /\ up = GetEntry(Front(path)).id /\ r = stack'
    OBVIOUS
<1> DEFINE f == Frame(path, at.id, up, ToDelete(at.id))
<1>2. /\ pc = "run" /\ cmd.do = "delete" /\ stack = <<>> /\ cmd.args # <<>>
      /\ cmd' = [cmd EXCEPT !.args = Tail(cmd.args), !.path = path]
      /\ r = IF path = <<>> \/ ~at.found THEN <<>> ELSE <<f>>
      /\ UNCHANGED <<disk, entry, node, data, now, pc, before, after>>
    BY <1>1 DEF NextToDelete, ArgumentsLeft
<1>3. /\ NamedOnce /\ IsPlaced(place) /\ Deletes(place) /\ cmd.args \in Seq(Routes)
      /\ WithNode = Dirs /\ NamesLeadToEntries
      /\ \A i \in DOMAIN entry : place[i] \in Routes
    BY <1>2, DeletesFacts
<1>4. /\ path \in Routes /\ Len(cmd.args) \in Nat \ {0} /\ path = cmd.args[1]
      /\ Len(Tail(cmd.args)) = Len(cmd.args) - 1
      /\ \A i \in 1 .. Len(cmd.args) - 1 : Tail(cmd.args)[i] = cmd.args[i + 1]
    BY <1>1, <1>2, <1>3, HeadTailProperties, EmptySeq
<1>5. cmd'.do = "delete" /\ cmd'.path = path /\ cmd'.args = Tail(cmd.args)
    BY <1>2 DEF Between, IInv, CommandType
<1>6. IsPlaced(place)'
    BY <1>2, <1>3, SamePlaces, SameTree
<1>7. f.path = path /\ f.id = at.id /\ f.parent = up
    BY DEF Frame
<1> HIDE DEF f
<1>8. r # <<>> => path # <<>> /\ at.found /\ r = <<f>> /\ Len(r) = 1 /\ r[1] = f
    BY <1>2
<1>9. DeletesDown(place, r)'
  <2>1. SUFFICES ASSUME r # <<>>, IsDir(up)
        PROVE  place[at.id] = path
    <3>1. ASSUME r # <<>>, IsDir(r[1].parent)'
          PROVE  /\ r[1].path = path
                 /\ \A i \in 1 .. Len(r) : place[r[i].id] = r[i].path /\ IsPrefix(path, r[i].path)
      <4>1. IsDir(up)
          BY <1>2, <1>7, <1>8, <3>1 DEF IsDir
      <4>2. place[at.id] = path
          BY <2>1, <3>1, <4>1
      <4>3. \A i \in 1 .. Len(r) : r[i] = f
          BY <1>8, <3>1
      <4>4. QED BY <1>4, <1>7, <1>8, <3>1, <4>2, <4>3, PrefixOrder
    <3>2. QED BY <1>5, <1>8, <3>1 DEF DeletesDown
  <2>2. path # <<>> /\ at.found
      BY <1>8, <2>1
  <2>3. QED BY <1>1, <1>3, <1>4, <2>1, <2>2, FoundInDirectory
<1>10. DeletesDown(place, stack)'
    BY <1>1, <1>9 DEF DeletesDown
<1>11. ASSUME NEW p, ToGo(p)'
       PROVE  ToGo(p)
  <2>1. CASE stack' # <<>> /\ IsPrefix(cmd'.path, p)
    <3>1. path # <<>> /\ IsPrefix(path, p)
        BY <1>1, <1>5, <1>8, <2>1
    <3>2. 1 \in 1 .. Len(cmd.args)
        BY <1>4
    <3>3. QED BY <1>4, <3>1, <3>2 DEF ToGo
  <2>2. CASE \E i \in 1 .. Len(cmd'.args) : cmd'.args[i] # <<>> /\ IsPrefix(cmd'.args[i], p)
    <3>1. PICK i \in 1 .. Len(cmd.args) - 1 : cmd'.args[i] # <<>> /\ IsPrefix(cmd'.args[i], p)
        BY <1>4, <1>5, <2>2
    <3>2. i + 1 \in 1 .. Len(cmd.args) /\ cmd'.args[i] = cmd.args[i + 1]
        BY <1>4, <1>5
    <3>3. QED BY <3>1, <3>2 DEF ToGo
  <2>3. QED BY <1>11, <2>1, <2>2 DEF ToGo
<1>12. ASSUME NEW id \in DOMAIN entry, ToGo(place[id])
       PROVE  ToGo(place[id])'
  <2>1. PICK p : p = place[id]
      OBVIOUS
  <2>2. PICK i \in 1 .. Len(cmd.args) : cmd.args[i] # <<>> /\ IsPrefix(cmd.args[i], p)
      BY <1>2, <1>12, <2>1 DEF ToGo
  <2>3. ToGo(p)'
    <3>1. CASE i = 1
      <4>1. path # <<>> /\ IsPrefix(path, p)
          BY <1>4, <2>2, <3>1
      <4>2. at.found
          BY <1>1, <1>3, <1>4, <2>1, <4>1, FoundAbove
      <4>3. r # <<>>
          BY <1>2, <4>1, <4>2
      <4>4. QED BY <1>1, <1>5, <4>1, <4>3 DEF ToGo
    <3>2. CASE i # 1
      <4>1. PICK j \in 1 .. Len(cmd.args) - 1 : i = j + 1
          BY <1>4, <3>2
      <4>2. j \in 1 .. Len(cmd'.args) /\ cmd'.args[j] = cmd.args[i]
          BY <1>4, <1>5, <4>1
      <4>3. QED BY <2>2, <4>2 DEF ToGo
    <3>3. QED BY <3>1, <3>2
  <2>4. QED BY <2>1, <2>3
<1>13. \A i : ItemOf(i)' = ItemOf(i) /\ ~Deleted(i)
    BY <1>2 DEF ItemOf, IsDir, Pointer, Deleted
<1>14. DOMAIN entry' = DOMAIN entry /\ pc' # "ended"
    BY <1>2
<1>15. QED BY <1>2, <1>5, <1>6, <1>10, <1>11, <1>12, <1>13, <1>14, DeletionGoesOn

(* The entry that is deleted, t, in its directory p. *)
RemovedFrom(p, t) ==
    /\ DOMAIN entry' = DOMAIN entry \ {t}
    /\ \A i \in DOMAIN entry \ {t} : entry'[i] = entry[i]
    /\ p \in WithNode /\ WithNode' = WithNode \ {t} /\ p # t
    /\ \A d \in WithNode' : d # p => DirOf(d)' = DirOf(d)
    /\ (DOMAIN DirOf(p))' = {m \in DOMAIN DirOf(p) : DirOf(p)[m] # t}
    /\ \A m \in (DOMAIN DirOf(p))' : DirOf(p)'[m] = DirOf(p)[m]

LEMMA RemovedIs ==
    ASSUME IInv, DeleteEntry, IsDir(Top.parent), NEW t, NEW p, t = Top.id, p = Top.parent
    PROVE  RemovedFrom(p, t)
<1>1. PICK b, L : b = Pointer(p) /\ L = Len(stack)
    OBVIOUS
<1>2. /\ pc = "entry" /\ pc' = "run"
      /\ entry' = [i \in DOMAIN entry \ {t} |-> entry[i]]
      /\ node' = [node EXCEPT ![b] = [n \in {m \in DOMAIN @ : @[m] # t} |-> @[n]]]
    BY <1>1 DEF DeleteEntry, Pointer
<1>3. /\ cmd.do = "delete" /\ L \in Nat \ {0} /\ Top = stack[L] /\ p \in Dirs
      /\ t \in DOMAIN entry \ {Root}
    BY <1>1, DeleteEntryFacts DEF Dirs
<1>4. /\ NodesAgree /\ WithNode = Dirs
      /\ DOMAIN Hierarchy = Dirs /\ \A d \in Dirs : Hierarchy[d] = DirOf(d)
    BY <1>3, DeletingFacts
<1>5. PICK depth : /\ IsTree(Hierarchy, DOMAIN entry, depth)
                   /\ \A i \in 1 .. L : OnTheWayDown(i, depth)
    BY <1>1, <1>3, DeletingFacts
<1>6. PICK name \in DOMAIN DirOf(p) : DirOf(p)[name] = t
  <2>1. OnTheWayDown(L, depth)
      BY <1>3, <1>5
  <2>2. QED BY <2>1, <1>3 DEF OnTheWayDown
<1>7. p # t
  <2>1. depth \in [DOMAIN entry -> Nat] /\ depth[p] < depth[t]
      BY <1>3, <1>4, <1>5, <1>6 DEF IsTree
  <2>2. depth[t] \in Nat
      BY <2>1, <1>3
  <2>3. QED BY <2>1, <2>2
<1>8. DOMAIN entry' = DOMAIN entry \ {t} /\ \A i \in DOMAIN entry \ {t} : entry'[i] = entry[i]
    BY <1>2
<1>9. b \in DOMAIN node /\ DirOf(p) = node[b]
    BY <1>1, <1>3, <1>4 DEF NodesAgree, DirOf, Pointer
<1>10. /\ \A c \in DOMAIN node : c # b => node'[c] = node[c]
       /\ DOMAIN node'[b] = {m \in DOMAIN node[b] : node[b][m] # t}
       /\ \A n \in DOMAIN node'[b] : node'[b][n] = node[b][n]
  <2> DEFINE rest == [n \in {m \in DOMAIN node[b] : node[b][m] # t} |-> node[b][n]]
  <2>1. node' = [node EXCEPT ![b] = rest]
      BY <1>2
  <2>2. /\ DOMAIN rest = {m \in DOMAIN node[b] : node[b][m] # t}
        /\ \A n \in DOMAIN rest : rest[n] = node[b][n]
      OBVIOUS
  <2> HIDE DEF rest
  <2>3. QED BY <2>1, <2>2, <1>9
<1>11. \A i \in DOMAIN entry \ {t} : (IsDir(i)' <=> IsDir(i)) /\ Pointer(i)' = Pointer(i)
    BY <1>8 DEF IsDir, Pointer
<1>12. WithNode' = WithNode \ {t}
  <2>1. Dirs' = Dirs \ {t}
      BY <1>8, <1>11 DEF Dirs
  <2>2. QED BY <1>2, <1>4, <2>1 DEF WithNode
<1>13. \A d \in Dirs \ {t} : Pointer(d)' = Pointer(d) /\ Pointer(d) \in DOMAIN node
    BY <1>4, <1>11 DEF Dirs, NodesAgree
<1>14. \A d \in Dirs \ {t} : DirOf(d) = node[Pointer(d)] /\ DirOf(d)' = node'[Pointer(d)]
    BY <1>13 DEF DirOf, Pointer
<1>15. \A d \in Dirs \ {t} : d # p => DirOf(d)' = DirOf(d)
  <2>1. \A d \in Dirs \ {t} : d # p => Pointer(d) # b
      BY <1>1, <1>3, <1>4 DEF NodesAgree
  <2>2. QED BY <2>1, <1>10, <1>13, <1>14
<1>16. /\ (DOMAIN DirOf(p))' = {m \in DOMAIN DirOf(p) : DirOf(p)[m] # t}
       /\ \A m \in (DOMAIN DirOf(p))' : DirOf(p)'[m] = DirOf(p)[m]
  <2>1. DirOf(p)' = node'[b]
      BY <1>1, <1>3, <1>7, <1>14
  <2>2. QED BY <2>1, <1>9, <1>10
<1>17. QED BY <1>3, <1>4, <1>7, <1>8, <1>12, <1>15, <1>16 DEF RemovedFrom

(* Where the innermost frame's directory is one, so are those of all frames. *)
LEMMA FirstParentIsDir ==
    ASSUME NEW depth, NEW L \in Nat \ {0}, \A i \in 1 .. L : OnTheWayDown(i, depth),
           IsDir(stack[L].parent)
    PROVE  IsDir(stack[1].parent)
<1>1. CASE L = 1
    BY <1>1
<1>2. CASE L # 1
  <2>1. OnTheWayDown(1, depth) /\ OnTheWayDown(2, depth)
      BY <1>2
  <2>2. stack[2].parent = stack[1].id /\ IsDir(stack[2].parent)
      BY <2>1 DEF OnTheWayDown
  <2>3. QED BY <2>1, <2>2 DEF OnTheWayDown
<1>3. QED BY <1>1, <1>2

LEMMA DeleteEntryIsFaithful ==
    ASSUME NEW place, Between(place), DeleteEntry, IsDir(Top.parent)
    PROVE  \E placed : Faithful(placed)'
<1>1. PICK t, p, L, r : t = Top.id /\ p = Top.parent /\ L = Len(stack) /\ r = stack'
    OBVIOUS
<1>2. /\ pc = "entry" /\ pc' = "run" /\ r = Front(stack)
      /\ UNCHANGED <<disk, data, cmd, before, after>>
    BY <1>1 DEF DeleteEntry
<1>3. IInv /\ RemovedFrom(p, t)
    BY <1>1, RemovedIs DEF Between
<1>4. /\ cmd.do = "delete" /\ stack # <<>> /\ L \in Nat \ {0} /\ Top = stack[L]
      /\ t \in DOMAIN entry \ {Root} /\ p \in DOMAIN entry
    BY <1>1, <1>3, DeleteEntryFacts
<1>5. IsDir(t) => DOMAIN DirOf(t) = {}
    BY <1>1, <1>3, DeleteEntryFacts
<1>6. /\ NamedOnce /\ IsPlaced(place) /\ Deletes(place)
      /\ WithNode = Dirs /\ stack \in Seq(Frames) /\ cmd.path \in Routes
      /\ \A i \in DOMAIN entry : place[i] \in Routes
    BY <1>4, DeletesFacts
<1>7. PICK depth : /\ depth \in [DOMAIN entry -> Nat]
                   /\ \A i \in 1 .. L : OnTheWayDown(i, depth)
    BY <1>1, <1>3, <1>4, DeletingFacts DEF IsTree
<1>8. /\ cmd.path # <<>> /\ stack[1].path = cmd.path
      /\ \A i \in 1 .. L : place[stack[i].id] = stack[i].path /\ IsPrefix(cmd.path, stack[i].path)
  <2>1. IsDir(stack[1].parent)
      BY <1>4, <1>7, FirstParentIsDir
  <2>2. QED BY <1>1, <1>4, <1>6, <2>1 DEF Deletes, DeletesDown
<1>9. place[t] = stack[L].path /\ IsPrefix(cmd.path, place[t])
    BY <1>1, <1>4, <1>8
<1>10. /\ Len(r) = L - 1
       /\ \A i \in 1 .. L - 1 : r[i] = stack[i]
    BY <1>1, <1>2, <1>4, <1>6, FrameLeft
<1>11. PICK placed : placed = [i \in DOMAIN entry \ {t} |-> place[i]]
    OBVIOUS
<1>12. /\ DOMAIN entry' = DOMAIN entry \ {t} /\ placed \in [DOMAIN entry \ {t} -> Routes]
       /\ \A i \in DOMAIN entry \ {t} : placed[i] = place[i] /\ entry'[i] = entry[i]
    BY <1>3, <1>6, <1>11 DEF RemovedFrom
<1>13. IsPlaced(placed)'
  <2>1. placed[Root] = <<>>
      BY <1>4, <1>6, <1>12 DEF IsPlaced, NamedOnce
  <2>2. ASSUME NEW d \in WithNode', NEW n \in (DOMAIN DirOf(d))'
        PROVE  placed[DirOf(d)'[n]] = Append(placed[d], n)
    <3>1. d \in WithNode /\ d # t /\ d \in DOMAIN entry
        BY <1>3, <1>6 DEF RemovedFrom, NamedOnce
    <3>2. n \in DOMAIN DirOf(d) /\ DirOf(d)'[n] = DirOf(d)[n]
        BY <1>3, <2>2 DEF RemovedFrom
    <3>3. DirOf(d)[n] # t
      <4>1. CASE d = p
          BY <1>3, <2>2, <4>1 DEF RemovedFrom
      <4>2. CASE d # p
        <5>1. OnTheWayDown(L, depth) /\ IsDir(stack[L].parent)
            BY <1>1, <1>4, <1>7
        <5>2. PICK m \in DOMAIN DirOf(p) : DirOf(p)[m] = t
            BY <1>1, <1>4, <5>1 DEF OnTheWayDown
        <5>3. p \in WithNode
            BY <1>3 DEF RemovedFrom
        <5>4. QED BY <1>6, <3>1, <3>2, <4>2, <5>2, <5>3 DEF NamedOnce
      <4>3. QED BY <4>1, <4>2
    <3>4. DirOf(d)[n] \in DOMAIN entry /\ place[DirOf(d)[n]] = Append(place[d], n)
        BY <1>6, <3>1, <3>2 DEF IsPlaced, NamedOnce
    <3>5. QED BY <1>12, <3>1, <3>2, <3>3, <3>4
  <2>3. QED BY <1>12, <2>1, <2>2 DEF IsPlaced
<1>14. \A i \in DOMAIN entry \ {t} :
          (IsDir(i)' <=> IsDir(i)) /\ ItemOf(i)' = ItemOf(i) /\ ~Deleted(i)
    BY <1>1, <1>2, <1>12 DEF IsDir, ItemOf, Pointer, Deleted
<1>15. DeletesDown(placed, stack)'
  <2>1. SUFFICES ASSUME r # <<>>
        PROVE  /\ r[1].path = cmd.path
               /\ \A i \in 1 .. Len(r) : placed[r[i].id] = r[i].path /\ IsPrefix(cmd.path, r[i].path)
      BY <1>1, <1>2, <1>8 DEF DeletesDown
  <2>2. L - 1 \in Nat \ {0}
      BY <1>1, <1>2, <1>4, <1>6, <1>10, <2>1, FrameLeft, EmptySeq
  <2>3. ASSUME NEW i \in 1 .. L - 1
        PROVE  stack[i].id \in DOMAIN entry \ {t}
    <3>1. OnTheWayDown(i, depth) /\ OnTheWayDown(L, depth) /\ i \in 1 .. L - 1
        BY <1>4, <1>7
    <3>2. stack[i].id \in DOMAIN entry /\ depth[stack[i].id] < depth[t]
        BY <1>1, <1>4, <3>1 DEF OnTheWayDown
    <3>3. depth[t] \in Nat
        BY <1>4, <1>7
    <3>4. stack[i].id # t
        BY <3>2, <3>3
    <3>5. QED BY <3>2, <3>4
  <2>4. ASSUME NEW i \in 1 .. L - 1
        PROVE  /\ r[i] = stack[i] /\ placed[stack[i].id] = stack[i].path
               /\ IsPrefix(cmd.path, stack[i].path)
    <3>1. i \in 1 .. L
        BY <1>4
    <3>2. placed[stack[i].id] = place[stack[i].id]
        BY <1>12, <2>3
    <3>3. QED BY <1>8, <1>10, <3>1, <3>2
  <2>5. 1 \in 1 .. L - 1
      BY <1>4, <2>2
  <2>6. r[1].path = cmd.path
      BY <1>8, <2>4, <2>5
  <2>7. QED BY <1>10, <2>4, <2>6
<1>16. \A q : ToGo(q)' => ToGo(q)
    BY <1>2, <1>4 DEF ToGo
<1>17. ASSUME NEW i \in DOMAIN entry', ToGo(place[i])
       PROVE  ToGo(place[i])'
  <2>1. PICK q : q = place[i]
      OBVIOUS
  <2>2. CASE r # <<>>
      BY <1>1, <1>2, <1>17, <2>1, <2>2 DEF ToGo
  <2>3. CASE ~IsPrefix(cmd.path, q)
      BY <1>1, <1>2, <1>17, <2>1, <2>3 DEF ToGo
  <2>4. CASE r = <<>> /\ IsPrefix(cmd.path, q)
    <3>1. L = 1
        BY <1>4, <1>10, <2>4, EmptySeq
    <3>2. place[t] = cmd.path
        BY <1>8, <1>9, <3>1
    <3>3. i \in DOMAIN entry /\ i # t
        BY <1>12
    <3>4. q # cmd.path
        BY <1>4, <1>6, <2>1, <3>2, <3>3, OnePlaceEach
    <3>5. PICK d \in WithNode : \E n \in DOMAIN DirOf(d) : place[d] = cmd.path
        BY <1>6, <2>1, <2>4, <3>3, <3>4, AbovePlaced
    <3>6. d = t /\ d \in DOMAIN entry
        BY <1>4, <1>6, <3>2, <3>5, OnePlaceEach DEF NamedOnce
    <3>7. IsDir(t)
        BY <1>6, <3>6 DEF Dirs
    <3>8. QED BY <1>5, <3>5, <3>6, <3>7
  <2>5. QED BY <2>2, <2>3, <2>4
<1>18. ToGo(place[t])
    BY <1>4, <1>9 DEF ToGo
<1>19. DOMAIN entry' \subseteq DOMAIN entry /\ \A i \in DOMAIN entry \ DOMAIN entry' : i = t
    BY <1>12
<1>20. cmd'.do = "delete" /\ pc' # "ended"
    BY <1>2, <1>4
<1>21. Faithful(placed)'
    BY <1>2, <1>4, <1>12, <1>13, <1>14, <1>15, <1>16, <1>17, <1>18, <1>19, <1>20, DeletionGoesOn
<1>22. QED BY <1>21
-------------------------------------------------------------------------------
(***************************************************************************)
(* Where a command starts and ends.                                        *)
(***************************************************************************)
(* The tree is what was there before, and nothing is done yet. *)
Begun(place) ==
    /\ IsPlaced(place) /\ pc = "run" /\ stack = <<>>
    /\ \A p \in Paths : p \in DOMAIN before <=> \E id \in DOMAIN entry : place[id] = p
    /\ \A id \in DOMAIN entry : place[id] \in Paths => InTree(before, place[id], ItemOf(id))

ArgumentPaths == {cmd.args[i] : i \in 1 .. Len(cmd.args)}

InsertionIsFaithful ==
    \A place :
        Begun(place) /\ cmd.do = "insert" /\ after = WithStored(before, disk, ArgumentPaths)
            => Faithful(place)

LEMMA InsertionBegins == InsertionIsFaithful
<1> SUFFICES ASSUME NEW place, Begun(place), cmd.do = "insert",
                    after = WithStored(before, disk, ArgumentPaths)
             PROVE  Faithful(place)
    BY DEF InsertionIsFaithful
<1> DEFINE New(p) == p \in DOMAIN disk /\ ToCome(p) /\ Agrees(before, disk, p)
<1>1. IsPlaced(place) /\ pc = "run" /\ stack = <<>> /\ Len(stack) = 0
    BY EmptySeq DEF Begun
<1>2. \A p : New(p) <=>
             /\ p \in DOMAIN disk
             /\ \E path \in ArgumentPaths \cap DOMAIN disk : Near(p, path)
             /\ Agrees(before, disk, p)
    BY DEF ArgumentPaths, ToCome
<1>3. /\ \A p : p \in DOMAIN after <=> p \in DOMAIN before \/ New(p)
      /\ \A p : New(p) => after[p] = disk[p]
      /\ \A p \in DOMAIN before : ~New(p) => after[p] = before[p]
  <2> HIDE DEF New
  <2>1. PICK S : S = {p \in DOMAIN disk : /\ \E path \in ArgumentPaths \cap DOMAIN disk : Near(p, path)
                                          /\ Agrees(before, disk, p)}
      OBVIOUS
  <2>2. \A p : p \in S <=> New(p)
      BY <1>2, <2>1
  <2>3. after = [p \in DOMAIN before \cup S |-> IF p \in S THEN disk[p] ELSE before[p]]
      BY <2>1 DEF WithStored
  <2>4. QED BY <2>2, <2>3
<1>4. \A id : ~Unsettled(id)
    BY <1>1 DEF Unsettled
<1>5. StackWell(place, stack, cmd.path) /\ WorksOn(place)
    BY <1>1 DEF StackWell, WorksOn, InsertSteps
<1>6. ASSUME NEW p \in Paths PROVE Plan(p)
  <2>1. New(p) => Planned(p)
      BY <1>3 DEF Planned, InTree
  <2>2. p \in DOMAIN after => Planned(p) \/ InTree(before, p, after[p])
      BY <1>3, <2>1 DEF InTree
  <2>3. ~Came(p)
      BY <1>1 DEF Came
  <2>4. QED BY <1>3, <2>1, <2>2, <2>3 DEF Plan
<1>7. ASSUME NEW id \in DOMAIN entry, place[id] \in Paths PROVE IsOldOrNew(id, place[id])
  <2>1. InTree(before, place[id], ItemOf(id))
      BY <1>7 DEF Begun
  <2>2. ItemOf(id).kind = entry[id].kind
      BY DEF ItemOf, IsDir
  <2>3. QED BY <2>1, <2>2 DEF IsOldOrNew, InTree
<1>8. \A p \in Paths \cap DOMAIN before : \E id \in DOMAIN entry : place[id] = p
    BY DEF Begun
<1>9. ASSUME NEW p \in Paths \cap DOMAIN after
      PROVE  IsThere(place, p) \/ ToCome(p)
  <2>1. CASE ~New(p)
    <3>1. p \in DOMAIN before /\ after[p] = before[p]
        BY <1>3, <2>1
    <3>2. PICK id \in DOMAIN entry : place[id] = p
        BY <1>8, <3>1
    <3>3. InTree(after, p, ItemOf(id))
        BY <3>1, <3>2 DEF Begun, InTree
    <3>4. QED BY <1>4, <3>2, <3>3 DEF IsThere
  <2>2. QED BY <2>1
<1>10. Inserts(place)
    BY <1>5, <1>6, <1>7, <1>8, <1>9 DEF Inserts
<1>11. QED BY <1>1, <1>10 DEF Faithful

DeletionIsFaithful ==
    \A place :
        Begun(place) /\ cmd.do = "delete" /\ after = WithDeleted(before, ArgumentPaths)
            => Faithful(place)

LEMMA DeletionBegins == DeletionIsFaithful
<1> SUFFICES ASSUME NEW place, Begun(place), cmd.do = "delete",
                    after = WithDeleted(before, ArgumentPaths)
             PROVE  Faithful(place)
    BY DEF DeletionIsFaithful
<1>1. IsPlaced(place) /\ pc = "run" /\ stack = <<>>
    BY DEF Begun
<1>2. \A p : ToGo(p) <=> \E path \in ArgumentPaths : path # <<>> /\ IsPrefix(path, p)
    BY <1>1 DEF ToGo, ArgumentPaths
<1>3. /\ \A p : p \in DOMAIN after <=> p \in DOMAIN before /\ ~ToGo(p)
      /\ \A p \in DOMAIN after : after[p] = before[p]
  <2>1. PICK S : S = {p \in DOMAIN before : \A path \in ArgumentPaths : path = <<>> \/ ~IsPrefix(path, p)}
      OBVIOUS
  <2>2. after = [p \in S |-> before[p]]
      BY <2>1 DEF WithDeleted
  <2>3. \A p : p \in S <=> p \in DOMAIN before /\ ~ToGo(p)
      BY <1>2, <2>1
  <2>4. QED BY <2>2, <2>3
<1>4. DeletesDown(place, stack)
    BY <1>1 DEF DeletesDown
<1>5. \A p \in Paths : p \in DOMAIN after => ~ToGo(p) /\ InTree(before, p, after[p])
    BY <1>3 DEF InTree
<1>6. ASSUME NEW id \in DOMAIN entry, place[id] \in Paths PROVE AsItWas(place, id)
  <2>1. InTree(before, place[id], ItemOf(id))
      BY <1>6 DEF Begun
  <2>2. QED BY <1>3, <2>1 DEF AsItWas, InTree
<1>7. \A p \in Paths \cap DOMAIN after : \E id \in DOMAIN entry : place[id] = p
    BY <1>3 DEF Begun
<1>8. Deletes(place)
    BY <1>4, <1>5, <1>6, <1>7 DEF Deletes
<1>9. QED BY <1>1, <1>8 DEF Faithful

LEMMA SameItem ==
    ASSUME NEW id, UNCHANGED <<entry, data>>
    PROVE  ItemOf(id)' = ItemOf(id)
    BY DEF ItemOf, IsDir, Pointer

(* A command on the archive that is there. *)
LEMMA CommandBegins ==
    ASSUME IInv, ~lost, TreeInv, pc = "closed", pc' = "run",
           UNCHANGED <<entry, node, data, stack>>, before' = Tree
    PROVE  \E place : Begun(place)'
<1>1. PICK place : Faithful(place)
    BY DEF TreeInv
<1>2. IsPlaced(place) /\ IsPlaced(place)'
  <2>1. IsPlaced(place)
      BY <1>1 DEF Faithful
  <2>2. WithNode' = WithNode
      BY DEF WithNode, Dirs, IsDir
  <2>3. QED BY <2>1, <2>2, SamePlaces
<1>3. stack' = <<>>
    BY DEF IInv, CommandType
<1>4. NamedOnce
    BY EachIsNamedOnce
<1>5. WithNode = Dirs /\ NamesLeadToEntries
  <2>1. PICK depth : IsTree(Hierarchy, DOMAIN entry, depth)
      BY DEF IInv, Agreement
  <2>2. QED BY <2>1, NoNodeMissing DEF IInv
<1>6. ASSUME NEW p \in Paths
      PROVE  /\ p \in DOMAIN before' <=> \E id \in DOMAIN entry' : place[id] = p
             /\ \A id \in DOMAIN entry' : place[id] = p => InTree(before', p, ItemOf(id)')
    BY <1>2, <1>4, <1>5, TreeShows, SameItem
<1>7. \A id \in DOMAIN entry' : place[id] \in Paths => InTree(before', place[id], ItemOf(id)')
    BY <1>6
<1>8. Begun(place)'
    BY <1>2, <1>3, <1>6, <1>7 DEF Begun, InTree
<1>9. QED BY <1>8

LEMMA RequestedAreArguments ==
    ASSUME BaseDir # <<>>, NEW args \in Arguments, cmd'.args = CreateRelativePath(args)
    PROVE  Requested(args) = ArgumentPaths'
<1>1. \A p : p \in Requested(args) <=> \E i \in 1 .. Len(cmd'.args) : cmd'.args[i] = p
    BY RequestedPaths
<1>2. QED BY <1>1 DEF ArgumentPaths

LEMMA AppendIsFaithful ==
    ASSUME BaseDir # <<>>, IInv, TreeInv, NEW args \in Arguments, NEW compress \in BOOLEAN,
           AppendPaths(args, compress)
    PROVE  \E place : Faithful(place)'
<1>1. /\ pc = "closed" /\ ~lost /\ pc' = "run" /\ before' = Tree
      /\ UNCHANGED <<entry, node, data, stack>>
      /\ cmd'.do = "insert" /\ cmd'.args = CreateRelativePath(args)
      /\ after' = WithStored(before', disk', Requested(args))
    BY DEF AppendPaths
<1>2. PICK place : Begun(place)'
    BY <1>1, CommandBegins
<1>3. after' = WithStored(before, disk, ArgumentPaths)'
    BY <1>1, RequestedAreArguments DEF WithStored, Agrees
<1>4. InsertionIsFaithful'
    BY InsertionBegins, PTL
<1>5. Faithful(place)'
    BY <1>1, <1>2, <1>3, <1>4 DEF InsertionIsFaithful
<1>6. QED BY <1>5

LEMMA DeleteIsFaithful ==
    ASSUME BaseDir # <<>>, IInv, TreeInv, NEW args \in Arguments, Delete(args)
    PROVE  \E place : Faithful(place)'
<1>1. /\ pc = "closed" /\ ~lost /\ pc' = "run" /\ before' = Tree
      /\ UNCHANGED <<entry, node, data, stack>>
      /\ cmd'.do = "delete" /\ cmd'.args = CreateRelativePath(args)
      /\ after' = WithDeleted(before', Requested(args))
    BY DEF Delete
<1>2. PICK place : Begun(place)'
    BY <1>1, CommandBegins
<1>3. after' = WithDeleted(before, ArgumentPaths)'
    BY <1>1, RequestedAreArguments DEF WithDeleted
<1>4. DeletionIsFaithful'
    BY DeletionBegins, PTL
<1>5. Faithful(place)'
    BY <1>1, <1>2, <1>3, <1>4 DEF DeletionIsFaithful
<1>6. QED BY <1>5

(* With only a root, there is only the place of the root. *)
RootPlace == [id \in {Root} |-> <<>>]

LEMMA RootIsPlaced == JustCreated => IsPlaced(RootPlace)
<1> SUFFICES ASSUME JustCreated PROVE IsPlaced(RootPlace)
    OBVIOUS
<1>1. /\ DOMAIN entry = {Root} /\ Pointer(Root) = 0 /\ IsDir(Root)
      /\ node[0] = EmptyDir /\ pc # "node"
    BY DEF JustCreated, OnlyRoot, Root, Pointer, IsDir
<1>2. WithNode \subseteq {Root} /\ DOMAIN DirOf(Root) = {}
    BY <1>1 DEF WithNode, Dirs, DirOf, Pointer, EmptyDir
<1>3. PICK e \in Routes : e = <<>>
    BY PrefixOrder
<1>4. RootPlace \in [DOMAIN entry -> Routes] /\ RootPlace[Root] = <<>>
    BY <1>1, <1>3 DEF RootPlace
<1>5. QED BY <1>2, <1>4 DEF IsPlaced

LEMMA CreateIsFaithful ==
    ASSUME BaseDir # <<>>, IInv, NEW args \in Arguments, NEW compress \in BOOLEAN,
           Create(args, compress)
    PROVE  \E place : Faithful(place)'
<1>1. /\ pc = "closed" /\ pc' = "run" /\ before' = EmptyTree /\ UNCHANGED stack
      /\ entry' = OnlyRoot
      /\ node' = [b \in {0} |-> EmptyDir]
      /\ data' = [b \in {} |-> Absent]
      /\ cmd'.do = "insert" /\ cmd'.args = CreateRelativePath(args)
      /\ after' = WithStored(EmptyTree, disk', Requested(args))
    BY DEF Create
<1>2. stack' = <<>>
    BY <1>1 DEF IInv, CommandType
<1>3. JustCreated'
    BY <1>1, <1>2 DEF JustCreated, OnlyRoot, EmptyDir
<1>4. IsPlaced(RootPlace)'
    BY <1>3, RootIsPlaced, PTL
<1>5. Begun(RootPlace)'
  <2>1. DOMAIN entry' = {Root} /\ RootPlace[Root] = <<>> /\ DOMAIN before' = {<<>>}
      BY <1>1 DEF OnlyRoot, RootPlace, EmptyTree
  <2>2. ItemOf(Root)' = [kind |-> "dir", content |-> Absent]
      BY <1>1 DEF ItemOf, IsDir, OnlyRoot
  <2>3. before'[<<>>] = [kind |-> "dir", content |-> Absent]
      BY <1>1 DEF EmptyTree
  <2>4. \A p \in Paths : p \in DOMAIN before' <=> \E id \in DOMAIN entry' : RootPlace[id] = p
      BY <2>1
  <2>5. ASSUME NEW id \in DOMAIN entry', RootPlace[id] \in Paths
        PROVE  InTree(before', RootPlace[id], ItemOf(id)')
      BY <2>1, <2>2, <2>3, <2>5 DEF InTree
  <2>6. QED BY <1>1, <1>2, <1>4, <2>4, <2>5 DEF Begun, RootPlace, InTree
<1>6. after' = WithStored(before, disk, ArgumentPaths)'
    BY <1>1, RequestedAreArguments DEF WithStored, Agrees
<1>7. InsertionIsFaithful'
    BY InsertionBegins, PTL
<1>8. PICK place : place = RootPlace
    OBVIOUS
<1>9. Begun(place)'
    BY <1>5, <1>8 DEF RootPlace
<1>10. Faithful(place)'
    BY <1>1, <1>6, <1>7, <1>9 DEF InsertionIsFaithful
<1>11. QED BY <1>10

(* All arguments done: what is there now is what should be. *)
LEMMA FinishIsFaithful ==
    ASSUME NEW place, Between(place), Finish
    PROVE  Faithful(place)'
<1>1. /\ pc = "run" /\ stack = <<>> /\ cmd.args = <<>> /\ pc' = "ended" /\ cmd' = NoCommand
      /\ before' = after /\ after' = after /\ UNCHANGED <<entry, node, data, stack>>
    BY DEF Finish
<1>2. IsPlaced(place) /\ NamedOnce /\ Len(cmd.args) = 0 /\ Len(stack) = 0
    BY <1>1, EmptySeq DEF Between, Faithful
<1>3. IsPlaced(place)'
  <2>1. WithNode' = WithNode
      BY <1>1 DEF WithNode, Dirs, IsDir
  <2>2. QED BY <1>1, <1>2, <2>1, SamePlaces
<1>4. /\ \A id \in DOMAIN entry : place[id] \in Paths => InTree(after, place[id], ItemOf(id))
      /\ \A p \in Paths \cap DOMAIN after : \E id \in DOMAIN entry : place[id] = p
  <2>1. CASE cmd.do = "insert"
    <3>1. Inserts(place)
        BY <2>1 DEF Between, Faithful
    <3>2. ASSUME NEW p \in Paths \cap DOMAIN after PROVE IsThere(place, p)
      <4>1. ~Pending(p) /\ ~ToCome(p)
          BY <1>1, <1>2 DEF Pending, InStack, InsertSteps, ToCome
      <4>2. QED BY <3>1, <4>1 DEF Inserts
    <3>3. ASSUME NEW id \in DOMAIN entry, place[id] \in Paths
          PROVE  InTree(after, place[id], ItemOf(id))
      <4>1. IsOldOrNew(id, place[id]) /\ Plan(place[id])
          BY <3>1, <3>3 DEF Inserts
      <4>2. place[id] \in DOMAIN after
          BY <4>1 DEF IsOldOrNew, Plan
      <4>3. PICK i \in DOMAIN entry : place[i] = place[id] /\ InTree(after, place[id], ItemOf(i))
          BY <3>2, <3>3, <4>2 DEF IsThere
      <4>4. i = id
          BY <1>2, <4>3, OnePlaceEach
      <4>5. QED BY <4>3, <4>4
    <3>4. QED BY <3>2, <3>3 DEF IsThere
  <2>2. CASE cmd.do = "delete"
    <3>1. Deletes(place)
        BY <2>2 DEF Between, Faithful
    <3>2. ASSUME NEW id \in DOMAIN entry, place[id] \in Paths
          PROVE  InTree(after, place[id], ItemOf(id))
      <4>1. AsItWas(place, id)
          BY <3>1, <3>2 DEF Deletes
      <4>2. ~Deleted(id) /\ ~ToGo(place[id])
          BY <1>1, <1>2 DEF Deleted, ToGo
      <4>3. before[place[id]] = ItemOf(id) /\ place[id] \in DOMAIN after
          BY <4>1, <4>2 DEF AsItWas
      <4>4. InTree(before, place[id], after[place[id]])
          BY <3>1, <3>2, <4>3 DEF Deletes
      <4>5. QED BY <4>3, <4>4 DEF InTree
    <3>3. \A p \in Paths \cap DOMAIN after : \E id \in DOMAIN entry : place[id] = p
        BY <3>1 DEF Deletes
    <3>4. QED BY <3>2, <3>3
  <2>3. QED BY <1>1, <2>1, <2>2 DEF Between, IInv, CommandType
<1>5. \A id : ItemOf(id)' = ItemOf(id)
    BY <1>1, SameItem
<1>6. Ends(place)'
    BY <1>1, <1>4, <1>5 DEF Ends, InTree
<1>7. cmd'.do = "none"
    BY <1>1 DEF NoCommand
<1>8. QED BY <1>3, <1>6, <1>7 DEF Faithful

(* Interrupted outside the windows: each path is as it was or as it should be. *)
LEMMA DieIsFaithful ==
    ASSUME NEW place, Between(place), pc \notin {"ended", "closed"}, Die, ~lost'
    PROVE  Faithful(place)'
<1>1. /\ pc' = "ended" /\ cmd' = NoCommand /\ ~InWindow
      /\ UNCHANGED <<entry, node, data, before, after>>
    BY DEF Die
<1>2. IsPlaced(place) /\ pc # "node"
    BY <1>1 DEF Between, Faithful, InWindow
<1>3. IsPlaced(place)'
  <2>1. WithNode' = WithNode
      BY <1>1, <1>2 DEF WithNode, Dirs, IsDir
  <2>2. QED BY <1>1, <1>2, <2>1, SamePlaces
<1>4. \A id : ~Unsettled(id) /\ ~Deleted(id)
    BY <1>1 DEF Unsettled, Deleted, InWindow, Pointer
<1>5. Ends(place)
  <2>1. CASE cmd.do = "insert"
    <3>1. Inserts(place)
        BY <2>1 DEF Between, Faithful
    <3>2. \A id \in DOMAIN entry : place[id] \in Paths => IsOldOrNew(id, place[id])
        BY <3>1 DEF Inserts
    <3>3. \A p \in Paths \cap DOMAIN before : \E id \in DOMAIN entry : place[id] = p
        BY <3>1 DEF Inserts
    <3>4. QED BY <1>4, <3>2, <3>3 DEF IsOldOrNew, Ends
  <2>2. CASE cmd.do = "delete"
    <3>1. Deletes(place)
        BY <2>2 DEF Between, Faithful
    <3>2. \A id \in DOMAIN entry : place[id] \in Paths => AsItWas(place, id)
        BY <3>1 DEF Deletes
    <3>3. \A p \in Paths \cap DOMAIN after : \E id \in DOMAIN entry : place[id] = p
        BY <3>1 DEF Deletes
    <3>4. QED BY <1>4, <3>2, <3>3 DEF AsItWas, Ends, InTree
  <2>3. QED BY <2>1, <2>2 DEF Between, IInv, CommandType
<1>6. \A id : ItemOf(id)' = ItemOf(id)
    BY <1>1, SameItem
<1>7. Ends(place)'
    BY <1>1, <1>5, <1>6 DEF Ends, InTree
<1>8. cmd'.do = "none"
    BY <1>1 DEF NoCommand
<1>9. QED BY <1>3, <1>7, <1>8 DEF Faithful

LEMMA ExitIsFaithful ==
    ASSUME NEW place, Between(place), Exit
    PROVE  Faithful(place)'
<1>1. pc = "ended" /\ pc' = "closed" /\ UNCHANGED <<entry, node, cmd>>
    BY DEF Exit
<1>2. cmd'.do = "none"
    BY <1>1 DEF Between, IInv, CommandType
<1>3. WithNode' = WithNode
    BY <1>1 DEF WithNode, Dirs, IsDir
<1>4. IsPlaced(place)'
    BY <1>1, <1>3, SamePlaces DEF Between, Faithful
<1>5. QED BY <1>1, <1>2, <1>4 DEF Faithful

LEMMA StutteringIsFaithful ==
    ASSUME NEW place, Faithful(place), UNCHANGED vars
    PROVE  Faithful(place)'
<1>1. UNCHANGED <<disk, entry, node, data, cmd, stack, now, pc, before, after>>
    BY DEF vars
<1>2. /\ \A id : IsDir(id)' = IsDir(id) /\ ItemOf(id)' = ItemOf(id)
      /\ \A id : Unsettled(id)' = Unsettled(id) /\ Deleted(id)' = Deleted(id)
    BY <1>1 DEF ItemOf, IsDir, Pointer, Unsettled, Deleted, Top
<1>3. IsPlaced(place) => IsPlaced(place)'
  <2>1. WithNode' = WithNode
      BY <1>1 DEF WithNode, Dirs, IsDir
  <2>2. QED BY <1>1, <2>1, SamePlaces
<1>4. \A p : /\ ToCome(p)' = ToCome(p) /\ Came(p)' = Came(p) /\ ToGo(p)' = ToGo(p)
             /\ Pending(p)' = Pending(p)
    BY <1>1 DEF ToCome, Came, ToGo, Pending, InStack
<1>5. \A p : Plan(p) => Plan(p)'
  <2>1. \A p : Planned(p)' = Planned(p)
      BY <1>1 DEF Planned, InTree, Agrees
  <2>2. QED BY <1>1, <1>4, <2>1 DEF Plan, InTree, Agrees
<1>6. \A id, p : IsOldOrNew(id, p) => IsOldOrNew(id, p)'
    BY <1>1, <1>2 DEF IsOldOrNew, InTree
<1>7. \A p : IsThere(place, p) => IsThere(place, p)'
    BY <1>1, <1>2 DEF IsThere, InTree
<1>8. Inserts(place) => Inserts(place)'
  <2>1. StackWell(place, stack, cmd.path) /\ WorksOn(place)
          => StackWell(place, stack, cmd.path)' /\ WorksOn(place)'
      BY <1>1 DEF StackWell, WorksOn
  <2>2. QED BY <1>1, <1>4, <1>5, <1>6, <1>7, <2>1 DEF Inserts
<1>9. Deletes(place) => Deletes(place)'
  <2>1. DeletesDown(place, stack) => DeletesDown(place, stack)'
      BY <1>1, <1>2 DEF DeletesDown
  <2>2. \A id : AsItWas(place, id) => AsItWas(place, id)'
      BY <1>1, <1>2, <1>4 DEF AsItWas
  <2>3. QED BY <1>1, <1>4, <2>1, <2>2 DEF Deletes, InTree
<1>10. Ends(place) => Ends(place)'
    BY <1>1, <1>2 DEF Ends, InTree
<1>11. QED BY <1>1, <1>3, <1>8, <1>9, <1>10 DEF Faithful

LEMMA InitHasTreeInv == Init => TreeInv
<1> SUFFICES ASSUME Init PROVE TreeInv
    OBVIOUS
<1>1. JustCreated /\ pc = "closed" /\ cmd.do = "none"
    BY DEF Init, JustCreated, NoCommand
<1>2. IsPlaced(RootPlace)
    BY <1>1, RootIsPlaced
<1>3. Faithful(RootPlace)
    BY <1>1, <1>2 DEF Faithful
<1>4. QED BY <1>3 DEF TreeInv

LEMMA NextNameIsFaithful ==
    ASSUME NEW place, Between(place), NextName
    PROVE  \E placed : Faithful(placed)'
<1>1. PICK name \in Top.left : InsertEntry(name) \/ UpdateEntry(name) \/ RefuseEntry(name)
    BY DEF NextName
<1>2. CASE InsertEntry(name)
    BY <1>2, InsertEntryIsFaithful
<1>3. CASE UpdateEntry(name)
  <2>1. Faithful(place)'
      BY <1>3, UpdateDirIsFaithful, UpdateFileIsFaithful
  <2>2. QED BY <2>1
<1>4. CASE RefuseEntry(name)
  <2>1. Faithful(place)'
      BY <1>4, RefuseIsFaithful
  <2>2. QED BY <2>1
<1>5. QED BY <1>1, <1>2, <1>3, <1>4

LEMMA StepIsFaithful ==
    ASSUME NEW place, Between(place), Step, ~lost'
    PROVE  \E placed : Faithful(placed)'
<1>1. CASE NextName
    BY <1>1, NextNameIsFaithful
<1>2. CASE DeleteEntry
  <2>1. IsDir(Top.parent)
      BY <1>2 DEF DeleteEntry
  <2>2. QED BY <1>2, <2>1, DeleteEntryIsFaithful
<1>3. CASE CompressedElsewhere
  <2>1. Faithful(place)'
      BY <1>3, DieIsFaithful DEF CompressedElsewhere
  <2>2. QED BY <2>1
<1>4. CASE NextArgument \/ LeaveDirectory \/ MakeNode \/ FreeOldData \/ StoreData \/ SetPointer
  <2>1. Faithful(place)'
      BY <1>4, NextArgumentIsFaithful, LeaveIsFaithful, MakeNodeIsFaithful, FreeIsFaithful,
         StoreIsFaithful, PointIsFaithful
  <2>2. QED BY <2>1
<1>5. CASE NextToDelete \/ DeleteBelow \/ DeleteData \/ Finish \/ Exit
  <2>1. Faithful(place)'
      BY <1>5, NextToDeleteIsFaithful, DeleteBelowIsFaithful, DeleteDataIsFaithful,
         FinishIsFaithful, ExitIsFaithful
  <2>2. QED BY <2>1
<1>6. QED BY <1>1, <1>2, <1>3, <1>4, <1>5 DEF Step

(* Nothing is known of the tree once the parts contradict one another, and nothing but a
   new archive changes that. *)
LEMMA LostStaysLost ==
    ASSUME IInv, lost, [Next]_vars, ~lost'
    PROVE  \E args \in Arguments, compress \in BOOLEAN : Create(args, compress)
<1>1. pc \in {"closed", "ended"} /\ cmd.do = "none" /\ stack = <<>>
    BY DEF IInv, CommandType
<1>2. ASSUME UNCHANGED vars PROVE FALSE
    BY <1>2 DEF vars
<1>3. ASSUME Step PROVE FALSE
  <2>1. ~NextArgument /\ ~NextName /\ ~LeaveDirectory /\ ~MakeNode /\ ~FreeOldData
      BY <1>1 DEF NextArgument, NextName, LeaveDirectory, MakeNode, FreeOldData
  <2>2. ~StoreData /\ ~SetPointer /\ ~CompressedElsewhere /\ ~Finish /\ ~Exit
      BY <1>1 DEF StoreData, SetPointer, CompressedElsewhere, Finish, Exit
  <2>3. ~NextToDelete /\ ~DeleteBelow /\ ~DeleteData /\ ~DeleteEntry
      BY <1>1 DEF NextToDelete, DeleteBelow, DeleteData, DeleteEntry
  <2>4. QED BY <1>3, <2>1, <2>2, <2>3 DEF Step
<1>4. ~Interrupt
    BY <1>1 DEF Interrupt
<1>5. \A args \in Arguments, compress \in BOOLEAN : ~AppendPaths(args, compress) /\ ~Delete(args)
    BY DEF AppendPaths, Delete
<1>6. QED BY <1>2, <1>3, <1>4, <1>5 DEF Next

LEMMA NextKeepsTreeInv ==
    BaseDir # <<>> => (IInv /\ TreeInv /\ [Next]_vars => TreeInv')
<1> SUFFICES ASSUME BaseDir # <<>>, IInv, TreeInv, [Next]_vars, ~lost'
             PROVE  \E place : Faithful(place)'
    BY DEF TreeInv
<1>1. CASE \E args \in Arguments, compress \in BOOLEAN : Create(args, compress)
    BY <1>1, CreateIsFaithful
<1>2. CASE \E args \in Arguments, compress \in BOOLEAN : AppendPaths(args, compress)
    BY <1>2, AppendIsFaithful
<1>3. CASE \E args \in Arguments : Delete(args)
    BY <1>3, DeleteIsFaithful
<1>4. ASSUME ~lost, Step \/ Interrupt \/ UNCHANGED vars
      PROVE  \E place : Faithful(place)'
  <2>1. PICK place : Faithful(place)
      BY <1>4 DEF TreeInv
  <2>2. Between(place)
      BY <1>4, <2>1, EachIsNamedOnce DEF Between
  <2>3. CASE Step
      BY <2>2, <2>3, StepIsFaithful
  <2>4. CASE Interrupt
    <3>1. Faithful(place)'
        BY <2>2, <2>4, DieIsFaithful DEF Interrupt
    <3>2. QED BY <3>1
  <2>5. CASE UNCHANGED vars
    <3>1. Faithful(place)'
        BY <2>1, <2>5, StutteringIsFaithful
    <3>2. QED BY <3>1
  <2>6. QED BY <1>4, <2>3, <2>4, <2>5
<1>5. QED BY <1>1, <1>2, <1>3, <1>4, LostStaysLost DEF Next

(* A command that ended has done to each path what it was asked to do: it stored what was
   on disk at, above and below its arguments, but for names of another kind in the
   archive, or deleted its arguments and what was below them, and changed nothing else.
   Interrupted outside the windows, it has done so or nothing to each path.  In an
   archive made in "/" this does not hold: CreateRelativePath leaves out every path. *)
THEOREM EachPathIsOldOrNew == BaseDir # <<>> /\ Spec => []EachPathOldOrNew
<1>1. SUFFICES ASSUME BaseDir # <<>> PROVE Spec => []EachPathOldOrNew
    OBVIOUS
<1>2. Init => TreeInv
    BY InitHasTreeInv
<1>3. IInv /\ TreeInv /\ [Next]_vars => TreeInv'
    BY <1>1, NextKeepsTreeInv
<1>4. IInv /\ TreeInv => EachPathOldOrNew
    BY EachPathAtEnd
<1>5. QED BY <1>2, <1>3, <1>4, PartsAgree, PTL DEF Spec
===============================================================================
