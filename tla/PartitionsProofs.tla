--------------------------- MODULE PartitionsProofs ---------------------------
(***************************************************************************)
(* Theorems about Partitions, for every size of the partitions and every   *)
(* sequence of operations and interruptions.                               *)
(*                                                                         *)
(* The inductive invariant says, for each operation and each of its steps, *)
(* where the blocks relied on are at that moment: during a move, those     *)
(* already copied at the new place and the others still at the old one.    *)
(* A second one says where copies of blocks can be that moves left behind, *)
(* and shows that the windows are no larger than they need be.             *)
(***************************************************************************)
EXTENDS Partitions, TLAPS

(* The parts of "Found", for any file and any blocks relied on. *)
DataIn(f, blocks) == \A i \in blocks : i \in DOMAIN f /\ f[i] = DataBlock(i)

ListIn(f, at, L) ==
    /\ at \in DOMAIN f /\ f[at] = FreeListBlock
    /\ \A k \in 0 .. L - 1 : at + 1 + k \in DOMAIN f /\ f[at + 1 + k] = ListBlock(k)

NodeIn(f, at, k) == at \in DOMAIN f /\ f[at] = NodeBlock(k)

NodesIn(f, blocks, at, L) == \A k \in blocks : NodeIn(f, at + 1 + L + k, k)

(* Position pos holds the metadata's block number j. *)
Right(f, blocks, L, pos, j) ==
    /\ pos \in DOMAIN f
    /\ j = 0 => f[pos] = FreeListBlock
    /\ j \in 1 .. L => f[pos] = ListBlock(j - 1)
    /\ j > L /\ j - 1 - L \in blocks => f[pos] = NodeBlock(j - 1 - L)

(* The blocks relied on are among those the sizes allow. *)
Fits(p, L, md_size, data_size) ==
    /\ md_size >= 1 + L
    /\ p.data \subseteq 0 .. data_size - 1
    /\ p.nodes \subseteq 0 .. md_size - 2 - L

Covers(f, n) == 0 .. n - 1 \subseteq DOMAIN f

(* Everything relied on is where the header h says. *)
Whole(f, p, h) ==
    /\ Fits(p, h.list, h.md, h.data)
    /\ Covers(f, h.data + h.md)
    /\ DataIn(f, p.data)
    /\ ListIn(f, h.data, h.list)
    /\ NodesIn(f, p.nodes, h.data, h.list)

-------------------------------------------------------------------------------
(* The steps of each operation. *)
InProgress == pc \notin {"closed", "idle"}

Between ==
    /\ pc = "idle" => mapped /\ md = head.data /\ promised.made /\ Whole(file, promised, head)
    /\ pc = "closed" /\ promised.made /\ ~lost => Whole(file, promised, head)

Arguments ==
    InProgress =>
        /\ op.kind # "none" /\ op.md >= 1 /\ op.md <= MaxMD /\ op.data <= MaxData
        /\ op.kind # "create" => promised.made
        /\ pc \in {"setMD", "setData", "setList", "format", "headInit", "dataInit", "mdInit"}
             => mapped /\ md = op.data /\ DOMAIN file = 0 .. op.md + op.data - 1
        /\ pc = "map" => DOMAIN file = 0 .. op.md + op.data - 1
        /\ pc = "unmap" => mapped

Creating ==
    InProgress /\ op.kind = "create" =>
        /\ pc \in {"truncate", "map", "setMD", "setData", "headInit", "dataInit", "mdInit"}
        /\ ~promised.made
        /\ op.md >= 1 + op.by
        /\ pc = "mdInit" => head.data = op.data /\ DataIn(file, 0 .. op.data - 1)

GrowingData ==
    InProgress /\ op.kind = "growData" =>
        /\ pc \in {"unmap", "truncate", "map", "setMD", "setData", "move", "format"}
        /\ op.md = head.md
        /\ pc \in {"unmap", "truncate", "map", "setMD", "setData"} =>
             op.data = head.data + op.by /\ Whole(file, promised, head)
        /\ pc \in {"move", "format"} =>
             /\ mapped /\ md = op.data /\ head.data = op.data /\ op.by <= op.data
             /\ DOMAIN file = 0 .. op.md + op.data - 1
             /\ Fits(promised, head.list, op.md, op.data - op.by)
             /\ DataIn(file, promised.data)
        /\ pc = "move" =>
             /\ done <= op.md
             /\ \A j \in 0 .. op.md - 1 :
                  Right(file, promised.nodes, head.list,
                        IF j >= op.md - done THEN md + j ELSE md - op.by + j, j)
        /\ pc = "format" =>
             ListIn(file, md, head.list) /\ NodesIn(file, promised.nodes, md, head.list)

DroppingData ==
    InProgress /\ op.kind = "dropData" =>
        /\ pc \in {"move", "unmap", "truncate", "map", "setMD", "setData"}
        /\ op.md = head.md /\ op.by >= 1 /\ head.data = op.data + op.by
        /\ Fits(promised, head.list, op.md, op.data)
        /\ DataIn(file, promised.data)
        /\ pc \in {"move", "unmap", "truncate"} =>
             /\ Covers(file, head.data + head.md)
             /\ done <= op.md
             /\ done <= op.by => /\ ListIn(file, head.data, head.list)
                                 /\ NodesIn(file, promised.nodes, head.data, head.list)
        /\ pc = "move" =>
             /\ mapped /\ md = head.data
             /\ \A j \in 0 .. op.md - 1 :
                  Right(file, promised.nodes, head.list,
                        IF j < done THEN op.data + j ELSE md + j, j)
        /\ pc # "move" =>
             ListIn(file, op.data, head.list) /\ NodesIn(file, promised.nodes, op.data, head.list)

GrowingNodes ==
    InProgress /\ op.kind = "growNodes" =>
        /\ pc \in {"unmap", "truncate", "map", "setMD", "setData", "format"}
        /\ op.data = head.data
        /\ op.md = IF pc \in {"setData", "format"} THEN head.md ELSE head.md + 1
        /\ Whole(file, promised, head)
        /\ Fits(promised, head.list, op.md - 1, head.data)

GrowingList ==
    InProgress /\ op.kind = "growList" =>
        /\ pc \in {"unmap", "truncate", "map", "setMD", "setData", "move", "setList", "format"}
        /\ op.data = head.data /\ op.by >= 1
        /\ op.md = IF pc \in {"unmap", "truncate", "map", "setMD"} THEN head.md + op.by ELSE head.md
        /\ pc # "format" => Fits(promised, head.list, op.md - op.by, head.data)
        /\ pc \in {"unmap", "truncate", "map", "setMD", "setData"} =>
             Whole(file, promised, head)
        /\ pc \in {"move", "setList"} =>
             /\ mapped /\ md = op.data /\ DOMAIN file = 0 .. op.md + op.data - 1
             /\ DataIn(file, promised.data)
             /\ ListIn(file, md, head.list)
             /\ done <= op.md - op.by - 1 - head.list
             /\ \A k \in promised.nodes :
                  NodeIn(file, IF k >= op.md - op.by - 1 - head.list - done
                               THEN md + 1 + head.list + op.by + k
                               ELSE md + 1 + head.list + k, k)
             /\ (\A k \in promised.nodes :
                   k < op.by \/ k - op.by < op.md - op.by - 1 - head.list - done)
                  => NodesIn(file, promised.nodes, md, head.list)
        /\ pc = "setList" => done = op.md - op.by - 1 - head.list
        /\ pc = "format" =>
             /\ op.by <= head.list
             /\ Fits(promised, head.list, op.md, head.data)
             /\ DataIn(file, promised.data)
             /\ ListIn(file, md, head.list - op.by)
             /\ NodesIn(file, promised.nodes, md, head.list)

IInv ==
    /\ TypeOK /\ Between /\ Arguments /\ Creating
    /\ GrowingData /\ DroppingData /\ GrowingNodes /\ GrowingList

-------------------------------------------------------------------------------
(* Block by block, or by what the blocks are for. *)
LEMMA WholeIsRight ==
    ASSUME NEW f, NEW p, NEW h, h.data \in Nat, h.md \in Nat, h.list \in Nat, Whole(f, p, h)
    PROVE  \A j \in 0 .. h.md - 1 : Right(f, p.nodes, h.list, h.data + j, j)
<1> SUFFICES ASSUME NEW j \in 0 .. h.md - 1
             PROVE  Right(f, p.nodes, h.list, h.data + j, j)
  OBVIOUS
<1>1. h.data + j \in DOMAIN f
  BY DEF Whole, Covers
<1>2. j = 0 => f[h.data + j] = FreeListBlock
  BY DEF Whole, ListIn
<1>3. j \in 1 .. h.list => f[h.data + j] = ListBlock(j - 1)
  <2> SUFFICES ASSUME j \in 1 .. h.list PROVE f[h.data + j] = ListBlock(j - 1)
    OBVIOUS
  <2>1. j - 1 \in 0 .. h.list - 1 /\ h.data + 1 + (j - 1) = h.data + j
    OBVIOUS
  <2> QED  BY <2>1 DEF Whole, ListIn
<1>4. j > h.list /\ j - 1 - h.list \in p.nodes => f[h.data + j] = NodeBlock(j - 1 - h.list)
  <2>1. h.data + 1 + h.list + (j - 1 - h.list) = h.data + j
    OBVIOUS
  <2> QED  BY <2>1 DEF Whole, NodesIn, NodeIn
<1> QED  BY <1>1, <1>2, <1>3, <1>4 DEF Right

(* The other way round: metadata that is right block by block is found part by part. *)
LEMMA RightIsFound ==
    ASSUME NEW f, NEW p, NEW L \in Nat, NEW at \in Nat, NEW size \in Nat, NEW n,
           Fits(p, L, size, n),
           \A j \in 0 .. size - 1 : Right(f, p.nodes, L, at + j, j)
    PROVE  ListIn(f, at, L) /\ NodesIn(f, p.nodes, at, L)
<1>1. at \in DOMAIN f /\ f[at] = FreeListBlock
  <2>1. 0 \in 0 .. size - 1 /\ at + 0 = at
    BY DEF Fits
  <2> QED  BY <2>1 DEF Right
<1>2. ASSUME NEW k \in 0 .. L - 1
      PROVE  at + 1 + k \in DOMAIN f /\ f[at + 1 + k] = ListBlock(k)
  <2>1. k + 1 \in 0 .. size - 1 /\ k + 1 \in 1 .. L /\ at + (k + 1) = at + 1 + k /\ (k + 1) - 1 = k
    BY DEF Fits
  <2> QED  BY <2>1 DEF Right
<1>3. ASSUME NEW k \in p.nodes PROVE NodeIn(f, at + 1 + L + k, k)
  <2> DEFINE j == 1 + L + k
  <2>1. k \in Nat /\ j \in 0 .. size - 1 /\ j > L /\ j - 1 - L = k /\ at + j = at + 1 + L + k
    BY DEF Fits
  <2> QED  BY <2>1 DEF Right, NodeIn
<1> QED  BY <1>1, <1>2, <1>3 DEF ListIn, NodesIn

(* Blocks added at the end hold nothing that is relied on. *)
LEMMA FitsInMore ==
    ASSUME NEW p, NEW L \in Nat, NEW m \in Int, NEW more \in Int, m <= more, NEW n, Fits(p, L, m, n)
    PROVE  Fits(p, L, more, n)
BY DEF Fits

(* A partition that has grown behind what is relied on still describes all of it. *)
LEMMA WholeWithMore ==
    ASSUME NEW f, NEW p, NEW h \in [md : Nat, data : Nat, list : Nat], Whole(f, p, h),
           NEW m \in Nat, h.md <= m, DOMAIN f = 0 .. m + h.data - 1
    PROVE  Whole(f, p, [h EXCEPT !.md = m])
<1> DEFINE g == [h EXCEPT !.md = m]
<1>1. g.md = m /\ g.data = h.data /\ g.list = h.list
  OBVIOUS
<1>2. Fits(p, h.list, m, h.data)
  BY FitsInMore DEF Whole
<1>3. Covers(f, h.data + m)
  BY DEF Covers
<1>4. DataIn(f, p.data) /\ ListIn(f, h.data, h.list) /\ NodesIn(f, p.nodes, h.data, h.list)
  BY DEF Whole
<1> HIDE DEF g
<1>5. Whole(f, p, g)
  BY <1>1, <1>2, <1>3, <1>4 DEF Whole
<1> QED  BY <1>5 DEF g

(* What a write to the file leaves alone: f and g agree on the positions of S. *)
Agree(f, g, S) == \A i \in S : i \in DOMAIN f => i \in DOMAIN g /\ g[i] = f[i]

(* A write elsewhere keeps each part of the archive. *)
LEMMA PartsKept ==
    ASSUME NEW f, NEW g, NEW S, Agree(f, g, S)
    PROVE  /\ \A b : b \subseteq S /\ DataIn(f, b) => DataIn(g, b)
           /\ \A at \in Nat, L \in Nat :
                at .. at + L \subseteq S /\ ListIn(f, at, L) => ListIn(g, at, L)
           /\ \A at, k : at \in S /\ NodeIn(f, at, k) => NodeIn(g, at, k)
           /\ \A b, L, pos, j : pos \in S /\ Right(f, b, L, pos, j) => Right(g, b, L, pos, j)
<1>1. ASSUME NEW b, b \subseteq S, DataIn(f, b) PROVE DataIn(g, b)
  BY <1>1 DEF Agree, DataIn
<1>2. ASSUME NEW at \in Nat, NEW L \in Nat, at .. at + L \subseteq S, ListIn(f, at, L)
      PROVE  ListIn(g, at, L)
  <2>1. at \in S /\ \A k \in 0 .. L - 1 : at + 1 + k \in S
    BY <1>2
  <2> QED  BY <1>2, <2>1 DEF Agree, ListIn
<1>3. ASSUME NEW at, NEW k, at \in S, NodeIn(f, at, k) PROVE NodeIn(g, at, k)
  BY <1>3 DEF Agree, NodeIn
<1>4. ASSUME NEW b, NEW L, NEW pos, NEW j, pos \in S, Right(f, b, L, pos, j)
      PROVE  Right(g, b, L, pos, j)
  BY <1>4 DEF Agree, Right
<1> QED  BY <1>1, <1>2, <1>3, <1>4

(* A write elsewhere keeps the node blocks that are relied on. *)
LEMMA NodesKept ==
    ASSUME NEW f, NEW g, NEW S, Agree(f, g, S), NEW at \in Nat, NEW L \in Nat,
           NEW p, NEW size \in Nat, NEW n, Fits(p, L, size, n),
           at .. at + size - 1 \subseteq S, NodesIn(f, p.nodes, at, L)
    PROVE  NodesIn(g, p.nodes, at, L)
<1> SUFFICES ASSUME NEW k \in p.nodes PROVE NodeIn(g, at + 1 + L + k, k)
  BY DEF NodesIn
<1>1. at + 1 + L + k \in S
  <2>1. k \in Nat /\ k <= size - 2 - L
    BY DEF Fits
  <2>2. at + 1 + L + k \in at .. at + size - 1
    BY <2>1
  <2> QED  BY <2>2
<1> QED  BY <1>1, PartsKept DEF NodesIn

(* A write behind the end, or into blocks nobody relies on, keeps the whole archive. *)
LEMMA WholeKept ==
    ASSUME NEW f, NEW g, NEW p \in [made : BOOLEAN, data : SUBSET Nat, nodes : SUBSET Nat],
           NEW h \in [md : Nat, data : Nat, list : Nat],
           Agree(f, g, 0 .. h.data + h.md - 1), Whole(f, p, h)
    PROVE  Whole(g, p, h)
<1> DEFINE S == 0 .. h.data + h.md - 1
<1>1. Fits(p, h.list, h.md, h.data) /\ Covers(f, h.data + h.md)
  BY DEF Whole
<1>2. Covers(g, h.data + h.md)
  BY <1>1 DEF Covers, Agree
<1>3. p.data \subseteq S /\ h.data .. h.data + h.list \subseteq S
  BY <1>1 DEF Fits
<1>4. DataIn(g, p.data)
  BY <1>3, PartsKept DEF Whole
<1>5. ListIn(g, h.data, h.list)
  BY <1>3, PartsKept DEF Whole
<1>6. h.data .. h.data + h.md - 1 \subseteq S
  OBVIOUS
<1>7. NodesIn(g, p.nodes, h.data, h.list)
  BY <1>1, <1>6, NodesKept DEF Whole
<1> QED  BY <1>1, <1>2, <1>4, <1>5, <1>7 DEF Whole

-------------------------------------------------------------------------------
(* Without an archive nothing is relied on. *)
LEMMA InitInvariant == Init => IInv
<1> SUFFICES ASSUME Init PROVE IInv
  OBVIOUS
<1>1. TypeOK
  <2>1. 0 \in 0 .. MaxData + MaxMD /\ file \in [0 .. 0 - 1 -> Contents]
    BY PartitionsAssumption DEF Init
  <2> QED  BY <2>1 DEF Init, TypeOK, Nothing, NoOp, Kinds, Steps
<1> QED
  BY <1>1 DEF Init, IInv, Between, Arguments, Creating, GrowingData, DroppingData,
              GrowingNodes, GrowingList, InProgress, Nothing, NoOp

(* OpenExistingCIB finds an archive that was left whole and sets the pointers. *)
LEMMA OpenStep == IInv /\ Open => IInv'
<1> SUFFICES ASSUME IInv, Open PROVE IInv'
  OBVIOUS
<1>1. TypeOK'
  BY DEF IInv, TypeOK, Open, Steps, Kinds
<1>2. Between'
  BY DEF IInv, TypeOK, InProgress, Between, Arguments, Creating, GrowingData, DroppingData, GrowingNodes, GrowingList, Open, Steps, Kinds, Fits, Whole
<1>3. Arguments'
  BY DEF IInv, TypeOK, InProgress, Between, Arguments, Creating, GrowingData, DroppingData, GrowingNodes, GrowingList, Open, Steps, Kinds, Fits, Whole
<1>4. Creating'
  BY DEF IInv, TypeOK, InProgress, Between, Arguments, Creating, GrowingData, DroppingData, GrowingNodes, GrowingList, Open, Steps, Kinds, Fits, Whole
<1>5. GrowingData'
  BY DEF IInv, TypeOK, InProgress, Between, Arguments, Creating, GrowingData, DroppingData, GrowingNodes, GrowingList, Open, Steps, Kinds, Fits, Whole
<1>6. DroppingData'
  BY DEF IInv, TypeOK, InProgress, Between, Arguments, Creating, GrowingData, DroppingData, GrowingNodes, GrowingList, Open, Steps, Kinds, Fits, Whole
<1>7. GrowingNodes'
  BY DEF IInv, TypeOK, InProgress, Between, Arguments, Creating, GrowingData, DroppingData, GrowingNodes, GrowingList, Open, Steps, Kinds, Fits, Whole
<1>8. GrowingList'
  BY DEF IInv, TypeOK, InProgress, Between, Arguments, Creating, GrowingData, DroppingData, GrowingNodes, GrowingList, Open, Steps, Kinds, Fits, Whole
<1> QED  BY <1>1, <1>2, <1>3, <1>4, <1>5, <1>6, <1>7, <1>8 DEF IInv

(* CloseExistingCIB leaves the archive as it is. *)
LEMMA CloseStep == IInv /\ Close => IInv'
<1> SUFFICES ASSUME IInv, Close PROVE IInv'
  OBVIOUS
<1>1. TypeOK'
  BY DEF IInv, TypeOK, Close, Steps, Kinds
<1>2. Between'
  BY DEF IInv, TypeOK, InProgress, Between, Arguments, Creating, GrowingData, DroppingData, GrowingNodes, GrowingList, Close, Steps, Kinds, Fits, Whole
<1>3. Arguments'
  BY DEF IInv, TypeOK, InProgress, Between, Arguments, Creating, GrowingData, DroppingData, GrowingNodes, GrowingList, Close, Steps, Kinds, Fits, Whole
<1>4. Creating'
  BY DEF IInv, TypeOK, InProgress, Between, Arguments, Creating, GrowingData, DroppingData, GrowingNodes, GrowingList, Close, Steps, Kinds, Fits, Whole
<1>5. GrowingData'
  BY DEF IInv, TypeOK, InProgress, Between, Arguments, Creating, GrowingData, DroppingData, GrowingNodes, GrowingList, Close, Steps, Kinds, Fits, Whole
<1>6. DroppingData'
  BY DEF IInv, TypeOK, InProgress, Between, Arguments, Creating, GrowingData, DroppingData, GrowingNodes, GrowingList, Close, Steps, Kinds, Fits, Whole
<1>7. GrowingNodes'
  BY DEF IInv, TypeOK, InProgress, Between, Arguments, Creating, GrowingData, DroppingData, GrowingNodes, GrowingList, Close, Steps, Kinds, Fits, Whole
<1>8. GrowingList'
  BY DEF IInv, TypeOK, InProgress, Between, Arguments, Creating, GrowingData, DroppingData, GrowingNodes, GrowingList, Close, Steps, Kinds, Fits, Whole
<1> QED  BY <1>1, <1>2, <1>3, <1>4, <1>5, <1>6, <1>7, <1>8 DEF IInv

(* The start of FreeListRequestNodeBlock's growth changes no block. *)
LEMMA GrowNodesStep == IInv /\ GrowNodes => IInv'
<1> SUFFICES ASSUME IInv, GrowNodes PROVE IInv'
  OBVIOUS
<1>1. TypeOK'
  BY DEF IInv, TypeOK, GrowNodes, Steps, Kinds, Start
<1>2. Between'
  BY DEF IInv, TypeOK, InProgress, Between, Arguments, Creating, GrowingData, DroppingData, GrowingNodes, GrowingList, GrowNodes, Steps, Kinds, Start, Fits, Whole
<1>3. Arguments'
  BY DEF IInv, TypeOK, InProgress, Between, Arguments, Creating, GrowingData, DroppingData, GrowingNodes, GrowingList, GrowNodes, Steps, Kinds, Start, Fits, Whole
<1>4. Creating'
  BY DEF IInv, TypeOK, InProgress, Between, Arguments, Creating, GrowingData, DroppingData, GrowingNodes, GrowingList, GrowNodes, Steps, Kinds, Start, Fits, Whole
<1>5. GrowingData'
  BY DEF IInv, TypeOK, InProgress, Between, Arguments, Creating, GrowingData, DroppingData, GrowingNodes, GrowingList, GrowNodes, Steps, Kinds, Start, Fits, Whole
<1>6. DroppingData'
  BY DEF IInv, TypeOK, InProgress, Between, Arguments, Creating, GrowingData, DroppingData, GrowingNodes, GrowingList, GrowNodes, Steps, Kinds, Start, Fits, Whole
<1>7. GrowingNodes'
  BY DEF IInv, TypeOK, InProgress, Between, Arguments, Creating, GrowingData, DroppingData, GrowingNodes, GrowingList, GrowNodes, Steps, Kinds, Start, Fits, Whole
<1>8. GrowingList'
  BY DEF IInv, TypeOK, InProgress, Between, Arguments, Creating, GrowingData, DroppingData, GrowingNodes, GrowingList, GrowNodes, Steps, Kinds, Start, Fits, Whole
<1> QED  BY <1>1, <1>2, <1>3, <1>4, <1>5, <1>6, <1>7, <1>8 DEF IInv

(* Unmapping changes no block. *)
LEMMA UnmapStep == IInv /\ Unmap => IInv'
<1> SUFFICES ASSUME IInv, Unmap PROVE IInv'
  OBVIOUS
<1>1. TypeOK'
  BY DEF IInv, TypeOK, Unmap, Steps, Kinds
<1>2. Between'
  BY DEF IInv, TypeOK, InProgress, Between, Arguments, Creating, GrowingData, DroppingData, GrowingNodes, GrowingList, Unmap, Steps, Kinds, Fits, Whole
<1>3. Arguments'
  BY DEF IInv, TypeOK, InProgress, Between, Arguments, Creating, GrowingData, DroppingData, GrowingNodes, GrowingList, Unmap, Steps, Kinds, Fits, Whole
<1>4. Creating'
  BY DEF IInv, TypeOK, InProgress, Between, Arguments, Creating, GrowingData, DroppingData, GrowingNodes, GrowingList, Unmap, Steps, Kinds, Fits, Whole
<1>5. GrowingData'
  BY DEF IInv, TypeOK, InProgress, Between, Arguments, Creating, GrowingData, DroppingData, GrowingNodes, GrowingList, Unmap, Steps, Kinds, Fits, Whole
<1>6. DroppingData'
  BY DEF IInv, TypeOK, InProgress, Between, Arguments, Creating, GrowingData, DroppingData, GrowingNodes, GrowingList, Unmap, Steps, Kinds, Fits, Whole
<1>7. GrowingNodes'
  BY DEF IInv, TypeOK, InProgress, Between, Arguments, Creating, GrowingData, DroppingData, GrowingNodes, GrowingList, Unmap, Steps, Kinds, Fits, Whole
<1>8. GrowingList'
  BY DEF IInv, TypeOK, InProgress, Between, Arguments, Creating, GrowingData, DroppingData, GrowingNodes, GrowingList, Unmap, Steps, Kinds, Fits, Whole
<1> QED  BY <1>1, <1>2, <1>3, <1>4, <1>5, <1>6, <1>7, <1>8 DEF IInv

(* Mapping again sets md where the sizes asked for put it. *)
LEMMA MapFileStep == IInv /\ MapFile => IInv'
<1> SUFFICES ASSUME IInv, MapFile PROVE IInv'
  OBVIOUS
<1>1. TypeOK'
  BY DEF IInv, TypeOK, MapFile, Steps, Kinds
<1>2. Between'
  BY DEF IInv, TypeOK, InProgress, Between, Arguments, Creating, GrowingData, DroppingData, GrowingNodes, GrowingList, MapFile, Steps, Kinds, Fits, Whole
<1>3. Arguments'
  BY DEF IInv, TypeOK, InProgress, Between, Arguments, Creating, GrowingData, DroppingData, GrowingNodes, GrowingList, MapFile, Steps, Kinds, Fits, Whole
<1>4. Creating'
  BY DEF IInv, TypeOK, InProgress, Between, Arguments, Creating, GrowingData, DroppingData, GrowingNodes, GrowingList, MapFile, Steps, Kinds, Fits, Whole
<1>5. GrowingData'
  BY DEF IInv, TypeOK, InProgress, Between, Arguments, Creating, GrowingData, DroppingData, GrowingNodes, GrowingList, MapFile, Steps, Kinds, Fits, Whole
<1>6. DroppingData'
  BY DEF IInv, TypeOK, InProgress, Between, Arguments, Creating, GrowingData, DroppingData, GrowingNodes, GrowingList, MapFile, Steps, Kinds, Fits, Whole
<1>7. GrowingNodes'
  BY DEF IInv, TypeOK, InProgress, Between, Arguments, Creating, GrowingData, DroppingData, GrowingNodes, GrowingList, MapFile, Steps, Kinds, Fits, Whole
<1>8. GrowingList'
  BY DEF IInv, TypeOK, InProgress, Between, Arguments, Creating, GrowingData, DroppingData, GrowingNodes, GrowingList, MapFile, Steps, Kinds, Fits, Whole
<1> QED  BY <1>1, <1>2, <1>3, <1>4, <1>5, <1>6, <1>7, <1>8 DEF IInv

(* The first of the two stores into the header: only sizes beyond what is relied on change. *)
LEMMA SetMDSizeStep == IInv /\ SetMDSize => IInv'
<1> SUFFICES ASSUME IInv, SetMDSize PROVE IInv'
  OBVIOUS
<1>1. TypeOK'
  BY DEF IInv, TypeOK, SetMDSize, Steps, Kinds
<1>2. Between'
  BY DEF IInv, TypeOK, InProgress, Between, Arguments, Creating, GrowingData, DroppingData, GrowingNodes, GrowingList, SetMDSize, Steps, Kinds, Fits, Whole
<1>3. Arguments'
  BY DEF IInv, TypeOK, InProgress, Between, Arguments, Creating, GrowingData, DroppingData, GrowingNodes, GrowingList, SetMDSize, Steps, Kinds, Fits, Whole
<1>4. Creating'
  BY DEF IInv, TypeOK, InProgress, Between, Arguments, Creating, GrowingData, DroppingData, GrowingNodes, GrowingList, SetMDSize, Steps, Kinds, Fits, Whole
<1>5. GrowingData'
  BY DEF IInv, TypeOK, InProgress, Between, Arguments, Creating, GrowingData, DroppingData, GrowingNodes, GrowingList, SetMDSize, Steps, Kinds, Fits, Whole
<1>6. DroppingData'
  BY DEF IInv, TypeOK, InProgress, Between, Arguments, Creating, GrowingData, DroppingData, GrowingNodes, GrowingList, SetMDSize, Steps, Kinds, Fits, Whole
<1>7. GrowingNodes'
  <2> SUFFICES ASSUME op.kind = "growNodes" PROVE GrowingNodes'
    BY DEF GrowingNodes, SetMDSize
  <2>1. /\ op.data = head.data /\ op.md = head.md + 1 /\ DOMAIN file = 0 .. op.md + op.data - 1
        /\ Whole(file, promised, head) /\ Fits(promised, head.list, op.md - 1, head.data)
    BY DEF IInv, Arguments, GrowingNodes, InProgress, SetMDSize
  <2>2. Whole(file, promised, head')
    <3>1. head.md <= op.md
      BY <2>1 DEF IInv, TypeOK
    <3> QED  BY <2>1, <3>1, WholeWithMore DEF IInv, TypeOK, SetMDSize
  <2>3. head'.data = head.data /\ head'.list = head.list /\ head'.md = op.md
    BY DEF IInv, TypeOK, SetMDSize
  <2> QED
    BY <2>1, <2>2, <2>3 DEF GrowingNodes, SetMDSize
<1>8. GrowingList'
  <2> SUFFICES ASSUME op.kind = "growList" PROVE GrowingList'
    BY DEF GrowingList, SetMDSize
  <2>1. /\ op.data = head.data /\ op.md = head.md + op.by /\ DOMAIN file = 0 .. op.md + op.data - 1
        /\ Whole(file, promised, head) /\ Fits(promised, head.list, op.md - op.by, head.data)
        /\ op.by >= 1
    BY DEF IInv, Arguments, GrowingList, InProgress, SetMDSize
  <2>2. head.md <= op.md
    BY <2>1 DEF IInv, TypeOK
  <2>3. Whole(file, promised, head')
    BY <2>1, <2>2, WholeWithMore DEF IInv, TypeOK, SetMDSize
  <2>4. head'.data = head.data /\ head'.list = head.list /\ head'.md = op.md
    BY DEF IInv, TypeOK, SetMDSize
  <2> QED
    BY <2>1, <2>3, <2>4 DEF GrowingList, SetMDSize
<1> QED  BY <1>1, <1>2, <1>3, <1>4, <1>5, <1>6, <1>7, <1>8 DEF IInv

(* The second store: from here the header asks for the metadata at its new place. *)
LEMMA SetDataSizeStep == IInv /\ SetDataSize => IInv'
<1> SUFFICES ASSUME IInv, SetDataSize PROVE IInv'
  OBVIOUS
<1>1. TypeOK'
  BY DEF IInv, TypeOK, SetDataSize, Steps, Kinds, AfterTrunc, NoOp
<1>2. Between'
  <2> SUFFICES ASSUME pc' = "idle"
               PROVE  mapped' /\ md' = head'.data /\ promised'.made /\ Whole(file', promised', head')
    BY DEF SetDataSize, AfterTrunc, Between
  <2>1. op.kind = "dropData"
    BY DEF IInv, TypeOK, Kinds, Arguments, InProgress, SetDataSize, AfterTrunc
  <2> QED
    BY <2>1 DEF IInv, TypeOK, InProgress, Arguments, DroppingData, SetDataSize, Whole, Covers
<1>3. Arguments'
  BY DEF IInv, TypeOK, InProgress, Between, Arguments, Creating, GrowingData, DroppingData, GrowingNodes, GrowingList, SetDataSize, Steps, Kinds, AfterTrunc, NoOp, Fits, Whole
<1>4. Creating'
  BY DEF IInv, TypeOK, InProgress, Between, Arguments, Creating, GrowingData, DroppingData, GrowingNodes, GrowingList, SetDataSize, Steps, Kinds, AfterTrunc, NoOp, Fits, Whole
<1>5. GrowingData'
  <2> SUFFICES ASSUME op.kind = "growData" PROVE GrowingData'
    BY DEF GrowingData, InProgress, SetDataSize, AfterTrunc
  <2>1. /\ op.md = head.md /\ op.data = head.data + op.by /\ Whole(file, promised, head)
        /\ mapped /\ md = op.data /\ DOMAIN file = 0 .. op.md + op.data - 1
    BY DEF IInv, Arguments, GrowingData, InProgress, SetDataSize
  <2>2. \A j \in 0 .. head.md - 1 :
          Right(file, promised.nodes, head.list, head.data + j, j)
    BY <2>1, WholeIsRight DEF IInv, TypeOK
  <2>3. \A j \in 0 .. op.md - 1 :
          Right(file, promised.nodes, head.list,
                IF j >= op.md - 0 THEN md + j ELSE md - op.by + j, j)
    <3> TAKE j \in 0 .. op.md - 1
    <3>1. ~(j >= op.md - 0) /\ md - op.by + j = head.data + j
      BY <2>1, SMTT(30) DEF IInv, TypeOK
    <3> QED  BY <2>1, <2>2, <3>1
  <2>4. op.data - op.by = head.data /\ op.by <= op.data /\ 0 <= op.md
    BY <2>1 DEF IInv, TypeOK
  <2>5. Fits(promised, head.list, op.md, op.data - op.by) /\ DataIn(file, promised.data)
    BY <2>1, <2>4 DEF Whole
  <2>6. head'.data = op.data /\ head'.md = head.md /\ head'.list = head.list
    BY DEF IInv, TypeOK, SetDataSize
  <2> QED
    BY <2>1, <2>3, <2>4, <2>5, <2>6 DEF GrowingData, SetDataSize, AfterTrunc
<1>6. DroppingData'
  BY DEF IInv, TypeOK, InProgress, Between, Arguments, Creating, GrowingData, DroppingData, GrowingNodes, GrowingList, SetDataSize, Steps, Kinds, AfterTrunc, NoOp, Fits, Whole
<1>7. GrowingNodes'
  BY DEF IInv, TypeOK, InProgress, Between, Arguments, Creating, GrowingData, DroppingData, GrowingNodes, GrowingList, SetDataSize, Steps, Kinds, AfterTrunc, NoOp, Fits, Whole
<1>8. GrowingList'
  <2> SUFFICES ASSUME op.kind = "growList" PROVE GrowingList'
    BY DEF GrowingList, SetDataSize, NoOp
  <2>1. /\ op.data = head.data /\ op.md = head.md /\ op.by >= 1
        /\ Whole(file, promised, head) /\ Fits(promised, head.list, op.md - op.by, head.data)
        /\ mapped /\ md = op.data /\ DOMAIN file = 0 .. op.md + op.data - 1
    BY DEF IInv, Arguments, GrowingList, InProgress, SetDataSize
  <2>2. NodesIn(file, promised.nodes, md, head.list)
    BY <2>1 DEF Whole
  <2>3. ASSUME NEW k \in promised.nodes
        PROVE  NodeIn(file, IF k >= op.md - op.by - 1 - head.list - 0
                            THEN md + 1 + head.list + op.by + k
                            ELSE md + 1 + head.list + k, k)
    <3>1. ~(k >= op.md - op.by - 1 - head.list - 0)
      BY <2>1, SMTT(30) DEF IInv, TypeOK, Fits
    <3> QED  BY <2>2, <3>1 DEF NodesIn
  <2>4. 0 <= op.md - op.by - 1 - head.list
    BY <2>1 DEF IInv, TypeOK, Fits
  <2>5. head'.data = op.data /\ head'.md = head.md /\ head'.list = head.list
    BY DEF IInv, TypeOK, SetDataSize
  <2> QED
    BY <2>1, <2>2, <2>3, <2>4, <2>5 DEF Whole, GrowingList, SetDataSize, AfterTrunc
<1> QED  BY <1>1, <1>2, <1>3, <1>4, <1>5, <1>6, <1>7, <1>8 DEF IInv

(* At the end of a move the whole metadata is at its new place. *)
LEMMA EndMoveStep == IInv /\ EndMove => IInv'
<1> SUFFICES ASSUME IInv, EndMove PROVE IInv'
  OBVIOUS
<1>1. TypeOK'
  BY DEF IInv, TypeOK, EndMove, Steps, Kinds, AfterMove, MoveCount
<1>2. Between'
  BY DEF IInv, TypeOK, InProgress, Between, Arguments, Creating, GrowingData, DroppingData, GrowingNodes, GrowingList, EndMove, Steps, Kinds, AfterMove, MoveCount, Fits, Whole
<1>3. Arguments'
  BY DEF IInv, TypeOK, InProgress, Between, Arguments, Creating, GrowingData, DroppingData, GrowingNodes, GrowingList, EndMove, Steps, Kinds, AfterMove, MoveCount, Fits, Whole
<1>4. Creating'
  BY DEF IInv, TypeOK, InProgress, Between, Arguments, Creating, GrowingData, DroppingData, GrowingNodes, GrowingList, EndMove, Steps, Kinds, AfterMove, MoveCount, Fits, Whole
<1>5. GrowingData'
  <2> SUFFICES ASSUME op.kind = "growData" PROVE GrowingData'
    BY DEF GrowingData, EndMove
  <2>1. /\ mapped /\ md = op.data /\ head.data = op.data /\ op.by <= op.data /\ done = op.md
        /\ Fits(promised, head.list, op.md, op.data - op.by)
    BY DEF IInv, TypeOK, GrowingData, InProgress, EndMove, MoveCount
  <2>2. \A j \in 0 .. op.md - 1 : Right(file, promised.nodes, head.list, md + j, j)
    <3> TAKE j \in 0 .. op.md - 1
    <3>1. j >= op.md - done
      BY <2>1 DEF IInv, TypeOK
    <3> QED  BY <3>1 DEF IInv, GrowingData, InProgress, EndMove
  <2>3. ListIn(file, md, head.list) /\ NodesIn(file, promised.nodes, md, head.list)
    BY <2>1, <2>2, RightIsFound DEF IInv, TypeOK
  <2> QED
    BY <2>1, <2>3 DEF IInv, TypeOK, InProgress, GrowingData, EndMove, AfterMove
<1>6. DroppingData'
  <2> SUFFICES ASSUME op.kind = "dropData" PROVE DroppingData'
    BY DEF DroppingData, EndMove
  <2>1. done = op.md /\ md = head.data /\ Fits(promised, head.list, op.md, op.data)
    BY DEF IInv, TypeOK, DroppingData, InProgress, EndMove, MoveCount
  <2>2. \A j \in 0 .. op.md - 1 : Right(file, promised.nodes, head.list, op.data + j, j)
    <3> TAKE j \in 0 .. op.md - 1
    <3>1. j < done
      BY <2>1 DEF IInv, TypeOK
    <3> QED  BY <3>1 DEF IInv, DroppingData, InProgress, EndMove
  <2>3. ListIn(file, op.data, head.list) /\ NodesIn(file, promised.nodes, op.data, head.list)
    BY <2>1, <2>2, RightIsFound DEF IInv, TypeOK
  <2> QED
    BY <2>1, <2>3 DEF IInv, TypeOK, InProgress, DroppingData, EndMove, AfterMove
<1>7. GrowingNodes'
  BY DEF IInv, TypeOK, InProgress, Between, Arguments, Creating, GrowingData, DroppingData, GrowingNodes, GrowingList, EndMove, Steps, Kinds, AfterMove, MoveCount, Fits, Whole
<1>8. GrowingList'
  BY DEF IInv, TypeOK, InProgress, Between, Arguments, Creating, GrowingData, DroppingData, GrowingNodes, GrowingList, EndMove, Steps, Kinds, AfterMove, MoveCount, Fits, Whole
<1> QED  BY <1>1, <1>2, <1>3, <1>4, <1>5, <1>6, <1>7, <1>8 DEF IInv

(* HeadSetListBlocks after the move: node blocks are found again, new list blocks are not. *)
LEMMA SetListBlocksStep == IInv /\ SetListBlocks => IInv'
<1> SUFFICES ASSUME IInv, SetListBlocks PROVE IInv'
  OBVIOUS
<1>1. TypeOK'
  BY SMTT(30) DEF IInv, TypeOK, SetListBlocks, Steps, Kinds
<1>2. Between'
  BY DEF IInv, TypeOK, InProgress, Between, Arguments, Creating, GrowingData, DroppingData, GrowingNodes, GrowingList, SetListBlocks, Steps, Kinds, Fits, Whole
<1>3. Arguments'
  BY DEF IInv, TypeOK, InProgress, Between, Arguments, Creating, GrowingData, DroppingData, GrowingNodes, GrowingList, SetListBlocks, Steps, Kinds, Fits, Whole
<1>4. Creating'
  BY DEF IInv, TypeOK, InProgress, Between, Arguments, Creating, GrowingData, DroppingData, GrowingNodes, GrowingList, SetListBlocks, Steps, Kinds, Fits, Whole
<1>5. GrowingData'
  BY DEF IInv, TypeOK, InProgress, Between, Arguments, Creating, GrowingData, DroppingData, GrowingNodes, GrowingList, SetListBlocks, Steps, Kinds, Fits, Whole
<1>6. DroppingData'
  BY DEF IInv, TypeOK, InProgress, Between, Arguments, Creating, GrowingData, DroppingData, GrowingNodes, GrowingList, SetListBlocks, Steps, Kinds, Fits, Whole
<1>7. GrowingNodes'
  BY DEF IInv, TypeOK, InProgress, Between, Arguments, Creating, GrowingData, DroppingData, GrowingNodes, GrowingList, SetListBlocks, Steps, Kinds, Fits, Whole
<1>8. GrowingList'
  <2> SUFFICES ASSUME op.kind = "growList" PROVE GrowingList'
    BY DEF GrowingList, SetListBlocks
  <2>1. op.md \in Nat /\ op.by \in Nat /\ head.list \in Nat /\ md \in Nat
    BY DEF IInv, TypeOK
  <2>2. Fits(promised, head.list, op.md - op.by, head.data)
    BY DEF IInv, GrowingList, InProgress, SetListBlocks
  <2>3. done = op.md - op.by - 1 - head.list
    BY DEF IInv, GrowingList, InProgress, SetListBlocks
  <2>4. Fits(promised, head.list + op.by, op.md, head.data)
    BY <2>1, <2>2 DEF Fits
  <2>5. NodesIn(file, promised.nodes, md, head.list + op.by)
    <3> SUFFICES ASSUME NEW k \in promised.nodes
                 PROVE  NodeIn(file, md + 1 + (head.list + op.by) + k, k)
      BY DEF NodesIn
    <3>1. k \in Nat
      BY DEF IInv, TypeOK
    <3>2. k >= op.md - op.by - 1 - head.list - done
      BY <2>1, <2>3, <3>1
    <3>3. NodeIn(file, md + 1 + head.list + op.by + k, k)
      BY <3>2 DEF IInv, GrowingList, InProgress, SetListBlocks
    <3>4. md + 1 + head.list + op.by + k = md + 1 + (head.list + op.by) + k
      BY <2>1, <3>1
    <3> QED  BY <3>3, <3>4
  <2>6. /\ head'.list = head.list + op.by /\ head'.md = head.md /\ head'.data = head.data
        /\ head'.list - op.by = head.list /\ op.by <= head'.list
    BY DEF IInv, TypeOK, SetListBlocks
  <2>7. /\ op.data = head.data /\ op.by >= 1 /\ op.md = head.md
        /\ DataIn(file, promised.data) /\ ListIn(file, md, head.list)
    BY DEF IInv, GrowingList, InProgress, SetListBlocks
  <2> QED
    BY <2>4, <2>5, <2>6, <2>7 DEF GrowingList, SetListBlocks
<1> QED  BY <1>1, <1>2, <1>3, <1>4, <1>5, <1>6, <1>7, <1>8 DEF IInv

(* HeadInit clears the header of an archive nobody relies on yet. *)
LEMMA HeadInitStep == IInv /\ HeadInit => IInv'
<1> SUFFICES ASSUME IInv, HeadInit PROVE IInv'
  OBVIOUS
<1>1. TypeOK'
  BY DEF IInv, TypeOK, HeadInit, Steps, Kinds
<1>2. Between'
  BY DEF IInv, TypeOK, InProgress, Between, Arguments, Creating, GrowingData, DroppingData, GrowingNodes, GrowingList, HeadInit, Steps, Kinds, Fits, Whole
<1>3. Arguments'
  BY DEF IInv, TypeOK, InProgress, Between, Arguments, Creating, GrowingData, DroppingData, GrowingNodes, GrowingList, HeadInit, Steps, Kinds, Fits, Whole
<1>4. Creating'
  BY DEF IInv, TypeOK, InProgress, Between, Arguments, Creating, GrowingData, DroppingData, GrowingNodes, GrowingList, HeadInit, Steps, Kinds, Fits, Whole
<1>5. GrowingData'
  BY DEF IInv, TypeOK, InProgress, Between, Arguments, Creating, GrowingData, DroppingData, GrowingNodes, GrowingList, HeadInit, Steps, Kinds, Fits, Whole
<1>6. DroppingData'
  BY DEF IInv, TypeOK, InProgress, Between, Arguments, Creating, GrowingData, DroppingData, GrowingNodes, GrowingList, HeadInit, Steps, Kinds, Fits, Whole
<1>7. GrowingNodes'
  BY DEF IInv, TypeOK, InProgress, Between, Arguments, Creating, GrowingData, DroppingData, GrowingNodes, GrowingList, HeadInit, Steps, Kinds, Fits, Whole
<1>8. GrowingList'
  BY DEF IInv, TypeOK, InProgress, Between, Arguments, Creating, GrowingData, DroppingData, GrowingNodes, GrowingList, HeadInit, Steps, Kinds, Fits, Whole
<1> QED  BY <1>1, <1>2, <1>3, <1>4, <1>5, <1>6, <1>7, <1>8 DEF IInv

(* Interrupted outside the windows, what is on disk is whole. *)
LEMMA InterruptStep == IInv /\ Interrupt => IInv'
<1> SUFFICES ASSUME IInv, Interrupt PROVE IInv'
  OBVIOUS
<1>1. TypeOK'
  BY DEF IInv, TypeOK, Interrupt, Steps, Kinds, NoOp, InWindow, MoveCount
<1>2. Between'
  <2> SUFFICES ASSUME promised.made, ~InWindow PROVE Whole(file, promised, head)
    BY DEF Between, Interrupt
  <2>1. InProgress /\ op.kind \in Kinds \ {"none", "create"}
    BY DEF IInv, TypeOK, InProgress, Arguments, Creating, Interrupt
  <2>2. CASE op.kind = "growData"
    <3>1. CASE pc \in {"unmap", "truncate", "map", "setMD", "setData"}
      BY <2>1, <2>2, <3>1 DEF IInv, GrowingData
    <3>2. CASE pc = "format"
      BY <2>1, <2>2, <3>2 DEF IInv, TypeOK, GrowingData, Fits, Whole, Covers
    <3>3. CASE pc = "move"
      <4>1. done = op.md \/ op.by = 0
        BY <2>1, <2>2, <3>3 DEF IInv, TypeOK, GrowingData, InWindow, MoveCount
      <4>2. \A j \in 0 .. op.md - 1 : Right(file, promised.nodes, head.list, md + j, j)
        <5> TAKE j \in 0 .. op.md - 1
        <5>1. (IF j >= op.md - done THEN md + j ELSE md - op.by + j) = md + j
          BY <4>1, SMTT(30) DEF IInv, TypeOK
        <5> QED  BY <2>1, <2>2, <3>3, <5>1 DEF IInv, GrowingData
      <4>3. /\ md = op.data /\ head.data = op.data /\ op.md = head.md
            /\ Fits(promised, head.list, op.md, op.data - op.by)
        BY <2>1, <2>2, <3>3 DEF IInv, GrowingData
      <4>4. ListIn(file, md, head.list) /\ NodesIn(file, promised.nodes, md, head.list)
        BY <4>2, <4>3, RightIsFound DEF IInv, TypeOK
      <4> QED
        BY <2>1, <2>2, <3>3, <4>3, <4>4, SMTT(30) DEF IInv, TypeOK, GrowingData, Fits, Whole, Covers
    <3> QED  BY <2>1, <2>2, <3>1, <3>2, <3>3 DEF IInv, GrowingData
  <2>3. CASE op.kind = "dropData"
    BY <2>1, <2>3, SMTT(30) DEF IInv, TypeOK, DroppingData, InWindow, Fits, Whole
  <2>4. CASE op.kind = "growNodes"
    BY <2>1, <2>4 DEF IInv, GrowingNodes
  <2>5. CASE op.kind = "growList"
    <3>1. CASE pc \in {"unmap", "truncate", "map", "setMD", "setData"}
      BY <2>1, <2>5, <3>1 DEF IInv, GrowingList
    <3>2. CASE pc \in {"move", "setList"}
      <4>1. /\ op.data = head.data /\ op.md = head.md /\ md = op.data /\ op.by >= 1
            /\ Fits(promised, head.list, op.md - op.by, head.data)
            /\ DOMAIN file = 0 .. op.md + op.data - 1
            /\ DataIn(file, promised.data) /\ ListIn(file, md, head.list)
        BY <2>1, <2>5, <3>2 DEF IInv, GrowingList
      <4>2. ASSUME NEW k \in promised.nodes
            PROVE  k < op.by \/ k - op.by < op.md - op.by - 1 - head.list - done
        <5>1. MoveCount = head.md - (1 + head.list + op.by)
          BY <2>5 DEF MoveCount
        <5>2. ~(k >= op.by /\ k - op.by >= MoveCount - done)
          BY <2>5, <3>2 DEF InWindow
        <5>3. /\ k \in Nat /\ op.by \in Nat /\ op.md \in Nat /\ head.list \in Nat /\ done \in Nat
              /\ head.md = op.md
          BY <4>1 DEF IInv, TypeOK
        <5> QED  BY <5>1, <5>2, <5>3
      <4>3. NodesIn(file, promised.nodes, md, head.list)
        BY <2>1, <2>5, <3>2, <4>2 DEF IInv, GrowingList
      <4>4. op.md - op.by \in Int /\ op.md - op.by <= op.md /\ op.md \in Int
        BY <4>1 DEF IInv, TypeOK
      <4>5. Fits(promised, head.list, op.md, head.data)
        BY <4>1, <4>4, FitsInMore DEF IInv, TypeOK
      <4>6. Covers(file, head.data + head.md)
        BY <4>1 DEF IInv, TypeOK, Covers
      <4> QED  BY <4>1, <4>3, <4>5, <4>6 DEF Whole
    <3> QED  BY <2>1, <2>5, <3>1, <3>2 DEF IInv, GrowingList, InWindow
  <2> QED  BY <2>1, <2>2, <2>3, <2>4, <2>5 DEF Kinds
<1>3. Arguments'
  BY DEF IInv, TypeOK, InProgress, Between, Arguments, Creating, GrowingData, DroppingData, GrowingNodes, GrowingList, Interrupt, Steps, Kinds, NoOp, InWindow, MoveCount, Fits, Whole
<1>4. Creating'
  BY DEF IInv, TypeOK, InProgress, Between, Arguments, Creating, GrowingData, DroppingData, GrowingNodes, GrowingList, Interrupt, Steps, Kinds, NoOp, InWindow, MoveCount, Fits, Whole
<1>5. GrowingData'
  BY DEF IInv, TypeOK, InProgress, Between, Arguments, Creating, GrowingData, DroppingData, GrowingNodes, GrowingList, Interrupt, Steps, Kinds, NoOp, InWindow, MoveCount, Fits, Whole
<1>6. DroppingData'
  BY DEF IInv, TypeOK, InProgress, Between, Arguments, Creating, GrowingData, DroppingData, GrowingNodes, GrowingList, Interrupt, Steps, Kinds, NoOp, InWindow, MoveCount, Fits, Whole
<1>7. GrowingNodes'
  BY DEF IInv, TypeOK, InProgress, Between, Arguments, Creating, GrowingData, DroppingData, GrowingNodes, GrowingList, Interrupt, Steps, Kinds, NoOp, InWindow, MoveCount, Fits, Whole
<1>8. GrowingList'
  BY DEF IInv, TypeOK, InProgress, Between, Arguments, Creating, GrowingData, DroppingData, GrowingNodes, GrowingList, Interrupt, Steps, Kinds, NoOp, InWindow, MoveCount, Fits, Whole
<1> QED  BY <1>1, <1>2, <1>3, <1>4, <1>5, <1>6, <1>7, <1>8 DEF IInv

(* CIBCreate starts: an older archive is given up. *)
LEMMA CreateStep ==
    ASSUME NEW d \in 1 .. MaxData, NEW l \in 1 .. MaxMD, NEW n \in 1 .. MaxMD, 1 + l + n <= MaxMD,
           IInv, Create(d, l, n)
    PROVE  IInv'
<1>1. TypeOK'
  <2>1. op' \in [kind : Kinds, by : Nat, md : Nat, data : Nat]
    <3>1. l \in Nat /\ 1 + n + l \in Nat /\ d \in Nat /\ "create" \in Kinds
      BY PartitionsAssumption DEF Kinds
    <3> QED  BY <3>1 DEF Create
  <2>2. promised' \in [made : BOOLEAN, data : SUBSET Nat, nodes : SUBSET Nat]
    BY DEF Create, Nothing
  <2> QED
    BY <2>1, <2>2 DEF IInv, TypeOK, Create, Steps
<1>2. Between'
  BY PartitionsAssumption DEF IInv, TypeOK, InProgress, Between, Arguments, Creating, GrowingData, DroppingData, GrowingNodes, GrowingList, Create, Steps, Kinds, Nothing, Fits, Whole
<1>3. Arguments'
  BY PartitionsAssumption DEF IInv, TypeOK, InProgress, Between, Arguments, Creating, GrowingData, DroppingData, GrowingNodes, GrowingList, Create, Steps, Kinds, Nothing, Fits, Whole
<1>4. Creating'
  BY PartitionsAssumption DEF IInv, TypeOK, InProgress, Between, Arguments, Creating, GrowingData, DroppingData, GrowingNodes, GrowingList, Create, Steps, Kinds, Nothing, Fits, Whole
<1>5. GrowingData'
  BY PartitionsAssumption DEF IInv, TypeOK, InProgress, Between, Arguments, Creating, GrowingData, DroppingData, GrowingNodes, GrowingList, Create, Steps, Kinds, Nothing, Fits, Whole
<1>6. DroppingData'
  BY PartitionsAssumption DEF IInv, TypeOK, InProgress, Between, Arguments, Creating, GrowingData, DroppingData, GrowingNodes, GrowingList, Create, Steps, Kinds, Nothing, Fits, Whole
<1>7. GrowingNodes'
  BY PartitionsAssumption DEF IInv, TypeOK, InProgress, Between, Arguments, Creating, GrowingData, DroppingData, GrowingNodes, GrowingList, Create, Steps, Kinds, Nothing, Fits, Whole
<1>8. GrowingList'
  BY PartitionsAssumption DEF IInv, TypeOK, InProgress, Between, Arguments, Creating, GrowingData, DroppingData, GrowingNodes, GrowingList, Create, Steps, Kinds, Nothing, Fits, Whole
<1> QED  BY <1>1, <1>2, <1>3, <1>4, <1>5, <1>6, <1>7, <1>8 DEF IInv

(* The start of CIBAppend's and DFreeListRequestChunk's growth changes no block. *)
LEMMA GrowDataStep ==
    ASSUME NEW by \in Nat, IInv, GrowData(by)
    PROVE  IInv'
<1>1. TypeOK'
  <2>1. op' \in [kind : Kinds, by : Nat, md : Nat, data : Nat]
    <3>1. head.md \in Nat /\ head.data + by \in Nat /\ by \in Nat /\ "growData" \in Kinds
      BY DEF IInv, TypeOK, Kinds
    <3> QED  BY <3>1 DEF GrowData, Start
  <2> QED
    BY <2>1 DEF IInv, TypeOK, GrowData, Start, Steps
<1>2. Between'
  BY PartitionsAssumption DEF IInv, TypeOK, InProgress, Between, Arguments, Creating, GrowingData, DroppingData, GrowingNodes, GrowingList, GrowData, Steps, Kinds, Start, Fits, Whole
<1>3. Arguments'
  BY PartitionsAssumption, SMTT(30) DEF IInv, TypeOK, InProgress, Between, Arguments, Creating, GrowingData, DroppingData, GrowingNodes, GrowingList, GrowData, Steps, Kinds, Start, Fits, Whole
<1>4. Creating'
  BY PartitionsAssumption DEF IInv, TypeOK, InProgress, Between, Arguments, Creating, GrowingData, DroppingData, GrowingNodes, GrowingList, GrowData, Steps, Kinds, Start, Fits, Whole
<1>5. GrowingData'
  BY PartitionsAssumption DEF IInv, TypeOK, InProgress, Between, Arguments, Creating, GrowingData, DroppingData, GrowingNodes, GrowingList, GrowData, Steps, Kinds, Start, Fits, Whole
<1>6. DroppingData'
  BY PartitionsAssumption DEF IInv, TypeOK, InProgress, Between, Arguments, Creating, GrowingData, DroppingData, GrowingNodes, GrowingList, GrowData, Steps, Kinds, Start, Fits, Whole
<1>7. GrowingNodes'
  BY PartitionsAssumption DEF IInv, TypeOK, InProgress, Between, Arguments, Creating, GrowingData, DroppingData, GrowingNodes, GrowingList, GrowData, Steps, Kinds, Start, Fits, Whole
<1>8. GrowingList'
  BY PartitionsAssumption DEF IInv, TypeOK, InProgress, Between, Arguments, Creating, GrowingData, DroppingData, GrowingNodes, GrowingList, GrowData, Steps, Kinds, Start, Fits, Whole
<1> QED  BY <1>1, <1>2, <1>3, <1>4, <1>5, <1>6, <1>7, <1>8 DEF IInv

(* The start of FreeListIncreaseListSize changes no block. *)
LEMMA GrowListStep ==
    ASSUME NEW by \in Nat \ {0}, IInv, GrowList(by)
    PROVE  IInv'
<1>1. TypeOK'
  <2>1. op' \in [kind : Kinds, by : Nat, md : Nat, data : Nat]
    <3>1. head.md + by \in Nat /\ head.data \in Nat /\ by \in Nat /\ "growList" \in Kinds
      BY DEF IInv, TypeOK, Kinds
    <3> QED  BY <3>1 DEF GrowList, Start
  <2> QED
    BY <2>1 DEF IInv, TypeOK, GrowList, Start, Steps
<1>2. Between'
  BY PartitionsAssumption DEF IInv, TypeOK, InProgress, Between, Arguments, Creating, GrowingData, DroppingData, GrowingNodes, GrowingList, GrowList, Steps, Kinds, Start, Fits, Whole
<1>3. Arguments'
  BY PartitionsAssumption DEF IInv, TypeOK, InProgress, Between, Arguments, Creating, GrowingData, DroppingData, GrowingNodes, GrowingList, GrowList, Steps, Kinds, Start, Fits, Whole
<1>4. Creating'
  BY PartitionsAssumption DEF IInv, TypeOK, InProgress, Between, Arguments, Creating, GrowingData, DroppingData, GrowingNodes, GrowingList, GrowList, Steps, Kinds, Start, Fits, Whole
<1>5. GrowingData'
  BY PartitionsAssumption DEF IInv, TypeOK, InProgress, Between, Arguments, Creating, GrowingData, DroppingData, GrowingNodes, GrowingList, GrowList, Steps, Kinds, Start, Fits, Whole
<1>6. DroppingData'
  BY PartitionsAssumption DEF IInv, TypeOK, InProgress, Between, Arguments, Creating, GrowingData, DroppingData, GrowingNodes, GrowingList, GrowList, Steps, Kinds, Start, Fits, Whole
<1>7. GrowingNodes'
  BY PartitionsAssumption DEF IInv, TypeOK, InProgress, Between, Arguments, Creating, GrowingData, DroppingData, GrowingNodes, GrowingList, GrowList, Steps, Kinds, Start, Fits, Whole
<1>8. GrowingList'
  BY PartitionsAssumption, SMTT(30) DEF IInv, TypeOK, InProgress, Between, Arguments, Creating, GrowingData, DroppingData, GrowingNodes, GrowingList, GrowList, Steps, Kinds, Start, Fits, Whole
<1> QED  BY <1>1, <1>2, <1>3, <1>4, <1>5, <1>6, <1>7, <1>8 DEF IInv

(* DFreeListRemoveLastChunk gives up the blocks it is about to drop. *)
LEMMA DropDataStep ==
    ASSUME NEW by \in Nat \ {0}, IInv, DropData(by)
    PROVE  IInv'
<1>a. /\ pc = "idle" /\ mapped /\ md = head.data /\ promised.made
      /\ Whole(file, promised, head)
  BY DEF IInv, Between, DropData, Start
<1>b. head.data - by \in Nat
  <2>1. head.data - by \in head.data - by .. head.data - 1
    BY DEF IInv, TypeOK
  <2> QED  BY <2>1 DEF IInv, TypeOK, DropData
<1>c. /\ op'.kind = "dropData" /\ op'.by = by /\ op'.md = head.md /\ op'.data = head.data - by
      /\ done' = 0 /\ pc' = "move" /\ UNCHANGED <<file, head, md, mapped, lost>>
      /\ promised'.data = promised.data \ (head.data - by .. head.data - 1)
      /\ promised'.nodes = promised.nodes /\ promised'.made
  BY <1>a DEF IInv, TypeOK, DropData, Start
<1>1. TypeOK'
  BY <1>b DEF IInv, TypeOK, DropData, Start, Steps, Kinds
<1>2. Between'
  BY <1>c DEF Between
<1>3. Arguments'
  <2>1. head.md <= MaxMD /\ head.data - by <= MaxData
    BY DEF DropData, Start
  <2>2. head.md >= 1
    BY <1>a DEF IInv, TypeOK, Whole, Fits
  <2> QED  BY <1>a, <1>c, <2>1, <2>2 DEF Arguments
<1>4. Creating'
  BY <1>c DEF Creating
<1>5. GrowingData'
  BY <1>c DEF GrowingData
<1>6. DroppingData'
  <2>1. Fits(promised', head.list, head.md, head.data - by)
    <3>1. Fits(promised, head.list, head.md, head.data)
      BY <1>a DEF Whole
    <3>2. ASSUME NEW i \in promised'.data PROVE i \in 0 .. head.data - by - 1
      <4>1. i \in 0 .. head.data - 1 /\ i \notin head.data - by .. head.data - 1
        BY <1>c, <3>1 DEF Fits
      <4> QED  BY <1>b, <4>1 DEF IInv, TypeOK
    <3> QED  BY <1>c, <3>1, <3>2 DEF Fits
  <2>a. DataIn(file, promised'.data)
    BY <1>a, <1>c DEF Whole, DataIn
  <2>2. \A j \in 0 .. head.md - 1 : Right(file, promised.nodes, head.list, head.data + j, j)
    BY <1>a, WholeIsRight DEF IInv, TypeOK
  <2>3. head.data = head.data - by + by /\ 0 <= head.md /\ (\A j \in 0 .. head.md - 1 : ~(j < 0))
    BY DEF IInv, TypeOK
  <2>4. /\ Covers(file, head.data + head.md) /\ ListIn(file, head.data, head.list)
        /\ NodesIn(file, promised.nodes, head.data, head.list)
    BY <1>a DEF Whole
  <2> QED
    BY <1>a, <1>c, <2>1, <2>a, <2>2, <2>3, <2>4 DEF DroppingData
<1>7. GrowingNodes'
  BY <1>c DEF GrowingNodes
<1>8. GrowingList'
  BY <1>c DEF GrowingList
<1> QED  BY <1>1, <1>2, <1>3, <1>4, <1>5, <1>6, <1>7, <1>8 DEF IInv

(* ftruncate cuts or adds blocks behind everything that is relied on. *)
LEMMA TruncateStep == IInv /\ Truncate => IInv'
<1> SUFFICES ASSUME IInv, Truncate PROVE IInv'
  OBVIOUS
<1> DEFINE N == op.md + op.data
<1>1. /\ N \in Nat /\ N <= MaxData + MaxMD
      /\ file' = [i \in 0 .. N - 1 |-> IF i \in DOMAIN file THEN file[i] ELSE Blank]
      /\ InProgress /\ pc = "truncate" /\ pc' = "map"
      /\ UNCHANGED <<head, md, mapped, op, done, promised, lost>>
  BY PartitionsAssumption DEF IInv, TypeOK, Arguments, InProgress, Truncate
<1>2. DOMAIN file' = 0 .. N - 1
  BY <1>1
<1>3. Agree(file, file', 0 .. N - 1)
  BY <1>1 DEF Agree
<1>4. TypeOK'
  <2>1. N \in 0 .. MaxData + MaxMD
    BY <1>1, PartitionsAssumption
  <2>2. \A i \in DOMAIN file : file[i] \in Contents
    BY DEF IInv, TypeOK
  <2>3. Blank \in Contents
    BY DEF Blank, Contents
  <2>4. file' \in [0 .. N - 1 -> Contents]
    BY <1>1, <2>2, <2>3
  <2> HIDE DEF N
  <2> QED  BY <1>1, <2>1, <2>4 DEF IInv, TypeOK, Steps
<1>5. ASSUME op.md >= head.md, op.data >= head.data, Whole(file, promised, head)
      PROVE  Whole(file', promised, head)
  <2>1. 0 .. head.data + head.md - 1 \subseteq 0 .. N - 1
    BY <1>5 DEF IInv, TypeOK
  <2>2. Agree(file, file', 0 .. head.data + head.md - 1)
    BY <1>3, <2>1 DEF Agree
  <2> QED  BY <1>5, <2>2, WholeKept DEF IInv, TypeOK
<1>6. Between'
  BY <1>1 DEF Between
<1>7. Arguments'
  <2>1. DOMAIN file' = 0 .. op.md + op.data - 1
    BY <1>2 DEF IInv, TypeOK, N
  <2> HIDE DEF N
  <2> QED  BY <1>1, <2>1 DEF IInv, Arguments, InProgress
<1>8. Creating'
  BY <1>1 DEF IInv, Creating, InProgress
<1>9. GrowingData'
  <2> SUFFICES ASSUME op.kind = "growData" PROVE GrowingData'
    BY <1>1 DEF GrowingData
  <2>1. op.md = head.md /\ op.data = head.data + op.by /\ Whole(file, promised, head)
    BY <1>1 DEF IInv, GrowingData
  <2>2. Whole(file', promised, head)
    BY <1>5, <2>1 DEF IInv, TypeOK
  <2> QED  BY <1>1, <2>1, <2>2 DEF GrowingData
<1>10. DroppingData'
  <2> SUFFICES ASSUME op.kind = "dropData" PROVE DroppingData'
    BY <1>1 DEF DroppingData
  <2>1. /\ op.md = head.md /\ op.by >= 1 /\ head.data = op.data + op.by
        /\ Fits(promised, head.list, op.md, op.data) /\ DataIn(file, promised.data)
        /\ ListIn(file, op.data, head.list) /\ NodesIn(file, promised.nodes, op.data, head.list)
    BY <1>1 DEF IInv, DroppingData
  <2>2. /\ promised.data \subseteq 0 .. N - 1 /\ op.data .. op.data + head.list \subseteq 0 .. N - 1
        /\ op.data .. op.data + op.md - 1 \subseteq 0 .. N - 1
    BY <2>1, SMTT(30) DEF IInv, TypeOK, Fits
  <2>3. DataIn(file', promised.data) /\ ListIn(file', op.data, head.list)
    <3>1. op.data \in Nat /\ head.list \in Nat
      BY DEF IInv, TypeOK
    <3>2. DataIn(file', promised.data)
      BY <1>3, <2>1, <2>2, PartsKept
    <3>3. ListIn(file', op.data, head.list)
      BY <1>3, <2>1, <2>2, <3>1, PartsKept
    <3> QED  BY <3>2, <3>3
  <2>4. NodesIn(file', promised.nodes, op.data, head.list)
    BY <1>3, <2>1, <2>2, NodesKept DEF IInv, TypeOK
  <2> QED  BY <1>1, <2>1, <2>3, <2>4 DEF DroppingData
<1>11. GrowingNodes'
  <2> SUFFICES ASSUME op.kind = "growNodes" PROVE GrowingNodes'
    BY <1>1 DEF GrowingNodes
  <2>1. /\ op.md = head.md + 1 /\ op.data = head.data /\ Whole(file, promised, head)
        /\ Fits(promised, head.list, op.md - 1, head.data)
    BY <1>1 DEF IInv, GrowingNodes
  <2>2. Whole(file', promised, head)
    BY <1>5, <2>1 DEF IInv, TypeOK
  <2> QED  BY <1>1, <2>1, <2>2 DEF GrowingNodes
<1>12. GrowingList'
  <2> SUFFICES ASSUME op.kind = "growList" PROVE GrowingList'
    BY <1>1 DEF GrowingList
  <2>1. /\ op.md = head.md + op.by /\ op.data = head.data /\ op.by >= 1
        /\ Whole(file, promised, head)
        /\ Fits(promised, head.list, op.md - op.by, head.data)
    BY <1>1 DEF IInv, GrowingList
  <2>2. Whole(file', promised, head)
    BY <1>5, <2>1 DEF IInv, TypeOK
  <2> QED  BY <1>1, <2>1, <2>2 DEF GrowingList
<1> QED  BY <1>4, <1>6, <1>7, <1>8, <1>9, <1>10, <1>11, <1>12 DEF IInv

(* One block of a memmove: the copied blocks are right at the new place and no block is
   overwritten that has still to be copied. *)
LEMMA MoveBlockStep == IInv /\ MoveBlock => IInv'
<1> SUFFICES ASSUME IInv, MoveBlock PROVE IInv'
  OBVIOUS
<1> DEFINE to   == MoveTo + MoveNext
           from == MoveFrom + MoveNext
<1>1. /\ InProgress /\ pc = "move" /\ done < MoveCount /\ done' = done + 1
      /\ file' = [file EXCEPT ![to] = file[from]]
      /\ UNCHANGED <<head, md, mapped, pc, op, promised, lost>>
  BY DEF MoveBlock, InProgress
<1>2. op.kind \in {"growData", "dropData", "growList"}
  BY <1>1 DEF IInv, TypeOK, Kinds, Arguments, Creating, GrowingNodes
<1>3. /\ DOMAIN file' = DOMAIN file
      /\ \A i \in DOMAIN file : i # to => file'[i] = file[i]
      /\ to \in DOMAIN file => file'[to] = file[from]
  BY <1>1
<1> HIDE DEF to, from
<1>4. from \in DOMAIN file => TypeOK'
  <2> SUFFICES ASSUME from \in DOMAIN file PROVE TypeOK'
    OBVIOUS
  <2>1. PICK n \in 0 .. MaxData + MaxMD : file \in [0 .. n - 1 -> Contents]
    BY DEF IInv, TypeOK
  <2>2. file' \in [0 .. n - 1 -> Contents]
    BY <1>1, <2>1
  <2> QED  BY <1>1, <2>1, <2>2 DEF IInv, TypeOK
<1>5. Agree(file, file', DOMAIN file \ {to})
  BY <1>3 DEF Agree
<1>6. Between' /\ Arguments' /\ Creating' /\ GrowingNodes'
  BY <1>1, <1>2 DEF IInv, Between, Arguments, Creating, GrowingNodes, InProgress
<1>7. CASE op.kind = "growData"
  <2> DEFINE b == op.md - 1 - done
  <2>a. md = op.data /\ op.by <= op.data
    BY <1>1, <1>7 DEF IInv, GrowingData
  <2>c. DOMAIN file = 0 .. op.md + op.data - 1
    BY <1>1, <1>7 DEF IInv, GrowingData
  <2>b. \A i \in Int : 0 <= i /\ i < op.md + op.data => i \in DOMAIN file
    BY <2>c DEF IInv, TypeOK
  <2>1. /\ mapped /\ head.data = op.data /\ op.md = head.md
        /\ Fits(promised, head.list, op.md, op.data - op.by)
        /\ DataIn(file, promised.data)
    BY <1>1, <1>7 DEF IInv, GrowingData
  <2>2. /\ op.md \in Nat /\ op.by \in Nat /\ op.data \in Nat /\ md \in Nat /\ done \in Nat
    BY DEF IInv, TypeOK
  <2>3. done < op.md /\ to = md + b /\ from = md - op.by + b
    <3>1. MoveCount = op.md /\ MoveTo = md /\ MoveFrom = md - op.by
      BY <1>7, <2>1 DEF MoveCount, MoveTo, MoveFrom
    <3>2. MoveNext = op.md - 1 - done
      BY <2>2, <3>1 DEF MoveNext
    <3> QED  BY <1>1, <3>1, <3>2 DEF to, from
  <2>4. b \in 0 .. op.md - 1 /\ to \in DOMAIN file
    BY <2>a, <2>b, <2>2, <2>3
  <2>5. Right(file, promised.nodes, head.list, from, b)
    <3>1. ~(b >= op.md - done)
      BY <2>2
    <3> HIDE DEF b
    <3> QED  BY <1>1, <1>7, <2>3, <2>4, <3>1 DEF IInv, GrowingData
  <2>6. TypeOK'
    BY <1>4, <2>5 DEF Right
  <2>7. DataIn(file', promised.data)
    <3>1. \A i \in promised.data : i \in DOMAIN file /\ i # to
      <4>1. promised.data \subseteq 0 .. op.data - op.by - 1
        BY <2>1 DEF Fits
      <4> QED  BY <2>a, <2>b, <2>2, <2>3, <4>1
    <3> QED  BY <1>5, <2>1, <3>1, PartsKept
  <2>8. ASSUME NEW j \in 0 .. op.md - 1
        PROVE  Right(file', promised.nodes, head.list,
                     IF j >= op.md - (done + 1) THEN md + j ELSE md - op.by + j, j)
    <3>1. CASE j = b
      <4>1. (IF j >= op.md - (done + 1) THEN md + j ELSE md - op.by + j) = to
        BY <2>2, <2>3, <3>1
      <4> HIDE DEF b
      <4>2. Right(file', promised.nodes, head.list, to, b)
        BY <1>3, <2>4, <2>5 DEF Right
      <4> QED  BY <3>1, <4>1, <4>2
    <3>2. CASE j # b
      <4> DEFINE pos == IF j >= op.md - done THEN md + j ELSE md - op.by + j
      <4>1. Right(file, promised.nodes, head.list, pos, j)
        BY <1>1, <1>7 DEF IInv, GrowingData
      <4>2. pos # to /\ pos = IF j >= op.md - (done + 1) THEN md + j ELSE md - op.by + j
        BY <2>a, <2>2, <2>3, <3>2
      <4> HIDE DEF pos
      <4>3. pos \in DOMAIN file \ {to}
        BY <4>1, <4>2 DEF Right
      <4> QED  BY <1>5, <4>1, <4>2, <4>3, PartsKept
    <3> QED  BY <3>1, <3>2
  <2>9. GrowingData'
    <3>1. done' <= op.md
      BY <1>1, <2>2, <2>3
    <3> QED
      BY <1>1, <1>3, <2>a, <2>c, <2>1, <2>7, <2>8, <3>1 DEF GrowingData
  <2> QED
    BY <1>1, <1>6, <1>7, <2>6, <2>9 DEF IInv, DroppingData, GrowingList
<1>8. CASE op.kind = "dropData"
  <2>1. /\ mapped /\ md = head.data /\ op.md = head.md /\ op.by >= 1 /\ head.data = op.data + op.by
        /\ Fits(promised, head.list, op.md, op.data)
        /\ DataIn(file, promised.data) /\ Covers(file, head.data + head.md)
    BY <1>1, <1>8 DEF IInv, DroppingData
  <2>2. /\ op.md \in Nat /\ op.by \in Nat /\ op.data \in Nat /\ md \in Nat /\ done \in Nat
        /\ head.list \in Nat
    BY DEF IInv, TypeOK
  <2>3. done < op.md /\ to = op.data + done /\ from = md + done
    BY <1>1, <1>8, <2>1, <2>2 DEF MoveCount, MoveTo, MoveFrom, MoveNext, to, from
  <2>4. done \in 0 .. op.md - 1 /\ to \in DOMAIN file
    BY <2>1, <2>2, <2>3 DEF Covers
  <2>5. Right(file, promised.nodes, head.list, from, done)
    BY <1>1, <1>8, <2>2, <2>3, <2>4 DEF IInv, DroppingData
  <2>6. TypeOK'
    BY <1>4, <2>5 DEF Right
  <2>7. DataIn(file', promised.data)
    <3>1. promised.data \subseteq DOMAIN file \ {to}
      BY <2>1, <2>2, <2>3 DEF Fits, DataIn
    <3> QED  BY <1>5, <2>1, <3>1, PartsKept
  <2>8. ASSUME NEW j \in 0 .. op.md - 1
        PROVE  Right(file', promised.nodes, head.list,
                     IF j < done + 1 THEN op.data + j ELSE md + j, j)
    <3>1. CASE j = done
      <4>1. (IF j < done + 1 THEN op.data + j ELSE md + j) = to
        BY <2>2, <2>3, <3>1
      <4>2. Right(file', promised.nodes, head.list, to, done)
        BY <1>3, <2>4, <2>5 DEF Right
      <4> QED  BY <3>1, <4>1, <4>2
    <3>2. CASE j # done
      <4> DEFINE pos == IF j < done THEN op.data + j ELSE md + j
      <4>1. Right(file, promised.nodes, head.list, pos, j)
        BY <1>1, <1>8 DEF IInv, DroppingData
      <4>2. pos # to /\ pos = IF j < done + 1 THEN op.data + j ELSE md + j
        BY <2>1, <2>2, <2>3, <3>2
      <4> HIDE DEF pos
      <4>3. pos \in DOMAIN file \ {to}
        BY <4>1, <4>2 DEF Right
      <4> QED  BY <1>5, <4>1, <4>2, <4>3, PartsKept
    <3> QED  BY <3>1, <3>2
  <2>9. ASSUME done + 1 <= op.by
        PROVE  /\ ListIn(file', head.data, head.list)
               /\ NodesIn(file', promised.nodes, head.data, head.list)
    <3>1. head.data .. head.data + op.md - 1 \subseteq DOMAIN file \ {to}
      <4>1. to < head.data
        BY <2>1, <2>2, <2>3, <2>9
      <4> QED  BY <2>1, <2>2, <4>1 DEF Covers
    <3>2. head.data .. head.data + head.list \subseteq DOMAIN file \ {to}
      BY <2>1, <2>2, <3>1 DEF Fits
    <3>3. /\ ListIn(file, head.data, head.list)
          /\ NodesIn(file, promised.nodes, head.data, head.list)
      BY <1>1, <1>8, <2>2, <2>9 DEF IInv, DroppingData
    <3>4. head.data \in Nat
      BY DEF IInv, TypeOK
    <3> QED  BY <1>5, <2>1, <2>2, <3>1, <3>2, <3>3, <3>4, PartsKept, NodesKept
  <2>10. DroppingData'
    <3>1. done' <= op.md
      BY <1>1, <2>2, <2>3
    <3>2. Covers(file', head.data + head.md)
      BY <1>3, <2>1 DEF Covers
    <3> QED
      BY <1>1, <2>1, <2>7, <2>8, <2>9, <3>1, <3>2 DEF DroppingData
  <2> QED
    BY <1>1, <1>6, <1>8, <2>6, <2>10 DEF IInv, GrowingData, GrowingList
<1>9. CASE op.kind = "growList"
  <2> DEFINE L == head.list
             M == op.md - op.by - 1 - L
             b == M - 1 - done
  <2>a. md = op.data /\ op.by >= 1
    BY <1>1, <1>9 DEF IInv, GrowingList
  <2>c. DOMAIN file = 0 .. op.md + op.data - 1
    BY <1>1, <1>9 DEF IInv, GrowingList
  <2>b. \A i \in Int : 0 <= i /\ i < op.md + op.data => i \in DOMAIN file
    BY <2>c DEF IInv, TypeOK
  <2>1. /\ op.data = head.data /\ op.md = head.md /\ mapped
        /\ Fits(promised, L, op.md - op.by, head.data)
        /\ DataIn(file, promised.data) /\ ListIn(file, md, L)
    BY <1>1, <1>9 DEF IInv, GrowingList
  <2>2. /\ op.md \in Nat /\ op.by \in Nat /\ op.data \in Nat /\ md \in Nat /\ done \in Nat
        /\ L \in Nat /\ M \in Int /\ b \in Int
    BY DEF IInv, TypeOK
  <2>3. done < M /\ to = md + 1 + L + op.by + b /\ from = md + 1 + L + b
    <3>1. MoveCount = M
      <4>1. MoveCount = op.md - (1 + L + op.by)
        BY <1>9, <2>1 DEF MoveCount
      <4> QED  BY <2>2, <4>1
    <3>2. MoveTo = md + 1 + L + op.by /\ MoveFrom = md + 1 + L
      BY <1>9 DEF MoveTo, MoveFrom
    <3>3. MoveNext = b
      BY <2>2, <3>1, <3>2 DEF MoveNext
    <3> QED  BY <1>1, <3>1, <3>2, <3>3 DEF to, from
  <2>4. b >= 0 /\ b < M /\ to \in DOMAIN file /\ from \in DOMAIN file
    BY <2>a, <2>b, <2>2, <2>3
  <2>5. TypeOK'
    BY <1>4, <2>4
  <2>6. DataIn(file', promised.data)
    <3>1. \A i \in promised.data : i \in DOMAIN file /\ i # to
      <4>1. \A i \in promised.data : i \in DOMAIN file /\ i <= op.data - 1 /\ i \in Nat
        BY <2>1, <2>2 DEF Fits, DataIn
      <4> QED  BY <2>a, <2>2, <2>3, <2>4, <4>1
    <3> QED  BY <1>5, <2>1, <3>1, PartsKept
  <2>7. ListIn(file', md, L)
    <3>1. md .. md + L \subseteq DOMAIN file \ {to}
      <4> SUFFICES ASSUME NEW i \in md .. md + L PROVE i \in DOMAIN file /\ i # to
        OBVIOUS
      <4>1. L <= op.md - 1
        BY <2>2, <2>4
      <4> QED  BY <2>a, <2>b, <2>2, <2>3, <2>4, <4>1
    <3> QED  BY <1>5, <2>1, <2>2, <3>1, PartsKept
  <2>8. ASSUME NEW k \in promised.nodes
        PROVE  NodeIn(file', IF k >= M - (done + 1) THEN md + 1 + L + op.by + k
                             ELSE md + 1 + L + k, k)
    <3> DEFINE pos == IF k >= M - done THEN md + 1 + L + op.by + k ELSE md + 1 + L + k
    <3>1. NodeIn(file, pos, k) /\ k \in Nat
      BY <1>1, <1>9 DEF IInv, TypeOK, GrowingList
    <3>2. CASE k = b
      <4>1. pos = from /\ (IF k >= M - (done + 1) THEN md + 1 + L + op.by + k
                           ELSE md + 1 + L + k) = to
        BY <2>2, <2>3, <3>2
      <4> QED  BY <1>3, <2>4, <3>1, <4>1 DEF NodeIn
    <3>3. CASE k # b
      <4>1. pos # to /\ pos = IF k >= M - (done + 1) THEN md + 1 + L + op.by + k
                              ELSE md + 1 + L + k
        BY <2>a, <2>2, <2>3, <3>1, <3>3
      <4> HIDE DEF pos
      <4>2. pos \in DOMAIN file \ {to}
        BY <3>1, <4>1 DEF NodeIn
      <4> QED  BY <1>5, <3>1, <4>1, <4>2, PartsKept
    <3> QED  BY <3>2, <3>3
  <2>9. ASSUME \A k \in promised.nodes : k < op.by \/ k - op.by < M - (done + 1)
        PROVE  NodesIn(file', promised.nodes, md, L)
    <3>1. \A k \in promised.nodes : k < op.by \/ k - op.by < M - done
      <4>1. promised.nodes \subseteq Nat
        BY DEF IInv, TypeOK
      <4> QED  BY <2>2, <2>9, <4>1
    <3>2. NodesIn(file, promised.nodes, md, L)
      BY <1>1, <1>9, <3>1 DEF IInv, GrowingList
    <3> SUFFICES ASSUME NEW k \in promised.nodes PROVE NodeIn(file', md + 1 + L + k, k)
      BY DEF NodesIn
    <3>3. NodeIn(file, md + 1 + L + k, k)
      BY <3>2 DEF NodesIn
    <3>4. md + 1 + L + k # to
      <4>1. k \in Nat /\ (k < op.by \/ k - op.by < M - (done + 1))
        BY <2>9 DEF IInv, TypeOK
      <4> QED  BY <2>2, <2>3, <4>1
    <3> QED  BY <1>5, <3>3, <3>4, PartsKept DEF NodeIn
  <2>10. done + 1 <= M
    BY <2>2, <2>3
  <2>11. GrowingList'
    BY <1>1, <1>3, <2>a, <2>c, <2>1, <2>6, <2>7, <2>8, <2>9, <2>10 DEF GrowingList
  <2> QED
    BY <1>1, <1>6, <1>9, <2>5, <2>11 DEF IInv, GrowingData, DroppingData
<1> QED  BY <1>2, <1>7, <1>8, <1>9

(* Initialising the new blocks ends an operation with everything in its place. *)
LEMMA FormatStep == IInv /\ Format => IInv'
<1> SUFFICES ASSUME IInv, Format PROVE IInv'
  OBVIOUS
<1>1. /\ InProgress /\ pc = "format" /\ pc' = "idle" /\ op' = NoOp /\ done' = 0
      /\ file' = [i \in DOMAIN file |-> IF i \in NewBlocks THEN Formatted(i) ELSE file[i]]
      /\ UNCHANGED <<head, md, mapped, lost>>
  BY DEF Format, InProgress
<1>2. op.kind \in {"growData", "growNodes", "growList"}
  BY <1>1 DEF IInv, TypeOK, Kinds, Arguments, Creating, DroppingData
<1>3. /\ mapped /\ md = op.data /\ DOMAIN file = 0 .. op.md + op.data - 1 /\ promised.made
  BY <1>1, <1>2 DEF IInv, Arguments
<1>4. Agree(file, file', DOMAIN file \ NewBlocks) /\ DOMAIN file' = DOMAIN file
  BY <1>1 DEF Agree
<1>5. /\ head.md \in Nat /\ head.data \in Nat /\ head.list \in Nat /\ md \in Nat
      /\ op.md \in Nat /\ op.data \in Nat /\ op.by \in Nat
  BY DEF IInv, TypeOK
<1>6. ASSUME \A i \in NewBlocks : Formatted(i) \in Contents,
             promised' \in [made : BOOLEAN, data : SUBSET Nat, nodes : SUBSET Nat]
      PROVE  TypeOK'
  <2>1. PICK n \in 0 .. MaxData + MaxMD : file \in [0 .. n - 1 -> Contents]
    BY DEF IInv, TypeOK
  <2>2. file' \in [0 .. n - 1 -> Contents]
    BY <1>1, <1>6, <2>1
  <2> QED  BY <1>1, <1>6, <2>1, <2>2 DEF IInv, TypeOK, NoOp, Kinds, Steps
<1>8. op.md = head.md /\ md = head.data /\ op.data = head.data
  BY <1>1, <1>2, <1>3 DEF IInv, GrowingData, GrowingNodes, GrowingList
<1>7. ASSUME TypeOK', promised'.made, Whole(file', promised', head) PROVE IInv'
  BY <1>1, <1>3, <1>7, <1>8 DEF IInv, Between, Arguments, Creating, GrowingData, DroppingData,
     GrowingNodes, GrowingList, InProgress, NoOp
<1>d. \A i \in Int : 0 <= i /\ i < head.md + head.data => i \in DOMAIN file
  BY <1>3, <1>5, <1>8
<1>9. Covers(file', head.data + head.md)
  BY <1>3, <1>4, <1>5, <1>8 DEF Covers
<1>10. CASE op.kind = "growData"
  <2>1. NewBlocks = head.data - op.by .. head.data - 1 /\ \A i : Formatted(i) = DataBlock(i)
    BY <1>10 DEF NewBlocks, Formatted
  <2>2. promised' = [promised EXCEPT !.data = @ \cup NewBlocks]
    BY <1>10 DEF Format
  <2>3. /\ op.by <= head.data /\ Fits(promised, head.list, head.md, head.data - op.by)
        /\ DataIn(file, promised.data)
        /\ ListIn(file, md, head.list) /\ NodesIn(file, promised.nodes, md, head.list)
    BY <1>1, <1>8, <1>10 DEF IInv, GrowingData
  <2>4. head.data - op.by \in Nat /\ NewBlocks \subseteq Nat
    BY <1>5, <2>1, <2>3
  <2>5. /\ promised'.data = promised.data \cup NewBlocks /\ promised'.nodes = promised.nodes
        /\ promised'.made
        /\ promised' \in [made : BOOLEAN, data : SUBSET Nat, nodes : SUBSET Nat]
    BY <1>3, <2>2, <2>4 DEF IInv, TypeOK
  <2>6. TypeOK'
    <3>1. \A i \in NewBlocks : Formatted(i) \in Contents
      BY <2>1, <2>4 DEF Contents, DataBlock
    <3> QED  BY <1>6, <2>5, <3>1
  <2>7. Fits(promised', head.list, head.md, head.data)
    BY <1>5, <2>1, <2>3, <2>5 DEF Fits
  <2>8. DataIn(file', promised'.data)
    <3>1. ASSUME NEW i \in NewBlocks PROVE i \in DOMAIN file' /\ file'[i] = DataBlock(i)
      <4>1. i \in DOMAIN file
        BY <1>3, <1>5, <1>8, <2>1, <2>4
      <4> QED  BY <1>1, <2>1, <4>1
    <3>2. ASSUME NEW i \in promised.data PROVE i \in DOMAIN file' /\ file'[i] = DataBlock(i)
      <4>1. i \notin NewBlocks /\ i \in DOMAIN file /\ file[i] = DataBlock(i)
        BY <1>5, <2>1, <2>3, <2>4 DEF Fits, DataIn
      <4> QED  BY <1>1, <4>1
    <3> QED  BY <2>5, <3>1, <3>2 DEF DataIn
  <2>9. md .. md + head.md - 1 \subseteq DOMAIN file \ NewBlocks
    BY <1>3, <1>5, <1>8, <2>1
  <2>10. md .. md + head.list \subseteq DOMAIN file \ NewBlocks
    BY <1>5, <2>3, <2>9 DEF Fits
  <2>11. ListIn(file', md, head.list)
    BY <1>4, <1>5, <2>3, <2>10, PartsKept
  <2>12. NodesIn(file', promised.nodes, md, head.list)
    <3> SUFFICES ASSUME NEW k \in promised.nodes PROVE NodeIn(file', md + 1 + head.list + k, k)
      BY DEF NodesIn
    <3>1. NodeIn(file, md + 1 + head.list + k, k) /\ k \in Nat
      BY <2>3 DEF NodesIn, IInv, TypeOK
    <3>2. md + 1 + head.list + k \notin NewBlocks
      BY <1>5, <1>8, <2>1, <3>1
    <3> QED  BY <1>1, <3>1, <3>2 DEF NodeIn
  <2> QED
    BY <1>7, <1>8, <1>9, <2>5, <2>6, <2>7, <2>8, <2>11, <2>12 DEF Whole
<1>11. CASE op.kind = "growNodes"
  <2> DEFINE k == head.md - 1 - head.list - 1
  <2>1. NewNode = k /\ NewBlocks = {md + 1 + head.list + k} /\ \A i : Formatted(i) = NodeBlock(k)
    BY <1>11 DEF NewBlocks, Formatted, NewNode, NodeBlocks
  <2>2. promised' = [promised EXCEPT !.nodes = @ \cup {k}]
    BY <1>11, <2>1 DEF Format
  <2>3. Whole(file, promised, head) /\ Fits(promised, head.list, head.md - 1, head.data)
    BY <1>1, <1>8, <1>11 DEF IInv, GrowingNodes
  <2>4. k \in Nat /\ head.md - 1 >= 1 + head.list
    BY <1>5, <2>3 DEF Fits
  <2>5. /\ promised'.nodes = promised.nodes \cup {k} /\ promised'.data = promised.data
        /\ promised'.made
        /\ promised' \in [made : BOOLEAN, data : SUBSET Nat, nodes : SUBSET Nat]
    BY <1>3, <2>2, <2>4 DEF IInv, TypeOK
  <2>6. TypeOK'
    <3>1. \A i \in NewBlocks : Formatted(i) \in Contents
      BY <2>1, <2>4 DEF Contents, NodeBlock
    <3> QED  BY <1>6, <2>5, <3>1
  <2>7. Fits(promised', head.list, head.md, head.data)
    BY <1>5, <2>3, <2>4, <2>5 DEF Fits
  <2>8. DataIn(file', promised'.data)
    <3>1. promised.data \subseteq DOMAIN file \ NewBlocks
      <4>1. \A i \in promised.data : i \in DOMAIN file /\ i \in 0 .. head.data - 1
        BY <2>3 DEF Whole, Fits, DataIn
      <4> QED  BY <1>5, <1>8, <2>1, <2>4, <4>1
    <3> QED  BY <1>4, <2>3, <2>5, <3>1, PartsKept DEF Whole
  <2>9. ListIn(file', md, head.list)
    <3>1. md .. md + head.list \subseteq DOMAIN file \ NewBlocks
      BY <1>3, <1>5, <1>8, <2>1, <2>4, SMTT(30)
    <3> QED  BY <1>4, <1>5, <1>8, <2>3, <3>1, PartsKept DEF Whole
  <2>10. NodesIn(file', promised'.nodes, md, head.list)
    <3>1. md + 1 + head.list + k \in DOMAIN file
      BY <1>d, <1>5, <1>8, <2>4
    <3>2. NodeIn(file', md + 1 + head.list + k, k)
      BY <1>1, <2>1, <3>1 DEF NodeIn
    <3>3. ASSUME NEW n \in promised.nodes PROVE NodeIn(file', md + 1 + head.list + n, n)
      <4>1. NodeIn(file, md + 1 + head.list + n, n)
        BY <1>8, <2>3 DEF Whole, NodesIn
      <4>2. n \in Nat /\ n < k
        BY <1>5, <2>3 DEF Fits
      <4>3. md + 1 + head.list + n \notin NewBlocks
        BY <1>5, <2>1, <2>4, <4>2
      <4> QED  BY <1>4, <4>1, <4>3, PartsKept DEF NodeIn
    <3> QED  BY <2>5, <3>2, <3>3 DEF NodesIn
  <2> QED
    BY <1>7, <1>8, <1>9, <2>5, <2>6, <2>7, <2>8, <2>9, <2>10 DEF Whole
<1>12. CASE op.kind = "growList"
  <2>1. /\ NewBlocks = md + 1 + head.list - op.by .. md + head.list
        /\ \A i : Formatted(i) = ListBlock(i - md - 1)
    BY <1>12 DEF NewBlocks, Formatted
  <2>2. promised' = promised
    BY <1>12 DEF Format
  <2>3. /\ op.by <= head.list /\ Fits(promised, head.list, head.md, head.data)
        /\ DataIn(file, promised.data)
        /\ ListIn(file, md, head.list - op.by) /\ NodesIn(file, promised.nodes, md, head.list)
    BY <1>1, <1>8, <1>12 DEF IInv, GrowingList
  <2>4. TypeOK'
    <3>1. ASSUME NEW i \in NewBlocks PROVE Formatted(i) \in Contents
      <4>1. i - md - 1 \in Nat
        BY <1>5, <2>1, <2>3
      <4> QED  BY <2>1, <4>1 DEF Contents, ListBlock
    <3> QED  BY <1>6, <2>2, <3>1 DEF IInv, TypeOK
  <2>5. DataIn(file', promised.data)
    <3>1. promised.data \subseteq DOMAIN file \ NewBlocks
      <4>1. \A i \in promised.data : i \in DOMAIN file /\ i \in 0 .. head.data - 1
        BY <2>3 DEF Fits, DataIn
      <4> QED  BY <1>5, <1>8, <2>1, <2>3, <4>1, SMTT(30)
    <3> QED  BY <1>4, <2>3, <3>1, PartsKept
  <2>6. ListIn(file', md, head.list)
    <3>1. ASSUME NEW j \in 0 .. head.list - op.by - 1
          PROVE  md + 1 + j \in DOMAIN file' /\ file'[md + 1 + j] = ListBlock(j)
      <4>1. md + 1 + j \in DOMAIN file /\ file[md + 1 + j] = ListBlock(j)
        BY <1>5, <2>3 DEF ListIn
      <4>2. md + 1 + j \notin NewBlocks
        BY <1>5, <2>1, <2>3
      <4> QED  BY <1>1, <4>1, <4>2
    <3>2. ASSUME NEW j \in head.list - op.by .. head.list - 1
          PROVE  md + 1 + j \in DOMAIN file' /\ file'[md + 1 + j] = ListBlock(j)
      <4>1. md + 1 + j \in NewBlocks /\ (md + 1 + j) - md - 1 = j
        BY <1>5, <2>1, <2>3
      <4>2. md + 1 + j \in DOMAIN file
        <5>1. head.md >= 1 + head.list
          BY <2>3 DEF Fits
        <5> QED  BY <1>d, <1>5, <1>8, <2>3, <5>1
      <4> QED  BY <1>1, <2>1, <4>1, <4>2
    <3>3. \A j \in 0 .. head.list - 1 :
            j \in 0 .. head.list - op.by - 1 \/ j \in head.list - op.by .. head.list - 1
      BY <1>5, <2>3
    <3>4. md \in DOMAIN file' /\ file'[md] = FreeListBlock
      <4>1. md \notin NewBlocks
        BY <1>5, <2>1, <2>3
      <4> QED  BY <1>1, <2>3, <4>1 DEF ListIn
    <3> QED  BY <3>1, <3>2, <3>3, <3>4 DEF ListIn
  <2>7. NodesIn(file', promised.nodes, md, head.list)
    <3> SUFFICES ASSUME NEW k \in promised.nodes PROVE NodeIn(file', md + 1 + head.list + k, k)
      BY DEF NodesIn
    <3>1. NodeIn(file, md + 1 + head.list + k, k) /\ k \in Nat
      BY <2>3 DEF NodesIn, IInv, TypeOK
    <3>2. md + 1 + head.list + k \notin NewBlocks
      BY <1>5, <2>1, <2>3, <3>1
    <3> QED  BY <1>1, <3>1, <3>2 DEF NodeIn
  <2> QED
    BY <1>3, <1>7, <1>8, <1>9, <2>2, <2>3, <2>4, <2>5, <2>6, <2>7 DEF Whole
<1> QED  BY <1>2, <1>10, <1>11, <1>12

(* DataInit of a new archive. *)
LEMMA DataInitStep == IInv /\ DataInit => IInv'
<1> SUFFICES ASSUME IInv, DataInit PROVE IInv'
  OBVIOUS
<1>1. /\ InProgress /\ pc = "dataInit" /\ pc' = "mdInit"
      /\ file' = [i \in DOMAIN file |-> IF i < op.data THEN DataBlock(i) ELSE file[i]]
      /\ head' = [head EXCEPT !.data = op.data]
      /\ UNCHANGED <<md, mapped, op, done, promised, lost>>
  BY DEF DataInit, InProgress
<1>2. op.kind = "create" /\ ~promised.made
  BY <1>1 DEF IInv, TypeOK, Kinds, Arguments, Creating, GrowingData, DroppingData, GrowingNodes,
     GrowingList
<1>3. /\ mapped /\ md = op.data /\ DOMAIN file = 0 .. op.md + op.data - 1 /\ op.md >= 1
      /\ op.md \in Nat /\ op.data \in Nat
  BY <1>1 DEF IInv, TypeOK, Arguments
<1>4. DOMAIN file' = DOMAIN file
  BY <1>1
<1>5. TypeOK'
  <2>1. PICK n \in 0 .. MaxData + MaxMD : file \in [0 .. n - 1 -> Contents]
    BY DEF IInv, TypeOK
  <2>2. \A i \in Nat : DataBlock(i) \in Contents
    BY DEF DataBlock, Contents
  <2>3. file' \in [0 .. n - 1 -> Contents]
    BY <1>1, <2>1, <2>2
  <2> QED  BY <1>1, <2>1, <2>3 DEF IInv, TypeOK, Steps
<1>6. DataIn(file', 0 .. op.data - 1)
  <2> SUFFICES ASSUME NEW i \in 0 .. op.data - 1
               PROVE  i \in DOMAIN file' /\ file'[i] = DataBlock(i)
    BY DEF DataIn
  <2>1. i \in DOMAIN file /\ i < op.data
    BY <1>3
  <2> QED  BY <1>1, <2>1
<1>7. head'.data = op.data
  BY <1>1 DEF IInv, TypeOK
<1>8. Between' /\ Arguments'
  BY <1>1, <1>2, <1>3, <1>4 DEF IInv, Between, Arguments, InProgress
<1>9. Creating'
  BY <1>1, <1>2, <1>6, <1>7 DEF IInv, Creating, InProgress
<1> QED
  BY <1>1, <1>2, <1>5, <1>8, <1>9 DEF IInv, GrowingData, DroppingData, GrowingNodes, GrowingList

(* MDInit of a new archive: from here it is relied on. *)
LEMMA MDInitStep == IInv /\ MDInit => IInv'
<1> SUFFICES ASSUME IInv, MDInit PROVE IInv'
  OBVIOUS
<1>1. /\ InProgress /\ pc = "mdInit" /\ pc' = "idle" /\ op' = NoOp
      /\ file' = [i \in DOMAIN file |->
                    IF i < md THEN file[i]
                    ELSE IF i = md THEN FreeListBlock
                    ELSE IF i <= md + op.by THEN ListBlock(i - md - 1)
                    ELSE NodeBlock(i - md - 1 - op.by)]
      /\ head' = [head EXCEPT !.md = op.md, !.list = op.by]
      /\ promised' = [made |-> TRUE, data |-> 0 .. op.data - 1, nodes |-> 0 .. op.md - 2 - op.by]
      /\ UNCHANGED <<md, mapped, done, lost>>
  BY DEF MDInit, InProgress
<1>2. op.kind = "create"
  BY <1>1 DEF IInv, TypeOK, Kinds, Arguments, Creating, GrowingData, DroppingData, GrowingNodes,
     GrowingList
<1>3. /\ op.md \in Nat /\ op.data \in Nat /\ op.by \in Nat /\ md \in Nat
      /\ mapped /\ md = op.data /\ op.md >= 1 + op.by
  BY <1>1, <1>2 DEF IInv, TypeOK, Arguments, Creating
<1>4. DOMAIN file = 0 .. op.md + op.data - 1 /\ DOMAIN file' = DOMAIN file
  BY <1>1 DEF IInv, Arguments
<1>5. head.data = op.data /\ DataIn(file, 0 .. op.data - 1)
  BY <1>1, <1>2 DEF IInv, Creating
<1>6. \A i \in Int : 0 <= i /\ i < op.md + op.data => i \in DOMAIN file
  BY <1>3, <1>4
<1>7. head'.md = op.md /\ head'.list = op.by /\ head'.data = op.data
      /\ head' \in [md : Nat, data : Nat, list : Nat]
  BY <1>1, <1>3, <1>5 DEF IInv, TypeOK
<1>8. /\ promised'.made /\ promised'.data = 0 .. op.data - 1
      /\ promised'.nodes = 0 .. op.md - 2 - op.by
      /\ promised' \in [made : BOOLEAN, data : SUBSET Nat, nodes : SUBSET Nat]
  BY <1>1, <1>3
<1>9. TypeOK'
  <2>1. PICK n \in 0 .. MaxData + MaxMD : file \in [0 .. n - 1 -> Contents]
    BY DEF IInv, TypeOK
  <2>2. ASSUME NEW i \in 0 .. n - 1 PROVE file'[i] \in Contents
    <3>1. CASE i < md
      BY <1>1, <2>1, <3>1
    <3>2. CASE i = md
      BY <1>1, <1>3, <2>1, <3>2 DEF FreeListBlock, Contents
    <3>3. CASE i > md /\ i <= md + op.by
      <4>1. i - md - 1 \in Nat /\ ~(i < md) /\ i # md
        BY <1>3, <3>3
      <4> QED  BY <1>1, <2>1, <3>3, <4>1 DEF ListBlock, Contents
    <3>4. CASE i > md + op.by
      <4>1. i - md - 1 - op.by \in Nat /\ ~(i < md) /\ i # md /\ ~(i <= md + op.by)
        BY <1>3, <3>4
      <4> QED  BY <1>1, <2>1, <4>1 DEF NodeBlock, Contents
    <3> QED  BY <1>3, <3>1, <3>2, <3>3, <3>4
  <2>3. file' \in [0 .. n - 1 -> Contents]
    BY <1>1, <2>1, <2>2
  <2> QED
    BY <1>1, <1>7, <1>8, <2>1, <2>3 DEF IInv, TypeOK, NoOp, Kinds, Steps
<1>10. DataIn(file', 0 .. op.data - 1)
  <2> SUFFICES ASSUME NEW i \in 0 .. op.data - 1
               PROVE  i \in DOMAIN file' /\ file'[i] = DataBlock(i)
    BY DEF DataIn
  <2>1. i < md /\ i \in DOMAIN file /\ file[i] = DataBlock(i)
    BY <1>3, <1>5 DEF DataIn
  <2> QED  BY <1>1, <2>1
<1>11. ListIn(file', op.data, op.by)
  <2>1. md \in DOMAIN file /\ ~(md < md)
    BY <1>3, <1>6
  <2>2. ASSUME NEW k \in 0 .. op.by - 1
        PROVE  md + 1 + k \in DOMAIN file' /\ file'[md + 1 + k] = ListBlock(k)
    <3>1. /\ ~(md + 1 + k < md) /\ md + 1 + k # md /\ md + 1 + k <= md + op.by
          /\ (md + 1 + k) - md - 1 = k
      BY <1>3
    <3>2. md + 1 + k \in DOMAIN file
      BY <1>3, <1>6
    <3> QED  BY <1>1, <3>1, <3>2
  <2> QED  BY <1>1, <1>3, <2>1, <2>2 DEF ListIn
<1>12. NodesIn(file', promised'.nodes, op.data, op.by)
  <2> SUFFICES ASSUME NEW k \in 0 .. op.md - 2 - op.by
               PROVE  NodeIn(file', md + 1 + op.by + k, k)
    BY <1>3, <1>8 DEF NodesIn
  <2>1. /\ ~(md + 1 + op.by + k < md) /\ md + 1 + op.by + k # md
        /\ ~(md + 1 + op.by + k <= md + op.by) /\ (md + 1 + op.by + k) - md - 1 - op.by = k
    BY <1>3
  <2>2. md + 1 + op.by + k \in DOMAIN file
    BY <1>3, <1>6
  <2> QED  BY <1>1, <2>1, <2>2 DEF NodeIn
<1>13. Whole(file', promised', head')
  <2>1. Fits(promised', op.by, op.md, op.data)
    BY <1>3, <1>8 DEF Fits
  <2>2. Covers(file', op.data + op.md)
    BY <1>3, <1>4, <1>6 DEF Covers
  <2> QED  BY <1>7, <1>8, <1>10, <1>11, <1>12, <2>1, <2>2 DEF Whole
<1> QED
  BY <1>1, <1>3, <1>7, <1>8, <1>9, <1>13 DEF IInv, Between, Arguments, Creating, GrowingData,
     DroppingData, GrowingNodes, GrowingList, InProgress

-------------------------------------------------------------------------------
(* The invariant holds in every reachable state. *)
THEOREM Invariance == Spec => []IInv
<1>1. ASSUME IInv, [Next]_vars PROVE IInv'
  <2>1. CASE UNCHANGED vars
    BY <1>1, <2>1 DEF vars, IInv, TypeOK, Between, Arguments, Creating, GrowingData, DroppingData,
       GrowingNodes, GrowingList, InProgress
  <2>2. CASE \E d \in 1 .. MaxData, l, n \in 1 .. MaxMD : 1 + l + n <= MaxMD /\ Create(d, l, n)
    BY <1>1, <2>2, CreateStep
  <2>3. CASE Open \/ Close
    BY <1>1, <2>3, OpenStep, CloseStep
  <2>4. CASE \E by \in 0 .. MaxBy : GrowData(by)
    <3>1. PICK by \in 0 .. MaxBy : GrowData(by)
      BY <2>4
    <3>2. by \in Nat
      BY PartitionsAssumption
    <3> QED  BY <1>1, <3>1, <3>2, GrowDataStep
  <2>5. CASE \E by \in 1 .. MaxBy : DropData(by) \/ GrowList(by)
    <3>1. PICK by \in 1 .. MaxBy : DropData(by) \/ GrowList(by)
      BY <2>5
    <3>2. by \in Nat \ {0}
      BY PartitionsAssumption
    <3> QED  BY <1>1, <3>1, <3>2, DropDataStep, GrowListStep
  <2>6. CASE GrowNodes
    BY <1>1, <2>6, GrowNodesStep
  <2>7. CASE Unmap \/ Truncate \/ MapFile \/ SetMDSize \/ SetDataSize
    BY <1>1, <2>7, UnmapStep, TruncateStep, MapFileStep, SetMDSizeStep, SetDataSizeStep
  <2>8. CASE MoveBlock \/ EndMove \/ SetListBlocks \/ Format
    BY <1>1, <2>8, MoveBlockStep, EndMoveStep, SetListBlocksStep, FormatStep
  <2>9. CASE HeadInit \/ DataInit \/ MDInit
    BY <1>1, <2>9, HeadInitStep, DataInitStep, MDInitStep
  <2>10. CASE Interrupt
    BY <1>1, <2>10, InterruptStep
  <2> QED
    BY <1>1, <2>1, <2>2, <2>3, <2>4, <2>5, <2>6, <2>7, <2>8, <2>9, <2>10 DEF Next
<1> QED  BY <1>1, InitInvariant, PTL DEF Spec

(* Every variable has its type, in every reachable state. *)
THEOREM TypeCorrectness == Spec => []TypeOK
BY Invariance, PTL DEF IInv

(* What is whole is found through the header. *)
LEMMA WholeIsFound ==
    ASSUME IInv, promised.made, Whole(file, promised, head) PROVE Found
<1>1. DataFound
  BY DEF IInv, TypeOK, Whole, Fits, DataIn, DataFound
<1>2. MetadataFound(head.data, head.list)
  BY DEF Whole, ListIn, NodesIn, NodeIn, MetadataFound, ListFound, NodesFound
<1> QED  BY <1>1, <1>2 DEF Found

(* Between two operations the header and the pointers describe where everything is,
   for partitions of any size and whatever was interrupted before. *)
THEOREM Intactness == Spec => []PartitionsAreIntact
<1>1. IInv => PartitionsAreIntact
  BY WholeIsFound DEF IInv, Between, PartitionsAreIntact
<1> QED  BY <1>1, Invariance, PTL

(* An archive interrupted outside the windows opens again with all its contents. *)
THEOREM Recovery == Spec => []RecoverableOutsideWindows
<1>1. IInv => RecoverableOutsideWindows
  BY WholeIsFound DEF IInv, Between, RecoverableOutsideWindows
<1> QED  BY <1>1, Invariance, PTL

(* Source and destination of every block a memmove copies lie in the mapping. *)
LEMMA MovesAreMapped ==
    ASSUME IInv, pc = "move", done < MoveCount
    PROVE  MoveFrom + MoveNext \in DOMAIN file /\ MoveTo + MoveNext \in DOMAIN file
<1>1. InProgress /\ op.kind \in {"growData", "dropData", "growList"}
  BY DEF IInv, TypeOK, Kinds, Arguments, Creating, GrowingNodes, InProgress
<1>2. /\ op.md \in Nat /\ op.by \in Nat /\ op.data \in Nat /\ md \in Nat /\ done \in Nat
      /\ head.list \in Nat
  BY DEF IInv, TypeOK
<1>3. CASE op.kind = "growData"
  <2>1. md = op.data /\ op.by <= op.data /\ op.md = head.md
    BY <1>1, <1>3 DEF IInv, GrowingData
  <2>2. MoveCount = op.md /\ MoveTo = md /\ MoveFrom = md - op.by
    BY <1>3, <2>1 DEF MoveCount, MoveTo, MoveFrom
  <2>3. MoveNext = op.md - 1 - done
    BY <1>2, <2>2 DEF MoveNext
  <2>4. \A i \in Int : 0 <= i /\ i < op.md + op.data => i \in DOMAIN file
    BY <1>1, <1>2, <1>3 DEF IInv, GrowingData
  <2> HIDE DEF MoveCount, MoveTo, MoveFrom, MoveNext
  <2> QED  BY <1>2, <2>1, <2>2, <2>3, <2>4
<1>4. CASE op.kind = "dropData"
  <2>1. md = head.data /\ op.md = head.md /\ op.by >= 1 /\ head.data = op.data + op.by
    BY <1>1, <1>4 DEF IInv, DroppingData
  <2>2. MoveCount = op.md /\ MoveTo = op.data /\ MoveFrom = md
    BY <1>4, <2>1 DEF MoveCount, MoveTo, MoveFrom
  <2>3. MoveNext = done
    BY <1>2, <2>1, <2>2 DEF MoveNext
  <2>4. Covers(file, md + op.md)
    BY <1>1, <1>4, <2>1 DEF IInv, DroppingData
  <2>5. \A i \in Int : 0 <= i /\ i < md + op.md => i \in DOMAIN file
    BY <1>2, <2>4 DEF Covers
  <2> QED  BY <1>2, <2>1, <2>2, <2>3, <2>5
<1>5. CASE op.kind = "growList"
  <2>1. md = op.data /\ op.by >= 1 /\ op.md = head.md
    BY <1>1, <1>5 DEF IInv, GrowingList
  <2>2. MoveCount = op.md - (1 + head.list + op.by)
    BY <1>5, <2>1 DEF MoveCount
  <2>3. MoveTo = md + 1 + head.list + op.by /\ MoveFrom = md + 1 + head.list
    BY <1>5 DEF MoveTo, MoveFrom
  <2>4. MoveNext = op.md - (1 + head.list + op.by) - 1 - done
    BY <1>2, <2>2, <2>3 DEF MoveNext
  <2>5. \A i \in Int : 0 <= i /\ i < op.md + op.data => i \in DOMAIN file
    BY <1>1, <1>2, <1>5 DEF IInv, GrowingList
  <2> QED  BY <1>2, <2>1, <2>2, <2>3, <2>4, <2>5
<1> QED  BY <1>1, <1>3, <1>4, <1>5

(* The blocks an operation initialises lie in the mapping. *)
LEMMA FormatsAreMapped ==
    ASSUME IInv, pc = "format" PROVE NewBlocks \subseteq DOMAIN file
<1>1. InProgress /\ op.kind \in {"growData", "growNodes", "growList"}
  BY DEF IInv, TypeOK, Kinds, Arguments, Creating, DroppingData, InProgress
<1>2. /\ op.md \in Nat /\ op.by \in Nat /\ op.data \in Nat /\ md \in Nat
      /\ head.list \in Nat /\ md = op.data /\ head.md \in Nat /\ head.data \in Nat
  BY <1>1 DEF IInv, TypeOK, Arguments
<1>3. DOMAIN file = 0 .. op.md + op.data - 1
  BY <1>1 DEF IInv, Arguments
<1>4. \A i \in Int : 0 <= i /\ i < op.md + op.data => i \in DOMAIN file
  BY <1>2, <1>3
<1>5. CASE op.kind = "growData"
  <2>1. NewBlocks = head.data - op.by .. head.data - 1
    BY <1>5 DEF NewBlocks
  <2>2. head.data = op.data /\ op.by <= op.data
    BY <1>1, <1>5 DEF IInv, GrowingData
  <2> QED  BY <1>2, <1>4, <2>1, <2>2
<1>6. CASE op.kind = "growNodes"
  <2>1. NewBlocks = {md + 1 + head.list + (head.md - 1 - head.list - 1)}
    BY <1>6 DEF NewBlocks, NewNode, NodeBlocks
  <2>2. head.md = op.md /\ Fits(promised, head.list, op.md - 1, head.data)
    BY <1>1, <1>6 DEF IInv, GrowingNodes
  <2>3. op.md - 1 >= 1 + head.list
    BY <2>2 DEF Fits
  <2>4. md + 1 + head.list + (head.md - 1 - head.list - 1) = md + op.md - 1
    BY <1>2, <2>2
  <2>5. md + op.md - 1 \in DOMAIN file
    BY <1>2, <1>4, <2>3
  <2> QED  BY <2>1, <2>4, <2>5
<1>7. CASE op.kind = "growList"
  <2>1. NewBlocks = md + 1 + head.list - op.by .. md + head.list
    BY <1>7 DEF NewBlocks
  <2>2. op.by <= head.list /\ op.md = head.md /\ Fits(promised, head.list, op.md, head.data)
    BY <1>1, <1>7 DEF IInv, GrowingList
  <2>3. op.md >= 1 + head.list
    BY <2>2 DEF Fits
  <2>4. op.by <= head.list /\ op.md = head.md
    BY <2>2
  <2> SUFFICES ASSUME NEW i \in NewBlocks PROVE i \in DOMAIN file
    OBVIOUS
  <2>5. i \in Int /\ 0 <= i /\ i <= md + head.list
    BY <1>2, <2>1, <2>4
  <2>6. i < op.md + op.data
    BY <1>2, <2>3, <2>5
  <2> QED  BY <1>4, <2>5, <2>6
<1> QED  BY <1>1, <1>5, <1>6, <1>7

(* No access while the file is unmapped, and none outside of it: the memmoves and
   initialisations stay inside the file, for partitions of any size. *)
THEOREM MappedAccesses == Spec => []AccessesAreMapped
<1>1. ASSUME IInv PROVE AccessesAreMapped
  <2>1. pc \in {"idle", "setMD", "setData", "move", "setList", "format",
                "headInit", "dataInit", "mdInit"} => mapped
    BY <1>1 DEF IInv, TypeOK, Kinds, InProgress, Between, Arguments, Creating, GrowingData,
       DroppingData, GrowingNodes, GrowingList
  <2> QED  BY <1>1, <2>1, MovesAreMapped, FormatsAreMapped DEF AccessesAreMapped
<1> QED  BY <1>1, Invariance, PTL

-------------------------------------------------------------------------------
(***************************************************************************)
(* The windows.  Moves leave copies behind, and what a file no longer      *)
(* describes must not look right by accident: a copy of the free list      *)
(* block or of a node block is never below the place of the block itself.  *)
(***************************************************************************)
(* What may be at position pos, the place of the metadata's block number j. *)
Proper(f, L, pos, j) ==
    /\ j > 0 => f[pos] # FreeListBlock
    /\ \A k \in Nat : j > L /\ f[pos] = NodeBlock(k) => k < j - L

ProperFrom(f, L, at, size) == \A j \in 0 .. size - 1 : Proper(f, L, at + j, j)

BlankFrom(f, n) == \A i \in DOMAIN f : i >= n => f[i] = Blank

(* So it is at each place, and behind the metadata is nothing yet. *)
Orderly(f, h) == ProperFrom(f, h.list, h.data, h.md) /\ BlankFrom(f, h.data + h.md)

(* The states in which the header describes the file. *)
Described ==
    \/ pc = "idle"
    \/ pc = "closed" /\ promised.made /\ ~lost
    \/ InProgress /\ op.kind \in {"growNodes", "growList"}
    \/ InProgress /\ op.kind = "growData" /\ pc \notin {"move", "format"}
    \/ InProgress /\ op.kind = "dropData" /\ pc \in {"move", "unmap", "truncate"} /\ done <= op.by

OrderlyIfDescribed == Described => Orderly(file, head)

(* The first node block is that of the root directory; it is never given up. *)
Rooted ==
    /\ promised.made => 0 \in promised.nodes
    /\ InProgress /\ op.kind = "create" => op.md >= 2 + op.by

(* Each block at the place it has during the move; what the new beginning of the
   metadata holds until the move ends. *)
GrowingDataCovers ==
    InProgress /\ op.kind = "growData" =>
        /\ pc = "move" =>
             /\ (op.by > 0 /\ done < op.md => file[md] # FreeListBlock)
             /\ \A j \in 0 .. op.md - 1 :
                  Proper(file, head.list,
                         IF j >= op.md - done THEN md + j ELSE md - op.by + j, j)
        /\ pc = "format" => ProperFrom(file, head.list, md, op.md)

(* And at the old beginning of the metadata once it is overwritten or cut off. *)
DroppingDataCovers ==
    InProgress /\ op.kind = "dropData" =>
        /\ pc = "move" =>
             \A j \in 0 .. op.md - 1 :
                  Proper(file, head.list, IF j < done THEN op.data + j ELSE md + j, j)
        /\ pc # "move" => ProperFrom(file, head.list, op.data, op.md)
        /\ pc \in {"map", "setMD", "setData"} \/ done > op.by =>
             ~(head.data \in DOMAIN file /\ file[head.data] = FreeListBlock)

(* The node blocks that have been moved; the first one's copy at the old place. *)
GrowingListCovers ==
    InProgress /\ op.kind = "growList" =>
        /\ pc \in {"move", "setList"} =>
             /\ \A j \in 0 .. op.md - op.by - 1 :
                  j > head.list /\ j >= op.md - op.by - done =>
                     Proper(file, head.list, md + op.by + j, j)
             /\ file[md + 1 + head.list] = NodeBlock(0)
        /\ pc = "format" => file[md + 1 + head.list - op.by] = NodeBlock(0)

(* The inductive invariant, on top of IInv. *)
OrderInv ==
    /\ Rooted /\ OrderlyIfDescribed
    /\ GrowingDataCovers /\ DroppingDataCovers /\ GrowingListCovers
    /\ (lost => pc = "closed") /\ LostInWindows

-------------------------------------------------------------------------------
(* Blocks of different kinds, or of different names, differ. *)
LEMMA KindsDiffer ==
    /\ \A k : NodeBlock(k) # FreeListBlock /\ ListBlock(k) # FreeListBlock
    /\ \A k : NodeBlock(k) # Blank
    /\ \A k, l : NodeBlock(k) # ListBlock(l)
    /\ \A k, l : NodeBlock(k) = NodeBlock(l) => k = l
    /\ \A k : DataBlock(k) # FreeListBlock
    /\ Blank # FreeListBlock
BY DEF NodeBlock, ListBlock, FreeListBlock, Blank, DataBlock

(* The metadata are not found where the header says if they do not begin there. *)
LEMMA NotFoundWithoutFreeList ==
    ASSUME promised.made, ~(head.data \in DOMAIN file /\ file[head.data] = FreeListBlock)
    PROVE  ~Found
BY DEF Found, MetadataFound

(* A blank block is proper everywhere. *)
LEMMA BlankIsProper ==
    ASSUME NEW f, NEW L, NEW pos, NEW j, f[pos] = Blank
    PROVE  Proper(f, L, pos, j)
BY KindsDiffer DEF Proper

(* What is proper stays so when it is copied to another position. *)
LEMMA SameIsProper ==
    ASSUME NEW f, NEW g, NEW L, NEW p, NEW q, NEW j, f[p] = g[q], Proper(f, L, p, j)
    PROVE  Proper(g, L, q, j)
BY DEF Proper

(* A copy higher up is proper, too. *)
LEMMA HigherIsProper ==
    ASSUME NEW f, NEW L \in Nat, NEW pos, NEW i \in Nat, NEW j \in Nat, L < i, i <= j,
           Proper(f, L, pos, i)
    PROVE  Proper(f, L, pos, j)
BY DEF Proper

(* A node block is proper at its own place, a list block everywhere. *)
LEMMA ProperNode ==
    ASSUME NEW f, NEW L \in Nat, NEW pos, NEW k \in Nat, f[pos] = NodeBlock(k)
    PROVE  Proper(f, L, pos, 1 + L + k)
BY KindsDiffer DEF Proper

LEMMA ProperList ==
    ASSUME NEW f, NEW L, NEW pos, NEW j, NEW k, f[pos] = ListBlock(k)
    PROVE  Proper(f, L, pos, j)
BY KindsDiffer DEF Proper

(* The file cut or extended to a length no less than the header's sizes. *)
LEMMA OrderlyResized ==
    ASSUME NEW f, NEW g, NEW h, Covers(f, h.data + h.md), Covers(g, h.data + h.md),
           h.md \in Nat, h.data \in Nat,
           \A i \in DOMAIN g : g[i] = IF i \in DOMAIN f THEN f[i] ELSE Blank,
           Orderly(f, h)
    PROVE  Orderly(g, h)
<1>1. ASSUME NEW j \in 0 .. h.md - 1 PROVE Proper(g, h.list, h.data + j, j)
  <2>1. h.data + j \in DOMAIN f /\ h.data + j \in DOMAIN g
    BY DEF Covers
  <2>2. g[h.data + j] = f[h.data + j]
    BY <2>1
  <2>3. Proper(f, h.list, h.data + j, j)
    BY DEF Orderly, ProperFrom
  <2> QED  BY <2>2, <2>3, SameIsProper
<1>2. ASSUME NEW i \in DOMAIN g, i >= h.data + h.md PROVE g[i] = Blank
  BY <1>2 DEF Orderly, BlankFrom
<1> QED  BY <1>1, <1>2 DEF Orderly, ProperFrom, BlankFrom

(* A header whose metadata size grows over blank blocks. *)
LEMMA OrderlyWithMore ==
    ASSUME NEW f, NEW h \in [md : Nat, data : Nat, list : Nat], NEW m \in Nat, h.md <= m,
           Covers(f, h.data + m), DOMAIN f \subseteq Int, Orderly(f, h)
    PROVE  Orderly(f, [h EXCEPT !.md = m])
<1> DEFINE g == [h EXCEPT !.md = m]
<1>1. g.md = m /\ g.data = h.data /\ g.list = h.list
  OBVIOUS
<1>2. ASSUME NEW j \in 0 .. m - 1 PROVE Proper(f, h.list, h.data + j, j)
  <2>1. CASE j < h.md
    BY <2>1 DEF Orderly, ProperFrom
  <2>2. CASE j >= h.md
    <3>1. h.data + j \in DOMAIN f
      BY DEF Covers
    <3>2. f[h.data + j] = Blank
      BY <3>1, <2>2 DEF Orderly, BlankFrom
    <3> QED  BY <3>2, BlankIsProper
  <2> QED  BY <2>1, <2>2
<1>3. BlankFrom(f, h.data + m)
  <2> SUFFICES ASSUME NEW i \in DOMAIN f, i >= h.data + m PROVE f[i] = Blank
    BY DEF BlankFrom
  <2>1. i \in Int /\ i >= h.data + h.md
    OBVIOUS
  <2> QED  BY <2>1 DEF Orderly, BlankFrom
<1> HIDE DEF g
<1>4. Orderly(f, g)
  BY <1>1, <1>2, <1>3 DEF Orderly, ProperFrom
<1> QED  BY <1>4 DEF g

(* Nothing lies behind a file that ends with the metadata. *)
LEMMA OrderlyExactly ==
    ASSUME NEW f, NEW h, h.md \in Nat, h.data \in Nat, DOMAIN f = 0 .. h.md + h.data - 1,
           ProperFrom(f, h.list, h.data, h.md)
    PROVE  Orderly(f, h)
BY DEF Orderly, BlankFrom

(* One block is written among those the header describes, and it is proper there. *)
LEMMA OrderlyWritten ==
    ASSUME NEW f, NEW h \in [md : Nat, data : Nat, list : Nat], NEW to, NEW b,
           Orderly(f, h), to < h.data + h.md, to \in Int,
           \A j \in 0 .. h.md - 1 : to = h.data + j => Proper([f EXCEPT ![to] = b], h.list, to, j)
    PROVE  Orderly([f EXCEPT ![to] = b], h)
<1> DEFINE g == [f EXCEPT ![to] = b]
<1>1. ASSUME NEW j \in 0 .. h.md - 1 PROVE Proper(g, h.list, h.data + j, j)
  <2>1. CASE to = h.data + j
    BY <2>1
  <2>2. CASE to # h.data + j
    <3>1. g[h.data + j] = f[h.data + j]
      BY <2>2
    <3>2. Proper(f, h.list, h.data + j, j)
      BY DEF Orderly, ProperFrom
    <3> HIDE DEF g
    <3> QED  BY <3>1, <3>2, SameIsProper
  <2> QED  BY <2>1, <2>2
<1>2. BlankFrom(g, h.data + h.md)
  <2>1. ASSUME NEW i \in DOMAIN f, i >= h.data + h.md PROVE g[i] = f[i]
    BY <2>1
  <2>2. DOMAIN g = DOMAIN f
    OBVIOUS
  <2> HIDE DEF g
  <2> QED  BY <2>1, <2>2 DEF Orderly, BlankFrom
<1> HIDE DEF g
<1>3. Orderly(g, h)
  BY <1>1, <1>2 DEF Orderly, ProperFrom
<1> QED  BY <1>3 DEF g

-------------------------------------------------------------------------------
(* The types of the numbers. *)
LEMMA Numbers ==
    IInv => /\ head \in [md : Nat, data : Nat, list : Nat]
            /\ head.md \in Nat /\ head.data \in Nat /\ head.list \in Nat /\ md \in Nat
            /\ op.by \in Nat /\ op.md \in Nat /\ op.data \in Nat /\ done \in Nat
            /\ promised.nodes \subseteq Nat
BY DEF IInv, TypeOK

(* Without an archive nothing is described. *)
LEMMA InitOrder == Init => OrderInv
BY DEF Init, OrderInv, Rooted, OrderlyIfDescribed, Described, GrowingDataCovers, DroppingDataCovers,
       GrowingListCovers, LostInWindows, InProgress, Nothing, NoOp

(* CIBCreate starts with at least one node block. *)
LEMMA CreateOrder ==
    ASSUME NEW d \in 1 .. MaxData, NEW l \in 1 .. MaxMD, NEW n \in 1 .. MaxMD,
           IInv, OrderInv, Create(d, l, n)
    PROVE  OrderInv'
<1>1. /\ pc' = "truncate" /\ op'.kind = "create" /\ op'.by = l /\ op'.md = 1 + n + l
      /\ promised' = Nothing /\ lost' = FALSE
  BY DEF Create
<1>2. l \in Nat /\ n \in Nat /\ n >= 1
  BY PartitionsAssumption
<1>3. Rooted'
  BY <1>1, <1>2 DEF Rooted, Nothing
<1> QED
  BY <1>1, <1>3 DEF OrderInv, OrderlyIfDescribed, Described, GrowingDataCovers, DroppingDataCovers,
       GrowingListCovers, LostInWindows, InProgress

(* OpenExistingCIB and CloseExistingCIB change nothing in the file. *)
LEMMA OpenOrder == OrderInv /\ Open => OrderInv'
BY DEF Open, OrderInv, Rooted, OrderlyIfDescribed, Described, GrowingDataCovers, DroppingDataCovers,
       GrowingListCovers, LostInWindows, InProgress

LEMMA CloseOrder == OrderInv /\ Close => OrderInv'
<1> SUFFICES ASSUME OrderInv, Close PROVE OrderInv'
  OBVIOUS
<1>1. ~lost
  BY DEF OrderInv, Close
<1> QED
  BY <1>1 DEF Close, OrderInv, Rooted, OrderlyIfDescribed, Described, GrowingDataCovers,
     DroppingDataCovers, GrowingListCovers, LostInWindows, InProgress

(* The start of a growth changes neither the file nor the header. *)
LEMMA GrowDataOrder ==
    ASSUME NEW by, IInv, OrderInv, GrowData(by)
    PROVE  OrderInv'
BY DEF GrowData, Start, OrderInv, Rooted, OrderlyIfDescribed, Described, GrowingDataCovers,
   DroppingDataCovers, GrowingListCovers, LostInWindows, InProgress

LEMMA GrowNodesOrder == OrderInv /\ GrowNodes => OrderInv'
BY DEF GrowNodes, Start, OrderInv, Rooted, OrderlyIfDescribed, Described, GrowingDataCovers,
   DroppingDataCovers, GrowingListCovers, LostInWindows, InProgress

LEMMA GrowListOrder ==
    ASSUME NEW by, OrderInv, GrowList(by)
    PROVE  OrderInv'
BY DEF GrowList, Start, OrderInv, Rooted, OrderlyIfDescribed, Described, GrowingDataCovers,
   DroppingDataCovers, GrowingListCovers, LostInWindows, InProgress

(* Before the metadata are moved down they are where the header says. *)
LEMMA DropDataOrder ==
    ASSUME NEW by \in Nat, by >= 1, IInv, OrderInv, DropData(by)
    PROVE  OrderInv'
<1>1. /\ pc = "idle" /\ pc' = "move" /\ done' = 0 /\ op'.kind = "dropData" /\ op'.by = by
      /\ op'.md = head.md /\ file' = file /\ head' = head /\ md' = md /\ lost' = lost
      /\ promised'.made = promised.made /\ promised'.nodes = promised.nodes
  BY DEF DropData, Start, IInv, TypeOK
<1>2. md = head.data
  BY <1>1 DEF IInv, Between
<1>3. Orderly(file, head)
  BY <1>1 DEF OrderInv, OrderlyIfDescribed, Described
<1>4. DroppingDataCovers'
  <2>1. ASSUME NEW j \in 0 .. head.md - 1
        PROVE  Proper(file, head.list, IF j < 0 THEN op'.data + j ELSE md + j, j)
    <3>1. ~(j < 0)
      OBVIOUS
    <3> QED  BY <1>2, <1>3, <3>1 DEF Orderly, ProperFrom
  <2>2. ~(done' > op'.by)
    BY <1>1
  <2> QED  BY <1>1, <2>1, <2>2 DEF DroppingDataCovers
<1> QED
  BY <1>1, <1>3, <1>4 DEF OrderInv, Rooted, OrderlyIfDescribed, GrowingDataCovers,
     GrowingListCovers, LostInWindows, InProgress

(* Nor do munmap and mmap. *)
LEMMA UnmapOrder == OrderInv /\ Unmap => OrderInv'
BY DEF Unmap, OrderInv, Rooted, OrderlyIfDescribed, Described, GrowingDataCovers,
   DroppingDataCovers, GrowingListCovers, LostInWindows, InProgress

LEMMA MapFileOrder == IInv /\ OrderInv /\ MapFile => OrderInv'
<1> SUFFICES ASSUME IInv, OrderInv, MapFile PROVE OrderInv'
  OBVIOUS
<1> QED
  BY DEF MapFile, OrderInv, Rooted, OrderlyIfDescribed, Described, GrowingDataCovers,
   DroppingDataCovers, GrowingListCovers, LostInWindows, InProgress

(* At the end of a move all blocks are at the new place. *)
LEMMA EndMoveOrder == IInv /\ OrderInv /\ EndMove => OrderInv'
<1> SUFFICES ASSUME IInv, OrderInv, EndMove PROVE OrderInv'
  OBVIOUS
<1>1. /\ pc = "move" /\ done = MoveCount /\ InProgress /\ ~lost
      /\ UNCHANGED <<file, head, md, op, done, promised, lost>>
  BY DEF EndMove, InProgress, OrderInv
<1>2. op.kind \in {"growData", "dropData", "growList"}
  BY <1>1 DEF IInv, TypeOK, Kinds, Arguments, Creating, GrowingNodes, InProgress
<1>3. CASE op.kind = "growData"
  <2>1. pc' = "format" /\ done = op.md
    BY <1>1, <1>3 DEF EndMove, AfterMove, MoveCount, IInv, GrowingData
  <2>2. ProperFrom(file, head.list, md, op.md)
    <3> SUFFICES ASSUME NEW j \in 0 .. op.md - 1 PROVE Proper(file, head.list, md + j, j)
      BY DEF ProperFrom
    <3>1. j >= op.md - done
      BY <2>1, Numbers
    <3> QED  BY <1>1, <1>3, <3>1 DEF OrderInv, GrowingDataCovers
  <2> QED
    BY <1>1, <1>3, <2>1, <2>2 DEF OrderInv, Rooted, OrderlyIfDescribed, Described, GrowingDataCovers,
       DroppingDataCovers, GrowingListCovers, LostInWindows, InProgress
<1>4. CASE op.kind = "dropData"
  <2>1. pc' = "unmap" /\ done = op.md
    BY <1>1, <1>4 DEF EndMove, AfterMove, MoveCount, IInv, DroppingData
  <2>2. ProperFrom(file, head.list, op.data, op.md)
    <3> SUFFICES ASSUME NEW j \in 0 .. op.md - 1 PROVE Proper(file, head.list, op.data + j, j)
      BY DEF ProperFrom
    <3>1. j < done
      BY <2>1, Numbers
    <3> QED  BY <1>1, <1>4, <3>1 DEF OrderInv, DroppingDataCovers
  <2> QED
    BY <1>1, <1>4, <2>1, <2>2 DEF OrderInv, Rooted, OrderlyIfDescribed, Described, GrowingDataCovers,
       DroppingDataCovers, GrowingListCovers, LostInWindows, InProgress
<1>5. CASE op.kind = "growList"
  <2>1. pc' = "setList"
    BY <1>1, <1>5 DEF EndMove, AfterMove
  <2> QED
    BY <1>1, <1>5, <2>1 DEF OrderInv, Rooted, OrderlyIfDescribed, Described, GrowingDataCovers,
       DroppingDataCovers, GrowingListCovers, LostInWindows, InProgress
<1> QED  BY <1>2, <1>3, <1>4, <1>5

(* The new size of the metadata takes in blank blocks only. *)
LEMMA SetMDSizeOrder == IInv /\ OrderInv /\ SetMDSize => OrderInv'
<1> SUFFICES ASSUME IInv, OrderInv, SetMDSize PROVE OrderInv'
  OBVIOUS
<1>1. /\ pc = "setMD" /\ pc' = "setData" /\ InProgress /\ ~lost
      /\ head' = [head EXCEPT !.md = op.md]
      /\ UNCHANGED <<file, md, op, done, promised, lost>>
  BY DEF SetMDSize, InProgress, OrderInv
<1>2. head'.data = head.data /\ head'.list = head.list /\ head'.md = op.md
  BY <1>1, Numbers
<1>3. OrderlyIfDescribed'
  <2> SUFFICES ASSUME Described' PROVE Orderly(file', head')
    BY DEF OrderlyIfDescribed
  <2>1. op.kind \in {"growData", "growNodes", "growList"} /\ Described
    BY <1>1 DEF Described, InProgress
  <2>2. head.md <= op.md /\ op.data >= head.data
    <3>1. CASE op.kind = "growData"
      BY <1>1, <3>1, Numbers DEF IInv, GrowingData
    <3>2. CASE op.kind = "growNodes"
      BY <1>1, <3>2, Numbers DEF IInv, GrowingNodes
    <3>3. CASE op.kind = "growList"
      BY <1>1, <3>3, Numbers DEF IInv, GrowingList
    <3> QED  BY <2>1, <3>1, <3>2, <3>3
  <2>3. DOMAIN file = 0 .. op.md + op.data - 1
    BY <1>1 DEF IInv, Arguments
  <2>4. Covers(file, head.data + op.md)
    BY <2>2, <2>3, Numbers DEF Covers
  <2>5. Orderly(file, head)
    BY <2>1 DEF OrderInv, OrderlyIfDescribed
  <2>6. Orderly(file, [head EXCEPT !.md = op.md])
    BY <2>2, <2>3, <2>4, <2>5, Numbers, OrderlyWithMore
  <2> QED  BY <1>1, <2>6
<1>4. GrowingDataCovers' /\ DroppingDataCovers' /\ GrowingListCovers'
  BY <1>1, <1>2 DEF OrderInv, GrowingDataCovers, DroppingDataCovers, GrowingListCovers, InProgress
<1> QED  BY <1>1, <1>3, <1>4 DEF OrderInv, Rooted, LostInWindows, InProgress

(* The new size of the data partition is the beginning of the metadata, after a move
   down, or the place they are yet to be moved to. *)
LEMMA SetDataSizeOrder == IInv /\ OrderInv /\ SetDataSize => OrderInv'
<1> SUFFICES ASSUME IInv, OrderInv, SetDataSize PROVE OrderInv'
  OBVIOUS
<1>1. /\ pc = "setData" /\ InProgress /\ ~lost /\ done' = 0
      /\ head' = [head EXCEPT !.data = op.data]
      /\ UNCHANGED <<file, md, promised, lost>>
      /\ pc' = AfterTrunc /\ op' = (IF op.kind = "dropData" THEN NoOp ELSE op)
  BY DEF SetDataSize, InProgress, OrderInv
<1>2. head'.data = op.data /\ head'.list = head.list /\ head'.md = head.md
  BY <1>1, Numbers
<1>3. md = op.data /\ DOMAIN file = 0 .. op.md + op.data - 1 /\ op.md >= 1
  BY <1>1 DEF IInv, Arguments
<1>4. op.kind \in {"create", "growData", "dropData", "growNodes", "growList"}
  BY <1>1 DEF IInv, TypeOK, Kinds, Arguments
<1>5. CASE op.kind = "create"
  <2>1. pc' = "headInit" /\ op' = op
    BY <1>1, <1>5 DEF AfterTrunc
  <2> QED
    BY <1>1, <1>5, <2>1 DEF OrderInv, Rooted, OrderlyIfDescribed, Described, GrowingDataCovers,
       DroppingDataCovers, GrowingListCovers, LostInWindows, InProgress
<1>6. CASE op.kind = "growData"
  <2>1. pc' = "move" /\ op' = op
    BY <1>1, <1>6 DEF AfterTrunc
  <2>2. op.md = head.md /\ op.data = head.data + op.by
    BY <1>1, <1>6 DEF IInv, GrowingData
  <2>3. Orderly(file, head)
    BY <1>1, <1>6 DEF OrderInv, OrderlyIfDescribed, Described
  <2>4. ASSUME NEW j \in 0 .. op.md - 1
        PROVE  Proper(file, head.list, IF j >= op.md - 0 THEN md + j ELSE md - op.by + j, j)
    <3>1. ~(j >= op.md - 0) /\ md - op.by + j = head.data + j
      BY <1>3, <2>2, Numbers
    <3> QED  BY <2>2, <2>3, <3>1 DEF Orderly, ProperFrom
  <2>5. ASSUME op.by > 0 PROVE file[md] # FreeListBlock
    <3>1. CASE op.by < op.md
      <4>1. op.by \in 0 .. head.md - 1 /\ head.data + op.by = md
        BY <1>3, <2>2, <3>1, Numbers
      <4> QED  BY <2>3, <2>5, <4>1 DEF Orderly, ProperFrom, Proper
    <3>2. CASE op.by >= op.md
      <4>1. md \in DOMAIN file /\ md >= head.data + head.md
        BY <1>3, <2>2, <3>2, Numbers
      <4> QED  BY <2>3, <4>1, KindsDiffer DEF Orderly, BlankFrom
    <3> QED  BY <3>1, <3>2, Numbers
  <2>6. GrowingDataCovers'
    BY <1>1, <1>2, <1>6, <2>1, <2>4, <2>5 DEF GrowingDataCovers
  <2> QED
    BY <1>1, <1>6, <2>1, <2>6 DEF OrderInv, Rooted, OrderlyIfDescribed, Described,
       DroppingDataCovers, GrowingListCovers, LostInWindows, InProgress
<1>7. CASE op.kind = "dropData"
  <2>1. pc' = "idle"
    BY <1>1, <1>7 DEF AfterTrunc
  <2>2. op.md = head.md
    BY <1>1, <1>7 DEF IInv, DroppingData
  <2>3. ProperFrom(file, head.list, op.data, op.md)
    BY <1>1, <1>7 DEF OrderInv, DroppingDataCovers
  <2>4. Orderly(file', head')
    BY <1>1, <1>2, <1>3, <2>2, <2>3, Numbers, OrderlyExactly
  <2> QED
    BY <1>1, <2>1, <2>4 DEF OrderInv, Rooted, OrderlyIfDescribed, GrowingDataCovers,
       DroppingDataCovers, GrowingListCovers, LostInWindows, InProgress
<1>8. CASE op.kind = "growNodes"
  <2>1. pc' = "format" /\ op' = op
    BY <1>1, <1>8 DEF AfterTrunc
  <2>2. op.data = head.data
    BY <1>1, <1>8 DEF IInv, GrowingNodes
  <2>3. head' = head
    BY <1>1, <2>2, Numbers
  <2>4. Orderly(file', head')
    BY <1>1, <1>8, <2>3 DEF OrderInv, OrderlyIfDescribed, Described
  <2> QED
    BY <1>1, <1>8, <2>1, <2>4 DEF OrderInv, Rooted, OrderlyIfDescribed, GrowingDataCovers,
       DroppingDataCovers, GrowingListCovers, LostInWindows, InProgress
<1>9. CASE op.kind = "growList"
  <2>1. pc' = "move" /\ op' = op
    BY <1>1, <1>9 DEF AfterTrunc
  <2>2. op.data = head.data /\ Whole(file, promised, head) /\ promised.made
    BY <1>1, <1>9 DEF IInv, GrowingList, Arguments
  <2>3. head' = head
    BY <1>1, <2>2, Numbers
  <2>4. Orderly(file', head')
    BY <1>1, <1>9, <2>3 DEF OrderInv, OrderlyIfDescribed, Described
  <2>5. file[md + 1 + head.list] = NodeBlock(0)
    <3>1. 0 \in promised.nodes
      BY <2>2 DEF OrderInv, Rooted
    <3>2. file[head.data + 1 + head.list + 0] = NodeBlock(0)
      BY <2>2, <3>1 DEF Whole, NodesIn, NodeIn
    <3> QED  BY <1>3, <2>2, <3>2, Numbers
  <2>6. GrowingListCovers'
    <3>1. \A j \in 0 .. op.md - op.by - 1 : ~(j >= op.md - op.by - 0)
      BY Numbers
    <3> QED  BY <1>1, <2>1, <2>3, <2>5, <3>1 DEF GrowingListCovers
  <2> QED
    BY <1>1, <1>9, <2>1, <2>4, <2>6 DEF OrderInv, Rooted, OrderlyIfDescribed, GrowingDataCovers,
       DroppingDataCovers, LostInWindows, InProgress
<1> QED  BY <1>4, <1>5, <1>6, <1>7, <1>8, <1>9

(* The new number of list blocks renumbers the node blocks, which have been moved. *)
LEMMA SetListBlocksOrder == IInv /\ OrderInv /\ SetListBlocks => OrderInv'
<1> SUFFICES ASSUME IInv, OrderInv, SetListBlocks PROVE OrderInv'
  OBVIOUS
<1>1. /\ pc = "setList" /\ pc' = "format" /\ InProgress /\ ~lost
      /\ head' = [head EXCEPT !.list = @ + op.by]
      /\ UNCHANGED <<file, md, op, done, promised, lost>>
  BY DEF SetListBlocks, InProgress, OrderInv
<1>2. op.kind = "growList"
  BY <1>1 DEF IInv, TypeOK, Kinds, Arguments, Creating, GrowingData, DroppingData, GrowingNodes
<1>3. /\ op.data = head.data /\ op.by >= 1 /\ op.md = head.md /\ md = op.data
      /\ done = op.md - op.by - 1 - head.list
  BY <1>1, <1>2 DEF IInv, GrowingList
<1>4. head'.data = head.data /\ head'.list = head.list + op.by /\ head'.md = head.md
  BY <1>1, Numbers
<1>5. Orderly(file, head)
  BY <1>1, <1>2 DEF OrderInv, OrderlyIfDescribed, Described
<1>6. Orderly(file', head')
  <2> SUFFICES ASSUME NEW j \in 0 .. head.md - 1
               PROVE  Proper(file, head.list + op.by, head.data + j, j)
    BY <1>1, <1>4, <1>5 DEF Orderly, ProperFrom
  <2>1. Proper(file, head.list, head.data + j, j)
    BY <1>5 DEF Orderly, ProperFrom
  <2>2. CASE j <= head.list + op.by
    BY <2>1, <2>2, Numbers DEF Proper
  <2>3. CASE j > head.list + op.by
    <3> DEFINE i == j - op.by
    <3>1. /\ i \in 0 .. op.md - op.by - 1 /\ i > head.list /\ i >= op.md - op.by - done
          /\ md + op.by + i = head.data + j /\ i - head.list = j - (head.list + op.by)
      BY <1>3, <2>3, Numbers
    <3> HIDE DEF i
    <3>2. Proper(file, head.list, head.data + j, i)
      BY <1>1, <1>2, <3>1 DEF OrderInv, GrowingListCovers
    <3> QED  BY <2>1, <3>1, <3>2 DEF Proper
  <2> QED  BY <2>2, <2>3, Numbers
<1>7. GrowingListCovers'
  <2>1. file[md + 1 + head.list] = NodeBlock(0)
    BY <1>1, <1>2 DEF OrderInv, GrowingListCovers
  <2>2. md + 1 + (head.list + op.by) - op.by = md + 1 + head.list
    BY Numbers
  <2> QED  BY <1>1, <1>4, <2>1, <2>2 DEF GrowingListCovers
<1> QED
  BY <1>1, <1>2, <1>6, <1>7 DEF OrderInv, Rooted, OrderlyIfDescribed, GrowingDataCovers,
     DroppingDataCovers, LostInWindows, InProgress

(* The rest of CIBCreate, until nothing is left of an older archive. *)
LEMMA CreationSteps ==
    IInv /\ pc \in {"headInit", "dataInit", "mdInit"} =>
       InProgress /\ op.kind = "create" /\ ~promised.made
BY DEF IInv, TypeOK, Kinds, InProgress, Arguments, Creating, GrowingData, DroppingData,
   GrowingNodes, GrowingList

(* HeadInit and DataInit do not finish the archive yet. *)
LEMMA HeadInitOrder == IInv /\ OrderInv /\ HeadInit => OrderInv'
BY CreationSteps DEF HeadInit, OrderInv, Rooted, OrderlyIfDescribed, Described, GrowingDataCovers,
   DroppingDataCovers, GrowingListCovers, LostInWindows, InProgress

LEMMA DataInitOrder == IInv /\ OrderInv /\ DataInit => OrderInv'
BY CreationSteps DEF DataInit, OrderInv, Rooted, OrderlyIfDescribed, Described, GrowingDataCovers,
   DroppingDataCovers, GrowingListCovers, LostInWindows, InProgress

(* MDInit writes every block of the metadata. *)
LEMMA MDInitOrder == IInv /\ OrderInv /\ MDInit => OrderInv'
<1> SUFFICES ASSUME IInv, OrderInv, MDInit PROVE OrderInv'
  OBVIOUS
<1>1. pc = "mdInit" /\ pc' = "idle" /\ InProgress /\ op.kind = "create" /\ ~lost /\ lost' = lost
  BY CreationSteps DEF MDInit, OrderInv, InProgress
<1>2. op.md \in Nat /\ op.by \in Nat /\ op.data \in Nat
  BY Numbers
<1>3. op.md >= 2 + op.by
  BY <1>1 DEF OrderInv, Rooted
<1>4. head.data = op.data /\ md = op.data
  BY <1>1 DEF IInv, Creating, Arguments
<1>5. DOMAIN file = 0 .. op.md + op.data - 1 /\ DOMAIN file' = DOMAIN file
  BY <1>1 DEF IInv, Arguments, MDInit
<1>6. promised'.nodes = 0 .. op.md - 2 - op.by
  BY DEF MDInit
<1>7. 0 \in promised'.nodes
  BY <1>2, <1>3, <1>6
<1>8. head'.md = op.md /\ head'.list = op.by /\ head'.data = op.data
  BY <1>4, Numbers DEF MDInit
<1>9. /\ \A i \in DOMAIN file : ~(i < md) /\ i # md /\ i <= md + op.by =>
           file'[i] = ListBlock(i - md - 1)
      /\ \A i \in DOMAIN file : ~(i < md) /\ i # md /\ ~(i <= md + op.by) =>
           file'[i] = NodeBlock(i - md - 1 - op.by)
  BY DEF MDInit
<1>10. ASSUME NEW j \in 0 .. op.md - 1 PROVE Proper(file', op.by, md + j, j)
  <2>1. md + j \in DOMAIN file
    BY <1>2, <1>4, <1>5
  <2>2. md \in Nat /\ ~(md + j < md)
    BY <1>2, <1>4
  <2>3. CASE j = 0
    BY <1>2, <2>3 DEF Proper
  <2>4. CASE j \in 1 .. op.by
    <3>1. md + j # md /\ md + j <= md + op.by
      BY <1>2, <2>2, <2>4
    <3>2. file'[md + j] = ListBlock(md + j - md - 1)
      BY <1>9, <2>1, <2>2, <3>1
    <3> QED  BY <3>2, ProperList
  <2>5. CASE j > op.by
    <3>1. md + j # md /\ ~(md + j <= md + op.by)
      BY <1>2, <2>2, <2>5
    <3>2. PICK k \in Nat : j = 1 + op.by + k
      <4>1. j - 1 - op.by \in Nat /\ j = 1 + op.by + (j - 1 - op.by)
        BY <1>2, <2>5
      <4> QED  BY <4>1
    <3>3. PICK i \in DOMAIN file : i = md + j
      BY <2>1
    <3>4. file'[i] = NodeBlock(i - md - 1 - op.by)
      BY <1>9, <2>2, <3>1, <3>3
    <3>5. i - md - 1 - op.by = k
      BY <1>2, <2>2, <3>2, <3>3
    <3> QED  BY <1>2, <3>2, <3>3, <3>4, <3>5, ProperNode
  <2> QED  BY <1>2, <2>3, <2>4, <2>5
<1>11. Orderly(file', head')
  <2>1. ProperFrom(file', head'.list, head'.data, head'.md)
    BY <1>4, <1>8, <1>10 DEF ProperFrom
  <2> QED  BY <1>2, <1>5, <1>8, <2>1, OrderlyExactly
<1> QED
  BY <1>1, <1>7, <1>11 DEF OrderInv, Rooted, OrderlyIfDescribed, GrowingDataCovers,
     DroppingDataCovers, GrowingListCovers, LostInWindows, InProgress

(* ftruncate adds blank blocks behind what the header describes, or cuts the file right
   behind the metadata that were moved down. *)
LEMMA TruncateOrder == IInv /\ OrderInv /\ Truncate => OrderInv'
<1> SUFFICES ASSUME IInv, OrderInv, Truncate PROVE OrderInv'
  OBVIOUS
<1>1. /\ pc = "truncate" /\ pc' = "map" /\ InProgress /\ ~lost
      /\ file' = [i \in 0 .. op.md + op.data - 1 |-> IF i \in DOMAIN file THEN file[i] ELSE Blank]
      /\ UNCHANGED <<head, md, op, done, promised, lost>>
  <2>1. /\ pc = "truncate" /\ pc' = "map" /\ InProgress
        /\ UNCHANGED <<head, md, op, done, promised, lost>>
    BY DEF Truncate, InProgress
  <2>2. file' = [i \in 0 .. op.md + op.data - 1 |-> IF i \in DOMAIN file THEN file[i] ELSE Blank]
    BY DEF Truncate
  <2>3. ~lost
    BY <2>1 DEF OrderInv
  <2> QED  BY <2>1, <2>2, <2>3
<1>2. op.md + op.data \in Nat /\ DOMAIN file' = 0 .. op.md + op.data - 1
  BY <1>1, Numbers
<1>3. OrderlyIfDescribed'
  <2> SUFFICES ASSUME Described' PROVE Orderly(file', head')
    BY DEF OrderlyIfDescribed
  <2>1. op.kind \in {"growData", "growNodes", "growList"} /\ Described
    BY <1>1 DEF Described, InProgress
  <2>2. /\ op.md >= head.md /\ op.data >= head.data
        /\ Whole(file, promised, head)
    <3>1. CASE op.kind = "growData"
      BY <1>1, <3>1, Numbers DEF IInv, GrowingData
    <3>2. CASE op.kind = "growNodes"
      BY <1>1, <3>2, Numbers DEF IInv, GrowingNodes
    <3>3. CASE op.kind = "growList"
      BY <1>1, <3>3, Numbers DEF IInv, GrowingList
    <3> QED  BY <2>1, <3>1, <3>2, <3>3
  <2>3. Orderly(file, head) /\ Covers(file, head.data + head.md)
    BY <2>1, <2>2 DEF OrderInv, OrderlyIfDescribed, Whole
  <2>4. Covers(file', head.data + head.md)
    <3>1. 0 .. (head.data + head.md) - 1 \subseteq 0 .. op.md + op.data - 1
      BY <2>2, Numbers
    <3> QED  BY <1>2, <3>1 DEF Covers
  <2>5. ASSUME NEW i \in DOMAIN file'
        PROVE  file'[i] = IF i \in DOMAIN file THEN file[i] ELSE Blank
    <3>1. i \in 0 .. op.md + op.data - 1
      BY <1>2
    <3> QED  BY <1>1, <3>1
  <2>6. Orderly(file', head)
    BY <2>3, <2>4, <2>5, Numbers, OrderlyResized
  <2> QED  BY <1>1, <2>6
<1>4. DroppingDataCovers'
  <2> SUFFICES ASSUME op.kind = "dropData" PROVE DroppingDataCovers'
    BY <1>1 DEF DroppingDataCovers
  <2>1. /\ op.md = head.md /\ op.by >= 1 /\ head.data = op.data + op.by
        /\ Covers(file, head.data + head.md)
    BY <1>1 DEF IInv, DroppingData
  <2>2. ProperFrom(file, head.list, op.data, op.md)
    BY <1>1 DEF OrderInv, DroppingDataCovers
  <2>3. ASSUME NEW j \in 0 .. op.md - 1
        PROVE  file'[op.data + j] = file[op.data + j] /\ Proper(file', head.list, op.data + j, j)
    <3>1. op.data + j \in DOMAIN file
      BY <2>1, Numbers DEF Covers
    <3>2. op.data + j \in 0 .. op.md + op.data - 1
      BY Numbers
    <3>3. file'[op.data + j] = file[op.data + j]
      BY <1>1, <3>1, <3>2
    <3>4. Proper(file, head.list, op.data + j, j)
      BY <2>2 DEF ProperFrom
    <3> QED  BY <3>3, <3>4, SameIsProper
  <2>4. ProperFrom(file', head.list, op.data, op.md)
    BY <2>3 DEF ProperFrom
  <2>5. ASSUME head.data \in DOMAIN file' PROVE file'[head.data] # FreeListBlock
    <3>1. op.by \in 0 .. op.md - 1 /\ op.by > 0
      <4>1. op.data + op.by \in 0 .. op.md + op.data - 1
        BY <1>2, <2>1, <2>5
      <4> QED  BY <2>1, <4>1, Numbers
    <3>2. Proper(file', head.list, op.data + op.by, op.by)
      BY <2>3, <3>1
    <3> QED  BY <2>1, <3>1, <3>2 DEF Proper
  <2> QED  BY <1>1, <2>4, <2>5 DEF DroppingDataCovers
<1> QED
  BY <1>1, <1>3, <1>4 DEF OrderInv, Rooted, GrowingDataCovers, GrowingListCovers, LostInWindows,
     InProgress

(* One block of a memmove: what it overwrites has been copied, or is given up. *)
LEMMA MoveBlockOrder == IInv /\ OrderInv /\ MoveBlock => OrderInv'
<1> SUFFICES ASSUME IInv, OrderInv, MoveBlock PROVE OrderInv'
  OBVIOUS
<1>1. /\ pc = "move" /\ pc' = "move" /\ InProgress /\ ~lost /\ done < MoveCount /\ done' = done + 1
      /\ file' = [file EXCEPT ![MoveTo + MoveNext] = file[MoveFrom + MoveNext]]
      /\ UNCHANGED <<head, md, op, promised, lost>>
  BY DEF MoveBlock, InProgress, OrderInv
<1>2. MoveFrom + MoveNext \in DOMAIN file /\ MoveTo + MoveNext \in DOMAIN file
  BY <1>1, MovesAreMapped
<1>3. op.kind \in {"growData", "dropData", "growList"}
  BY <1>1 DEF IInv, TypeOK, Kinds, Arguments, Creating, GrowingNodes, InProgress
<1>4. /\ op.by \in Nat /\ op.md \in Nat /\ op.data \in Nat /\ done \in Nat /\ md \in Nat
      /\ head.md \in Nat /\ head.data \in Nat /\ head.list \in Nat
  BY Numbers
<1>5. CASE op.kind = "growData"
  <2> DEFINE c == op.md - 1 - done
  <2>1. op.md = head.md /\ md = op.data /\ op.by <= op.data
    BY <1>1, <1>5 DEF IInv, GrowingData
  <2>2. MoveCount = op.md /\ MoveTo = md /\ MoveFrom = md - op.by
    BY <1>5, <2>1 DEF MoveCount, MoveTo, MoveFrom
  <2>3. MoveNext = c
    BY <1>4, <2>2 DEF MoveNext
  <2>4. file' = [file EXCEPT ![md + c] = file[md - op.by + c]] /\ md + c \in DOMAIN file
    BY <1>1, <1>2, <2>2, <2>3
  <2>5. /\ c \in 0 .. op.md - 1 /\ done = op.md - 1 - c /\ file'[md + c] = file[md - op.by + c]
        /\ \A pos : pos # md + c => file'[pos] = file[pos]
    BY <1>1, <1>4, <2>2, <2>4
  <2> HIDE DEF c
  <2>6. ASSUME NEW j \in 0 .. op.md - 1
        PROVE  Proper(file', head.list,
                      IF j >= op.md - (done + 1) THEN md + j ELSE md - op.by + j, j)
    <3>1. Proper(file, head.list, IF j >= op.md - done THEN md + j ELSE md - op.by + j, j)
      BY <1>1, <1>5 DEF OrderInv, GrowingDataCovers
    <3>2. CASE j < c
      <4>1. ~(j >= op.md - done) /\ ~(j >= op.md - (done + 1)) /\ md - op.by + j # md + c
        BY <1>4, <2>5, <3>2
      <4> QED  BY <2>5, <3>1, <4>1, SameIsProper
    <3>3. CASE j = c
      <4>1. ~(j >= op.md - done) /\ j >= op.md - (done + 1)
        BY <1>4, <2>5, <3>3
      <4> QED  BY <2>5, <3>1, <3>3, <4>1, SameIsProper
    <3>4. CASE j > c
      <4>1. j >= op.md - done /\ j >= op.md - (done + 1) /\ md + j # md + c
        BY <1>4, <2>5, <3>4
      <4> QED  BY <2>5, <3>1, <4>1, SameIsProper
    <3> QED  BY <1>4, <2>5, <3>2, <3>3, <3>4
  <2>7. ASSUME op.by > 0, done + 1 < op.md PROVE file'[md] # FreeListBlock
    <3>1. md # md + c /\ done < op.md
      BY <1>4, <2>5, <2>7
    <3> QED  BY <1>1, <1>5, <2>5, <2>7, <3>1 DEF OrderInv, GrowingDataCovers
  <2>8. GrowingDataCovers'
    BY <1>1, <1>5, <2>6, <2>7 DEF GrowingDataCovers
  <2> QED
    BY <1>1, <1>5, <2>8 DEF OrderInv, Rooted, OrderlyIfDescribed, Described, DroppingDataCovers,
       GrowingListCovers, LostInWindows, InProgress
<1>6. CASE op.kind = "dropData"
  <2>1. md = head.data /\ op.md = head.md /\ op.by >= 1 /\ head.data = op.data + op.by
    BY <1>1, <1>6 DEF IInv, DroppingData
  <2>2. MoveCount = op.md /\ MoveTo = op.data /\ MoveFrom = md
    BY <1>6, <2>1 DEF MoveCount, MoveTo, MoveFrom
  <2>3. MoveNext = done
    BY <1>4, <2>1, <2>2 DEF MoveNext
  <2>4. /\ file' = [file EXCEPT ![op.data + done] = file[md + done]]
        /\ op.data + done \in DOMAIN file /\ done \in 0 .. op.md - 1
    BY <1>1, <1>2, <1>4, <2>2, <2>3
  <2>5. /\ file'[op.data + done] = file[md + done] /\ DOMAIN file' = DOMAIN file
        /\ \A pos : pos # op.data + done => file'[pos] = file[pos]
    BY <2>4
  <2>6. \A j \in 0 .. op.md - 1 :
           Proper(file, head.list, IF j < done THEN op.data + j ELSE md + j, j)
    BY <1>1, <1>6 DEF OrderInv, DroppingDataCovers
  <2>7. ASSUME NEW j \in 0 .. op.md - 1
        PROVE  Proper(file', head.list, IF j < done + 1 THEN op.data + j ELSE md + j, j)
    <3>1. CASE j < done
      <4>1. j < done + 1 /\ op.data + j # op.data + done
        BY <1>4, <3>1
      <4> QED  BY <2>5, <2>6, <3>1, <4>1, SameIsProper
    <3>2. CASE j = done
      <4>1. ~(j < done) /\ j < done + 1
        BY <1>4, <3>2
      <4> QED  BY <2>5, <2>6, <3>2, <4>1, SameIsProper
    <3>3. CASE j > done
      <4>1. ~(j < done) /\ ~(j < done + 1) /\ md + j # op.data + done
        BY <1>4, <2>1, <3>3
      <4> QED  BY <2>5, <2>6, <4>1, SameIsProper
    <3> QED  BY <1>4, <3>1, <3>2, <3>3
  <2>8. ASSUME done + 1 > op.by, head.data \in DOMAIN file' PROVE file'[head.data] # FreeListBlock
    <3>1. CASE done > op.by
      <4>1. head.data # op.data + done
        BY <1>4, <2>1, <3>1
      <4> QED  BY <1>1, <1>6, <2>5, <2>8, <3>1, <4>1 DEF OrderInv, DroppingDataCovers
    <3>2. CASE done = op.by
      <4>1. Proper(file, head.list, md + done, done)
        <5>1. ~(done < done)
          BY <1>4
        <5> QED  BY <2>4, <2>6, <5>1
      <4>2. file'[head.data] = file[md + done] /\ done > 0
        BY <1>4, <2>1, <2>5, <3>2
      <4> QED  BY <4>1, <4>2 DEF Proper
    <3> QED  BY <1>4, <2>8, <3>1, <3>2
  <2>9. DroppingDataCovers'
    BY <1>1, <1>6, <2>7, <2>8 DEF DroppingDataCovers
  <2>10. ASSUME done + 1 <= op.by PROVE Orderly(file', head)
    <3>1. Orderly(file, head)
      BY <1>1, <1>4, <1>6, <2>10 DEF OrderInv, OrderlyIfDescribed, Described
    <3>2. /\ op.data + done \in Int /\ op.data + done < head.data + head.md
          /\ \A j \in 0 .. head.md - 1 : op.data + done # head.data + j
      BY <1>4, <2>1, <2>10
    <3>3. head \in [md : Nat, data : Nat, list : Nat]
      BY Numbers
    <3> QED  BY <2>4, <3>1, <3>2, <3>3, OrderlyWritten
  <2>11. OrderlyIfDescribed'
    BY <1>1, <1>6, <2>10 DEF OrderlyIfDescribed, Described
  <2> QED
    BY <1>1, <1>6, <2>9, <2>11 DEF OrderInv, Rooted, GrowingDataCovers, GrowingListCovers,
       LostInWindows, InProgress
<1>7. CASE op.kind = "growList"
  <2> DEFINE L == head.list
             i == op.md - op.by - 1 - done
  <2>1. md = op.data /\ op.by >= 1 /\ op.md = head.md /\ op.data = head.data
    BY <1>1, <1>7 DEF IInv, GrowingList
  <2>2. MoveCount = op.md - (1 + L + op.by)
    BY <1>7, <2>1 DEF MoveCount
  <2>3. MoveTo = md + 1 + L + op.by /\ MoveFrom = md + 1 + L
    BY <1>7 DEF MoveTo, MoveFrom
  <2>4. MoveNext = op.md - (1 + L + op.by) - 1 - done
    BY <1>4, <2>2, <2>3 DEF MoveNext
  <2>5. MoveTo + MoveNext = md + op.by + i /\ MoveFrom + MoveNext = md + i
    BY <1>4, <2>3, <2>4
  <2>6. /\ i \in Nat /\ i > L /\ i + op.by <= op.md - 1 /\ done = op.md - op.by - 1 - i
    BY <1>1, <1>4, <2>2
  <2>7. file' = [file EXCEPT ![md + op.by + i] = file[md + i]] /\ md + op.by + i \in DOMAIN file
    BY <1>1, <1>2, <2>5
  <2> HIDE DEF i, L
  <2>8. /\ file'[md + op.by + i] = file[md + i]
        /\ \A pos : pos # md + op.by + i => file'[pos] = file[pos]
    BY <2>7
  <2>9. Orderly(file, head)
    BY <1>1, <1>7 DEF OrderInv, OrderlyIfDescribed, Described
  <2>10. Proper(file, L, md + i, i)
    <3>1. i \in 0 .. head.md - 1 /\ head.data + i = md + i
      BY <1>4, <2>1, <2>6
    <3> QED  BY <2>9, <3>1 DEF Orderly, ProperFrom, L
  <2>11. Proper(file', L, md + op.by + i, i)
    BY <2>8, <2>10, SameIsProper
  <2>12. Proper(file', L, md + op.by + i, i + op.by)
    BY <1>4, <2>6, <2>11, HigherIsProper DEF L
  <2>13. Orderly(file', head)
    <3>1. md + op.by + i \in Int /\ md + op.by + i < head.data + head.md
      BY <1>4, <2>1, <2>6
    <3>2. ASSUME NEW j \in 0 .. head.md - 1, md + op.by + i = head.data + j
          PROVE  Proper(file', L, md + op.by + i, j)
      <4>1. j = i + op.by
        BY <1>4, <2>1, <2>6, <3>2
      <4> QED  BY <2>12, <4>1
    <3> QED  BY <2>7, <2>9, <3>1, <3>2, Numbers, OrderlyWritten DEF L
  <2>14. GrowingListCovers'
    <3>1. ASSUME NEW j \in 0 .. op.md - op.by - 1, j > L, j >= op.md - op.by - (done + 1)
          PROVE  Proper(file', L, md + op.by + j, j)
      <4>1. CASE j = i
        BY <2>11, <4>1
      <4>2. CASE j # i
        <5>1. j >= op.md - op.by - done /\ md + op.by + j # md + op.by + i
          BY <1>4, <2>6, <3>1, <4>2
        <5>2. Proper(file, L, md + op.by + j, j)
          BY <1>1, <1>7, <3>1, <5>1 DEF OrderInv, GrowingListCovers, L
        <5> QED  BY <2>8, <5>1, <5>2, SameIsProper
      <4> QED  BY <4>1, <4>2
    <3>2. file'[md + 1 + L] = NodeBlock(0)
      <4>1. md + 1 + L # md + op.by + i
        BY <1>4, <2>1, <2>6 DEF L
      <4> QED  BY <1>1, <1>7, <2>8, <4>1 DEF OrderInv, GrowingListCovers, L
    <3> QED  BY <1>1, <3>1, <3>2 DEF GrowingListCovers, L
  <2> QED
    BY <1>1, <1>7, <2>13, <2>14 DEF OrderInv, Rooted, OrderlyIfDescribed, GrowingDataCovers,
       DroppingDataCovers, LostInWindows, InProgress
<1> QED  BY <1>3, <1>5, <1>6, <1>7

(* A new block is initialised: nothing else is touched. *)
LEMMA FormatOrder == IInv /\ OrderInv /\ Format => OrderInv'
<1> SUFFICES ASSUME IInv, OrderInv, Format PROVE OrderInv'
  OBVIOUS
<1>1. /\ pc = "format" /\ pc' = "idle" /\ InProgress /\ op' = NoOp
      /\ UNCHANGED <<head, md, lost>>
  BY DEF Format, InProgress
<1>2. ~lost
  BY <1>1 DEF OrderInv
<1>3. DOMAIN file' = DOMAIN file /\ \A i \in DOMAIN file :
        file'[i] = IF i \in NewBlocks THEN Formatted(i) ELSE file[i]
  BY DEF Format
<1>4. /\ op.by \in Nat /\ op.md \in Nat /\ op.data \in Nat /\ md \in Nat
      /\ head.md \in Nat /\ head.data \in Nat /\ head.list \in Nat
  BY Numbers
<1>5. md = op.data /\ DOMAIN file = 0 .. op.md + op.data - 1 /\ promised.made
  BY <1>1 DEF IInv, Arguments, Creating
<1>6. op.kind \in {"growData", "growNodes", "growList"}
  BY <1>1 DEF IInv, TypeOK, Kinds, Arguments, Creating, DroppingData
<1>7. 0 \in promised.nodes
  BY <1>5 DEF OrderInv, Rooted
<1>8. 0 \in promised'.nodes
  <2>1. promised \in [made : BOOLEAN, data : SUBSET Nat, nodes : SUBSET Nat]
    BY DEF IInv, TypeOK
  <2> QED  BY <1>6, <1>7, <2>1 DEF Format
<1>9. head.md = op.md /\ head.data = op.data
  BY <1>1, <1>6 DEF IInv, GrowingData, GrowingNodes, GrowingList
<1>10. ASSUME NEW j \in 0 .. head.md - 1 PROVE Proper(file', head.list, head.data + j, j)
  <2>1. head.data + j \in DOMAIN file
    BY <1>4, <1>5, <1>9
  <2>2. CASE op.kind = "growData"
    <3>1. NewBlocks = head.data - op.by .. head.data - 1
      BY <2>2 DEF NewBlocks
    <3>2. head.data + j \notin NewBlocks
      BY <1>4, <3>1
    <3>3. Proper(file, head.list, head.data + j, j)
      BY <1>1, <1>5, <1>9, <2>2 DEF OrderInv, GrowingDataCovers, ProperFrom
    <3> QED  BY <1>3, <2>1, <3>2, <3>3, SameIsProper
  <2>3. CASE op.kind = "growNodes"
    <3>1. NewNode = head.md - 2 - head.list
      BY <1>4 DEF NewNode, NodeBlocks
    <3>2. NewBlocks = {md + 1 + head.list + NewNode} /\ Formatted(head.data + j) = NodeBlock(NewNode)
      BY <2>3 DEF NewBlocks, Formatted
    <3>3. head.md - 1 >= 1 + head.list
      BY <1>1, <1>9, <2>3 DEF IInv, GrowingNodes, Fits
    <3>4. Proper(file, head.list, head.data + j, j)
      BY <1>1, <2>3 DEF OrderInv, OrderlyIfDescribed, Described, Orderly, ProperFrom
    <3>5. CASE head.data + j \in NewBlocks
      <4>1. NewNode \in Nat /\ j = 1 + head.list + NewNode
        <5>1. head.data + j = md + 1 + head.list + NewNode
          BY <3>2, <3>5
        <5>2. NewNode \in Nat
          BY <1>4, <3>1, <3>3
        <5>3. md = head.data
          BY <1>5, <1>9
        <5>4. \A n \in Nat : head.data + j = md + 1 + head.list + n => j = 1 + head.list + n
          BY <1>4, <5>3
        <5> QED  BY <5>1, <5>2, <5>4
      <4>2. file'[head.data + j] = NodeBlock(NewNode)
        BY <1>3, <2>1, <3>2, <3>5
      <4> QED  BY <1>4, <4>1, <4>2, ProperNode
    <3>6. CASE head.data + j \notin NewBlocks
      BY <1>3, <2>1, <3>4, <3>6, SameIsProper
    <3> QED  BY <3>5, <3>6
  <2>4. CASE op.kind = "growList"
    <3>1. \A i : Formatted(i) = ListBlock(i - md - 1)
      BY <2>4 DEF Formatted
    <3>2. Proper(file, head.list, head.data + j, j)
      BY <1>1, <2>4 DEF OrderInv, OrderlyIfDescribed, Described, Orderly, ProperFrom
    <3>3. CASE head.data + j \in NewBlocks
      BY <1>3, <2>1, <3>1, <3>3, ProperList
    <3>4. CASE head.data + j \notin NewBlocks
      BY <1>3, <2>1, <3>2, <3>4, SameIsProper
    <3> QED  BY <3>3, <3>4
  <2> QED  BY <1>6, <2>2, <2>3, <2>4
<1>11. Orderly(file', head')
  BY <1>1, <1>3, <1>4, <1>5, <1>9, <1>10, OrderlyExactly DEF ProperFrom
<1> QED
  BY <1>1, <1>2, <1>8, <1>11 DEF OrderInv, Rooted, OrderlyIfDescribed, GrowingDataCovers,
     DroppingDataCovers, GrowingListCovers, LostInWindows, InProgress

(* In a window the header does not describe the file. *)
LEMMA WindowsLose == IInv /\ OrderInv /\ InProgress /\ InWindow => ~Found
<1> SUFFICES ASSUME IInv, OrderInv, InProgress, InWindow PROVE ~Found
  OBVIOUS
<1>1. /\ op.by \in Nat /\ op.md \in Nat /\ op.data \in Nat /\ md \in Nat /\ done \in Nat
      /\ head.md \in Nat /\ head.data \in Nat /\ head.list \in Nat
  BY Numbers
<1>2. op.kind \in {"growData", "dropData", "growList"}
  BY DEF InWindow
<1>3. promised.made
  BY <1>2 DEF IInv, Arguments
<1>4. CASE op.kind = "growData"
  <2>1. pc = "move" /\ done < MoveCount /\ op.by > 0
    BY <1>4 DEF InWindow
  <2>2. md = op.data /\ head.data = op.data /\ head.md = op.md
    BY <1>4, <2>1 DEF IInv, GrowingData
  <2>3. MoveCount = op.md
    BY <1>4, <2>2 DEF MoveCount
  <2>4. file[head.data] # FreeListBlock
    BY <1>4, <2>1, <2>2, <2>3 DEF OrderInv, GrowingDataCovers
  <2> QED  BY <1>3, <2>4, NotFoundWithoutFreeList
<1>5. CASE op.kind = "dropData"
  <2>1. pc \in {"map", "setMD", "setData"} \/ done > op.by
    BY <1>5 DEF InWindow
  <2>2. ~(head.data \in DOMAIN file /\ file[head.data] = FreeListBlock)
    BY <1>5, <2>1 DEF OrderInv, DroppingDataCovers
  <2> QED  BY <1>3, <2>2, NotFoundWithoutFreeList
<1>6. CASE op.kind = "growList"
  <2>1. op.by >= 1 /\ op.data = head.data
    BY <1>6 DEF IInv, GrowingList
  <2>2. CASE pc = "format"
    <3>1. op.by <= head.list /\ md = op.data
      BY <1>6, <2>2 DEF IInv, GrowingList, Arguments
    <3>2. file[md + 1 + head.list - op.by] = NodeBlock(0)
      BY <1>6, <2>2 DEF OrderInv, GrowingListCovers
    <3>3. /\ head.list - op.by \in 0 .. head.list - 1
          /\ head.data + 1 + (head.list - op.by) = md + 1 + head.list - op.by
      BY <1>1, <2>1, <3>1
    <3>4. ~ListFound(head.data, head.list)
      BY <3>2, <3>3, KindsDiffer DEF ListFound
    <3> QED  BY <1>3, <3>4 DEF Found, MetadataFound
  <2>3. CASE pc \in {"move", "setList"}
    <3>1. PICK k \in promised.nodes : k >= op.by /\ k - op.by >= MoveCount - done
      BY <1>6, <2>3 DEF InWindow
    <3>2. /\ md = op.data /\ head.md = op.md
          /\ Fits(promised, head.list, op.md - op.by, head.data)
      BY <1>6, <2>3 DEF IInv, GrowingList
    <3>3. MoveCount = op.md - (1 + head.list + op.by)
      BY <1>6, <3>2 DEF MoveCount
    <3>4. k \in Nat /\ k <= op.md - op.by - 2 - head.list
      BY <1>1, <3>2, Numbers DEF Fits
    <3> DEFINE i == 1 + head.list + (k - op.by)
    <3>5. /\ i \in 0 .. op.md - op.by - 1 /\ i > head.list /\ i >= op.md - op.by - done
          /\ md + op.by + i = head.data + 1 + head.list + k /\ ~(k < i - head.list)
      BY <1>1, <2>1, <3>1, <3>2, <3>3, <3>4
    <3> HIDE DEF i
    <3>6. Proper(file, head.list, md + op.by + i, i)
      BY <1>6, <2>3, <3>5 DEF OrderInv, GrowingListCovers
    <3>7. file[head.data + 1 + head.list + k] # NodeBlock(k)
      BY <3>4, <3>5, <3>6 DEF Proper
    <3>8. ~NodesFound(head.data, head.list)
      BY <3>7 DEF NodesFound
    <3> QED  BY <1>3, <3>8 DEF Found, MetadataFound
  <2> QED  BY <1>6, <2>2, <2>3 DEF InWindow
<1> QED  BY <1>2, <1>4, <1>5, <1>6

(* An interruption leaves the file as it is. *)
LEMMA InterruptOrder == IInv /\ OrderInv /\ Interrupt => OrderInv'
<1> SUFFICES ASSUME IInv, OrderInv, Interrupt PROVE OrderInv'
  OBVIOUS
<1>1. InProgress /\ pc' = "closed" /\ lost' = InWindow /\ UNCHANGED <<file, head, promised>>
  BY DEF Interrupt, InProgress
<1>2. ASSUME promised.made, ~InWindow PROVE Orderly(file, head)
  <2>1. op.kind \in {"growData", "dropData", "growNodes", "growList"}
    BY <1>1, <1>2 DEF IInv, TypeOK, Kinds, Arguments, Creating
  <2>2. /\ op.by \in Nat /\ op.md \in Nat /\ op.data \in Nat /\ md \in Nat /\ done \in Nat
        /\ head.md \in Nat /\ head.data \in Nat /\ head.list \in Nat
    BY Numbers
  <2>3. CASE Described
    BY <2>3 DEF OrderInv, OrderlyIfDescribed
  <2>4. CASE op.kind = "growData" /\ pc \in {"move", "format"}
    <3>1. /\ md = op.data /\ head.data = op.data /\ head.md = op.md
          /\ DOMAIN file = 0 .. op.md + op.data - 1
      BY <1>1, <2>4 DEF IInv, GrowingData
    <3>2. ProperFrom(file, head.list, md, op.md)
      <4>1. CASE pc = "format"
        BY <1>1, <2>4, <4>1 DEF OrderInv, GrowingDataCovers
      <4>2. CASE pc = "move"
        <5>1. done >= op.md \/ op.by = 0
          BY <1>2, <2>2, <2>4, <3>1, <4>2 DEF InWindow, MoveCount
        <5>2. ASSUME NEW j \in 0 .. op.md - 1
              PROVE  (IF j >= op.md - done THEN md + j ELSE md - op.by + j) = md + j
          BY <2>2, <5>1
        <5>3. ASSUME NEW j \in 0 .. op.md - 1 PROVE Proper(file, head.list, md + j, j)
          BY <1>1, <2>4, <4>2, <5>2 DEF OrderInv, GrowingDataCovers
        <5> QED  BY <5>3 DEF ProperFrom
      <4> QED  BY <2>4, <4>1, <4>2
    <3> QED  BY <2>2, <3>1, <3>2, OrderlyExactly
  <2>5. CASE op.kind = "dropData" /\ ~Described
    <3>1. pc \in {"move", "unmap", "truncate", "map", "setMD", "setData"}
      BY <1>1, <2>5 DEF IInv, DroppingData
    <3>2. InWindow
      BY <1>1, <2>2, <2>5, <3>1 DEF InWindow, Described
    <3> QED  BY <1>2, <3>2
  <2> QED  BY <1>1, <2>1, <2>3, <2>4, <2>5 DEF Described, InProgress
<1>3. ASSUME promised.made, InWindow PROVE ~Found
  BY <1>1, <1>3, WindowsLose
<1>4. ~Found => (~Found)'
  BY <1>1 DEF Found, DataFound, MetadataFound, ListFound, NodesFound
<1>5. LostInWindows'
  BY <1>1, <1>3, <1>4 DEF LostInWindows
<1>6. OrderlyIfDescribed'
  BY <1>1, <1>2 DEF OrderlyIfDescribed, Described, InProgress
<1> QED
  BY <1>1, <1>5, <1>6 DEF OrderInv, Rooted, GrowingDataCovers, DroppingDataCovers,
     GrowingListCovers, InProgress

-------------------------------------------------------------------------------
(* In every reachable state copies are above what they are copies of. *)
LEMMA OrderIsKept == Spec => []OrderInv
<1>1. ASSUME IInv, OrderInv, [Next]_vars PROVE OrderInv'
  <2>1. CASE UNCHANGED vars
    BY <1>1, <2>1 DEF vars, OrderInv, Rooted, OrderlyIfDescribed, Described, GrowingDataCovers,
       DroppingDataCovers, GrowingListCovers, LostInWindows, InProgress, Found, DataFound,
       MetadataFound, ListFound, NodesFound
  <2>2. CASE \E d \in 1 .. MaxData, l, n \in 1 .. MaxMD : 1 + l + n <= MaxMD /\ Create(d, l, n)
    BY <1>1, <2>2, CreateOrder
  <2>3. CASE Open \/ Close
    BY <1>1, <2>3, OpenOrder, CloseOrder
  <2>4. CASE \E by \in 0 .. MaxBy : GrowData(by)
    BY <1>1, <2>4, GrowDataOrder
  <2>5. CASE \E by \in 1 .. MaxBy : DropData(by) \/ GrowList(by)
    <3>1. PICK by \in 1 .. MaxBy : DropData(by) \/ GrowList(by)
      BY <2>5
    <3>2. by \in Nat /\ by >= 1
      BY PartitionsAssumption
    <3> QED  BY <1>1, <3>1, <3>2, DropDataOrder, GrowListOrder
  <2>6. CASE GrowNodes
    BY <1>1, <2>6, GrowNodesOrder
  <2>7. CASE Unmap \/ Truncate \/ MapFile \/ SetMDSize \/ SetDataSize
    BY <1>1, <2>7, UnmapOrder, TruncateOrder, MapFileOrder, SetMDSizeOrder, SetDataSizeOrder
  <2>8. CASE MoveBlock \/ EndMove \/ SetListBlocks \/ Format
    BY <1>1, <2>8, MoveBlockOrder, EndMoveOrder, SetListBlocksOrder, FormatOrder
  <2>9. CASE HeadInit \/ DataInit \/ MDInit
    BY <1>1, <2>9, HeadInitOrder, DataInitOrder, MDInitOrder
  <2>10. CASE Interrupt
    BY <1>1, <2>10, InterruptOrder
  <2> QED
    BY <1>1, <2>1, <2>2, <2>3, <2>4, <2>5, <2>6, <2>7, <2>8, <2>9, <2>10 DEF Next
<1> QED  BY <1>1, InitOrder, Invariance, PTL DEF Spec

(* The windows are real: an archive interrupted in one of them is not found again, whatever
   the sizes, and wherever earlier moves left copies of its blocks. *)
THEOREM WindowsAreReal == Spec => []LostInWindows
BY OrderIsKept, PTL DEF OrderInv
===============================================================================
