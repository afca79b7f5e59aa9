------------------------------ MODULE Partitions ------------------------------
(***************************************************************************)
(* The layout of an archive file and every operation that moves the        *)
(* boundaries in it: TruncMapAndUpdate (src/src/MYZFuncs/                   *)
(* file_management.c) and its callers in cibfuncs.c, data.c, freelist.c.   *)
(*                                                                         *)
(* After the header come the blocks of the data partition, then those of   *)
(* the metadata: the free list block, the list blocks, the node blocks.    *)
(* Only the sizes in the header say where one part ends and the next one   *)
(* begins.  Each operation is a sequence of single steps, a memmove copies *)
(* block by block, and the process may be interrupted between any two: the *)
(* archive is mapped shared, so what is left is what was stored until      *)
(* then.  Positions in the file are in blocks after the header.  Both      *)
(* partitions have blocks of 1024 bytes.                                   *)
(*                                                                         *)
(* A block holds the name under which it was given out.  "promised" and    *)
(* "lost" are history variables: the blocks some part of the program       *)
(* relies on, and whether the last interruption fell into a window in      *)
(* which the file does not describe its own contents.                      *)
(*                                                                         *)
(* A definition right in front of another one and with a longer name is a  *)
(* slip one could make in the code; no action uses it, it serves to see    *)
(* which property would notice.                                            *)
(***************************************************************************)
EXTENDS Integers

CONSTANTS
    MaxData,      \* bound: blocks of the data partition
    MaxMD,        \* bound: blocks of the metadata
    MaxBy         \* bound: blocks one operation adds or removes

ASSUME PartitionsAssumption ==
    /\ MaxData \in Nat
    /\ MaxMD \in Nat
    /\ MaxBy \in Nat

VARIABLES
    file,         \* position -> contents of the block
    head,         \* md_size, data_size and list_blocks of the file header
    md,           \* the pointer to the metadata, as a position
    mapped,       \* whether the file is mapped; only then md means something
    pc,           \* the next step; "closed" without a process, "idle" between operations
    op,           \* the operation in progress and the arguments of its TruncMapAndUpdate
    done,         \* blocks the memmove in progress has copied
    promised,     \* history: what is relied on
    lost          \* history: interrupted where the contents cannot be found again

vars == <<file, head, md, mapped, pc, op, done, promised, lost>>

DataBlock(i) == <<"data", i>>
ListBlock(k) == <<"list", k>>
NodeBlock(k) == <<"node", k>>
FreeListBlock == <<"free list", 0>>
Blank == <<"blank", 0>>

Contents == ({"data", "list", "node", "free list", "blank"} \X Nat)

Kinds == {"none", "create", "growData", "dropData", "growNodes", "growList"}
Steps == {"closed", "idle", "unmap", "truncate", "map", "setMD", "setData", "move",
          "setList", "format", "headInit", "dataInit", "mdInit"}

NoOp == [kind |-> "none", by |-> 0, md |-> 0, data |-> 0]

Nothing == [made |-> FALSE, data |-> {}, nodes |-> {}]

-------------------------------------------------------------------------------
(* The file as the sizes in its header describe it: everything promised is where
   GetListBlockAddress, GetNodeBlockAddress and DGetDBlockAddress look for it. *)
DataFound ==
    \A i \in promised.data :
        i < head.data /\ i \in DOMAIN file /\ file[i] = DataBlock(i)

ListFound(at, list_blocks) ==
    \A k \in 0 .. list_blocks - 1 :
        at + 1 + k \in DOMAIN file /\ file[at + 1 + k] = ListBlock(k)

NodesFound(at, list_blocks) ==
    \A k \in promised.nodes :
        /\ at + 1 + list_blocks + k \in DOMAIN file
        /\ file[at + 1 + list_blocks + k] = NodeBlock(k)

MetadataFound(at, list_blocks) ==
    /\ at \in DOMAIN file /\ file[at] = FreeListBlock
    /\ ListFound(at, list_blocks)
    /\ NodesFound(at, list_blocks)

Found == promised.made => DataFound /\ MetadataFound(head.data, head.list)

(* Node blocks there are, given out or not. *)
NodeBlocks(md_size) == md_size - 1 - head.list

-------------------------------------------------------------------------------
Init ==
    /\ file = [i \in {} |-> Blank]
    /\ head = [md |-> 0, data |-> 0, list |-> 0]
    /\ md = 0 /\ mapped = FALSE
    /\ pc = "closed" /\ op = NoOp /\ done = 0
    /\ promised = Nothing /\ lost = FALSE

(* CIBCreate, on a new file or over an existing one.  The header is written last,
   so until then an older archive is gone already. *)
Create(data_blocks, list_blocks, node_blocks) ==
    /\ pc = "closed"
    /\ pc' = "truncate"
    /\ op' = [kind |-> "create", by |-> list_blocks,
              md |-> 1 + node_blocks + list_blocks, data |-> data_blocks]
    /\ promised' = Nothing /\ lost' = FALSE
    /\ UNCHANGED <<file, head, md, mapped, done>>

(* OpenExistingCIB. *)
Open ==
    /\ pc = "closed" /\ promised.made /\ ~lost
    /\ mapped' = TRUE /\ md' = head.data
    /\ pc' = "idle"
    /\ UNCHANGED <<file, head, op, done, promised, lost>>

(* CloseExistingCIB. *)
Close ==
    /\ pc = "idle"
    /\ mapped' = FALSE
    /\ pc' = "closed"
    /\ UNCHANGED <<file, head, md, op, done, promised, lost>>

(* An operation starts: it computes the arguments of its TruncMapAndUpdate. *)
Start(kind, by, first, md_size, data_size) ==
    /\ pc = "idle"
    /\ md_size <= MaxMD /\ data_size <= MaxData
    /\ op' = [kind |-> kind, by |-> by, md |-> md_size, data |-> data_size]
    /\ pc' = first
    /\ done' = 0
    /\ UNCHANGED <<file, head, md, mapped, lost>>

(* Growing the data partition: CIBAppend, by nothing if it stores only directories,
   and DFreeListRequestChunk. *)
GrowData(by) ==
    /\ Start("growData", by, "unmap", head.md, head.data + by)
    /\ UNCHANGED promised

(* DFreeListRemoveLastChunk: the last "by" blocks are a free chunk; it leaves the
   free list first.  The metadata is moved before the file is cut. *)
DropDataTruncatingFirst(by) ==
    /\ Start("dropData", by, "unmap", head.md, head.data - by)
    /\ head.data - by .. head.data - 1 \subseteq promised.data \ {0}
    /\ promised' = [promised EXCEPT !.data = @ \ (head.data - by .. head.data - 1)]
DropData(by) ==
    /\ Start("dropData", by, "move", head.md, head.data - by)
    /\ head.data - by .. head.data - 1 \subseteq promised.data \ {0}
    /\ promised' = [promised EXCEPT !.data = @ \ (head.data - by .. head.data - 1)]

(* FreeListRequestNodeBlock with nothing free. *)
GrowNodes ==
    /\ Start("growNodes", 1, "unmap", head.md + 1, head.data)
    /\ UNCHANGED promised

(* FreeListIncreaseListSize. *)
GrowList(by) ==
    /\ Start("growList", by, "unmap", head.md + by, head.data)
    /\ UNCHANGED promised

-------------------------------------------------------------------------------
(* The steps of TruncMapAndUpdate. *)
Unmap ==
    /\ pc = "unmap"
    /\ mapped' = FALSE
    /\ pc' = "truncate"
    /\ UNCHANGED <<file, head, md, op, done, promised, lost>>

TruncateNeverShrinking ==
    /\ pc = "truncate"
    /\ file' = [i \in DOMAIN file \cup 0 .. op.md + op.data - 1 |->
                   IF i \in DOMAIN file THEN file[i] ELSE Blank]
    /\ pc' = "map"
    /\ UNCHANGED <<head, md, mapped, op, done, promised, lost>>
Truncate ==
    /\ pc = "truncate"
    /\ file' = [i \in 0 .. op.md + op.data - 1 |->
                   IF i \in DOMAIN file THEN file[i] ELSE Blank]
    /\ pc' = "map"
    /\ UNCHANGED <<head, md, mapped, op, done, promised, lost>>

MapFile ==
    /\ pc = "map"
    /\ mapped' = TRUE /\ md' = op.data
    /\ pc' = "setMD"
    /\ UNCHANGED <<file, head, op, done, promised, lost>>

SetMDSize ==
    /\ pc = "setMD"
    /\ head' = [head EXCEPT !.md = op.md]
    /\ pc' = "setData"
    /\ UNCHANGED <<file, md, mapped, op, done, promised, lost>>

(* HeadSetDataSize, and return to the caller. *)
AfterTrunc ==
    CASE op.kind = "create" -> "headInit"
      [] op.kind \in {"growData", "growList"} -> "move"
      [] op.kind = "growNodes" -> "format"
      [] OTHER -> "idle"

SetDataSize ==
    /\ pc = "setData"
    /\ head' = [head EXCEPT !.data = op.data]
    /\ pc' = AfterTrunc
    /\ op' = IF op.kind = "dropData" THEN NoOp ELSE op
    /\ done' = 0
    /\ UNCHANGED <<file, md, mapped, promised, lost>>

-------------------------------------------------------------------------------
(***************************************************************************)
(* The moves.  Source, destination and number of blocks of the memmove of  *)
(* each operation; it copies upwards from the last block and downwards     *)
(* from the first one, so that overlapping blocks survive.                 *)
(***************************************************************************)
MoveFrom ==
    CASE op.kind = "growData" -> md - op.by
      [] op.kind = "growList" -> md + 1 + head.list
      [] OTHER -> md

MoveTo ==
    CASE op.kind = "growData" -> md
      [] op.kind = "growList" -> md + 1 + head.list + op.by
      [] OTHER -> op.data

MoveCountOneTooMany ==
    IF op.kind = "growList" THEN head.md - (1 + head.list) ELSE head.md
MoveCount ==
    IF op.kind = "growList" THEN head.md - (1 + head.list + op.by) ELSE head.md

(* The block of the moved range that is copied next. *)
MoveNextAscending == done
MoveNext == IF MoveTo >= MoveFrom THEN MoveCount - 1 - done ELSE done

MoveBlock ==
    /\ pc = "move" /\ done < MoveCount
    /\ file' = [file EXCEPT ![MoveTo + MoveNext] = file[MoveFrom + MoveNext]]
    /\ done' = done + 1
    /\ UNCHANGED <<head, md, mapped, pc, op, promised, lost>>

AfterMove ==
    CASE op.kind = "growData" -> "format"
      [] op.kind = "growList" -> "setList"
      [] OTHER -> "unmap"

EndMove ==
    /\ pc = "move" /\ done = MoveCount
    /\ pc' = AfterMove
    /\ UNCHANGED <<file, head, md, mapped, op, done, promised, lost>>

(* HeadSetListBlocks in FreeListIncreaseListSize. *)
SetListBlocks ==
    /\ pc = "setList"
    /\ head' = [head EXCEPT !.list = @ + op.by]
    /\ pc' = "format"
    /\ UNCHANGED <<file, md, mapped, op, done, promised, lost>>

(* What the caller writes into the new blocks: DataInsertFreeBlocks or
   DataInsertBytes, CIBNodeInit, CIBListBlockInit. *)
NewNode == NodeBlocks(head.md) - 1
NewBlocks ==
    CASE op.kind = "growData" -> head.data - op.by .. head.data - 1
      [] op.kind = "growList" -> md + 1 + head.list - op.by .. md + head.list
      [] OTHER -> {md + 1 + head.list + NewNode}

Formatted(i) ==
    CASE op.kind = "growData" -> DataBlock(i)
      [] op.kind = "growList" -> ListBlock(i - md - 1)
      [] OTHER -> NodeBlock(NewNode)

Format ==
    /\ pc = "format"
    /\ file' = [i \in DOMAIN file |-> IF i \in NewBlocks THEN Formatted(i) ELSE file[i]]
    /\ promised' = CASE op.kind = "growData" -> [promised EXCEPT !.data = @ \cup NewBlocks]
                     [] op.kind = "growNodes" -> [promised EXCEPT !.nodes = @ \cup {NewNode}]
                     [] OTHER -> promised
    /\ pc' = "idle" /\ op' = NoOp /\ done' = 0
    /\ UNCHANGED <<head, md, mapped, lost>>

-------------------------------------------------------------------------------
(* The rest of CIBCreate: HeadInit, which clears the sizes just set; DataInit;
   MDInit, which makes root the first directory. *)
HeadInit ==
    /\ pc = "headInit"
    /\ head' = [md |-> 0, data |-> 0, list |-> 0]
    /\ pc' = "dataInit"
    /\ UNCHANGED <<file, md, mapped, op, done, promised, lost>>

DataInit ==
    /\ pc = "dataInit"
    /\ file' = [i \in DOMAIN file |-> IF i < op.data THEN DataBlock(i) ELSE file[i]]
    /\ head' = [head EXCEPT !.data = op.data]
    /\ pc' = "mdInit"
    /\ UNCHANGED <<md, mapped, op, done, promised, lost>>

MDInitForgettingSize ==
    /\ pc = "mdInit"
    /\ head' = [head EXCEPT !.list = op.by]
    /\ file' = [i \in DOMAIN file |->
                   IF i < md THEN file[i]
                   ELSE IF i = md THEN FreeListBlock
                   ELSE IF i <= md + op.by THEN ListBlock(i - md - 1)
                   ELSE NodeBlock(i - md - 1 - op.by)]
    /\ promised' = [made |-> TRUE, data |-> 0 .. op.data - 1,
                    nodes |-> 0 .. op.md - 2 - op.by]
    /\ pc' = "idle" /\ op' = NoOp
    /\ UNCHANGED <<md, mapped, done, lost>>
MDInit ==
    /\ pc = "mdInit"
    /\ head' = [head EXCEPT !.md = op.md, !.list = op.by]
    /\ file' = [i \in DOMAIN file |->
                   IF i < md THEN file[i]
                   ELSE IF i = md THEN FreeListBlock
                   ELSE IF i <= md + op.by THEN ListBlock(i - md - 1)
                   ELSE NodeBlock(i - md - 1 - op.by)]
    /\ promised' = [made |-> TRUE, data |-> 0 .. op.data - 1,
                    nodes |-> 0 .. op.md - 2 - op.by]
    /\ pc' = "idle" /\ op' = NoOp
    /\ UNCHANGED <<md, mapped, done, lost>>

-------------------------------------------------------------------------------
(***************************************************************************)
(* Interruption: the process disappears, the file stays.  The windows in   *)
(* which that loses the archive:                                           *)
(*   - growing the data partition, from the new size in the header to the  *)
(*     end of the move;                                                    *)
(*   - dropping its end, once the move overwrote metadata at the old       *)
(*     place, and in any case from the cut to the new size in the header;  *)
(*   - adding list blocks, once the move overwrote a node block that is    *)
(*     relied on, and from the new number of list blocks to their          *)
(*     initialisation.                                                     *)
(* Adding a node block has none.                                           *)
(***************************************************************************)
InWindow ==
    \/ /\ op.kind = "growData"
       /\ pc = "move" /\ done < MoveCount /\ op.by > 0
    \/ /\ op.kind = "dropData"
       /\ \/ pc \in {"move", "unmap", "truncate"} /\ done > op.by
          \/ pc \in {"map", "setMD", "setData"}
    \/ /\ op.kind = "growList"
       /\ \/ /\ pc \in {"move", "setList"}
             /\ \E k \in promised.nodes : k >= op.by /\ k - op.by >= MoveCount - done
          \/ pc = "format"

Interrupt ==
    /\ pc \notin {"closed", "idle"}
    /\ lost' = InWindow
    /\ mapped' = FALSE /\ md' = 0
    /\ pc' = "closed" /\ op' = NoOp /\ done' = 0
    /\ UNCHANGED <<file, head, promised>>

Next ==
    \/ \E d \in 1 .. MaxData, l, n \in 1 .. MaxMD : 1 + l + n <= MaxMD /\ Create(d, l, n)
    \/ Open \/ Close
    \/ \E by \in 0 .. MaxBy : GrowData(by)
    \/ \E by \in 1 .. MaxBy : DropData(by) \/ GrowList(by)
    \/ GrowNodes
    \/ Unmap \/ Truncate \/ MapFile \/ SetMDSize \/ SetDataSize
    \/ MoveBlock \/ EndMove \/ SetListBlocks \/ Format
    \/ HeadInit \/ DataInit \/ MDInit
    \/ Interrupt

Spec == Init /\ [][Next]_vars

-------------------------------------------------------------------------------
(* Types of the variables; the file is one run of blocks. *)
TypeOK ==
    /\ \E n \in 0 .. MaxData + MaxMD : file \in [0 .. n - 1 -> Contents]
    /\ head \in [md : Nat, data : Nat, list : Nat]
    /\ md \in Nat /\ mapped \in BOOLEAN
    /\ pc \in Steps
    /\ op \in [kind : Kinds, by : Nat, md : Nat, data : Nat]
    /\ done \in Nat
    /\ promised \in [made : BOOLEAN, data : SUBSET Nat, nodes : SUBSET Nat]
    /\ lost \in BOOLEAN

(* Between two operations every block relied on is at the place that the header's
   sizes and the pointer md give for it, however the partitions were grown and cut
   and wherever earlier processes were interrupted (TruncMapAndUpdate "does not
   shift chunks of data": each caller has to). *)
PartitionsAreIntact ==
    pc = "idle" => Found /\ mapped /\ md = head.data /\ promised.made

(* An archive that was interrupted anywhere outside the windows opens again with
   all its contents: the header written in two stores (file_management.c:130-131) and
   the moves around it hurt nowhere else. *)
RecoverableOutsideWindows ==
    pc = "closed" /\ promised.made /\ ~lost => Found

(* The windows are no larger than they need be: interrupted in one of them, the
   header never describes what is in the file. *)
LostInWindows ==
    pc = "closed" /\ promised.made /\ lost => ~Found

(* No access through the pointers while the file is unmapped, and every block a
   memmove reads or writes, or an initialisation writes, lies in the mapping. *)
AccessesAreMapped ==
    /\ pc \in {"idle", "setMD", "setData", "move", "setList", "format",
               "headInit", "dataInit", "mdInit"} => mapped
    /\ pc = "move" /\ done < MoveCount =>
         {MoveFrom + MoveNext, MoveTo + MoveNext} \subseteq DOMAIN file
    /\ pc = "format" => NewBlocks \subseteq DOMAIN file
===============================================================================
