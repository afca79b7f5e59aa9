------------------------------- MODULE FreeList -------------------------------
(***************************************************************************)
(* The free list of the metadata partition (src/src/Metadata/freelist.c)   *)
(* together with the partition it lives in.                                *)
(*                                                                         *)
(* The metadata partition is an array of blocks of MD_BLOCK_SIZE bytes:    *)
(* block 0 is the free-list block, then come list_blocks list blocks, then *)
(* the node blocks.  A node block is named by its distance from the last   *)
(* list block, so its address moves when a list block is added; the free   *)
(* list and the cib-nodes store those names.                               *)
(*                                                                         *)
(* Free blocks sit in a circular buffer of FREE_LIST_MAX_ENTRIES names     *)
(* and, once it is full, in a linked list threaded through the free blocks *)
(* themselves.  The fields of the free-list block are variables of their   *)
(* own; "md" holds what the other blocks contain.  "inUse" is a history    *)
(* variable: the blocks handed out and not yet returned.                   *)
(*                                                                         *)
(* A definition right in front of another one and with a longer name (such *)
(* as NextStartUnwrapped) is a slip one could make in the code; no action  *)
(* uses it, it serves to see which property would notice.                  *)
(***************************************************************************)
EXTENDS Integers, FiniteSets

CONSTANTS
    FREE_LIST_MAX_ENTRIES,  \* slots of the circular buffer, 253 in the code
    InitListBlocks,         \* list blocks CIBCreate may ask MDInit for
    InitNodeBlocks,         \* node blocks CIBCreate may ask MDInit for
    MaxMDBlocks             \* bound: blocks the partition may grow to

ASSUME FreeListAssumption ==
    /\ FREE_LIST_MAX_ENTRIES \in Nat \ {0}
    /\ InitListBlocks \subseteq Nat \ {0}
    /\ InitNodeBlocks \subseteq Nat
    /\ MaxMDBlocks \in Nat
    /\ \A l \in InitListBlocks, n \in InitNodeBlocks : 1 + l + n <= MaxMDBlocks

VARIABLES
    array, arr_start, arr_count,   \* the circular buffer
    header,                        \* first block of the linked list
    total_free,                    \* free blocks, buffer and list together
    free_node_blocks,              \* the same count, kept in the file header
    md_blocks, list_blocks,        \* sizes kept in the file header
    md,                            \* contents of the partition's blocks
    inUse

vars == <<array, arr_start, arr_count, header, total_free, free_node_blocks,
          md_blocks, list_blocks, md, inUse>>

Slots == 0 .. FREE_LIST_MAX_ENTRIES - 1

(***************************************************************************)
(* Contents of a block, as far as the properties tell them apart.  A block *)
(* in use carries the name it was handed out under, a list block its       *)
(* number, so that a block displaced by a wrong move is visible.           *)
(***************************************************************************)
Blank              == [kind |-> "blank"]
ListBlock(i)       == [kind |-> "list", index |-> i]
CIBNode(b)         == [kind |-> "node", self |-> b]
FreeNode(flag, nx) == [kind |-> "free", next_flag |-> flag, next |-> nx]

MDBlockIds == 0 .. MaxMDBlocks

Contents == {Blank}
            \cup {ListBlock(i) : i \in MDBlockIds}
            \cup {CIBNode(b) : b \in MDBlockIds}
            \cup {FreeNode(f, n) : f \in {0, 1}, n \in MDBlockIds}

(* Where a list block and a node block lie in the partition. *)
GetListBlockAddress(i) == 1 + i
GetNodeBlockAddress(b) == 1 + b + list_blocks

(* The names of the node blocks the partition has room for. *)
NodeBlocks == 0 .. md_blocks - list_blocks - 2

(***************************************************************************)
(* The state MDInit leaves before it asks for the root's node block.       *)
(* FreeListInit inserts the blocks 0, 1, 2, ... in that order: the first   *)
(* FREE_LIST_MAX_ENTRIES go to the buffer, each later one becomes the head *)
(* of the linked list, in front of its predecessor.                        *)
(***************************************************************************)
FreeListInit(nodes) ==
    /\ array = [i \in Slots |-> IF i < nodes THEN i ELSE 0]
    /\ arr_start = 0
    /\ arr_count = IF nodes < FREE_LIST_MAX_ENTRIES THEN nodes
                   ELSE FREE_LIST_MAX_ENTRIES
    /\ header = IF nodes > FREE_LIST_MAX_ENTRIES THEN nodes - 1 ELSE 0
    /\ total_free = nodes
    /\ free_node_blocks = nodes
    /\ md = [a \in 0 .. list_blocks + nodes |->
               IF a = 0 THEN Blank
               ELSE IF a <= list_blocks THEN ListBlock(a - 1)
               ELSE LET b == a - 1 - list_blocks IN
                    IF b < FREE_LIST_MAX_ENTRIES THEN Blank
                    ELSE IF b = FREE_LIST_MAX_ENTRIES THEN FreeNode(0, 0)
                    ELSE FreeNode(1, b - 1)]

MDInit(lists, nodes) ==
    /\ list_blocks = lists
    /\ md_blocks = 1 + nodes + lists
    /\ FreeListInit(nodes)
    /\ inUse = {}

Init == \E l \in InitListBlocks, n \in InitNodeBlocks : MDInit(l, n)

-------------------------------------------------------------------------------
(* The counter of free blocks and its copy in the file header, set together:
   HeadSetMDFreeNodeBlocks(--list->total_free). *)
SetTotalFreePostDecrement(n) == total_free' = n /\ free_node_blocks' = total_free
SetTotalFree(n) == total_free' = n /\ free_node_blocks' = n

(* Where the buffer's oldest name will be next, and its first empty slot. *)
NextStartUnwrapped == arr_start + 1
NextStart == (arr_start + 1) % FREE_LIST_MAX_ENTRIES

EmptySlotIgnoringStart == arr_count % FREE_LIST_MAX_ENTRIES
EmptySlot == (arr_count + arr_start) % FREE_LIST_MAX_ENTRIES

(* Nothing left to hand out, in the list either. *)
NoneFreeOnceBufferIsEmpty == TRUE
NoneFree == total_free = 0

(* What a block says when it becomes the head of the linked list. *)
LinkToHeaderOffByOne ==
    IF total_free >= FREE_LIST_MAX_ENTRIES THEN FreeNode(1, header) ELSE FreeNode(0, 0)
LinkToHeader ==
    IF total_free > FREE_LIST_MAX_ENTRIES THEN FreeNode(1, header) ELSE FreeNode(0, 0)

(***************************************************************************)
(* FreeListRequestNodeBlock, one action per branch.  Every caller formats  *)
(* the block with CIBNodeInit before anything else happens, so that write  *)
(* belongs to the action.                                                  *)
(***************************************************************************)
RequestFromArray ==
    /\ arr_count # 0
    /\ LET block == array[arr_start] IN
         /\ md' = [md EXCEPT ![GetNodeBlockAddress(block)] = CIBNode(block)]
         /\ inUse' = inUse \cup {block}
    /\ SetTotalFree(total_free - 1)
    /\ arr_start' = NextStart
    /\ arr_count' = arr_count - 1
    /\ UNCHANGED <<array, header, md_blocks, list_blocks>>

RequestFromList ==
    /\ arr_count = 0
    /\ ~ NoneFree
    /\ header' = md[GetNodeBlockAddress(header)].next
    /\ md' = [md EXCEPT ![GetNodeBlockAddress(header)] = CIBNode(header)]
    /\ inUse' = inUse \cup {header}
    /\ SetTotalFree(total_free - 1)
    /\ UNCHANGED <<array, arr_start, arr_count, md_blocks, list_blocks>>

(* The partition grows by one block at its end: TruncMapAndUpdate. *)
RequestByGrowing ==
    /\ arr_count = 0
    /\ NoneFree
    /\ md_blocks < MaxMDBlocks
    /\ md_blocks' = md_blocks + 1
    /\ LET new_block == md_blocks' - 1 - list_blocks - 1 IN
         /\ md' = [a \in 0 .. md_blocks |->
                     IF a = GetNodeBlockAddress(new_block)
                     THEN CIBNode(new_block) ELSE md[a]]
         /\ inUse' = inUse \cup {new_block}
    /\ UNCHANGED <<array, arr_start, arr_count, header, total_free,
                   free_node_blocks, list_blocks>>

(***************************************************************************)
(* FreeListInsertNodeBlock, one action per branch.  Its one caller,        *)
(* CIBNodeDeleteNodeBlock, returns a block some cib-node owns.             *)
(***************************************************************************)
InsertInArray(block) ==
    /\ block \in inUse
    /\ arr_count < FREE_LIST_MAX_ENTRIES
    /\ array' = [array EXCEPT ![EmptySlot] = block]
    /\ arr_count' = arr_count + 1
    /\ SetTotalFree(total_free + 1)
    /\ inUse' = inUse \ {block}
    /\ UNCHANGED <<arr_start, header, md_blocks, list_blocks, md>>

(* The block is cleared and put in front of the list, if there is one. *)
InsertInList(block) ==
    /\ block \in inUse
    /\ arr_count >= FREE_LIST_MAX_ENTRIES
    /\ md' = [md EXCEPT ![GetNodeBlockAddress(block)] = LinkToHeader]
    /\ header' = block
    /\ SetTotalFree(total_free + 1)
    /\ inUse' = inUse \ {block}
    /\ UNCHANGED <<array, arr_start, arr_count, md_blocks, list_blocks>>

(***************************************************************************)
(* FreeListIncreaseListSize: the partition grows at its end, the node      *)
(* blocks are moved up by memmove and the gap is formatted as list blocks. *)
(***************************************************************************)
MoveAllButFirstNodeBlock(blocks) ==
    [a \in 0 .. md_blocks + blocks - 1 |->
        IF a > GetListBlockAddress(list_blocks + blocks) THEN md[a - blocks]
        ELSE IF a >= GetListBlockAddress(list_blocks) THEN ListBlock(a - 1)
        ELSE md[a]]

MoveNodeBlocks(blocks) ==
    [a \in 0 .. md_blocks + blocks - 1 |->
        IF a >= GetListBlockAddress(list_blocks + blocks) THEN md[a - blocks]
        ELSE IF a >= GetListBlockAddress(list_blocks) THEN ListBlock(a - 1)
        ELSE md[a]]

FreeListIncreaseListSize(blocks) ==
    /\ md_blocks + blocks <= MaxMDBlocks
    /\ md_blocks' = md_blocks + blocks
    /\ md' = MoveNodeBlocks(blocks)
    /\ list_blocks' = list_blocks + blocks
    /\ UNCHANGED <<array, arr_start, arr_count, header, total_free,
                   free_node_blocks, inUse>>

Next ==
    \/ RequestFromArray
    \/ RequestFromList
    \/ RequestByGrowing
    \/ \E b \in inUse : InsertInArray(b)
    \/ \E b \in inUse : InsertInList(b)
    \/ FreeListIncreaseListSize(1)

Spec == Init /\ [][Next]_vars

-------------------------------------------------------------------------------
(* The slot that holds the i-th buffered name, and the names buffered. *)
Slot(i)  == (arr_start + i) % FREE_LIST_MAX_ENTRIES
Buffered == {array[Slot(i)] : i \in 0 .. arr_count - 1}

(* The blocks formatted as members of the linked list. *)
Threaded == {b \in NodeBlocks : md[GetNodeBlockAddress(b)].kind = "free"}

FreeBlocks == Buffered \cup Threaded

(* Every field of the free list, the file header and the blocks has a value
   its type in freelist.c and header.c can hold. *)
TypeOK ==
    /\ array \in [Slots -> MDBlockIds]
    /\ arr_start \in Slots
    /\ arr_count \in 0 .. FREE_LIST_MAX_ENTRIES
    /\ header \in MDBlockIds
    /\ total_free \in Nat
    /\ free_node_blocks \in Nat
    /\ md_blocks \in 0 .. MaxMDBlocks
    /\ list_blocks \in Nat
    /\ list_blocks < md_blocks
    /\ md \in [0 .. md_blocks - 1 -> Contents]
    /\ inUse \subseteq NodeBlocks

(* No node block is lost and none is both free and owned by a cib-node,
   whatever the order of requests, returns and list growth that moved blocks
   between the circular buffer and the linked list. *)
NoBlockLostOrShared ==
    /\ FreeBlocks \cup inUse = NodeBlocks
    /\ FreeBlocks \cap inUse = {}
    /\ Buffered \cap Threaded = {}

(* The counter that decides between buffer, list and growing the file, and its
   copy in the file header, both equal the number of blocks really free. *)
CountersAreExact ==
    /\ total_free = Cardinality(FreeBlocks)
    /\ free_node_blocks = total_free

(* Adding a list block moves every node block, yet each cib-node is still found
   under the name its directory entry stores, and each list block under its
   number. *)
BlocksKeepTheirNames ==
    /\ \A b \in inUse : md[GetNodeBlockAddress(b)] = CIBNode(b)
    /\ \A i \in 0 .. list_blocks - 1 : md[GetListBlockAddress(i)] = ListBlock(i)

(* The names in the circular buffer are all different. *)
BufferIsDistinct ==
    \A i, j \in 0 .. arr_count - 1 : i # j => array[Slot(i)] # array[Slot(j)]

(* Following "next" from "header" for as many steps as the counters say visits
   every block formatted as a free node, once, and ends at the block without a
   successor: the list is cut off by counting, never by reading next_flag. *)
ListLength == total_free - arr_count

IsChain(chain) ==
    /\ \A i, j \in 1 .. ListLength : i # j => chain[i] # chain[j]
    /\ Threaded = {chain[i] : i \in 1 .. ListLength}
    /\ ListLength > 0 => header = chain[1]
    /\ \A i \in 1 .. ListLength :
         md[GetNodeBlockAddress(chain[i])] =
           IF i < ListLength THEN FreeNode(1, chain[i + 1]) ELSE FreeNode(0, 0)

ListIsThreaded ==
    /\ ListLength \in Nat
    /\ \E chain \in [1 .. ListLength -> NodeBlocks] : IsChain(chain)

(* The inductive invariant behind the theorems of FreeListProofs. *)
IInv ==
    /\ TypeOK
    /\ NoBlockLostOrShared
    /\ CountersAreExact
    /\ BlocksKeepTheirNames
    /\ BufferIsDistinct
    /\ ListIsThreaded

Pool == INSTANCE BlockPool
          WITH Blocks <- MDBlockIds, free <- FreeBlocks, used <- inUse

(* The buffer and the linked list together implement the abstract pool: a
   request never hands out a block that is in use, and the file grows only when
   no block is free. *)
ImplementsPool == Pool!PoolSpec
===============================================================================
