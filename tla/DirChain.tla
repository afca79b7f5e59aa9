------------------------------- MODULE DirChain -------------------------------
(***************************************************************************)
(* The cib-node of one directory (src/src/Metadata/cib_struct.c): a chain  *)
(* of node blocks, doubly linked, each with room for a few pairs of name   *)
(* and entry id.  The first block never moves: the directory entry points  *)
(* to it.  Further blocks come from the free list of the metadata          *)
(* partition, which FreeList shows to be a BlockPool, and go back to it.   *)
(*                                                                         *)
(* The state "c" is a record, the blocks and the blocks owned, so that a   *)
(* handler that calls several functions is one action composing them.  A   *)
(* pair is abstracted to its name: entry ids are unique while in use.      *)
(* "dir" is a history variable: the names inserted and not yet removed.    *)
(*                                                                         *)
(* A definition right in front of another one and with a longer name is a  *)
(* slip one could make in the code; no action uses it, it serves to see    *)
(* which property would notice.                                            *)
(***************************************************************************)
EXTENDS Integers, FiniteSets, SequencesExt

CONSTANTS
    NODE_ENTRIES,   \* pairs a node block holds, 3 in the code
    Names,          \* names that may be inserted
    NoName,         \* an empty slot: entry id 0
    MaxBlock        \* bound: largest id of a node block

ASSUME DirChainAssumption ==
    /\ NODE_ENTRIES \in Nat \ {0}
    /\ NoName \notin Names
    /\ MaxBlock \in Nat

VARIABLES
    c,              \* node blocks, and which of them cib-nodes own
    dir,            \* names the directory contains
    phase,          \* "live", "emptying", "sweeping", "gone"
    doomed          \* names CIBDeleteRec has still to delete, in order

vars == <<c, dir, phase, doomed>>

Blocks == 0 .. MaxBlock
Slots  == 1 .. NODE_ENTRIES
First  == 0         \* the block the directory entry points to

(* CIBNodeInit: memset, then parent and self, which are left out. *)
EmptyNode == [entry |-> [i \in Slots |-> NoName], count |-> 0,
              next |-> 0, previous |-> 0, next_flag |-> FALSE, previous_flag |-> FALSE]

SetNext(n, b)     == [n EXCEPT !.next = b, !.next_flag = TRUE]
SetPrevious(n, b) == [n EXCEPT !.previous = b, !.previous_flag = TRUE]

(* The chain from the first block along "next", as every recursive function of
   cib_struct.c visits it; cut off after more steps than there are blocks. *)
Chain(s) ==
    LET walk[n \in 0 .. MaxBlock + 1] ==
          IF n = 0 THEN <<First>>
          ELSE LET seen == walk[n - 1] IN
               IF s.node[Last(seen)].next_flag /\ Len(seen) = n
               THEN Append(seen, s.node[Last(seen)].next) ELSE seen
    IN  walk[MaxBlock + 1]

Occupied(n) == {i \in Slots : n.entry[i] # NoName}

(* The first block of the chain with a given pair; 0 if there is none.  Looking a
   name up, CIBNodeGetEntry passes over the blocks whose counter is zero. *)
Holder(s, name) ==
    SelectInSeq(Chain(s), LAMBDA b : \E i \in Slots : s.node[b].entry[i] = name)

GetEntrySkippingLast(s, name) ==
    SelectInSeq(Front(Chain(s)), LAMBDA b : \E i \in Slots : s.node[b].entry[i] = name)
GetEntry(s, name) ==
    SelectInSeq(Chain(s), LAMBDA b : /\ s.node[b].count > 0
                                     /\ \E i \in Slots : s.node[b].entry[i] = name)

(* CIBNodeGetDirEntries puts each pair in front of those found before. *)
InFront(n, found) ==
    LET put[i \in 0 .. NODE_ENTRIES] ==
          IF i = 0 THEN found
          ELSE IF n.entry[i] = NoName THEN put[i - 1] ELSE <<n.entry[i]>> \o put[i - 1]
    IN  put[NODE_ENTRIES]

DirEntries(s) ==
    LET chain == Chain(s)
        found[k \in 0 .. Len(chain)] ==
          IF k = 0 THEN <<>> ELSE InFront(s.node[chain[k]], found[k - 1])
    IN  found[Len(chain)]

-------------------------------------------------------------------------------
(***************************************************************************)
(* CIBNodeInsertEntry goes on to the last block whatever room there is in  *)
(* the blocks before it; a full last block gets a successor.               *)
(***************************************************************************)
FillSlot(n, name) ==
    LET free == CHOOSE i \in Slots : n.entry[i] = NoName
                                     /\ \A j \in Slots : n.entry[j] = NoName => i <= j
    IN  [n EXCEPT !.entry[free] = name, !.count = @ + 1]

InsertInLast(s, name) == [s EXCEPT !.node[Last(Chain(s))] = FillSlot(@, name)]

(* FreeListRequestNodeBlock hands out "new". *)
LinkNew(s, new) ==
    LET last == Last(Chain(s))
    IN  [node  |-> [s.node EXCEPT ![new] = SetPrevious(EmptyNode, last),
                                  ![last] = SetNext(@, new)],
         owned |-> s.owned \cup {new}]

(***************************************************************************)
(* CIBNodeDeleteNodeBlock, for a block that has a neighbour.  A block with *)
(* a predecessor is bypassed: nothing is told to its successor, and the    *)
(* block is not returned to the free list.  The first block takes over the *)
(* content of the second one, which is returned.  What a free block holds  *)
(* is left out, as LinksStayInOwnedBlocks and CIBNodeInit make up for it.  *)
(***************************************************************************)
BypassBlock(s, b) ==
    [s EXCEPT !.node[s.node[b].previous].next = s.node[b].next,
              !.node[s.node[b].previous].next_flag = s.node[b].next_flag]

PullNextKeepingLink(s, b) ==
    LET next == s.node[b].next
    IN  [node  |-> [s.node EXCEPT ![b] = [s.node[next] EXCEPT !.previous_flag = FALSE],
                                  ![next] = EmptyNode],
         owned |-> s.owned \ {next}]
PullNext(s, b) ==
    LET next   == s.node[b].next
        pulled == [s.node[next] EXCEPT !.previous_flag = FALSE]
        nodes  == [s.node EXCEPT ![b] = pulled, ![next] = EmptyNode]
    IN  [node  |-> IF pulled.next_flag
                   THEN [nodes EXCEPT ![pulled.next].previous = b] ELSE nodes,
         owned |-> s.owned \ {next}]

DeleteNodeBlock(s, b) ==
    CASE s.node[b].previous_flag -> BypassBlock(s, b)
      [] ~s.node[b].previous_flag /\ s.node[b].next_flag -> PullNext(s, b)
      [] OTHER -> s

ClearSlotKeepingCount(n, name) ==
    [n EXCEPT !.entry = [i \in Slots |-> IF @[i] = name THEN NoName ELSE @[i]]]
ClearSlotCountingEachSlot(n, name) ==
    [n EXCEPT !.entry = [i \in Slots |-> IF @[i] = name THEN NoName ELSE @[i]],
              !.count = @ - NODE_ENTRIES]
ClearSlot(n, name) ==
    [n EXCEPT !.entry = [i \in Slots |-> IF @[i] = name THEN NoName ELSE @[i]],
              !.count = @ - 1]

(* CIBNodeRemoveEntryId, from the first block of the cib-node. *)
RemoveEntryId(s, name) ==
    LET k       == Holder(s, name)
        b       == Chain(s)[k]
        cleared == [s EXCEPT !.node[b] = ClearSlot(@, name)]
    IN  CASE k = 0 -> s
          [] k # 0 /\ cleared.node[b].count = 0 -> DeleteNodeBlock(cleared, b)
          [] OTHER -> cleared

-------------------------------------------------------------------------------
Init ==
    /\ c = [node |-> [b \in Blocks |-> EmptyNode], owned |-> {First}]
    /\ dir = {}
    /\ phase = "live"
    /\ doomed = <<>>

(* CIBListUpdateEntry inserts a name the directory does not contain yet. *)
InsertInRoom(name) ==
    /\ phase = "live"
    /\ GetEntry(c, name) = 0
    /\ c.node[Last(Chain(c))].count # NODE_ENTRIES
    /\ c' = InsertInLast(c, name)
    /\ dir' = dir \cup {name}
    /\ UNCHANGED <<phase, doomed>>

InsertInNewBlock(name) ==
    /\ phase = "live"
    /\ GetEntry(c, name) = 0
    /\ c.node[Last(Chain(c))].count = NODE_ENTRIES
    /\ \E new \in Blocks \ c.owned : c' = InsertInLast(LinkNew(c, new), name)
    /\ dir' = dir \cup {name}
    /\ UNCHANGED <<phase, doomed>>

(* CIBListDeleteEntry of a file or link in the directory. *)
DeleteEntry(name) ==
    /\ phase = "live"
    /\ GetEntry(c, name) # 0
    /\ c' = RemoveEntryId(c, name)
    /\ dir' = dir \ {name}
    /\ UNCHANGED <<phase, doomed>>

(* CIBDeleteRec on the directory itself: it lists the entries, deletes one after
   the other, and then has CIBListDeleteEntry delete the directory. *)
StartDelete ==
    /\ phase = "live"
    /\ doomed' = DirEntries(c)
    /\ phase' = "emptying"
    /\ UNCHANGED <<c, dir>>

DeleteChild ==
    /\ phase = "emptying"
    /\ doomed # <<>>
    /\ c' = RemoveEntryId(c, Head(doomed))
    /\ dir' = dir \ {Head(doomed)}
    /\ doomed' = Tail(doomed)
    /\ UNCHANGED phase

ChildrenDeleted ==
    /\ phase = "emptying"
    /\ doomed = <<>>
    /\ phase' = "sweeping"
    /\ UNCHANGED <<c, dir, doomed>>

(* One turn of the do-while loop of CIBListDeleteDirEntry.  "node" is never
   advanced: each turn looks at the first block. *)
SweepSlot(s, i) ==
    IF s.node[First].entry[i] # NoName THEN RemoveEntryId(s, s.node[First].entry[i]) ELSE s

Swept(s) ==
    LET swept[i \in 0 .. NODE_ENTRIES] == IF i = 0 THEN s ELSE SweepSlot(swept[i - 1], i)
    IN  swept[NODE_ENTRIES]

Sweep ==
    /\ phase = "sweeping"
    /\ c' = Swept(c)
    /\ dir' = dir \ Range(c.node[First].entry)
    /\ phase' = IF c.node[First].next_flag THEN "sweeping" ELSE "gone"
    /\ UNCHANGED doomed

Next ==
    \/ \E name \in Names : InsertInRoom(name)
    \/ \E name \in Names : InsertInNewBlock(name)
    \/ \E name \in Names : DeleteEntry(name)
    \/ StartDelete
    \/ DeleteChild
    \/ ChildrenDeleted
    \/ Sweep

(* A command, once it deletes the directory, runs until it is done. *)
Fairness == WF_vars(DeleteChild \/ ChildrenDeleted \/ Sweep)

Spec == Init /\ [][Next]_vars /\ Fairness

-------------------------------------------------------------------------------
ChainBlocks == ToSet(Chain(c))

(* Blocks, links and counters have values of their types. *)
TypeOK ==
    /\ c.node \in [Blocks -> [entry : [Slots -> Names \cup {NoName}], count : 0 .. NODE_ENTRIES,
                              next : Blocks, previous : Blocks,
                              next_flag : BOOLEAN, previous_flag : BOOLEAN]]
    /\ c.owned \subseteq Blocks
    /\ First \in c.owned
    /\ dir \subseteq Names
    /\ phase \in {"live", "emptying", "sweeping", "gone"}
    /\ Range(doomed) \subseteq Names

(* Whatever blocks were emptied, bypassed and pulled forward, looking a name up
   finds it exactly if it was inserted and not removed, and a listing shows each
   such name once. *)
LookupIsExact ==
    /\ \A name \in Names : GetEntry(c, name) # 0 <=> name \in dir
    /\ ToSet(DirEntries(c)) = dir
    /\ Len(DirEntries(c)) = Cardinality(dir)

(* The counter that decides when a block is full or empty counts its names. *)
CountsAreExact ==
    \A b \in ChainBlocks : c.node[b].count = Cardinality(Occupied(c.node[b]))

(* The chain never runs into a block that was returned to the free list, and
   neither does a back link: following either never touches a block that another
   directory may own by now. *)
LinksStayInOwnedBlocks ==
    /\ Len(Chain(c)) <= Cardinality(c.owned)
    /\ \A b \in ChainBlocks :
         /\ b \in c.owned
         /\ c.node[b].previous_flag => c.node[b].previous \in c.owned

(* Deleting a directory comes to an end. *)
DeletionTerminates == phase = "emptying" ~> phase = "gone"
===============================================================================
