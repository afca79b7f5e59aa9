------------------------------- MODULE CIBList -------------------------------
(***************************************************************************)
(* How entry ids are given out and taken back (CIBListGetFreeSpot and      *)
(* CIBListFreeEntry, src/src/Metadata/cib_struct.c).                       *)
(*                                                                         *)
(* The entries of an archive lie in list blocks; the id of an entry is its *)
(* place.  A list block has a bitmap of its own entries, and blocks form   *)
(* sets: SetSize consecutive blocks are a set of level 0, SetSize sets of  *)
(* level n one of level n + 1.  A set of level n records which of its      *)
(* SetSize members are full in list_block_bitmap of its block number n     *)
(* (counted from 0), so that a free spot is found from the top level,      *)
(* nest_level, down.  There need not be all the blocks of a set.           *)
(*                                                                         *)
(* A bitmap is the set of its one-bits.  "inUse" is a history variable.    *)
(*                                                                         *)
(* A definition right in front of another one and with a longer name is a  *)
(* slip one could make in the code; no action uses it, it serves to see    *)
(* which property would notice.                                            *)
(***************************************************************************)
EXTENDS Integers, FiniteSets, SequencesExt

CONSTANTS
    SetSize,                 \* bits of list_block_bitmap, 64 in the code
    LIST_ENTRIES_PER_BLOCK,  \* 31 in the code
    IntBits,                 \* bits of the int that line 493 shifts, 32
    InitListBlocks,          \* list blocks CIBCreate may ask MDInit for
    MaxListBlocks,           \* bound: list blocks there can be
    MaxFree                  \* bound: free spots up to which entries are deleted

ASSUME CIBListAssumption ==
    /\ SetSize \in Nat \ {0, 1}
    /\ LIST_ENTRIES_PER_BLOCK \in Nat \ {0, 1}
    /\ IntBits \in Nat \ {0}
    /\ MaxFree \in Nat
    /\ InitListBlocks \subseteq 1 .. MaxListBlocks
    /\ MaxListBlocks \in Nat
    /\ MaxListBlocks <= SetSize^SetSize   \* a set has fewer levels than members

VARIABLES
    list,         \* the list blocks, by number
    nest_level,   \* level of the one set that holds all blocks; file header
    inUse         \* ids given out and not yet taken back

vars == <<list, nest_level, inUse>>

ListBlocks(s) == Cardinality(DOMAIN s)

(* The bits of "bitmap".  The last one has no entry and is always set: it makes
   the bitmap of a full block all ones. *)
EntryBits == 0 .. LIST_ENTRIES_PER_BLOCK
SetBits   == 0 .. SetSize - 1

(* CIBListBlockInit, with LIST_BLOCK_EMPTY. *)
EmptyListBlockWithoutEndBit ==
    [bitmap |-> {}, count |-> 0, list_block_bitmap |-> {}]
EmptyListBlock ==
    [bitmap |-> {LIST_ENTRIES_PER_BLOCK}, count |-> 0, list_block_bitmap |-> {}]

(* The least zero bit; where there is none, the search ends at the last bit. *)
BitmapFindZeroBit(bits, width) ==
    LET zeros == (0 .. width - 1) \ bits
    IN  IF zeros = {} THEN width - 1 ELSE Min(zeros)

(* The 64 bits searched for an entry are the bitmap and zeros above it. *)
FreeIndex(block) == BitmapFindZeroBit(block.bitmap, LIST_ENTRIES_PER_BLOCK + 2)
FreeMember(block) == BitmapFindZeroBit(block.list_block_bitmap, SetSize)

(* Number of blocks of a member of a set of a level; for SetSize = 64 the code shifts
   by 6 times the level. *)
MemberSize[level \in Nat] == IF level = 0 THEN 1 ELSE SetSize * MemberSize[level - 1]

(* First block of the set of a level that a block belongs to. *)
FirstOfSet(b, level) == b - (b % MemberSize[level + 1])

-------------------------------------------------------------------------------
(***************************************************************************)
(* CIBListGetFreeSpotRec.  A call is a record: the set it looks at and its *)
(* level.  Below the call, "index" is the member of the set chosen.        *)
(***************************************************************************)
Index(s, call) == FreeMember(s[call.first + call.level])

(* FreeListIncreaseListSize(1), if the block chosen is the one after the last. *)
GrownTo(s, b) ==
    IF b = ListBlocks(s) THEN [i \in DOMAIN s \cup {b} |-> IF i = b THEN EmptyListBlock ELSE s[i]]
    ELSE s

(* The call that follows.  Where the target set does not have enough blocks yet to
   record a level, that level is skipped. *)
SubCall(s, call) ==
    LET target_set   == call.first + Index(s, call) * MemberSize[call.level]
        target_block == target_set + call.level - 1
        list_blocks  == ListBlocks(GrownTo(s, target_set))
        diff         == IF target_block >= list_blocks THEN target_block - list_blocks + 1 ELSE 0
    IN  [first |-> target_set, level |-> call.level - 1 - diff]

(* The calls from the top level down to level 0. *)
Calls(s, top) ==
    LET calls[n \in Nat] ==
          IF n = 0 THEN <<[first |-> 0, level |-> top]>>
          ELSE LET above == calls[n - 1] IN
               IF Last(above).level = 0 THEN above
               ELSE Append(above, SubCall(s, Last(above)))
    IN  calls[top]

IsFull(block) == block.bitmap = EntryBits
AllFull(block) == block.list_block_bitmap = SetBits

(* A call marks the member it chose as full and tells the call above if that
   fills the set. *)
MarkFull(acc, call) ==
    LET b      == call.first + call.level
        marked == [acc.list EXCEPT ![b].list_block_bitmap = @ \cup {call.index}]
    IN  IF acc.full THEN [list |-> marked, full |-> AllFull(marked[b])] ELSE acc

(* The call of level 0 takes the first free entry of the first block of its set
   that is not full.  The shift of an index beyond the bitmap sets no new bit. *)
TakeEntryUnrecorded(s, b, index) == [s EXCEPT ![b].count = @ + 1]
TakeEntry(s, b, index) ==
    [s EXCEPT ![b].count = @ + 1,
              ![b].bitmap = @ \cup (EntryBits \cap {index})]

GetFreeSpotRec(s, top) ==
    LET calls   == Calls(s, top)
        first   == Last(calls).first
        grown   == GrownTo(s, first)
        b       == first + FreeMember(grown[first])
        roomy   == GrownTo(grown, b)
        index   == FreeIndex(roomy[b])
        taken   == TakeEntry(roomy, b, index)
        marks   == [i \in DOMAIN calls |->
                      [first |-> calls[i].first, level |-> calls[i].level,
                       index |-> IF calls[i].level = 0 THEN b - first ELSE Index(s, calls[i])]]
        returned[i \in 1 .. Len(marks) + 1] ==
          IF i > Len(marks) THEN [list |-> taken, full |-> IsFull(taken[b])]
          ELSE MarkFull(returned[i + 1], marks[i])
    IN  [list |-> returned[1].list, full |-> returned[1].full,
         id |-> b * LIST_ENTRIES_PER_BLOCK + index]

(* CIBListGetFreeSpot.  When the topmost set is full it becomes the first member
   of a set one level up. *)
RaiseLevelUnmarked(s, level) == s
RaiseLevel(s, level) == [s EXCEPT ![level].list_block_bitmap = {0}]

GetFreeSpot ==
    LET spot == GetFreeSpotRec(list, nest_level)
    IN  /\ ListBlocks(spot.list) <= MaxListBlocks
        /\ list' = IF spot.full THEN RaiseLevel(spot.list, nest_level + 1) ELSE spot.list
        /\ nest_level' = IF spot.full THEN nest_level + 1 ELSE nest_level
        /\ inUse' = inUse \cup {spot.id}

-------------------------------------------------------------------------------
(***************************************************************************)
(* CIBListUpdateGroupBitmap.  The mask of line 493 is an int: the shift is *)
(* taken modulo its width (as gcc's code for x86 does, where the language  *)
(* leaves it undefined), and the sign bit widens to a mask that clears all *)
(* bits above, too.                                                        *)
(***************************************************************************)
ClearedBitsUpTo(subset) == 0 .. subset
ClearedBits(subset) ==
    IF subset % IntBits = IntBits - 1 THEN {i \in SetBits : i >= IntBits - 1}
    ELSE {subset % IntBits}

(* The levels whose bitmaps are updated: the next one only if this one said that
   the whole set was full. *)
UpdatedLevelsAlone(s, b, max_nest) == {0}
UpdatedLevelsFromOne(s, b, max_nest) == 1 .. max_nest
UpdatedLevels(s, b, max_nest) ==
    {n \in 0 .. max_nest : \A m \in 0 .. n - 1 : AllFull(s[FirstOfSet(b, m) + m])}

UpdateGroupBitmap(s, b, max_nest) ==
    LET levels    == UpdatedLevels(s, b, max_nest)
        subset(n) == (b - FirstOfSet(b, n)) \div MemberSize[n]
        at(i)     == {n \in levels : FirstOfSet(b, n) + n = i}
        cleared(i) == UNION {ClearedBits(subset(n)) : n \in at(i)}
    IN  [i \in DOMAIN s |-> [s[i] EXCEPT !.list_block_bitmap = @ \ cleared(i)]]

(* CIBListFreeEntry. *)
FreeEntry(id) ==
    LET b       == id \div LIST_ENTRIES_PER_BLOCK
        index   == id % LIST_ENTRIES_PER_BLOCK
        updated == IF IsFull(list[b]) THEN UpdateGroupBitmap(list, b, nest_level) ELSE list
    IN  /\ id \in inUse \ {0}
        /\ ListBlocks(list) * LIST_ENTRIES_PER_BLOCK - Cardinality(inUse) < MaxFree
        /\ list' = [updated EXCEPT ![b].bitmap = @ \ {index}, ![b].count = @ - 1]
        /\ inUse' = inUse \ {id}
        /\ UNCHANGED nest_level

(* MDInit and CIBListInit: entry 0 is the root directory, which stays. *)
Init ==
    /\ \E n \in InitListBlocks :
         list = [b \in 0 .. n - 1 |->
                   IF b = 0 THEN [EmptyListBlock EXCEPT !.bitmap = @ \cup {0}, !.count = 1]
                   ELSE EmptyListBlock]
    /\ nest_level = 0
    /\ inUse = {0}

Next == GetFreeSpot \/ \E id \in inUse : FreeEntry(id)

Spec == Init /\ [][Next]_vars

-------------------------------------------------------------------------------
TypeOK ==
    /\ ListBlocks(list) \in 1 .. MaxListBlocks
    /\ list \in [0 .. ListBlocks(list) - 1 ->
                  [bitmap : SUBSET EntryBits, count : 0 .. LIST_ENTRIES_PER_BLOCK,
                   list_block_bitmap : SUBSET SetBits]]
    /\ nest_level \in DOMAIN list
    /\ inUse \subseteq 0 .. ListBlocks(list) * LIST_ENTRIES_PER_BLOCK - 1

(* The bitmap and the counter of every list block describe the ids in use, however
   often ids were given out and taken back. *)
EntriesAreExact ==
    \A b \in DOMAIN list :
      LET used == {i \in 0 .. LIST_ENTRIES_PER_BLOCK - 1 :
                     b * LIST_ENTRIES_PER_BLOCK + i \in inUse}
      IN  /\ list[b].bitmap = used \cup {LIST_ENTRIES_PER_BLOCK}
          /\ list[b].count = Cardinality(used)

(* At every level a set marks a member as full exactly if all blocks of that member
   exist and are full: a free spot is always found, and never looked for in vain. *)
SummariesAreExact ==
    \A n \in 0 .. nest_level, b \in DOMAIN list :
      FirstOfSet(b, n) + n = b =>
        list[b].list_block_bitmap =
          {k \in SetBits : LET first == FirstOfSet(b, n) + k * MemberSize[n]
                           IN  \A i \in first .. first + MemberSize[n] - 1 :
                                 i \in DOMAIN list /\ IsFull(list[i])}

(* "Finds a free entry id in the cib list": two entries never get the same id. *)
IdsAreFresh == [][GetFreeSpot => inUse' # inUse]_vars

(* "If none exists then a list block is created": the list grows only when every
   entry of every block is in use. *)
GrowsOnlyWhenFull ==
    [][ListBlocks(list') > ListBlocks(list) => \A b \in DOMAIN list : IsFull(list[b])]_vars
===============================================================================
