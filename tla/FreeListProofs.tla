---------------------------- MODULE FreeListProofs ----------------------------
(***************************************************************************)
(* Proofs about FreeList, for every size of the circular buffer, every     *)
(* initial shape of the partition and every bound on its growth.           *)
(***************************************************************************)
EXTENDS FreeList, FiniteSetTheorems, TLAPS

(* A ring index is the plain sum, or the sum wrapped once. *)
LEMMA RingIndex ==
    ASSUME NEW s \in Slots, NEW i \in 0 .. FREE_LIST_MAX_ENTRIES
    PROVE  /\ (s + i) % FREE_LIST_MAX_ENTRIES =
                IF s + i < FREE_LIST_MAX_ENTRIES THEN s + i
                ELSE s + i - FREE_LIST_MAX_ENTRIES
           /\ (s + i) % FREE_LIST_MAX_ENTRIES \in Slots
  BY FreeListAssumption, SMT DEF Slots, FreeListAssumption

(* A block handed out, a list block and an unformatted block are never taken
   for a member of the linked list. *)
LEMMA KindsDiffer ==
    /\ Blank.kind # "free"
    /\ \A b : CIBNode(b).kind # "free"
    /\ \A i : ListBlock(i).kind # "free"
    /\ \A f, n : FreeNode(f, n).kind = "free" /\ FreeNode(f, n).next = n
  BY DEF Blank, CIBNode, ListBlock, FreeNode

(* The sets of blocks the free list speaks of are finite. *)
LEMMA BlocksAreFinite ==
    ASSUME TypeOK, NoBlockLostOrShared
    PROVE  /\ IsFiniteSet(NodeBlocks)
           /\ FreeBlocks \subseteq NodeBlocks
           /\ IsFiniteSet(FreeBlocks)
<1>1. md_blocks - list_blocks - 2 \in Int
  BY FreeListAssumption, SMT DEF TypeOK, FreeListAssumption
<1>2. IsFiniteSet(NodeBlocks)
  BY <1>1, FS_Interval DEF NodeBlocks
<1>3. FreeBlocks \subseteq NodeBlocks
  BY DEF NoBlockLostOrShared
<1>4. QED
  BY <1>2, <1>3, FS_Subset

-------------------------------------------------------------------------------
LEMMA InitEstablishes == Init => IInv
<1> SUFFICES ASSUME NEW l \in InitListBlocks, NEW n \in InitNodeBlocks, MDInit(l, n)
             PROVE  IInv
  BY DEF Init
<1> DEFINE E == FREE_LIST_MAX_ENTRIES
<1>1. /\ E \in Nat /\ E > 0 /\ l \in Nat /\ l > 0 /\ n \in Nat
      /\ MaxMDBlocks \in Nat /\ 1 + l + n <= MaxMDBlocks
      /\ list_blocks = l /\ md_blocks = 1 + n + l /\ inUse = {}
  BY FreeListAssumption DEF MDInit, FreeListAssumption
<1>2. NodeBlocks = 0 .. n - 1
  BY <1>1, SMT DEF NodeBlocks
<1>3. \A b \in NodeBlocks :
         md[GetNodeBlockAddress(b)] =
            IF b < E THEN Blank ELSE IF b = E THEN FreeNode(0, 0) ELSE FreeNode(1, b - 1)
  BY <1>1, <1>2, SMT DEF MDInit, FreeListInit, GetNodeBlockAddress
<1>4. /\ arr_count \in 0 .. E
      /\ arr_start = 0
      /\ total_free = n
      /\ arr_count = (IF n < E THEN n ELSE E)
      /\ array = [i \in Slots |-> IF i < n THEN i ELSE 0]
  BY <1>1, SMT DEF MDInit, FreeListInit
<1>5. \A i \in 0 .. arr_count - 1 : Slot(i) = i /\ array[Slot(i)] = i
  BY <1>1, <1>4, RingIndex, SMT DEF Slot, Slots
<1>6. Buffered = 0 .. arr_count - 1
  BY <1>1, <1>4, <1>5, SMT DEF Buffered
<1>7. Threaded = {b \in NodeBlocks : b >= E}
  BY <1>1, <1>2, <1>3, KindsDiffer DEF Threaded
<1>8. TypeOK
  <2>1. md \in [0 .. md_blocks - 1 -> Contents]
    <3>1. /\ Blank \in Contents
          /\ \A i \in MDBlockIds : ListBlock(i) \in Contents
          /\ FreeNode(0, 0) \in Contents
          /\ \A b \in MDBlockIds : FreeNode(1, b) \in Contents
      BY <1>1 DEF Contents, MDBlockIds
    <3>2. md = [a \in 0 .. md_blocks - 1 |-> md[a]]
      BY <1>1, SMT DEF MDInit, FreeListInit
    <3>3. ASSUME NEW a \in 0 .. md_blocks - 1 PROVE md[a] \in Contents
      <4>1. CASE a = 0
        BY <1>1, <3>1, <4>1 DEF MDInit, FreeListInit
      <4>2. CASE a > 0 /\ a <= l
        <5>1. md[a] = ListBlock(a - 1) /\ a - 1 \in MDBlockIds
          BY <1>1, <4>2, SMT DEF MDInit, FreeListInit, MDBlockIds
        <5>2. QED BY <3>1, <5>1
      <4>3. CASE a > l
        <5>1. a - 1 - l \in NodeBlocks /\ a = GetNodeBlockAddress(a - 1 - l)
          BY <1>1, <1>2, <4>3, SMT DEF GetNodeBlockAddress
        <5>2. a - 1 - l \in Int /\ (a - 1 - l > E => a - 1 - l - 1 \in MDBlockIds)
          BY <1>1, SMT DEF MDBlockIds
        <5>3. QED BY <1>1, <1>3, <3>1, <5>1, <5>2
      <4>4. QED BY <1>1, <4>1, <4>2, <4>3, SMT
    <3>4. QED BY <3>2, <3>3
  <2>2. array \in [Slots -> MDBlockIds]
    BY <1>1, <1>4, SMT DEF Slots, MDBlockIds
  <2>3. header \in MDBlockIds
    BY <1>1, SMT DEF MDInit, FreeListInit, MDBlockIds
  <2>4. QED
    BY <1>1, <1>4, <2>1, <2>2, <2>3, SMT DEF TypeOK, Slots, MDInit, FreeListInit
<1>9. NoBlockLostOrShared
  BY <1>1, <1>2, <1>4, <1>6, <1>7, SMT DEF NoBlockLostOrShared, FreeBlocks
<1>10. CountersAreExact
  <2>1. FreeBlocks = 0 .. n - 1
    BY <1>1, <1>2, <1>9 DEF NoBlockLostOrShared
  <2>2. Cardinality(0 .. n - 1) = n
    BY <1>1, FS_Interval, SMT
  <2>3. QED
    BY <1>4, <2>1, <2>2 DEF CountersAreExact, MDInit, FreeListInit
<1>11. BlocksKeepTheirNames
  BY <1>1, SMT DEF BlocksKeepTheirNames, MDInit, FreeListInit, GetListBlockAddress
<1>12. BufferIsDistinct
  BY <1>5 DEF BufferIsDistinct
<1>13. ListIsThreaded
  <2>1. ListLength \in Nat /\ ListLength = IF n < E THEN 0 ELSE n - E
    BY <1>1, <1>4, SMT DEF ListLength
  <2> DEFINE chain == [i \in 1 .. ListLength |-> n - i]
  <2>2. chain \in [1 .. ListLength -> NodeBlocks]
    BY <1>1, <1>2, <2>1, SMT
  <2>3. \A i, j \in 1 .. ListLength : i # j => chain[i] # chain[j]
    BY <1>1, <2>1, SMT
  <2>4. Threaded = {chain[i] : i \in 1 .. ListLength}
    <3>1. ASSUME NEW b \in NodeBlocks, b >= E
          PROVE  n - b \in 1 .. ListLength /\ b = n - (n - b)
      BY <1>1, <1>2, <2>1, <3>1, SMT
    <3>2. \A i \in 1 .. ListLength : n - i \in NodeBlocks /\ n - i >= E
      BY <1>1, <1>2, <2>1, SMT
    <3>3. QED BY <1>7, <3>1, <3>2
  <2>5. ListLength > 0 => header = chain[1]
    BY <1>1, <2>1, SMT DEF MDInit, FreeListInit
  <2>6. ASSUME NEW i \in 1 .. ListLength
        PROVE  md[GetNodeBlockAddress(chain[i])] =
                 IF i < ListLength THEN FreeNode(1, chain[i + 1]) ELSE FreeNode(0, 0)
    <3>1. chain[i] = n - i /\ n - i \in NodeBlocks /\ n - i >= E
          /\ (i < ListLength <=> n - i # E)
          /\ (i < ListLength => chain[i + 1] = n - i - 1)
      BY <1>1, <1>2, <2>1, SMT
    <3>2. QED BY <1>1, <1>3, <3>1, SMT
  <2> HIDE DEF chain
  <2>7. QED
    BY <2>1, <2>2, <2>3, <2>4, <2>5, <2>6 DEF ListIsThreaded, IsChain
<1>14. QED
  BY <1>8, <1>9, <1>10, <1>11, <1>12, <1>13 DEF IInv

-------------------------------------------------------------------------------
(* What the action lemmas use of the invariant: arithmetic first. *)
LEMMA Ranges ==
    ASSUME TypeOK
    PROVE  /\ FREE_LIST_MAX_ENTRIES \in Nat /\ FREE_LIST_MAX_ENTRIES > 0
           /\ MaxMDBlocks \in Nat
           /\ arr_start \in 0 .. FREE_LIST_MAX_ENTRIES - 1
           /\ arr_count \in 0 .. FREE_LIST_MAX_ENTRIES
           /\ total_free \in Nat
           /\ list_blocks \in Nat /\ md_blocks \in Nat
           /\ list_blocks < md_blocks /\ md_blocks <= MaxMDBlocks
           /\ \A b \in NodeBlocks : b \in MDBlockIds /\ b \in Nat
                                    /\ GetNodeBlockAddress(b) \in 0 .. md_blocks - 1
                                    /\ GetNodeBlockAddress(b) > list_blocks
  BY FreeListAssumption, SMT DEF FreeListAssumption, TypeOK, Slots, NodeBlocks,
     MDBlockIds, GetNodeBlockAddress

(* Taking one block out of the free ones, or adding one, moves the count by one. *)
LEMMA CountAfterTaking ==
    ASSUME IInv, NEW b \in FreeBlocks
    PROVE  /\ total_free > 0
           /\ Cardinality(FreeBlocks \ {b}) = total_free - 1
<1>1. IsFiniteSet(FreeBlocks)
  BY BlocksAreFinite DEF IInv
<1>2. Cardinality(FreeBlocks \ {b}) = Cardinality(FreeBlocks) - 1
      /\ Cardinality(FreeBlocks) \in Nat /\ Cardinality(FreeBlocks \ {b}) \in Nat
  BY <1>1, FS_RemoveElement, FS_CardinalityType
<1>3. QED
  BY <1>2, SMT DEF IInv, CountersAreExact

LEMMA CountAfterReturning ==
    ASSUME IInv, NEW b, b \notin FreeBlocks
    PROVE  Cardinality(FreeBlocks \cup {b}) = total_free + 1
<1>1. IsFiniteSet(FreeBlocks)
  BY BlocksAreFinite DEF IInv
<1>2. QED
  BY <1>1, FS_AddElement, SMT DEF IInv, CountersAreExact

(* A list block and the free-list block are never at a node block's address, and
   two node blocks are never at the same one. *)
LEMMA NodeWriteIsLocal ==
    ASSUME TypeOK, NEW b \in NodeBlocks, NEW v \in Contents
    PROVE  LET new == [md EXCEPT ![GetNodeBlockAddress(b)] = v] IN
           /\ new \in [0 .. md_blocks - 1 -> Contents]
           /\ new[GetNodeBlockAddress(b)] = v
           /\ \A c \in NodeBlocks : c # b =>
                 new[GetNodeBlockAddress(c)] = md[GetNodeBlockAddress(c)]
           /\ \A i \in 0 .. list_blocks - 1 :
                 new[GetListBlockAddress(i)] = md[GetListBlockAddress(i)]
<1>1. /\ md \in [0 .. md_blocks - 1 -> Contents]
      /\ GetNodeBlockAddress(b) \in 0 .. md_blocks - 1
  BY Ranges DEF TypeOK
<1>2. \A c \in NodeBlocks : c # b => GetNodeBlockAddress(c) # GetNodeBlockAddress(b)
                                     /\ GetNodeBlockAddress(c) \in 0 .. md_blocks - 1
  BY Ranges, SMT DEF GetNodeBlockAddress
<1>3. \A i \in 0 .. list_blocks - 1 :
         /\ GetListBlockAddress(i) # GetNodeBlockAddress(b)
         /\ GetListBlockAddress(i) \in 0 .. md_blocks - 1
  BY Ranges, SMT DEF GetNodeBlockAddress, GetListBlockAddress
<1>4. QED
  BY <1>1, <1>2, <1>3

(* The linked list stays threaded when nothing it is made of changes. *)
LEMMA ListUntouched ==
    ASSUME ListIsThreaded,
           ListLength' = ListLength, header' = header,
           Threaded' = Threaded, NodeBlocks' = NodeBlocks,
           \A c \in Threaded :
              md'[GetNodeBlockAddress(c)'] = md[GetNodeBlockAddress(c)]
    PROVE  ListIsThreaded'
<1>1. PICK chain \in [1 .. ListLength -> NodeBlocks] : IsChain(chain)
  BY DEF ListIsThreaded
<1>2. \A i \in 1 .. ListLength : chain[i] \in Threaded
  BY <1>1 DEF IsChain
<1>3. \A i \in 1 .. ListLength :
        md'[GetNodeBlockAddress(chain[i])'] =
           IF i < ListLength THEN FreeNode(1, chain[i + 1]) ELSE FreeNode(0, 0)
  BY <1>1, <1>2 DEF IsChain
<1>4. IsChain(chain)'
  BY <1>1, <1>3 DEF IsChain, FreeNode
<1>5. QED
  BY <1>4 DEF ListIsThreaded

LEMMA NodeContents ==
    \A b \in MDBlockIds : /\ CIBNode(b) \in Contents
                          /\ FreeNode(0, 0) \in Contents
                          /\ \A n \in MDBlockIds : FreeNode(1, n) \in Contents
<1>1. 0 \in MDBlockIds
  BY FreeListAssumption, SMT DEF FreeListAssumption, MDBlockIds
<1>2. QED
  BY <1>1 DEF Contents

-------------------------------------------------------------------------------
LEMMA RequestFromArrayKeepsIInv ==
    ASSUME IInv, RequestFromArray
    PROVE  IInv' /\ Pool!Allocate(array[arr_start])
<1> DEFINE E == FREE_LIST_MAX_ENTRIES
           b == array[arr_start]
<1> USE Ranges DEF IInv
<1>1. arr_count \in 1 .. E /\ arr_start \in Slots /\ arr_start \in 0 .. E - 1
  BY DEF RequestFromArray, SetTotalFree, NextStart, TypeOK
<1>2. Slot(0) = arr_start
  BY <1>1, RingIndex, SMT DEF Slot
<1>3. b \in Buffered /\ b \in FreeBlocks /\ b \in NodeBlocks
      /\ b \notin inUse /\ b \notin Threaded
  <2>1. b \in Buffered
    BY <1>1, <1>2, SMT DEF Buffered
  <2>2. QED
    BY <2>1 DEF FreeBlocks, NoBlockLostOrShared
<1>4. \A i \in 0 .. arr_count' - 1 : Slot(i)' = Slot(i + 1) /\ array'[Slot(i)'] = array[Slot(i + 1)]
  <2>1. /\ arr_start' = (arr_start + 1) % E /\ arr_count' = arr_count - 1
        /\ arr_start' \in 0 .. E - 1 /\ array' = array
    BY <1>1, RingIndex DEF RequestFromArray, SetTotalFree, NextStart, Slots
  <2>2. arr_start' = (IF arr_start + 1 < E THEN arr_start + 1 ELSE arr_start + 1 - E)
    BY <1>1, <2>1, RingIndex, SMT
  <2>3. ASSUME NEW i \in 0 .. arr_count' - 1 PROVE Slot(i)' = Slot(i + 1)
    <3>1. i \in 0 .. E /\ i + 1 \in 0 .. E
      BY <1>1, <2>1, <2>3, SMT
    <3>2. (arr_start' + i) % E =
             IF arr_start' + i < E THEN arr_start' + i ELSE arr_start' + i - E
      BY <2>1, <3>1, RingIndex DEF Slots
    <3>3. (arr_start + (i + 1)) % E =
             IF arr_start + (i + 1) < E THEN arr_start + (i + 1)
             ELSE arr_start + (i + 1) - E
      BY <1>1, <3>1, RingIndex
    <3>4. QED
      BY <1>1, <2>1, <2>2, <3>1, <3>2, <3>3, SMT DEF Slot
  <2>4. QED
    BY <2>1, <2>3
<1>5. Buffered' = Buffered \ {b}
  <2>1. \A i \in 0 .. arr_count' - 1 : i + 1 \in 0 .. arr_count - 1 /\ i + 1 # 0
    BY <1>1, SMT DEF RequestFromArray, SetTotalFree, NextStart
  <2>2. \A i \in 0 .. arr_count - 1 : i # 0 => i - 1 \in 0 .. arr_count' - 1 /\ (i - 1) + 1 = i
    BY <1>1, SMT DEF RequestFromArray, SetTotalFree, NextStart
  <2>3. \A i \in 0 .. arr_count - 1 : i # 0 => array[Slot(i)] # b
    BY <1>1, <1>2, SMT DEF BufferIsDistinct
  <2>4. ASSUME NEW x \in Buffered' PROVE x \in Buffered \ {b}
    <3>1. PICK i \in 0 .. arr_count' - 1 : x = array'[Slot(i)']
      BY <2>4 DEF Buffered
    <3>2. x = array[Slot(i + 1)]
      BY <3>1, <1>4
    <3>3. QED
      BY <3>2, <2>1, <2>3 DEF Buffered
  <2>5. ASSUME NEW x \in Buffered, x # b PROVE x \in Buffered'
    <3>1. PICK i \in 0 .. arr_count - 1 : x = array[Slot(i)]
      BY DEF Buffered
    <3>2. i # 0
      BY <3>1, <2>5, <1>2
    <3>3. x = array'[Slot(i - 1)'] /\ i - 1 \in 0 .. arr_count' - 1
      BY <3>1, <3>2, <2>2, <1>4
    <3>4. QED
      BY <3>3 DEF Buffered
  <2>6. QED
    BY <2>4, <2>5
<1>6. /\ md' \in [0 .. md_blocks - 1 -> Contents]
      /\ md'[GetNodeBlockAddress(b)] = CIBNode(b)
      /\ \A c \in NodeBlocks : c # b =>
            md'[GetNodeBlockAddress(c)] = md[GetNodeBlockAddress(c)]
      /\ \A i \in 0 .. list_blocks - 1 :
            md'[GetListBlockAddress(i)] = md[GetListBlockAddress(i)]
  <2>1. md' = [md EXCEPT ![GetNodeBlockAddress(b)] = CIBNode(b)]
    BY DEF RequestFromArray, SetTotalFree, NextStart
  <2>2. CIBNode(b) \in Contents
    BY <1>3, NodeContents
  <2>3. QED
    BY <1>3, <2>1, <2>2, NodeWriteIsLocal
<1>7. /\ NodeBlocks' = NodeBlocks
      /\ \A c : GetNodeBlockAddress(c)' = GetNodeBlockAddress(c)
      /\ list_blocks' = list_blocks /\ md_blocks' = md_blocks
      /\ inUse' = inUse \cup {b}
  BY DEF RequestFromArray, SetTotalFree, NextStart, NodeBlocks, GetNodeBlockAddress
<1>8. Threaded' = Threaded
  BY <1>3, <1>6, <1>7, KindsDiffer DEF Threaded
<1>9. FreeBlocks' = FreeBlocks \ {b}
  BY <1>3, <1>5, <1>8 DEF FreeBlocks
<1>10. TypeOK'
  <2>1. total_free > 0
    BY <1>3, CountAfterTaking
  <2>2. (arr_start + 1) % E \in Slots
    BY <1>1, RingIndex, SMT
  <2>3. QED
    BY <1>1, <1>3, <1>6, <1>7, <2>1, <2>2, SMTT(30) DEF TypeOK, RequestFromArray, SetTotalFree, NextStart
<1>11. NoBlockLostOrShared'
  BY <1>3, <1>5, <1>7, <1>8, <1>9 DEF NoBlockLostOrShared
<1>12. CountersAreExact'
  BY <1>3, <1>9, CountAfterTaking DEF CountersAreExact, RequestFromArray, SetTotalFree, NextStart
<1>13. BlocksKeepTheirNames'
  <2>1. \A c \in inUse' : md'[GetNodeBlockAddress(c)'] = CIBNode(c)
    BY <1>6, <1>7 DEF BlocksKeepTheirNames, TypeOK
  <2>2. QED
    BY <2>1, <1>6, <1>7 DEF BlocksKeepTheirNames, GetListBlockAddress
<1>14. BufferIsDistinct'
  <2>1. \A i \in 0 .. arr_count' - 1 : i + 1 \in 0 .. arr_count - 1
    BY <1>1, SMT DEF RequestFromArray, SetTotalFree, NextStart
  <2>2. \A i, j \in 0 .. arr_count' - 1 : i # j => i + 1 # j + 1
    BY <1>1, SMT DEF RequestFromArray, SetTotalFree, NextStart
  <2>3. QED
    BY <1>4, <2>1, <2>2 DEF BufferIsDistinct
<1>15. ListIsThreaded'
  <2>1. ListLength' = ListLength
    BY <1>1, SMT DEF ListLength, RequestFromArray, SetTotalFree, NextStart
  <2>2. header' = header
    BY DEF RequestFromArray, SetTotalFree, NextStart
  <2>3. \A c \in Threaded : md'[GetNodeBlockAddress(c)'] = md[GetNodeBlockAddress(c)]
    BY <1>3, <1>6, <1>7 DEF Threaded
  <2>4. QED
    BY <2>1, <2>2, <2>3, <1>7, <1>8, ListUntouched
<1>16. Pool!Allocate(b)
  BY <1>3, <1>7, <1>9 DEF Pool!Allocate
<1>17. QED
  BY <1>10, <1>11, <1>12, <1>13, <1>14, <1>15, <1>16 DEF IInv

LEMMA RequestFromListKeepsIInv ==
    ASSUME IInv, RequestFromList
    PROVE  IInv' /\ Pool!Allocate(header)
<1> DEFINE E == FREE_LIST_MAX_ENTRIES
           b == header
           L == ListLength
<1> USE Ranges DEF IInv
<1>1. /\ arr_count = 0 /\ arr_count' = 0
      /\ L = total_free /\ L \in Nat /\ L > 0
      /\ ListLength' = L - 1
  BY SMT DEF RequestFromList, SetTotalFree, NoneFree, ListLength
<1>2. PICK chain \in [1 .. L -> NodeBlocks] : IsChain(chain)
  BY DEF ListIsThreaded
<1>3. b = chain[1] /\ b \in Threaded /\ b \in NodeBlocks /\ b \in FreeBlocks
      /\ b \notin inUse
  <2>1. 1 \in 1 .. L
    BY <1>1, SMT
  <2>2. b = chain[1] /\ b \in Threaded
    BY <1>1, <1>2, <2>1 DEF IsChain
  <2>3. QED
    BY <2>2 DEF FreeBlocks, NoBlockLostOrShared, Threaded
<1>4. Buffered = {} /\ Buffered' = {}
  BY <1>1, SMT DEF Buffered
<1>5. /\ NodeBlocks' = NodeBlocks
      /\ \A c : GetNodeBlockAddress(c)' = GetNodeBlockAddress(c)
      /\ list_blocks' = list_blocks /\ md_blocks' = md_blocks
      /\ inUse' = inUse \cup {b}
  BY DEF RequestFromList, SetTotalFree, NoneFree, NodeBlocks, GetNodeBlockAddress
<1>6. /\ md' \in [0 .. md_blocks - 1 -> Contents]
      /\ md'[GetNodeBlockAddress(b)] = CIBNode(b)
      /\ \A c \in NodeBlocks : c # b =>
            md'[GetNodeBlockAddress(c)] = md[GetNodeBlockAddress(c)]
      /\ \A i \in 0 .. list_blocks - 1 :
            md'[GetListBlockAddress(i)] = md[GetListBlockAddress(i)]
  <2>1. md' = [md EXCEPT ![GetNodeBlockAddress(b)] = CIBNode(b)]
    BY DEF RequestFromList, SetTotalFree, NoneFree
  <2>2. CIBNode(b) \in Contents
    BY <1>3, NodeContents
  <2>3. QED
    BY <1>3, <2>1, <2>2, NodeWriteIsLocal
<1>7. Threaded' = Threaded \ {b}
  BY <1>3, <1>5, <1>6, KindsDiffer DEF Threaded
<1>8. FreeBlocks' = FreeBlocks \ {b}
  BY <1>4, <1>7 DEF FreeBlocks
<1>9. \A i \in 1 .. L - 1 : i + 1 \in 1 .. L /\ i \in 1 .. L
  BY <1>1, SMT
<1>10. header' = (IF L = 1 THEN 0 ELSE chain[2])
  <2>1. md[GetNodeBlockAddress(b)] = IF 1 < L THEN FreeNode(1, chain[1 + 1]) ELSE FreeNode(0, 0)
    BY <1>1, <1>2, <1>3, SMT DEF IsChain
  <2>2. L = 1 \/ 1 < L
    BY <1>1, SMT
  <2>3. header' = md[GetNodeBlockAddress(b)].next
    BY DEF RequestFromList, SetTotalFree, NoneFree
  <2>4. CASE L = 1
    BY <2>1, <2>3, <2>4, KindsDiffer, SMT DEF FreeNode
  <2>5. CASE 1 < L
    BY <2>1, <2>3, <2>5, <1>1, KindsDiffer, SMT DEF FreeNode
  <2>6. QED
    BY <2>2, <2>4, <2>5
<1>11. TypeOK'
  <2>1. header' \in MDBlockIds
    <3>1. 0 \in MDBlockIds
      BY SMT DEF MDBlockIds
    <3>2. L # 1 => chain[2] \in NodeBlocks
      BY <1>1, <1>2, SMT
    <3>3. QED
      BY <1>10, <3>1, <3>2
  <2>2. QED
    BY <1>1, <1>3, <1>5, <1>6, <2>1, SMT DEF TypeOK, RequestFromList, SetTotalFree, NoneFree
<1>12. NoBlockLostOrShared'
  BY <1>3, <1>4, <1>5, <1>7, <1>8 DEF NoBlockLostOrShared
<1>13. CountersAreExact'
  BY <1>3, <1>8, CountAfterTaking DEF CountersAreExact, RequestFromList, SetTotalFree, NoneFree
<1>14. BlocksKeepTheirNames'
  <2>1. \A c \in inUse' : md'[GetNodeBlockAddress(c)'] = CIBNode(c)
    BY <1>5, <1>6 DEF BlocksKeepTheirNames, TypeOK
  <2>2. QED
    BY <2>1, <1>5, <1>6 DEF BlocksKeepTheirNames, GetListBlockAddress
<1>15. BufferIsDistinct'
  BY <1>1, SMT DEF BufferIsDistinct
<1>16. ListIsThreaded'
  <2>0. PICK rest : rest = [i \in 1 .. L - 1 |-> chain[i + 1]]
    OBVIOUS
  <2>1. rest \in [1 .. ListLength' -> NodeBlocks']
    BY <1>1, <1>2, <1>5, <1>9, <2>0
  <2>2. \A i, j \in 1 .. ListLength' : i # j => rest[i] # rest[j]
    <3>1. \A i, j \in 1 .. L - 1 : i # j => i + 1 # j + 1
      BY <1>1, SMT
    <3>2. QED
      BY <1>1, <1>2, <1>9, <2>0, <3>1 DEF IsChain
  <2>3. Threaded' = {rest[i] : i \in 1 .. ListLength'}
    <3>1. \A i \in 1 .. L - 1 : i + 1 # 1 /\ 1 \in 1 .. L
      BY <1>1, SMT
    <3>2. \A i \in 1 .. L - 1 : rest[i] \in Threaded'
      BY <1>2, <1>3, <1>7, <1>9, <2>0, <3>1 DEF IsChain
    <3>3. ASSUME NEW c \in Threaded, c # b PROVE \E i \in 1 .. L - 1 : c = rest[i]
      <4>1. PICK j \in 1 .. L : c = chain[j]
        BY <1>2 DEF IsChain
      <4>2. j # 1
        BY <3>3, <4>1, <1>3
      <4>3. j - 1 \in 1 .. L - 1 /\ (j - 1) + 1 = j
        BY <1>1, <4>1, <4>2, SMT
      <4>4. QED
        BY <2>0, <4>1, <4>3
    <3>4. QED
      BY <1>1, <1>7, <3>2, <3>3
  <2>4. ListLength' > 0 => header' = rest[1]
    BY <1>1, <1>10, <2>0, SMTT(30)
  <2>5. ASSUME NEW i \in 1 .. ListLength'
        PROVE  md'[GetNodeBlockAddress(rest[i])'] =
                 IF i < ListLength' THEN FreeNode(1, rest[i + 1]) ELSE FreeNode(0, 0)
    <3>1. i + 1 \in 1 .. L /\ (i + 1 < L <=> i < ListLength') /\ i + 1 # 1
          /\ (i < ListLength' => rest[i + 1] = chain[(i + 1) + 1])
      BY <1>1, <2>0, SMTT(30)
    <3>2. rest[i] = chain[i + 1] /\ rest[i] # b /\ rest[i] \in NodeBlocks
      <4>1. rest[i] = chain[i + 1] /\ 1 \in 1 .. L
        BY <1>1, <2>0, SMT
      <4>2. QED
        BY <1>2, <1>3, <3>1, <4>1 DEF IsChain
    <3>3. md'[GetNodeBlockAddress(rest[i])'] = md[GetNodeBlockAddress(chain[i + 1])]
      BY <1>5, <1>6, <3>2
    <3>4. md[GetNodeBlockAddress(chain[i + 1])] =
             IF i + 1 < L THEN FreeNode(1, chain[(i + 1) + 1]) ELSE FreeNode(0, 0)
      BY <1>2, <3>1 DEF IsChain
    <3>5. CASE i < ListLength'
      BY <3>1, <3>3, <3>4, <3>5
    <3>6. CASE ~ (i < ListLength')
      BY <3>1, <3>3, <3>4, <3>6
    <3>7. QED
      BY <3>5, <3>6
  <2>6. IsChain(rest)'
    BY <2>2, <2>3, <2>4, <2>5 DEF IsChain, FreeNode
  <2>7. QED
    BY <1>1, <2>1, <2>6 DEF ListIsThreaded
<1>17. Pool!Allocate(b)
  BY <1>3, <1>5, <1>8 DEF Pool!Allocate
<1>18. QED
  BY <1>11, <1>12, <1>13, <1>14, <1>15, <1>16, <1>17 DEF IInv

LEMMA RequestByGrowingKeepsIInv ==
    ASSUME IInv, RequestByGrowing
    PROVE  IInv' /\ Pool!Enlarge(md_blocks - 1 - list_blocks)
<1> DEFINE new == md_blocks - 1 - list_blocks
<1> USE Ranges DEF IInv
<1>1. /\ arr_count = 0 /\ arr_count' = 0
      /\ total_free = 0 /\ total_free' = 0
      /\ md_blocks < MaxMDBlocks /\ md_blocks' = md_blocks + 1
      /\ list_blocks' = list_blocks
      /\ new \in Nat
  BY SMT DEF RequestByGrowing, SetTotalFree, NoneFree
<1>2. md' = [a \in 0 .. md_blocks |->
               IF a = GetNodeBlockAddress(new) THEN CIBNode(new) ELSE md[a]]
      /\ inUse' = inUse \cup {new}
  BY <1>1, SMT DEF RequestByGrowing, SetTotalFree, NoneFree
<1>3. /\ NodeBlocks' = NodeBlocks \cup {new}
      /\ new \notin NodeBlocks
      /\ new \in MDBlockIds
      /\ \A c : GetNodeBlockAddress(c)' = GetNodeBlockAddress(c)
      /\ GetNodeBlockAddress(new) = md_blocks
  <2>1. NodeBlocks = 0 .. new - 1 /\ NodeBlocks' = 0 .. new
    BY <1>1, SMT DEF NodeBlocks
  <2>2. 0 .. new = (0 .. new - 1) \cup {new}
    BY <1>1, SMT
  <2>3. QED
    BY <1>1, <2>1, <2>2, SMTT(30) DEF MDBlockIds, GetNodeBlockAddress
<1>4. FreeBlocks = {} /\ Buffered = {} /\ Threaded = {}
  <2>1. IsFiniteSet(FreeBlocks) /\ Cardinality(FreeBlocks) = 0
    BY <1>1, BlocksAreFinite DEF CountersAreExact
  <2>2. FreeBlocks = {}
    BY <2>1, FS_EmptySet
  <2>3. QED
    BY <2>2 DEF FreeBlocks
<1>5. /\ md'[GetNodeBlockAddress(new)] = CIBNode(new)
      /\ \A a \in 0 .. md_blocks - 1 : md'[a] = md[a]
      /\ md' \in [0 .. md_blocks' - 1 -> Contents]
  <2>1. CIBNode(new) \in Contents
    BY <1>3, NodeContents
  <2>2. \A a \in 0 .. md_blocks : a # md_blocks => a \in 0 .. md_blocks - 1
    BY SMT
  <2>3. \A a \in 0 .. md_blocks - 1 : a # md_blocks /\ a \in 0 .. md_blocks
    BY SMT
  <2>4. md_blocks \in 0 .. md_blocks /\ 0 .. md_blocks' - 1 = 0 .. md_blocks
    BY <1>1, SMT
  <2>5. md \in [0 .. md_blocks - 1 -> Contents]
    BY DEF TypeOK
  <2>6. QED
    BY <1>2, <1>3, <2>1, <2>2, <2>3, <2>4, <2>5
<1>6. \A c \in NodeBlocks : md'[GetNodeBlockAddress(c)'] = md[GetNodeBlockAddress(c)]
  BY <1>3, <1>5
<1>7. Threaded' = {} /\ Buffered' = {} /\ FreeBlocks' = {}
  <2>1. Buffered' = {}
    BY <1>1, SMT DEF Buffered
  <2>2. Threaded' = {}
    BY <1>3, <1>4, <1>5, <1>6, KindsDiffer DEF Threaded
  <2>3. QED
    BY <2>1, <2>2 DEF FreeBlocks
<1>8. TypeOK'
  BY <1>1, <1>2, <1>3, <1>5, SMT DEF TypeOK, RequestByGrowing, SetTotalFree, NoneFree
<1>9. NoBlockLostOrShared'
  BY <1>2, <1>3, <1>4, <1>7 DEF NoBlockLostOrShared
<1>10. CountersAreExact'
  BY <1>1, <1>4, <1>7 DEF CountersAreExact, RequestByGrowing, SetTotalFree, NoneFree
<1>11. BlocksKeepTheirNames'
  <2>1. \A c \in inUse' : md'[GetNodeBlockAddress(c)'] = CIBNode(c)
    BY <1>2, <1>3, <1>5, <1>6 DEF BlocksKeepTheirNames, TypeOK
  <2>2. \A i \in 0 .. list_blocks - 1 : GetListBlockAddress(i) \in 0 .. md_blocks - 1
    BY SMT DEF GetListBlockAddress
  <2>3. QED
    BY <1>1, <1>5, <2>1, <2>2 DEF BlocksKeepTheirNames, GetListBlockAddress
<1>12. BufferIsDistinct'
  BY <1>1, SMT DEF BufferIsDistinct
<1>13. ListIsThreaded'
  <2>1. ListLength' = ListLength /\ header' = header
    BY <1>1 DEF ListLength, RequestByGrowing, SetTotalFree, NoneFree
  <2>2. PICK chain \in [1 .. ListLength -> NodeBlocks] : IsChain(chain)
    BY DEF ListIsThreaded
  <2>3. ListLength = 0 /\ 1 .. ListLength = {}
    BY <1>1, SMT DEF ListLength
  <2>4. chain \in [1 .. ListLength' -> NodeBlocks']
    BY <2>1, <2>2, <2>3
  <2>5. IsChain(chain)'
    BY <1>7, <2>1, <2>3, SMT DEF IsChain
  <2>6. QED
    BY <2>1, <2>4, <2>5 DEF ListIsThreaded
<1>14. Pool!Enlarge(new)
  <2>1. new \notin inUse
    BY <1>3 DEF TypeOK
  <2>2. QED
    BY <1>2, <1>4, <1>7, <2>1 DEF Pool!Enlarge
<1>15. QED
  BY <1>8, <1>9, <1>10, <1>11, <1>12, <1>13, <1>14 DEF IInv

-------------------------------------------------------------------------------
LEMMA InsertInArrayKeepsIInv ==
    ASSUME IInv, NEW b \in inUse, InsertInArray(b)
    PROVE  IInv' /\ Pool!Release(b)
<1> DEFINE E == FREE_LIST_MAX_ENTRIES
           last == (arr_count + arr_start) % E
<1> USE Ranges DEF IInv
<1>1. /\ arr_start' = arr_start /\ arr_start \in Slots /\ arr_start \in 0 .. E - 1
      /\ arr_count \in 0 .. E - 1 /\ arr_count' = arr_count + 1
      /\ array' = [array EXCEPT ![last] = b]
      /\ inUse' = inUse \ {b}
      /\ md' = md /\ header' = header
      /\ list_blocks' = list_blocks /\ md_blocks' = md_blocks
  BY SMT DEF InsertInArray, SetTotalFree, EmptySlot, Slots
<1>2. b \in NodeBlocks /\ b \notin FreeBlocks /\ b \notin Buffered /\ b \notin Threaded
  BY DEF NoBlockLostOrShared, TypeOK, FreeBlocks
<1>3. last = Slot(arr_count) /\ last \in Slots
  BY <1>1, RingIndex, SMT DEF Slot
<1>4. \A i, j \in 0 .. arr_count : i # j => Slot(i) # Slot(j)
  <2>1. ASSUME NEW i \in 0 .. arr_count, NEW j \in 0 .. arr_count, i # j
        PROVE  Slot(i) # Slot(j)
    <3>1. i \in 0 .. E /\ j \in 0 .. E
      BY <1>1, SMT
    <3>2. Slot(i) = (IF arr_start + i < E THEN arr_start + i ELSE arr_start + i - E)
      BY <1>1, <3>1, RingIndex DEF Slot
    <3>3. Slot(j) = (IF arr_start + j < E THEN arr_start + j ELSE arr_start + j - E)
      BY <1>1, <3>1, RingIndex DEF Slot
    <3>4. QED
      BY <1>1, <2>1, <3>2, <3>3, SMT
  <2>2. QED
    BY <2>1
<1>5. /\ \A i : Slot(i)' = Slot(i)
      /\ \A i \in 0 .. arr_count - 1 : array'[Slot(i)] = array[Slot(i)]
      /\ array'[Slot(arr_count)] = b
      /\ array' \in [Slots -> MDBlockIds]
  <2>1. \A i \in 0 .. arr_count - 1 : i \in 0 .. arr_count /\ i # arr_count
                                       /\ arr_count \in 0 .. arr_count
    BY <1>1, SMT
  <2>2. \A i \in 0 .. arr_count - 1 : Slot(i) \in Slots /\ Slot(i) # last
    <3>1. \A i \in 0 .. arr_count - 1 : i \in 0 .. E
      BY <1>1, SMT
    <3>2. QED
      BY <1>1, <1>3, <1>4, <2>1, <3>1, RingIndex DEF Slot
  <2>3. array \in [Slots -> MDBlockIds] /\ b \in MDBlockIds
    BY <1>2 DEF TypeOK
  <2>4. QED
    BY <1>1, <1>3, <2>2, <2>3 DEF Slot
<1>6. Buffered' = Buffered \cup {b}
  <2>1. 0 .. arr_count' - 1 = (0 .. arr_count - 1) \cup {arr_count}
    BY <1>1, SMT
  <2>2. QED
    BY <1>5, <2>1 DEF Buffered
<1>7. /\ NodeBlocks' = NodeBlocks
      /\ Threaded' = Threaded
      /\ \A c : GetNodeBlockAddress(c)' = GetNodeBlockAddress(c)
  BY <1>1 DEF NodeBlocks, Threaded, GetNodeBlockAddress
<1>8. FreeBlocks' = FreeBlocks \cup {b}
  BY <1>6, <1>7 DEF FreeBlocks
<1>9. TypeOK'
  <2>1. total_free' = total_free + 1 /\ free_node_blocks' = total_free + 1
    BY DEF InsertInArray, SetTotalFree
  <2>2. QED
    BY <1>1, <1>5, <1>7, <2>1, SMTT(30) DEF TypeOK
<1>10. NoBlockLostOrShared'
  BY <1>1, <1>2, <1>6, <1>7, <1>8 DEF NoBlockLostOrShared
<1>11. CountersAreExact'
  BY <1>2, <1>8, CountAfterReturning DEF CountersAreExact, InsertInArray, SetTotalFree, EmptySlot
<1>12. BlocksKeepTheirNames'
  BY <1>1, <1>7 DEF BlocksKeepTheirNames, GetListBlockAddress
<1>13. BufferIsDistinct'
  <2>1. ASSUME NEW i \in 0 .. arr_count' - 1, NEW j \in 0 .. arr_count' - 1, i # j
        PROVE  array'[Slot(i)'] # array'[Slot(j)']
    <3>1. /\ (i \in 0 .. arr_count - 1 \/ i = arr_count)
          /\ (j \in 0 .. arr_count - 1 \/ j = arr_count)
      BY <1>1, <2>1, SMT
    <3>2. \A k \in 0 .. arr_count - 1 : array[Slot(k)] # b
      BY <1>2 DEF Buffered
    <3>3. QED
      BY <1>5, <2>1, <3>1, <3>2 DEF BufferIsDistinct
  <2>2. QED
    BY <2>1 DEF BufferIsDistinct
<1>14. ListIsThreaded'
  <2>1. ListLength' = ListLength
    BY <1>1, SMT DEF ListLength, InsertInArray, SetTotalFree, EmptySlot
  <2>2. QED
    BY <1>1, <1>7, <2>1, ListUntouched
<1>15. Pool!Release(b)
  BY <1>1, <1>8 DEF Pool!Release
<1>16. QED
  BY <1>9, <1>10, <1>11, <1>12, <1>13, <1>14, <1>15 DEF IInv

LEMMA InsertInListKeepsIInv ==
    ASSUME IInv, NEW b \in inUse, InsertInList(b)
    PROVE  IInv' /\ Pool!Release(b)
<1> DEFINE E == FREE_LIST_MAX_ENTRIES
           L == ListLength
           link == IF L > 0 THEN FreeNode(1, header) ELSE FreeNode(0, 0)
<1> USE Ranges DEF IInv
<1>1. /\ arr_count = E /\ arr_count' = arr_count /\ arr_start' = arr_start
      /\ array' = array
      /\ L \in Nat /\ ListLength' = L + 1
      /\ header' = b
      /\ inUse' = inUse \ {b}
      /\ list_blocks' = list_blocks /\ md_blocks' = md_blocks
  BY SMT DEF InsertInList, SetTotalFree, LinkToHeader, ListLength, ListIsThreaded
<1>2. b \in NodeBlocks /\ b \notin FreeBlocks /\ b \notin Buffered /\ b \notin Threaded
  BY DEF NoBlockLostOrShared, TypeOK, FreeBlocks
<1>3. link \in Contents /\ link.kind = "free"
  BY <1>2, NodeContents, KindsDiffer DEF TypeOK
<1>4. /\ md' \in [0 .. md_blocks - 1 -> Contents]
      /\ md'[GetNodeBlockAddress(b)] = link
      /\ \A c \in NodeBlocks : c # b =>
            md'[GetNodeBlockAddress(c)] = md[GetNodeBlockAddress(c)]
      /\ \A i \in 0 .. list_blocks - 1 :
            md'[GetListBlockAddress(i)] = md[GetListBlockAddress(i)]
  <2>1. total_free > E <=> L > 0
    BY <1>1, SMT DEF ListLength
  <2>2. md' = [md EXCEPT ![GetNodeBlockAddress(b)] = link]
    BY <2>1 DEF InsertInList, SetTotalFree, LinkToHeader
  <2>3. QED
    BY <1>2, <1>3, <2>2, NodeWriteIsLocal
<1>5. /\ NodeBlocks' = NodeBlocks
      /\ Buffered' = Buffered
      /\ \A c : GetNodeBlockAddress(c)' = GetNodeBlockAddress(c)
      /\ \A i : Slot(i)' = Slot(i)
  BY <1>1 DEF NodeBlocks, Buffered, GetNodeBlockAddress, Slot
<1>6. Threaded' = Threaded \cup {b}
  BY <1>2, <1>3, <1>4, <1>5 DEF Threaded
<1>7. FreeBlocks' = FreeBlocks \cup {b}
  BY <1>5, <1>6 DEF FreeBlocks
<1>8. TypeOK'
  BY <1>1, <1>2, <1>4, <1>5, SMT DEF TypeOK, InsertInList, SetTotalFree, LinkToHeader
<1>9. NoBlockLostOrShared'
  BY <1>1, <1>2, <1>5, <1>6, <1>7 DEF NoBlockLostOrShared
<1>10. CountersAreExact'
  BY <1>2, <1>7, CountAfterReturning DEF CountersAreExact, InsertInList, SetTotalFree, LinkToHeader
<1>11. BlocksKeepTheirNames'
  <2>1. \A c \in inUse' : md'[GetNodeBlockAddress(c)'] = CIBNode(c)
    BY <1>1, <1>4, <1>5 DEF BlocksKeepTheirNames, TypeOK
  <2>2. QED
    BY <1>1, <1>4, <2>1 DEF BlocksKeepTheirNames, GetListBlockAddress
<1>12. BufferIsDistinct'
  BY <1>1, <1>5 DEF BufferIsDistinct
<1>13. ListIsThreaded'
  <2>1. PICK chain \in [1 .. L -> NodeBlocks] : IsChain(chain)
    BY DEF ListIsThreaded
  <2>2. PICK longer : longer = [i \in 1 .. L + 1 |-> IF i = 1 THEN b ELSE chain[i - 1]]
    OBVIOUS
  <2>3. \A i \in 1 .. L + 1 : i # 1 => i - 1 \in 1 .. L
    BY <1>1, SMT
  <2>4. \A i \in 1 .. L : i + 1 \in 1 .. L + 1 /\ i + 1 # 1 /\ (i + 1) - 1 = i
    BY <1>1, SMT
  <2>5. 1 \in 1 .. L + 1
    BY <1>1, SMT
  <2>6. /\ longer[1] = b
        /\ \A i \in 1 .. L + 1 : i # 1 => longer[i] = chain[i - 1]
        /\ \A i \in 1 .. L : longer[i + 1] = chain[i]
        /\ \A i \in 1 .. L : chain[i] \in Threaded /\ chain[i] # b
    BY <1>2, <2>1, <2>2, <2>3, <2>4, <2>5 DEF IsChain
  <2>7. longer \in [1 .. ListLength' -> NodeBlocks']
    BY <1>1, <1>2, <1>5, <2>1, <2>2, <2>3
  <2>8. \A i, j \in 1 .. ListLength' : i # j => longer[i] # longer[j]
    <3>1. \A i, j \in 1 .. L + 1 : i # j => i - 1 # j - 1
      BY <1>1, SMT
    <3>2. \A i, j \in 1 .. L : i # j => chain[i] # chain[j]
      BY <2>1 DEF IsChain
    <3>3. ASSUME NEW i \in 1 .. L + 1, NEW j \in 1 .. L + 1, i # j
          PROVE  longer[i] # longer[j]
      <4>1. CASE i = 1
        BY <2>3, <2>6, <3>3, <4>1
      <4>2. CASE j = 1
        BY <2>3, <2>6, <3>3, <4>2
      <4>3. CASE i # 1 /\ j # 1
        BY <2>3, <2>6, <3>1, <3>2, <3>3, <4>3
      <4>4. QED
        BY <4>1, <4>2, <4>3
    <3>4. QED
      BY <1>1, <3>3
  <2>9. Threaded' = {longer[i] : i \in 1 .. ListLength'}
    <3>1. \A i \in 1 .. L + 1 : longer[i] \in Threaded'
      BY <1>6, <2>3, <2>6
    <3>2. \A c \in Threaded : \E i \in 1 .. L + 1 : c = longer[i]
      BY <2>1, <2>4, <2>6, SMTT(30) DEF IsChain
    <3>3. QED
      BY <1>1, <1>6, <2>5, <2>6, <3>1, <3>2
  <2>10. ASSUME NEW i \in 1 .. ListLength'
         PROVE  md'[GetNodeBlockAddress(longer[i])'] =
                  IF i < ListLength' THEN FreeNode(1, longer[i + 1]) ELSE FreeNode(0, 0)
    <3>1. CASE i = 1
      <4>1. md'[GetNodeBlockAddress(longer[i])'] = link
        BY <1>4, <1>5, <2>6, <3>1
      <4>2. (1 < ListLength' <=> L > 0) /\ (L > 0 => 1 \in 1 .. L)
        BY <1>1, SMT
      <4>3. L > 0 => header = longer[1 + 1]
        BY <2>1, <2>6, <4>2 DEF IsChain
      <4>4. QED
        BY <3>1, <4>1, <4>2, <4>3
    <3>2. CASE i # 1
      <4>1. /\ i - 1 \in 1 .. L /\ (i - 1 < L <=> i < ListLength')
            /\ i \in 1 .. L + 1
            /\ (i < ListLength' => i \in 1 .. L)
            /\ (i - 1) + 1 = i
        BY <1>1, <2>3, <3>2, SMT
      <4>2. longer[i] = chain[i - 1] /\ longer[i] \in NodeBlocks /\ longer[i] # b
        BY <2>1, <2>6, <3>2, <4>1
      <4>3. md'[GetNodeBlockAddress(longer[i])'] = md[GetNodeBlockAddress(chain[i - 1])]
        BY <1>4, <1>5, <4>2
      <4>4. md[GetNodeBlockAddress(chain[i - 1])] =
               IF i - 1 < L THEN FreeNode(1, chain[(i - 1) + 1]) ELSE FreeNode(0, 0)
        BY <2>1, <4>1 DEF IsChain
      <4>5. i < ListLength' => longer[i + 1] = chain[(i - 1) + 1]
        BY <2>6, <4>1
      <4>6. QED
        BY <4>1, <4>3, <4>4, <4>5
    <3>3. QED
      BY <3>1, <3>2
  <2>11. IsChain(longer)'
    BY <1>1, <2>6, <2>8, <2>9, <2>10 DEF IsChain, FreeNode
  <2>12. ListLength' \in Nat
    BY <1>1, SMT
  <2>13. QED
    BY <2>7, <2>11, <2>12 DEF ListIsThreaded
<1>14. Pool!Release(b)
  BY <1>1, <1>7 DEF Pool!Release
<1>15. QED
  BY <1>8, <1>9, <1>10, <1>11, <1>12, <1>13, <1>14 DEF IInv

-------------------------------------------------------------------------------
(* Every node block moves up by one block, and its name with it. *)
LEMMA IncreaseKeepsIInv ==
    ASSUME IInv, FreeListIncreaseListSize(1)
    PROVE  IInv' /\ UNCHANGED <<FreeBlocks, inUse>>
<1> USE Ranges DEF IInv
<1>1. /\ md_blocks' = md_blocks + 1 /\ list_blocks' = list_blocks + 1
      /\ md_blocks + 1 <= MaxMDBlocks
      /\ array' = array /\ arr_start' = arr_start /\ arr_count' = arr_count
      /\ header' = header /\ inUse' = inUse
      /\ total_free' = total_free /\ free_node_blocks' = free_node_blocks
  BY DEF FreeListIncreaseListSize
<1>2. md' = [a \in 0 .. md_blocks |->
               IF a >= list_blocks + 2 THEN md[a - 1]
               ELSE IF a >= list_blocks + 1 THEN ListBlock(a - 1) ELSE md[a]]
  <2>1. /\ md_blocks + 1 - 1 = md_blocks
        /\ GetListBlockAddress(list_blocks + 1) = list_blocks + 2
        /\ GetListBlockAddress(list_blocks) = list_blocks + 1
    BY SMT DEF GetListBlockAddress
  <2>2. QED
    BY <2>1 DEF FreeListIncreaseListSize, MoveNodeBlocks
<1>3. NodeBlocks' = NodeBlocks
  BY <1>1, SMT DEF NodeBlocks
<1>4. \A c \in NodeBlocks : md'[GetNodeBlockAddress(c)'] = md[GetNodeBlockAddress(c)]
  <2>1. ASSUME NEW c \in NodeBlocks
        PROVE  md'[GetNodeBlockAddress(c)'] = md[GetNodeBlockAddress(c)]
    <3> DEFINE a == 2 + c + list_blocks
    <3>1. c \in Nat /\ 1 + c + list_blocks \in 0 .. md_blocks - 1
      BY DEF GetNodeBlockAddress
    <3>2. /\ a \in 0 .. md_blocks /\ a >= list_blocks + 2
          /\ a - 1 = 1 + c + list_blocks
          /\ 1 + c + (list_blocks + 1) = a
      BY <3>1, SMT
    <3>3. md'[a] = md[a - 1]
      BY <1>2, <3>2
    <3>4. QED
      BY <1>1, <3>2, <3>3 DEF GetNodeBlockAddress
  <2>2. QED
    BY <2>1
<1>5. Threaded' = Threaded /\ Buffered' = Buffered /\ FreeBlocks' = FreeBlocks
      /\ \A i : Slot(i)' = Slot(i)
  BY <1>1, <1>3, <1>4 DEF Threaded, Buffered, FreeBlocks, Slot
<1>6. TypeOK'
  <2>1. ASSUME NEW a \in 0 .. md_blocks PROVE md'[a] \in Contents
    <3>1. CASE a >= list_blocks + 2
      <4>1. a - 1 \in 0 .. md_blocks - 1 /\ md'[a] = md[a - 1]
        BY <1>2, <3>1, SMT
      <4>2. QED
        BY <4>1 DEF TypeOK
    <3>2. CASE a = list_blocks + 1
      <4>1. a - 1 \in MDBlockIds /\ md'[a] = ListBlock(a - 1)
        BY <1>1, <1>2, <3>2, SMTT(30) DEF MDBlockIds
      <4>2. QED
        BY <4>1 DEF Contents
    <3>3. CASE a < list_blocks + 1
      <4>1. a \in 0 .. md_blocks - 1 /\ md'[a] = md[a]
        BY <1>2, <3>3, SMT
      <4>2. QED
        BY <4>1 DEF TypeOK
    <3>4. QED
      BY <3>1, <3>2, <3>3, SMT
  <2>2. md' \in [0 .. md_blocks' - 1 -> Contents]
    <3>1. 0 .. md_blocks' - 1 = 0 .. md_blocks
      BY <1>1, SMT
    <3>2. QED
      BY <1>2, <2>1, <3>1
  <2>3. QED
    BY <1>1, <1>3, <2>2, SMT DEF TypeOK
<1>7. NoBlockLostOrShared'
  BY <1>1, <1>3, <1>5 DEF NoBlockLostOrShared
<1>8. CountersAreExact'
  BY <1>1, <1>5 DEF CountersAreExact
<1>9. BlocksKeepTheirNames'
  <2>1. \A c \in inUse' : md'[GetNodeBlockAddress(c)'] = CIBNode(c)
    BY <1>1, <1>4 DEF BlocksKeepTheirNames, TypeOK
  <2>2. \A i \in 0 .. list_blocks' - 1 : md'[GetListBlockAddress(i)'] = ListBlock(i)
    <3>1. ASSUME NEW i \in 0 .. list_blocks PROVE md'[1 + i] = ListBlock(i)
      <4>1. CASE i = list_blocks
        <5>1. 1 + i \in 0 .. md_blocks /\ ~ (1 + i >= list_blocks + 2)
              /\ 1 + i >= list_blocks + 1 /\ (1 + i) - 1 = i
          BY <4>1, SMT
        <5>2. QED
          BY <1>2, <5>1
      <4>2. CASE i < list_blocks
        <5>1. 1 + i \in 0 .. md_blocks /\ ~ (1 + i >= list_blocks + 2)
              /\ ~ (1 + i >= list_blocks + 1) /\ i \in 0 .. list_blocks - 1
          BY <4>2, SMT
        <5>2. QED
          BY <1>2, <5>1 DEF BlocksKeepTheirNames, GetListBlockAddress
      <4>3. QED
        BY <4>1, <4>2, SMT
    <3>2. list_blocks' - 1 = list_blocks
      BY <1>1, SMT
    <3>3. QED
      BY <3>1, <3>2 DEF GetListBlockAddress
  <2>3. QED
    BY <2>1, <2>2 DEF BlocksKeepTheirNames
<1>10. BufferIsDistinct'
  BY <1>1, <1>5 DEF BufferIsDistinct
<1>11. ListIsThreaded'
  <2>1. ListLength' = ListLength
    BY <1>1 DEF ListLength
  <2>2. \A c \in Threaded : c \in NodeBlocks
    BY DEF Threaded
  <2>3. QED
    BY <1>1, <1>3, <1>4, <1>5, <2>1, <2>2, ListUntouched
<1>12. QED
  BY <1>1, <1>5, <1>6, <1>7, <1>8, <1>9, <1>10, <1>11 DEF IInv

-------------------------------------------------------------------------------
(* Each step of the free list keeps the invariant and is a step, or a stutter,
   of the abstract pool. *)
LEMMA StepKeepsIInv ==
    ASSUME IInv, [Next]_vars
    PROVE  IInv' /\ [Pool!PoolNext]_(Pool!poolVars)
<1>1. CASE RequestFromArray
  <2>1. array[arr_start] \in MDBlockIds
    BY <1>1 DEF IInv, TypeOK
  <2>2. QED
    BY <1>1, <2>1, RequestFromArrayKeepsIInv DEF Pool!PoolNext
<1>2. CASE RequestFromList
  <2>1. header \in MDBlockIds
    BY <1>2 DEF IInv, TypeOK
  <2>2. QED
    BY <1>2, <2>1, RequestFromListKeepsIInv DEF Pool!PoolNext
<1>3. CASE RequestByGrowing
  <2>1. md_blocks - 1 - list_blocks \in MDBlockIds
    BY <1>3, Ranges, SMT DEF IInv, MDBlockIds
  <2>2. QED
    BY <1>3, <2>1, RequestByGrowingKeepsIInv DEF Pool!PoolNext
<1>4. ASSUME NEW b \in inUse, InsertInArray(b) \/ InsertInList(b)
      PROVE  IInv' /\ [Pool!PoolNext]_(Pool!poolVars)
  <2>1. b \in MDBlockIds
    BY <1>4, Ranges DEF IInv, TypeOK
  <2>2. QED
    BY <1>4, <2>1, InsertInArrayKeepsIInv, InsertInListKeepsIInv DEF Pool!PoolNext
<1>5. CASE FreeListIncreaseListSize(1)
  BY <1>5, IncreaseKeepsIInv DEF Pool!poolVars
<1>6. CASE UNCHANGED vars
  <2>1. /\ NodeBlocks' = NodeBlocks /\ Threaded' = Threaded
        /\ Buffered' = Buffered /\ inUse' = inUse /\ ListLength' = ListLength
        /\ \A i : Slot(i)' = Slot(i)
        /\ \A c : GetNodeBlockAddress(c)' = GetNodeBlockAddress(c)
    BY <1>6 DEF vars, NodeBlocks, Threaded, Buffered, GetNodeBlockAddress, Slot, ListLength
  <2>2. TypeOK' /\ NoBlockLostOrShared' /\ CountersAreExact'
    BY <1>6, <2>1 DEF vars, IInv, TypeOK, NoBlockLostOrShared, CountersAreExact, FreeBlocks
  <2>3. BlocksKeepTheirNames' /\ BufferIsDistinct'
    BY <1>6, <2>1 DEF vars, IInv, BlocksKeepTheirNames, BufferIsDistinct, GetListBlockAddress
  <2>4. ListIsThreaded'
    BY <1>6, <2>1, ListUntouched DEF vars, IInv
  <2>5. UNCHANGED Pool!poolVars
    BY <2>1 DEF Pool!poolVars, FreeBlocks
  <2>6. QED
    BY <2>2, <2>3, <2>4, <2>5 DEF IInv
<1>7. QED
  BY <1>1, <1>2, <1>3, <1>4, <1>5, <1>6 DEF Next

(* The invariant holds in every reachable state: the fields of the free list,
   the contents of the blocks and the ownership of the blocks agree. *)
THEOREM Invariance == Spec => []IInv
<1>1. Init => IInv
  BY InitEstablishes
<1>2. IInv /\ [Next]_vars => IInv'
  BY StepKeepsIInv
<1>3. QED
  BY <1>1, <1>2, PTL DEF Spec

(* The type invariant, for every size of the buffer and of the partition. *)
THEOREM TypeCorrectness == Spec => []TypeOK
<1>1. IInv => TypeOK
  BY DEF IInv
<1>2. QED
  BY <1>1, Invariance, PTL

(* No node block is ever lost, handed out twice or free in two places. *)
THEOREM NothingLostOrShared == Spec => []NoBlockLostOrShared
<1>1. IInv => NoBlockLostOrShared
  BY DEF IInv
<1>2. QED
  BY <1>1, Invariance, PTL

(* Both free counters are exact, so the partition is enlarged only when no
   block is free and never reads a list that is empty. *)
THEOREM ExactCounters == Spec => []CountersAreExact
<1>1. IInv => CountersAreExact
  BY DEF IInv
<1>2. QED
  BY <1>1, Invariance, PTL

(* Moving the node blocks for a new list block displaces none of them. *)
THEOREM NamesSurviveMoves == Spec => []BlocksKeepTheirNames
<1>1. IInv => BlocksKeepTheirNames
  BY DEF IInv
<1>2. QED
  BY <1>1, Invariance, PTL

(* freelist.c implements the abstract pool of blocks. *)
THEOREM Refinement == Spec => ImplementsPool
<1>1. Init => Pool!PoolInit
  <2>1. Init => FreeBlocks \subseteq MDBlockIds
    BY InitEstablishes, Ranges DEF IInv, NoBlockLostOrShared
  <2>2. Init => inUse = {}
    BY DEF Init, MDInit
  <2>3. QED
    BY <2>1, <2>2 DEF Pool!PoolInit
<1>2. IInv /\ [Next]_vars => [Pool!PoolNext]_(Pool!poolVars)
  BY StepKeepsIInv
<1>3. QED
  BY <1>1, <1>2, Invariance, PTL DEF Spec, ImplementsPool, Pool!PoolSpec
===============================================================================
