---------------------------- MODULE CIBListProofs ----------------------------
(***************************************************************************)
(* Theorems about CIBList, for archives of at most as many list blocks as  *)
(* the mask of line 493 has bits (32, which are 992 entries) and fewer     *)
(* than a set has members: bitmaps, counters and the marks of full blocks  *)
(* are right, no id is given out twice, and the list grows only when it is *)
(* full.  In larger archives this is false (run list_shift).               *)
(*                                                                         *)
(* Such an archive has one set, of level 0, for the last member of it does *)
(* not exist and so is never marked as full.  The proof shows that this is *)
(* so: that the recursion of CIBListGetFreeSpotRec is one call, what that  *)
(* call takes, and what CIBListFreeEntry gives back.                       *)
(***************************************************************************)
EXTENDS CIBList, FiniteSetTheorems, InductionLemmas

(* A member of a set of level 0 is a block, one of level 1 a whole set. *)
LEMMA MemberSizes == MemberSize[0] = 1 /\ MemberSize[1] = SetSize
<1> DEFINE step == [x \in (Nat \ {0}) \X Nat |-> SetSize * x[2]]
<1>1. step \in [(Nat \ {0}) \X Nat -> Nat] /\ SetSize \in Nat
    BY CIBListAssumption
<1>2. \A n \in Nat \ {0}, k \in Nat : step[<<n, k>>] = SetSize * k
    OBVIOUS
<1> HIDE DEF step
<1>3. PICK f \in [Nat -> Nat] : f[0] = 1 /\ \A n \in Nat \ {0} : f[n] = step[<<n, f[n - 1]>>]
  <2> DEFINE S == Nat
             one == 1
  <2>1. one \in S /\ step \in [(Nat \ {0}) \X S -> S]
      BY <1>1
  <2> HIDE DEF S, one
  <2>2. \E f \in [Nat -> S] : GoesOnForever(f, one, step)
      BY <2>1, RecursionOnNat
  <2>3. QED BY <2>2 DEF S, one, GoesOnForever
<1>4. ASSUME NEW n \in Nat PROVE f[n] = IF n = 0 THEN 1 ELSE SetSize * f[n - 1]
  <2>1. CASE n = 0
      BY <1>3, <2>1
  <2>2. CASE n # 0
    <3>1. n - 1 \in Nat /\ f[n - 1] \in Nat
        BY <2>2
    <3>2. QED BY <1>2, <1>3, <2>2, <3>1
  <2>3. QED BY <2>1, <2>2
<1>5. f = [n \in Nat |-> IF n = 0 THEN 1 ELSE SetSize * f[n - 1]]
    BY <1>4
<1>6. MemberSize = [n \in Nat |-> IF n = 0 THEN 1 ELSE SetSize * MemberSize[n - 1]]
    BY <1>5 DEF MemberSize
<1>7. MemberSize[0] = 1
    BY <1>6
<1>8. MemberSize[1] = SetSize * MemberSize[1 - 1]
    BY <1>6
<1>9. QED BY <1>1, <1>7, <1>8

(* An id is the place of one entry of one block, and lies in the list if the block
   does. *)
LEMMA Places ==
    ASSUME NEW b \in Nat, NEW i \in 0 .. LIST_ENTRIES_PER_BLOCK - 1
    PROVE  /\ b * LIST_ENTRIES_PER_BLOCK + i \in Nat
           /\ \A c \in Nat, j \in 0 .. LIST_ENTRIES_PER_BLOCK - 1 :
                b * LIST_ENTRIES_PER_BLOCK + i = c * LIST_ENTRIES_PER_BLOCK + j => b = c /\ i = j
           /\ \A n \in Nat : b < n =>
                b * LIST_ENTRIES_PER_BLOCK + i <= n * LIST_ENTRIES_PER_BLOCK - 1
           /\ \A n \in Nat : n <= b =>
                ~(b * LIST_ENTRIES_PER_BLOCK + i <= n * LIST_ENTRIES_PER_BLOCK - 1)
<1> DEFINE L == LIST_ENTRIES_PER_BLOCK
<1>1. L \in Nat \ {0} /\ i \in Nat /\ i < L
    BY CIBListAssumption
<1> HIDE DEF L
<1>2. ASSUME NEW x \in Nat, NEW y \in Nat, x < y PROVE x * L + L <= y * L
    BY <1>1, <1>2
<1>3. ASSUME NEW x \in Nat PROVE x * L \in Nat
    BY <1>1
<1>4. QED BY <1>1, <1>2, <1>3 DEF L

(* Different entries of a block have different ids. *)
LEMMA SamePlace ==
    ASSUME NEW b \in Nat, NEW i \in 0 .. LIST_ENTRIES_PER_BLOCK - 1,
           NEW j \in 0 .. LIST_ENTRIES_PER_BLOCK - 1
    PROVE  b * LIST_ENTRIES_PER_BLOCK + j = b * LIST_ENTRIES_PER_BLOCK + i <=> j = i
BY Places

(* The block and the entry that CIBListFreeEntry finds for an id. *)
LEMMA PlaceOf ==
    ASSUME NEW id \in Nat
    PROVE  /\ id \div LIST_ENTRIES_PER_BLOCK \in Nat
           /\ id % LIST_ENTRIES_PER_BLOCK \in 0 .. LIST_ENTRIES_PER_BLOCK - 1
           /\ id = (id \div LIST_ENTRIES_PER_BLOCK) * LIST_ENTRIES_PER_BLOCK
                     + (id % LIST_ENTRIES_PER_BLOCK)
BY CIBListAssumption

-------------------------------------------------------------------------------
(* The archives these theorems are about. *)
Small == MaxListBlocks <= IntBits /\ MaxListBlocks < SetSize

(* struct cib_list_block, as TypeOK has it. *)
ListBlockType ==
    [bitmap : SUBSET EntryBits, count : 0 .. LIST_ENTRIES_PER_BLOCK,
     list_block_bitmap : SUBSET SetBits]

(* The entries of block b that the ids are the places of. *)
Used(b, ids) ==
    {i \in 0 .. LIST_ENTRIES_PER_BLOCK - 1 : b * LIST_ENTRIES_PER_BLOCK + i \in ids}

(* The bitmap and the counter of a block describe them. *)
Exact(block, b, ids) ==
    /\ block.bitmap = Used(b, ids) \cup {LIST_ENTRIES_PER_BLOCK}
    /\ block.count = Cardinality(Used(b, ids))

(* s has n blocks, which describe the ids. *)
AreExact(s, n, ids) ==
    /\ s \in [0 .. n - 1 -> ListBlockType]
    /\ \A b \in 0 .. n - 1 : Exact(s[b], b, ids)

(* The bits of the set of level 0, in the first block, are those of the full blocks. *)
MarksTheFull(s, n) == s[0].list_block_bitmap = {b \in 0 .. n - 1 : IsFull(s[b])}

(* The list s of n blocks is right for the ids. *)
Describes(s, n, ids) ==
    /\ n \in Nat \ {0} /\ n <= IntBits /\ n < SetSize
    /\ ids \subseteq 0 .. n * LIST_ENTRIES_PER_BLOCK - 1
    /\ AreExact(s, n, ids)
    /\ MarksTheFull(s, n)

(* The inductive invariant. *)
IInv ==
    /\ nest_level = 0
    /\ \E n \in 1 .. MaxListBlocks : Describes(list, n, inUse)

(* The constants are numbers. *)
LEMMA Consts ==
    /\ SetSize \in Nat /\ SetSize > 1 /\ IntBits \in Nat
    /\ LIST_ENTRIES_PER_BLOCK \in Nat /\ LIST_ENTRIES_PER_BLOCK > 1
    /\ MaxListBlocks \in Nat
BY CIBListAssumption

(* The entries of a block in use can be counted, and fit in its bitmap. *)
LEMMA UsedIsFinite ==
    ASSUME NEW b, NEW ids
    PROVE  /\ IsFiniteSet(Used(b, ids)) /\ Cardinality(Used(b, ids)) \in 0 .. LIST_ENTRIES_PER_BLOCK
           /\ Used(b, ids) \cup {LIST_ENTRIES_PER_BLOCK} \in SUBSET EntryBits
<1> DEFINE L == LIST_ENTRIES_PER_BLOCK
           I == 0 .. L - 1
<1>1. L \in Nat /\ L > 1
    BY Consts
<1>2. IsFiniteSet(I) /\ Cardinality(I) = L
    BY <1>1, FS_Interval
<1>3. Used(b, ids) \subseteq I
    BY DEF Used
<1>4. Used(b, ids) \cup {L} \in SUBSET EntryBits
    BY <1>1, <1>3 DEF EntryBits
<1> HIDE DEF I
<1>5. IsFiniteSet(Used(b, ids)) /\ Cardinality(Used(b, ids)) <= L /\ Cardinality(Used(b, ids)) \in Nat
    BY <1>2, <1>3, FS_Subset, FS_CardinalityType
<1>6. QED BY <1>1, <1>4, <1>5

(* The number of blocks of the list. *)
LEMMA SizeOfList ==
    ASSUME NEW s, NEW n \in Nat, DOMAIN s = 0 .. n - 1
    PROVE  ListBlocks(s) = n
BY FS_Interval DEF ListBlocks

(* A block whose entries are not all in use is not full, and the one found is free. *)
LEMMA NotFull ==
    ASSUME NEW block, NEW b, NEW ids, Exact(block, b, ids), ~IsFull(block)
    PROVE  /\ FreeIndex(block) \in 0 .. LIST_ENTRIES_PER_BLOCK - 1
           /\ FreeIndex(block) \notin Used(b, ids)
           /\ FreeIndex(block) \notin block.bitmap
<1> DEFINE L == LIST_ENTRIES_PER_BLOCK
           Z == (0 .. (L + 2) - 1) \ block.bitmap
<1>1. L \in Nat /\ L > 1 /\ (L + 2) - 1 = L + 1
    BY Consts
<1>2. PICK i \in 0 .. L - 1 : i \notin block.bitmap
    BY <1>1, UsedIsFinite DEF IsFull, Exact, EntryBits
<1>3. i \in Z /\ Z \subseteq Nat /\ i <= L - 1
    BY <1>1, <1>2
<1>4. FreeIndex(block) = Min(Z)
    BY <1>3 DEF FreeIndex, BitmapFindZeroBit
<1> HIDE DEF Z
<1>5. Min(Z) \in Z /\ \A k \in Z : Min(Z) <= k
    BY <1>3, LeastNumber DEF Min
<1>6. Min(Z) \in 0 .. L - 1 /\ Min(Z) \notin block.bitmap
    BY <1>1, <1>3, <1>5 DEF Z
<1>7. QED BY <1>4, <1>6 DEF Exact

(* The block found is the first that is not full, or the one after the last. *)
LEMMA MemberFound ==
    ASSUME NEW block, NEW n \in Nat, n < SetSize, block.list_block_bitmap \subseteq 0 .. n - 1
    PROVE  /\ FreeMember(block) \in 0 .. n
           /\ FreeMember(block) \notin block.list_block_bitmap
           /\ \A b \in 0 .. n - 1 : b < FreeMember(block) => b \in block.list_block_bitmap
<1> DEFINE Z == (0 .. SetSize - 1) \ block.list_block_bitmap
<1>1. n \in Z /\ Z \subseteq Nat
    BY Consts
<1>2. FreeMember(block) = Min(Z)
    BY <1>1 DEF FreeMember, BitmapFindZeroBit
<1> HIDE DEF Z
<1>3. Min(Z) \in Z /\ \A k \in Z : Min(Z) <= k
    BY <1>1, LeastNumber DEF Min
<1>4. Min(Z) \in 0 .. n /\ Min(Z) \notin block.list_block_bitmap
    BY <1>1, <1>3 DEF Z
<1>5. ASSUME NEW b \in 0 .. n - 1, b < Min(Z) PROVE b \in block.list_block_bitmap
  <2>1. b \notin Z
      BY <1>3, <1>4, <1>5
  <2>2. QED BY <2>1, Consts DEF Z
<1>6. QED BY <1>2, <1>4, <1>5

(* The bitmap and the counter stay right when an entry is taken, *)
LEMMA TakenIsExact ==
    ASSUME NEW b \in Nat, NEW ids, NEW block, Exact(block, b, ids),
           NEW i \in 0 .. LIST_ENTRIES_PER_BLOCK - 1, i \notin Used(b, ids),
           NEW new, new.bitmap = block.bitmap \cup {i}, new.count = block.count + 1
    PROVE  Exact(new, b, ids \cup {b * LIST_ENTRIES_PER_BLOCK + i})
<1> DEFINE id == b * LIST_ENTRIES_PER_BLOCK + i
<1>0. id = b * LIST_ENTRIES_PER_BLOCK + i
    OBVIOUS
<1> HIDE DEF id
<1>1. Used(b, ids \cup {id}) = Used(b, ids) \cup {i}
  <2>1. \A j \in 0 .. LIST_ENTRIES_PER_BLOCK - 1 :
           b * LIST_ENTRIES_PER_BLOCK + j = id <=> j = i
      BY <1>0, SamePlace
  <2>2. QED BY <2>1 DEF Used
<1>2. Cardinality(Used(b, ids) \cup {i}) = Cardinality(Used(b, ids)) + 1
    BY UsedIsFinite, FS_AddElement
<1>3. QED BY <1>1, <1>2 DEF Exact, id

(* and when it is given back. *)
LEMMA GivenBackIsExact ==
    ASSUME NEW b \in Nat, NEW ids, NEW block, Exact(block, b, ids),
           NEW i \in 0 .. LIST_ENTRIES_PER_BLOCK - 1, i \in Used(b, ids),
           NEW new, new.bitmap = block.bitmap \ {i}, new.count = block.count - 1
    PROVE  Exact(new, b, ids \ {b * LIST_ENTRIES_PER_BLOCK + i})
<1> DEFINE id == b * LIST_ENTRIES_PER_BLOCK + i
<1>0. id = b * LIST_ENTRIES_PER_BLOCK + i
    OBVIOUS
<1> HIDE DEF id
<1>1. Used(b, ids \ {id}) = Used(b, ids) \ {i}
  <2>1. \A j \in 0 .. LIST_ENTRIES_PER_BLOCK - 1 :
           b * LIST_ENTRIES_PER_BLOCK + j = id <=> j = i
      BY <1>0, SamePlace
  <2>2. QED BY <2>1 DEF Used
<1>2. Cardinality(Used(b, ids) \ {i}) = Cardinality(Used(b, ids)) - 1
    BY UsedIsFinite, FS_RemoveElement
<1>3. i # LIST_ENTRIES_PER_BLOCK
    BY Consts
<1>4. QED BY <1>1, <1>2, <1>3 DEF Exact, id

-------------------------------------------------------------------------------
(* The call for the whole list at level 0. *)
Top == [first |-> 0, level |-> 0]

(* At level 0 CIBListGetFreeSpotRec does not call itself. *)
LEMMA OneCall == ASSUME NEW s PROVE Calls(s, 0) = <<Top>>
<1> DEFINE Next1(f) ==
             [n \in Nat |->
               IF n = 0 THEN <<[first |-> 0, level |-> 0]>>
               ELSE LET above == f[n - 1] IN
                    IF Last(above).level = 0 THEN above
                    ELSE Append(above, SubCall(s, Last(above)))]
           c == CHOOSE f : f = Next1(f)
           g == [n \in Nat |-> <<Top>>]
<1>1. Last(<<Top>>).level = 0
    BY DEF Last, Top
<1>2. g = Next1(g)
  <2>1. ASSUME NEW n \in Nat
        PROVE  g[n] = IF n = 0 THEN <<[first |-> 0, level |-> 0]>>
                      ELSE LET above == g[n - 1] IN
                           IF Last(above).level = 0 THEN above
                           ELSE Append(above, SubCall(s, Last(above)))
    <3>1. CASE n = 0
        BY <3>1 DEF Top
    <3>2. CASE n # 0
      <4>1. n - 1 \in Nat
          BY <3>2
      <4>2. g[n - 1] = <<Top>> /\ g[n] = <<Top>>
          BY <4>1
      <4> HIDE DEF g
      <4>3. QED BY <1>1, <3>2, <4>2
    <3>3. QED BY <3>1, <3>2
  <2>2. QED BY <2>1
<1> HIDE DEF g
<1>3. c = Next1(c)
    BY <1>2
<1> HIDE DEF c
<1>4. c[0] = <<Top>>
    BY <1>3 DEF Top
<1>5. Calls(s, 0) = c[0]
    BY DEF Calls, c
<1>6. QED BY <1>4, <1>5

(* CIBListGetFreeSpotRec at level 0. *)
SpotIn(s, b) ==
    LET roomy == GrownTo(s, b)
        index == FreeIndex(roomy[b])
        taken == TakeEntry(roomy, b, index)
    IN  [list |-> IF IsFull(taken[b])
                  THEN [taken EXCEPT ![0].list_block_bitmap = @ \cup {b}] ELSE taken,
         full |-> IsFull(taken[b]) /\ AllFull([taken EXCEPT ![0].list_block_bitmap = @ \cup {b}][0]),
         id   |-> b * LIST_ENTRIES_PER_BLOCK + index]

(* That is what the whole recursion comes to. *)
LEMMA OneLevel ==
    ASSUME NEW s, ListBlocks(s) # 0, FreeMember(s[0]) \in Nat
    PROVE  LET spot == GetFreeSpotRec(s, 0)
               x == SpotIn(s, FreeMember(s[0]))
           IN  spot.list = x.list /\ spot.full = x.full /\ spot.id = x.id
<1> DEFINE calls == Calls(s, 0)
           first == Last(calls).first
           grown == GrownTo(s, first)
           b     == first + FreeMember(grown[first])
           roomy == GrownTo(grown, b)
           index == FreeIndex(roomy[b])
           taken == TakeEntry(roomy, b, index)
           marks == [i \in DOMAIN calls |->
                      [first |-> calls[i].first, level |-> calls[i].level,
                       index |-> IF calls[i].level = 0 THEN b - first ELSE Index(s, calls[i])]]
           Back(f) == [i \in 1 .. Len(marks) + 1 |->
                        IF i > Len(marks) THEN [list |-> taken, full |-> IsFull(taken[b])]
                        ELSE MarkFull(f[i + 1], marks[i])]
           returned == CHOOSE f : f = Back(f)
           m == FreeMember(s[0])
<1>1. calls = <<Top>>
    BY OneCall
<1>2. first = 0
    BY <1>1 DEF Last, Top
<1>3. grown = s
    BY <1>2 DEF GrownTo
<1>4. b = m /\ b \in Nat /\ b - first = m
    BY <1>2, <1>3
<1>5. DOMAIN calls = {1} /\ calls[1] = Top
    BY <1>1
<1> HIDE DEF calls
<1>6. marks = [i \in {1} |-> [first |-> 0, level |-> 0, index |-> m]]
    BY <1>4, <1>5 DEF Top
<1>7. Len(marks) = 1 /\ marks[1] = [first |-> 0, level |-> 0, index |-> m]
  <2> DEFINE k == [i \in {1} |-> [first |-> 0, level |-> 0, index |-> m]]
             e == [first |-> 0, level |-> 0, index |-> m]
  <2>1. k = <<e>>
      OBVIOUS
  <2>2. Len(<<e>>) = 1 /\ <<e>>[1] = e
      OBVIOUS
  <2> HIDE DEF marks, k
  <2>3. marks = <<e>>
      BY <1>6, <2>1 DEF k
  <2>4. QED BY <2>2, <2>3
<1>8. GetFreeSpotRec(s, 0) =
        [list |-> returned[1].list, full |-> returned[1].full,
         id |-> b * LIST_ENTRIES_PER_BLOCK + index]
    BY DEF GetFreeSpotRec, calls
<1> DEFINE last == [list |-> taken, full |-> IsFull(taken[b])]
<1> HIDE DEF marks, first, grown, b, roomy, index, taken
<1>9. returned[1] = MarkFull(last, marks[1])
  <2> HIDE DEF last
  <2>1. Back(returned) = [i \in 1 .. 2 |-> IF i > 1 THEN last ELSE MarkFull(returned[i + 1], marks[i])]
      BY <1>7 DEF last
  <2> DEFINE g == [i \in 1 .. 2 |-> IF i > 1 THEN last ELSE MarkFull(last, marks[1])]
  <2>2. g = Back(g)
    <3>1. Back(g) = [i \in 1 .. 2 |-> IF i > 1 THEN last ELSE MarkFull(g[i + 1], marks[i])]
        BY <1>7 DEF last
    <3>2. g[2] = last
        OBVIOUS
    <3>3. ASSUME NEW i \in 1 .. 2
          PROVE  (IF i > 1 THEN last ELSE MarkFull(g[i + 1], marks[i])) = g[i]
      <4>1. CASE i = 1
          BY <3>2, <4>1
      <4>2. CASE i = 2
          BY <4>2
      <4>3. QED BY <4>1, <4>2
    <3> HIDE DEF g
    <3>4. [i \in 1 .. 2 |-> IF i > 1 THEN last ELSE MarkFull(g[i + 1], marks[i])] = [i \in 1 .. 2 |-> g[i]]
        BY <3>3
    <3>5. [i \in 1 .. 2 |-> g[i]] = g
        BY DEF g
    <3>6. QED BY <3>1, <3>4, <3>5
  <2> HIDE DEF g
  <2>3. returned = Back(returned)
      BY <2>2
  <2> HIDE DEF returned
  <2>4. returned[2] = last
      BY <2>1, <2>3
  <2>5. returned[1] = MarkFull(returned[1 + 1], marks[1])
      BY <2>1, <2>3
  <2>6. QED BY <2>4, <2>5
<1> HIDE DEF returned
<1>10. returned[1] = IF IsFull(taken[b])
                     THEN LET marked == [taken EXCEPT ![0].list_block_bitmap = @ \cup {m}]
                          IN  [list |-> marked, full |-> AllFull(marked[0])]
                     ELSE last
    BY <1>7, <1>9 DEF MarkFull
<1>11. SpotIn(s, m) = [list |-> IF IsFull(taken[b])
                               THEN [taken EXCEPT ![0].list_block_bitmap = @ \cup {b}] ELSE taken,
                      full |-> IsFull(taken[b]) /\ AllFull([taken EXCEPT ![0].list_block_bitmap = @ \cup {b}][0]),
                      id   |-> b * LIST_ENTRIES_PER_BLOCK + index]
    BY <1>3, <1>4 DEF SpotIn, roomy, index, taken
<1> DEFINE marked == [taken EXCEPT ![0].list_block_bitmap = @ \cup {m}]
           id == b * LIST_ENTRIES_PER_BLOCK + index
           spot == GetFreeSpotRec(s, 0)
           x == SpotIn(s, m)
<1>12. CASE IsFull(taken[b])
  <2> HIDE DEF marked, id
  <2>1. returned[1] = [list |-> marked, full |-> AllFull(marked[0])]
      BY <1>10, <1>12 DEF marked
  <2>2. spot.list = marked /\ spot.full = AllFull(marked[0]) /\ spot.id = id
      BY <1>8, <2>1 DEF id
  <2>3. x.list = marked /\ x.full = (IsFull(taken[b]) /\ AllFull(marked[0])) /\ x.id = id
      BY <1>4, <1>11, <1>12 DEF id, marked
  <2>4. (IsFull(taken[b]) /\ AllFull(marked[0])) = AllFull(marked[0])
      BY <1>12 DEF AllFull
  <2> HIDE DEF spot, x
  <2>5. spot.list = x.list /\ spot.full = x.full /\ spot.id = x.id
      BY <2>2, <2>3, <2>4
  <2>6. QED BY <2>5 DEF spot, x
<1>13. CASE ~IsFull(taken[b])
  <2> HIDE DEF marked, id
  <2>1. spot.list = taken /\ spot.full = IsFull(taken[b]) /\ spot.id = id
      BY <1>8, <1>10, <1>13 DEF id
  <2>2. x.list = taken /\ x.full = (IsFull(taken[b]) /\ AllFull(marked[0])) /\ x.id = id
      BY <1>4, <1>11, <1>13 DEF id, marked
  <2>3. (IsFull(taken[b]) /\ AllFull(marked[0])) = IsFull(taken[b])
      BY <1>13 DEF IsFull
  <2> HIDE DEF spot, x
  <2>4. spot.list = x.list /\ spot.full = x.full /\ spot.id = x.id
      BY <2>1, <2>2, <2>3
  <2>5. QED BY <2>4 DEF spot, x
<1>14. QED BY <1>12, <1>13

-------------------------------------------------------------------------------
(* A list block like another one but for the bits of full members. *)
SameEntries(new, old) == new.bitmap = old.bitmap /\ new.count = old.count

(* A new block is right: no id of it is in use. *)
LEMMA EmptyIsExact ==
    ASSUME NEW n \in Nat, NEW ids, ids \subseteq 0 .. n * LIST_ENTRIES_PER_BLOCK - 1
    PROVE  /\ Exact(EmptyListBlock, n, ids) /\ EmptyListBlock \in ListBlockType
           /\ ~IsFull(EmptyListBlock)
<1>1. Used(n, ids) = {}
  <2>1. ASSUME NEW j \in 0 .. LIST_ENTRIES_PER_BLOCK - 1
        PROVE  n * LIST_ENTRIES_PER_BLOCK + j \notin ids
    <3>1. ~(n * LIST_ENTRIES_PER_BLOCK + j <= n * LIST_ENTRIES_PER_BLOCK - 1)
        BY Places
    <3> DEFINE m == n * LIST_ENTRIES_PER_BLOCK
               x == m + j
    <3>2. m \in Nat /\ x \in Nat /\ ~(x <= m - 1)
        BY <3>1, Places, Consts
    <3> HIDE DEF m, x
    <3>3. x \notin 0 .. m - 1
        BY <3>2
    <3>4. QED BY <3>3 DEF m, x
  <2>2. QED BY <2>1 DEF Used
<1>2. /\ EmptyListBlock.bitmap = {LIST_ENTRIES_PER_BLOCK} /\ EmptyListBlock.count = 0
      /\ EmptyListBlock.list_block_bitmap = {}
    BY DEF EmptyListBlock
<1>3. Exact(EmptyListBlock, n, ids)
    BY <1>1, <1>2, FS_EmptySet DEF Exact
<1>4. EmptyListBlock \in ListBlockType
    BY Consts DEF EmptyListBlock, ListBlockType, EntryBits
<1>5. ~IsFull(EmptyListBlock)
    BY <1>2, Consts DEF IsFull, EntryBits
<1>6. QED BY <1>3, <1>4, <1>5

(* The block chosen is one of the list, or FreeListIncreaseListSize adds it. *)
LEMMA RoomIsMade ==
    ASSUME NEW s, NEW n, NEW ids, Describes(s, n, ids),
           NEW b \in 0 .. n, NEW N, b = n => N = n + 1, b # n => N = n
    PROVE  /\ AreExact(GrownTo(s, b), N, ids)
           /\ \A c \in 0 .. n - 1 : GrownTo(s, b)[c] = s[c]
           /\ b = n => ~IsFull(GrownTo(s, b)[b])
<1>1. /\ n \in Nat \ {0} /\ s \in [0 .. n - 1 -> ListBlockType] /\ DOMAIN s = 0 .. n - 1
      /\ ids \subseteq 0 .. n * LIST_ENTRIES_PER_BLOCK - 1
      /\ \A c \in 0 .. n - 1 : Exact(s[c], c, ids)
    BY DEF Describes, AreExact
<1>2. ListBlocks(s) = n
    BY <1>1, SizeOfList
<1>3. CASE b # n
  <2>1. GrownTo(s, b) = s /\ N = n
      BY <1>2, <1>3 DEF GrownTo
  <2>2. QED BY <1>1, <1>3, <2>1 DEF AreExact
<1>4. CASE b = n
  <2>1. GrownTo(s, b) = [i \in 0 .. n |-> IF i = n THEN EmptyListBlock ELSE s[i]] /\ N - 1 = n
    <3>1. DOMAIN s \cup {n} = 0 .. n /\ (n + 1) - 1 = n
        BY <1>1
    <3>2. QED BY <1>2, <1>4, <3>1 DEF GrownTo
  <2>2. /\ GrownTo(s, b)[n] = EmptyListBlock /\ n \in 0 .. n
        /\ \A c \in 0 .. n - 1 : GrownTo(s, b)[c] = s[c] /\ c \in 0 .. n
      BY <1>1, <2>1
  <2>3. \A c \in 0 .. n : c = n \/ c \in 0 .. n - 1
      BY <1>1
  <2>4. Exact(EmptyListBlock, n, ids) /\ EmptyListBlock \in ListBlockType /\ ~IsFull(EmptyListBlock)
      BY <1>1, EmptyIsExact
  <2>5. \A c \in 0 .. n : GrownTo(s, b)[c] \in ListBlockType /\ Exact(GrownTo(s, b)[c], c, ids)
      BY <1>1, <2>2, <2>3, <2>4
  <2>6. GrownTo(s, b) \in [0 .. n -> ListBlockType]
      BY <2>1, <2>5
  <2>7. QED BY <1>4, <2>1, <2>2, <2>4, <2>5, <2>6 DEF AreExact
<1>5. QED BY <1>3, <1>4

(* Taking an entry changes its block only, and no mark. *)
LEMMA EntryIsTaken ==
    ASSUME NEW s, NEW N \in Nat, NEW ids, AreExact(s, N, ids),
           NEW b \in 0 .. N - 1, NEW i \in 0 .. LIST_ENTRIES_PER_BLOCK - 1, i \notin Used(b, ids),
           NEW id, id = b * LIST_ENTRIES_PER_BLOCK + i, NEW new, new = TakeEntry(s, b, i)
    PROVE  /\ AreExact(new, N, ids \cup {id})
           /\ \A c \in 0 .. N - 1 : /\ new[c].list_block_bitmap = s[c].list_block_bitmap
                                    /\ c # b => new[c] = s[c]
<1> DEFINE old == s[b]
<1>0. s \in [0 .. N - 1 -> ListBlockType] /\ \A c \in 0 .. N - 1 : Exact(s[c], c, ids)
    BY DEF AreExact
<1>1. EntryBits \cap {i} = {i} /\ old \in ListBlockType
    BY <1>0, Consts DEF EntryBits
<1>2. b \in Nat /\ Exact(old, b, ids)
    BY <1>0
<1>3. PICK bits, count : bits = old.bitmap \cup {i} /\ count = old.count + 1
    OBVIOUS
<1>4. new = [s EXCEPT ![b].count = count, ![b].bitmap = bits]
    BY <1>1, <1>3 DEF TakeEntry
<1>5. /\ new[b].bitmap = bits /\ new[b].count = count
      /\ new[b].list_block_bitmap = old.list_block_bitmap
    BY <1>0, <1>1, <1>4 DEF ListBlockType
<1>6. Exact(new[b], b, ids \cup {id})
    BY <1>2, <1>3, <1>5, TakenIsExact
<1>7. bits \in SUBSET EntryBits /\ count \in 0 .. LIST_ENTRIES_PER_BLOCK
    BY <1>5, <1>6, UsedIsFinite DEF Exact
<1>8. new[b] \in ListBlockType
    BY <1>0, <1>1, <1>4, <1>7 DEF ListBlockType
<1>9. \A c \in 0 .. N - 1 : c # b => new[c] = s[c]
    BY <1>0, <1>4
<1>10. new \in [0 .. N - 1 -> ListBlockType]
    BY <1>0, <1>4, <1>8, <1>9
<1>11. ASSUME NEW c \in 0 .. N - 1, c # b PROVE Exact(s[c], c, ids \cup {id})
  <2>1. c \in Nat /\ Exact(s[c], c, ids)
      BY <1>0
  <2>2. Used(c, ids \cup {id}) = Used(c, ids)
    <3>1. \A j \in 0 .. LIST_ENTRIES_PER_BLOCK - 1 : c * LIST_ENTRIES_PER_BLOCK + j # id
        BY <1>2, <1>11, <2>1, Places
    <3>2. QED BY <3>1 DEF Used
  <2>3. QED BY <2>1, <2>2 DEF Exact
<1>12. QED BY <1>5, <1>6, <1>9, <1>10, <1>11 DEF AreExact

-------------------------------------------------------------------------------
(* The marks are right again when a block that was filled is marked, and the set is
   never full, for it has fewer blocks than members. *)
LEMMA MemberIsMarked ==
    ASSUME NEW s, NEW N \in Nat \ {0}, N < SetSize, NEW ids, AreExact(s, N, ids), NEW b \in 0 .. N - 1,
           NEW full, full = s[0].list_block_bitmap, \A c \in full : c \in 0 .. N - 1,
           \A c \in 0 .. N - 1 : c # b => (c \in full <=> IsFull(s[c])),
           b \notin full, NEW m, m = [s EXCEPT ![0].list_block_bitmap = @ \cup {b}],
           NEW new, IsFull(s[b]) => new = m, ~IsFull(s[b]) => new = s
    PROVE  AreExact(new, N, ids) /\ MarksTheFull(new, N) /\ ~AllFull(m[0])
<1> DEFINE bits == full \cup {b}
<1>0. s \in [0 .. N - 1 -> ListBlockType] /\ \A c \in 0 .. N - 1 : Exact(s[c], c, ids)
    BY DEF AreExact
<1>1. 0 \in 0 .. N - 1 /\ s[0] \in ListBlockType /\ bits \in SUBSET SetBits
    BY <1>0, Consts DEF SetBits
<1>2. m = [s EXCEPT ![0].list_block_bitmap = bits]
    OBVIOUS
<1>3. bits \subseteq 0 .. N - 1 /\ full \subseteq bits /\ b \in bits
    OBVIOUS
<1>4. \A c \in bits : c \in full \/ c = b
    OBVIOUS
<1> HIDE DEF bits
<1>5. /\ m[0].list_block_bitmap = bits /\ SameEntries(m[0], s[0])
      /\ \A c \in 0 .. N - 1 : c # 0 => m[c] = s[c]
      /\ m \in [0 .. N - 1 -> ListBlockType]
  <2>1. \A c \in 0 .. N - 1 : c # 0 => m[c] = s[c]
      BY <1>0, <1>2
  <2>2. m[0].list_block_bitmap = bits /\ SameEntries(m[0], s[0]) /\ m[0] \in ListBlockType
      BY <1>0, <1>1, <1>2 DEF ListBlockType, SameEntries
  <2>3. m \in [0 .. N - 1 -> ListBlockType]
      BY <1>0, <1>2, <2>1, <2>2
  <2>4. QED BY <2>1, <2>2, <2>3
<1>6. \A c \in 0 .. N - 1 : SameEntries(m[c], s[c])
    BY <1>5 DEF SameEntries
<1>7. ~AllFull(m[0])
  <2>1. N \in SetBits /\ N \notin bits
      BY <1>3, Consts DEF SetBits
  <2>2. QED BY <1>5, <2>1 DEF AllFull
<1>8. CASE IsFull(s[b])
  <2>1. new = m
      BY <1>8
  <2>2. \A c \in 0 .. N - 1 : Exact(m[c], c, ids) /\ (IsFull(m[c]) <=> IsFull(s[c]))
      BY <1>0, <1>6 DEF SameEntries, Exact, IsFull
  <2>3. bits = {c \in 0 .. N - 1 : IsFull(m[c])}
      BY <1>3, <1>4, <1>8, <2>2
  <2>4. QED BY <1>5, <1>7, <2>1, <2>2, <2>3 DEF AreExact, MarksTheFull
<1>9. CASE ~IsFull(s[b])
  <2>1. new = s
      BY <1>9
  <2>2. full = {c \in 0 .. N - 1 : IsFull(s[c])}
      BY <1>9
  <2>3. QED BY <1>7, <2>1, <2>2 DEF MarksTheFull
<1>10. QED BY <1>8, <1>9

(* What CIBListGetFreeSpot may rely on: the spot was free, a block was added only to a
   full list, and while the list is small its set does not become full. *)
IsFreeSpot(spot, s, n, ids) ==
    \E N \in {n, n + 1} :
      /\ ListBlocks(spot.list) = N
      /\ spot.id \notin ids
      /\ N # n => \A c \in DOMAIN s : IsFull(s[c])
      /\ N <= IntBits /\ N < SetSize =>
           /\ ~spot.full
           /\ Describes(spot.list, N, ids \cup {spot.id})

(* The entry found was free, and with it the list describes the ids in use again. *)
LEMMA SpotIsFree ==
    ASSUME NEW s, NEW n, NEW ids, Describes(s, n, ids),
           NEW spot, spot = GetFreeSpotRec(s, 0)
    PROVE  IsFreeSpot(spot, s, n, ids)
<1> DEFINE L == LIST_ENTRIES_PER_BLOCK
           full == s[0].list_block_bitmap
           b == FreeMember(s[0])
           N == IF b = n THEN n + 1 ELSE n
           roomy == GrownTo(s, b)
           index == FreeIndex(roomy[b])
           taken == TakeEntry(roomy, b, index)
           id == b * L + index
           x == SpotIn(s, b)
<1>1. /\ n \in Nat \ {0} /\ n < SetSize /\ s \in [0 .. n - 1 -> ListBlockType]
      /\ full = {c \in 0 .. n - 1 : IsFull(s[c])}
      /\ ids \subseteq 0 .. n * L - 1
      /\ ListBlocks(s) = n /\ DOMAIN s = 0 .. n - 1
    BY SizeOfList DEF Describes, AreExact, MarksTheFull
<1>2. b \in 0 .. n /\ b \notin full /\ \A c \in 0 .. n - 1 : c < b => c \in full
    BY <1>1, MemberFound
<1> HIDE DEF full, b
<1>3. N \in Nat \ {0} /\ N \in {n, n + 1} /\ b \in 0 .. N - 1 /\ (N # n <=> b = n) /\ n <= N
    BY <1>1, <1>2
<1>4. N # n => \A c \in DOMAIN s : IsFull(s[c])
  <2>1. ASSUME b = n, NEW c \in 0 .. n - 1 PROVE IsFull(s[c])
    <3>1. c < b
        BY <1>1, <2>1
    <3>2. QED BY <1>1, <1>2, <3>1
  <2>2. QED BY <1>1, <1>3, <2>1
<1>5. (b = n => N = n + 1) /\ (b # n => N = n)
    OBVIOUS
<1> HIDE DEF N
<1>6. /\ AreExact(roomy, N, ids)
      /\ \A c \in 0 .. n - 1 : roomy[c] = s[c]
      /\ b = n => ~IsFull(roomy[b])
    BY <1>2, <1>5, RoomIsMade
<1> HIDE DEF roomy
<1>7. \A c \in 0 .. N - 1 : c = n \/ c \in 0 .. n - 1
    BY <1>1, <1>3
<1>8. ~IsFull(roomy[b])
    BY <1>1, <1>2, <1>3, <1>6, <1>7
<1>9. index \in 0 .. L - 1 /\ index \notin Used(b, ids)
    BY <1>3, <1>6, <1>8, NotFull DEF AreExact
<1> HIDE DEF index
<1>10. id = b * L + index /\ b \in Nat /\ id \notin ids
    BY <1>2, <1>9 DEF Used
<1> HIDE DEF id
<1>18. taken = TakeEntry(roomy, b, index)
    OBVIOUS
<1> HIDE DEF taken
<1>11. /\ AreExact(taken, N, ids \cup {id})
       /\ \A c \in 0 .. N - 1 : /\ taken[c].list_block_bitmap = roomy[c].list_block_bitmap
                                /\ c # b => taken[c] = roomy[c]
  <2>1. N \in Nat /\ AreExact(roomy, N, ids) /\ b \in 0 .. N - 1
      BY <1>3, <1>6
  <2>2. index \in 0 .. LIST_ENTRIES_PER_BLOCK - 1 /\ index \notin Used(b, ids)
        /\ id = b * LIST_ENTRIES_PER_BLOCK + index
      BY <1>9, <1>10
  <2>3. QED BY <1>18, <2>1, <2>2, EntryIsTaken
<1>12. /\ x.list = IF IsFull(taken[b])
                   THEN [taken EXCEPT ![0].list_block_bitmap = @ \cup {b}] ELSE taken
       /\ x.full = (IsFull(taken[b]) /\ AllFull([taken EXCEPT ![0].list_block_bitmap = @ \cup {b}][0]))
       /\ x.id = id
    BY DEF SpotIn, taken, roomy, index, id
<1>13. spot.list = x.list /\ spot.full = x.full /\ spot.id = x.id
    BY <1>1, <1>2, OneLevel DEF b
<1> HIDE DEF x
<1>14. DOMAIN spot.list = 0 .. N - 1
    BY <1>11, <1>12, <1>13 DEF AreExact
<1>15. ListBlocks(spot.list) = N
    BY <1>3, <1>14, SizeOfList
<1>16. ASSUME N <= IntBits, N < SetSize
       PROVE  /\ ~spot.full
              /\ Describes(spot.list, N, ids \cup {id})
  <2>1. full = taken[0].list_block_bitmap /\ \A c \in full : c \in 0 .. N - 1
    <3>1. 0 \in 0 .. n - 1 /\ 0 \in 0 .. N - 1 /\ \A c \in 0 .. n - 1 : c \in 0 .. N - 1
        BY <1>1, <1>3
    <3>2. full = roomy[0].list_block_bitmap
        BY <1>6, <3>1 DEF full
    <3>3. QED BY <1>1, <1>11, <3>1, <3>2
  <2>2. \A c \in 0 .. N - 1 : c # b => (c \in full <=> IsFull(taken[c]))
    <3>1. ASSUME NEW c \in 0 .. N - 1, c # b PROVE c \in full <=> IsFull(taken[c])
      <4>1. c \in 0 .. n - 1
          BY <1>3, <1>5, <1>7, <3>1
      <4>2. roomy[c] = s[c] /\ taken[c] = roomy[c]
          BY <1>6, <1>11, <3>1, <4>1
      <4>3. QED BY <1>1, <4>1, <4>2
    <3>2. QED BY <3>1
  <2> DEFINE m == [taken EXCEPT ![0].list_block_bitmap = @ \cup {b}]
             new == spot.list
             all == ids \cup {id}
  <2>6. m = [taken EXCEPT ![0].list_block_bitmap = @ \cup {b}]
      OBVIOUS
  <2>7. (IsFull(taken[b]) => new = m) /\ (~IsFull(taken[b]) => new = taken)
      BY <1>12, <1>13
  <2>8. spot.full = (IsFull(taken[b]) /\ AllFull(m[0]))
      BY <1>12, <1>13
  <2>9. AreExact(taken, N, all)
      BY <1>11
  <2> HIDE DEF m, new, all
  <2>3. AreExact(new, N, all) /\ MarksTheFull(new, N) /\ ~AllFull(m[0])
      BY <1>2, <1>3, <1>16, <2>1, <2>2, <2>6, <2>7, <2>9, MemberIsMarked
  <2>4. ~spot.full
      BY <2>3, <2>8
  <2>5. ids \cup {id} \subseteq 0 .. N * L - 1
    <3> DEFINE p == N * L
    <3>1. id \in Nat /\ id <= p - 1
        BY <1>3, <1>9, <1>10, Places
    <3>2. \A i \in 0 .. n * L - 1 : i <= p - 1 /\ i \in Nat
      <4> DEFINE q == n * L
      <4>1. q <= p /\ p \in Nat /\ q \in Nat
        <5>1. N = n \/ N = n + 1
            BY <1>3
        <5>2. QED BY <1>1, <1>3, <5>1, Consts
      <4> HIDE DEF p, q
      <4>2. \A i \in 0 .. q - 1 : i <= p - 1 /\ i \in Nat
          BY <4>1
      <4>3. QED BY <4>2 DEF q
    <3>3. p \in Nat
        BY <1>3, Consts
    <3> HIDE DEF p
    <3>4. ids \cup {id} \subseteq 0 .. p - 1
        BY <1>1, <3>1, <3>2, <3>3
    <3>5. QED BY <3>4 DEF p
  <2>10. QED BY <1>3, <1>16, <2>3, <2>4, <2>5 DEF Describes, new, all
<1>17. QED BY <1>3, <1>4, <1>10, <1>12, <1>13, <1>15, <1>16 DEF IsFreeSpot

-------------------------------------------------------------------------------
(* Every block is in the first set, at its own place. *)
LEMMA SetOfLevelZero ==
    ASSUME NEW b \in Nat, b < SetSize
    PROVE  FirstOfSet(b, 0) = 0 /\ (b - FirstOfSet(b, 0)) \div MemberSize[0] = b
<1>1. MemberSize[0 + 1] = SetSize /\ MemberSize[0] = 1
    BY MemberSizes
<1>2. b % SetSize = b
    BY Consts
<1>3. FirstOfSet(b, 0) = b - (b % SetSize)
    BY <1>1 DEF FirstOfSet
<1>4. FirstOfSet(b, 0) = 0
    BY <1>2, <1>3
<1>5. (b - 0) \div 1 = b
    OBVIOUS
<1>6. QED BY <1>1, <1>4, <1>5

(* The mask clears the bit of the block: for the last bit of the mask it clears all
   bits above, too, which are zero. *)
LEMMA OneBitIsCleared ==
    ASSUME NEW N \in Nat, N <= IntBits, N < SetSize, NEW full, full \subseteq 0 .. N - 1,
           NEW b \in 0 .. N - 1
    PROVE  full \ ClearedBits(b) = full \ {b}
<1>1. b % IntBits = b
    BY Consts
<1>2. CASE b = IntBits - 1
  <2>1. ClearedBits(b) = {i \in SetBits : i >= IntBits - 1}
      BY <1>1, <1>2 DEF ClearedBits
  <2>2. \A c \in full : c >= IntBits - 1 <=> c = b
      BY <1>2, Consts
  <2>3. b \in ClearedBits(b)
      BY <1>2, <2>1, Consts DEF SetBits
  <2>4. QED BY <2>1, <2>2, <2>3
<1>3. CASE b # IntBits - 1
    BY <1>1, <1>3 DEF ClearedBits
<1>4. QED BY <1>2, <1>3

(* The same blocks, but for the mark of block b. *)
IsUpdated(new, s, N, ids, b) ==
    /\ AreExact(new, N, ids)
    /\ \A c \in 0 .. N - 1 : SameEntries(new[c], s[c])
    /\ new[0].list_block_bitmap = s[0].list_block_bitmap \ {b}

(* CIBListUpdateGroupBitmap removes the mark of the block and changes nothing else. *)
LEMMA GroupIsUpdated ==
    ASSUME NEW s, NEW N \in Nat \ {0}, N < SetSize, N <= IntBits, NEW ids, AreExact(s, N, ids),
           s[0].list_block_bitmap \subseteq 0 .. N - 1,
           NEW b \in 0 .. N - 1, NEW new, new = UpdateGroupBitmap(s, b, 0)
    PROVE  IsUpdated(new, s, N, ids, b)
<1> DEFINE levels == UpdatedLevels(s, b, 0)
           subset(n) == (b - FirstOfSet(b, n)) \div MemberSize[n]
           at(i)     == {n \in levels : FirstOfSet(b, n) + n = i}
           cleared(i) == UNION {ClearedBits(subset(n)) : n \in at(i)}
<1>1. s \in [0 .. N - 1 -> ListBlockType] /\ \A c \in 0 .. N - 1 : Exact(s[c], c, ids)
    BY DEF AreExact
<1>2. new = [i \in 0 .. N - 1 |-> [s[i] EXCEPT !.list_block_bitmap = @ \ cleared(i)]]
    BY <1>1 DEF UpdateGroupBitmap
<1>3. levels = {0}
  <2>1. \A m \in 0 .. 0 - 1 : FALSE
      OBVIOUS
  <2>2. QED BY <2>1 DEF UpdatedLevels
<1>4. FirstOfSet(b, 0) + 0 = 0 /\ subset(0) = b
  <2>1. b \in Nat /\ b < SetSize
      BY Consts
  <2>2. QED BY <2>1, SetOfLevelZero
<1> HIDE DEF levels
<1>5. at(0) = {0}
    BY <1>3, <1>4
<1> HIDE DEF at, subset
<1>6. cleared(0) = ClearedBits(b)
    BY <1>4, <1>5
<1> HIDE DEF cleared
<1>7. ASSUME NEW c \in 0 .. N - 1
      PROVE  /\ SameEntries(new[c], s[c])
             /\ new[c].list_block_bitmap = s[c].list_block_bitmap \ cleared(c)
             /\ new[c] \in ListBlockType
  <2>1. PICK bits : bits = s[c].list_block_bitmap \ cleared(c)
      OBVIOUS
  <2>2. new[c] = [s[c] EXCEPT !.list_block_bitmap = bits] /\ s[c] \in ListBlockType
      BY <1>1, <1>2, <2>1
  <2>3. bits \in SUBSET SetBits
      BY <2>1, <2>2 DEF ListBlockType
  <2>4. QED BY <2>1, <2>2, <2>3 DEF ListBlockType, SameEntries
<1>8. \A c \in 0 .. N - 1 : Exact(new[c], c, ids)
    BY <1>1, <1>7 DEF SameEntries, Exact
<1>9. new \in [0 .. N - 1 -> ListBlockType]
    BY <1>2, <1>7
<1>10. 0 \in 0 .. N - 1
    OBVIOUS
<1>11. s[0].list_block_bitmap \ ClearedBits(b) = s[0].list_block_bitmap \ {b}
    BY OneBitIsCleared
<1>12. QED BY <1>6, <1>7, <1>8, <1>9, <1>10, <1>11 DEF AreExact, IsUpdated

(* The last two statements of CIBListFreeEntry that change the list. *)
GiveBack(s, b, i) == [s EXCEPT ![b].bitmap = @ \ {i}, ![b].count = @ - 1]

(* Giving an entry back changes its block only, which then is not full. *)
LEMMA EntryIsGivenBack ==
    ASSUME NEW s, NEW N \in Nat, NEW ids, AreExact(s, N, ids),
           NEW b \in 0 .. N - 1, NEW i \in 0 .. LIST_ENTRIES_PER_BLOCK - 1, i \in Used(b, ids),
           NEW id, id = b * LIST_ENTRIES_PER_BLOCK + i,
           NEW new, new = GiveBack(s, b, i)
    PROVE  /\ AreExact(new, N, ids \ {id})
           /\ ~IsFull(new[b])
           /\ \A c \in 0 .. N - 1 : /\ new[c].list_block_bitmap = s[c].list_block_bitmap
                                    /\ c # b => new[c] = s[c]
<1> DEFINE old == s[b]
<1>0. s \in [0 .. N - 1 -> ListBlockType] /\ \A c \in 0 .. N - 1 : Exact(s[c], c, ids)
    BY DEF AreExact
<1>1. old \in ListBlockType
    BY <1>0, Consts DEF EntryBits
<1>2. b \in Nat /\ Exact(old, b, ids)
    BY <1>0
<1>3. PICK bits, count : bits = old.bitmap \ {i} /\ count = old.count - 1
    OBVIOUS
<1>4. new = [s EXCEPT ![b].bitmap = bits, ![b].count = count]
    BY <1>3 DEF GiveBack
<1>5. /\ new[b].bitmap = bits /\ new[b].count = count
      /\ new[b].list_block_bitmap = old.list_block_bitmap
    BY <1>0, <1>1, <1>4 DEF ListBlockType
<1>6. Exact(new[b], b, ids \ {id})
    BY <1>2, <1>3, <1>5, GivenBackIsExact
<1>7. bits \in SUBSET EntryBits /\ count \in 0 .. LIST_ENTRIES_PER_BLOCK
    BY <1>5, <1>6, UsedIsFinite DEF Exact
<1>8. new[b] \in ListBlockType
    BY <1>0, <1>1, <1>4, <1>7 DEF ListBlockType
<1>9. \A c \in 0 .. N - 1 : c # b => new[c] = s[c]
    BY <1>0, <1>4
<1>10. new \in [0 .. N - 1 -> ListBlockType]
    BY <1>0, <1>4, <1>8, <1>9
<1>11. ASSUME NEW c \in 0 .. N - 1, c # b PROVE Exact(s[c], c, ids \ {id})
  <2>1. c \in Nat /\ Exact(s[c], c, ids)
      BY <1>0
  <2>2. Used(c, ids \ {id}) = Used(c, ids)
    <3>1. \A j \in 0 .. LIST_ENTRIES_PER_BLOCK - 1 : c * LIST_ENTRIES_PER_BLOCK + j # id
        BY <1>2, <1>11, <2>1, Places
    <3>2. QED BY <3>1 DEF Used
  <2>3. QED BY <2>1, <2>2 DEF Exact
<1>12. ~IsFull(new[b])
  <2>1. i \in EntryBits /\ i \notin bits
      BY <1>3, Consts DEF EntryBits
  <2>2. QED BY <1>5, <2>1 DEF IsFull
<1>13. QED BY <1>5, <1>6, <1>9, <1>10, <1>11, <1>12 DEF AreExact

-------------------------------------------------------------------------------
(* CIBListFreeEntry as a whole. *)
LEMMA FreedIsDescribed ==
    ASSUME NEW s, NEW n, NEW ids, Describes(s, n, ids), NEW id \in ids,
           NEW b, b = id \div LIST_ENTRIES_PER_BLOCK,
           NEW i, i = id % LIST_ENTRIES_PER_BLOCK,
           NEW updated, IsFull(s[b]) => updated = UpdateGroupBitmap(s, b, 0),
           ~IsFull(s[b]) => updated = s,
           NEW new, new = GiveBack(updated, b, i)
    PROVE  Describes(new, n, ids \ {id})
<1> DEFINE L == LIST_ENTRIES_PER_BLOCK
           full == s[0].list_block_bitmap
<1>1. /\ n \in Nat \ {0} /\ n < SetSize /\ n <= IntBits
      /\ ids \subseteq 0 .. n * L - 1
      /\ AreExact(s, n, ids)
      /\ full = {c \in 0 .. n - 1 : IsFull(s[c])}
    BY DEF Describes, MarksTheFull
<1> HIDE DEF full
<1>2. id \in Nat /\ id <= n * L - 1
    BY <1>1, Consts
<1>3. b \in Nat /\ i \in 0 .. L - 1 /\ id = b * L + i
    BY <1>2, PlaceOf
<1>4. b \in 0 .. n - 1
  <2>1. ~(n <= b)
      BY <1>1, <1>2, <1>3, Places
  <2>2. QED BY <1>1, <1>3, <2>1
<1>5. i \in Used(b, ids)
    BY <1>3 DEF Used
<1>6. /\ AreExact(updated, n, ids)
      /\ \A c \in 0 .. n - 1 : IsFull(updated[c]) <=> IsFull(s[c])
      /\ updated[0].list_block_bitmap = full \ {b}
  <2>1. CASE IsFull(s[b])
    <3>1. updated = UpdateGroupBitmap(s, b, 0)
        BY <2>1
    <3>3. s[0].list_block_bitmap \subseteq 0 .. n - 1
        BY <1>1 DEF full
    <3>2. IsUpdated(updated, s, n, ids, b)
        BY <1>1, <1>4, <3>1, <3>3, GroupIsUpdated
    <3>4. QED BY <3>2 DEF IsUpdated, SameEntries, IsFull, full
  <2>2. CASE ~IsFull(s[b])
    <3>1. b \notin full
        BY <1>1, <2>2
    <3>2. QED BY <1>1, <2>2, <3>1 DEF full
  <2>3. QED BY <2>1, <2>2
<1>7. /\ AreExact(new, n, ids \ {id})
      /\ ~IsFull(new[b])
      /\ \A c \in 0 .. n - 1 : /\ new[c].list_block_bitmap = updated[c].list_block_bitmap
                               /\ c # b => new[c] = updated[c]
    BY <1>1, <1>3, <1>4, <1>5, <1>6, EntryIsGivenBack
<1>8. MarksTheFull(new, n)
  <2>1. 0 \in 0 .. n - 1
      BY <1>1
  <2>2. new[0].list_block_bitmap = full \ {b}
      BY <1>6, <1>7, <2>1
  <2>3. \A c \in 0 .. n - 1 : IsFull(new[c]) <=> c \in full /\ c # b
    <3>1. ASSUME NEW c \in 0 .. n - 1, c # b PROVE IsFull(new[c]) <=> c \in full
      <4>1. new[c] = updated[c] /\ (IsFull(updated[c]) <=> IsFull(s[c]))
          BY <1>6, <1>7, <3>1
      <4>2. QED BY <1>1, <4>1
    <3>2. QED BY <1>7, <3>1
  <2>4. full \ {b} = {c \in 0 .. n - 1 : IsFull(new[c])}
      BY <1>1, <2>3
  <2>5. QED BY <2>2, <2>4 DEF MarksTheFull
<1>9. QED BY <1>1, <1>7, <1>8 DEF Describes

(* CIBListInit makes a right list. *)
LEMMA InitInv == ASSUME Small PROVE Init => IInv
<1> SUFFICES ASSUME Init PROVE IInv
    OBVIOUS
<1> DEFINE first == [EmptyListBlock EXCEPT !.bitmap = @ \cup {0}, !.count = 1]
<1>1. PICK n \in InitListBlocks :
        list = [b \in 0 .. n - 1 |-> IF b = 0 THEN first ELSE EmptyListBlock]
    BY DEF Init
<1>2. /\ n \in 1 .. MaxListBlocks /\ n \in Nat \ {0} /\ n <= IntBits /\ n < SetSize
      /\ n <= MaxListBlocks
    BY CIBListAssumption DEF Small
<1>3. /\ first.bitmap = EmptyListBlock.bitmap \cup {0} /\ first.count = EmptyListBlock.count + 1
      /\ first.list_block_bitmap = {} /\ EmptyListBlock.list_block_bitmap = {}
      /\ first.bitmap = {LIST_ENTRIES_PER_BLOCK, 0} /\ first.count = 1
    BY DEF EmptyListBlock
<1> HIDE DEF first
<1>4. Exact(first, 0, {0})
  <2>1. Exact(EmptyListBlock, 0, {}) /\ Used(0, {}) = {}
      BY EmptyIsExact DEF Used
  <2>2. 0 \in 0 .. LIST_ENTRIES_PER_BLOCK - 1 /\ 0 * LIST_ENTRIES_PER_BLOCK + 0 = 0
      BY Consts
  <2>3. Exact(first, 0, {} \cup {0 * LIST_ENTRIES_PER_BLOCK + 0})
      BY <1>3, <2>1, <2>2, TakenIsExact
  <2>4. QED BY <2>2, <2>3
<1>5. ASSUME NEW b \in Nat \ {0}
      PROVE  Exact(EmptyListBlock, b, {0}) /\ ~IsFull(EmptyListBlock) /\ EmptyListBlock \in ListBlockType
  <2>1. {0} \subseteq 0 .. b * LIST_ENTRIES_PER_BLOCK - 1
      BY Consts
  <2>2. QED BY <2>1, EmptyIsExact
<1>6. first \in ListBlockType
  <2>1. PICK bits, count : bits = EmptyListBlock.bitmap \cup {0} /\ count = 1
      OBVIOUS
  <2>2. first = [EmptyListBlock EXCEPT !.bitmap = bits, !.count = count]
      BY <2>1 DEF first
  <2>3. bits \in SUBSET EntryBits /\ count \in 0 .. LIST_ENTRIES_PER_BLOCK
      BY <2>1, Consts DEF EmptyListBlock, EntryBits
  <2>4. EmptyListBlock \in ListBlockType
      BY <1>5
  <2>5. QED BY <2>2, <2>3, <2>4 DEF ListBlockType
<1>7. ~IsFull(first)
    BY <1>3, Consts DEF IsFull, EntryBits
<1>8. ASSUME NEW b \in 0 .. n - 1
      PROVE  list[b] \in ListBlockType /\ Exact(list[b], b, {0}) /\ ~IsFull(list[b])
  <2>1. CASE b = 0
      BY <1>1, <1>4, <1>6, <1>7, <2>1
  <2>2. CASE b # 0
    <3>1. b \in Nat \ {0} /\ list[b] = EmptyListBlock
        BY <1>1, <2>2
    <3>2. QED BY <1>5, <3>1
  <2>3. QED BY <2>1, <2>2
<1>9. AreExact(list, n, {0})
    BY <1>1, <1>8 DEF AreExact
<1>10. MarksTheFull(list, n)
  <2>1. list[0] = first
      BY <1>1, <1>2
  <2>2. QED BY <1>3, <1>8, <2>1 DEF MarksTheFull
<1>11. {0} \subseteq 0 .. n * LIST_ENTRIES_PER_BLOCK - 1
    BY <1>2, Consts
<1>12. inUse = {0} /\ nest_level = 0
    BY DEF Init
<1>13. QED BY <1>2, <1>9, <1>10, <1>11, <1>12 DEF IInv, Describes

(* One step: CIBListGetFreeSpot keeps the invariant, gives out an id that was not in
   use and adds a block only to a full list; *)
LEMMA GetFreeSpotInv ==
    ASSUME Small, IInv, GetFreeSpot
    PROVE  /\ IInv'
           /\ inUse' # inUse
           /\ ListBlocks(list') > ListBlocks(list) => \A b \in DOMAIN list : IsFull(list[b])
<1> DEFINE spot == GetFreeSpotRec(list, nest_level)
<1>1. PICK n \in 1 .. MaxListBlocks : Describes(list, n, inUse)
    BY DEF IInv
<1>2. nest_level = 0
    BY DEF IInv
<1>3. /\ ListBlocks(spot.list) <= MaxListBlocks
      /\ list' = IF spot.full THEN RaiseLevel(spot.list, nest_level + 1) ELSE spot.list
      /\ nest_level' = IF spot.full THEN nest_level + 1 ELSE nest_level
      /\ inUse' = inUse \cup {spot.id}
    BY DEF GetFreeSpot
<1>4. spot = GetFreeSpotRec(list, 0)
    BY <1>2
<1> HIDE DEF spot
<1>14. IsFreeSpot(spot, list, n, inUse)
    BY <1>1, <1>4, SpotIsFree
<1>5. PICK N \in {n, n + 1} :
         /\ ListBlocks(spot.list) = N
         /\ spot.id \notin inUse
         /\ N # n => \A c \in DOMAIN list : IsFull(list[c])
         /\ N <= IntBits /\ N < SetSize =>
              /\ ~spot.full
              /\ Describes(spot.list, N, inUse \cup {spot.id})
    BY <1>14 DEF IsFreeSpot
<1>6. N \in 1 .. MaxListBlocks /\ N <= IntBits /\ N < SetSize
    BY <1>3, <1>5, Consts DEF Small
<1>7. ~spot.full /\ Describes(spot.list, N, inUse \cup {spot.id})
    BY <1>5, <1>6
<1>8. list' = spot.list /\ nest_level' = 0
    BY <1>2, <1>3, <1>7
<1>9. IInv'
    BY <1>3, <1>6, <1>7, <1>8 DEF IInv
<1>10. inUse' # inUse
    BY <1>3, <1>5
<1>11. ListBlocks(list) = n
    BY <1>1, SizeOfList DEF Describes, AreExact
<1>12. ListBlocks(list') > ListBlocks(list) => N # n
    BY <1>5, <1>6, <1>8, <1>11
<1>13. QED BY <1>5, <1>9, <1>10, <1>12

(* CIBListFreeEntry keeps the invariant and the size of the list. *)
LEMMA FreeEntryInv ==
    ASSUME Small, IInv, NEW id \in inUse, FreeEntry(id)
    PROVE  /\ IInv'
           /\ ListBlocks(list') = ListBlocks(list)
<1> DEFINE b == id \div LIST_ENTRIES_PER_BLOCK
           i == id % LIST_ENTRIES_PER_BLOCK
           updated == IF IsFull(list[b]) THEN UpdateGroupBitmap(list, b, nest_level) ELSE list
<1>1. PICK n \in 1 .. MaxListBlocks : Describes(list, n, inUse)
    BY DEF IInv
<1>2. nest_level = 0
    BY DEF IInv
<1>3. /\ list' = GiveBack(updated, b, i)
      /\ inUse' = inUse \ {id} /\ nest_level' = nest_level
    BY DEF FreeEntry, GiveBack
<1>4. /\ IsFull(list[b]) => updated = UpdateGroupBitmap(list, b, 0)
      /\ ~IsFull(list[b]) => updated = list
    BY <1>2
<1>5. b = id \div LIST_ENTRIES_PER_BLOCK /\ i = id % LIST_ENTRIES_PER_BLOCK
    OBVIOUS
<1> HIDE DEF updated, b, i
<1>6. Describes(list', n, inUse \ {id})
    BY <1>1, <1>3, <1>4, <1>5, FreedIsDescribed
<1>7. ListBlocks(list') = n /\ ListBlocks(list) = n
    BY <1>1, <1>6, SizeOfList DEF Describes, AreExact
<1>8. QED BY <1>1, <1>2, <1>3, <1>6, <1>7 DEF IInv

-------------------------------------------------------------------------------
(* The invariant holds in every state: of such archives there is only one level. *)
LEMMA ListInvariance == ASSUME Small PROVE Spec => []IInv
<1>1. ASSUME IInv, [Next]_vars PROVE IInv'
  <2>1. CASE GetFreeSpot
      BY <1>1, <2>1, GetFreeSpotInv
  <2>2. ASSUME NEW id \in inUse, FreeEntry(id) PROVE IInv'
      BY <1>1, <2>2, FreeEntryInv
  <2>3. CASE UNCHANGED vars
    <3>1. list' = list /\ nest_level' = nest_level /\ inUse' = inUse
        BY <2>3 DEF vars
    <3>2. QED BY <1>1, <3>1 DEF IInv
  <2>4. QED BY <1>1, <2>1, <2>2, <2>3 DEF Next
<1>2. Init => IInv
    BY InitInv
<1>3. QED BY <1>1, <1>2, PTL DEF Spec

(* What the invariant says of the number of blocks. *)
LEMMA InvFacts ==
    ASSUME IInv
    PROVE  \E n \in 1 .. MaxListBlocks :
             /\ Describes(list, n, inUse) /\ ListBlocks(list) = n /\ DOMAIN list = 0 .. n - 1
             /\ nest_level = 0
<1>1. PICK n \in 1 .. MaxListBlocks : Describes(list, n, inUse)
    BY DEF IInv
<1>2. QED BY <1>1, SizeOfList DEF IInv, Describes, AreExact

(* Every block has the fields of its type, and the nest level recorded in the header
   is that of a block of the list. *)
THEOREM TypeCorrectness ==
    ASSUME MaxListBlocks <= IntBits, MaxListBlocks < SetSize
    PROVE  Spec => []TypeOK
<1>1. ASSUME IInv PROVE TypeOK
  <2>1. PICK n \in 1 .. MaxListBlocks :
          /\ Describes(list, n, inUse) /\ ListBlocks(list) = n /\ DOMAIN list = 0 .. n - 1
          /\ nest_level = 0
      BY <1>1, InvFacts
  <2>2. list \in [0 .. n - 1 -> ListBlockType]
      BY <2>1 DEF Describes, AreExact
  <2>3. inUse \subseteq 0 .. n * LIST_ENTRIES_PER_BLOCK - 1
      BY <2>1 DEF Describes
  <2>4. 0 \in DOMAIN list
      BY <2>1
  <2>5. QED BY <2>1, <2>2, <2>3, <2>4 DEF TypeOK, ListBlockType
<1>2. Small
    BY DEF Small
<1>3. QED BY <1>1, <1>2, ListInvariance, PTL

(* The bitmap and the counter of every list block describe the ids in use, after any
   sequence of CIBListGetFreeSpot and CIBListFreeEntry. *)
THEOREM BitmapsAreRight ==
    ASSUME MaxListBlocks <= IntBits, MaxListBlocks < SetSize
    PROVE  Spec => []EntriesAreExact
<1>1. ASSUME IInv PROVE EntriesAreExact
  <2>1. PICK n \in 1 .. MaxListBlocks :
          /\ Describes(list, n, inUse) /\ ListBlocks(list) = n /\ DOMAIN list = 0 .. n - 1
          /\ nest_level = 0
      BY <1>1, InvFacts
  <2>2. \A b \in 0 .. n - 1 : Exact(list[b], b, inUse)
      BY <2>1 DEF Describes, AreExact
  <2>3. QED BY <2>1, <2>2 DEF EntriesAreExact, Exact, Used
<1>2. Small
    BY DEF Small
<1>3. QED BY <1>1, <1>2, ListInvariance, PTL

(* The blocks marked as full are those that are, so that the search for a free spot
   neither misses one nor looks in vain. *)
THEOREM FullBlocksAreMarked ==
    ASSUME MaxListBlocks <= IntBits, MaxListBlocks < SetSize
    PROVE  Spec => []SummariesAreExact
<1>1. ASSUME IInv PROVE SummariesAreExact
  <2>1. PICK n \in 1 .. MaxListBlocks :
          /\ Describes(list, n, inUse) /\ ListBlocks(list) = n /\ DOMAIN list = 0 .. n - 1
          /\ nest_level = 0
      BY <1>1, InvFacts
  <2>2. n < SetSize /\ list[0].list_block_bitmap = {k \in 0 .. n - 1 : IsFull(list[k])}
      BY <2>1 DEF Describes, MarksTheFull
  <2>3. ASSUME NEW b \in 0 .. n - 1
        PROVE  FirstOfSet(b, 0) = 0
    <3>1. b \in Nat /\ b < SetSize
        BY <2>2, Consts
    <3>2. QED BY <3>1, SetOfLevelZero
  <2>4. ASSUME NEW k \in SetBits
        PROVE  (LET first == 0 + k * MemberSize[0]
                IN  \A i \in first .. first + MemberSize[0] - 1 :
                      i \in DOMAIN list /\ IsFull(list[i]))
               <=> k \in 0 .. n - 1 /\ IsFull(list[k])
    <3>1. MemberSize[0] = 1 /\ k \in Nat
        BY MemberSizes DEF SetBits
    <3>2. 0 + k * MemberSize[0] = k /\ k + MemberSize[0] - 1 = k
        BY <3>1
    <3>3. \A i \in k .. k : i = k
        BY <3>1
    <3>4. QED BY <2>1, <3>1, <3>2, <3>3
  <2>5. {k \in 0 .. n - 1 : IsFull(list[k])} =
          {k \in SetBits : LET first == 0 + k * MemberSize[0]
                           IN  \A i \in first .. first + MemberSize[0] - 1 :
                                 i \in DOMAIN list /\ IsFull(list[i])}
    <3>1. \A k \in 0 .. n - 1 : k \in SetBits
        BY <2>2, Consts DEF SetBits
    <3>2. QED BY <2>4, <3>1
  <2>6. ASSUME NEW m \in 0 .. nest_level, NEW b \in DOMAIN list, FirstOfSet(b, m) + m = b
        PROVE  m = 0 /\ b = 0 /\ FirstOfSet(b, m) = 0
    <3>1. m = 0 /\ b \in 0 .. n - 1
        BY <2>1
    <3>2. QED BY <2>3, <2>6, <3>1
  <2>7. QED BY <2>2, <2>5, <2>6 DEF SummariesAreExact
<1>2. Small
    BY DEF Small
<1>3. QED BY <1>1, <1>2, ListInvariance, PTL

(* CIBListGetFreeSpot never gives out an id that is in use: two entries never share
   their place. *)
THEOREM EveryIdIsNew ==
    ASSUME MaxListBlocks <= IntBits, MaxListBlocks < SetSize
    PROVE  Spec => IdsAreFresh
<1>1. Small
    BY DEF Small
<1>2. ASSUME IInv, [Next]_vars PROVE [GetFreeSpot => inUse' # inUse]_vars
    BY <1>1, <1>2, GetFreeSpotInv
<1>3. QED BY <1>1, <1>2, ListInvariance, PTL DEF IdsAreFresh, Spec

(* CIBListGetFreeSpot asks for another list block only when all entries are in use. *)
THEOREM ListGrowsOnlyWhenFull ==
    ASSUME MaxListBlocks <= IntBits, MaxListBlocks < SetSize
    PROVE  Spec => GrowsOnlyWhenFull
<1>1. Small
    BY DEF Small
<1>2. ASSUME IInv, [Next]_vars
      PROVE  [ListBlocks(list') > ListBlocks(list) => \A b \in DOMAIN list : IsFull(list[b])]_vars
  <2>1. CASE GetFreeSpot
      BY <1>1, <1>2, <2>1, GetFreeSpotInv
  <2>2. ASSUME NEW id \in inUse, FreeEntry(id)
        PROVE  ~(ListBlocks(list') > ListBlocks(list))
    <3>1. ListBlocks(list') = ListBlocks(list) /\ ListBlocks(list) \in Nat
        BY <1>1, <1>2, <2>2, FreeEntryInv, InvFacts
    <3>2. QED BY <3>1
  <2>3. QED BY <1>2, <2>1, <2>2 DEF Next
<1>3. QED BY <1>1, <1>2, ListInvariance, PTL DEF GrowsOnlyWhenFull, Spec
===============================================================================
