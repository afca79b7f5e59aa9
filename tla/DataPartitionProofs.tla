-------------------------- MODULE DataPartitionProofs --------------------------
(***************************************************************************)
(* Theorems about DataPartition, for partitions of any size, any files and *)
(* any sequence of commands, as long as the free chunks fit in the sorted  *)
(* array of the free list.                                                 *)
(*                                                                         *)
(* The invariant, Sound, says that the chunks of the files and of the free *)
(* list tile the partition, that the tags at both ends of each are right,  *)
(* that free chunks are no neighbours, and that the blocks of a file hold  *)
(* its bytes.  A command breaks it: a chunk is taken off the free list,    *)
(* joined, cut and written before it belongs to somebody again.  Pending   *)
(* is the invariant with a set of chunks in transit, and each function of  *)
(* the code has a lemma that says what it makes of Pending.                *)
(***************************************************************************)
EXTENDS DataPartition, FiniteSetTheorems, SequenceTheorems, InductionLemmas

-------------------------------------------------------------------------------
(***************************************************************************)
(* The sorted array of the free list.                                      *)
(***************************************************************************)

(* The entries of the array. *)
Chunks == [chunk : BlockIds, count : BlockIds \ {0}]

(* The sorted array of the free list: biggest chunk first, no chunk twice. *)
IsArray(a) ==
    /\ a \in Seq(Chunks)
    /\ \A i, j \in 1 .. Len(a) : i < j => a[i].count >= a[j].count
    /\ \A i, j \in 1 .. Len(a) : a[i].chunk = a[j].chunk => i = j

(* The least of some indices. *)
LEMMA LeastIndex ==
    ASSUME NEW I, I \subseteq Nat, I # {}
    PROVE  Min(I) \in I /\ \A i \in I : Min(I) <= i
BY LeastNumber DEF Min

(* The numbers of blocks. *)
LEMMA Numbers ==
    /\ MaxDataBlocks \in Nat /\ MaxDataBlocks > 0
    /\ BlockIds = 0 .. MaxDataBlocks /\ BlockIds \subseteq Nat
    /\ 0 \in BlockIds /\ 1 \in BlockIds
BY DataPartitionAssumption DEF BlockIds

(* The entries of an array. *)
LEMMA ArrayElements ==
    ASSUME NEW a, IsArray(a)
    PROVE  /\ Len(a) \in Nat /\ DOMAIN a = 1 .. Len(a)
           /\ \A i \in 1 .. Len(a) : a[i] \in Chunks
           /\ ToSet(a) = {a[i] : i \in 1 .. Len(a)}
BY LenProperties, ElementOfSeq DEF IsArray, ToSet

(* Taking an entry out leaves an array of the others. *)
LEMMA RemovedEntry ==
    ASSUME NEW a, IsArray(a), NEW k \in 1 .. Len(a)
    PROVE  /\ IsArray(RemoveAt(a, k))
           /\ Len(RemoveAt(a, k)) = Len(a) - 1
           /\ ToSet(RemoveAt(a, k)) = ToSet(a) \ {a[k]}
<1> DEFINE n == Len(a)
           l == SubSeq(a, 1, k - 1)
           r == SubSeq(a, k + 1, n)
           s == RemoveAt(a, k)
<1>1. n \in Nat /\ k \in 1 .. n /\ a \in Seq(Chunks) /\ \A i \in 1 .. n : a[i] \in Chunks
    BY ArrayElements DEF IsArray
<1>2. l \in Seq(Chunks) /\ Len(l) = k - 1 /\ \A i \in 1 .. k - 1 : l[i] = a[i]
    BY <1>1, SubSeqProperties
<1>3. r \in Seq(Chunks) /\ Len(r) = n - k /\ \A i \in 1 .. n - k : r[i] = a[i + k]
    BY <1>1, SubSeqProperties
<1>4. s = l \o r
    BY DEF RemoveAt
<1> HIDE DEF n, l, r
<1>5. /\ s \in Seq(Chunks) /\ Len(s) = Len(l) + Len(r)
      /\ \A i \in 1 .. Len(l) + Len(r) :
            s[i] = IF i <= Len(l) THEN l[i] ELSE r[i - Len(l)]
    BY <1>2, <1>3, <1>4, ConcatProperties
<1> HIDE DEF s
<1>6. Len(s) = n - 1
    BY <1>1, <1>2, <1>3, <1>5
<1>7. \A i \in 1 .. n - 1 : s[i] = IF i < k THEN a[i] ELSE a[i + 1]
  <2>1. ASSUME NEW i \in 1 .. n - 1, i < k PROVE s[i] = a[i]
      BY <1>1, <1>2, <1>3, <1>5, <2>1
  <2>2. ASSUME NEW i \in 1 .. n - 1, ~(i < k) PROVE s[i] = a[i + 1]
    <3>1. i - Len(l) \in 1 .. n - k /\ (i - Len(l)) + k = i + 1
        BY <1>1, <1>2, <2>2
    <3>2. QED BY <1>1, <1>2, <1>3, <1>5, <2>2, <3>1
  <2>3. QED BY <2>1, <2>2
<1>8. IsArray(s)
  <2>1. ASSUME NEW i \in 1 .. Len(s), NEW j \in 1 .. Len(s), i < j
        PROVE  s[i].count >= s[j].count
      BY <1>1, <1>6, <1>7, <2>1 DEF IsArray, n
  <2>2. ASSUME NEW i \in 1 .. Len(s), NEW j \in 1 .. Len(s), s[i].chunk = s[j].chunk
        PROVE  i = j
      BY <1>1, <1>6, <1>7, <2>2 DEF IsArray, n
  <2>3. QED BY <1>5, <2>1, <2>2 DEF IsArray
<1>9. \A i \in 1 .. n - 1 : s[i] \in ToSet(a) /\ s[i] # a[k]
    BY <1>1, <1>7, ArrayElements DEF IsArray, n
<1>10. \A i \in 1 .. n : i # k => a[i] \in ToSet(s)
  <2>1. ASSUME NEW i \in 1 .. n, i # k PROVE \E j \in 1 .. n - 1 : s[j] = a[i]
    <3>1. CASE i < k
        BY <1>1, <1>7, <3>1
    <3>2. CASE i > k
      <4>1. i - 1 \in 1 .. n - 1 /\ ~(i - 1 < k) /\ (i - 1) + 1 = i
          BY <1>1, <3>2
      <4>2. QED BY <1>7, <4>1
    <3>3. QED BY <1>1, <2>1, <3>1, <3>2
  <2>2. QED BY <2>1, <1>6, <1>8, ArrayElements
<1>11. ToSet(s) = {s[i] : i \in 1 .. n - 1} /\ ToSet(a) = {a[i] : i \in 1 .. n}
    BY <1>6, <1>8, ArrayElements DEF n
<1>12. ToSet(s) = ToSet(a) \ {a[k]}
    BY <1>9, <1>10, <1>11
<1>13. QED BY <1>6, <1>8, <1>12 DEF s, n

(* At position k an entry has larger ones before it and smaller ones after it, and s
   is the array with the entry there. *)
Belongs(a, k, e) ==
    /\ k \in 1 .. Len(a) + 1
    /\ \A i \in 1 .. Len(a) : i < k => a[i].count >= e.count
    /\ \A i \in 1 .. Len(a) : ~(i < k) => e.count >= a[i].count
    /\ \A i \in 1 .. Len(a) : a[i].chunk # e.chunk

HasAt(s, a, k, e) ==
    /\ s \in Seq(Chunks)
    /\ Len(s) = Len(a) + 1
    /\ \A i \in 1 .. Len(a) + 1 :
         s[i] = IF i < k THEN a[i] ELSE IF i = k THEN e ELSE a[i - 1]

(* Putting an entry where it belongs makes an array with that entry. *)
LEMMA InsertedEntry ==
    ASSUME NEW a, IsArray(a), NEW k, NEW e \in Chunks, Belongs(a, k, e),
           NEW s, HasAt(s, a, k, e)
    PROVE  IsArray(s) /\ ToSet(s) = ToSet(a) \cup {e}
<1> DEFINE n == Len(a)
<1>1. n \in Nat /\ k \in 1 .. n + 1 /\ \A i \in 1 .. n : a[i] \in Chunks
    BY ArrayElements DEF Belongs
<1>2. /\ \A i, j \in 1 .. n : i < j => a[i].count >= a[j].count
      /\ \A i, j \in 1 .. n : a[i].chunk = a[j].chunk => i = j
    BY DEF IsArray
<1>3. s \in Seq(Chunks) /\ Len(s) = n + 1
    BY DEF HasAt
<1>4. \A i \in 1 .. n : a[i].count \in Nat /\ e.count \in Nat
    BY <1>1, Numbers DEF Chunks
<1> HIDE DEF n
<1>5. ASSUME NEW i \in 1 .. n + 1
      PROVE  \/ i < k /\ i \in 1 .. n /\ s[i] = a[i]
             \/ i = k /\ s[i] = e
             \/ i > k /\ i - 1 \in 1 .. n /\ ~(i - 1 < k) /\ s[i] = a[i - 1]
    BY <1>1 DEF n, HasAt
<1>6. ASSUME NEW i \in 1 .. n + 1, NEW j \in 1 .. n + 1, i < j
      PROVE  s[i].count >= s[j].count
  <2>1. CASE i < k /\ j < k
      BY <1>1, <1>2, <1>5, <1>6, <2>1
  <2>2. CASE i < k /\ j = k
      BY <1>1, <1>5, <1>6, <2>2 DEF n, Belongs
  <2>3. CASE i < k /\ j > k
    <3>1. i < j - 1
        BY <1>1, <2>3
    <3>2. QED BY <1>1, <1>2, <1>5, <2>3, <3>1
  <2>4. CASE i = k /\ j > k
      BY <1>1, <1>5, <1>6, <2>4 DEF n, Belongs
  <2>5. CASE i > k /\ j > k
    <3>1. i - 1 < j - 1
        BY <1>1, <1>6
    <3>2. QED BY <1>1, <1>2, <1>5, <2>5, <3>1
  <2>6. QED BY <1>1, <1>6, <2>1, <2>2, <2>3, <2>4, <2>5
<1>7. ASSUME NEW i \in 1 .. n + 1, NEW j \in 1 .. n + 1, s[i].chunk = s[j].chunk
      PROVE  i = j
  <2>1. CASE i = k
    <3>1. s[j].chunk = e.chunk
        BY <1>5, <1>7, <2>1
    <3>2. \A x \in 1 .. n : a[x].chunk # e.chunk
        BY DEF n, Belongs
    <3>3. QED BY <1>5, <2>1, <3>1, <3>2
  <2>2. CASE j = k
    <3>1. s[i].chunk = e.chunk
        BY <1>5, <1>7, <2>2
    <3>2. \A x \in 1 .. n : a[x].chunk # e.chunk
        BY DEF n, Belongs
    <3>3. QED BY <1>5, <2>2, <3>1, <3>2
  <2>3. CASE i < k /\ j < k
      BY <1>2, <1>5, <1>7, <2>3
  <2>4. CASE i < k /\ j > k
    <3>1. s[i] = a[i] /\ s[j] = a[j - 1] /\ i \in 1 .. n /\ j - 1 \in 1 .. n
        BY <1>1, <1>5, <2>4
    <3>2. i = j - 1
        BY <1>2, <1>7, <3>1
    <3>3. QED BY <1>1, <2>4, <3>2
  <2>5. CASE i > k /\ j < k
    <3>1. s[i] = a[i - 1] /\ s[j] = a[j] /\ i - 1 \in 1 .. n /\ j \in 1 .. n
        BY <1>1, <1>5, <2>5
    <3>2. j = i - 1
        BY <1>2, <1>7, <3>1
    <3>3. QED BY <1>1, <2>5, <3>2
  <2>6. CASE i > k /\ j > k
    <3>1. s[i] = a[i - 1] /\ s[j] = a[j - 1] /\ i - 1 \in 1 .. n /\ j - 1 \in 1 .. n
        BY <1>1, <1>5, <2>6
    <3>2. i - 1 = j - 1
        BY <1>2, <1>7, <3>1
    <3>3. QED BY <1>1, <3>2
  <2>7. QED BY <1>1, <2>1, <2>2, <2>3, <2>4, <2>5, <2>6
<1>8. IsArray(s)
    BY <1>3, <1>6, <1>7 DEF IsArray
<1>9. ToSet(s) = {s[i] : i \in 1 .. n + 1} /\ ToSet(a) = {a[i] : i \in 1 .. n}
    BY <1>3, <1>8, ArrayElements DEF n
<1>10. \A i \in 1 .. n + 1 : s[i] \in ToSet(a) \cup {e}
    BY <1>5, <1>9
<1>11. ASSUME NEW i \in 1 .. n PROVE \E j \in 1 .. n + 1 : s[j] = a[i]
  <2>1. CASE i < k
      BY <1>1, <1>5, <2>1
  <2>2. CASE ~(i < k)
    <3>1. i + 1 \in 1 .. n + 1 /\ i + 1 > k /\ (i + 1) - 1 = i
        BY <1>1, <2>2
    <3>2. QED BY <1>1, <1>5, <3>1
  <2>3. QED BY <2>1, <2>2
<1>12. s[k] = e
    BY <1>1, <1>5
<1>13. e \in ToSet(s) /\ \A c \in ToSet(a) : c \in ToSet(s)
    BY <1>1, <1>9, <1>11, <1>12
<1>14. \A c \in ToSet(s) : c \in ToSet(a) \cup {e}
    BY <1>9, <1>10
<1>15. ToSet(s) = ToSet(a) \cup {e}
    BY <1>13, <1>14
<1>16. QED BY <1>8, <1>15

(* What InsertAt makes of a sequence of chunks. *)
LEMMA InsertAtPosition ==
    ASSUME NEW a, a \in Seq(Chunks), NEW k \in 1 .. Len(a), NEW e \in Chunks
    PROVE  HasAt(InsertAt(a, k, e), a, k, e)
<1> DEFINE n == Len(a)
           l == SubSeq(a, 1, k - 1)
           r == SubSeq(a, k, n)
           m == l \o <<e>>
           s == InsertAt(a, k, e)
<1>1. n \in Nat /\ k \in 1 .. n /\ \A i \in 1 .. n : a[i] \in Chunks
    BY LenProperties, ElementOfSeq
<1>2. l \in Seq(Chunks) /\ Len(l) = k - 1 /\ \A i \in 1 .. k - 1 : l[i] = a[i]
    BY <1>1, SubSeqProperties
<1>3. r \in Seq(Chunks) /\ Len(r) = (n - k) + 1 /\ \A i \in 1 .. (n - k) + 1 : r[i] = a[(k + i) - 1]
    BY <1>1, SubSeqProperties
<1>4. s = m \o r
    BY DEF InsertAt
<1>5. <<e>> \in Seq(Chunks) /\ Len(<<e>>) = 1 /\ <<e>>[1] = e
    OBVIOUS
<1> HIDE DEF n, l, r
<1>6. m \in Seq(Chunks) /\ Len(m) = k /\ m[k] = e /\ \A i \in 1 .. k - 1 : m[i] = a[i]
  <2> DEFINE one == <<e>>
  <2>1. one \in Seq(Chunks) /\ Len(one) = 1 /\ one[1] = e /\ m = l \o one
      BY <1>5
  <2> HIDE DEF one, m
  <2>2. /\ m \in Seq(Chunks) /\ Len(m) = Len(l) + Len(one)
        /\ \A i \in 1 .. Len(l) + Len(one) :
             m[i] = IF i <= Len(l) THEN l[i] ELSE one[i - Len(l)]
      BY <1>2, <2>1, ConcatProperties
  <2>3. Len(m) = k /\ k - Len(l) = 1
      BY <1>1, <1>2, <2>1, <2>2
  <2>4. m[k] = e
      BY <1>1, <1>2, <2>1, <2>2, <2>3
  <2>5. \A i \in 1 .. k - 1 : m[i] = a[i]
      BY <1>1, <1>2, <2>1, <2>2
  <2>6. QED BY <2>2, <2>3, <2>4, <2>5
<1> HIDE DEF m, s
<1>7. /\ s \in Seq(Chunks) /\ Len(s) = Len(m) + Len(r)
      /\ \A i \in 1 .. Len(m) + Len(r) :
            s[i] = IF i <= Len(m) THEN m[i] ELSE r[i - Len(m)]
    BY <1>3, <1>4, <1>6, ConcatProperties
<1>8. Len(s) = n + 1
    BY <1>1, <1>3, <1>6, <1>7
<1>9. ASSUME NEW i \in 1 .. n + 1
      PROVE  s[i] = IF i < k THEN a[i] ELSE IF i = k THEN e ELSE a[i - 1]
  <2>1. CASE i <= k
      BY <1>1, <1>3, <1>6, <1>7, <2>1
  <2>2. CASE i > k
    <3>1. i - k \in 1 .. (n - k) + 1 /\ (k + (i - k)) - 1 = i - 1
        BY <1>1, <2>2
    <3>2. s[i] = r[i - k]
        BY <1>1, <1>3, <1>6, <1>7, <2>2
    <3>3. r[i - k] = a[i - 1]
        BY <1>3, <3>1
    <3>4. QED BY <1>1, <2>2, <3>2, <3>3
  <2>3. QED BY <1>1, <2>1, <2>2
<1>10. QED BY <1>7, <1>8, <1>9 DEF s, n, HasAt

(* The types of the partition while nothing has overflowed into the linked list. *)
BlockType ==
    [used : {0, 1}, next_flag : {0, 1}, previous_flag : {0, 1},
     block_count : BlockIds, previous_block : BlockIds \cup Sizes,
     next_block : BlockIds, last8 : BlockIds, data : Paths \cup {NoData},
     zeroed : {0, 1}]

(* The partition as long as the linked list is not in use. *)
PartitionType ==
    [size : 1 .. MaxDataBlocks, block : [BlockIds -> BlockType], array : Seq(Chunks),
     list_head : BlockIds, list_flag : {0}]

(* The first index with some property, as the searches of the code return it: 0 if
   there is none. *)
LEMMA FirstInArray ==
    ASSUME NEW a, IsArray(a), NEW I, I \subseteq 1 .. Len(a)
    PROVE  /\ I = {} => (IF I # {} THEN Min(I) ELSE 0) = 0
           /\ I # {} => /\ (IF I # {} THEN Min(I) ELSE 0) \in I
                        /\ (IF I # {} THEN Min(I) ELSE 0) # 0
                        /\ \A i \in I : (IF I # {} THEN Min(I) ELSE 0) <= i
<1>1. I \subseteq Nat /\ 0 \notin I
    OBVIOUS
<1>2. QED BY <1>1, LeastIndex

(* The array of an empty free list. *)
LEMMA EmptyArray == IsArray(<<>>) /\ Len(<<>>) = 0 /\ ToSet(<<>>) = {}
<1>1. <<>> \in Seq(Chunks) /\ Len(<<>>) = 0
    BY EmptySeq
<1>2. IsArray(<<>>)
    BY <1>1 DEF IsArray
<1>3. QED BY <1>1, <1>2, ArrayElements

(* DFreeListRemoveChunk takes a listed chunk out of the array and changes nothing else. *)
LEMMA RemoveChunkRemoves ==
    ASSUME NEW p \in PartitionType, IsArray(p.array), NEW c \in ToSet(p.array)
    PROVE  \E a : /\ RemoveChunk(p, c.chunk) = [p EXCEPT !.array = a]
                  /\ IsArray(a) /\ Len(a) = Len(p.array) - 1
                  /\ ToSet(a) = ToSet(p.array) \ {c}
<1> DEFINE n == Len(p.array)
           I == {i \in 1 .. Len(p.array) : p.array[i].chunk = c.chunk}
           index == SelectInSeq(p.array, LAMBDA e : e.chunk = c.chunk)
<1>1. PICK k \in 1 .. Len(p.array) : p.array[k] = c
    BY ArrayElements
<1>2. I = {k}
    BY <1>1 DEF IsArray
<1>3. index = IF I # {} THEN Min(I) ELSE 0
    BY DEF SelectInSeq
<1>4. index = k
    BY <1>2, <1>3, FirstInArray
<1> HIDE DEF index
<1>5. Len(p.array) \in Nat /\ k # 0
    BY ArrayElements
<1>6. p.list_flag = 0
    BY DEF PartitionType
<1>7. CASE Len(p.array) > 1
  <2>1. RemoveChunk(p, c.chunk) = [p EXCEPT !.array = RemoveAt(p.array, k)]
      BY <1>4, <1>5, <1>6, <1>7 DEF RemoveChunk, index
  <2>2. QED BY <1>1, <2>1, RemovedEntry
<1>8. CASE Len(p.array) <= 1
  <2>1. n = 1
    <3>1. n \in Nat /\ k \in 1 .. n /\ n <= 1
        BY <1>1, <1>5, <1>8
    <3> HIDE DEF n
    <3>2. QED BY <3>1
  <2>2. RemoveChunk(p, c.chunk) = [p EXCEPT !.array = <<>>]
      BY <1>8, <1>5 DEF RemoveChunk
  <2>3. ToSet(p.array) = {c}
      BY <1>1, <2>1, ArrayElements
  <2>4. PICK a : a = <<>>
      OBVIOUS
  <2>5. IsArray(a) /\ Len(a) = 0 /\ ToSet(a) = {}
      BY <2>4, EmptyArray
  <2>6. RemoveChunk(p, c.chunk) = [p EXCEPT !.array = a]
      BY <2>2, <2>4
  <2>7. Len(a) = Len(p.array) - 1 /\ ToSet(a) = ToSet(p.array) \ {c}
      BY <2>1, <2>3, <2>5
  <2>8. QED BY <2>5, <2>6, <2>7
<1>9. Len(p.array) > 1 \/ Len(p.array) <= 1
  <2>1. n \in Nat
      BY <1>5
  <2> HIDE DEF n
  <2>2. n > 1 \/ n <= 1
      BY <2>1
  <2>3. QED BY <2>2 DEF n
<1>10. QED BY <1>7, <1>8, <1>9

(* DFreeListInsertChunk lists the chunk where it belongs, while the array has room. *)
LEMMA InsertChunkInserts ==
    ASSUME NEW p \in PartitionType, IsArray(p.array), Len(p.array) < MD_FREE_LIST_ENTRIES,
           NEW start \in BlockIds, NEW count \in BlockIds \ {0},
           \A c \in ToSet(p.array) : c.chunk # start
    PROVE  \E a : /\ InsertChunk(p, start, count) =
                        [FreeChunkInit(p, start, count) EXCEPT !.array = a]
                  /\ IsArray(a) /\ Len(a) = Len(p.array) + 1
                  /\ ToSet(a) = ToSet(p.array) \cup {Entry(start, count)}
<1> DEFINE e == Entry(start, count)
           q == FreeChunkInit(p, start, count)
           n == Len(p.array)
           I == {i \in 1 .. n : count > p.array[i].count}
           index == SelectInSeq(p.array, LAMBDA x : count > x.count)
<1>1. e \in Chunks /\ e.chunk = start /\ e.count = count
    BY DEF Entry, Chunks
<1>2. q.array = p.array
    BY DEF FreeChunkInit, PartitionType
<1>3. ArrayIndex(q, count) = index
    BY <1>2 DEF ArrayIndex
<1>4. index = IF I # {} THEN Min(I) ELSE 0
    BY DEF SelectInSeq
<1>5. /\ I = {} => index = 0
      /\ I # {} => index \in I /\ index # 0 /\ \A i \in I : index <= i
    BY <1>4, FirstInArray
<1> HIDE DEF index, q, e
<1>6. n \in Nat /\ n # MD_FREE_LIST_ENTRIES /\ count \in Nat
    BY DataPartitionAssumption, Numbers, ArrayElements
<1>7. \A i \in 1 .. n : p.array[i].count \in Nat /\ p.array[i].chunk # start
    BY ArrayElements, Numbers DEF Chunks
<1>8. CASE I = {}
  <2> DEFINE a == Append(p.array, e)
  <2>1. InsertChunk(p, start, count) = [q EXCEPT !.array = Append(q.array, e)]
      BY <1>2, <1>3, <1>5, <1>6, <1>8 DEF InsertChunk, q, e
  <2>2. /\ a \in Seq(Chunks) /\ Len(a) = n + 1
        /\ \A i \in 1 .. n : a[i] = p.array[i]
        /\ a[n + 1] = e
      BY <1>1, AppendProperties DEF IsArray
  <2>3. \A i \in 1 .. n : p.array[i].count >= e.count
      BY <1>1, <1>6, <1>7, <1>8
  <2> HIDE DEF a
  <2>4. n + 1 \in 1 .. n + 1 /\ \A i \in 1 .. n : i < n + 1
      BY <1>6
  <2>5. HasAt(a, p.array, n + 1, e)
      BY <1>6, <2>2 DEF HasAt
  <2>6. Belongs(p.array, n + 1, e)
      BY <1>1, <1>7, <2>3, <2>4 DEF Belongs
  <2>8. IsArray(a) /\ ToSet(a) = ToSet(p.array) \cup {e}
      BY <1>1, <2>5, <2>6, InsertedEntry
  <2>7. QED BY <1>2, <2>1, <2>2, <2>8 DEF a, q, e
<1>9. CASE I # {}
  <2> DEFINE a == InsertAt(p.array, index, e)
  <2>1. InsertChunk(p, start, count) = [q EXCEPT !.array = InsertAt(q.array, index, e)]
      BY <1>2, <1>3, <1>5, <1>6, <1>9 DEF InsertChunk, q, e
  <2>2. index \in 1 .. n /\ count > p.array[index].count /\ \A i \in I : index <= i
      BY <1>5, <1>9
  <2>3. HasAt(a, p.array, index, e)
      BY <1>1, <2>2, InsertAtPosition DEF IsArray
  <2> HIDE DEF a
  <2>4. \A i \in 1 .. n : i < index => p.array[i].count >= e.count
      BY <1>1, <1>6, <1>7, <2>2
  <2>5. ASSUME NEW i \in 1 .. n, ~(i < index) PROVE e.count >= p.array[i].count
    <3>1. i = index \/ p.array[index].count >= p.array[i].count
        BY <1>6, <2>2, <2>5 DEF IsArray
    <3>2. QED BY <1>1, <1>6, <1>7, <2>2, <3>1
  <2>6. index \in 1 .. n + 1
      BY <1>6, <2>2
  <2>7. Belongs(p.array, index, e)
      BY <1>1, <1>7, <2>4, <2>5, <2>6 DEF Belongs
  <2>8. IsArray(a) /\ ToSet(a) = ToSet(p.array) \cup {e}
      BY <1>1, <2>3, <2>7, InsertedEntry
  <2>9. Len(a) = n + 1
      BY <2>3 DEF HasAt
  <2>10. QED BY <1>2, <2>1, <2>8, <2>9 DEF a, q, e
<1>10. QED BY <1>8, <1>9

-------------------------------------------------------------------------------
(***************************************************************************)
(* Tilings.                                                                *)
(***************************************************************************)

(* A block is in a chunk; two chunks have no block in common. *)
InChunk(c, b) == c.chunk <= b /\ b < c.chunk + c.count
Apart(c, e)   == c.chunk + c.count <= e.chunk \/ e.chunk + e.count <= c.chunk

(* Chunks that share out the blocks 1 .. size - 1. *)
Tiles(size, S) ==
    /\ \A c \in S : /\ c \in [chunk : Nat \ {0}, count : Nat \ {0}]
                    /\ c.chunk + c.count <= size
    /\ \A b \in 1 .. size - 1 : \E c \in S : InChunk(c, b)
    /\ \A c, e \in S : c # e => Apart(c, e)

(* The fields of an entry. *)
LEMMA EntryFields ==
    ASSUME NEW b \in Nat \ {0}, NEW n \in Nat \ {0}
    PROVE  /\ Entry(b, n) \in [chunk : Nat \ {0}, count : Nat \ {0}]
           /\ Entry(b, n).chunk = b /\ Entry(b, n).count = n
BY DEF Entry

(* Two chunks of a tiling with a block in common, for instance their first or their
   last, are one. *)
LEMMA OneChunkPerBlock ==
    ASSUME NEW size \in Nat, NEW S, Tiles(size, S), NEW c \in S, NEW e \in S,
           NEW b \in Nat, InChunk(c, b), InChunk(e, b)
    PROVE  c = e
<1>1. ~Apart(c, e)
  <2>1. c.chunk \in Nat /\ c.count \in Nat /\ e.chunk \in Nat /\ e.count \in Nat
      BY DEF Tiles
  <2>2. QED BY <2>1 DEF Apart, InChunk
<1>2. QED BY <1>1 DEF Tiles

(* The first and the last block of a chunk are in it. *)
LEMMA EndsAreInside ==
    ASSUME NEW c \in [chunk : Nat \ {0}, count : Nat \ {0}]
    PROVE  InChunk(c, c.chunk) /\ InChunk(c, (c.chunk + c.count) - 1)
BY DEF InChunk

(* Behind a chunk that is not the last one another chunk begins. *)
LEMMA NextChunk ==
    ASSUME NEW size \in Nat, NEW S, Tiles(size, S), NEW c \in S, c.chunk + c.count < size
    PROVE  \E e \in S : e.chunk = c.chunk + c.count
<1> DEFINE b == c.chunk + c.count
<1>1. c.chunk \in Nat \ {0} /\ c.count \in Nat \ {0}
    BY DEF Tiles
<1>2. b \in 1 .. size - 1 /\ b - 1 \in Nat /\ InChunk(c, b - 1) /\ ~InChunk(c, b)
    BY <1>1 DEF InChunk
<1>3. PICK e \in S : InChunk(e, b)
    BY <1>2 DEF Tiles
<1>4. e # c
    BY <1>2, <1>3
<1>5. ~InChunk(e, b - 1)
    BY <1>2, <1>4, OneChunkPerBlock
<1>6. e.chunk \in Nat /\ e.count \in Nat
    BY DEF Tiles
<1>7. e.chunk = b
  <2>1. b \in Nat
      BY <1>2
  <2> HIDE DEF b
  <2>2. QED BY <2>1, <1>1, <1>3, <1>5, <1>6 DEF InChunk
<1>8. QED BY <1>7

(* In front of a chunk that is not the first one another chunk ends. *)
LEMMA PreviousChunk ==
    ASSUME NEW size \in Nat, NEW S, Tiles(size, S), NEW c \in S, c.chunk > 1
    PROVE  \E e \in S : e.chunk + e.count = c.chunk
<1> DEFINE b == c.chunk - 1
<1>1. c.chunk \in Nat \ {0} /\ c.count \in Nat \ {0} /\ c.chunk + c.count <= size
    BY DEF Tiles
<1>2. b \in 1 .. size - 1 /\ b + 1 \in Nat /\ InChunk(c, b + 1) /\ ~InChunk(c, b)
    BY <1>1 DEF InChunk
<1>3. PICK e \in S : InChunk(e, b)
    BY <1>2 DEF Tiles
<1>4. e # c
    BY <1>2, <1>3
<1>5. ~InChunk(e, b + 1)
    BY <1>2, <1>4, OneChunkPerBlock
<1>6. e.chunk \in Nat /\ e.count \in Nat
    BY DEF Tiles
<1>7. e.chunk + e.count = c.chunk
    BY <1>1, <1>3, <1>5, <1>6 DEF InChunk
<1>8. QED BY <1>7

(* Two neighbours joined into one chunk leave a tiling. *)
LEMMA JoinTiles ==
    ASSUME NEW size \in Nat, NEW S, Tiles(size, S), NEW c \in S, NEW e \in S,
           c.chunk + c.count = e.chunk
    PROVE  Tiles(size, (S \ {c, e}) \cup {Entry(c.chunk, c.count + e.count)})
<1> DEFINE m == Entry(c.chunk, c.count + e.count)
           R == (S \ {c, e}) \cup {m}
<1>1. /\ \A x \in S : /\ x.chunk \in Nat \ {0} /\ x.count \in Nat \ {0}
                      /\ x \in [chunk : Nat \ {0}, count : Nat \ {0}]
                      /\ x.chunk + x.count <= size
      /\ \A b \in 1 .. size - 1 : \E x \in S : InChunk(x, b)
      /\ \A x, y \in S : x # y => Apart(x, y)
    BY DEF Tiles
<1>2. /\ m \in [chunk : Nat \ {0}, count : Nat \ {0}]
      /\ m.chunk = c.chunk /\ m.count = c.count + e.count
    BY <1>1, EntryFields
<1> HIDE DEF m
<1>3. m.chunk + m.count = e.chunk + e.count
    BY <1>1, <1>2
<1>4. \A x \in R : x \in [chunk : Nat \ {0}, count : Nat \ {0}] /\ x.chunk + x.count <= size
    BY <1>1, <1>2, <1>3
<1>5. ASSUME NEW b \in 1 .. size - 1 PROVE \E x \in R : InChunk(x, b)
  <2>1. PICK x \in S : InChunk(x, b)
      BY <1>1
  <2>2. CASE x = c \/ x = e
    <3>1. InChunk(m, b)
        BY <1>1, <1>2, <1>3, <2>1, <2>2 DEF InChunk
    <3>2. QED BY <3>1
  <2>3. QED BY <2>1, <2>2
<1>6. ASSUME NEW x \in S, x # c, x # e PROVE Apart(x, m) /\ Apart(m, x)
  <2>1. Apart(x, c) /\ Apart(x, e)
      BY <1>1, <1>6
  <2>2. QED BY <1>1, <1>2, <1>3, <2>1 DEF Apart
<1>7. \A x, y \in R : x # y => Apart(x, y)
    BY <1>1, <1>6
<1>8. QED BY <1>4, <1>5, <1>7 DEF Tiles, m

(* A chunk cut in two leaves a tiling. *)
LEMMA SplitTiles ==
    ASSUME NEW size \in Nat, NEW S, Tiles(size, S), NEW c \in S, NEW n \in Nat \ {0},
           n < c.count
    PROVE  Tiles(size, (S \ {c}) \cup {Entry(c.chunk, n), Entry(c.chunk + n, c.count - n)})
<1> DEFINE l == Entry(c.chunk, n)
           r == Entry(c.chunk + n, c.count - n)
           R == (S \ {c}) \cup {l, r}
<1>1. /\ \A x \in S : /\ x.chunk \in Nat \ {0} /\ x.count \in Nat \ {0}
                      /\ x \in [chunk : Nat \ {0}, count : Nat \ {0}]
                      /\ x.chunk + x.count <= size
      /\ \A b \in 1 .. size - 1 : \E x \in S : InChunk(x, b)
      /\ \A x, y \in S : x # y => Apart(x, y)
    BY DEF Tiles
<1>2. c.chunk + n \in Nat \ {0} /\ c.count - n \in Nat \ {0}
    BY <1>1
<1>3. /\ l \in [chunk : Nat \ {0}, count : Nat \ {0}]
      /\ l.chunk = c.chunk /\ l.count = n
      /\ r \in [chunk : Nat \ {0}, count : Nat \ {0}]
      /\ r.chunk = c.chunk + n /\ r.count = c.count - n
    BY <1>1, <1>2, EntryFields
<1> HIDE DEF l, r
<1>4. r.chunk + r.count = c.chunk + c.count /\ l.chunk + l.count = r.chunk
    BY <1>1, <1>3
<1>5. \A x \in R : x \in [chunk : Nat \ {0}, count : Nat \ {0}] /\ x.chunk + x.count <= size
    BY <1>1, <1>2, <1>3, <1>4
<1>6. ASSUME NEW b \in 1 .. size - 1 PROVE \E x \in R : InChunk(x, b)
  <2>1. PICK x \in S : InChunk(x, b)
      BY <1>1
  <2>2. CASE x = c
    <3>1. InChunk(l, b) \/ InChunk(r, b)
        BY <1>1, <1>3, <1>4, <2>1, <2>2 DEF InChunk
    <3>2. QED BY <3>1
  <2>3. QED BY <2>1, <2>2
<1>7. ASSUME NEW x \in S, x # c
      PROVE  Apart(x, l) /\ Apart(l, x) /\ Apart(x, r) /\ Apart(r, x)
  <2>1. Apart(x, c)
      BY <1>1, <1>7
  <2>2. QED BY <1>1, <1>3, <1>4, <2>1 DEF Apart
<1>8. Apart(l, r) /\ Apart(r, l)
    BY <1>4, <1>3 DEF Apart
<1>9. \A x, y \in R : x # y => Apart(x, y)
    BY <1>1, <1>7, <1>8
<1>10. QED BY <1>5, <1>6, <1>9 DEF Tiles, l, r

(* A tiling grows by a chunk at its end. *)
LEMMA ExtendTiles ==
    ASSUME NEW size \in Nat \ {0}, NEW S, Tiles(size, S), NEW n \in Nat \ {0}
    PROVE  Tiles(size + n, S \cup {Entry(size, n)})
<1> DEFINE e == Entry(size, n)
           R == S \cup {e}
<1>1. /\ \A x \in S : /\ x.chunk \in Nat \ {0} /\ x.count \in Nat \ {0}
                      /\ x \in [chunk : Nat \ {0}, count : Nat \ {0}]
                      /\ x.chunk + x.count <= size
      /\ \A b \in 1 .. size - 1 : \E x \in S : InChunk(x, b)
      /\ \A x, y \in S : x # y => Apart(x, y)
    BY DEF Tiles
<1>2. /\ e \in [chunk : Nat \ {0}, count : Nat \ {0}]
      /\ e.chunk = size /\ e.count = n
    BY EntryFields
<1> HIDE DEF e
<1>3. \A x \in S : x.chunk + x.count <= size + n
    BY <1>1
<1>4. ASSUME NEW b \in 1 .. (size + n) - 1 PROVE \E x \in R : InChunk(x, b)
  <2>1. CASE b \in 1 .. size - 1
      BY <1>1, <2>1
  <2>2. CASE b \notin 1 .. size - 1
    <3>1. InChunk(e, b)
        BY <1>2, <2>2 DEF InChunk
    <3>2. QED BY <3>1
  <2>3. QED BY <2>1, <2>2
<1>5. \A x \in S : Apart(x, e) /\ Apart(e, x)
    BY <1>1, <1>2 DEF Apart
<1>6. \A x, y \in R : x # y => Apart(x, y)
    BY <1>1, <1>5
<1>7. \A x \in R : x \in [chunk : Nat \ {0}, count : Nat \ {0}] /\ x.chunk + x.count <= size + n
    BY <1>1, <1>2, <1>3
<1>8. QED BY <1>4, <1>6, <1>7 DEF Tiles, e

(* Without its last chunk a tiling is one of fewer blocks. *)
LEMMA CutTiles ==
    ASSUME NEW size \in Nat, NEW S, Tiles(size, S), NEW c \in S, c.chunk + c.count = size
    PROVE  Tiles(c.chunk, S \ {c})
<1>1. /\ \A x \in S : /\ x.chunk \in Nat \ {0} /\ x.count \in Nat \ {0}
                      /\ x \in [chunk : Nat \ {0}, count : Nat \ {0}]
                      /\ x.chunk + x.count <= size
      /\ \A b \in 1 .. size - 1 : \E x \in S : InChunk(x, b)
      /\ \A x, y \in S : x # y => Apart(x, y)
    BY DEF Tiles
<1>2. ASSUME NEW x \in S, x # c PROVE x.chunk + x.count <= c.chunk
  <2>1. Apart(x, c)
      BY <1>1, <1>2
  <2>2. QED BY <1>1, <2>1 DEF Apart
<1>3. ASSUME NEW b \in 1 .. c.chunk - 1 PROVE \E x \in S \ {c} : InChunk(x, b)
  <2>1. b \in 1 .. size - 1 /\ ~InChunk(c, b)
      BY <1>1 DEF InChunk
  <2>2. QED BY <1>1, <2>1
<1>4. QED BY <1>1, <1>2, <1>3 DEF Tiles

(* The partition as a create makes it: one chunk, or none. *)
LEMMA FirstTile == ASSUME NEW n \in Nat \ {0} PROVE Tiles(n + 1, {Entry(1, n)})
BY EntryFields DEF Tiles, InChunk

LEMMA NoTiles == Tiles(1, {})
BY DEF Tiles

-------------------------------------------------------------------------------
(***************************************************************************)
(* The partition between two steps of a command.                           *)
(***************************************************************************)

(* What the header and the last eight bytes of a free chunk say. *)
FreeTags(blk, c) ==
    /\ blk[c.chunk].used = 0
    /\ blk[c.chunk].block_count = c.count
    /\ blk[(c.chunk + c.count) - 1].last8 = c.count

(* The chunk of a file. *)
ChunkOf(f) == Entry(f.block, RequiredBlocks(f.size))

(* What the header, the bytes and the last eight bytes of a file say. *)
FileTags(blk, q, f) ==
    /\ blk[f.block].used = 1
    /\ blk[f.block].block_count = RequiredBlocks(f.size)
    /\ blk[(f.block + RequiredBlocks(f.size)) - 1].last8 = RequiredBlocks(f.size)
    /\ blk[f.block].previous_block = f.size
    /\ (blk[f.block].next_flag = 1) = f.zipped
    /\ \A b \in f.block .. (f.block + OccupiedBlocks(f.size)) - 1 : blk[b].data = q

(* The partition, with an array and no linked list. *)
Typed(p) ==
    /\ p \in PartitionType
    /\ IsArray(p.array)
    /\ Len(p.array) <= MD_FREE_LIST_ENTRIES

(* What the directory entries may say. *)
AreFiles(files) ==
    /\ DOMAIN files \subseteq Paths
    /\ \A q \in DOMAIN files : files[q] \in [block : Nat \ {0}, size : Sizes, zipped : BOOLEAN]

(* The chunks of the files. *)
Owned(files) == {ChunkOf(files[q]) : q \in DOMAIN files}

(* The files, the free chunks S and the chunks M share out the blocks, and no two
   files have a block in common. *)
Shared(size, S, M, files) ==
    /\ Tiles(size, Owned(files) \cup S \cup M)
    /\ M \cap (Owned(files) \cup S) = {}
    /\ \A q, r \in DOMAIN files : files[q].block = files[r].block => q = r

(* The tags of all files and free chunks are right. *)
Tagged(p, files) ==
    /\ \A c \in ToSet(p.array) : FreeTags(p.block, c)
    /\ \A q \in DOMAIN files : FileTags(p.block, q, files[q])

(* No two free chunks are neighbours. *)
Merged(S) == \A c, e \in S : c.chunk + c.count # e.chunk

(* The partition holds the files and the free chunks its array lists, and chunks M
   that are on their way from the one to the other. *)
Pending(p, M, files) ==
    /\ Typed(p)
    /\ AreFiles(files)
    /\ Shared(p.size, ToSet(p.array), M, files)
    /\ Tagged(p, files)
    /\ Merged(ToSet(p.array))

(* No chunk is on its way: how every command leaves the partition. *)
Sound(p, files) == Pending(p, {}, files)

(* A file fits in the blocks that are requested for it. *)
LEMMA BlockNumbers ==
    ASSUME NEW n \in Sizes
    PROVE  /\ n \in Nat
           /\ RequiredBlocks(n) \in Nat \ {0}
           /\ OccupiedBlocks(n) \in Nat \ {0}
           /\ OccupiedBlocks(n) <= RequiredBlocks(n)
           /\ DataCaclulateNeededBlocks(n) \in Nat
<1>1. n \in Nat
    BY DataPartitionAssumption
<1>2. QED BY <1>1 DEF RequiredBlocks, OccupiedBlocks, DataCaclulateNeededBlocks,
                       DATA_BLOCK_SIZE, FILE_EXTRA_DATA

(* The chunk of a file that a directory entry points to. *)
LEMMA FileChunk ==
    ASSUME NEW files, AreFiles(files), NEW q \in DOMAIN files
    PROVE  /\ ChunkOf(files[q]) \in [chunk : Nat \ {0}, count : Nat \ {0}]
           /\ ChunkOf(files[q]).chunk = files[q].block
           /\ ChunkOf(files[q]).count = RequiredBlocks(files[q].size)
           /\ files[q].block \in Nat \ {0} /\ files[q].size \in Sizes /\ files[q].size \in Nat
           /\ files[q].zipped \in BOOLEAN
           /\ RequiredBlocks(files[q].size) \in Nat \ {0}
           /\ OccupiedBlocks(files[q].size) \in Nat \ {0}
           /\ OccupiedBlocks(files[q].size) <= RequiredBlocks(files[q].size)
<1>1. files[q].block \in Nat \ {0} /\ files[q].size \in Sizes /\ files[q].zipped \in BOOLEAN
    BY DEF AreFiles
<1>2. QED BY <1>1, BlockNumbers, EntryFields DEF ChunkOf

(* What has to do with a chunk is as it was when no block of the chunk was written. *)
SameIn(blk, new, c) == \A b \in BlockIds : InChunk(c, b) => new[b] = blk[b]

(* The tags of a free chunk with no block written are right as before. *)
LEMMA FreeTagsStay ==
    ASSUME NEW blk, NEW new, NEW c \in [chunk : Nat \ {0}, count : Nat \ {0}],
           c.chunk + c.count <= MaxDataBlocks, SameIn(blk, new, c), FreeTags(blk, c)
    PROVE  FreeTags(new, c)
<1>1. c.chunk \in BlockIds /\ (c.chunk + c.count) - 1 \in BlockIds
    BY Numbers
<1>2. new[c.chunk] = blk[c.chunk] /\ new[(c.chunk + c.count) - 1] = blk[(c.chunk + c.count) - 1]
    BY <1>1, EndsAreInside DEF SameIn
<1>3. QED BY <1>2 DEF FreeTags

(* So are the tags and the bytes of a file. *)
LEMMA FileTagsStay ==
    ASSUME NEW blk, NEW new, NEW files, AreFiles(files), NEW q \in DOMAIN files,
           files[q].block + RequiredBlocks(files[q].size) <= MaxDataBlocks,
           SameIn(blk, new, ChunkOf(files[q])), FileTags(blk, q, files[q])
    PROVE  FileTags(new, q, files[q])
<1> DEFINE f == files[q]
           n == RequiredBlocks(f.size)
           o == OccupiedBlocks(f.size)
           c == ChunkOf(f)
<1>1. /\ f.block \in Nat \ {0} /\ n \in Nat \ {0} /\ o \in Nat \ {0} /\ o <= n
      /\ f.block + n <= MaxDataBlocks
      /\ c \in [chunk : Nat \ {0}, count : Nat \ {0}] /\ c.chunk = f.block /\ c.count = n
    BY FileChunk
<1> HIDE DEF f, n, o, c
<1>2. f.block \in BlockIds /\ (f.block + n) - 1 \in BlockIds
    BY <1>1, Numbers
<1>3. new[f.block] = blk[f.block] /\ new[(f.block + n) - 1] = blk[(f.block + n) - 1]
    BY <1>1, <1>2, EndsAreInside DEF SameIn, c, f
<1>4. ASSUME NEW b \in f.block .. (f.block + o) - 1 PROVE new[b] = blk[b]
  <2>1. b \in BlockIds /\ f.block <= b /\ b < f.block + n
      BY <1>1, Numbers
  <2>2. InChunk(c, b)
      BY <1>1, <2>1 DEF InChunk
  <2>3. QED BY <2>1, <2>2 DEF SameIn, c, f
<1>5. QED BY <1>3, <1>4 DEF FileTags, f, n, o

(* Writes that stay inside a chunk in transit are seen by no other chunk. *)
LEMMA OthersUnwritten ==
    ASSUME NEW size \in Nat, NEW S, Tiles(size, S), NEW m \in S, NEW c \in S, c # m,
           NEW blk, NEW new, \A b \in BlockIds : ~InChunk(m, b) => new[b] = blk[b]
    PROVE  SameIn(blk, new, c)
BY OneChunkPerBlock, Numbers DEF SameIn

(* Chunks lie inside the partition. *)
LEMMA ChunkSizes ==
    ASSUME NEW p, NEW M, NEW files, Pending(p, M, files)
    PROVE  /\ p.size \in Nat \ {0} /\ p.size <= MaxDataBlocks
           /\ \A c \in Owned(files) \cup ToSet(p.array) \cup M :
                /\ c \in [chunk : Nat \ {0}, count : Nat \ {0}]
                /\ c.chunk \in Nat \ {0} /\ c.count \in Nat \ {0}
                /\ c.chunk + c.count <= p.size
                /\ c = Entry(c.chunk, c.count)
<1>1. p.size \in Nat \ {0} /\ p.size <= MaxDataBlocks
    BY Numbers DEF Pending, Typed, PartitionType
<1>2. \A c \in Owned(files) \cup ToSet(p.array) \cup M :
                /\ c \in [chunk : Nat \ {0}, count : Nat \ {0}]
                /\ c.chunk + c.count <= p.size
    BY DEF Pending, Shared, Tiles
<1>3. QED BY <1>1, <1>2 DEF Entry

(* Writing in a chunk in transit disturbs no file and no free chunk. *)
LEMMA TagsStay ==
    ASSUME NEW p, NEW M, NEW files, Pending(p, M, files), NEW m \in M,
           NEW new, \A b \in BlockIds : ~InChunk(m, b) => new[b] = p.block[b]
    PROVE  /\ \A c \in ToSet(p.array) : FreeTags(new, c)
           /\ \A q \in DOMAIN files : FileTags(new, q, files[q])
<1> DEFINE S == Owned(files) \cup ToSet(p.array) \cup M
<1>1. /\ p.size \in Nat /\ p.size <= MaxDataBlocks /\ MaxDataBlocks \in Nat
      /\ \A c \in Owned(files) \cup ToSet(p.array) :
            /\ c \in [chunk : Nat \ {0}, count : Nat \ {0}]
            /\ c.chunk + c.count <= MaxDataBlocks
  <2>1. \A c \in Owned(files) \cup ToSet(p.array) :
           c.chunk \in Nat /\ c.count \in Nat /\ c.chunk + c.count <= p.size
      BY ChunkSizes
  <2>2. p.size \in Nat /\ p.size <= MaxDataBlocks /\ MaxDataBlocks \in Nat
      BY ChunkSizes, Numbers
  <2>3. QED BY <2>1, <2>2, ChunkSizes
<1>2. Tiles(p.size, S) /\ \A c \in Owned(files) \cup ToSet(p.array) : c # m
    BY DEF Pending, Shared
<1>3. ASSUME NEW c \in Owned(files) \cup ToSet(p.array) PROVE SameIn(p.block, new, c)
    BY <1>1, <1>2, OthersUnwritten
<1>4. ASSUME NEW c \in ToSet(p.array) PROVE FreeTags(new, c)
  <2>1. c \in [chunk : Nat \ {0}, count : Nat \ {0}] /\ c.chunk + c.count <= MaxDataBlocks
      BY <1>1
  <2>2. FreeTags(p.block, c)
      BY DEF Pending, Tagged
  <2>3. QED BY <1>3, <2>1, <2>2, FreeTagsStay
<1>5. ASSUME NEW q \in DOMAIN files PROVE FileTags(new, q, files[q])
  <2>1. ChunkOf(files[q]) \in Owned(files)
      BY DEF Owned
  <2>2. FileTags(p.block, q, files[q]) /\ AreFiles(files)
      BY DEF Pending, Tagged
  <2>3. files[q].block + RequiredBlocks(files[q].size) <= MaxDataBlocks
      BY <1>1, <2>1, <2>2, FileChunk
  <2>4. QED BY <1>3, <2>1, <2>2, <2>3, FileTagsStay
<1>6. QED BY <1>4, <1>5

-------------------------------------------------------------------------------
(***************************************************************************)
(* The steps of a command: chunks leave the free list and come back to it. *)
(***************************************************************************)

(* A chunk the free list loses is on its way somewhere. *)
LEMMA UnlistedIsPending ==
    ASSUME NEW p, NEW M, NEW files, Pending(p, M, files), NEW c \in ToSet(p.array)
    PROVE  /\ Pending(RemoveChunk(p, c.chunk), M \cup {c}, files)
           /\ RemoveChunk(p, c.chunk).size = p.size
           /\ RemoveChunk(p, c.chunk).block = p.block
           /\ ToSet(RemoveChunk(p, c.chunk).array) = ToSet(p.array) \ {c}
           /\ Len(RemoveChunk(p, c.chunk).array) = Len(p.array) - 1
<1>1. p \in PartitionType /\ IsArray(p.array) /\ Len(p.array) <= MD_FREE_LIST_ENTRIES
    BY DEF Pending, Typed
<1>2. PICK a : /\ RemoveChunk(p, c.chunk) = [p EXCEPT !.array = a]
               /\ IsArray(a) /\ Len(a) = Len(p.array) - 1
               /\ ToSet(a) = ToSet(p.array) \ {c}
    BY <1>1, RemoveChunkRemoves
<1> DEFINE q == RemoveChunk(p, c.chunk)
<1>3. /\ q.size = p.size /\ q.block = p.block /\ q.array = a
      /\ q \in PartitionType
    BY <1>1, <1>2 DEF PartitionType, IsArray
<1> HIDE DEF q
<1>4. Typed(q)
  <2>1. Len(p.array) \in Nat /\ MD_FREE_LIST_ENTRIES \in Nat
      BY <1>1, ArrayElements, DataPartitionAssumption
  <2>2. Len(a) <= MD_FREE_LIST_ENTRIES
      BY <1>1, <1>2, <2>1
  <2>3. QED BY <1>2, <1>3, <2>2 DEF Typed
<1>5. \A x \in Owned(files) : x # c
  <2>1. ASSUME NEW r \in DOMAIN files PROVE ChunkOf(files[r]) # c
    <3>1. p.block[files[r].block].used = 1 /\ p.block[c.chunk].used = 0
        BY DEF Pending, Tagged, FileTags, FreeTags
    <3>2. ChunkOf(files[r]).chunk = files[r].block
        BY FileChunk DEF Pending
    <3>3. QED BY <3>1, <3>2
  <2>2. QED BY <2>1 DEF Owned
<1>6. Shared(q.size, ToSet(a), M \cup {c}, files)
  <2>1. Owned(files) \cup ToSet(a) \cup (M \cup {c}) = Owned(files) \cup ToSet(p.array) \cup M
      BY <1>2
  <2>2. (M \cup {c}) \cap (Owned(files) \cup ToSet(a)) = {}
      BY <1>2, <1>5 DEF Pending, Shared
  <2>3. QED BY <1>3, <2>1, <2>2 DEF Pending, Shared
<1>7. Tagged(q, files) /\ Merged(ToSet(a))
    BY <1>2, <1>3 DEF Pending, Tagged, Merged
<1>8. Pending(q, M \cup {c}, files)
    BY <1>3, <1>4, <1>6, <1>7 DEF Pending
<1>9. QED BY <1>2, <1>3, <1>8 DEF q

(* Writing one field of a block. *)
LEMMA BlockField ==
    ASSUME NEW r \in BlockType, NEW n \in BlockIds
    PROVE  /\ [r EXCEPT !.last8 = n] \in BlockType
           /\ [r EXCEPT !.last8 = n].last8 = n
           /\ [r EXCEPT !.last8 = n].used = r.used
           /\ [r EXCEPT !.last8 = n].block_count = r.block_count
BY DEF BlockType

(* DFreeChunkInit writes right tags, and only in its chunk. *)
LEMMA FreeChunkInitWrites ==
    ASSUME NEW p \in PartitionType, NEW m \in [chunk : Nat \ {0}, count : Nat \ {0}],
           m.chunk + m.count <= p.size
    PROVE  /\ FreeChunkInit(p, m.chunk, m.count) \in PartitionType
           /\ FreeChunkInit(p, m.chunk, m.count).size = p.size
           /\ FreeChunkInit(p, m.chunk, m.count).array = p.array
           /\ \A b \in BlockIds : ~InChunk(m, b) =>
                FreeChunkInit(p, m.chunk, m.count).block[b] = p.block[b]
           /\ FreeTags(FreeChunkInit(p, m.chunk, m.count).block, m)
<1> DEFINE q == FreeChunkInit(p, m.chunk, m.count)
           last == (m.chunk + m.count) - 1
           head == Cleared(m.count)
           init(b) == IF b = m.chunk THEN head ELSE p.block[b]
           full(b) == [init(b) EXCEPT !.last8 = m.count]
           new(b) == IF b = last THEN full(b) ELSE init(b)
<1>1. /\ p.size \in 1 .. MaxDataBlocks /\ p.block \in [BlockIds -> BlockType]
      /\ p.array \in Seq(Chunks) /\ p.list_head \in BlockIds /\ p.list_flag = 0
    BY DEF PartitionType
<1>2. /\ m.chunk \in Nat /\ m.count \in Nat /\ m.chunk \in BlockIds /\ m.count \in BlockIds
      /\ last \in Nat /\ last \in BlockIds /\ m.chunk <= last
    BY <1>1, Numbers
<1>3. head \in BlockType /\ head.used = 0 /\ head.block_count = m.count
    BY <1>2, Numbers DEF Cleared, BlankBlock, BlockType
<1> HIDE DEF head
<1>4. \A b \in BlockIds : init(b) \in BlockType
    BY <1>1, <1>3
<1>5. \A b \in BlockIds : /\ full(b) \in BlockType /\ full(b).last8 = m.count
                          /\ full(b).used = init(b).used
                          /\ full(b).block_count = init(b).block_count
  <2> HIDE DEF init
  <2>1. QED BY <1>2, <1>4, BlockField
<1>6. \A b \in BlockIds : new(b) \in BlockType
    BY <1>4, <1>5
<1>7. q = [p EXCEPT !.block = [b \in BlockIds |-> new(b)]]
    BY DEF FreeChunkInit, head
<1> HIDE DEF q
<1>8. q.block \in [BlockIds -> BlockType] /\ \A b \in BlockIds : q.block[b] = new(b)
    BY <1>1, <1>6, <1>7 DEF PartitionType
<1>9. q \in PartitionType /\ q.size = p.size /\ q.array = p.array
    BY <1>1, <1>7, <1>8 DEF PartitionType
<1>10. \A b \in BlockIds : ~InChunk(m, b) => q.block[b] = p.block[b]
    BY <1>2, <1>8, EndsAreInside
<1>11. q.block[m.chunk].used = 0 /\ q.block[m.chunk].block_count = m.count
    BY <1>2, <1>3, <1>5, <1>8
<1>12. q.block[last].last8 = m.count
  <2>1. last \in BlockIds /\ new(last) = full(last) /\ full(last).last8 = m.count
      BY <1>2, <1>5
  <2> HIDE DEF last, new, full
  <2>2. QED BY <2>1, <1>8
<1>13. FreeTags(q.block, m)
    BY <1>11, <1>12 DEF FreeTags
<1>14. QED BY <1>9, <1>10, <1>13 DEF q

(* No free chunk lies next to m. *)
Alone(p, m) ==
    \A c \in ToSet(p.array) : c.chunk + c.count # m.chunk /\ m.chunk + m.count # c.chunk

(* A chunk in transit that is put on the free list is free. *)
LEMMA ListedIsFree ==
    ASSUME NEW p, NEW M, NEW files, Pending(p, M, files), NEW m \in M,
           Len(p.array) < MD_FREE_LIST_ENTRIES, Alone(p, m)
    PROVE  /\ Pending(InsertChunk(p, m.chunk, m.count), M \ {m}, files)
           /\ InsertChunk(p, m.chunk, m.count).size = p.size
           /\ ToSet(InsertChunk(p, m.chunk, m.count).array) = ToSet(p.array) \cup {m}
           /\ Len(InsertChunk(p, m.chunk, m.count).array) = Len(p.array) + 1
<1> DEFINE q == FreeChunkInit(p, m.chunk, m.count)
           r == InsertChunk(p, m.chunk, m.count)
<1>1. /\ p \in PartitionType /\ IsArray(p.array) /\ p.size \in Nat
      /\ m \in [chunk : Nat \ {0}, count : Nat \ {0}]
      /\ m.chunk \in Nat \ {0} /\ m.count \in Nat \ {0}
      /\ m.chunk + m.count <= p.size /\ p.size <= MaxDataBlocks
      /\ m = Entry(m.chunk, m.count)
    BY ChunkSizes DEF Pending, Typed
<1>2. m.chunk \in BlockIds /\ m.count \in BlockIds \ {0}
    BY <1>1, Numbers
<1>3. ASSUME NEW c \in ToSet(p.array) PROVE c.chunk # m.chunk /\ c # m
  <2>1. c # m
      BY DEF Pending, Shared
  <2>2. ASSUME c.chunk = m.chunk PROVE FALSE
    <3>1. c \in [chunk : Nat \ {0}, count : Nat \ {0}]
        BY ChunkSizes
    <3>2. InChunk(c, m.chunk) /\ InChunk(m, m.chunk)
        BY <1>1, <2>2, <3>1, EndsAreInside
    <3> DEFINE S == Owned(files) \cup ToSet(p.array) \cup M
    <3>3. Tiles(p.size, S) /\ c \in S /\ m \in S
        BY DEF Pending, Shared
    <3> HIDE DEF S
    <3>5. c = m
        BY <1>1, <3>2, <3>3, OneChunkPerBlock
    <3>6. QED BY <2>1, <3>5
  <2>3. QED BY <2>1, <2>2
<1>4. PICK a : /\ r = [q EXCEPT !.array = a] /\ IsArray(a) /\ Len(a) = Len(p.array) + 1
               /\ ToSet(a) = ToSet(p.array) \cup {m}
  <2>1. \A c \in ToSet(p.array) : c.chunk # m.chunk
      BY <1>3
  <2>2. \E a : /\ r = [q EXCEPT !.array = a] /\ IsArray(a) /\ Len(a) = Len(p.array) + 1
               /\ ToSet(a) = ToSet(p.array) \cup {Entry(m.chunk, m.count)}
      BY <1>1, <1>2, <2>1, InsertChunkInserts
  <2> HIDE DEF q, r
  <2>3. QED BY <1>1, <2>2
<1> HIDE DEF q, r
<1>5. /\ q \in PartitionType /\ q.size = p.size
      /\ \A b \in BlockIds : ~InChunk(m, b) => q.block[b] = p.block[b]
      /\ FreeTags(q.block, m)
    BY <1>1, FreeChunkInitWrites DEF q
<1>6. r \in PartitionType /\ r.size = p.size /\ r.block = q.block /\ r.array = a
    BY <1>4, <1>5 DEF PartitionType, IsArray
<1>7. Typed(r)
  <2>1. Len(p.array) \in Nat /\ MD_FREE_LIST_ENTRIES \in Nat
      BY <1>1, ArrayElements, DataPartitionAssumption
  <2>2. Len(p.array) + 1 <= MD_FREE_LIST_ENTRIES
      BY <2>1
  <2>3. QED BY <1>4, <1>6, <2>2 DEF Typed
<1>8. Shared(p.size, ToSet(a), M \ {m}, files)
  <2>1. Owned(files) \cup ToSet(a) \cup (M \ {m}) = Owned(files) \cup ToSet(p.array) \cup M
      BY <1>4
  <2>2. (M \ {m}) \cap (Owned(files) \cup ToSet(a)) = {}
      BY <1>4 DEF Pending, Shared
  <2>3. QED BY <2>1, <2>2 DEF Pending, Shared
<1>9. Tagged(r, files)
  <2>1. /\ \A c \in ToSet(p.array) : FreeTags(q.block, c)
        /\ \A f \in DOMAIN files : FileTags(q.block, f, files[f])
      BY <1>5, TagsStay
  <2>2. QED BY <1>4, <1>5, <1>6, <2>1 DEF Tagged
<1>10. Merged(ToSet(a))
  <2>1. m.chunk + m.count # m.chunk
      BY <1>1
  <2>2. QED BY <1>4, <2>1 DEF Merged, Alone, Pending
<1>11. Pending(r, M \ {m}, files)
    BY <1>6, <1>7, <1>8, <1>9, <1>10 DEF Pending
<1>12. QED BY <1>4, <1>6, <1>11 DEF r

(* Two neighbours in transit go on as one. *)
LEMMA JoinedArePending ==
    ASSUME NEW p, NEW files, NEW c, NEW e, Pending(p, {c, e}, files),
           c.chunk + c.count = e.chunk
    PROVE  Pending(p, {Entry(c.chunk, c.count + e.count)}, files)
<1> DEFINE m == Entry(c.chunk, c.count + e.count)
           T == Owned(files) \cup ToSet(p.array)
           S == T \cup {c, e}
<1>1. /\ p.size \in Nat /\ Tiles(p.size, S) /\ {c, e} \cap T = {}
      /\ c.chunk \in Nat \ {0} /\ c.count \in Nat \ {0}
      /\ e.chunk \in Nat \ {0} /\ e.count \in Nat \ {0}
  <2>1. p.size \in Nat
      BY ChunkSizes
  <2>2. Tiles(p.size, S) /\ {c, e} \cap T = {}
      BY DEF Pending, Shared
  <2>3. c \in S /\ e \in S
      OBVIOUS
  <2>4. /\ c.chunk \in Nat \ {0} /\ c.count \in Nat \ {0}
        /\ e.chunk \in Nat \ {0} /\ e.count \in Nat \ {0}
      BY <2>2, <2>3 DEF Tiles
  <2>5. QED BY <2>1, <2>2, <2>4
<1>2. (S \ {c, e}) \cup {m} = T \cup {m}
    BY <1>1
<1>3. Tiles(p.size, T \cup {m})
  <2> HIDE DEF m, T
  <2>1. c \in S /\ e \in S
      OBVIOUS
  <2> HIDE DEF S
  <2>2. Tiles(p.size, (S \ {c, e}) \cup {m})
      BY <1>1, <2>1, JoinTiles DEF m
  <2>3. QED BY <1>2, <2>2
<1>4. m \notin T
  <2>1. SUFFICES ASSUME m \in T PROVE FALSE
      OBVIOUS
  <2>2. m.chunk = c.chunk /\ m.count = c.count + e.count
      BY <1>1, EntryFields
  <2>3. InChunk(m, c.chunk) /\ InChunk(c, c.chunk)
      BY <1>1, <2>2 DEF InChunk
  <2> HIDE DEF m
  <2>4. m = c
      BY <1>1, <2>1, <2>3, OneChunkPerBlock
  <2>5. QED BY <1>1, <2>1, <2>4
<1>5. Shared(p.size, ToSet(p.array), {m}, files)
  <2> HIDE DEF m
  <2>1. \A q, r \in DOMAIN files : files[q].block = files[r].block => q = r
      BY DEF Pending, Shared
  <2>2. QED BY <1>3, <1>4, <2>1 DEF Shared
<1>6. QED BY <1>5 DEF Pending

(* A file that is given up. *)
LEMMA GivenUpIsPending ==
    ASSUME NEW p, NEW files, Sound(p, files), NEW f \in DOMAIN files,
           NEW rest, rest = [q \in DOMAIN files \ {f} |-> files[q]]
    PROVE  Pending(p, {ChunkOf(files[f])}, rest)
<1> DEFINE m == ChunkOf(files[f])
<1>1. /\ DOMAIN rest = DOMAIN files \ {f} /\ \A q \in DOMAIN rest : rest[q] = files[q]
    OBVIOUS
<1>2. Pending(p, {}, files)
    BY DEF Sound
<1>3. \A q \in DOMAIN files : ChunkOf(files[q]).chunk = files[q].block
    BY <1>2, FileChunk DEF Pending
<1>4. \A q \in DOMAIN rest : ChunkOf(rest[q]) # m
    BY <1>1, <1>2, <1>3 DEF Pending, Shared
<1>5. Owned(files) = Owned(rest) \cup {m} /\ m \notin Owned(rest)
    BY <1>1, <1>4 DEF Owned
<1>6. m \notin ToSet(p.array)
  <2>1. \A c \in ToSet(p.array) : p.block[c.chunk].used = 0
      BY <1>2 DEF Pending, Tagged, FreeTags
  <2>2. p.block[m.chunk].used = 1
      BY <1>2, <1>3 DEF Pending, Tagged, FileTags
  <2>3. QED BY <2>1, <2>2
<1> HIDE DEF m
<1>7. Shared(p.size, ToSet(p.array), {m}, rest)
  <2>1. Owned(rest) \cup ToSet(p.array) \cup {m} = Owned(files) \cup ToSet(p.array) \cup {}
      BY <1>5
  <2>2. Tiles(p.size, Owned(rest) \cup ToSet(p.array) \cup {m})
      BY <1>2, <2>1 DEF Pending, Shared
  <2>3. \A q, r \in DOMAIN rest : rest[q].block = rest[r].block => q = r
      BY <1>1, <1>2 DEF Pending, Shared
  <2>4. QED BY <1>5, <1>6, <2>2, <2>3 DEF Shared
<1>8. AreFiles(rest) /\ Tagged(p, rest)
    BY <1>1, <1>2 DEF Pending, AreFiles, Tagged
<1>9. QED BY <1>2, <1>7, <1>8 DEF Pending, m

-------------------------------------------------------------------------------
(***************************************************************************)
(* DataDeleteFile.                                                         *)
(***************************************************************************)

(* The record DataDeleteFile works on.  NoneAfter: no free chunk is right behind it. *)
Transit(p, m) == [d |-> p, block |-> m.chunk, count |-> m.count]

NoneAfter(p, m)  == \A c \in ToSet(p.array) : m.chunk + m.count # c.chunk

(* Fewer chunks are free. *)
Shorter(q, p) == ToSet(q.array) \subseteq ToSet(p.array) /\ Len(q.array) <= Len(p.array)

(* The neighbours of the chunk in transit are files or free chunks. *)
LEMMA NeighboursOfPending ==
    ASSUME NEW p, NEW files, NEW m, Pending(p, {m}, files)
    PROVE  /\ m.chunk + m.count < p.size =>
                \E e \in Owned(files) \cup ToSet(p.array) : e.chunk = m.chunk + m.count
           /\ m.chunk > 1 =>
                \E e \in Owned(files) \cup ToSet(p.array) : e.chunk + e.count = m.chunk
           /\ m.chunk \in Nat \ {0} /\ m.count \in Nat \ {0}
           /\ m \in [chunk : Nat \ {0}, count : Nat \ {0}]
           /\ p.size \in Nat
<1> DEFINE S == Owned(files) \cup ToSet(p.array) \cup {m}
<1>1. p.size \in Nat /\ Tiles(p.size, S) /\ m \in S
    BY ChunkSizes DEF Pending, Shared
<1>2. m.chunk \in Nat \ {0} /\ m.count \in Nat \ {0} /\ m \in [chunk : Nat \ {0}, count : Nat \ {0}]
    BY <1>1 DEF Tiles
<1>3. ASSUME m.chunk + m.count < p.size
      PROVE  \E e \in Owned(files) \cup ToSet(p.array) : e.chunk = m.chunk + m.count
  <2>1. PICK e \in S : e.chunk = m.chunk + m.count
    <3> HIDE DEF S
    <3>1. QED BY <1>1, <1>3, NextChunk
  <2>2. e # m
      BY <1>2, <2>1
  <2>3. QED BY <2>1, <2>2
<1>4. ASSUME m.chunk > 1
      PROVE  \E e \in Owned(files) \cup ToSet(p.array) : e.chunk + e.count = m.chunk
  <2>1. PICK e \in S : e.chunk + e.count = m.chunk
    <3> HIDE DEF S
    <3>1. QED BY <1>1, <1>4, PreviousChunk
  <2>2. e # m
      BY <1>2, <2>1
  <2>3. QED BY <2>1, <2>2
<1>5. QED BY <1>1, <1>2, <1>3, <1>4

(* Whether a chunk is free can be read off its header, its length off either end. *)
LEMMA HeadersTell ==
    ASSUME NEW p, NEW M, NEW files, Pending(p, M, files),
           NEW c \in Owned(files) \cup ToSet(p.array)
    PROVE  /\ c \in ToSet(p.array) <=> p.block[c.chunk].used = 0
           /\ p.block[c.chunk].block_count = c.count
           /\ p.block[(c.chunk + c.count) - 1].last8 = c.count
<1>1. CASE c \in ToSet(p.array)
    BY <1>1 DEF Pending, Tagged, FreeTags
<1>2. ASSUME c \in Owned(files), c \notin ToSet(p.array)
      PROVE  /\ p.block[c.chunk].used = 1
             /\ p.block[c.chunk].block_count = c.count
             /\ p.block[(c.chunk + c.count) - 1].last8 = c.count
  <2>1. PICK q \in DOMAIN files : c = ChunkOf(files[q])
      BY <1>2 DEF Owned
  <2>2. c.chunk = files[q].block /\ c.count = RequiredBlocks(files[q].size)
      BY <2>1, FileChunk DEF Pending
  <2>3. QED BY <2>2 DEF Pending, Tagged, FileTags
<1>3. QED BY <1>1, <1>2

(* AbsorbNext joins the chunk in transit with a free chunk behind it, if there is one:
   the header read there is that of a chunk, and it is not stale. *)
LEMMA AbsorbNextJoins ==
    ASSUME NEW p, NEW files, NEW m, Pending(p, {m}, files)
    PROVE  \E q, n : /\ AbsorbNext(p, Transit(p, m)) = Transit(q, n)
                     /\ Pending(q, {n}, files) /\ NoneAfter(q, n)
                     /\ q.block = p.block /\ q.size = p.size /\ Shorter(q, p)
<1> DEFINE next == m.chunk + m.count
<1>1. /\ m.chunk \in Nat \ {0} /\ m.count \in Nat \ {0} /\ next \in Nat /\ p.size \in Nat
      /\ next < p.size => \E e \in Owned(files) \cup ToSet(p.array) : e.chunk = next
    BY NeighboursOfPending
<1>2. Transit(p, m).d = p /\ Transit(p, m).block = m.chunk /\ Transit(p, m).count = m.count
    BY DEF Transit
<1>3. \A c \in ToSet(p.array) : c.chunk \in Nat /\ c.count \in Nat \ {0} /\ c.chunk + c.count <= p.size
    BY ChunkSizes
<1>4. CASE next < p.size /\ p.block[next].used = 0
  <2>1. PICK e \in Owned(files) \cup ToSet(p.array) : e.chunk = next
      BY <1>1, <1>4
  <2>2. e \in ToSet(p.array) /\ p.block[next].block_count = e.count
      BY <1>4, <2>1, HeadersTell
  <2> DEFINE q == RemoveChunk(p, next)
             n == Entry(m.chunk, m.count + e.count)
  <2>3. AbsorbNext(p, Transit(p, m)) = [d |-> q, block |-> m.chunk, count |-> m.count + e.count]
      BY <1>2, <1>4, <2>2 DEF AbsorbNext
  <2>4. m.count + e.count \in Nat \ {0}
      BY <1>1, <1>3, <2>2
  <2>5. n.chunk = m.chunk /\ n.count = m.count + e.count
      BY <1>1, <2>4, EntryFields
  <2>6. AbsorbNext(p, Transit(p, m)) = Transit(q, n)
      BY <2>3, <2>5 DEF Transit
  <2>7. /\ Pending(q, {m} \cup {e}, files) /\ q.size = p.size /\ q.block = p.block
        /\ ToSet(q.array) = ToSet(p.array) \ {e} /\ Len(q.array) = Len(p.array) - 1
      BY <2>1, <2>2, UnlistedIsPending
  <2> HIDE DEF q, n
  <2>8. Pending(q, {n}, files)
    <3>1. {m} \cup {e} = {m, e}
        OBVIOUS
    <3>2. Pending(q, {m, e}, files)
        BY <2>7, <3>1
    <3>3. QED BY <2>1, <3>2, JoinedArePending DEF n
  <2>9. NoneAfter(q, n)
    <3>1. n.chunk + n.count = e.chunk + e.count
        BY <1>1, <1>3, <2>1, <2>2, <2>5
    <3>2. \A c \in ToSet(p.array) : e.chunk + e.count # c.chunk
        BY <2>2 DEF Pending, Merged
    <3>3. QED BY <2>7, <3>1, <3>2 DEF NoneAfter
  <2>10. Len(p.array) \in Nat
      BY ArrayElements DEF Pending, Typed
  <2>11. Shorter(q, p)
      BY <2>7, <2>10 DEF Shorter
  <2>12. QED BY <2>6, <2>7, <2>8, <2>9, <2>11
<1>5. CASE ~(next < p.size /\ p.block[next].used = 0)
  <2>1. AbsorbNext(p, Transit(p, m)) = Transit(p, m)
      BY <1>2, <1>5 DEF AbsorbNext
  <2>2. ASSUME NEW c \in ToSet(p.array), next = c.chunk PROVE FALSE
    <3>1. next < p.size
        BY <1>1, <1>3, <2>2
    <3>2. p.block[next].used = 0
        BY <2>2, HeadersTell
    <3>3. QED BY <1>5, <3>1, <3>2
  <2>3. NoneAfter(p, m)
      BY <2>2 DEF NoneAfter
  <2>4. Shorter(p, p)
    <3>1. Len(p.array) \in Nat
        BY ArrayElements DEF Pending, Typed
    <3>2. QED BY <3>1 DEF Shorter
  <2>5. QED BY <2>1, <2>3, <2>4
<1>6. QED BY <1>4, <1>5

(* AbsorbPrevious does so in front: the last eight bytes of the block before are the
   length of the chunk that ends there. *)
LEMMA AbsorbPreviousJoins ==
    ASSUME NEW p, NEW files, NEW m, Pending(p, {m}, files), NoneAfter(p, m)
    PROVE  \E q, n : /\ AbsorbPrevious(p, Transit(p, m)) = Transit(q, n)
                     /\ Pending(q, {n}, files) /\ Alone(q, n)
                     /\ q.size = p.size /\ Shorter(q, p)
<1> DEFINE previous == m.chunk - p.block[m.chunk - 1].last8
<1>1. /\ m.chunk \in Nat \ {0} /\ m.count \in Nat \ {0} /\ p.size \in Nat
      /\ m.chunk > 1 => \E e \in Owned(files) \cup ToSet(p.array) : e.chunk + e.count = m.chunk
    BY NeighboursOfPending
<1>2. Transit(p, m).d = p /\ Transit(p, m).block = m.chunk /\ Transit(p, m).count = m.count
    BY DEF Transit
<1>3. \A c \in Owned(files) \cup ToSet(p.array) :
         c.chunk \in Nat \ {0} /\ c.count \in Nat \ {0} /\ c.chunk + c.count <= p.size
    BY ChunkSizes
<1>4. ASSUME NEW e \in Owned(files) \cup ToSet(p.array), e.chunk + e.count = m.chunk
      PROVE  previous = e.chunk /\ m.chunk > 1
  <2>1. p.block[m.chunk - 1].last8 = e.count
      BY <1>4, HeadersTell
  <2>2. QED BY <1>1, <1>3, <1>4, <2>1
<1> HIDE DEF previous
<1>5. AbsorbPrevious(p, Transit(p, m)) =
        IF m.chunk > 1 /\ p.block[previous].used = 0
        THEN [d |-> RemoveChunk(p, previous), block |-> previous,
              count |-> m.count + p.block[previous].block_count]
        ELSE Transit(p, m)
    BY <1>2 DEF AbsorbPrevious, previous
<1>6. CASE m.chunk > 1 /\ p.block[previous].used = 0
  <2>1. PICK e \in Owned(files) \cup ToSet(p.array) : e.chunk + e.count = m.chunk
      BY <1>1, <1>6
  <2>2. previous = e.chunk
      BY <1>4, <2>1
  <2>3. e \in ToSet(p.array) /\ p.block[previous].block_count = e.count
      BY <1>6, <2>2, HeadersTell
  <2> DEFINE q == RemoveChunk(p, e.chunk)
             n == Entry(e.chunk, e.count + m.count)
  <2>4. m.count + e.count = e.count + m.count /\ e.count + m.count \in Nat \ {0}
      BY <1>1, <1>3
  <2>5. n.chunk = e.chunk /\ n.count = e.count + m.count
      BY <1>3, <2>4, EntryFields
  <2>6. AbsorbPrevious(p, Transit(p, m)) = Transit(q, n)
      BY <1>5, <1>6, <2>2, <2>3, <2>4, <2>5 DEF Transit
  <2>7. /\ Pending(q, {m} \cup {e}, files) /\ q.size = p.size
        /\ ToSet(q.array) = ToSet(p.array) \ {e} /\ Len(q.array) = Len(p.array) - 1
      BY <2>3, UnlistedIsPending
  <2> HIDE DEF q, n
  <2>8. Pending(q, {n}, files)
    <3>1. {m} \cup {e} = {e, m}
        OBVIOUS
    <3>2. Pending(q, {e, m}, files)
        BY <2>7, <3>1
    <3>3. QED BY <2>1, <3>2, JoinedArePending DEF n
  <2>9. Alone(q, n)
    <3>1. n.chunk + n.count = m.chunk + m.count
        BY <1>1, <1>3, <2>1, <2>5
    <3>2. \A c \in ToSet(p.array) : m.chunk + m.count # c.chunk /\ c.chunk + c.count # e.chunk
        BY <2>3 DEF Pending, Merged, NoneAfter
    <3>3. QED BY <2>5, <2>7, <3>1, <3>2 DEF Alone
  <2>10. Len(p.array) \in Nat
      BY ArrayElements DEF Pending, Typed
  <2>11. Shorter(q, p)
      BY <2>7, <2>10 DEF Shorter
  <2>12. QED BY <2>6, <2>7, <2>8, <2>9, <2>11
<1>7. CASE ~(m.chunk > 1 /\ p.block[previous].used = 0)
  <2>1. AbsorbPrevious(p, Transit(p, m)) = Transit(p, m)
      BY <1>5, <1>7
  <2>2. ASSUME NEW c \in ToSet(p.array), c.chunk + c.count = m.chunk PROVE FALSE
    <3>1. previous = c.chunk /\ m.chunk > 1
        BY <1>4, <2>2
    <3>2. p.block[previous].used = 0
        BY <3>1, HeadersTell
    <3>3. QED BY <1>7, <3>1, <3>2
  <2>3. Alone(p, m)
      BY <2>2 DEF NoneAfter, Alone
  <2>4. Shorter(p, p)
    <3>1. Len(p.array) \in Nat
        BY ArrayElements DEF Pending, Typed
    <3>2. QED BY <3>1 DEF Shorter
  <2>5. QED BY <2>1, <2>3, <2>4
<1>8. QED BY <1>6, <1>7

(* DataDeleteFile gives up that file, keeps all others and merges what it freed. *)
LEMMA DeleteFileIsSound ==
    ASSUME NEW p, NEW files, Sound(p, files), NEW f \in DOMAIN files,
           Len(p.array) < MD_FREE_LIST_ENTRIES,
           NEW rest, rest = [q \in DOMAIN files \ {f} |-> files[q]]
    PROVE  /\ Sound(DeleteFile(p, files[f].block), rest)
           /\ DeleteFile(p, files[f].block).size = p.size
<1> DEFINE m == ChunkOf(files[f])
<1>1. Pending(p, {m}, rest)
    BY GivenUpIsPending
<1>2. m.chunk = files[f].block /\ m.count = p.block[files[f].block].block_count
    BY FileChunk DEF Sound, Pending, Tagged, FileTags
<1>3. [d |-> p, block |-> files[f].block, count |-> p.block[files[f].block].block_count]
        = Transit(p, m)
    BY <1>2 DEF Transit
<1> HIDE DEF m
<1>4. PICK q, n : /\ AbsorbNext(p, Transit(p, m)) = Transit(q, n)
                  /\ Pending(q, {n}, rest) /\ NoneAfter(q, n)
                  /\ q.block = p.block /\ q.size = p.size /\ Shorter(q, p)
    BY <1>1, AbsorbNextJoins
<1>5. PICK r, o : /\ AbsorbPrevious(q, Transit(q, n)) = Transit(r, o)
                  /\ Pending(r, {o}, rest) /\ Alone(r, o)
                  /\ r.size = q.size /\ Shorter(r, q)
    BY <1>4, AbsorbPreviousJoins
<1>6. Transit(q, n).d = q
    BY DEF Transit
<1>7. DeleteFile(p, files[f].block) =
        InsertChunk(Transit(r, o).d, Transit(r, o).block, Transit(r, o).count)
    BY <1>3, <1>4, <1>5, <1>6 DEF DeleteFile
<1>8. DeleteFile(p, files[f].block) = InsertChunk(r, o.chunk, o.count)
    BY <1>7 DEF Transit
<1>9. Len(r.array) < MD_FREE_LIST_ENTRIES
  <2>1. Len(p.array) \in Nat /\ Len(q.array) \in Nat /\ Len(r.array) \in Nat
        /\ MD_FREE_LIST_ENTRIES \in Nat
      BY <1>1, <1>4, <1>5, ArrayElements, DataPartitionAssumption DEF Pending, Typed
  <2>2. QED BY <1>4, <1>5, <2>1 DEF Shorter
<1>10. /\ Pending(InsertChunk(r, o.chunk, o.count), {o} \ {o}, rest)
       /\ InsertChunk(r, o.chunk, o.count).size = r.size
    BY <1>5, <1>9, ListedIsFree
<1>11. {o} \ {o} = {}
    OBVIOUS
<1>12. QED BY <1>4, <1>5, <1>8, <1>10, <1>11 DEF Sound

-------------------------------------------------------------------------------
(***************************************************************************)
(* DFreeListRequestChunk.                                                  *)
(***************************************************************************)

(* The search of DFreeListRequestChunk finds the last entry that is large enough. *)
LEMMA BestFitFits ==
    ASSUME NEW p \in PartitionType, IsArray(p.array), NEW n \in Nat,
           p.array # <<>>, p.array[1].count >= n
    PROVE  /\ BestFit(p, n) \in 1 .. Len(p.array)
           /\ p.array[BestFit(p, n)].count >= n
           /\ \A i \in 1 .. Len(p.array) : i > BestFit(p, n) => p.array[i].count < n
<1> DEFINE a == p.array
           I == {i \in 2 .. Len(a) : a[i].count < n}
           tooSmall == SelectInSubSeq(a, 2, Len(a), LAMBDA e : e.count < n)
<1>1. /\ Len(a) \in Nat /\ a \in Seq(Chunks)
      /\ \A i \in 1 .. Len(a) : a[i].count \in Nat
      /\ \A i, j \in 1 .. Len(a) : i < j => a[i].count >= a[j].count
    BY ArrayElements, Numbers DEF IsArray, Chunks
<1>2. Len(a) >= 1
  <2>1. Len(a) # 0
      BY <1>1, EmptySeq
  <2>2. QED BY <1>1, <2>1
<1>3. tooSmall = IF I # {} THEN Min(I) ELSE 0
    BY DEF SelectInSubSeq
<1>4. BestFit(p, n) = IF tooSmall = 0 THEN Len(a) ELSE tooSmall - 1
    BY DEF BestFit
<1>5. I \subseteq 1 .. Len(a)
    OBVIOUS
<1>6. /\ I = {} => tooSmall = 0
      /\ I # {} => tooSmall \in I /\ tooSmall # 0 /\ \A i \in I : tooSmall <= i
  <2> HIDE DEF tooSmall, I
  <2>1. /\ I # {} => /\ (IF I # {} THEN Min(I) ELSE 0) \in I
                     /\ (IF I # {} THEN Min(I) ELSE 0) # 0
                     /\ \A i \in I : (IF I # {} THEN Min(I) ELSE 0) <= i
      BY <1>5, FirstInArray
  <2>2. QED BY <1>3, <2>1
<1> HIDE DEF tooSmall
<1>7. CASE I = {}
  <2>1. BestFit(p, n) = Len(a)
      BY <1>4, <1>6, <1>7
  <2>2. Len(a) \in 1 .. Len(a) /\ (Len(a) = 1 \/ Len(a) \in 2 .. Len(a))
    <3> DEFINE m == Len(a)
    <3>1. m \in Nat /\ m >= 1
        BY <1>1, <1>2
    <3> HIDE DEF m
    <3>2. m \in 1 .. m /\ (m = 1 \/ m \in 2 .. m)
        BY <3>1
    <3>3. QED BY <3>2 DEF m
  <2>3. a[Len(a)].count >= n
      BY <1>1, <1>7, <2>2
  <2>4. \A i \in 1 .. Len(a) : ~(i > Len(a))
      BY <1>1
  <2>5. QED BY <2>1, <2>2, <2>3, <2>4
<1>8. CASE I # {}
  <2>1. /\ BestFit(p, n) = tooSmall - 1 /\ tooSmall \in 2 .. Len(a)
        /\ a[tooSmall].count < n /\ \A i \in I : tooSmall <= i
      BY <1>4, <1>6, <1>8
  <2>2. tooSmall - 1 \in 1 .. Len(a) /\ (tooSmall - 1 = 1 \/ tooSmall - 1 \in 2 .. Len(a))
        /\ ~(tooSmall <= tooSmall - 1)
      BY <1>1, <2>1
  <2>3. a[tooSmall - 1].count >= n
      BY <1>1, <2>1, <2>2
  <2>4. ASSUME NEW i \in 1 .. Len(a), i > tooSmall - 1 PROVE a[i].count < n
    <3>1. i = tooSmall \/ tooSmall < i
        BY <1>1, <2>1, <2>4
    <3>2. a[i].count <= a[tooSmall].count
        BY <1>1, <2>1, <3>1
    <3>3. QED BY <1>1, <2>1, <3>2
  <2>5. QED BY <2>1, <2>2, <2>3, <2>4
<1>9. QED BY <1>7, <1>8

(* A chunk in transit, cut in two. *)
LEMMA CutArePending ==
    ASSUME NEW p, NEW files, NEW c, Pending(p, {c}, files), NEW n \in Nat \ {0}, n < c.count,
           Alone(p, c)
    PROVE  LET l == Entry(c.chunk, n)
               r == Entry(c.chunk + n, c.count - n)
           IN  Pending(p, {l, r}, files) /\ Alone(p, r) /\ l # r
               /\ r.chunk = c.chunk + n /\ r.count = c.count - n
<1> DEFINE l == Entry(c.chunk, n)
           r == Entry(c.chunk + n, c.count - n)
           T == Owned(files) \cup ToSet(p.array)
           S == T \cup {c}
<1>1. /\ p.size \in Nat /\ Tiles(p.size, S) /\ c \notin T
      /\ \A q, f \in DOMAIN files : files[q].block = files[f].block => q = f
    BY ChunkSizes DEF Pending, Shared
<1>2. /\ c.chunk \in Nat \ {0} /\ c.count \in Nat \ {0}
      /\ c.chunk + n \in Nat \ {0} /\ c.count - n \in Nat \ {0}
  <2>1. c.chunk \in Nat \ {0} /\ c.count \in Nat \ {0}
      BY ChunkSizes
  <2>2. QED BY <2>1
<1>3. l.chunk = c.chunk /\ l.count = n /\ r.chunk = c.chunk + n /\ r.count = c.count - n
    BY <1>2, EntryFields
<1>4. (S \ {c}) \cup {l, r} = T \cup {l, r}
    BY <1>1
<1> HIDE DEF l, r, T
<1>5. Tiles(p.size, T \cup {l, r})
  <2>1. c \in S
      OBVIOUS
  <2> HIDE DEF S
  <2>2. Tiles(p.size, (S \ {c}) \cup {l, r})
      BY <1>1, <2>1, SplitTiles DEF l, r
  <2>3. QED BY <1>4, <2>2
<1>6. l # r
    BY <1>2, <1>3
<1>7. ASSUME NEW x \in T PROVE x # l /\ x # r
  <2>1. x # c /\ x \in S /\ c \in S
      BY <1>1
  <2> HIDE DEF S
  <2>2. ~InChunk(x, c.chunk) /\ ~InChunk(x, c.chunk + n)
    <3>1. InChunk(c, c.chunk) /\ InChunk(c, c.chunk + n) /\ c.chunk \in Nat /\ c.chunk + n \in Nat
        BY <1>2 DEF InChunk
    <3>2. QED BY <1>1, <2>1, <3>1, OneChunkPerBlock
  <2>3. InChunk(l, c.chunk) /\ InChunk(r, c.chunk + n)
      BY <1>2, <1>3 DEF InChunk
  <2>4. QED BY <2>2, <2>3
<1>8. Pending(p, {l, r}, files)
  <2>1. {l, r} \cap T = {}
      BY <1>7
  <2>2. Shared(p.size, ToSet(p.array), {l, r}, files)
      BY <1>1, <1>5, <2>1 DEF Shared, T
  <2>3. QED BY <2>2 DEF Pending
<1>9. Alone(p, r)
  <2>1. ASSUME NEW x \in ToSet(p.array) PROVE r.chunk + r.count # x.chunk
    <3>1. r.chunk + r.count = c.chunk + c.count
        BY <1>2, <1>3
    <3>2. QED BY <3>1 DEF Alone
  <2>2. ASSUME NEW x \in ToSet(p.array), x.chunk + x.count = r.chunk PROVE FALSE
    <3> DEFINE b == (c.chunk + n) - 1
    <3>1. x \in [chunk : Nat \ {0}, count : Nat \ {0}] /\ x \in T /\ l \in T \cup {l, r}
        BY ChunkSizes DEF T
    <3>2. b \in Nat /\ InChunk(l, b)
        BY <1>2, <1>3 DEF InChunk
    <3>3. InChunk(x, b)
        BY <1>2, <1>3, <2>2, <3>1 DEF InChunk
    <3> HIDE DEF b
    <3>4. x = l
        BY <1>1, <1>5, <3>1, <3>2, <3>3, OneChunkPerBlock
    <3>5. QED BY <1>7, <3>1, <3>4
  <2>3. QED BY <2>1, <2>2 DEF Alone
<1>10. QED BY <1>3, <1>6, <1>8, <1>9 DEF l, r

(* DFreeListRequestChunk returns a chunk that belongs to nobody, of the length asked
   for, and leaves everything else sound. *)
LEMMA RequestedIsPending ==
    ASSUME NEW p, NEW files, Sound(p, files), NEW n \in Nat \ {0},
           NEW request, request = RequestChunk(p, n)
    PROVE  /\ request.d.size <= MaxDataBlocks =>
                Pending(request.d, {Entry(request.block, n)}, files)
           /\ request.block \in Nat \ {0}
           /\ \A x : [request.d EXCEPT !.block = x].size = request.d.size
<1>1. p \in PartitionType /\ IsArray(p.array) /\ Len(p.array) <= MD_FREE_LIST_ENTRIES
    BY DEF Sound, Pending, Typed
<1>2. CASE p.array # <<>> /\ p.array[1].count >= n
  <2> DEFINE k == BestFit(p, n)
             c == p.array[k]
             q == RemoveChunk(p, c.chunk)
             l == Entry(c.chunk, n)
             r == Entry(c.chunk + n, c.count - n)
  <2>1. k \in 1 .. Len(p.array) /\ c.count >= n
      BY <1>1, <1>2, BestFitFits
  <2>2. c \in ToSet(p.array)
      BY <1>1, <2>1, ArrayElements
  <2>3. request = [block |-> c.chunk,
                   d |-> IF c.count = n THEN q ELSE InsertChunk(q, r.chunk, r.count)]
      BY <1>2 DEF RequestChunk, FitsExactly, Remainder
  <2> HIDE DEF k, c, l, r
  <2>4. /\ Pending(q, {} \cup {c}, files) /\ ToSet(q.array) = ToSet(p.array) \ {c}
        /\ Len(q.array) = Len(p.array) - 1
      BY <2>2, UnlistedIsPending DEF Sound
  <2> HIDE DEF q
  <2>5. Pending(q, {c}, files)
    <3>1. {} \cup {c} = {c}
        OBVIOUS
    <3>2. QED BY <2>4, <3>1
  <2>6. c.chunk \in Nat \ {0} /\ c.count \in Nat \ {0} /\ c = Entry(c.chunk, c.count)
      BY <2>5, ChunkSizes
  <2>7. request.block = c.chunk /\ request.d = IF c.count = n THEN q ELSE InsertChunk(q, r.chunk, r.count)
      BY <2>3
  <2>8. CASE c.count = n
    <3>1. request.d = q /\ Entry(request.block, n) = c
        BY <2>6, <2>7, <2>8
    <3>2. q \in PartitionType
        BY <2>5 DEF Pending, Typed
    <3>3. \A x : [q EXCEPT !.block = x].size = q.size
        BY <3>2 DEF PartitionType
    <3>4. QED BY <2>5, <2>6, <2>7, <3>1, <3>3
  <2>9. CASE c.count # n
    <3>1. n < c.count
        BY <2>1, <2>6, <2>9
    <3>2. Alone(q, c)
        BY <2>2, <2>4 DEF Alone, Sound, Pending, Merged
    <3>3. /\ Pending(q, {l, r}, files) /\ Alone(q, r) /\ l # r
        BY <2>5, <3>1, <3>2, CutArePending DEF l, r
    <3>4. Len(q.array) < MD_FREE_LIST_ENTRIES
      <4>1. Len(p.array) \in Nat /\ MD_FREE_LIST_ENTRIES \in Nat
          BY <1>1, ArrayElements, DataPartitionAssumption
      <4>2. QED BY <1>1, <2>4, <4>1
    <3>5. Pending(InsertChunk(q, r.chunk, r.count), {l, r} \ {r}, files)
        BY <3>3, <3>4, ListedIsFree
    <3>6. {l, r} \ {r} = {l}
        BY <3>3
    <3>7. Pending(request.d, {l}, files)
        BY <2>7, <2>9, <3>5, <3>6
    <3>8. request.d \in PartitionType
        BY <3>7 DEF Pending, Typed
    <3>9. \A x : [request.d EXCEPT !.block = x].size = request.d.size
        BY <3>8 DEF PartitionType
    <3>10. QED BY <2>6, <2>7, <3>7, <3>9 DEF l
  <2>10. QED BY <2>8, <2>9
<1>3. CASE ~(p.array # <<>> /\ p.array[1].count >= n)
  <2> DEFINE q == [p EXCEPT !.size = p.size + n]
             e == Entry(p.size, n)
             S == Owned(files) \cup ToSet(p.array)
  <2>1. request = [block |-> p.size, d |-> q]
      BY <1>3 DEF RequestChunk
  <2>2. request.block = p.size /\ request.d = q /\ q.size = p.size + n
      BY <1>1, <2>1 DEF PartitionType
  <2>3. p.size \in Nat \ {0} /\ \A c \in S : c.chunk \in Nat /\ c.count \in Nat \ {0} /\ c.chunk + c.count <= p.size
      BY ChunkSizes DEF Sound
  <2>4. q.block = p.block /\ q.array = p.array /\ \A x : [q EXCEPT !.block = x].size = q.size
      BY <1>1 DEF PartitionType
  <2>5. Tiles(p.size, S)
    <3>1. S = Owned(files) \cup ToSet(p.array) \cup {}
        OBVIOUS
    <3>2. QED BY <3>1 DEF Sound, Pending, Shared
  <2>6. Tiles(p.size + n, S \cup {e})
    <3> HIDE DEF S
    <3>1. QED BY <2>3, <2>5, ExtendTiles
  <2>7. e.chunk = p.size
      BY <2>3, EntryFields
  <2>8. e \notin S
      BY <2>3, <2>7
  <2>9. Shared(q.size, ToSet(q.array), {e}, files)
      BY <2>2, <2>4, <2>6, <2>8 DEF Shared, Sound, Pending
  <2>10. ASSUME q.size <= MaxDataBlocks PROVE Pending(q, {e}, files)
    <3>1. q.size \in 1 .. MaxDataBlocks
        BY <2>2, <2>3, <2>10, Numbers
    <3>2. q \in PartitionType
        BY <1>1, <2>2, <3>1 DEF PartitionType
    <3>3. QED BY <1>1, <2>4, <2>9, <3>2 DEF Pending, Typed, Sound, Tagged
  <2>11. QED BY <2>2, <2>3, <2>4, <2>10
<1>4. QED BY <1>2, <1>3

-------------------------------------------------------------------------------
(***************************************************************************)
(* DataInsertBytes.                                                        *)
(***************************************************************************)

(* The directory entries once "path" is stored as f. *)
Added(files, path, f) ==
    [q \in DOMAIN files \cup {path} |-> IF q = path THEN f ELSE files[q]]

(* DataInsertBytes writes the file over the chunk it was given. *)
LEMMA InsertBytesIsSound ==
    ASSUME NEW p, NEW files, Sound(p, files), NEW path \in Paths \ DOMAIN files,
           NEW size \in Sizes, NEW zipped \in BOOLEAN,
           NEW insert, insert = InsertBytes(p, path, size, zipped),
           insert.d.size <= MaxDataBlocks
    PROVE  /\ insert.block \in Nat \ {0}
           /\ Sound(insert.d, Added(files, path, [block |-> insert.block, size |-> size,
                                                  zipped |-> zipped]))
<1> DEFINE n == RequiredBlocks(size)
           o == OccupiedBlocks(size)
           request == RequestChunk(p, n)
           first == request.block
           last == first + n - 1
           old == request.d
           f == [block |-> first, size |-> size, zipped |-> zipped]
           fill(b) ==
             [BlankBlock EXCEPT
                !.data = IF b < first + o THEN path ELSE NoData,
                !.used = IF b = first THEN 1 ELSE 0,
                !.next_flag = IF b = first /\ zipped THEN 1 ELSE 0,
                !.previous_flag = old.block[b].previous_flag,
                !.block_count = IF b = first THEN n ELSE 0,
                !.previous_block = IF b = first THEN size ELSE 0,
                !.last8 = IF b = last THEN n ELSE 0,
                !.zeroed = IF b = first /\ ZeroBehind(old.block[b], size) THEN 1 ELSE 0]
           new == [old EXCEPT !.block =
                     [b \in BlockIds |-> IF b \in first .. last THEN fill(b) ELSE old.block[b]]]
           m == Entry(first, n)
           all == Added(files, path, f)
<1>1. insert = [block |-> first, d |-> new]
    BY DEF InsertBytes
<1>2. size \in Nat /\ n \in Nat \ {0} /\ o \in Nat \ {0} /\ o <= n
    BY BlockNumbers
<1> HIDE DEF n, o, request
<1>3. /\ old.size <= MaxDataBlocks => Pending(old, {m}, files)
      /\ first \in Nat \ {0}
      /\ new.size = old.size
  <2> DEFINE writes == [b \in BlockIds |-> IF b \in first .. last THEN fill(b) ELSE old.block[b]]
  <2>1. new = [old EXCEPT !.block = writes]
      OBVIOUS
  <2> HIDE DEF writes, new
  <2>2. QED BY <1>2, <2>1, RequestedIsPending DEF request
<1>4. Pending(old, {m}, files)
  <2> HIDE DEF new
  <2>1. insert.d = new /\ insert.d.size <= MaxDataBlocks
      BY <1>1
  <2>2. new.size <= MaxDataBlocks
      BY <2>1
  <2>3. QED BY <1>3, <2>2
<1>5. /\ old \in PartitionType /\ IsArray(old.array) /\ Len(old.array) <= MD_FREE_LIST_ENTRIES
      /\ old.size \in 1 .. MaxDataBlocks /\ old.block \in [BlockIds -> BlockType]
    BY <1>4 DEF Pending, Typed, PartitionType
<1>6. /\ m \in [chunk : Nat \ {0}, count : Nat \ {0}] /\ m.chunk = first /\ m.count = n
      /\ last = (first + n) - 1 /\ first + n <= old.size
  <2>1. m.chunk = first /\ m.count = n
      BY <1>2, <1>3, EntryFields
  <2>2. m.chunk + m.count <= old.size /\ m \in [chunk : Nat \ {0}, count : Nat \ {0}]
      BY <1>4, ChunkSizes
  <2>3. QED BY <1>2, <1>3, <2>1, <2>2
<1>7. /\ first \in BlockIds /\ last \in BlockIds /\ n \in BlockIds
      /\ first .. last \subseteq BlockIds
      /\ first \in first .. last /\ last \in first .. last
      /\ first .. (first + o) - 1 \subseteq first .. last
  <2>1. /\ first \in Nat /\ first >= 1 /\ n \in Nat /\ n >= 1 /\ o \in Nat /\ o <= n
        /\ first + n <= MaxDataBlocks /\ last = (first + n) - 1 /\ MaxDataBlocks \in Nat
      BY <1>2, <1>3, <1>5, <1>6, Numbers
  <2> HIDE DEF last
  <2>2. last \in Nat /\ first <= last /\ last <= MaxDataBlocks /\ n <= MaxDataBlocks
        /\ (first + o) - 1 <= last
      BY <2>1
  <2>3. QED BY <2>1, <2>2, Numbers
<1> HIDE DEF m, last
<1>8. ASSUME NEW b \in first .. last
      PROVE  /\ fill(b) \in BlockType
             /\ b < first + o => fill(b).data = path
             /\ b = first => /\ fill(b).used = 1 /\ fill(b).block_count = n
                            /\ fill(b).previous_block = size
                            /\ (fill(b).next_flag = 1) = zipped
             /\ b = last => fill(b).last8 = n
  <2>1. old.block[b].previous_flag \in {0, 1}
      BY <1>5, <1>7 DEF BlockType
  <2> PICK flag \in {0, 1} : flag = old.block[b].previous_flag
      BY <2>1
  <2> PICK content \in Paths \cup {NoData} : content = IF b < first + o THEN path ELSE NoData
      OBVIOUS
  <2> PICK used \in {0, 1} : used = IF b = first THEN 1 ELSE 0
      OBVIOUS
  <2> PICK zip \in {0, 1} : zip = IF b = first /\ zipped THEN 1 ELSE 0
      OBVIOUS
  <2> PICK count \in BlockIds : count = IF b = first THEN n ELSE 0
      BY <1>7, Numbers
  <2> PICK length \in BlockIds \cup Sizes : length = IF b = first THEN size ELSE 0
      BY Numbers
  <2> PICK tail \in BlockIds : tail = IF b = last THEN n ELSE 0
      BY <1>7, Numbers
  <2> PICK clear \in {0, 1} : clear = IF b = first /\ ZeroBehind(old.block[b], size) THEN 1 ELSE 0
      OBVIOUS
  <2>2. /\ content = IF b < first + o THEN path ELSE NoData
        /\ used = IF b = first THEN 1 ELSE 0
        /\ zip = IF b = first /\ zipped THEN 1 ELSE 0
        /\ count = IF b = first THEN n ELSE 0
        /\ length = IF b = first THEN size ELSE 0
        /\ tail = IF b = last THEN n ELSE 0
        /\ clear = IF b = first /\ ZeroBehind(old.block[b], size) THEN 1 ELSE 0
      OBVIOUS
  <2>3. PICK block : block = [BlankBlock EXCEPT
                     !.data = content, !.used = used, !.next_flag = zip,
                     !.previous_flag = flag, !.block_count = count,
                     !.previous_block = length, !.last8 = tail, !.zeroed = clear]
      OBVIOUS
  <2>4. block = fill(b)
      BY <2>2, <2>3
  <2>5. block \in BlockType
    <3>1. 0 \in BlockIds
        BY Numbers
    <3>2. block = [used |-> used, next_flag |-> zip, previous_flag |-> flag,
                   block_count |-> count, previous_block |-> length, next_block |-> 0,
                   last8 |-> tail, data |-> content, zeroed |-> clear]
        BY <2>3 DEF BlankBlock
    <3>3. QED BY <3>1, <3>2 DEF BlockType
  <2>6. /\ block.data = content /\ block.used = used /\ block.next_flag = zip
        /\ block.block_count = count /\ block.previous_block = length /\ block.last8 = tail
      BY <2>3 DEF BlankBlock
  <2> HIDE DEF fill
  <2>7. QED BY <2>2, <2>4, <2>5, <2>6
<1> HIDE DEF fill
<1>9. /\ \A b \in BlockIds :
            new.block[b] = IF b \in first .. last THEN fill(b) ELSE old.block[b]
      /\ new.block \in [BlockIds -> BlockType]
      /\ new \in PartitionType /\ new.size = old.size /\ new.array = old.array
  <2> DEFINE writes == [b \in BlockIds |-> IF b \in first .. last THEN fill(b) ELSE old.block[b]]
  <2>1. writes \in [BlockIds -> BlockType]
      BY <1>5, <1>8
  <2>2. \A b \in BlockIds : writes[b] = IF b \in first .. last THEN fill(b) ELSE old.block[b]
      OBVIOUS
  <2>3. new = [old EXCEPT !.block = writes]
      OBVIOUS
  <2> HIDE DEF writes, new
  <2>4. QED BY <1>5, <2>1, <2>2, <2>3 DEF PartitionType
<1> HIDE DEF new
<1>10. \A b \in BlockIds : ~InChunk(m, b) => new.block[b] = old.block[b]
  <2>1. ASSUME NEW b \in BlockIds, b \in first .. last PROVE InChunk(m, b)
      BY <1>2, <1>3, <1>6, <2>1, Numbers DEF InChunk
  <2>2. QED BY <1>9, <2>1
<1>11. /\ \A c \in ToSet(old.array) : FreeTags(new.block, c)
       /\ \A q \in DOMAIN files : FileTags(new.block, q, files[q])
    BY <1>4, <1>10, TagsStay
<1>12. FileTags(new.block, path, f)
  <2>1. new.block[first] = fill(first) /\ new.block[last] = fill(last)
      BY <1>7, <1>9
  <2>2. \A b \in first .. (first + o) - 1 : new.block[b].data = path
    <3>1. ASSUME NEW b \in first .. (first + o) - 1 PROVE new.block[b].data = path
      <4>1. b \in first .. last /\ b < first + o /\ b \in BlockIds
          BY <1>2, <1>3, <1>7
      <4>2. QED BY <1>8, <1>9, <4>1
    <3>2. QED BY <3>1
  <2>3. f.block = first /\ f.size = size /\ f.zipped = zipped
      OBVIOUS
  <2> HIDE DEF f
  <2>4. /\ fill(first).used = 1 /\ fill(first).block_count = n /\ fill(last).last8 = n
        /\ fill(first).previous_block = size /\ (fill(first).next_flag = 1) = zipped
      BY <1>7, <1>8
  <2>5. (first + n) - 1 = last
      BY <1>6
  <2>6. QED BY <2>1, <2>2, <2>3, <2>4, <2>5 DEF FileTags, n, o
<1>13. /\ DOMAIN all = DOMAIN files \cup {path} /\ all[path] = f
       /\ \A q \in DOMAIN files : all[q] = files[q] /\ q # path
    BY DEF Added
<1>14. ChunkOf(f) = m
    BY DEF ChunkOf, m, n
<1>15. f \in [block : Nat \ {0}, size : Sizes, zipped : BOOLEAN] /\ f.block = first
    BY <1>3
<1> HIDE DEF all, f
<1>16. AreFiles(all)
    BY <1>4, <1>13, <1>15 DEF AreFiles, Pending
<1>17. Owned(all) = Owned(files) \cup {m}
    BY <1>13, <1>14 DEF Owned
<1>18. \A q \in DOMAIN files : files[q].block # first
  <2>1. ASSUME NEW q \in DOMAIN files, files[q].block = first PROVE FALSE
    <3> DEFINE c == ChunkOf(files[q])
               S == Owned(files) \cup ToSet(old.array) \cup {m}
    <3>1. c \in S /\ m \in S /\ Tiles(old.size, S) /\ c # m
        BY <1>4 DEF Pending, Shared, Owned
    <3>2. c \in [chunk : Nat \ {0}, count : Nat \ {0}] /\ c.chunk = first
        BY <1>4, <2>1, FileChunk DEF Pending
    <3>3. InChunk(c, first) /\ InChunk(m, first) /\ first \in Nat /\ old.size \in Nat
        BY <1>3, <1>5, <1>6, <3>2, EndsAreInside
    <3> HIDE DEF c, S
    <3>4. c = m
        BY <3>1, <3>3, OneChunkPerBlock
    <3>5. QED BY <3>1, <3>4
  <2>2. QED BY <2>1
<1>19. Shared(new.size, ToSet(new.array), {}, all)
  <2>1. Owned(all) \cup ToSet(new.array) \cup {} = Owned(files) \cup ToSet(old.array) \cup {m}
      BY <1>9, <1>17
  <2>2. \A q, r \in DOMAIN all : all[q].block = all[r].block => q = r
      BY <1>4, <1>13, <1>15, <1>18 DEF Pending, Shared
  <2>3. QED BY <1>4, <1>9, <2>1, <2>2 DEF Pending, Shared
<1>20. Tagged(new, all)
    BY <1>9, <1>11, <1>12, <1>13 DEF Tagged
<1>21. Sound(new, all)
    BY <1>4, <1>5, <1>9, <1>16, <1>19, <1>20 DEF Sound, Pending, Typed
<1>22. insert.block = first /\ insert.d = new
    BY <1>1
<1>23. QED BY <1>3, <1>21, <1>22 DEF all, f

-------------------------------------------------------------------------------
(***************************************************************************)
(* The end of the partition.                                               *)
(***************************************************************************)

(* No free chunk is at the end of the partition. *)
Trimmed(p) == \A c \in ToSet(p.array) : c.chunk + c.count < p.size

(* Nothing is in the linked list. *)
LEMMA NoLinkedList == ASSUME NEW p \in PartitionType PROVE LinkedList(p) = <<>>
BY DEF LinkedList, PartitionType

(* Cutting off a last chunk that belongs to nobody. *)
LEMMA TruncatedIsSound ==
    ASSUME NEW p, NEW files, NEW c, Pending(p, {c}, files), c.chunk + c.count = p.size
    PROVE  /\ Sound(Truncate(p, c.chunk), files)
           /\ Truncate(p, c.chunk).array = p.array
           /\ Truncate(p, c.chunk).size = c.chunk
<1> DEFINE T == Owned(files) \cup ToSet(p.array)
           writes == [b \in BlockIds |-> IF b < c.chunk THEN p.block[b] ELSE BlankBlock]
           q == [p EXCEPT !.size = c.chunk, !.block = writes]
<1>1. Truncate(p, c.chunk) = q
    BY DEF Truncate
<1>2. /\ p \in PartitionType /\ IsArray(p.array) /\ Len(p.array) <= MD_FREE_LIST_ENTRIES
      /\ p.size \in Nat /\ p.size <= MaxDataBlocks /\ MaxDataBlocks \in Nat
      /\ c.chunk \in Nat \ {0} /\ c.count \in Nat \ {0}
    BY ChunkSizes, Numbers DEF Pending, Typed
<1>3. /\ writes \in [BlockIds -> BlockType]
      /\ \A b \in BlockIds : b < c.chunk => writes[b] = p.block[b]
  <2>1. BlankBlock \in BlockType
      BY Numbers DEF BlankBlock, BlockType
  <2>2. QED BY <1>2, <2>1 DEF PartitionType
<1> HIDE DEF writes
<1>4. q \in PartitionType /\ q.size = c.chunk /\ q.block = writes /\ q.array = p.array
  <2>1. c.chunk \in 1 .. MaxDataBlocks
      BY <1>2
  <2>2. QED BY <1>2, <1>3, <2>1 DEF PartitionType
<1> HIDE DEF q
<1>5. Tiles(c.chunk, T)
  <2> DEFINE S == T \cup {c}
  <2>1. Tiles(p.size, S) /\ c \in S /\ c \notin T
      BY DEF Pending, Shared
  <2>2. S \ {c} = T
      BY <2>1
  <2>3. Tiles(c.chunk, S \ {c})
    <3> HIDE DEF S
    <3>1. QED BY <1>2, <2>1, CutTiles
  <2> HIDE DEF S, T
  <2>4. QED BY <2>2, <2>3
<1>6. ASSUME NEW x \in T
      PROVE  /\ x \in [chunk : Nat \ {0}, count : Nat \ {0}] /\ x.chunk + x.count <= c.chunk
             /\ x.chunk + x.count <= MaxDataBlocks
             /\ SameIn(p.block, q.block, x)
  <2>1. x \in [chunk : Nat \ {0}, count : Nat \ {0}] /\ x.chunk + x.count <= c.chunk
      BY <1>5 DEF Tiles
  <2>2. x.chunk + x.count <= MaxDataBlocks /\ x.chunk \in Nat /\ x.count \in Nat
      BY <1>2, <2>1
  <2>3. \A b \in BlockIds : InChunk(x, b) => b < c.chunk
      BY <1>2, <2>1, <2>2, Numbers DEF InChunk
  <2>4. SameIn(p.block, q.block, x)
      BY <1>3, <1>4, <2>3 DEF SameIn
  <2>5. QED BY <2>1, <2>2, <2>4
<1>7. \A x \in ToSet(p.array) : FreeTags(q.block, x)
    BY <1>6, FreeTagsStay DEF Pending, Tagged
<1>8. ASSUME NEW f \in DOMAIN files PROVE FileTags(q.block, f, files[f])
  <2>1. ChunkOf(files[f]) \in T
      BY DEF Owned
  <2>2. FileTags(p.block, f, files[f]) /\ AreFiles(files)
      BY DEF Pending, Tagged
  <2>3. files[f].block + RequiredBlocks(files[f].size) <= MaxDataBlocks
      BY <1>6, <2>1, <2>2, FileChunk
  <2>4. QED BY <1>6, <2>1, <2>2, <2>3, FileTagsStay
<1>9. Shared(q.size, ToSet(q.array), {}, files)
  <2>1. Owned(files) \cup ToSet(q.array) \cup {} = T
      BY <1>4
  <2>2. QED BY <1>4, <1>5, <2>1 DEF Shared, Pending
<1>10. Sound(q, files)
    BY <1>2, <1>4, <1>7, <1>8, <1>9 DEF Sound, Pending, Typed, Tagged
<1>11. QED BY <1>1, <1>4, <1>10

(* DataRemoveLastChunk leaves a sound partition with no free chunk at its end. *)
LEMMA RemoveLastChunkIsSound ==
    ASSUME NEW p, NEW files, Sound(p, files)
    PROVE  Sound(RemoveLastChunk(p), files) /\ Trimmed(RemoveLastChunk(p))
<1> DEFINE I == {k \in 1 .. Len(p.array) : p.array[k].chunk + p.array[k].count = p.size}
           J == {k \in 1 .. Len(LinkedList(p)) :
                   LinkedList(p)[k] + p.block[LinkedList(p)[k]].block_count = p.size}
           i == SelectInSeq(p.array, LAMBDA e : e.chunk + e.count = p.size)
           j == SelectInSeq(LinkedList(p), LAMBDA b : b + p.block[b].block_count = p.size)
<1>1. p \in PartitionType /\ IsArray(p.array)
    BY DEF Sound, Pending, Typed
<1>2. i = IF I # {} THEN Min(I) ELSE 0
    BY DEF SelectInSeq
<1>3. j = IF J # {} THEN Min(J) ELSE 0
    BY DEF SelectInSeq
<1>4. J = {}
  <2>1. Len(LinkedList(p)) = 0
      BY <1>1, NoLinkedList
  <2>2. QED BY <2>1
<1>5. RemoveLastChunk(p) =
        CASE i # 0 -> Truncate(RemoveChunk(p, p.array[i].chunk), p.array[i].chunk)
          [] i = 0 /\ j # 0 -> Truncate(RemoveChunk(p, LinkedList(p)[j]), LinkedList(p)[j])
          [] i = 0 /\ j = 0 -> p
    BY DEF RemoveLastChunk
<1> HIDE DEF i, j, J
<1>6. j = 0
    BY <1>3, <1>4
<1>7. /\ p.size \in Nat
      /\ \A c \in ToSet(p.array) : /\ c.chunk \in Nat /\ c.count \in Nat
                                   /\ c.chunk + c.count <= p.size
    BY ChunkSizes DEF Sound
<1>8. CASE I # {}
  <2>1. i \in I /\ i # 0
    <3>1. I \subseteq 1 .. Len(p.array)
        OBVIOUS
    <3> HIDE DEF I
    <3>2. QED BY <1>1, <1>2, <1>8, <3>1, FirstInArray
  <2> DEFINE c == p.array[i]
             q == RemoveChunk(p, c.chunk)
  <2>2. c \in ToSet(p.array) /\ c.chunk + c.count = p.size
      BY <1>1, <2>1, ArrayElements
  <2>3. RemoveLastChunk(p) = Truncate(q, c.chunk)
      BY <1>5, <2>1
  <2> HIDE DEF c
  <2>4. /\ Pending(q, {} \cup {c}, files) /\ q.size = p.size
        /\ ToSet(q.array) = ToSet(p.array) \ {c}
      BY <2>2, UnlistedIsPending DEF Sound
  <2> HIDE DEF q
  <2>5. {} \cup {c} = {c}
      OBVIOUS
  <2>6. /\ Sound(Truncate(q, c.chunk), files)
        /\ Truncate(q, c.chunk).array = q.array
        /\ Truncate(q, c.chunk).size = c.chunk
      BY <2>2, <2>4, <2>5, TruncatedIsSound
  <2>7. ASSUME NEW x \in ToSet(q.array) PROVE x.chunk + x.count < c.chunk
    <3>1. x.chunk + x.count # c.chunk
        BY <2>2, <2>4 DEF Sound, Pending, Merged
    <3>2. x \in ToSet(Truncate(q, c.chunk).array)
        BY <2>6
    <3>3. x.chunk \in Nat /\ x.count \in Nat /\ x.chunk + x.count <= c.chunk /\ c.chunk \in Nat
        BY <1>7, <2>2, <2>6, <3>2, ChunkSizes DEF Sound
    <3>4. QED BY <3>1, <3>3
  <2>8. QED BY <2>3, <2>6, <2>7 DEF Trimmed
<1>9. CASE I = {}
  <2>1. RemoveLastChunk(p) = p
      BY <1>2, <1>5, <1>6, <1>9
  <2>2. \A c \in ToSet(p.array) : c.chunk + c.count # p.size
      BY <1>1, <1>9, ArrayElements
  <2>3. Trimmed(p)
      BY <1>7, <2>2 DEF Trimmed
  <2>4. QED BY <2>1, <2>3
<1>10. QED BY <1>8, <1>9

(* DataInsertFreeBlocks adds a free chunk to a partition that ends with no free one. *)
LEMMA GrowByIsSound ==
    ASSUME NEW p, NEW files, Sound(p, files), Trimmed(p), NEW n \in Nat,
           p.size + n <= MaxDataBlocks, Len(p.array) < MD_FREE_LIST_ENTRIES
    PROVE  Sound(GrowBy(p, n), files)
<1>1. /\ p \in PartitionType /\ IsArray(p.array)
      /\ p.size \in Nat \ {0} /\ MaxDataBlocks \in Nat
    BY ChunkSizes, Numbers DEF Sound, Pending, Typed
<1> DEFINE q == [p EXCEPT !.size = p.size + n]
           e == Entry(p.size, n)
           T == Owned(files) \cup ToSet(p.array)
<1>2. GrowBy(p, n) = IF n > 0 THEN InsertChunk(q, p.size, n) ELSE q
    BY DEF GrowBy
<1>3. q \in PartitionType /\ q.size = p.size + n /\ q.array = p.array /\ q.block = p.block
  <2>1. p.size + n \in 1 .. MaxDataBlocks
      BY <1>1
  <2>2. QED BY <1>1, <2>1 DEF PartitionType
<1> HIDE DEF q
<1>4. Tiles(p.size, T) /\ \A f, g \in DOMAIN files : files[f].block = files[g].block => f = g
  <2>1. T = Owned(files) \cup ToSet(p.array) \cup {}
      OBVIOUS
  <2>2. QED BY <2>1 DEF Sound, Pending, Shared
<1>5. CASE n = 0
  <2>1. q.size = p.size
      BY <1>1, <1>3, <1>5
  <2>2. Sound(q, files)
      BY <1>3, <2>1 DEF Sound, Pending, Typed, Tagged
  <2>3. QED BY <1>2, <1>5, <2>2
<1>6. CASE n > 0
  <2>1. e.chunk = p.size /\ e.count = n
      BY <1>1, <1>6, EntryFields
  <2> HIDE DEF e, T
  <2>2. Tiles(q.size, T \cup {e})
      BY <1>1, <1>3, <1>4, <1>6, ExtendTiles DEF e
  <2>3. \A c \in T : c.chunk \in Nat /\ c.count \in Nat \ {0} /\ c.chunk + c.count <= p.size
      BY <1>4 DEF Tiles
  <2>4. e \notin T
      BY <1>1, <2>1, <2>3
  <2>5. Shared(q.size, ToSet(q.array), {e}, files)
      BY <1>3, <1>4, <2>2, <2>4 DEF Shared, T
  <2>6. Pending(q, {e}, files)
      BY <1>3, <2>5 DEF Sound, Pending, Typed, Tagged
  <2>7. Alone(q, e)
    <3>1. ASSUME NEW c \in ToSet(q.array)
          PROVE  c.chunk + c.count # e.chunk /\ e.chunk + e.count # c.chunk
      <4>1. c \in T /\ c.chunk + c.count < p.size
          BY <1>3 DEF T, Trimmed
      <4>2. QED BY <1>1, <2>1, <2>3, <4>1
    <3>2. QED BY <3>1 DEF Alone
  <2>8. Pending(InsertChunk(q, e.chunk, e.count), {e} \ {e}, files)
      BY <1>3, <2>6, <2>7, ListedIsFree
  <2>9. {e} \ {e} = {} /\ GrowBy(p, n) = InsertChunk(q, e.chunk, e.count)
      BY <1>2, <1>6, <2>1
  <2>10. QED BY <2>8, <2>9 DEF Sound
<1>7. QED BY <1>5, <1>6

-------------------------------------------------------------------------------
(***************************************************************************)
(* The blocks reserved for several files.                                  *)
(***************************************************************************)

(* The sum of the numbers g gives to the elements of a finite set: what the folds of
   the library compute. *)
SumStep(f, g, D) ==
    [s \in SUBSET D |-> IF s = {} THEN 0
                        ELSE g[CHOOSE x \in s : TRUE] + f[s \ {CHOOSE x \in s : TRUE}]]

(* That function exists: by induction on the size of the set. *)
LEMMA SumExists ==
    ASSUME NEW D, IsFiniteSet(D), NEW g \in [D -> Nat]
    PROVE  \E f \in [SUBSET D -> Nat] : f = SumStep(f, g, D)
<1> DEFINE N == Cardinality(D)
           S == [SUBSET D -> Nat]
           base == [s \in SUBSET D |-> 0]
           step == [x \in (1 .. N) \X S |-> SumStep(x[2], g, D)]
<1>1. N \in Nat
    BY FS_CardinalityType
<1>2. ASSUME NEW s \in SUBSET D, s # {}
      PROVE  (CHOOSE x \in s : TRUE) \in s
    BY <1>2
<1>3. ASSUME NEW f \in S PROVE SumStep(f, g, D) \in S
  <2>1. ASSUME NEW s \in SUBSET D, s # {}
        PROVE  g[CHOOSE x \in s : TRUE] + f[s \ {CHOOSE x \in s : TRUE}] \in Nat
    <3>1. PICK x \in s : x = CHOOSE y \in s : TRUE
        BY <1>2, <2>1
    <3>2. g[x] \in Nat /\ f[s \ {x}] \in Nat
        OBVIOUS
    <3>3. QED BY <3>1, <3>2
  <2>2. QED BY <2>1 DEF SumStep
<1>4. base \in S
    OBVIOUS
<1>5. step \in [(1 .. N) \X S -> S]
    BY <1>3
<1> HIDE DEF S, step, N
<1>6. PICK h \in [0 .. N -> S] : GoesOn(h, N, base, step)
    BY <1>1, <1>4, <1>5, RecursionExists
<1>7. ASSUME NEW n \in 1 .. N PROVE h[n] = SumStep(h[n - 1], g, D)
  <2>1. h[n] = step[<<n, h[n - 1]>>]
      BY <1>6 DEF GoesOn
  <2>2. h[n - 1] \in S /\ <<n, h[n - 1]>> \in (1 .. N) \X S
      BY <1>1, <1>6
  <2>3. QED BY <2>1, <2>2 DEF step
<1>8. h[0] = base
    BY <1>6 DEF GoesOn
<1> DEFINE Settled(n) == \A s \in SUBSET D : Cardinality(s) <= n => SumStep(h[n], g, D)[s] = h[n][s]
           H == {n \in 0 .. N : Settled(n)}
<1>9. ASSUME NEW s \in SUBSET D
      PROVE  /\ IsFiniteSet(s) /\ Cardinality(s) \in Nat /\ Cardinality(s) <= N
             /\ Cardinality(s) = 0 <=> s = {}
             /\ s # {} => Cardinality(s \ {CHOOSE x \in s : TRUE}) = Cardinality(s) - 1
  <2>1. IsFiniteSet(s) /\ Cardinality(s) <= N
      BY FS_Subset DEF N
  <2>2. Cardinality(s) \in Nat
      BY <2>1, FS_CardinalityType
  <2>3. Cardinality(s) = 0 <=> s = {}
      BY <2>1, FS_EmptySet
  <2>4. ASSUME s # {} PROVE Cardinality(s \ {CHOOSE x \in s : TRUE}) = Cardinality(s) - 1
      BY <1>2, <2>1, <2>4, FS_RemoveElement
  <2>5. QED BY <2>1, <2>2, <2>3, <2>4
<1>10. 0 \in H
  <2>1. ASSUME NEW s \in SUBSET D, Cardinality(s) <= 0 PROVE SumStep(h[0], g, D)[s] = h[0][s]
    <3>1. Cardinality(s) \in Nat /\ (Cardinality(s) = 0 <=> s = {})
        BY <1>9
    <3>2. Cardinality(s) = 0
        BY <2>1, <3>1
    <3>3. s = {}
        BY <3>1, <3>2
    <3>4. QED BY <3>3, <1>8 DEF SumStep
  <2>2. Settled(0)
      BY <2>1
  <2>3. QED BY <1>1, <2>2
<1>11. ASSUME NEW n \in 1 .. N, n - 1 \in H PROVE n \in H
  <2>1. ASSUME NEW s \in SUBSET D, Cardinality(s) <= n PROVE SumStep(h[n], g, D)[s] = h[n][s]
    <3>1. h[n][s] = SumStep(h[n - 1], g, D)[s]
        BY <1>7
    <3>2. CASE s = {}
        BY <3>1, <3>2 DEF SumStep
    <3>3. CASE s # {}
      <4>1. PICK x \in s : x = CHOOSE y \in s : TRUE
          BY <1>2, <3>3
      <4>2. /\ SumStep(h[n], g, D)[s] = g[x] + h[n][s \ {x}]
            /\ SumStep(h[n - 1], g, D)[s] = g[x] + h[n - 1][s \ {x}]
          BY <3>3, <4>1 DEF SumStep
      <4>3. Cardinality(s \ {x}) <= n - 1
          BY <1>1, <1>9, <2>1, <3>3, <4>1
      <4>4. SumStep(h[n - 1], g, D)[s \ {x}] = h[n - 1][s \ {x}]
          BY <1>11, <4>3
      <4>5. h[n][s \ {x}] = h[n - 1][s \ {x}]
          BY <1>7, <4>4
      <4>6. QED BY <3>1, <4>2, <4>5
    <3>4. QED BY <3>2, <3>3
  <2>2. n \in 0 .. N
      OBVIOUS
  <2>3. QED BY <2>1, <2>2
<1>12. Settled(N)
  <2>1. \A n \in 0 .. N : n \in H
    <3> HIDE DEF H
    <3>1. QED BY <1>1, <1>10, <1>11, UpTo
  <2>2. N \in H
      BY <1>1, <2>1
  <2>3. QED BY <2>2
<1>13. h[N] \in [SUBSET D -> Nat]
    BY <1>1, <1>6 DEF S
<1>14. \A s \in SUBSET D : SumStep(h[N], g, D)[s] = h[N][s]
    BY <1>9, <1>12
<1>15. h[N] = SumStep(h[N], g, D)
    BY <1>13, <1>14 DEF SumStep
<1>16. QED BY <1>13, <1>15

(* The sum of natural numbers that FoldFunctionOnSet computes is one. *)
LEMMA SumIsNatural ==
    ASSUME NEW D, IsFiniteSet(D), NEW g \in [D -> Nat]
    PROVE  FoldFunctionOnSet(+, 0, g, D) \in Nat
<1> DEFINE f == CHOOSE f : f = SumStep(f, g, D)
           N == Cardinality(D)
           H == {n \in 0 .. N : \A s \in SUBSET D : Cardinality(s) = n => f[s] \in Nat}
<1>1. FoldFunctionOnSet(+, 0, g, D) = f[D]
    BY DEF FoldFunctionOnSet, MapThenFoldSet, SumStep
<1>2. f = SumStep(f, g, D)
    BY SumExists
<1> HIDE DEF f
<1>3. N \in Nat
    BY FS_CardinalityType
<1>4. 0 \in H
  <2>1. ASSUME NEW s \in SUBSET D, Cardinality(s) = 0 PROVE f[s] \in Nat
    <3>1. s = {}
        BY <2>1, FS_Subset, FS_EmptySet
    <3>2. QED BY <1>2, <3>1 DEF SumStep
  <2>2. QED BY <1>3, <2>1
<1>5. ASSUME NEW n \in 1 .. N, n - 1 \in H PROVE n \in H
  <2>1. ASSUME NEW s \in SUBSET D, Cardinality(s) = n PROVE f[s] \in Nat
    <3>1. IsFiniteSet(s) /\ s # {}
        BY <2>1, FS_Subset, FS_EmptySet
    <3>2. PICK x \in s : x = CHOOSE y \in s : TRUE
        BY <3>1
    <3>3. f[s] = g[x] + f[s \ {x}]
        BY <1>2, <3>1, <3>2 DEF SumStep
    <3>4. Cardinality(s \ {x}) = n - 1
        BY <2>1, <3>1, FS_RemoveElement
    <3>5. f[s \ {x}] \in Nat
        BY <1>5, <3>4
    <3>6. QED BY <3>3, <3>5
  <2>2. n \in 0 .. N
      OBVIOUS
  <2>3. QED BY <2>1, <2>2
<1>6. \A n \in 0 .. N : n \in H
  <2> HIDE DEF H, N
  <2>1. QED BY <1>3, <1>4, <1>5, UpTo
<1>7. f[D] \in Nat
    BY <1>3, <1>6
<1>8. QED BY <1>1, <1>7

-------------------------------------------------------------------------------
(***************************************************************************)
(* The inductive invariant.                                                *)
(***************************************************************************)

(* The free chunks fit in the array, with room for one more.  In the linked list
   behind the array DFreeListRemoveChunk takes ids for flags (lines 365 to 376), and
   files are lost; the theorems are about archives that do not get there. *)
ArrayHasRoom == Len(d.array) < MD_FREE_LIST_ENTRIES

(* The inductive invariant. *)
IInv ==
    /\ Sound(d, stored)
    /\ phase = "idle" => Trimmed(d)
    /\ phase \in {"idle", "insert", "delete"}
    /\ \E paths \in SUBSET Paths : todo \in [paths -> Sizes]

(* The number of blocks CalculateSpace reserves. *)
LEMMA ReservedIsNatural ==
    ASSUME NEW files \in Requests
    PROVE  Reserved(files) \in Nat /\ \E paths \in SUBSET Paths : files \in [paths -> Sizes]
<1>1. PICK paths \in SUBSET Paths : files \in [paths -> Sizes]
    BY DEF Requests
<1>2. IsFiniteSet(DOMAIN files) /\ DOMAIN files = paths
    BY <1>1, DataPartitionAssumption, FS_Subset
<1> DEFINE g == [p \in DOMAIN files |-> DataCaclulateNeededBlocks(files[p])]
<1>3. g \in [DOMAIN files -> Nat]
    BY <1>1, BlockNumbers
<1>4. Reserved(files) = FoldFunctionOnSet(+, 0, g, DOMAIN files)
    BY DEF Reserved
<1> HIDE DEF g
<1>5. QED BY <1>1, <1>2, <1>3, <1>4, SumIsNatural

(* DataInit makes a sound partition of blocks with no file in them. *)
LEMMA DataInitIsSound ==
    ASSUME NEW n \in Nat \ {0}, n <= MaxDataBlocks, NEW none, none = <<>>
    PROVE  Sound(DataInit(n), none)
<1> DEFINE blank == [b \in BlockIds |-> BlankBlock]
           p == [size |-> n, block |-> blank, array |-> <<>>, list_head |-> 0, list_flag |-> 0]
           e == Entry(1, n - 1)
<1>1. DataInit(n) = IF n > 1 THEN InsertChunk(p, 1, n - 1) ELSE p
    BY DEF DataInit
<1>2. PICK a : a = <<>>
    OBVIOUS
<1>3. IsArray(a) /\ Len(a) = 0 /\ ToSet(a) = {} /\ MD_FREE_LIST_ENTRIES \in Nat \ {0, 1}
    BY <1>2, EmptyArray, DataPartitionAssumption
<1>4. blank \in [BlockIds -> BlockType]
    BY Numbers DEF BlankBlock, BlockType
<1> HIDE DEF blank
<1>5. p = [size |-> n, block |-> blank, array |-> a, list_head |-> 0, list_flag |-> 0]
    BY <1>2
<1>6. p \in PartitionType /\ p.size = n /\ p.array = a
  <2>1. n \in 1 .. MaxDataBlocks /\ 0 \in BlockIds
      BY Numbers
  <2>2. QED BY <1>3, <1>4, <1>5, <2>1 DEF PartitionType, IsArray
<1> HIDE DEF p
<1>7. Typed(p)
    BY <1>3, <1>6 DEF Typed
<1>8. DOMAIN none = {} /\ Owned(none) = {} /\ AreFiles(none)
    BY DEF Owned, AreFiles
<1>9. Tagged(p, none) /\ Merged(ToSet(p.array))
    BY <1>3, <1>6, <1>8 DEF Tagged, Merged
<1>10. CASE n = 1
  <2>1. Owned(none) \cup ToSet(p.array) \cup {} = {}
      BY <1>3, <1>6, <1>8
  <2>2. Shared(p.size, ToSet(p.array), {}, none)
      BY <1>6, <1>8, <1>10, <2>1, NoTiles DEF Shared
  <2>3. DataInit(n) = p
      BY <1>1, <1>10
  <2>4. QED BY <1>7, <1>8, <1>9, <2>2, <2>3 DEF Sound, Pending
<1>11. CASE n # 1
  <2>1. n - 1 \in Nat \ {0} /\ (n - 1) + 1 = n
      BY <1>11
  <2>2. e.chunk = 1 /\ e.count = n - 1
      BY <2>1, EntryFields
  <2> HIDE DEF e
  <2>3. Tiles(n, {e})
      BY <2>1, FirstTile DEF e
  <2>4. Owned(none) \cup ToSet(p.array) = {} /\ Owned(none) \cup ToSet(p.array) \cup {e} = {e}
      BY <1>3, <1>6, <1>8
  <2>5. Shared(p.size, ToSet(p.array), {e}, none)
      BY <1>6, <1>8, <2>3, <2>4 DEF Shared
  <2>6. Pending(p, {e}, none)
      BY <1>7, <1>8, <1>9, <2>5 DEF Pending
  <2>7. Alone(p, e) /\ Len(p.array) < MD_FREE_LIST_ENTRIES
      BY <1>3, <1>6 DEF Alone
  <2>8. Pending(InsertChunk(p, e.chunk, e.count), {e} \ {e}, none)
      BY <2>6, <2>7, ListedIsFree
  <2>9. {e} \ {e} = {} /\ DataInit(n) = InsertChunk(p, e.chunk, e.count)
      BY <1>1, <1>11, <2>2
  <2>10. QED BY <2>8, <2>9 DEF Sound
<1>12. QED BY <1>10, <1>11

LEMMA InitInv == Init => IInv
<1> SUFFICES ASSUME Init PROVE IInv
    OBVIOUS
<1> DEFINE n == Reserved(todo) + 1
<1>1. Reserved(todo) \in Nat /\ \E paths \in SUBSET Paths : todo \in [paths -> Sizes]
    BY ReservedIsNatural DEF Init
<1>2. n \in Nat \ {0} /\ n <= MaxDataBlocks /\ d = DataInit(n) /\ stored = <<>>
    BY <1>1 DEF Init
<1> HIDE DEF n
<1>3. Sound(d, stored)
    BY <1>2, DataInitIsSound
<1>4. QED BY <1>1, <1>3 DEF IInv, Init

(* Every command keeps the invariant, one path after the other. *)
LEMMA NextInv == IInv /\ ArrayHasRoom /\ [Next]_vars => IInv'
<1> SUFFICES ASSUME IInv, ArrayHasRoom, [Next]_vars PROVE IInv'
    OBVIOUS
<1>1. /\ Sound(d, stored) /\ phase \in {"idle", "insert", "delete"}
      /\ phase = "idle" => Trimmed(d)
      /\ DOMAIN stored \subseteq Paths
      /\ d \in PartitionType
    BY DEF IInv, Sound, Pending, AreFiles, Typed
<1>2. PICK paths \in SUBSET Paths : todo \in [paths -> Sizes]
    BY DEF IInv
<1>3. Len(d.array) < MD_FREE_LIST_ENTRIES
    BY DEF ArrayHasRoom
<1>4. ASSUME NEW files \in Requests, CIBAppend(files) PROVE IInv'
  <2>1. Reserved(files) \in Nat /\ \E names \in SUBSET Paths : files \in [names -> Sizes]
      BY ReservedIsNatural
  <2>2. /\ Trimmed(d) /\ d.size + Reserved(files) <= MaxDataBlocks
        /\ d' = GrowBy(d, Reserved(files)) /\ stored' = stored
        /\ phase' = "insert" /\ todo' = files
      BY <1>1, <1>4 DEF CIBAppend
  <2>3. Sound(d', stored')
      BY <1>1, <1>3, <2>1, <2>2, GrowByIsSound
  <2>4. QED BY <2>1, <2>2, <2>3 DEF IInv
<1>5. ASSUME NEW path \in Paths, todo' = [p \in DOMAIN todo \ {path} |-> todo[p]]
      PROVE  \E names \in SUBSET Paths : todo' \in [names -> Sizes]
  <2>1. paths \ {path} \in SUBSET Paths /\ todo' \in [paths \ {path} -> Sizes]
      BY <1>2, <1>5
  <2>2. QED BY <2>1
<1>6. ASSUME NEW path \in Paths, NEW zipped \in Compress, NEW size \in Sizes,
             InsertPath(path, zipped, size)
      PROVE  IInv'
  <2> DEFINE rest == [q \in DOMAIN stored \ {path} |-> stored[q]]
             freed == IF path \in DOMAIN stored THEN DeleteFile(d, stored[path].block) ELSE d
             insert == InsertBytes(freed, path, size, zipped)
             f == [block |-> insert.block, size |-> size, zipped |-> zipped]
  <2>1. /\ insert.d.size <= MaxDataBlocks /\ d' = insert.d
        /\ stored' = [p \in DOMAIN stored \cup {path} |-> IF p = path THEN f ELSE stored[p]]
        /\ todo' = [p \in DOMAIN todo \ {path} |-> todo[p]]
        /\ phase' = "insert"
      BY <1>6 DEF InsertPath
  <2>2. Sound(freed, rest)
    <3>1. CASE path \in DOMAIN stored
        BY <1>1, <1>3, <3>1, DeleteFileIsSound
    <3>2. CASE path \notin DOMAIN stored
      <4>1. DOMAIN rest = DOMAIN stored /\ \A q \in DOMAIN stored : rest[q] = stored[q]
          BY <3>2
      <4> HIDE DEF rest
      <4>2. Owned(rest) = Owned(stored)
          BY <4>1 DEF Owned
      <4>3. Sound(d, rest)
          BY <1>1, <4>1, <4>2 DEF Sound, Pending, AreFiles, Shared, Tagged
      <4>4. QED BY <3>2, <4>3
    <3>3. QED BY <3>1, <3>2
  <2>3. path \in Paths \ DOMAIN rest /\ zipped \in BOOLEAN
      BY DataPartitionAssumption
  <2>4. Sound(insert.d, Added(rest, path, f))
    <3> HIDE DEF rest, freed
    <3>1. QED BY <2>1, <2>2, <2>3, InsertBytesIsSound
  <2>5. Added(rest, path, f) = stored'
    <3>1. DOMAIN rest \cup {path} = DOMAIN stored \cup {path}
        OBVIOUS
    <3>2. \A q \in DOMAIN stored \cup {path} : q # path => rest[q] = stored[q]
        OBVIOUS
    <3> HIDE DEF rest, f
    <3>3. QED BY <2>1, <3>1, <3>2 DEF Added
  <2>6. \E names \in SUBSET Paths : todo' \in [names -> Sizes]
      BY <1>5, <2>1
  <2> HIDE DEF insert, f, rest
  <2>7. Sound(d', stored')
      BY <2>1, <2>4, <2>5
  <2>8. QED BY <2>1, <2>6, <2>7 DEF IInv
<1>7. ASSUME NEW path \in Paths, SkipPath(path) PROVE IInv'
    BY <1>1, <1>5, <1>7 DEF SkipPath, IInv
<1>8. CASE CIBDelete
    BY <1>1, <1>2, <1>8 DEF CIBDelete, IInv
<1>9. ASSUME NEW path \in Paths, DeletePath(path) PROVE IInv'
  <2>1. /\ path \in DOMAIN stored /\ d' = DeleteFile(d, stored[path].block)
        /\ stored' = [p \in DOMAIN stored \ {path} |-> stored[p]]
        /\ phase' = "delete" /\ todo' = todo
      BY <1>9 DEF DeletePath
  <2>2. Sound(d', stored')
      BY <1>1, <1>3, <2>1, DeleteFileIsSound
  <2>3. QED BY <1>2, <2>1, <2>2 DEF IInv
<1>10. CASE Finish
  <2>1. d' = RemoveLastChunk(d) /\ stored' = stored /\ phase' = "idle" /\ todo' = todo
      BY <1>10 DEF Finish
  <2>2. Sound(d', stored') /\ Trimmed(d')
      BY <1>1, <2>1, RemoveLastChunkIsSound
  <2>3. QED BY <1>2, <2>1, <2>2 DEF IInv
<1>11. CASE UNCHANGED vars
    BY <1>11 DEF vars, IInv
<1>12. QED BY <1>4, <1>6, <1>7, <1>8, <1>9, <1>10, <1>11 DEF Next

(* As long as the free chunks fit in the array, the invariant holds. *)
THEOREM ArrayInvariance == Spec /\ []ArrayHasRoom => []IInv
<1>1. Init => IInv
    BY InitInv
<1>2. IInv /\ ArrayHasRoom /\ [Next]_vars => IInv'
    BY NextInv
<1>3. QED BY <1>1, <1>2, PTL DEF Spec

-------------------------------------------------------------------------------

(* With no linked list the free list is its array. *)
LEMMA ListedIsArray ==
    ASSUME NEW p \in PartitionType
    PROVE  Listed(p) = p.array
<1> DEFINE links == [i \in DOMAIN LinkedList(p) |->
                       Entry(LinkedList(p)[i], p.block[LinkedList(p)[i]].block_count)]
<1>1. DOMAIN LinkedList(p) = {}
    BY NoLinkedList
<1>2. links = <<>>
    BY <1>1
<1>3. p.array \in Seq(Chunks)
    BY DEF PartitionType
<1>4. p.array \o <<>> = p.array
    BY <1>3, ConcatEmptySeq
<1>5. QED BY <1>2, <1>4 DEF Listed

(* The invariant, in the words of the properties. *)
LEMMA InvFacts ==
    ASSUME IInv
    PROVE  /\ Sound(d, stored) /\ Pending(d, {}, stored)
           /\ d \in PartitionType /\ IsArray(d.array)
           /\ AreFiles(stored) /\ Tagged(d, stored) /\ Merged(ToSet(d.array))
           /\ Tiles(d.size, FileChunks \cup FreeChunks)
           /\ FileChunks = Owned(stored) /\ FreeChunks = ToSet(d.array)
           /\ FreeEntries = d.array
           /\ \A p, q \in DOMAIN stored : stored[p].block = stored[q].block => p = q
<1>1. /\ Sound(d, stored) /\ Pending(d, {}, stored)
      /\ d \in PartitionType /\ IsArray(d.array)
      /\ AreFiles(stored) /\ Tagged(d, stored) /\ Merged(ToSet(d.array))
      /\ \A p, q \in DOMAIN stored : stored[p].block = stored[q].block => p = q
      /\ Tiles(d.size, Owned(stored) \cup ToSet(d.array) \cup {})
    BY DEF IInv, Sound, Pending, Typed, Shared
<1>2. FreeEntries = d.array /\ FreeChunks = ToSet(d.array)
    BY <1>1, ListedIsArray DEF FreeEntries, FreeChunks
<1>3. FileChunks = Owned(stored)
    BY DEF FileChunks, Owned, ChunkOf
<1>4. Owned(stored) \cup ToSet(d.array) \cup {} = FileChunks \cup FreeChunks
    BY <1>2, <1>3
<1>5. QED BY <1>1, <1>2, <1>3, <1>4

(* The invariant implies the properties of the component, one after the other. *)
LEMMA InvTypes == IInv => TypeOK
<1> SUFFICES ASSUME IInv PROVE TypeOK
    OBVIOUS
<1>1. /\ d.size \in 1 .. MaxDataBlocks /\ d.block \in [BlockIds -> BlockType]
      /\ d.array \in Seq(Chunks) /\ d.list_head \in BlockIds /\ d.list_flag \in {0, 1}
    BY InvFacts DEF PartitionType
<1>2. Len(d.array) <= MD_FREE_LIST_ENTRIES
    BY InvFacts DEF Pending, Typed
<1>3. ASSUME NEW p \in DOMAIN stored
      PROVE  stored[p] \in [block : 1 .. d.size - 1, size : Sizes, zipped : BOOLEAN]
  <2> DEFINE c == ChunkOf(stored[p])
  <2>1. /\ stored[p] \in [block : Nat \ {0}, size : Sizes, zipped : BOOLEAN]
        /\ c.chunk = stored[p].block
      BY InvFacts, FileChunk DEF AreFiles
  <2>2. c \in FileChunks \cup FreeChunks
      BY InvFacts DEF Owned
  <2> HIDE DEF c
  <2>3. c.chunk \in Nat \ {0} /\ c.count \in Nat \ {0} /\ c.chunk + c.count <= d.size
      BY <2>2, InvFacts DEF Tiles
  <2>4. stored[p].block \in 1 .. d.size - 1
      BY <1>1, <2>1, <2>3
  <2>5. QED BY <2>1, <2>4
<1>4. DOMAIN stored \subseteq Paths
    BY InvFacts DEF AreFiles
<1>5. QED BY <1>1, <1>2, <1>3, <1>4 DEF TypeOK, IInv, BlockType, Chunks

LEMMA InvTiled == IInv => PartitionIsTiled
<1> SUFFICES ASSUME IInv PROVE PartitionIsTiled
    OBVIOUS
<1> DEFINE S == FileChunks \cup FreeChunks
<1>1. Tiles(d.size, S) /\ d.size \in Nat
    BY InvFacts, Numbers DEF PartitionType
<1> HIDE DEF S
<1>2. ASSUME NEW b \in 1 .. d.size - 1
      PROVE  Cardinality({c \in S : b \in Span(c)}) = 1
  <2>1. PICK e \in S : InChunk(e, b)
      BY <1>1 DEF Tiles
  <2>2. b \in Nat
      BY <1>1
  <2>3. ASSUME NEW c \in S PROVE b \in Span(c) <=> InChunk(c, b)
    <3>1. c.chunk \in Nat /\ c.count \in Nat
        BY <1>1 DEF Tiles
    <3>2. QED BY <2>2, <3>1 DEF Span, InChunk
  <2>4. \A c \in S : InChunk(c, b) => c = e
      BY <1>1, <2>1, <2>2, OneChunkPerBlock
  <2>5. {c \in S : b \in Span(c)} = {e}
      BY <2>1, <2>3, <2>4
  <2>6. QED BY <2>5, FS_Singleton
<1>3. \A i, j \in DOMAIN FreeEntries : i # j => FreeEntries[i].chunk # FreeEntries[j].chunk
    BY InvFacts, ArrayElements DEF IsArray
<1>4. \A p, q \in DOMAIN stored : p # q => stored[p].block # stored[q].block
    BY InvFacts
<1>5. QED BY <1>2, <1>3, <1>4 DEF PartitionIsTiled, S

LEMMA InvTags == IInv => BoundaryTagsAgree
<1> SUFFICES ASSUME IInv PROVE BoundaryTagsAgree
    OBVIOUS
<1>1. ASSUME NEW c \in FileChunks \cup FreeChunks
      PROVE  /\ d.block[c.chunk].block_count = c.count
             /\ d.block[c.chunk + c.count - 1].last8 = c.count
             /\ c \in FreeChunks <=> d.block[c.chunk].used = 0
  <2>1. c.chunk + c.count - 1 = (c.chunk + c.count) - 1
    <3>1. c.chunk \in Nat /\ c.count \in Nat
        BY InvFacts DEF Tiles
    <3>2. QED BY <3>1
  <2>2. QED BY <2>1, InvFacts, HeadersTell
<1>2. ASSUME NEW c \in FileChunks PROVE d.block[c.chunk].used = 1
  <2>1. PICK q \in DOMAIN stored : c = ChunkOf(stored[q])
      BY InvFacts DEF Owned
  <2>2. c.chunk = stored[q].block
      BY <2>1, InvFacts, FileChunk
  <2>3. QED BY <2>2, InvFacts DEF Tagged, FileTags
<1>3. QED BY <1>1, <1>2 DEF BoundaryTagsAgree

LEMMA InvFiles == IInv => FilesAreIntact
<1> SUFFICES ASSUME IInv, NEW p \in DOMAIN stored
             PROVE  Extracted(stored[p].block) =
                      [size |-> stored[p].size, zipped |-> stored[p].zipped, data |-> {p}]
    BY DEF FilesAreIntact
<1> DEFINE f == stored[p]
           o == OccupiedBlocks(f.size)
<1>1. /\ f.block \in Nat \ {0} /\ o \in Nat \ {0}
    BY InvFacts, FileChunk
<1>2. /\ d.block[f.block].previous_block = f.size
      /\ (d.block[f.block].next_flag = 1) = f.zipped
      /\ \A b \in f.block .. (f.block + o) - 1 : d.block[b].data = p
    BY InvFacts DEF Tagged, FileTags
<1> HIDE DEF o, f
<1>3. f.block \in f.block .. (f.block + o) - 1 /\ f.block + o - 1 = (f.block + o) - 1
    BY <1>1
<1>4. {d.block[b].data : b \in f.block .. f.block + o - 1} = {p}
    BY <1>2, <1>3
<1>5. Extracted(f.block) =
        [size |-> f.size, zipped |-> d.block[f.block].next_flag = 1,
         data |-> {d.block[b].data : b \in f.block .. f.block + o - 1}]
    BY <1>2 DEF Extracted, o
<1>6. QED BY <1>2, <1>4, <1>5 DEF f

LEMMA InvSorted == IInv => FreeListIsSorted
<1> SUFFICES ASSUME IInv, NEW i \in 1 .. Len(FreeEntries) - 1
             PROVE  FreeEntries[i].count >= FreeEntries[i + 1].count
    BY DEF FreeListIsSorted
<1>1. FreeEntries = d.array /\ IsArray(d.array) /\ Len(d.array) \in Nat
    BY InvFacts, ArrayElements
<1>2. i \in 1 .. Len(d.array) /\ i + 1 \in 1 .. Len(d.array) /\ i < i + 1
    BY <1>1
<1>3. QED BY <1>1, <1>2 DEF IsArray

LEMMA InvRemoves == IInv => RemovesOnlyThatChunk
<1> SUFFICES ASSUME IInv, NEW c \in FreeChunks
             PROVE  ToSet(Listed(RemoveChunk(d, c.chunk))) = FreeChunks \ {c}
    BY DEF RemovesOnlyThatChunk
<1>1. Pending(d, {}, stored) /\ c \in ToSet(d.array) /\ FreeChunks = ToSet(d.array)
    BY InvFacts
<1>2. /\ Pending(RemoveChunk(d, c.chunk), {} \cup {c}, stored)
      /\ ToSet(RemoveChunk(d, c.chunk).array) = ToSet(d.array) \ {c}
    BY <1>1, UnlistedIsPending
<1>3. RemoveChunk(d, c.chunk) \in PartitionType
    BY <1>2 DEF Pending, Typed
<1>4. QED BY <1>1, <1>2, <1>3, ListedIsArray

LEMMA InvMerged == IInv => FreeChunksAreMerged
BY InvFacts DEF FreeChunksAreMerged, Merged

LEMMA InvTrimmed == IInv => IdleMeansTrimmed
BY InvFacts DEF IdleMeansTrimmed, IInv, Trimmed

-------------------------------------------------------------------------------

(* Free chunks are no neighbours, so that each has a block of its own and one behind
   it, and there are at most half as many of them as blocks. *)
LEMMA HalfOfThemAreFree ==
    ASSUME IInv
    PROVE  2 * Len(d.array) <= d.size
<1> DEFINE n == Len(d.array)
           E == ToSet(d.array)
           A == {c.chunk : c \in E}
           B == {c.chunk + c.count : c \in E}
           f == [i \in 1 .. n |-> d.array[i].chunk]
           g == [i \in 1 .. n |-> d.array[i].chunk + d.array[i].count]
<1>1. /\ n \in Nat /\ E = {d.array[i] : i \in 1 .. n} /\ d.size \in Nat
      /\ Tiles(d.size, FileChunks \cup FreeChunks) /\ E = FreeChunks
      /\ \A i, j \in 1 .. n : d.array[i].chunk = d.array[j].chunk => i = j
    BY InvFacts, ArrayElements, Numbers DEF IsArray, PartitionType
<1> HIDE DEF n, E
<1>2. \A c \in E : /\ c \in [chunk : Nat \ {0}, count : Nat \ {0}]
                   /\ c.chunk \in Nat \ {0} /\ c.count \in Nat \ {0}
                   /\ c.chunk + c.count <= d.size
    BY <1>1 DEF Tiles
<1>3. \A i \in 1 .. n : d.array[i] \in E
    BY <1>1
<1>4. f \in [1 .. n -> A] /\ \A a \in A : \E i \in 1 .. n : f[i] = a
    BY <1>1, <1>3
<1>5. \A i, j \in 1 .. n : f[i] = f[j] => i = j
    BY <1>1
<1>6. g \in [1 .. n -> B] /\ \A b \in B : \E i \in 1 .. n : g[i] = b
    BY <1>1, <1>3
<1>7. ASSUME NEW i \in 1 .. n, NEW j \in 1 .. n, g[i] = g[j] PROVE i = j
  <2> DEFINE c == d.array[i]
             e == d.array[j]
             S == FileChunks \cup FreeChunks
             b == (c.chunk + c.count) - 1
  <2>1. c \in E /\ e \in E /\ c \in S /\ e \in S /\ c.chunk + c.count = e.chunk + e.count
      BY <1>1, <1>3, <1>7
  <2>2. InChunk(c, b) /\ InChunk(e, b) /\ b \in Nat
      BY <1>2, <2>1 DEF InChunk
  <2>3. Tiles(d.size, S) /\ d.size \in Nat
      BY <1>1
  <2> HIDE DEF S, b, c, e
  <2>4. c = e
      BY <2>1, <2>2, <2>3, OneChunkPerBlock
  <2>5. QED BY <1>1, <2>4 DEF c, e
<1>8. Cardinality(1 .. n) = n /\ IsFiniteSet(1 .. n)
    BY <1>1, FS_Interval
<1> HIDE DEF f, g
<1>9. f \in Bijection(1 .. n, A) /\ g \in Bijection(1 .. n, B)
    BY <1>4, <1>5, <1>6, <1>7 DEF Bijection, Injection, Surjection, IsInjective
<1>10. /\ IsFiniteSet(A) /\ Cardinality(A) = n /\ IsFiniteSet(B) /\ Cardinality(B) = n
    BY <1>8, <1>9, FS_Bijection DEF ExistsBijection
<1>11. A \cap B = {}
    BY InvFacts, <1>1 DEF Merged
<1>12. A \cup B \subseteq 1 .. d.size
  <2>1. \A c \in E : c.chunk \in 1 .. d.size /\ c.chunk + c.count \in 1 .. d.size
      BY <1>1, <1>2
  <2>2. QED BY <2>1
<1>13. Cardinality(1 .. d.size) = d.size /\ IsFiniteSet(1 .. d.size)
    BY <1>1, FS_Interval
<1> HIDE DEF A, B
<1>14. Cardinality(A \cup B) = n + n
  <2>1. Cardinality(A \cap B) = 0
      BY <1>11, FS_EmptySet
  <2>2. Cardinality(A \cup B) = Cardinality(A) + Cardinality(B) - Cardinality(A \cap B)
      BY <1>10, FS_Union
  <2>3. QED BY <1>1, <1>10, <2>1, <2>2
<1>15. Cardinality(A \cup B) <= Cardinality(1 .. d.size)
    BY <1>12, <1>13, FS_Subset
<1>16. QED BY <1>1, <1>13, <1>14, <1>15 DEF n

-------------------------------------------------------------------------------
(* DFreeListRequestChunk takes the smallest chunk that is large enough; x is what is
   left of it. *)
LEMMA RequestTakesBestFit ==
    ASSUME NEW p, NEW files, Sound(p, files), NEW n \in Nat \ {0},
           NEW request, request = RequestChunk(p, n),
           NEW c \in ToSet(request.d.array), c.chunk # request.block + n, c.count >= n
    PROVE  /\ request.d.size = p.size
           /\ \A x \in ToSet(request.d.array) :
                x.chunk = request.block + n => c.count >= n + x.count
<1>1. p \in PartitionType /\ IsArray(p.array) /\ Len(p.array) <= MD_FREE_LIST_ENTRIES
    BY DEF Sound, Pending, Typed
<1>2. \A x \in ToSet(p.array) : x.chunk \in Nat \ {0} /\ x.count \in Nat \ {0}
    BY ChunkSizes DEF Sound
<1>3. CASE p.array # <<>> /\ p.array[1].count >= n
  <2> DEFINE k == BestFit(p, n)
             t == p.array[k]
             q == RemoveChunk(p, t.chunk)
             r == Entry(t.chunk + n, t.count - n)
  <2>1. /\ k \in 1 .. Len(p.array) /\ t.count >= n
        /\ \A i \in 1 .. Len(p.array) : i > k => p.array[i].count < n
      BY <1>1, <1>3, BestFitFits
  <2>2. t \in ToSet(p.array)
      BY <1>1, <2>1, ArrayElements
  <2>3. request = [block |-> t.chunk,
                   d |-> IF t.count = n THEN q ELSE InsertChunk(q, r.chunk, r.count)]
      BY <1>3 DEF RequestChunk, FitsExactly, Remainder
  <2>4. ASSUME NEW x \in ToSet(p.array), x.count >= n PROVE x.count >= t.count
    <3>1. PICK i \in 1 .. Len(p.array) : x = p.array[i]
        BY <1>1, ArrayElements
    <3>2. i <= k
        BY <1>1, <1>2, <2>1, <2>4, <3>1, ArrayElements
    <3>3. i = k \/ i < k
        BY <1>1, <2>1, <3>2, ArrayElements
    <3>4. CASE i = k
        BY <1>2, <2>2, <3>1, <3>4
    <3>5. CASE i < k
        BY <1>1, <2>1, <3>1, <3>5 DEF IsArray
    <3>6. QED BY <3>3, <3>4, <3>5
  <2> HIDE DEF k, t, r
  <2>5. /\ Pending(q, {} \cup {t}, files) /\ ToSet(q.array) = ToSet(p.array) \ {t}
        /\ q.size = p.size /\ Len(q.array) = Len(p.array) - 1
      BY <2>2, UnlistedIsPending DEF Sound
  <2> HIDE DEF q
  <2>6. /\ t.chunk \in Nat \ {0} /\ t.count \in Nat \ {0} /\ {} \cup {t} = {t}
        /\ request.block = t.chunk
        /\ request.d = IF t.count = n THEN q ELSE InsertChunk(q, r.chunk, r.count)
      BY <1>2, <2>2, <2>3
  <2>7. \A x \in ToSet(p.array) : x.chunk # t.chunk + t.count
      BY <2>2 DEF Sound, Pending, Merged
  <2>8. CASE t.count = n
      BY <2>5, <2>6, <2>7, <2>8
  <2>9. CASE t.count # n
    <3>1. n < t.count
        BY <2>1, <2>6, <2>9
    <3>2. Alone(q, t)
        BY <2>2, <2>5 DEF Alone, Sound, Pending, Merged
    <3> DEFINE l == Entry(t.chunk, n)
    <3>3. Pending(q, {l, r}, files) /\ Alone(q, r) /\ r.chunk = t.chunk + n /\ r.count = t.count - n
        BY <2>5, <2>6, <3>1, <3>2, CutArePending DEF r
    <3>4. Len(q.array) < MD_FREE_LIST_ENTRIES
      <4>1. Len(p.array) \in Nat /\ MD_FREE_LIST_ENTRIES \in Nat
          BY <1>1, ArrayElements, DataPartitionAssumption
      <4>2. QED BY <1>1, <2>5, <4>1
    <3> HIDE DEF l
    <3>5. /\ ToSet(request.d.array) = ToSet(q.array) \cup {r}
          /\ request.d.size = q.size
      <4> DEFINE M == {l, r}
      <4>1. Pending(q, M, files) /\ r \in M /\ Alone(q, r)
          BY <3>3
      <4> HIDE DEF M
      <4>2. /\ InsertChunk(q, r.chunk, r.count).size = q.size
            /\ ToSet(InsertChunk(q, r.chunk, r.count).array) = ToSet(q.array) \cup {r}
          BY <3>4, <4>1, ListedIsFree
      <4>3. request.d = InsertChunk(q, r.chunk, r.count)
          BY <2>6, <2>9
      <4>4. QED BY <4>2, <4>3
    <3>6. r \notin ToSet(q.array) /\ \A x \in ToSet(q.array) : x.chunk # t.chunk + n
      <4>1. ASSUME NEW x \in ToSet(q.array), x.chunk = t.chunk + n PROVE FALSE
        <5> DEFINE S == Owned(files) \cup ToSet(q.array) \cup {l, r}
        <5>1. Tiles(q.size, S) /\ x \in S /\ r \in S /\ x # r /\ q.size \in Nat
          <6>1. q.size \in Nat
              BY <3>3, ChunkSizes
          <6>2. QED BY <3>3, <6>1 DEF Pending, Shared
        <5>2. InChunk(x, t.chunk + n) /\ InChunk(r, t.chunk + n) /\ t.chunk + n \in Nat
          <6>1. x.count \in Nat \ {0} /\ r.count \in Nat \ {0}
              BY <3>3, ChunkSizes
          <6>2. QED BY <2>6, <3>3, <4>1, <6>1 DEF InChunk
        <5> HIDE DEF S
        <5>3. x = r
            BY <5>1, <5>2, OneChunkPerBlock
        <5>4. QED BY <5>1, <5>3
      <4>2. QED BY <3>3, <4>1
    <3>7. c \in ToSet(p.array) /\ c.count >= t.count /\ c.count \in Nat
      <4>1. c \in ToSet(q.array)
          BY <2>6, <3>3, <3>5
      <4>2. QED BY <1>2, <2>4, <2>5, <4>1
    <3>8. ASSUME NEW x \in ToSet(request.d.array), x.chunk = request.block + n
          PROVE  c.count >= n + x.count
      <4>1. x = r
          BY <2>6, <3>5, <3>6, <3>8
      <4>2. QED BY <2>6, <3>3, <3>7, <4>1
    <3>9. QED BY <2>5, <3>5, <3>8
  <2>10. QED BY <2>8, <2>9
<1>4. CASE ~(p.array # <<>> /\ p.array[1].count >= n)
  <2> DEFINE q == [p EXCEPT !.size = p.size + n]
  <2>1. request = [block |-> p.size, d |-> q]
      BY <1>4 DEF RequestChunk
  <2>2. request.d.array = p.array
      BY <1>1, <2>1 DEF PartitionType
  <2>3. PICK i \in 1 .. Len(p.array) : c = p.array[i]
      BY <1>1, <2>2, ArrayElements
  <2>4. p.array # <<>> /\ 1 \in 1 .. Len(p.array) /\ (i = 1 \/ 1 < i)
    <3> DEFINE m == Len(p.array)
    <3>1. m \in Nat /\ i \in 1 .. m
        BY <1>1, ArrayElements
    <3>2. p.array # <<>>
        BY <3>1, EmptySeq
    <3> HIDE DEF m
    <3>3. 1 \in 1 .. m /\ (i = 1 \/ 1 < i)
        BY <3>1
    <3>4. QED BY <3>2, <3>3 DEF m
  <2>5. p.array[1].count >= c.count
    <3>1. CASE i = 1
        BY <1>2, <2>2, <2>3, <3>1
    <3>2. CASE 1 < i
        BY <1>1, <2>3, <2>4, <3>2 DEF IsArray
    <3>3. QED BY <2>4, <3>1, <3>2
  <2>6. p.array[1].count \in Nat /\ c.count \in Nat
      BY <1>1, <1>2, <2>2, <2>4, ArrayElements
  <2>7. QED BY <1>4, <2>4, <2>5, <2>6
<1>5. QED BY <1>3, <1>4

(* So does storing a path, after its older version has been deleted. *)
LEMMA InsertedInBestFit ==
    ASSUME IInv, ArrayHasRoom, d' \in PartitionType,
           NEW path \in Paths, NEW size \in Sizes, NEW zipped \in Compress,
           InsertPath(path, zipped, size),
           NEW c \in FreeChunks', c.chunk # stored'[path].block + RequiredBlocks(size),
           c.count >= RequiredBlocks(size)
    PROVE  /\ d'.size = d.size
           /\ \A x \in FreeChunks' : x.chunk = stored'[path].block + RequiredBlocks(size)
                => c.count >= RequiredBlocks(size) + x.count
<1> DEFINE n == RequiredBlocks(size)
           rest == [q \in DOMAIN stored \ {path} |-> stored[q]]
           freed == IF path \in DOMAIN stored THEN DeleteFile(d, stored[path].block) ELSE d
           insert == InsertBytes(freed, path, size, zipped)
           request == RequestChunk(freed, n)
<1>1. /\ Sound(d, stored) /\ Len(d.array) < MD_FREE_LIST_ENTRIES
      /\ n \in Nat \ {0}
    BY BlockNumbers DEF IInv, ArrayHasRoom
<1>2. (\E files : Sound(freed, files)) /\ freed.size = d.size
  <2>1. CASE path \in DOMAIN stored
      BY <1>1, <2>1, DeleteFileIsSound
  <2>2. CASE path \notin DOMAIN stored
      BY <1>1, <2>2
  <2>3. QED BY <2>1, <2>2
<1>3. /\ d' = insert.d /\ stored'[path].block = insert.block
  <2> DEFINE f == [block |-> insert.block, size |-> size, zipped |-> zipped]
  <2>1. /\ d' = insert.d
        /\ stored' = [p \in DOMAIN stored \cup {path} |-> IF p = path THEN f ELSE stored[p]]
      BY DEF InsertPath
  <2>2. f.block = insert.block
      OBVIOUS
  <2> HIDE DEF f, insert
  <2>3. QED BY <2>1, <2>2
<1>4. FreeChunks' = ToSet(d'.array)
    BY ListedIsArray DEF FreeChunks, FreeEntries
<1>5. /\ insert.block = request.block
      /\ \E x : insert.d = [request.d EXCEPT !.block = x]
    BY DEF InsertBytes
<1>6. PICK files : Sound(freed, files)
    BY <1>2
<1> HIDE DEF n, freed, insert, request
<1>7. /\ insert.d.size = request.d.size
      /\ insert.d.array = request.d.array
    BY <1>1, <1>5, <1>6, RequestedIsPending DEF request
<1>8. c \in ToSet(request.d.array) /\ c.chunk # request.block + n /\ c.count >= n
    BY <1>3, <1>4, <1>5, <1>7 DEF n
<1>9. /\ request.d.size = freed.size
      /\ \A x \in ToSet(request.d.array) :
           x.chunk = request.block + n => c.count >= n + x.count
    BY <1>1, <1>6, <1>8, RequestTakesBestFit DEF request
<1>10. QED BY <1>2, <1>3, <1>4, <1>5, <1>7, <1>9 DEF n

-------------------------------------------------------------------------------
(***************************************************************************)
(* The theorems.  All but the last two are about behaviours in which the   *)
(* free chunks fit in the array; these two show that they do fit in small  *)
(* archives, and that there the properties hold of every behaviour.        *)
(***************************************************************************)
(* The partition, its free list and the directory entries keep their types, and no
   block of theirs lies outside the file. *)
THEOREM TypeCorrectness == Spec /\ []ArrayHasRoom => []TypeOK
BY ArrayInvariance, InvTypes, PTL

(* Every block belongs to exactly one file or is free once: splitting, merging and
   truncating lose no block and give none to two owners. *)
THEOREM BlocksHaveOneOwner == Spec /\ []ArrayHasRoom => []PartitionIsTiled
BY ArrayInvariance, InvTiled, PTL

(* What DataDeleteFile reads of the neighbours of a chunk is never stale. *)
THEOREM TagsAreRight == Spec /\ []ArrayHasRoom => []BoundaryTagsAgree
BY ArrayInvariance, InvTags, PTL

(* Whatever was stored, replaced and deleted since, DataExtractFile gives back what
   was stored. *)
THEOREM ExtractedAsStored == Spec /\ []ArrayHasRoom => []FilesAreIntact
BY ArrayInvariance, InvFiles, PTL

(* The free list is sorted, as the search of DFreeListRequestChunk needs it. *)
THEOREM ListStaysSorted == Spec /\ []ArrayHasRoom => []FreeListIsSorted
BY ArrayInvariance, InvSorted, PTL

(* DFreeListRemoveChunk removes the chunk it is asked to remove, and no other. *)
THEOREM RemovalIsExact == Spec /\ []ArrayHasRoom => []RemovesOnlyThatChunk
BY ArrayInvariance, InvRemoves, PTL

(* DataDeleteFile leaves no two free neighbours, and no other step makes some. *)
THEOREM FreeChunksStayMerged == Spec /\ []ArrayHasRoom => []FreeChunksAreMerged
BY ArrayInvariance, InvMerged, PTL

(* Every command ends with DataRemoveLastChunk, which leaves nothing free at the end. *)
THEOREM ArchivesStayTrimmed == Spec /\ []ArrayHasRoom => []IdleMeansTrimmed
BY ArrayInvariance, InvTrimmed, PTL

(* Storing a file takes the smallest free chunk that is large enough, and the archive
   grows only when there is none. *)
THEOREM StoringTakesTheBestFit == Spec /\ []ArrayHasRoom => TakesBestFit
<1>1. ASSUME IInv, IInv', ArrayHasRoom
      PROVE  \A p \in Paths, s \in Sizes, z \in Compress : InsertPath(p, z, s) =>
               LET count == RequiredBlocks(s)
                   after == stored'[p].block + count
                   rest  == {c \in FreeChunks' : c.chunk = after}
               IN  \A c \in FreeChunks' \ rest :
                     c.count >= count => /\ d'.size = d.size
                                         /\ \A r \in rest : c.count >= count + r.count
  <2>1. d' \in PartitionType
      BY <1>1 DEF IInv, Sound, Pending, Typed
  <2>2. QED BY <1>1, <2>1, InsertedInBestFit
<1>2. QED BY <1>1, ArrayInvariance, PTL DEF TakesBestFit

(* In an archive of fewer blocks than twice the entries of the array, 125 in the
   code, the free chunks fit. *)
THEOREM SmallArchivesHaveRoom ==
    ASSUME MaxDataBlocks < 2 * MD_FREE_LIST_ENTRIES
    PROVE  Spec => []ArrayHasRoom
<1>1. ASSUME IInv PROVE ArrayHasRoom
  <2> DEFINE n == Len(d.array)
  <2>1. n \in Nat
      BY <1>1, InvFacts, ArrayElements
  <2>2. d.size \in 1 .. MaxDataBlocks
      BY <1>1, InvFacts DEF PartitionType
  <2>3. MaxDataBlocks \in Nat /\ MD_FREE_LIST_ENTRIES \in Nat
      BY Numbers, DataPartitionAssumption
  <2>4. 2 * n <= d.size
      BY <1>1, HalfOfThemAreFree
  <2> HIDE DEF n
  <2>5. n < MD_FREE_LIST_ENTRIES
      BY <2>1, <2>2, <2>3, <2>4
  <2>6. QED BY <2>5 DEF ArrayHasRoom, n
<1>2. Init => IInv
    BY InitInv
<1>3. IInv => ArrayHasRoom
    BY <1>1
<1>4. IInv /\ [Next]_vars => IInv'
    BY <1>3, NextInv
<1>5. QED BY <1>2, <1>3, <1>4, PTL DEF Spec

(* In such an archive the properties hold of every behaviour. *)
THEOREM SmallArchivesAreSound ==
    ASSUME MaxDataBlocks < 2 * MD_FREE_LIST_ENTRIES
    PROVE  /\ Spec => [](/\ TypeOK /\ PartitionIsTiled /\ BoundaryTagsAgree
                         /\ FilesAreIntact /\ FreeListIsSorted /\ RemovesOnlyThatChunk
                         /\ FreeChunksAreMerged /\ IdleMeansTrimmed)
           /\ Spec => TakesBestFit
<1>1. Spec => []ArrayHasRoom
    BY SmallArchivesHaveRoom
<1>2. QED
    BY <1>1, TypeCorrectness, BlocksHaveOneOwner, TagsAreRight, ExtractedAsStored,
       ListStaysSorted, RemovalIsExact, FreeChunksStayMerged, ArchivesStayTrimmed,
       StoringTakesTheBestFit, PTL
===============================================================================
