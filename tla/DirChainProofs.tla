--------------------------- MODULE DirChainProofs ---------------------------
(***************************************************************************)
(* Theorems about DirChain, for node blocks of any size and any names: a   *)
(* name is found exactly if it is in the directory, counters are exact,    *)
(* and links stay in blocks the directory owns.                            *)
(*                                                                         *)
(* The invariant is about the chain as a sequence of blocks.  The links    *)
(* back are the difficult part: a block that is bypassed keeps pointing    *)
(* into the chain, and its successor keeps pointing to it.  So a link back *)
(* leads to the block before or to one that left the chain and is owned    *)
(* still, and what an emptied block writes through the second kind does    *)
(* not reach the chain.                                                    *)
(***************************************************************************)
EXTENDS DirChain, FiniteSetTheorems, SequenceTheorems, InductionLemmas

(* "ch" is the chain of blocks, and what their links are. *)
IsLinked(s, ch) ==
    /\ ch \in Seq(Blocks) /\ ch # <<>> /\ ch[1] = First
    /\ \A i, j \in 1 .. Len(ch) : ch[i] = ch[j] => i = j
    /\ \A i \in 1 .. Len(ch) : ch[i] \in s.owned
    /\ \A i \in 1 .. Len(ch) - 1 : s.node[ch[i]].next_flag /\ s.node[ch[i]].next = ch[i + 1]
    /\ ~s.node[ch[Len(ch)]].next_flag
    /\ ~s.node[First].previous_flag
    /\ \A i \in 2 .. Len(ch) :
         /\ s.node[ch[i]].previous_flag
         /\ \/ s.node[ch[i]].previous = ch[i - 1]
            \/ s.node[ch[i]].previous \in s.owned \ {ch[j] : j \in 1 .. Len(ch)}

(* The blocks of the chain hold the names of D, each one in one slot. *)
Holds(s, ch, D) ==
    /\ \A i, j \in 1 .. Len(ch), k, l \in Slots :
         s.node[ch[i]].entry[k] = s.node[ch[j]].entry[l] /\ s.node[ch[i]].entry[k] # NoName
           => i = j /\ k = l
    /\ \A name \in Names :
         name \in D <=> \E i \in 1 .. Len(ch), k \in Slots : s.node[ch[i]].entry[k] = name
    /\ \A i \in 1 .. Len(ch) : s.node[ch[i]].count = Cardinality(Occupied(s.node[ch[i]]))

NodeType == [entry : [Slots -> Names \cup {NoName}], count : 0 .. NODE_ENTRIES,
             next : Blocks, previous : Blocks, next_flag : BOOLEAN, previous_flag : BOOLEAN]

ChainType == [node : [Blocks -> NodeType], owned : SUBSET Blocks]

Dooms ==
    /\ doomed \in Seq(Names)
    /\ \A i, j \in 1 .. Len(doomed) : doomed[i] = doomed[j] => i = j
    /\ phase = "emptying" => {doomed[i] : i \in 1 .. Len(doomed)} = dir
    /\ phase \in {"sweeping", "gone"} => dir = {}

IInv ==
    /\ c \in ChainType
    /\ dir \subseteq Names
    /\ phase \in {"live", "emptying", "sweeping", "gone"}
    /\ Dooms
    /\ \E ch : IsLinked(c, ch) /\ Holds(c, ch, dir)

-------------------------------------------------------------------------------
(* Sequences. *)
LEMMA PrefixAppend ==
    ASSUME NEW S, NEW q \in Seq(S), NEW n \in 1 .. Len(q)
    PROVE  /\ SubSeq(q, 1, n) \in Seq(S) /\ Len(SubSeq(q, 1, n)) = n
           /\ Last(SubSeq(q, 1, n)) = q[n]
           /\ n < Len(q) => SubSeq(q, 1, n + 1) = Append(SubSeq(q, 1, n), q[n + 1])
<1>1. /\ Len(q) \in Nat /\ 1 \in 1 .. Len(q) /\ n \in Nat /\ n \in Int /\ 1 \in Int
      /\ \A i \in 1 .. n : q[i] \in S
    BY LenProperties, ElementOfSeq
<1>2. /\ SubSeq(q, 1, n) \in Seq(S)
      /\ Len(SubSeq(q, 1, n)) = IF 1 <= n THEN n - 1 + 1 ELSE 0
      /\ \A i \in 1 .. n - 1 + 1 : SubSeq(q, 1, n)[i] = q[1 + i - 1]
    BY <1>1, SubSeqProperties
<1>3. Len(SubSeq(q, 1, n)) = n
    BY <1>2
<1>4. Last(SubSeq(q, 1, n)) = q[n]
  <2>1. n \in 1 .. n - 1 + 1 /\ 1 + n - 1 = n
      OBVIOUS
  <2>2. SubSeq(q, 1, n)[n] = q[n]
      BY <1>2, <2>1
  <2>3. QED BY <1>3, <2>2 DEF Last
<1>5. ASSUME n < Len(q) PROVE SubSeq(q, 1, n + 1) = Append(SubSeq(q, 1, n), q[n + 1])
  <2>1. n + 1 \in 1 .. Len(q) /\ n + 1 - 1 = n
      BY <1>1, <1>5
  <2>2. SubSeq(q, 1, n + 1) = SubSeq(q, 1, n + 1 - 1) \o <<q[n + 1]>>
      BY <1>1, <2>1, SubSeqRecursiveSecond
  <2>3. q[n + 1] \in S
      BY <2>1, ElementOfSeq
  <2>4. Append(SubSeq(q, 1, n), q[n + 1]) = SubSeq(q, 1, n) \o <<q[n + 1]>>
      BY <1>2, <2>3, AppendIsConcat
  <2>5. QED BY <2>1, <2>2, <2>4
<1>6. QED BY <1>2, <1>3, <1>4, <1>5

(* A sequence without duplicates over a finite set is no longer than the set is large. *)
LEMMA NoLongerThan ==
    ASSUME NEW S, IsFiniteSet(S), NEW q \in Seq(S),
           \A i, j \in 1 .. Len(q) : q[i] = q[j] => i = j
    PROVE  /\ Len(q) <= Cardinality(S)
           /\ Cardinality({q[i] : i \in 1 .. Len(q)}) = Len(q)
<1>1. Len(q) \in Nat /\ q \in [1 .. Len(q) -> S]
    BY LenProperties
<1>2. IsFiniteSet(1 .. Len(q)) /\ Cardinality(1 .. Len(q)) = Len(q)
  <2>1. /\ IsFiniteSet(1 .. Len(q))
        /\ Cardinality(1 .. Len(q)) = IF 1 > Len(q) THEN 0 ELSE Len(q) - 1 + 1
      BY <1>1, FS_Interval
  <2>2. QED BY <1>1, <2>1
<1>3. q \in Injection(1 .. Len(q), S)
    BY <1>1 DEF Injection, IsInjective
<1>4. Len(q) <= Cardinality(S)
    BY <1>2, <1>3, FS_Injection
<1> DEFINE R == {q[i] : i \in 1 .. Len(q)}
<1>5. q \in Injection(1 .. Len(q), R) /\ q \in Surjection(1 .. Len(q), R)
    BY <1>1 DEF Injection, IsInjective, Surjection
<1>6. Cardinality(R) = Cardinality(1 .. Len(q))
    BY <1>2, <1>5, FS_Surjection
<1>7. QED BY <1>2, <1>4, <1>6

-------------------------------------------------------------------------------
(* The chain the functions of cib_struct.c visit is the one the links make. *)
LEMMA ChainIsLinked ==
    ASSUME NEW s, NEW ch, IsLinked(s, ch)
    PROVE  Chain(s) = ch /\ Len(ch) <= MaxBlock + 1
<1>1. MaxBlock \in Nat /\ IsFiniteSet(Blocks) /\ Cardinality(Blocks) = MaxBlock + 1
  <2>1. MaxBlock \in Nat
      BY DirChainAssumption DEF DirChainAssumption
  <2>2. /\ IsFiniteSet(0 .. MaxBlock)
        /\ Cardinality(0 .. MaxBlock) = IF 0 > MaxBlock THEN 0 ELSE MaxBlock - 0 + 1
      BY <2>1, FS_Interval
  <2>3. QED BY <2>1, <2>2 DEF Blocks
<1>2. PICK L \in Nat : L = Len(ch) /\ L > 0 /\ ch \in Seq(Blocks) /\ ch[1] = First
    BY EmptySeq DEF IsLinked
<1>3. L <= MaxBlock + 1
  <2>1. \A i, j \in 1 .. Len(ch) : ch[i] = ch[j] => i = j
      BY DEF IsLinked
  <2>2. Len(ch) <= Cardinality(Blocks)
      BY <1>1, <1>2, <2>1, NoLongerThan
  <2>3. QED BY <1>1, <1>2, <2>2
<1>4. /\ \A i \in 1 .. L - 1 : s.node[ch[i]].next_flag /\ s.node[ch[i]].next = ch[i + 1]
      /\ ~s.node[ch[L]].next_flag
    BY <1>2 DEF IsLinked
<1> DEFINE M == MaxBlock + 1
           W(n) == SubSeq(ch, 1, IF n < L THEN n + 1 ELSE L)
           Step(seen, n) == IF s.node[Last(seen)].next_flag /\ Len(seen) = n
                            THEN Append(seen, s.node[Last(seen)].next) ELSE seen
           Body(f) == [n \in 0 .. M |->
                         IF n = 0 THEN <<First>>
                         ELSE LET seen == f[n - 1] IN
                              IF s.node[Last(seen)].next_flag /\ Len(seen) = n
                              THEN Append(seen, s.node[Last(seen)].next) ELSE seen]
           walk == CHOOSE f : f = Body(f)
           f0 == [n \in 0 .. M |-> W(n)]
<1>5. W(0) = <<First>>
  <2>1. 0 < L /\ 0 + 1 = 1
      BY <1>2
  <2>2. W(0) = SubSeq(ch, 1, 1)
      BY <2>1
  <2>3. SubSeq(ch, 1, 1) = <<ch[1]>>
    <3>1. 1 \in 1 .. Len(ch) /\ 1 \in 1 .. Len(ch) /\ 1 - 1 = 0 /\ 0 \in Int /\ 1 \in Int /\ 0 < 1
        BY <1>2
    <3>2. SubSeq(ch, 1, 1) = SubSeq(ch, 1, 1 - 1) \o <<ch[1]>>
        BY <1>2, <3>1, 1 \in 1 .. 1, 1 \in 1 .. Len(ch), SubSeqRecursiveSecond
    <3>3. SubSeq(ch, 1, 1 - 1) = <<>>
        BY <3>1, SubSeqEmpty
    <3>4. <<ch[1]>> \in Seq(Blocks)
        BY <1>2, <3>1, ElementOfSeq
    <3>5. <<>> \o <<ch[1]>> = <<ch[1]>>
        BY <3>4, ConcatEmptySeq
    <3>6. QED BY <3>2, <3>3, <3>5
  <2>4. QED BY <1>2, <2>2, <2>3
<1>6. ASSUME NEW n \in 1 .. M PROVE Step(W(n - 1), n) = W(n)
  <2>1. CASE n < L
    <3>1. n - 1 < L /\ n - 1 + 1 = n /\ n \in 1 .. L - 1 /\ n \in 1 .. Len(ch)
        BY <1>2, <2>1
    <3>2. W(n - 1) = SubSeq(ch, 1, n) /\ W(n) = SubSeq(ch, 1, n + 1)
        BY <2>1, <3>1
    <3>3. Last(W(n - 1)) = ch[n] /\ Len(W(n - 1)) = n
        BY <1>2, <3>1, <3>2, PrefixAppend
    <3>4. W(n) = Append(W(n - 1), ch[n + 1])
        BY <1>2, <2>1, <3>1, <3>2, PrefixAppend
    <3>5. s.node[ch[n]].next_flag /\ s.node[ch[n]].next = ch[n + 1]
        BY <1>4, <3>1
    <3> HIDE DEF W
    <3>6. QED BY <3>3, <3>4, <3>5
  <2>2. CASE ~(n < L)
    <3>1. W(n) = SubSeq(ch, 1, L) /\ W(n - 1) = SubSeq(ch, 1, L)
      <4>1. n - 1 < L => n - 1 + 1 = L
          BY <1>2, <2>2
      <4>2. QED BY <2>2, <4>1
    <3>2. L \in 1 .. Len(ch)
        BY <1>2
    <3>3. Last(W(n - 1)) = ch[L]
        BY <1>2, <3>1, <3>2, PrefixAppend
    <3> HIDE DEF W
    <3>4. QED BY <1>4, <3>1, <3>3
  <2>3. QED BY <2>1, <2>2
<1> HIDE DEF W
<1>7. M \in Nat
    BY <1>1
<1> HIDE DEF M
<1>8. f0 = Body(f0)
  <2>1. ASSUME NEW n \in 0 .. M PROVE f0[n] = Body(f0)[n]
    <3>1. CASE n = 0
        BY <1>5, <3>1
    <3>2. CASE n # 0
      <4>1. n \in 1 .. M /\ n - 1 \in 0 .. M
          BY <1>7, <3>2
      <4>2. Body(f0)[n] = Step(f0[n - 1], n)
          BY <3>2, <4>1
      <4>3. f0[n - 1] = W(n - 1) /\ f0[n] = W(n)
          BY <4>1
      <4> HIDE DEF f0, Body, Step
      <4>4. QED BY <1>6, <4>1, <4>2, <4>3
    <3>3. QED BY <3>1, <3>2
  <2> DEFINE B == Body(f0)
  <2>2. B = [n \in 0 .. M |-> B[n]]
      OBVIOUS
  <2>3. f0 = [n \in 0 .. M |-> f0[n]]
      OBVIOUS
  <2>4. \A n \in 0 .. M : f0[n] = B[n]
      BY <2>1
  <2> HIDE DEF B, f0
  <2>5. f0 = B
      BY <2>2, <2>3, <2>4
  <2>6. QED BY <2>5 DEF B
<1>9. walk = Body(walk)
  <2> HIDE DEF Body, f0
  <2>1. QED BY <1>8
<1>10. Chain(s) = walk[M]
    BY DEF Chain, M
<1> HIDE DEF walk
<1>11. walk[0] = W(0) /\ \A n \in 1 .. M : walk[n] = Step(walk[n - 1], n)
  <2>1. walk[0] = W(0)
      BY <1>5, <1>7, <1>9
  <2>2. ASSUME NEW n \in 1 .. M PROVE walk[n] = Step(walk[n - 1], n)
    <3>1. n \in 0 .. M /\ n # 0
        OBVIOUS
    <3>2. Body(walk)[n] = Step(walk[n - 1], n)
        BY <3>1
    <3> HIDE DEF Body, Step
    <3>3. QED BY <1>9, <3>2
  <2> HIDE DEF Step
  <2>3. QED BY <2>1, <2>2
<1>12. \A n \in 0 .. M : walk[n] = W(n)
  <2> DEFINE H == {n \in 0 .. M : walk[n] = W(n)}
  <2>1. 0 \in H
      BY <1>7, <1>11
  <2>2. ASSUME NEW n \in 1 .. M, n - 1 \in H PROVE n \in H
    <3>1. walk[n - 1] = W(n - 1)
        BY <2>2
    <3> HIDE DEF Step
    <3>2. walk[n] = W(n)
        BY <1>6, <1>11, <3>1
    <3>3. QED BY <3>2
  <2> HIDE DEF H
  <2>3. \A n \in 0 .. M : n \in H
      BY <1>7, <2>1, <2>2, UpTo
  <2>4. QED BY <2>3 DEF H
<1>13. W(M) = ch
  <2>1. M \in Nat /\ ~(M < L)
      BY <1>1, <1>3 DEF M
  <2>2. W(M) = SubSeq(ch, 1, L)
      BY <2>1 DEF W
  <2>3. QED BY <1>2, <2>2, SubSeqFull
<1>14. QED BY <1>2, <1>3, <1>7, <1>10, <1>12, <1>13
(* Everything the steps keep, of the blocks, the chain and the names together. *)
Keeps(s, ch, D) == s \in ChainType /\ IsLinked(s, ch) /\ Holds(s, ch, D)

LEMMA SlotsAreFinite ==
    /\ NODE_ENTRIES \in Nat \ {0} /\ NoName \notin Names
    /\ IsFiniteSet(Slots) /\ Cardinality(Slots) = NODE_ENTRIES
    /\ \A n : IsFiniteSet(Occupied(n)) /\ Cardinality(Occupied(n)) \in 0 .. NODE_ENTRIES
<1>1. NODE_ENTRIES \in Nat \ {0} /\ NoName \notin Names
    BY DirChainAssumption DEF DirChainAssumption
<1>2. IsFiniteSet(Slots) /\ Cardinality(Slots) = NODE_ENTRIES
  <2>1. /\ IsFiniteSet(1 .. NODE_ENTRIES)
        /\ Cardinality(1 .. NODE_ENTRIES) = IF 1 > NODE_ENTRIES THEN 0 ELSE NODE_ENTRIES - 1 + 1
      BY <1>1, FS_Interval
  <2>2. QED BY <1>1, <2>1 DEF Slots
<1>3. ASSUME NEW n
      PROVE  IsFiniteSet(Occupied(n)) /\ Cardinality(Occupied(n)) \in 0 .. NODE_ENTRIES
  <2>1. Occupied(n) \in SUBSET Slots
      BY DEF Occupied
  <2>2. IsFiniteSet(Occupied(n)) /\ Cardinality(Occupied(n)) <= NODE_ENTRIES
      BY <1>2, <2>1, FS_Subset
  <2>3. Cardinality(Occupied(n)) \in Nat
      BY <2>2, FS_CardinalityType
  <2>4. QED BY <1>1, <2>2, <2>3
<1>4. QED BY <1>1, <1>2, <1>3

(* FillSlot writes the name into a free slot of a block that is not full. *)
LEMMA FillSlotFills ==
    ASSUME NEW n \in NodeType, n.count = Cardinality(Occupied(n)), n.count # NODE_ENTRIES,
           NEW name \in Names
    PROVE  \E k \in Slots :
             /\ n.entry[k] = NoName
             /\ FillSlot(n, name) \in NodeType
             /\ FillSlot(n, name).count = Cardinality(Occupied(FillSlot(n, name)))
             /\ FillSlot(n, name).entry = [n.entry EXCEPT ![k] = name]
             /\ FillSlot(n, name).next = n.next /\ FillSlot(n, name).next_flag = n.next_flag
             /\ FillSlot(n, name).previous = n.previous
             /\ FillSlot(n, name).previous_flag = n.previous_flag
<1> DEFINE Free == {i \in Slots : n.entry[i] = NoName}
<1>1. Free # {}
  <2>1. CASE Free = {}
    <3>1. Occupied(n) = Slots
        BY <2>1 DEF Occupied
    <3>2. QED BY <3>1, SlotsAreFinite
  <2>2. QED BY <2>1
<1>2. Free \subseteq Nat
    BY DEF Slots
<1>3. PICK k \in Free : \A j \in Free : k <= j
  <2> HIDE DEF Free
  <2>1. QED BY <1>1, <1>2, LeastNumber
<1> DEFINE free == CHOOSE i \in Slots : n.entry[i] = NoName
                                        /\ \A j \in Slots : n.entry[j] = NoName => i <= j
           m == [n EXCEPT !.entry[free] = name, !.count = @ + 1]
<1>4. free \in Slots /\ n.entry[free] = NoName
    BY <1>3
<1>5. FillSlot(n, name) = m
    BY DEF FillSlot
<1> HIDE DEF free
<1>6. /\ m.entry = [n.entry EXCEPT ![free] = name] /\ m.count = n.count + 1
      /\ m.next = n.next /\ m.next_flag = n.next_flag
      /\ m.previous = n.previous /\ m.previous_flag = n.previous_flag
    BY DEF NodeType
<1>7. n.count + 1 \in 0 .. NODE_ENTRIES
    BY SlotsAreFinite DEF NodeType
<1>8. m \in NodeType
    BY <1>4, <1>7 DEF NodeType
<1> HIDE DEF m
<1>9. Occupied(m) = Occupied(n) \cup {free} /\ free \notin Occupied(n)
    BY <1>4, <1>6, SlotsAreFinite DEF Occupied, NodeType
<1>10. Cardinality(Occupied(m)) = Cardinality(Occupied(n)) + 1
    BY <1>9, SlotsAreFinite, FS_AddElement
<1>11. QED BY <1>4, <1>5, <1>6, <1>8, <1>10

(* ClearSlot takes the name out of the one slot it is in. *)
LEMMA ClearSlotClears ==
    ASSUME NEW n \in NodeType, n.count = Cardinality(Occupied(n)),
           NEW name \in Names, NEW k \in Slots, n.entry[k] = name,
           \A l \in Slots : n.entry[l] = name => l = k
    PROVE  /\ ClearSlot(n, name) \in NodeType
           /\ ClearSlot(n, name).count = Cardinality(Occupied(ClearSlot(n, name)))
           /\ ClearSlot(n, name).entry = [n.entry EXCEPT ![k] = NoName]
           /\ ClearSlot(n, name).next = n.next /\ ClearSlot(n, name).next_flag = n.next_flag
           /\ ClearSlot(n, name).previous = n.previous
           /\ ClearSlot(n, name).previous_flag = n.previous_flag
<1> DEFINE m == ClearSlot(n, name)
<1>1. /\ m.entry = [i \in Slots |-> IF n.entry[i] = name THEN NoName ELSE n.entry[i]]
      /\ m.count = n.count - 1
      /\ m.next = n.next /\ m.next_flag = n.next_flag
      /\ m.previous = n.previous /\ m.previous_flag = n.previous_flag
    BY DEF ClearSlot, NodeType
<1>2. n.entry \in [Slots -> Names \cup {NoName}]
    BY DEF NodeType
<1>3. m.entry = [n.entry EXCEPT ![k] = NoName]
  <2>1. \A i \in Slots : n.entry[i] = name <=> i = k
      OBVIOUS
  <2>2. [i \in Slots |-> IF n.entry[i] = name THEN NoName ELSE n.entry[i]]
          = [n.entry EXCEPT ![k] = NoName]
      BY <1>2, <2>1
  <2>3. QED BY <1>1, <2>2
<1>4. k \in Occupied(n)
    BY SlotsAreFinite DEF Occupied
<1>5. n.count - 1 \in 0 .. NODE_ENTRIES
  <2>1. Cardinality(Occupied(n)) # 0
      BY <1>4, SlotsAreFinite, FS_EmptySet
  <2>2. QED BY <2>1, SlotsAreFinite
<1>6. m \in NodeType
    BY <1>2, <1>5 DEF ClearSlot, NodeType
<1> HIDE DEF m
<1>7. Occupied(m) = Occupied(n) \ {k}
    BY <1>2, <1>3 DEF Occupied
<1>8. Cardinality(Occupied(m)) = Cardinality(Occupied(n)) - 1
    BY <1>4, <1>7, SlotsAreFinite, FS_RemoveElement
<1>9. QED BY <1>1, <1>3, <1>6, <1>8 DEF m
-------------------------------------------------------------------------------
(* The first block with a name is the only one, and its counter is not zero. *)
LEMMA FoundWhereItIs ==
    ASSUME NEW s, NEW ch, NEW D, Keeps(s, ch, D),
           NEW i \in 1 .. Len(ch), NEW k \in Slots, s.node[ch[i]].entry[k] \in Names
    PROVE  /\ Holder(s, s.node[ch[i]].entry[k]) = i
           /\ GetEntry(s, s.node[ch[i]].entry[k]) = i
           /\ i # 0
<1> DEFINE name == s.node[ch[i]].entry[k]
           I == {j \in 1 .. Len(ch) : \E l \in Slots : s.node[ch[j]].entry[l] = name}
           P == {j \in 1 .. Len(ch) : /\ s.node[ch[j]].count > 0
                                      /\ \E l \in Slots : s.node[ch[j]].entry[l] = name}
<1>1. Chain(s) = ch
    BY ChainIsLinked DEF Keeps
<1>2. name # NoName
    BY SlotsAreFinite
<1>3. I = {i}
    BY <1>2 DEF Keeps, Holds
<1>4. s.node[ch[i]].count > 0
  <2>1. k \in Occupied(s.node[ch[i]])
      BY <1>2 DEF Occupied
  <2>2. Cardinality(Occupied(s.node[ch[i]])) # 0
      BY <2>1, SlotsAreFinite, FS_EmptySet
  <2>3. s.node[ch[i]].count = Cardinality(Occupied(s.node[ch[i]]))
      BY DEF Keeps, Holds
  <2>4. QED BY <2>2, <2>3, SlotsAreFinite
<1>5. P = {i}
    BY <1>3, <1>4
<1>6. i \in Int /\ i # 0
    OBVIOUS
<1>7. (CHOOSE x \in {i} : \A y \in {i} : x =< y) = i
    BY <1>6
<1>8. Holder(s, name) = IF I # {} THEN Min(I) ELSE 0
    BY <1>1 DEF Holder, SelectInSeq
<1>9. GetEntry(s, name) = IF P # {} THEN Min(P) ELSE 0
    BY <1>1 DEF GetEntry, SelectInSeq
<1> HIDE DEF I, P
<1>10. Min(I) = i /\ Min(P) = i
    BY <1>3, <1>5, <1>7 DEF Min
<1>11. QED BY <1>3, <1>5, <1>6, <1>8, <1>9, <1>10

(* A name that is not in the directory is not found. *)
LEMMA NotFound ==
    ASSUME NEW s, NEW ch, NEW D, Keeps(s, ch, D), NEW name \in Names, name \notin D
    PROVE  Holder(s, name) = 0 /\ GetEntry(s, name) = 0
<1> DEFINE I == {j \in 1 .. Len(ch) : \E l \in Slots : s.node[ch[j]].entry[l] = name}
           P == {j \in 1 .. Len(ch) : /\ s.node[ch[j]].count > 0
                                      /\ \E l \in Slots : s.node[ch[j]].entry[l] = name}
<1>1. Chain(s) = ch
    BY ChainIsLinked DEF Keeps
<1>2. I = {} /\ P = {}
    BY DEF Keeps, Holds
<1>3. Holder(s, name) = IF I # {} THEN Min(I) ELSE 0
    BY <1>1 DEF Holder, SelectInSeq
<1>4. GetEntry(s, name) = IF P # {} THEN Min(P) ELSE 0
    BY <1>1 DEF GetEntry, SelectInSeq
<1>5. QED BY <1>2, <1>3, <1>4

-------------------------------------------------------------------------------
(* How the contents of a chain may move: "m" gives the place in the chain before a
   block's content comes from, 0 if the block is empty; what moves nowhere is empty. *)
Moved(s, ch, t, dh, m) ==
    /\ m \in [1 .. Len(dh) -> 0 .. Len(ch)]
    /\ \A j \in 1 .. Len(dh) :
         IF m[j] = 0
         THEN (\A k \in Slots : t.node[dh[j]].entry[k] = NoName) /\ t.node[dh[j]].count = 0
         ELSE /\ t.node[dh[j]].entry = s.node[ch[m[j]]].entry
              /\ t.node[dh[j]].count = s.node[ch[m[j]]].count
    /\ \A j, l \in 1 .. Len(dh) : m[j] = m[l] /\ m[j] # 0 => j = l
    /\ \A i \in 1 .. Len(ch) : (\E j \in 1 .. Len(dh) : m[j] = i)
                                 \/ \A k \in Slots : s.node[ch[i]].entry[k] = NoName

LEMMA ContentsMove ==
    ASSUME NEW s, NEW ch, NEW D, NEW t, NEW dh, NEW m, ch \in Seq(Blocks),
           Holds(s, ch, D), Moved(s, ch, t, dh, m)
    PROVE  Holds(t, dh, D)
<1>m. m \in [1 .. Len(dh) -> 0 .. Len(ch)]
    BY DEF Moved
<1>e. \A j \in 1 .. Len(dh) :
         IF m[j] = 0
         THEN (\A k \in Slots : t.node[dh[j]].entry[k] = NoName) /\ t.node[dh[j]].count = 0
         ELSE /\ t.node[dh[j]].entry = s.node[ch[m[j]]].entry
              /\ t.node[dh[j]].count = s.node[ch[m[j]]].count
    BY DEF Moved
<1>j. \A j, l \in 1 .. Len(dh) : m[j] = m[l] /\ m[j] # 0 => j = l
    BY DEF Moved
<1>n. \A i \in 1 .. Len(ch) : (\E j \in 1 .. Len(dh) : m[j] = i)
                                 \/ \A k \in Slots : s.node[ch[i]].entry[k] = NoName
    BY DEF Moved
<1>1. ASSUME NEW i \in 1 .. Len(dh), NEW j \in 1 .. Len(dh), NEW k \in Slots, NEW l \in Slots,
             t.node[dh[i]].entry[k] = t.node[dh[j]].entry[l], t.node[dh[i]].entry[k] # NoName
      PROVE  i = j /\ k = l
  <2>1. m[i] # 0 /\ m[j] # 0
      BY <1>1, <1>e
  <2>2. m[i] \in 1 .. Len(ch) /\ m[j] \in 1 .. Len(ch)
      BY <2>1, <1>m, LenProperties
  <2>3. t.node[dh[i]].entry = s.node[ch[m[i]]].entry /\ t.node[dh[j]].entry = s.node[ch[m[j]]].entry
      BY <2>1, <1>e
  <2>4. m[i] = m[j] /\ k = l
    <3>1. PICK x \in 1 .. Len(ch), y \in 1 .. Len(ch) : x = m[i] /\ y = m[j]
        BY <2>2
    <3>2. s.node[ch[x]].entry[k] = s.node[ch[y]].entry[l] /\ s.node[ch[x]].entry[k] # NoName
        BY <1>1, <2>3, <3>1
    <3>3. x = y /\ k = l
        BY <3>2 DEF Holds
    <3>4. QED BY <3>1, <3>3
  <2>5. QED BY <2>1, <2>4, <1>j
<1>2. ASSUME NEW name \in Names
      PROVE  name \in D <=> \E j \in 1 .. Len(dh), k \in Slots : t.node[dh[j]].entry[k] = name
  <2>1. name # NoName
      BY SlotsAreFinite
  <2>2. ASSUME name \in D
        PROVE  \E j \in 1 .. Len(dh), k \in Slots : t.node[dh[j]].entry[k] = name
    <3>1. PICK i \in 1 .. Len(ch), k \in Slots : s.node[ch[i]].entry[k] = name
        BY <2>2 DEF Holds
    <3>2. PICK j \in 1 .. Len(dh) : m[j] = i
        BY <2>1, <3>1, <1>n
    <3>3. m[j] # 0
        BY <3>2
    <3>4. t.node[dh[j]].entry = s.node[ch[i]].entry
        BY <3>2, <3>3, <1>e
    <3>5. QED BY <3>1, <3>4
  <2>3. ASSUME NEW j \in 1 .. Len(dh), NEW k \in Slots, t.node[dh[j]].entry[k] = name
        PROVE  name \in D
    <3>1. m[j] # 0
        BY <2>1, <2>3, <1>e
    <3>2. m[j] \in 1 .. Len(ch)
        BY <3>1, <1>m, LenProperties
    <3>3. s.node[ch[m[j]]].entry[k] = name
        BY <2>3, <3>1, <1>e
    <3>4. QED BY <3>2, <3>3 DEF Holds
  <2>4. QED BY <2>2, <2>3
<1>3. ASSUME NEW j \in 1 .. Len(dh)
      PROVE  t.node[dh[j]].count = Cardinality(Occupied(t.node[dh[j]]))
  <2>1. CASE m[j] = 0
    <3>1. Occupied(t.node[dh[j]]) = {}
        BY <2>1, <1>e DEF Occupied
    <3>2. QED BY <2>1, <3>1, <1>e, FS_EmptySet
  <2>2. CASE m[j] # 0
    <3>1. m[j] \in 1 .. Len(ch)
        BY <2>2, <1>m, LenProperties
    <3>2. t.node[dh[j]].entry = s.node[ch[m[j]]].entry /\ t.node[dh[j]].count = s.node[ch[m[j]]].count
        BY <2>2, <1>e
    <3>3. Occupied(t.node[dh[j]]) = Occupied(s.node[ch[m[j]]])
        BY <3>2 DEF Occupied
    <3>4. QED BY <3>1, <3>2, <3>3 DEF Holds
  <2>3. QED BY <2>1, <2>2
<1>4. QED BY <1>1, <1>2, <1>3 DEF Holds

(* A chain whose links did not change is a chain still. *)
LEMMA SameLinks ==
    ASSUME NEW s, NEW ch, NEW t, IsLinked(s, ch), t.owned = s.owned,
           \A j \in 1 .. Len(ch) : /\ t.node[ch[j]].next = s.node[ch[j]].next
                                   /\ t.node[ch[j]].next_flag = s.node[ch[j]].next_flag
                                   /\ t.node[ch[j]].previous = s.node[ch[j]].previous
                                   /\ t.node[ch[j]].previous_flag = s.node[ch[j]].previous_flag
    PROVE  IsLinked(t, ch)
<1>1. ch \in Seq(Blocks) /\ ch # <<>> /\ ch[1] = First
    BY DEF IsLinked
<1>2. PICK L \in Nat \ {0} : L = Len(ch)
    BY <1>1, EmptySeq
<1>3. ASSUME NEW j \in 1 .. L - 1
      PROVE  t.node[ch[j]].next_flag /\ t.node[ch[j]].next = ch[j + 1]
  <2>1. s.node[ch[j]].next_flag /\ s.node[ch[j]].next = ch[j + 1]
      BY <1>2 DEF IsLinked
  <2>2. j \in 1 .. Len(ch)
      BY <1>2
  <2>3. QED BY <2>1, <2>2
<1>4. ~t.node[ch[L]].next_flag
  <2>1. ~s.node[ch[L]].next_flag
      BY <1>2 DEF IsLinked
  <2>2. L \in 1 .. Len(ch)
      BY <1>2
  <2>3. QED BY <2>1, <2>2
<1>5. ~t.node[First].previous_flag
  <2>1. ~s.node[First].previous_flag
      BY DEF IsLinked
  <2>2. 1 \in 1 .. Len(ch)
      BY <1>2
  <2>3. QED BY <1>1, <2>1, <2>2
<1>6. ASSUME NEW j \in 2 .. L
      PROVE  /\ t.node[ch[j]].previous_flag
             /\ \/ t.node[ch[j]].previous = ch[j - 1]
                \/ t.node[ch[j]].previous \in t.owned \ {ch[l] : l \in 1 .. Len(ch)}
  <2>1. /\ s.node[ch[j]].previous_flag
        /\ \/ s.node[ch[j]].previous = ch[j - 1]
           \/ s.node[ch[j]].previous \in s.owned \ {ch[l] : l \in 1 .. Len(ch)}
      BY <1>2 DEF IsLinked
  <2>2. j \in 1 .. Len(ch)
      BY <1>2
  <2>3. /\ t.node[ch[j]].previous_flag = s.node[ch[j]].previous_flag
        /\ t.node[ch[j]].previous = s.node[ch[j]].previous
      BY <2>2
  <2>4. QED BY <2>1, <2>3
<1>7. /\ \A i, j \in 1 .. Len(ch) : ch[i] = ch[j] => i = j
      /\ \A i \in 1 .. Len(ch) : ch[i] \in t.owned
    BY DEF IsLinked
<1>8. QED BY <1>1, <1>2, <1>3, <1>4, <1>5, <1>6, <1>7 DEF IsLinked

(* A step that changes the content of one block of the chain and no link. *)
LEMMA LinksKept ==
    ASSUME NEW s, NEW ch, s \in ChainType, IsLinked(s, ch),
           NEW i \in 1 .. Len(ch), NEW n \in NodeType,
           n.next = s.node[ch[i]].next, n.next_flag = s.node[ch[i]].next_flag,
           n.previous = s.node[ch[i]].previous, n.previous_flag = s.node[ch[i]].previous_flag
    PROVE  /\ [s EXCEPT !.node[ch[i]] = n] \in ChainType
           /\ IsLinked([s EXCEPT !.node[ch[i]] = n], ch)
<1> DEFINE t == [s EXCEPT !.node[ch[i]] = n]
<1>1. ch \in Seq(Blocks) /\ Len(ch) \in Nat /\ ch[i] \in Blocks
    BY LenProperties, ElementOfSeq DEF IsLinked
<1>2. s \in [node : [Blocks -> NodeType], owned : SUBSET Blocks]
    BY DEF ChainType
<1>3. t.node = [s.node EXCEPT ![ch[i]] = n] /\ t.owned = s.owned
    BY <1>2
<1>4. t \in ChainType
    BY <1>1, <1>2 DEF ChainType
<1>5. \A b \in Blocks : /\ t.node[b].next = s.node[b].next
                        /\ t.node[b].next_flag = s.node[b].next_flag
                        /\ t.node[b].previous = s.node[b].previous
                        /\ t.node[b].previous_flag = s.node[b].previous_flag
    BY <1>1, <1>2, <1>3
<1> HIDE DEF t
<1>6. \A j \in 1 .. Len(ch) : ch[j] \in Blocks
    BY <1>1, ElementOfSeq
<1>7. IsLinked(t, ch)
  <2>1. t.owned = s.owned
      BY <1>3
  <2>2. \A j \in 1 .. Len(ch) : /\ t.node[ch[j]].next = s.node[ch[j]].next
                                /\ t.node[ch[j]].next_flag = s.node[ch[j]].next_flag
                                /\ t.node[ch[j]].previous = s.node[ch[j]].previous
                                /\ t.node[ch[j]].previous_flag = s.node[ch[j]].previous_flag
      BY <1>5, <1>6
  <2>3. QED BY <2>1, <2>2, SameLinks
<1>8. QED BY <1>4, <1>7 DEF t
-------------------------------------------------------------------------------
(* Writing a name the directory lacks into the last block. *)
LEMMA InsertInLastKeeps ==
    ASSUME NEW s, NEW ch, NEW D \in SUBSET Names, Keeps(s, ch, D),
           NEW name \in Names, name \notin D, s.node[Last(Chain(s))].count # NODE_ENTRIES
    PROVE  Keeps(InsertInLast(s, name), ch, D \cup {name})
<1>1. PICK L \in Nat : /\ L = Len(ch) /\ L \in 1 .. Len(ch) /\ ch \in Seq(Blocks)
                       /\ ch[L] \in Blocks
  <2>1. ch \in Seq(Blocks) /\ ch # <<>>
      BY DEF Keeps, IsLinked
  <2>2. Len(ch) \in Nat \ {0}
      BY <2>1, EmptySeq
  <2>3. Len(ch) \in 1 .. Len(ch)
      BY <2>2
  <2>4. QED BY <2>1, <2>2, <2>3, ElementOfSeq
<1>2. Last(Chain(s)) = ch[L]
    BY <1>1, ChainIsLinked DEF Keeps, Last
<1> DEFINE n == s.node[ch[L]]
           m == FillSlot(n, name)
           t == [s EXCEPT !.node[ch[L]] = m]
<1>3. s \in ChainType /\ s.node \in [Blocks -> NodeType] /\ n \in NodeType
    BY <1>1 DEF Keeps, ChainType
<1>4. n.count = Cardinality(Occupied(n)) /\ n.count # NODE_ENTRIES
    BY <1>1, <1>2 DEF Keeps, Holds
<1>5. InsertInLast(s, name) = t
    BY <1>2 DEF InsertInLast
<1> HIDE DEF n
<1>6. PICK k \in Slots :
             /\ n.entry[k] = NoName
             /\ m \in NodeType
             /\ m.count = Cardinality(Occupied(m))
             /\ m.entry = [n.entry EXCEPT ![k] = name]
             /\ m.next = n.next /\ m.next_flag = n.next_flag
             /\ m.previous = n.previous /\ m.previous_flag = n.previous_flag
    BY <1>3, <1>4, FillSlotFills
<1> HIDE DEF m
<1>7. t \in ChainType /\ IsLinked(t, ch)
    BY <1>1, <1>3, <1>6, LinksKept DEF Keeps, n
<1>8. t.node = [s.node EXCEPT ![ch[L]] = m]
    BY <1>3 DEF ChainType
<1>9. /\ t.node[ch[L]] = m
      /\ \A i \in 1 .. Len(ch) : i # L => t.node[ch[i]] = s.node[ch[i]]
  <2>1. \A i \in 1 .. Len(ch) : ch[i] \in Blocks /\ (i # L => ch[i] # ch[L])
      BY <1>1, ElementOfSeq DEF Keeps, IsLinked
  <2>2. QED BY <1>1, <1>3, <1>8, <2>1
<1> HIDE DEF t
<1>10. n.entry \in [Slots -> Names \cup {NoName}] /\ name # NoName
    BY <1>3, SlotsAreFinite DEF NodeType
<1>11. \A i \in 1 .. Len(ch), l \in Slots :
          t.node[ch[i]].entry[l] = IF i = L /\ l = k THEN name ELSE s.node[ch[i]].entry[l]
    BY <1>6, <1>9, <1>10 DEF n
<1>12. \A i \in 1 .. Len(ch), l \in Slots : s.node[ch[i]].entry[l] # name
    BY DEF Keeps, Holds
<1>13. s.node[ch[L]].entry[k] = NoName
    BY <1>6 DEF n
<1>14. ASSUME NEW i \in 1 .. Len(ch), NEW j \in 1 .. Len(ch), NEW p \in Slots, NEW q \in Slots,
              t.node[ch[i]].entry[p] = t.node[ch[j]].entry[q], t.node[ch[i]].entry[p] # NoName
       PROVE  i = j /\ p = q
  <2>1. CASE i = L /\ p = k
      BY <2>1, <1>11, <1>12, <1>14
  <2>2. CASE ~(i = L /\ p = k)
    <3>1. ~(j = L /\ q = k)
        BY <2>2, <1>11, <1>12, <1>14
    <3>2. s.node[ch[i]].entry[p] = s.node[ch[j]].entry[q] /\ s.node[ch[i]].entry[p] # NoName
        BY <2>2, <3>1, <1>11, <1>14
    <3>3. QED BY <3>2 DEF Keeps, Holds
  <2>3. QED BY <2>1, <2>2
<1>15. ASSUME NEW other \in Names
       PROVE  other \in D \cup {name}
                <=> \E i \in 1 .. Len(ch), l \in Slots : t.node[ch[i]].entry[l] = other
  <2>1. CASE other = name
      BY <2>1, <1>1, <1>11
  <2>2. CASE other # name
    <3>1. other \in D <=> \E i \in 1 .. Len(ch), l \in Slots : s.node[ch[i]].entry[l] = other
        BY DEF Keeps, Holds
    <3>2. other # NoName
        BY SlotsAreFinite
    <3>3. \A i \in 1 .. Len(ch), l \in Slots :
             t.node[ch[i]].entry[l] = other <=> s.node[ch[i]].entry[l] = other
        BY <2>2, <3>2, <1>11, <1>13
    <3>4. QED BY <2>2, <3>1, <3>3
  <2>3. QED BY <2>1, <2>2
<1>16. ASSUME NEW i \in 1 .. Len(ch)
       PROVE  t.node[ch[i]].count = Cardinality(Occupied(t.node[ch[i]]))
  <2>1. CASE i = L
      BY <2>1, <1>6, <1>9
  <2>2. CASE i # L
      BY <2>2, <1>9 DEF Keeps, Holds
  <2>3. QED BY <2>1, <2>2
<1>17. Holds(t, ch, D \cup {name})
    BY <1>14, <1>15, <1>16 DEF Holds
<1>18. QED BY <1>5, <1>7, <1>17 DEF Keeps

(* Linking a block the directory does not own behind the last one. *)
LEMMA LinkNewKeeps ==
    ASSUME NEW s, NEW ch, NEW D, Keeps(s, ch, D), NEW new \in Blocks \ s.owned
    PROVE  /\ Keeps(LinkNew(s, new), Append(ch, new), D)
           /\ LinkNew(s, new).node[Last(Chain(LinkNew(s, new)))].count = 0
<1>1. PICK L \in Nat \ {0} : /\ L = Len(ch) /\ L \in 1 .. Len(ch) /\ ch \in Seq(Blocks)
                             /\ ch[L] \in Blocks
  <2>1. ch \in Seq(Blocks) /\ ch # <<>>
      BY DEF Keeps, IsLinked
  <2>2. Len(ch) \in Nat \ {0}
      BY <2>1, EmptySeq
  <2>3. Len(ch) \in 1 .. Len(ch)
      BY <2>2
  <2>4. QED BY <2>1, <2>2, <2>3, ElementOfSeq
<1>2. Last(Chain(s)) = ch[L]
    BY <1>1, ChainIsLinked DEF Keeps, Last
<1> DEFINE fresh == SetPrevious(EmptyNode, ch[L])
           last  == SetNext(s.node[ch[L]], new)
           t == LinkNew(s, new)
<1>3. PICK dh : dh = Append(ch, new)
    OBVIOUS
<1>4. /\ dh \in Seq(Blocks) /\ dh # <<>> /\ Len(dh) = L + 1 /\ dh[L + 1] = new
      /\ \A i \in 1 .. L : dh[i] = ch[i]
    BY <1>1, <1>3, AppendProperties
<1>5. /\ \A i \in 1 .. L : ch[i] \in Blocks /\ ch[i] \in s.owned /\ ch[i] # new
      /\ \A i \in 1 .. L : i # L => ch[i] # ch[L]
    BY <1>1, ElementOfSeq DEF Keeps, IsLinked
<1>6. s \in ChainType /\ s.node \in [Blocks -> NodeType] /\ s.owned \subseteq Blocks
      /\ s.node[ch[L]] \in NodeType
    BY <1>1 DEF Keeps, ChainType
<1>7. EmptyNode \in NodeType /\ First \in Blocks
  <2>1. First \in Blocks
      BY DirChainAssumption DEF DirChainAssumption, First, Blocks
  <2>2. QED BY <2>1, SlotsAreFinite DEF EmptyNode, NodeType, First
<1>8. /\ fresh \in NodeType /\ fresh.previous = ch[L] /\ fresh.previous_flag = TRUE
      /\ fresh.next_flag = FALSE /\ fresh.count = 0
      /\ \A k \in Slots : fresh.entry[k] = NoName
  <2>1. fresh \in NodeType
      BY <1>1, <1>7 DEF SetPrevious, NodeType
  <2>2. QED BY <2>1 DEF SetPrevious, EmptyNode
<1>9. /\ last \in NodeType /\ last.next = new /\ last.next_flag = TRUE
      /\ last.previous = s.node[ch[L]].previous
      /\ last.previous_flag = s.node[ch[L]].previous_flag
      /\ last.entry = s.node[ch[L]].entry /\ last.count = s.node[ch[L]].count
    BY <1>6 DEF SetNext, NodeType
<1>10. /\ t.node = [s.node EXCEPT ![new] = fresh, ![ch[L]] = last]
       /\ t.owned = s.owned \cup {new}
       /\ t = [node |-> t.node, owned |-> t.owned]
    <2>1. new # ch[L]
        BY <1>1, <1>5
    <2>2. QED BY <1>2, <1>6, <2>1 DEF LinkNew
<1> HIDE DEF fresh, last, t
<1>11. t \in ChainType
  <2>1. [s.node EXCEPT ![new] = fresh] \in [Blocks -> NodeType]
      BY <1>6, <1>8
  <2>2. t.node \in [Blocks -> NodeType]
      BY <1>9, <1>10, <2>1
  <2>3. QED BY <1>6, <1>10, <2>2 DEF ChainType
<1>12. /\ t.node[new] = fresh /\ t.node[ch[L]] = last
       /\ \A i \in 1 .. L : i # L => t.node[ch[i]] = s.node[ch[i]]
       /\ L = 1 => ch[L] = First
       /\ ch[1] = First
  <2>1. new # ch[L]
      BY <1>1, <1>5
  <2>2. ch[1] = First
      BY DEF Keeps, IsLinked
  <2>3. QED BY <1>1, <1>5, <1>6, <1>10, <2>1, <2>2
<1>13. IsLinked(t, dh)
  <2>1. dh[1] = First
      BY <1>1, <1>4, <1>12
  <2>2. \A i, j \in 1 .. Len(dh) : dh[i] = dh[j] => i = j
    <3>1. \A i, j \in 1 .. L : ch[i] = ch[j] => i = j
        BY <1>1 DEF Keeps, IsLinked
    <3>2. \A i \in 1 .. L + 1 : i = L + 1 \/ i \in 1 .. L
        OBVIOUS
    <3>3. QED BY <1>4, <1>5, <3>1, <3>2
  <2>3. \A i \in 1 .. Len(dh) : dh[i] \in t.owned
    <3>1. \A i \in 1 .. L + 1 : i = L + 1 \/ i \in 1 .. L
        OBVIOUS
    <3>2. QED BY <1>4, <1>5, <1>10, <3>1
  <2>4. \A i \in 1 .. Len(dh) - 1 : t.node[dh[i]].next_flag /\ t.node[dh[i]].next = dh[i + 1]
    <3>1. ASSUME NEW i \in 1 .. L
          PROVE  t.node[dh[i]].next_flag /\ t.node[dh[i]].next = dh[i + 1]
      <4>1. CASE i = L
          BY <4>1, <1>4, <1>9, <1>12
      <4>2. CASE i # L
        <5>1. i \in 1 .. L - 1 /\ i + 1 \in 1 .. L
            BY <4>2
        <5>2. s.node[ch[i]].next_flag /\ s.node[ch[i]].next = ch[i + 1]
            BY <5>1, <1>1 DEF Keeps, IsLinked
        <5>3. QED BY <4>2, <5>1, <5>2, <1>4, <1>12
      <4>3. QED BY <4>1, <4>2
    <3>2. Len(dh) - 1 = L
        BY <1>4
    <3>3. QED BY <3>1, <3>2
  <2>5. ~t.node[dh[Len(dh)]].next_flag
      BY <1>4, <1>8, <1>12
  <2>6. ~t.node[First].previous_flag
    <3>1. ~s.node[First].previous_flag
        BY DEF Keeps, IsLinked
    <3>2. CASE L = 1
        BY <3>1, <3>2, <1>9, <1>12
    <3>3. CASE L # 1
      <4>1. 1 \in 1 .. L /\ 1 # L
          BY <3>3
      <4>2. QED BY <3>1, <4>1, <1>12
    <3>4. QED BY <3>2, <3>3
  <2>7. ASSUME NEW i \in 2 .. Len(dh)
        PROVE  /\ t.node[dh[i]].previous_flag
               /\ \/ t.node[dh[i]].previous = dh[i - 1]
                  \/ t.node[dh[i]].previous \in t.owned \ {dh[j] : j \in 1 .. Len(dh)}
    <3>1. CASE i = L + 1
      <4>1. i - 1 = L /\ L \in 1 .. L
          BY <1>1, <3>1
      <4>2. dh[i - 1] = ch[L]
          BY <4>1, <1>4
      <4>3. QED BY <3>1, <4>2, <1>4, <1>8, <1>12
    <3>2. CASE i # L + 1
      <4>1. i \in 2 .. L /\ i \in 1 .. L /\ i - 1 \in 1 .. L /\ i \in 2 .. Len(ch)
          BY <1>1, <1>4, <3>2
      <4>2. /\ t.node[dh[i]].previous_flag = s.node[ch[i]].previous_flag
            /\ t.node[dh[i]].previous = s.node[ch[i]].previous
        <5>1. CASE i = L
            BY <5>1, <4>1, <1>4, <1>9, <1>12
        <5>2. CASE i # L
            BY <5>2, <4>1, <1>4, <1>12
        <5>3. QED BY <5>1, <5>2
      <4>3. /\ s.node[ch[i]].previous_flag
            /\ \/ s.node[ch[i]].previous = ch[i - 1]
               \/ s.node[ch[i]].previous \in s.owned \ {ch[j] : j \in 1 .. Len(ch)}
          BY <4>1 DEF Keeps, IsLinked
      <4>4. CASE s.node[ch[i]].previous = ch[i - 1]
          BY <4>1, <4>2, <4>3, <4>4, <1>4
      <4>5. CASE s.node[ch[i]].previous \in s.owned \ {ch[j] : j \in 1 .. Len(ch)}
        <5>1. s.node[ch[i]].previous \notin {dh[j] : j \in 1 .. Len(dh)}
          <6>1. \A j \in 1 .. Len(dh) : s.node[ch[i]].previous # dh[j]
            <7>1. \A j \in 1 .. L + 1 : j = L + 1 \/ j \in 1 .. L
                OBVIOUS
            <7>2. QED BY <4>5, <7>1, <1>1, <1>4
          <6>2. QED BY <6>1
        <5>2. QED BY <4>2, <4>3, <4>5, <5>1, <1>10
      <4>6. QED BY <4>3, <4>4, <4>5
    <3>3. QED BY <3>1, <3>2
  <2>8. QED BY <1>4, <2>1, <2>2, <2>3, <2>4, <2>5, <2>6, <2>7 DEF IsLinked
<1>14. Holds(t, dh, D)
  <2> DEFINE m == [j \in 1 .. L + 1 |-> IF j = L + 1 THEN 0 ELSE j]
  <2>1. m \in [1 .. Len(dh) -> 0 .. Len(ch)]
      BY <1>1, <1>4
  <2>2. ASSUME NEW j \in 1 .. Len(dh)
        PROVE  IF m[j] = 0
               THEN (\A k \in Slots : t.node[dh[j]].entry[k] = NoName) /\ t.node[dh[j]].count = 0
               ELSE /\ t.node[dh[j]].entry = s.node[ch[m[j]]].entry
                    /\ t.node[dh[j]].count = s.node[ch[m[j]]].count
    <3>1. CASE j = L + 1
        BY <3>1, <1>4, <1>8, <1>12
    <3>2. CASE j # L + 1
      <4>1. j \in 1 .. L /\ m[j] = j /\ j # 0
          BY <1>4, <3>2
      <4>2. dh[j] = ch[j]
          BY <4>1, <1>4
      <4>3. t.node[ch[j]].entry = s.node[ch[j]].entry /\ t.node[ch[j]].count = s.node[ch[j]].count
          BY <4>1, <1>9, <1>12
      <4> HIDE DEF m
      <4>4. QED BY <4>1, <4>2, <4>3
    <3>3. QED BY <3>1, <3>2
  <2>3. \A j, l \in 1 .. Len(dh) : m[j] = m[l] /\ m[j] # 0 => j = l
      BY <1>4
  <2>4. \A i \in 1 .. Len(ch) : \E j \in 1 .. Len(dh) : m[j] = i
    <3>1. ASSUME NEW i \in 1 .. L PROVE i \in 1 .. L + 1 /\ m[i] = i
        OBVIOUS
    <3>2. QED BY <1>1, <1>4, <3>1
  <2> HIDE DEF m
  <2>5. ch \in Seq(Blocks) /\ Holds(s, ch, D)
      BY DEF Keeps, IsLinked
  <2>6. \A i \in 1 .. Len(ch) : (\E j \in 1 .. Len(dh) : m[j] = i)
                                     \/ \A k \in Slots : s.node[ch[i]].entry[k] = NoName
      BY <2>4
  <2>7. Moved(s, ch, t, dh, m)
      BY <2>1, <2>2, <2>3, <2>6 DEF Moved
  <2>8. QED BY <2>5, <2>7, ContentsMove
<1>15. Keeps(t, dh, D)
    BY <1>11, <1>13, <1>14 DEF Keeps
<1>16. t.node[Last(Chain(t))].count = 0
  <2>1. Chain(t) = dh
      BY <1>13, ChainIsLinked
  <2>2. Last(dh) = new
      BY <1>4 DEF Last
  <2>3. QED BY <2>1, <2>2, <1>8, <1>12
<1>17. QED BY <1>3, <1>15, <1>16 DEF t
-------------------------------------------------------------------------------
(* "r" is the sequence "q" without what is at place "p". *)
LeavesOut(q, p, r) ==
    /\ Len(r) = Len(q) - 1
    /\ \A j \in 1 .. Len(q) - 1 : r[j] = IF j < p THEN q[j] ELSE q[j + 1]

LEMMA LeftOut ==
    ASSUME NEW S, NEW q \in Seq(S), NEW p \in 1 .. Len(q)
    PROVE  \E r \in Seq(S) : LeavesOut(q, p, r)
<1>1. PICK n \in Nat : n = Len(q)
    BY LenProperties
<1>2. \A j \in 1 .. n : q[j] \in S
    BY <1>1, ElementOfSeq
<1> DEFINE a == SubSeq(q, 1, p - 1)
           b == SubSeq(q, p + 1, n)
           r == a \o b
<1>3. p \in Int /\ p - 1 \in Int /\ p + 1 \in Int /\ 1 \in Int /\ n \in Int /\ p \in 1 .. n
    BY <1>1
<1>4. /\ a \in Seq(S) /\ Len(a) = (IF 1 <= p - 1 THEN p - 1 - 1 + 1 ELSE 0)
      /\ \A j \in 1 .. p - 1 - 1 + 1 : a[j] = q[1 + j - 1]
  <2>1. \A j \in 1 .. p - 1 : q[j] \in S
      BY <1>2, <1>3
  <2>2. QED BY <1>3, <2>1, SubSeqProperties
<1>5. /\ b \in Seq(S) /\ Len(b) = (IF p + 1 <= n THEN n - (p + 1) + 1 ELSE 0)
      /\ \A j \in 1 .. n - (p + 1) + 1 : b[j] = q[p + 1 + j - 1]
  <2>1. \A j \in p + 1 .. n : q[j] \in S
      BY <1>2, <1>3
  <2>2. QED BY <1>3, <2>1, SubSeqProperties
<1> HIDE DEF a, b
<1>6. Len(a) = p - 1 /\ Len(b) = n - p
    BY <1>3, <1>4, <1>5
<1>7. /\ \A j \in 1 .. p - 1 : a[j] = q[j]
      /\ \A j \in 1 .. n - p : b[j] = q[p + j]
  <2>1. ASSUME NEW j \in 1 .. p - 1 PROVE a[j] = q[j]
    <3>1. j \in 1 .. p - 1 - 1 + 1 /\ 1 + j - 1 = j
        BY <1>3
    <3>2. QED BY <1>4, <3>1
  <2>2. ASSUME NEW j \in 1 .. n - p PROVE b[j] = q[p + j]
    <3>1. j \in 1 .. n - (p + 1) + 1 /\ p + 1 + j - 1 = p + j
        BY <1>3
    <3>2. QED BY <1>5, <3>1
  <2>3. QED BY <2>1, <2>2
<1>8. /\ r \in Seq(S) /\ Len(r) = Len(a) + Len(b)
      /\ \A j \in 1 .. Len(a) + Len(b) : r[j] = IF j <= Len(a) THEN a[j] ELSE b[j - Len(a)]
    BY <1>4, <1>5, ConcatProperties
<1> HIDE DEF r
<1>9. Len(r) = n - 1
    BY <1>3, <1>6, <1>8
<1>10. ASSUME NEW j \in 1 .. n - 1
       PROVE  r[j] = IF j < p THEN q[j] ELSE q[j + 1]
  <2>1. r[j] = IF j <= p - 1 THEN a[j] ELSE b[j - (p - 1)]
      BY <1>3, <1>6, <1>8
  <2>2. CASE j < p
    <3>1. j \in 1 .. p - 1
        BY <1>3, <2>2
    <3>2. QED BY <2>1, <2>2, <3>1, <1>7
  <2>3. CASE ~(j < p)
    <3>1. ~(j <= p - 1) /\ j - (p - 1) \in 1 .. n - p /\ p + (j - (p - 1)) = j + 1
        BY <1>3, <2>3
    <3>2. b[j - (p - 1)] = q[j + 1]
        BY <3>1, <1>7
    <3>3. QED BY <2>1, <2>3, <3>1, <3>2
  <2>4. QED BY <2>2, <2>3
<1>11. LeavesOut(q, p, r)
    BY <1>1, <1>9, <1>10 DEF LeavesOut
<1>12. QED BY <1>8, <1>11

(* What an emptied block holds. *)
LEMMA EmptyBlock ==
    ASSUME NEW s, NEW ch, NEW D, Keeps(s, ch, D), NEW i \in 1 .. Len(ch),
           s.node[ch[i]].count = 0
    PROVE  \A k \in Slots : s.node[ch[i]].entry[k] = NoName
<1>1. Cardinality(Occupied(s.node[ch[i]])) = 0
    BY DEF Keeps, Holds
<1>2. Occupied(s.node[ch[i]]) = {}
    BY <1>1, SlotsAreFinite, FS_EmptySet
<1>3. QED BY <1>2 DEF Occupied

(* Facts about the blocks of a chain, in the form the next lemmas use. *)
LEMMA ChainFacts ==
    ASSUME NEW s, NEW ch, NEW D, Keeps(s, ch, D)
    PROVE  /\ ch \in Seq(Blocks) /\ Len(ch) \in Nat \ {0} /\ ch[1] = First
           /\ \A j \in 1 .. Len(ch) : ch[j] \in Blocks /\ ch[j] \in s.owned
           /\ s.node \in [Blocks -> NodeType] /\ s.owned \subseteq Blocks
           /\ s = [node |-> s.node, owned |-> s.owned]
           /\ \A b \in Blocks : /\ s.node[b].next \in Blocks /\ s.node[b].previous \in Blocks
                                /\ s.node[b].next_flag \in BOOLEAN
                                /\ s.node[b].previous_flag \in BOOLEAN
<1>1. ch \in Seq(Blocks) /\ ch # <<>> /\ ch[1] = First
    BY DEF Keeps, IsLinked
<1>2. Len(ch) \in Nat \ {0}
    BY <1>1, EmptySeq
<1>3. \A j \in 1 .. Len(ch) : ch[j] \in Blocks /\ ch[j] \in s.owned
    BY <1>1, ElementOfSeq DEF Keeps, IsLinked
<1>4. /\ s.node \in [Blocks -> NodeType] /\ s.owned \subseteq Blocks
      /\ s = [node |-> s.node, owned |-> s.owned]
    BY DEF Keeps, ChainType
<1>5. \A b \in Blocks : s.node[b] \in NodeType
    BY <1>4
<1>6. QED BY <1>1, <1>2, <1>3, <1>4, <1>5 DEF NodeType

(* BypassBlock changes the block the link back leads to. *)
LEMMA BypassWrites ==
    ASSUME NEW s, NEW ch, NEW D, Keeps(s, ch, D), NEW b \in Blocks
    PROVE  /\ [s.node[s.node[b].previous] EXCEPT !.next = s.node[b].next,
                                                 !.next_flag = s.node[b].next_flag] \in NodeType
           /\ BypassBlock(s, b).node =
                [s.node EXCEPT ![s.node[b].previous] =
                   [s.node[s.node[b].previous] EXCEPT !.next = s.node[b].next,
                                                      !.next_flag = s.node[b].next_flag]]
           /\ BypassBlock(s, b).owned = s.owned
           /\ BypassBlock(s, b) \in ChainType
<1> DEFINE p == s.node[b].previous
           t == BypassBlock(s, b)
<1>1. /\ p \in Blocks /\ s.node[b].next \in Blocks /\ s.node[b].next_flag \in BOOLEAN
      /\ s.node \in [Blocks -> NodeType]
    BY ChainFacts
<1>2. PICK n \in NodeType : /\ n = [s.node[p] EXCEPT !.next = s.node[b].next,
                                                     !.next_flag = s.node[b].next_flag]
  <2>1. s.node[p] \in NodeType
      BY <1>1
  <2>2. QED BY <1>1, <2>1 DEF NodeType
<1>3. t.node = [s.node EXCEPT ![p] = n] /\ t.owned = s.owned
      /\ t = [node |-> t.node, owned |-> t.owned]
  <2> DEFINE x == s.node[b].next
             f == s.node[b].next_flag
  <2>1. PICK u : u = [s.node EXCEPT ![p].next = x]
      OBVIOUS
  <2>2. u \in [Blocks -> NodeType] /\ u[p] = [s.node[p] EXCEPT !.next = x]
    <3>1. [s.node[p] EXCEPT !.next = x] \in NodeType
        BY <1>1 DEF NodeType
    <3>2. QED BY <1>1, <2>1, <3>1
  <2>3. [u EXCEPT ![p].next_flag = f] = [s.node EXCEPT ![p] = n]
    <3>1. [u[p] EXCEPT !.next_flag = f] = n
        BY <1>1, <1>2, <2>2 DEF NodeType
    <3>2. \A a \in Blocks : a # p => u[a] = s.node[a]
        BY <1>1, <2>1
    <3>3. QED BY <1>1, <1>2, <2>2, <3>1, <3>2
  <2>4. PICK nodes, owned : s = [node |-> nodes, owned |-> owned] /\ nodes = s.node /\ owned = s.owned
      BY ChainFacts
  <2>5. [s EXCEPT !.node[p].next = x] = [node |-> u, owned |-> s.owned]
      BY <2>1, <2>4
  <2>6. t = [[node |-> u, owned |-> s.owned] EXCEPT !.node[p].next_flag = f]
      BY <2>5 DEF BypassBlock
  <2>7. t = [node |-> [u EXCEPT ![p].next_flag = f], owned |-> s.owned]
      BY <2>6
  <2>8. QED BY <2>3, <2>7
<1> HIDE DEF t
<1>4. t \in ChainType
  <2>1. t.node \in [Blocks -> NodeType]
      BY <1>1, <1>3
  <2>2. t.owned \subseteq Blocks
      BY <1>3, ChainFacts
  <2>3. QED BY <1>3, <2>1, <2>2 DEF ChainType
<1>5. QED BY <1>2, <1>3, <1>4 DEF t

(* An emptied block whose link back leads out of the chain: the chain stays. *)
LEMMA BypassOutside ==
    ASSUME NEW s, NEW ch, NEW D, Keeps(s, ch, D), NEW b \in Blocks,
           s.node[b].previous \notin {ch[j] : j \in 1 .. Len(ch)}
    PROVE  Keeps(BypassBlock(s, b), ch, D)
<1> DEFINE p == s.node[b].previous
           t == BypassBlock(s, b)
<1>1. p \in Blocks /\ s.node \in [Blocks -> NodeType]
    BY ChainFacts
<1> DEFINE n == [s.node[p] EXCEPT !.next = s.node[b].next, !.next_flag = s.node[b].next_flag]
<1>2. n \in NodeType /\ t.node = [s.node EXCEPT ![p] = n]
    BY BypassWrites
<1>3. t.owned = s.owned
    BY BypassWrites
<1>4. t \in ChainType
    BY BypassWrites
<1> HIDE DEF t, n
<1>5. \A j \in 1 .. Len(ch) : t.node[ch[j]] = s.node[ch[j]]
    BY <1>1, <1>2, <1>3, ChainFacts
<1>7. IsLinked(t, ch)
  <2>1. IsLinked(s, ch)
      BY DEF Keeps
  <2>2. QED BY <1>3, <1>5, <2>1, SameLinks
<1>8. Holds(t, ch, D)
  <2>1. Holds(s, ch, D)
      BY DEF Keeps
  <2>2. \A i, j \in 1 .. Len(ch), k, l \in Slots :
          t.node[ch[i]].entry[k] = t.node[ch[j]].entry[l] /\ t.node[ch[i]].entry[k] # NoName
            => i = j /\ k = l
    <3>1. ASSUME NEW i \in 1 .. Len(ch), NEW j \in 1 .. Len(ch), NEW k \in Slots, NEW l \in Slots,
                 t.node[ch[i]].entry[k] = t.node[ch[j]].entry[l], t.node[ch[i]].entry[k] # NoName
          PROVE  i = j /\ k = l
      <4>1. s.node[ch[i]].entry[k] = s.node[ch[j]].entry[l] /\ s.node[ch[i]].entry[k] # NoName
          BY <3>1, <1>5
      <4>2. QED BY <2>1, <4>1 DEF Holds
    <3>2. QED BY <3>1
  <2>3. \A name \in Names :
          name \in D <=> \E i \in 1 .. Len(ch), k \in Slots : t.node[ch[i]].entry[k] = name
    <3>1. \A name \in Names :
            name \in D <=> \E i \in 1 .. Len(ch), k \in Slots : s.node[ch[i]].entry[k] = name
        BY <2>1 DEF Holds
    <3>2. QED BY <1>5, <3>1
  <2>4. \A i \in 1 .. Len(ch) : t.node[ch[i]].count = Cardinality(Occupied(t.node[ch[i]]))
    <3>1. \A i \in 1 .. Len(ch) : s.node[ch[i]].count = Cardinality(Occupied(s.node[ch[i]]))
        BY <2>1 DEF Holds
    <3>2. QED BY <1>5, <3>1
  <2>5. QED BY <2>2, <2>3, <2>4 DEF Holds
<1>9. QED BY <1>4, <1>7, <1>8 DEF Keeps, t
(* An emptied block behind the block its link back leads to leaves the chain. *)
LEMMA BypassInside ==
    ASSUME NEW s, NEW ch, NEW D, Keeps(s, ch, D), NEW i \in 2 .. Len(ch),
           s.node[ch[i]].count = 0, s.node[ch[i]].previous = ch[i - 1]
    PROVE  \E dh : Keeps(BypassBlock(s, ch[i]), dh, D)
<1> DEFINE b == ch[i]
           p == s.node[b].previous
           t == BypassBlock(s, b)
<1>1. PICK L \in Nat : /\ L = Len(ch) /\ L >= 2 /\ i \in 2 .. L /\ i \in 1 .. L /\ i - 1 \in 1 .. L
                       /\ i \in 1 .. Len(ch)
  <2>1. Len(ch) \in Nat
      BY ChainFacts
  <2>2. QED BY <2>1
<1>d. \A j, l \in 1 .. L : ch[j] = ch[l] => j = l
    BY <1>1 DEF Keeps, IsLinked
<1>s. ch \in Seq(Blocks) /\ ch[1] = First
    BY ChainFacts
<1>o. /\ \A j \in 1 .. L : ch[j] \in Blocks /\ ch[j] \in s.owned
      /\ s.node \in [Blocks -> NodeType]
    BY <1>1, ChainFacts
<1>2. b \in Blocks /\ p \in Blocks /\ p = ch[i - 1] /\ p # b
    BY <1>1, <1>d, <1>o
<1> DEFINE n == [s.node[p] EXCEPT !.next = s.node[b].next, !.next_flag = s.node[b].next_flag]
<1>w. n \in NodeType /\ t.node = [s.node EXCEPT ![p] = n]
    BY <1>2, BypassWrites
<1>3. t.owned = s.owned /\ t \in ChainType
    BY <1>2, BypassWrites
<1>4. /\ n.next = s.node[b].next /\ n.next_flag = s.node[b].next_flag
      /\ n.previous = s.node[p].previous /\ n.previous_flag = s.node[p].previous_flag
      /\ n.entry = s.node[p].entry /\ n.count = s.node[p].count
    BY <1>2, <1>o DEF NodeType
<1> HIDE DEF t, n
<1>5. /\ t.node[p] = n
      /\ \A j \in 1 .. L : j # i - 1 => t.node[ch[j]] = s.node[ch[j]]
  <2>1. t.node[p] = n
      BY <1>2, <1>w, <1>o
  <2>2. ASSUME NEW j \in 1 .. L, j # i - 1 PROVE t.node[ch[j]] = s.node[ch[j]]
    <3>1. ch[j] # p /\ ch[j] \in Blocks
        BY <2>2, <1>1, <1>2, <1>d, <1>o
    <3>2. QED BY <3>1, <1>w, <1>o
  <2>3. QED BY <2>1, <2>2
<1>i. ch \in Seq(Blocks) /\ i \in 1 .. Len(ch)
    BY <1>1, <1>s
<1>h. PICK dh \in Seq(Blocks) : LeavesOut(ch, i, dh)
    BY <1>i, LeftOut
<1>6. /\ Len(dh) = Len(ch) - 1
      /\ \A j \in 1 .. Len(ch) - 1 : dh[j] = IF j < i THEN ch[j] ELSE ch[j + 1]
    BY <1>h DEF LeavesOut
<1> DEFINE m == [j \in 1 .. L - 1 |-> IF j < i THEN j ELSE j + 1]
<1>n. Len(dh) = L - 1 /\ L - 1 \in Nat /\ L - 1 >= 1
    BY <1>1, <1>6
<1>v. \A j \in 1 .. L - 1 : /\ j < i => m[j] = j
                            /\ ~(j < i) => m[j] = j + 1
    OBVIOUS
<1>r. \A j \in 1 .. L - 1 : m[j] \in 1 .. L /\ m[j] # i
    BY <1>1
<1>j. \A j, l \in 1 .. L - 1 : m[j] = m[l] => j = l
    BY <1>1
<1>7. \A j \in 1 .. L - 1 : dh[j] = ch[m[j]]
    BY <1>1, <1>6, <1>v
<1>8. \A k \in 1 .. L : k # i => \E j \in 1 .. L - 1 : m[j] = k
  <2>1. ASSUME NEW k \in 1 .. L, k # i PROVE \E j \in 1 .. L - 1 : m[j] = k
    <3>1. CASE k < i
      <4>1. k \in 1 .. L - 1 /\ m[k] = k
          BY <1>1, <3>1
      <4>2. QED BY <4>1
    <3>2. CASE ~(k < i)
      <4>1. k - 1 \in 1 .. L - 1 /\ ~(k - 1 < i) /\ k - 1 + 1 = k
          BY <1>1, <2>1, <3>2
      <4>2. m[k - 1] = k
          BY <4>1
      <4>3. QED BY <4>1, <4>2
    <3>3. QED BY <3>1, <3>2
  <2>2. QED BY <2>1
<1>9. m \in [1 .. Len(dh) -> 0 .. Len(ch)]
  <2>1. \A j \in 1 .. L - 1 : m[j] \in 0 .. L
      BY <1>r
  <2>2. QED BY <1>1, <1>n, <2>1
<1> HIDE DEF m
<1>10. \A j \in 1 .. L - 1 : /\ t.node[dh[j]].entry = s.node[ch[m[j]]].entry
                             /\ t.node[dh[j]].count = s.node[ch[m[j]]].count
                             /\ t.node[dh[j]].previous = s.node[ch[m[j]]].previous
                             /\ t.node[dh[j]].previous_flag = s.node[ch[m[j]]].previous_flag
  <2>1. ASSUME NEW k \in 1 .. L
        PROVE  /\ t.node[ch[k]].entry = s.node[ch[k]].entry
               /\ t.node[ch[k]].count = s.node[ch[k]].count
               /\ t.node[ch[k]].previous = s.node[ch[k]].previous
               /\ t.node[ch[k]].previous_flag = s.node[ch[k]].previous_flag
    <3>1. CASE k = i - 1
        BY <3>1, <1>2, <1>4, <1>5
    <3>2. CASE k # i - 1
        BY <3>2, <1>5
    <3>3. QED BY <3>1, <3>2
  <2>2. ASSUME NEW j \in 1 .. L - 1
        PROVE  /\ t.node[dh[j]].entry = s.node[ch[m[j]]].entry
               /\ t.node[dh[j]].count = s.node[ch[m[j]]].count
               /\ t.node[dh[j]].previous = s.node[ch[m[j]]].previous
               /\ t.node[dh[j]].previous_flag = s.node[ch[m[j]]].previous_flag
    <3>1. PICK k \in 1 .. L : m[j] = k /\ dh[j] = ch[k]
        BY <1>7, <1>r
    <3>2. /\ t.node[ch[k]].entry = s.node[ch[k]].entry
          /\ t.node[ch[k]].count = s.node[ch[k]].count
          /\ t.node[ch[k]].previous = s.node[ch[k]].previous
          /\ t.node[ch[k]].previous_flag = s.node[ch[k]].previous_flag
        BY <2>1
    <3>3. QED BY <3>1, <3>2
  <2>3. QED BY <2>2
<1>11. Holds(t, dh, D)
  <2>1. ch \in Seq(Blocks) /\ Holds(s, ch, D)
      BY <1>s DEF Keeps
  <2>2. \A j \in 1 .. Len(dh) :
             IF m[j] = 0
             THEN (\A k \in Slots : t.node[dh[j]].entry[k] = NoName) /\ t.node[dh[j]].count = 0
             ELSE /\ t.node[dh[j]].entry = s.node[ch[m[j]]].entry
                  /\ t.node[dh[j]].count = s.node[ch[m[j]]].count
    <3>1. \A j \in 1 .. L - 1 : m[j] # 0
        BY <1>r
    <3>2. ASSUME NEW j \in 1 .. L - 1
          PROVE  /\ m[j] # 0
                 /\ t.node[dh[j]].entry = s.node[ch[m[j]]].entry
                 /\ t.node[dh[j]].count = s.node[ch[m[j]]].count
        BY <3>1, <1>10
    <3>3. QED BY <3>2, <1>n
  <2>3. \A j, l \in 1 .. Len(dh) : m[j] = m[l] /\ m[j] # 0 => j = l
      BY <1>j, <1>n
  <2>4. \A k \in Slots : s.node[ch[i]].entry[k] = NoName
      BY <1>1, EmptyBlock
  <2>5. \A k \in 1 .. Len(ch) : (\E j \in 1 .. Len(dh) : m[j] = k)
                                  \/ \A l \in Slots : s.node[ch[k]].entry[l] = NoName
    <3>1. ASSUME NEW k \in 1 .. L
          PROVE  \/ \E j \in 1 .. L - 1 : m[j] = k
                 \/ \A l \in Slots : s.node[ch[k]].entry[l] = NoName
      <4>1. CASE k = i
          BY <4>1, <2>4
      <4>2. CASE k # i
          BY <4>2, <1>8
      <4>3. QED BY <4>1, <4>2
    <3>2. QED BY <3>1, <1>1, <1>n
  <2>6. Moved(s, ch, t, dh, m)
      BY <1>9, <2>2, <2>3, <2>5 DEF Moved
  <2>7. QED BY <2>1, <2>6, ContentsMove
<1>12. /\ \A k \in 1 .. L - 1 : s.node[ch[k]].next_flag /\ s.node[ch[k]].next = ch[k + 1]
       /\ ~s.node[ch[L]].next_flag /\ ~s.node[First].previous_flag
       /\ \A k \in 2 .. L : /\ s.node[ch[k]].previous_flag
                            /\ \/ s.node[ch[k]].previous = ch[k - 1]
                               \/ s.node[ch[k]].previous \in s.owned \ {ch[j] : j \in 1 .. L}
    BY <1>1 DEF Keeps, IsLinked
<1>13. IsLinked(t, dh)
  <2>1. dh \in Seq(Blocks) /\ dh # <<>>
      BY <1>h, <1>n, EmptySeq
  <2>2. dh[1] = First
      BY <1>1, <1>6, <1>s
  <2>3. \A j, l \in 1 .. Len(dh) : dh[j] = dh[l] => j = l
    <3>1. ASSUME NEW j \in 1 .. L - 1, NEW l \in 1 .. L - 1, dh[j] = dh[l] PROVE j = l
      <4>1. m[j] = m[l]
        <5>1. m[j] \in 1 .. L /\ m[l] \in 1 .. L
            BY <1>r
        <5>2. ch[m[j]] = ch[m[l]]
            BY <3>1, <1>7
        <5>3. QED BY <5>1, <5>2, <1>d
      <4>2. QED BY <4>1, <1>j
    <3>2. QED BY <3>1, <1>n
  <2>4. \A j \in 1 .. Len(dh) : dh[j] \in t.owned
      BY <1>3, <1>7, <1>n, <1>o, <1>r
  <2>5. ASSUME NEW j \in 1 .. L - 2
        PROVE  t.node[dh[j]].next_flag /\ t.node[dh[j]].next = dh[j + 1]
    <3>1. j \in 1 .. L - 1 /\ j + 1 \in 1 .. L - 1 /\ j \in 1 .. L
        BY <1>1
    <3>2. CASE j = i - 1
      <4>1. dh[j] = p /\ dh[j + 1] = ch[i + 1] /\ i \in 1 .. L - 1
        <5>1. j < i /\ ~(j + 1 < i) /\ j + 1 + 1 = i + 1
            BY <1>1, <3>2
        <5>2. m[j] = i - 1 /\ m[j + 1] = i + 1
            BY <1>v, <3>1, <3>2, <5>1
        <5>3. dh[j] = ch[i - 1] /\ dh[j + 1] = ch[i + 1]
            BY <3>1, <5>2, <1>7
        <5>4. i \in 1 .. L - 1
            BY <1>1, <3>2
        <5>5. QED BY <1>2, <5>3, <5>4
      <4>2. QED BY <4>1, <1>4, <1>5, <1>12
    <3>3. CASE j # i - 1
      <4>1. m[j] \in 1 .. L - 1 /\ m[j] # i - 1 /\ m[j + 1] = m[j] + 1
        <5>1. CASE j < i
          <6>1. j + 1 < i
              BY <1>1, <3>3, <5>1
          <6>2. QED BY <1>1, <1>v, <3>1, <3>3, <5>1, <6>1
        <5>2. CASE ~(j < i)
          <6>1. ~(j + 1 < i)
              BY <1>1, <5>2
          <6>2. m[j] = j + 1 /\ m[j + 1] = j + 1 + 1
              BY <1>v, <3>1, <5>2, <6>1
          <6>3. QED BY <1>1, <5>2, <6>2
        <5>3. QED BY <5>1, <5>2
      <4>2. dh[j] = ch[m[j]] /\ dh[j + 1] = ch[m[j] + 1] /\ m[j] \in 1 .. L
          BY <1>r, <1>7, <3>1, <4>1
      <4>3. t.node[ch[m[j]]] = s.node[ch[m[j]]]
          BY <4>1, <4>2, <1>5
      <4>4. s.node[ch[m[j]]].next_flag /\ s.node[ch[m[j]]].next = ch[m[j] + 1]
          BY <4>1, <1>12
      <4>5. QED BY <4>2, <4>3, <4>4
    <3>4. QED BY <3>2, <3>3
  <2>6. ~t.node[dh[Len(dh)]].next_flag
    <3>1. L - 1 \in 1 .. L - 1 /\ L \in 1 .. L
        BY <1>1
    <3>2. CASE i = L
      <4>1. dh[L - 1] = p
          BY <1>1, <1>2, <1>n, <1>v, <1>7, <3>1, <3>2
      <4>2. n.next_flag = s.node[ch[L]].next_flag
          BY <3>2, <1>4
      <4>3. QED BY <4>1, <4>2, <1>5, <1>n, <1>12
    <3>3. CASE i # L
      <4>1. ~(L - 1 < i) /\ L # i - 1 /\ L - 1 + 1 = L
          BY <1>1, <3>3
      <4>2. m[L - 1] = L - 1 + 1
          BY <1>v, <3>1, <4>1
      <4>3. dh[L - 1] = ch[L]
          BY <4>1, <4>2, <3>1, <1>7
      <4>4. t.node[ch[L]] = s.node[ch[L]]
          BY <4>1, <3>1, <1>5
      <4>5. QED BY <4>3, <4>4, <1>n, <1>12
    <3>4. QED BY <3>2, <3>3
  <2>7. ~t.node[First].previous_flag
    <3>1. 1 \in 1 .. L - 1 /\ m[1] = 1
        BY <1>1, <1>v
    <3>2. dh[1] = First
        BY <3>1, <1>7, <1>s
    <3>3. t.node[dh[1]].previous_flag = s.node[ch[1]].previous_flag
        BY <3>1, <1>10
    <3>4. QED BY <3>2, <3>3, <1>12, <1>s
  <2>8. ASSUME NEW j \in 2 .. L - 1
        PROVE  /\ t.node[dh[j]].previous_flag
               /\ \/ t.node[dh[j]].previous = dh[j - 1]
                  \/ t.node[dh[j]].previous \in t.owned \ {dh[l] : l \in 1 .. Len(dh)}
    <3>1. j \in 1 .. L - 1 /\ j - 1 \in 1 .. L - 1 /\ m[j] \in 2 .. L
      <4>1. j \in 1 .. L - 1 /\ j - 1 \in 1 .. L - 1
          BY <1>1
      <4>2. (m[j] = j \/ m[j] = j + 1) /\ m[j] \in 1 .. L
          BY <4>1, <1>v, <1>r
      <4>3. QED BY <4>1, <4>2
    <3>2. /\ t.node[dh[j]].previous = s.node[ch[m[j]]].previous
          /\ t.node[dh[j]].previous_flag
          /\ \/ s.node[ch[m[j]]].previous = ch[m[j] - 1]
             \/ s.node[ch[m[j]]].previous \in s.owned \ {ch[l] : l \in 1 .. L}
        BY <3>1, <1>10, <1>12
    <3>3. CASE s.node[ch[m[j]]].previous \in s.owned \ {ch[l] : l \in 1 .. L}
      <4>1. \A l \in 1 .. Len(dh) : dh[l] # s.node[ch[m[j]]].previous
        <5>1. ASSUME NEW l \in 1 .. L - 1 PROVE dh[l] # s.node[ch[m[j]]].previous
          <6>1. PICK k \in 1 .. L : dh[l] = ch[k]
              BY <1>r, <1>7
          <6>2. QED BY <6>1, <3>3
        <5>2. QED BY <5>1, <1>n
      <4>2. s.node[ch[m[j]]].previous \notin {dh[l] : l \in 1 .. Len(dh)}
          BY <4>1
      <4>3. QED BY <3>2, <3>3, <4>2, <1>3
    <3>4. CASE s.node[ch[m[j]]].previous = ch[m[j] - 1]
      <4>1. CASE j = i
        <5>1. m[j] = i + 1 /\ m[j] - 1 = i
            BY <4>1, <3>1, <1>1, <1>v
        <5>2. \A l \in 1 .. Len(dh) : dh[l] # ch[i]
          <6>1. ASSUME NEW l \in 1 .. L - 1 PROVE dh[l] # ch[i]
            <7>1. PICK k \in 1 .. L : dh[l] = ch[k] /\ k # i
                BY <1>r, <1>7
            <7>2. QED BY <7>1, <1>1, <1>d
          <6>2. QED BY <6>1, <1>n
        <5>3. ch[i] \notin {dh[l] : l \in 1 .. Len(dh)}
            BY <5>2
        <5>4. QED BY <5>1, <5>3, <3>2, <3>4, <1>1, <1>3, <1>o
      <4>2. CASE j # i
        <5>1. m[j] - 1 = m[j - 1]
          <6>1. CASE j < i
            <7>1. j - 1 < i
                BY <6>1, <1>1
            <7>2. QED BY <6>1, <7>1, <3>1, <1>v
          <6>2. CASE ~(j < i)
            <7>1. ~(j - 1 < i)
                BY <6>2, <4>2, <1>1
            <7>2. m[j] = j + 1 /\ m[j - 1] = j - 1 + 1
                BY <6>2, <7>1, <3>1, <1>v
            <7>3. QED BY <7>2, <3>1
          <6>3. QED BY <6>1, <6>2
        <5>2. QED BY <5>1, <3>1, <3>2, <3>4, <1>7
      <4>3. QED BY <4>1, <4>2
    <3>5. QED BY <3>2, <3>3, <3>4
  <2>9. Len(dh) - 1 = L - 2 /\ Len(dh) = L - 1
      BY <1>1, <1>n
  <2>10. /\ \A j \in 1 .. Len(dh) - 1 : t.node[dh[j]].next_flag /\ t.node[dh[j]].next = dh[j + 1]
         /\ \A j \in 2 .. Len(dh) :
              /\ t.node[dh[j]].previous_flag
              /\ \/ t.node[dh[j]].previous = dh[j - 1]
                 \/ t.node[dh[j]].previous \in t.owned \ {dh[l] : l \in 1 .. Len(dh)}
      BY <2>5, <2>8, <2>9
  <2>11. QED BY <2>1, <2>2, <2>3, <2>4, <2>6, <2>7, <2>10 DEF IsLinked
<1>14. QED BY <1>3, <1>11, <1>13 DEF Keeps, t
(* An emptied first block takes over the second one, which leaves the chain. *)
LEMMA PullNextKeeps ==
    ASSUME NEW s, NEW ch, NEW D, Keeps(s, ch, D),
           s.node[First].count = 0, s.node[First].next_flag
    PROVE  \E dh : Keeps(PullNext(s, First), dh, D)
<1> DEFINE next == s.node[First].next
           pulled == [s.node[next] EXCEPT !.previous_flag = FALSE]
           nodes == [s.node EXCEPT ![First] = pulled, ![next] = EmptyNode]
           t == PullNext(s, First)
<1>0. ch \in Seq(Blocks) /\ Len(ch) \in Nat \ {0} /\ ch[1] = First
    BY ChainFacts
<1>1. PICK L \in Nat : L = Len(ch) /\ L >= 2
  <2>1. PICK l \in Nat \ {0} : l = Len(ch)
      BY <1>0
  <2>2. l # 1
      BY <1>0, <2>1 DEF Keeps, IsLinked
  <2>3. l >= 2
      BY <2>2
  <2>4. QED BY <2>1, <2>3
<1>d. \A j, l \in 1 .. L : ch[j] = ch[l] => j = l
    BY <1>1 DEF Keeps, IsLinked
<1>o. /\ \A j \in 1 .. L : ch[j] \in Blocks /\ ch[j] \in s.owned
      /\ s.node \in [Blocks -> NodeType] /\ s.owned \subseteq Blocks
    BY <1>1, ChainFacts
<1>l. /\ \A k \in 1 .. L - 1 : s.node[ch[k]].next_flag /\ s.node[ch[k]].next = ch[k + 1]
      /\ ~s.node[ch[L]].next_flag /\ ~s.node[First].previous_flag
      /\ \A k \in 2 .. L : /\ s.node[ch[k]].previous_flag
                           /\ \/ s.node[ch[k]].previous = ch[k - 1]
                              \/ s.node[ch[k]].previous \in s.owned \ {ch[j] : j \in 1 .. L}
    BY <1>1 DEF Keeps, IsLinked
<1>2. 1 \in 1 .. L /\ 2 \in 1 .. L /\ next = ch[2] /\ First \in Blocks /\ next \in Blocks
      /\ next # First
  <2>1. 1 \in 1 .. L /\ 2 \in 1 .. L /\ 1 \in 1 .. L - 1 /\ 1 + 1 = 2 /\ 1 # 2
      BY <1>1
  <2>2. next = ch[2]
      BY <2>1, <1>0, <1>l
  <2>3. QED BY <2>1, <2>2, <1>0, <1>d, <1>o
<1>3. PICK second \in NodeType : second = s.node[next]
    BY <1>2, <1>o
<1>4. /\ pulled \in NodeType
      /\ pulled.entry = second.entry /\ pulled.count = second.count
      /\ pulled.next = second.next /\ pulled.next_flag = second.next_flag
      /\ pulled.previous_flag = FALSE
    BY <1>3 DEF NodeType
<1>5. EmptyNode \in NodeType
    BY <1>2, SlotsAreFinite DEF EmptyNode, NodeType, First
<1>6. /\ t.node = (IF pulled.next_flag
                   THEN [nodes EXCEPT ![pulled.next].previous = First] ELSE nodes)
      /\ t.owned = s.owned \ {next}
      /\ t = [node |-> t.node, owned |-> t.owned]
    BY DEF PullNext
<1> HIDE DEF pulled, t
<1>7. /\ nodes \in [Blocks -> NodeType]
      /\ nodes[First] = pulled
      /\ \A b \in Blocks : b # First /\ b # next => nodes[b] = s.node[b]
    BY <1>2, <1>4, <1>5, <1>o
<1> HIDE DEF nodes
<1>8. /\ t.node \in [Blocks -> NodeType]
      /\ t.node[First] = pulled
      /\ \A k \in 4 .. L : t.node[ch[k]] = s.node[ch[k]]
      /\ L >= 3 => t.node[ch[3]] = [s.node[ch[3]] EXCEPT !.previous = First]
  <2>1. \A k \in 3 .. L : ch[k] \in Blocks /\ ch[k] # First /\ ch[k] # next
    <3>1. \A k \in 3 .. L : k \in 1 .. L /\ k # 1 /\ k # 2
        OBVIOUS
    <3>2. QED BY <3>1, <1>0, <1>2, <1>d, <1>o
  <2>2. CASE L = 2
    <3>1. ~pulled.next_flag
        BY <2>2, <1>2, <1>3, <1>4, <1>l
    <3>2. t.node = nodes
        BY <3>1, <1>6
    <3>3. QED BY <2>2, <3>2, <1>7
  <2>3. CASE L # 2
    <3>1. L >= 3 /\ 2 \in 1 .. L - 1 /\ 3 \in 3 .. L /\ 2 + 1 = 3
        BY <2>3, <1>1
    <3>2. pulled.next_flag /\ pulled.next = ch[3]
        BY <3>1, <1>2, <1>3, <1>4, <1>l
    <3>3. PICK third \in Blocks : third = ch[3] /\ third # First /\ third # next
        BY <2>1, <3>1
    <3>4. t.node = [nodes EXCEPT ![third].previous = First]
        BY <3>2, <3>3, <1>6
    <3>5. nodes[third] = s.node[third] /\ nodes[third] \in NodeType
        BY <3>3, <1>7
    <3>6. [nodes[third] EXCEPT !.previous = First] \in NodeType
        BY <3>5, <1>2 DEF NodeType
    <3>7. t.node = [nodes EXCEPT ![third] = [nodes[third] EXCEPT !.previous = First]]
        BY <3>4
    <3>8. /\ t.node \in [Blocks -> NodeType]
          /\ t.node[third] = [nodes[third] EXCEPT !.previous = First]
          /\ \A b \in Blocks : b # third => t.node[b] = nodes[b]
        BY <3>6, <3>7, <1>7
    <3>9. t.node[First] = pulled
        BY <3>3, <3>8, <1>2, <1>7
    <3>10. ASSUME NEW k \in 4 .. L PROVE t.node[ch[k]] = s.node[ch[k]]
      <4>1. k \in 3 .. L /\ k \in 1 .. L /\ 3 \in 1 .. L /\ k # 3
          BY <3>1
      <4>2. ch[k] # third
          BY <4>1, <3>3, <1>d
      <4>3. QED BY <4>1, <4>2, <2>1, <3>8, <1>7
    <3>11. t.node[ch[3]] = [s.node[ch[3]] EXCEPT !.previous = First]
        BY <3>3, <3>5, <3>8
    <3>12. QED BY <3>8, <3>9, <3>10, <3>11
  <2>4. QED BY <2>2, <2>3
<1>9. t \in ChainType
    BY <1>6, <1>8, <1>o DEF ChainType
<1>10. 2 \in 1 .. Len(ch)
    BY <1>1, <1>2
<1>h. PICK dh \in Seq(Blocks) : LeavesOut(ch, 2, dh)
    BY <1>0, <1>10, LeftOut
<1>11. /\ Len(dh) = Len(ch) - 1
       /\ \A j \in 1 .. Len(ch) - 1 : dh[j] = IF j < 2 THEN ch[j] ELSE ch[j + 1]
    BY <1>h DEF LeavesOut
<1>n. Len(dh) = L - 1 /\ L - 1 \in Nat /\ L - 1 >= 1 /\ 1 \in 1 .. L - 1
    BY <1>1, <1>11
<1>f. dh[1] = First
    BY <1>0, <1>1, <1>11, <1>n
<1>t. \A j \in 2 .. L - 1 : dh[j] = ch[j + 1] /\ j + 1 \in 3 .. L /\ j + 1 \in 1 .. L
  <2>1. ASSUME NEW j \in 2 .. L - 1
        PROVE  dh[j] = ch[j + 1] /\ j + 1 \in 3 .. L /\ j + 1 \in 1 .. L
    <3>1. j \in 1 .. L - 1 /\ ~(j < 2)
        OBVIOUS
    <3>2. dh[j] = ch[j + 1]
        BY <3>1, <1>1, <1>11
    <3>3. QED BY <3>2, <1>1
  <2>2. QED BY <2>1
<1>12. \A k \in 3 .. L :
         /\ t.node[ch[k]].entry = s.node[ch[k]].entry
         /\ t.node[ch[k]].count = s.node[ch[k]].count
         /\ t.node[ch[k]].next = s.node[ch[k]].next
         /\ t.node[ch[k]].next_flag = s.node[ch[k]].next_flag
         /\ t.node[ch[k]].previous_flag = s.node[ch[k]].previous_flag
         /\ t.node[ch[k]].previous = IF k = 3 THEN First ELSE s.node[ch[k]].previous
  <2>1. ASSUME NEW k \in 3 .. L
        PROVE  /\ t.node[ch[k]].entry = s.node[ch[k]].entry
               /\ t.node[ch[k]].count = s.node[ch[k]].count
               /\ t.node[ch[k]].next = s.node[ch[k]].next
               /\ t.node[ch[k]].next_flag = s.node[ch[k]].next_flag
               /\ t.node[ch[k]].previous_flag = s.node[ch[k]].previous_flag
               /\ t.node[ch[k]].previous = IF k = 3 THEN First ELSE s.node[ch[k]].previous
    <3>1. CASE k = 3
      <4>1. ch[3] \in Blocks /\ L >= 3
          BY <3>1, <1>1, <1>o
      <4>2. PICK n \in NodeType : n = s.node[ch[3]]
          BY <4>1, <1>o
      <4>3. t.node[ch[3]] = [n EXCEPT !.previous = First]
          BY <4>1, <4>2, <1>8
      <4>4. QED BY <3>1, <4>2, <4>3 DEF NodeType
    <3>2. CASE k # 3
      <4>1. k \in 4 .. L
          BY <3>2
      <4>2. QED BY <3>2, <4>1, <1>8
    <3>3. QED BY <3>1, <3>2
  <2>2. QED BY <2>1
<1> DEFINE m == [j \in 1 .. L - 1 |-> j + 1]
<1>13. Holds(t, dh, D)
  <2>1. Holds(s, ch, D)
      BY DEF Keeps
  <2>2. m \in [1 .. Len(dh) -> 0 .. Len(ch)]
      BY <1>1, <1>n
  <2>3. ASSUME NEW j \in 1 .. L - 1
        PROVE  /\ m[j] # 0
               /\ t.node[dh[j]].entry = s.node[ch[m[j]]].entry
               /\ t.node[dh[j]].count = s.node[ch[m[j]]].count
    <3>1. m[j] = j + 1 /\ j + 1 # 0
        OBVIOUS
    <3>2. CASE j = 1
        BY <3>1, <3>2, <1>2, <1>3, <1>4, <1>8, <1>f
    <3>3. CASE j # 1
      <4>1. j \in 2 .. L - 1
          BY <3>3
      <4>2. dh[j] = ch[j + 1] /\ j + 1 \in 3 .. L
          BY <4>1, <1>t
      <4>3. QED BY <3>1, <4>2, <1>12
    <3>4. QED BY <3>2, <3>3
  <2>4. \A j \in 1 .. Len(dh) :
             IF m[j] = 0
             THEN (\A k \in Slots : t.node[dh[j]].entry[k] = NoName) /\ t.node[dh[j]].count = 0
             ELSE /\ t.node[dh[j]].entry = s.node[ch[m[j]]].entry
                  /\ t.node[dh[j]].count = s.node[ch[m[j]]].count
    <3> HIDE DEF m
    <3>1. QED BY <2>3, <1>n
  <2>5. \A j, l \in 1 .. Len(dh) : m[j] = m[l] /\ m[j] # 0 => j = l
      BY <1>n
  <2>6. \A k \in 1 .. Len(ch) : (\E j \in 1 .. Len(dh) : m[j] = k)
                                  \/ \A l \in Slots : s.node[ch[k]].entry[l] = NoName
    <3>1. ASSUME NEW k \in 1 .. L
          PROVE  \/ \E j \in 1 .. L - 1 : m[j] = k
                 \/ \A l \in Slots : s.node[ch[k]].entry[l] = NoName
      <4>1. CASE k = 1
        <5>1. 1 \in 1 .. Len(ch)
            BY <1>1
        <5>2. \A l \in Slots : s.node[ch[1]].entry[l] = NoName
            BY <5>1, <1>0, EmptyBlock
        <5>3. QED BY <4>1, <5>2
      <4>2. CASE k # 1
        <5>1. k - 1 \in 1 .. L - 1 /\ k - 1 + 1 = k
            BY <4>2, <1>1
        <5>2. m[k - 1] = k
            BY <5>1
        <5>3. QED BY <5>1, <5>2
      <4>3. QED BY <4>1, <4>2
    <3>2. QED BY <3>1, <1>1, <1>n
  <2> HIDE DEF m
  <2>7. Moved(s, ch, t, dh, m)
      BY <2>2, <2>4, <2>5, <2>6 DEF Moved
  <2>8. QED BY <1>0, <2>1, <2>7, ContentsMove
<1>14. IsLinked(t, dh)
  <2>1. dh \in Seq(Blocks) /\ dh # <<>>
      BY <1>h, <1>n, EmptySeq
  <2>2. \A j, l \in 1 .. Len(dh) : dh[j] = dh[l] => j = l
    <3>1. ASSUME NEW j \in 1 .. L - 1, NEW l \in 1 .. L - 1, dh[j] = dh[l] PROVE j = l
      <4>1. ASSUME NEW k \in 2 .. L - 1 PROVE dh[k] # First
        <5>1. dh[k] = ch[k + 1] /\ k + 1 \in 1 .. L /\ k + 1 # 1
            BY <1>t
        <5>2. QED BY <5>1, <1>0, <1>2, <1>d
      <4>2. CASE j = 1
          BY <4>1, <4>2, <3>1, <1>f
      <4>3. CASE j # 1 /\ l = 1
          BY <4>1, <4>3, <3>1, <1>f
      <4>4. CASE j # 1 /\ l # 1
        <5>1. j \in 2 .. L - 1 /\ l \in 2 .. L - 1
            BY <4>4
        <5>2. ch[j + 1] = ch[l + 1] /\ j + 1 \in 1 .. L /\ l + 1 \in 1 .. L
            BY <5>1, <3>1, <1>t
        <5>3. j + 1 = l + 1
            BY <5>2, <1>d
        <5>4. QED BY <5>3
      <4>5. QED BY <4>2, <4>3, <4>4
    <3>2. QED BY <3>1, <1>n
  <2>3. \A j \in 1 .. Len(dh) : dh[j] \in t.owned
    <3>1. ASSUME NEW j \in 1 .. L - 1 PROVE dh[j] \in s.owned /\ dh[j] # next
      <4>1. CASE j = 1
          BY <4>1, <1>0, <1>2, <1>f, <1>o
      <4>2. CASE j # 1
        <5>1. dh[j] = ch[j + 1] /\ j + 1 \in 1 .. L /\ j + 1 # 2
            BY <4>2, <1>t
        <5>2. QED BY <5>1, <1>2, <1>d, <1>o
      <4>3. QED BY <4>1, <4>2
    <3>2. QED BY <3>1, <1>6, <1>n
  <2>4. ASSUME NEW j \in 1 .. L - 2
        PROVE  t.node[dh[j]].next_flag /\ t.node[dh[j]].next = dh[j + 1]
    <3>1. j + 1 \in 2 .. L - 1 /\ j + 1 \in 1 .. L - 1 /\ dh[j + 1] = ch[j + 1 + 1]
        BY <1>t
    <3>2. s.node[ch[j + 1]].next_flag /\ s.node[ch[j + 1]].next = ch[j + 1 + 1]
        BY <3>1, <1>l
    <3>3. CASE j = 1
        BY <3>1, <3>2, <3>3, <1>2, <1>3, <1>4, <1>8, <1>f
    <3>4. CASE j # 1
      <4>1. j \in 2 .. L - 1
          BY <3>4
      <4>2. dh[j] = ch[j + 1] /\ j + 1 \in 3 .. L
          BY <4>1, <1>t
      <4>3. QED BY <3>1, <3>2, <4>2, <1>12
    <3>5. QED BY <3>3, <3>4
  <2>5. ~t.node[dh[Len(dh)]].next_flag
    <3>1. CASE L = 2
        BY <3>1, <1>2, <1>3, <1>4, <1>8, <1>f, <1>l, <1>n
    <3>2. CASE L # 2
      <4>1. L - 1 \in 2 .. L - 1 /\ L - 1 + 1 = L /\ L \in 3 .. L
          BY <3>2, <1>1
      <4>2. dh[L - 1] = ch[L]
          BY <4>1, <1>t
      <4>3. t.node[ch[L]].next_flag = s.node[ch[L]].next_flag
          BY <4>1, <1>12
      <4>4. QED BY <4>2, <4>3, <1>l, <1>n
    <3>3. QED BY <3>1, <3>2
  <2>6. ~t.node[First].previous_flag
      BY <1>4, <1>8
  <2>7. ASSUME NEW j \in 2 .. L - 1
        PROVE  /\ t.node[dh[j]].previous_flag
               /\ \/ t.node[dh[j]].previous = dh[j - 1]
                  \/ t.node[dh[j]].previous \in t.owned \ {dh[l] : l \in 1 .. Len(dh)}
    <3>1. dh[j] = ch[j + 1] /\ j + 1 \in 3 .. L /\ j + 1 \in 2 .. L /\ j + 1 - 1 = j
        BY <1>t
    <3>2. /\ s.node[ch[j + 1]].previous_flag
          /\ \/ s.node[ch[j + 1]].previous = ch[j]
             \/ s.node[ch[j + 1]].previous \in s.owned \ {ch[l] : l \in 1 .. L}
      <4>1. PICK k \in 2 .. L : k = j + 1 /\ k - 1 = j
          BY <3>1
      <4>2. QED BY <4>1, <1>l
    <3>3. t.node[dh[j]].previous_flag
        BY <3>1, <3>2, <1>12
    <3>4. CASE j = 2
      <4>1. t.node[dh[j]].previous = First
          BY <3>1, <3>4, <1>12
      <4>2. j - 1 = 1
          BY <3>4
      <4>3. QED BY <3>3, <4>1, <4>2, <1>f
    <3>5. CASE j # 2
      <4>1. t.node[dh[j]].previous = s.node[ch[j + 1]].previous
          BY <3>1, <3>5, <1>12
      <4>2. j - 1 \in 2 .. L - 1 /\ j - 1 + 1 = j
          BY <3>5
      <4>3. dh[j - 1] = ch[j]
          BY <4>2, <1>t
      <4>4. CASE s.node[ch[j + 1]].previous = ch[j]
          BY <3>3, <4>1, <4>3, <4>4
      <4>5. CASE s.node[ch[j + 1]].previous \in s.owned \ {ch[l] : l \in 1 .. L}
        <5>1. PICK q : q = s.node[ch[j + 1]].previous /\ q \in s.owned
                       /\ \A l \in 1 .. L : ch[l] # q
            BY <4>5
        <5>2. ASSUME NEW l \in 1 .. L - 1 PROVE dh[l] # q
          <6>1. CASE l = 1
              BY <6>1, <5>1, <1>0, <1>2, <1>f
          <6>2. CASE l # 1
            <7>1. l \in 2 .. L - 1
                BY <6>2
            <7>2. QED BY <7>1, <5>1, <1>t
          <6>3. QED BY <6>1, <6>2
        <5>3. q \notin {dh[l] : l \in 1 .. Len(dh)}
            BY <5>2, <1>n
        <5>4. q \in t.owned
            BY <5>1, <1>2, <1>6
        <5>5. QED BY <3>3, <4>1, <5>1, <5>3, <5>4
      <4>6. QED BY <3>2, <4>4, <4>5
    <3>6. QED BY <3>4, <3>5
  <2>8. Len(dh) - 1 = L - 2 /\ Len(dh) = L - 1
      BY <1>1, <1>n
  <2>9. /\ \A j \in 1 .. Len(dh) - 1 : t.node[dh[j]].next_flag /\ t.node[dh[j]].next = dh[j + 1]
        /\ \A j \in 2 .. Len(dh) :
             /\ t.node[dh[j]].previous_flag
             /\ \/ t.node[dh[j]].previous = dh[j - 1]
                \/ t.node[dh[j]].previous \in t.owned \ {dh[l] : l \in 1 .. Len(dh)}
      BY <2>4, <2>7, <2>8
  <2>10. QED BY <1>f, <2>1, <2>2, <2>3, <2>5, <2>6, <2>9 DEF IsLinked
<1>15. QED BY <1>9, <1>13, <1>14 DEF Keeps, t
(* Taking a name of the directory out of the block it is in. *)
LEMMA ClearSlotKeeps ==
    ASSUME NEW s, NEW ch, NEW D \in SUBSET Names, Keeps(s, ch, D),
           NEW i \in 1 .. Len(ch), NEW k \in Slots, NEW name \in Names,
           s.node[ch[i]].entry[k] = name
    PROVE  Keeps([s EXCEPT !.node[ch[i]] = ClearSlot(s.node[ch[i]], name)], ch, D \ {name})
<1> DEFINE n == s.node[ch[i]]
           m == ClearSlot(n, name)
           t == [s EXCEPT !.node[ch[i]] = m]
<1>1. /\ s.node \in [Blocks -> NodeType]
      /\ \A j \in 1 .. Len(ch) : ch[j] \in Blocks
      /\ n \in NodeType
    BY ChainFacts
<1>2. name # NoName
    BY SlotsAreFinite
<1>u. \A j \in 1 .. Len(ch), l \in Slots : s.node[ch[j]].entry[l] = name => j = i /\ l = k
  <2>1. Holds(s, ch, D)
      BY DEF Keeps
  <2>2. ASSUME NEW j \in 1 .. Len(ch), NEW l \in Slots, s.node[ch[j]].entry[l] = name
        PROVE  j = i /\ l = k
    <3>1. s.node[ch[j]].entry[l] = s.node[ch[i]].entry[k] /\ s.node[ch[j]].entry[l] # NoName
        BY <1>2, <2>2
    <3>2. QED BY <2>1, <3>1 DEF Holds
  <2>3. QED BY <2>2
<1>3. /\ n.count = Cardinality(Occupied(n)) /\ n.entry[k] = name
      /\ \A l \in Slots : n.entry[l] = name => l = k
  <2>1. n.count = Cardinality(Occupied(n))
      BY DEF Keeps, Holds
  <2>2. QED BY <1>u, <2>1
<1>4. n.entry \in [Slots -> Names \cup {NoName}]
    BY <1>1 DEF NodeType
<1> HIDE DEF n
<1>5. /\ m \in NodeType
      /\ m.count = Cardinality(Occupied(m))
      /\ m.entry = [n.entry EXCEPT ![k] = NoName]
      /\ m.next = n.next /\ m.next_flag = n.next_flag
      /\ m.previous = n.previous /\ m.previous_flag = n.previous_flag
    BY <1>1, <1>3, ClearSlotClears
<1> HIDE DEF m
<1>6. t \in ChainType /\ IsLinked(t, ch)
    BY <1>5, LinksKept DEF Keeps, n
<1>7. t.node = [s.node EXCEPT ![ch[i]] = m]
    BY DEF Keeps, ChainType
<1>8. /\ t.node[ch[i]] = m
      /\ \A j \in 1 .. Len(ch) : j # i => t.node[ch[j]] = s.node[ch[j]]
  <2>1. \A j \in 1 .. Len(ch) : j # i => ch[j] # ch[i]
      BY DEF Keeps, IsLinked
  <2>2. QED BY <1>1, <1>7, <2>1
<1> HIDE DEF t
<1>9. \A j \in 1 .. Len(ch), l \in Slots :
          t.node[ch[j]].entry[l] = IF j = i /\ l = k THEN NoName ELSE s.node[ch[j]].entry[l]
    BY <1>4, <1>5, <1>8 DEF n
<1>10. ASSUME NEW j \in 1 .. Len(ch), NEW l \in 1 .. Len(ch), NEW p \in Slots, NEW q \in Slots,
              t.node[ch[j]].entry[p] = t.node[ch[l]].entry[q], t.node[ch[j]].entry[p] # NoName
       PROVE  j = l /\ p = q
  <2>1. ~(j = i /\ p = k) /\ ~(l = i /\ q = k)
      BY <1>9, <1>10
  <2>2. s.node[ch[j]].entry[p] = s.node[ch[l]].entry[q] /\ s.node[ch[j]].entry[p] # NoName
      BY <2>1, <1>9, <1>10
  <2>3. Holds(s, ch, D)
      BY DEF Keeps
  <2>4. QED BY <2>2, <2>3 DEF Holds
<1>11. ASSUME NEW other \in Names
       PROVE  other \in D \ {name}
                <=> \E j \in 1 .. Len(ch), l \in Slots : t.node[ch[j]].entry[l] = other
  <2>1. other \in D <=> \E j \in 1 .. Len(ch), l \in Slots : s.node[ch[j]].entry[l] = other
      BY DEF Keeps, Holds
  <2>2. other # NoName
      BY SlotsAreFinite
  <2>3. CASE other = name
      BY <2>3, <1>2, <1>9, <1>u
  <2>4. CASE other # name
    <3>1. \A j \in 1 .. Len(ch), l \in Slots :
             t.node[ch[j]].entry[l] = other <=> s.node[ch[j]].entry[l] = other
        BY <2>2, <2>4, <1>9
    <3>2. QED BY <2>1, <2>4, <3>1
  <2>5. QED BY <2>3, <2>4
<1>12. ASSUME NEW j \in 1 .. Len(ch)
       PROVE  t.node[ch[j]].count = Cardinality(Occupied(t.node[ch[j]]))
  <2>1. CASE j = i
      BY <2>1, <1>5, <1>8
  <2>2. CASE j # i
    <3>1. s.node[ch[j]].count = Cardinality(Occupied(s.node[ch[j]]))
        BY DEF Keeps, Holds
    <3>2. QED BY <2>2, <3>1, <1>8
  <2>3. QED BY <2>1, <2>2
<1>13. Holds(t, ch, D \ {name})
    BY <1>10, <1>11, <1>12 DEF Holds
<1>14. QED BY <1>6, <1>13 DEF Keeps, t, m, n

(* CIBNodeDeleteNodeBlock on an emptied block of the chain. *)
LEMMA DeleteNodeBlockKeeps ==
    ASSUME NEW s, NEW ch, NEW D, Keeps(s, ch, D), NEW i \in 1 .. Len(ch),
           s.node[ch[i]].count = 0
    PROVE  \E dh : Keeps(DeleteNodeBlock(s, ch[i]), dh, D)
<1> DEFINE n == s.node[ch[i]]
<1>1. /\ Len(ch) \in Nat \ {0} /\ ch[1] = First /\ ch[i] \in Blocks
      /\ n.next_flag \in BOOLEAN /\ n.previous_flag \in BOOLEAN
    BY ChainFacts
<1>2. IsLinked(s, ch)
    BY DEF Keeps
<1>3. CASE n.previous_flag
  <2>1. i \in 2 .. Len(ch)
    <3>1. i # 1
        BY <1>1, <1>2, <1>3 DEF IsLinked
    <3>2. QED BY <3>1
  <2>2. \/ n.previous = ch[i - 1]
        \/ n.previous \in s.owned \ {ch[j] : j \in 1 .. Len(ch)}
      BY <1>2, <2>1 DEF IsLinked
  <2>3. DeleteNodeBlock(s, ch[i]) = BypassBlock(s, ch[i])
      BY <1>3 DEF DeleteNodeBlock
  <2>4. CASE n.previous = ch[i - 1]
      BY <2>1, <2>3, <2>4, BypassInside
  <2>5. CASE n.previous \in s.owned \ {ch[j] : j \in 1 .. Len(ch)}
    <3>1. n.previous \notin {ch[j] : j \in 1 .. Len(ch)}
        BY <2>5
    <3>2. Keeps(BypassBlock(s, ch[i]), ch, D)
        BY <3>1, <1>1, BypassOutside
    <3>3. QED BY <3>2, <2>3
  <2>6. QED BY <2>2, <2>4, <2>5
<1>4. CASE ~n.previous_flag
  <2>1. i = 1
    <3>1. CASE i # 1
      <4>1. i \in 2 .. Len(ch)
          BY <3>1
      <4>2. QED BY <4>1, <1>2, <1>4 DEF IsLinked
    <3>2. QED BY <3>1
  <2>2. ch[i] = First
      BY <2>1, <1>1
  <2>3. CASE n.next_flag
    <3>1. DeleteNodeBlock(s, ch[i]) = PullNext(s, First)
        BY <1>4, <2>2, <2>3 DEF DeleteNodeBlock
    <3>2. QED BY <2>2, <2>3, <3>1, PullNextKeeps
  <2>4. CASE ~n.next_flag
    <3>1. DeleteNodeBlock(s, ch[i]) = s
        BY <1>4, <2>4 DEF DeleteNodeBlock
    <3>2. QED BY <3>1
  <2>5. QED BY <2>3, <2>4
<1>5. QED BY <1>1, <1>3, <1>4

(* CIBNodeRemoveEntryId for a name of the directory. *)
LEMMA RemoveEntryIdKeeps ==
    ASSUME NEW s, NEW ch, NEW D \in SUBSET Names, Keeps(s, ch, D), NEW name \in D
    PROVE  \E dh : Keeps(RemoveEntryId(s, name), dh, D \ {name})
<1>1. name \in Names
    OBVIOUS
<1>2. PICK i \in 1 .. Len(ch), k \in Slots : s.node[ch[i]].entry[k] = name
    BY <1>1 DEF Keeps, Holds
<1>3. Holder(s, name) = i /\ i # 0
    BY <1>1, <1>2, FoundWhereItIs
<1>4. Chain(s) = ch
    BY ChainIsLinked DEF Keeps
<1>5. PICK cleared : cleared = [s EXCEPT !.node[ch[i]] = ClearSlot(s.node[ch[i]], name)]
    OBVIOUS
<1>6. Keeps(cleared, ch, D \ {name})
    BY <1>1, <1>2, <1>5, ClearSlotKeeps
<1>7. RemoveEntryId(s, name) = IF cleared.node[ch[i]].count = 0
                               THEN DeleteNodeBlock(cleared, ch[i]) ELSE cleared
    BY <1>3, <1>4, <1>5 DEF RemoveEntryId
<1>8. CASE cleared.node[ch[i]].count = 0
  <2>1. \E dh : Keeps(DeleteNodeBlock(cleared, ch[i]), dh, D \ {name})
      BY <1>6, <1>8, DeleteNodeBlockKeeps
  <2>2. QED BY <1>7, <1>8, <2>1
<1>9. CASE cleared.node[ch[i]].count # 0
    BY <1>6, <1>7, <1>9
<1>10. QED BY <1>8, <1>9
-------------------------------------------------------------------------------
(* Listing the directory. *)

(* "q" is a sequence of the elements of "E", each one once. *)
IsListing(q, E) ==
    /\ q \in Seq(Names)
    /\ \A i, j \in 1 .. Len(q) : q[i] = q[j] => i = j
    /\ {q[i] : i \in 1 .. Len(q)} = E

LEMMA ListingPlusOne ==
    ASSUME NEW q, NEW E, IsListing(q, E), NEW x \in Names, x \notin E
    PROVE  IsListing(<<x>> \o q, E \cup {x})
<1>1. q \in Seq(Names) /\ \A i, j \in 1 .. Len(q) : q[i] = q[j] => i = j
    BY DEF IsListing
<1>e. \A y : y \in E <=> \E i \in 1 .. Len(q) : q[i] = y
  <2>1. {q[i] : i \in 1 .. Len(q)} = E
      BY DEF IsListing
  <2>2. QED BY <2>1
<1>2. PICK n \in Nat : n = Len(q)
    BY <1>1, LenProperties
<1>3. <<x>> \in Seq(Names) /\ Len(<<x>>) = 1 /\ <<x>>[1] = x
    OBVIOUS
<1>4. PICK r : r = <<x>> \o q
    OBVIOUS
<1>5. /\ r \in Seq(Names) /\ Len(r) = 1 + n
      /\ \A i \in 1 .. 1 + n : r[i] = IF i <= 1 THEN <<x>>[i] ELSE q[i - 1]
    BY <1>1, <1>2, <1>3, <1>4, ConcatProperties
<1>6. r[1] = x /\ \A i \in 1 .. n : r[i + 1] = q[i]
  <2>1. 1 \in 1 .. 1 + n
      OBVIOUS
  <2>2. r[1] = x
      BY <2>1, <1>3, <1>5
  <2>3. ASSUME NEW i \in 1 .. n PROVE r[i + 1] = q[i]
    <3>1. i + 1 \in 1 .. 1 + n /\ ~(i + 1 <= 1) /\ i + 1 - 1 = i
        OBVIOUS
    <3>2. QED BY <3>1, <1>5
  <2>4. QED BY <2>2, <2>3
<1>7. ASSUME NEW i \in 1 .. 1 + n PROVE i = 1 \/ (i - 1 \in 1 .. n /\ r[i] = q[i - 1])
  <2>1. CASE i # 1
    <3>1. i - 1 \in 1 .. n /\ i - 1 + 1 = i
        BY <2>1
    <3>2. QED BY <3>1, <1>6
  <2>2. QED BY <2>1
<1>8. ASSUME NEW i \in 1 .. 1 + n, NEW j \in 1 .. 1 + n, r[i] = r[j] PROVE i = j
  <2>1. \A l \in 1 .. n : q[l] # x
      BY <1>2, <1>e
  <2>2. CASE i = 1
      BY <2>1, <2>2, <1>6, <1>7, <1>8
  <2>3. CASE j = 1
      BY <2>1, <2>3, <1>6, <1>7, <1>8
  <2>4. CASE i # 1 /\ j # 1
    <3>1. i - 1 \in 1 .. n /\ j - 1 \in 1 .. n /\ q[i - 1] = q[j - 1]
        BY <2>4, <1>7, <1>8
    <3>2. i - 1 = j - 1
        BY <3>1, <1>1, <1>2
    <3>3. QED BY <3>2
  <2>5. QED BY <2>2, <2>3, <2>4
<1>9. {r[i] : i \in 1 .. 1 + n} = E \cup {x}
  <2>1. ASSUME NEW i \in 1 .. 1 + n PROVE r[i] \in E \cup {x}
      BY <1>2, <1>6, <1>7, <1>e
  <2>2. ASSUME NEW y \in E \cup {x} PROVE \E i \in 1 .. 1 + n : r[i] = y
    <3>1. CASE y = x
        BY <3>1, <1>6, 1 \in 1 .. 1 + n
    <3>2. CASE y \in E
      <4>1. PICK i \in 1 .. n : q[i] = y
          BY <3>2, <1>2, <1>e
      <4>2. i + 1 \in 1 .. 1 + n /\ r[i + 1] = y
          BY <4>1, <1>6
      <4>3. QED BY <4>2
    <3>3. QED BY <3>1, <3>2
  <2>3. QED BY <2>1, <2>2
<1>10. IsListing(r, E \cup {x})
    BY <1>5, <1>8, <1>9 DEF IsListing
<1>11. QED BY <1>4, <1>10

(* A listing has as many elements as the set. *)
LEMMA ListingLength ==
    ASSUME NEW q, NEW E, IsListing(q, E)
    PROVE  Len(q) = Cardinality(E) /\ ToSet(q) = E
<1>1. /\ q \in Seq(Names) /\ \A i, j \in 1 .. Len(q) : q[i] = q[j] => i = j
      /\ {q[i] : i \in 1 .. Len(q)} = E
    BY DEF IsListing
<1>2. DOMAIN q = 1 .. Len(q) /\ q \in [1 .. Len(q) -> Names] /\ Len(q) \in Nat
    BY <1>1, LenProperties
<1>3. ToSet(q) = E
    BY <1>1, <1>2 DEF ToSet
<1>4. IsFiniteSet(1 .. Len(q))
    BY <1>2, FS_Interval
<1>5. q \in Surjection(1 .. Len(q), E)
    BY <1>1, <1>2 DEF Surjection
<1>6. IsFiniteSet(E)
    BY <1>4, <1>5, FS_Surjection
<1>7. q \in Seq(E)
  <2>1. q \in Seq(Range(q))
      BY <1>1, SeqOfRange
  <2>2. Range(q) = E
      BY <1>1, <1>2 DEF Range
  <2>3. QED BY <2>1, <2>2
<1>8. Cardinality({q[i] : i \in 1 .. Len(q)}) = Len(q)
    BY <1>1, <1>6, <1>7, NoLongerThan
<1>9. QED BY <1>1, <1>3, <1>8
(* InFront adds the names of one block. *)
LEMMA InFrontLists ==
    ASSUME NEW n \in NodeType, NEW found, NEW E, IsListing(found, E),
           \A k \in Slots : n.entry[k] \notin E,
           \A k, l \in Slots : n.entry[k] = n.entry[l] /\ n.entry[k] # NoName => k = l
    PROVE  IsListing(InFront(n, found), E \cup {n.entry[k] : k \in Occupied(n)})
<1> DEFINE N == NODE_ENTRIES
           S == Seq(Names)
           Step(seen, i) == IF n.entry[i] = NoName THEN seen ELSE <<n.entry[i]>> \o seen
           step == [w \in (1 .. N) \X S |-> Step(w[2], w[1])]
           Body(f) == [i \in 0 .. N |->
                         IF i = 0 THEN found
                         ELSE IF n.entry[i] = NoName THEN f[i - 1] ELSE <<n.entry[i]>> \o f[i - 1]]
           put == CHOOSE f : f = Body(f)
           A(i) == E \cup {n.entry[k] : k \in {l \in Slots : l <= i /\ n.entry[l] # NoName}}
<1>1. N \in Nat /\ Slots = 1 .. N
    BY SlotsAreFinite DEF Slots
<1>2. n.entry \in [Slots -> Names \cup {NoName}]
    BY DEF NodeType
<1>3. found \in S
    BY DEF IsListing
<1>4. ASSUME NEW i \in 1 .. N, NEW seen \in S PROVE Step(seen, i) \in S
  <2>1. CASE n.entry[i] = NoName
      BY <2>1
  <2>2. CASE n.entry[i] # NoName
    <3>1. n.entry[i] \in Names
        BY <2>2, <1>1, <1>2
    <3>2. <<n.entry[i]>> \in Seq(Names)
        BY <3>1
    <3>3. <<n.entry[i]>> \o seen \in Seq(Names)
        BY <3>2, ConcatProperties
    <3>4. QED BY <2>2, <3>3
  <2>3. QED BY <2>1, <2>2
<1>5. step \in [(1 .. N) \X S -> S]
  <2> HIDE DEF Step, S, N
  <2>1. QED BY <1>4
<1>6. PICK f \in [0 .. N -> S] : GoesOn(f, N, found, step)
  <2> HIDE DEF step, S, N
  <2>1. QED BY <1>1, <1>3, <1>5, RecursionExists
<1>7. f = Body(f)
  <2>1. ASSUME NEW i \in 1 .. N PROVE f[i] = Step(f[i - 1], i)
    <3>1. <<i, f[i - 1]>> \in (1 .. N) \X S
        BY <1>6, <1>1
    <3>2. f[i] = step[<<i, f[i - 1]>>]
        BY <1>6 DEF GoesOn
    <3> HIDE DEF Step, S, N
    <3>3. QED BY <3>1, <3>2
  <2>2. ASSUME NEW i \in 0 .. N PROVE f[i] = Body(f)[i]
    <3>1. CASE i = 0
        BY <3>1, <1>6 DEF GoesOn
    <3>2. CASE i # 0
      <4>1. i \in 1 .. N
          BY <3>2, <1>1
      <4>2. Body(f)[i] = Step(f[i - 1], i)
          BY <4>1
      <4>3. QED BY <4>1, <4>2, <2>1
    <3>3. QED BY <3>1, <3>2
  <2> DEFINE B == Body(f)
  <2>3. B = [i \in 0 .. N |-> B[i]]
      OBVIOUS
  <2>4. \A i \in 0 .. N : f[i] = B[i]
      BY <2>2
  <2> HIDE DEF B
  <2>5. f = B
      BY <2>3, <2>4, <1>6
  <2>6. QED BY <2>5 DEF B
<1>8. put = Body(put)
  <2> HIDE DEF Body
  <2>1. QED BY <1>7
<1>9. InFront(n, found) = put[N]
    BY DEF InFront, N
<1> HIDE DEF put
<1>10. put[0] = found
    BY <1>8, <1>1
<1>11. ASSUME NEW i \in 1 .. N PROVE put[i] = Step(put[i - 1], i)
  <2>1. i \in 0 .. N /\ i # 0
      OBVIOUS
  <2>2. Body(put)[i] = Step(put[i - 1], i)
      BY <2>1
  <2> HIDE DEF Body, Step
  <2>3. QED BY <2>2, <1>8
<1>12. A(0) = E /\ A(N) = E \cup {n.entry[k] : k \in Occupied(n)}
  <2>1. {l \in Slots : l <= 0 /\ n.entry[l] # NoName} = {}
      BY <1>1
  <2>2. {l \in Slots : l <= N /\ n.entry[l] # NoName} = Occupied(n)
      BY <1>1 DEF Occupied
  <2>3. QED BY <2>1, <2>2
<1>13. ASSUME NEW i \in 1 .. N PROVE A(i) = IF n.entry[i] = NoName THEN A(i - 1)
                                           ELSE A(i - 1) \cup {n.entry[i]}
  <2> DEFINE Q(j) == {l \in Slots : l <= j /\ n.entry[l] # NoName}
  <2>1. Q(i) = IF n.entry[i] = NoName THEN Q(i - 1) ELSE Q(i - 1) \cup {i}
    <3>1. \A l \in Slots : l <= i <=> l <= i - 1 \/ l = i
        BY <1>1
    <3>2. i \in Slots
        BY <1>1
    <3>3. QED BY <3>1, <3>2
  <2>2. A(i) = E \cup {n.entry[k] : k \in Q(i)} /\ A(i - 1) = E \cup {n.entry[k] : k \in Q(i - 1)}
      OBVIOUS
  <2> HIDE DEF Q, A
  <2>3. QED BY <2>1, <2>2
<1> DEFINE H == {i \in 0 .. N : IsListing(put[i], A(i))}
<1>14. 0 \in H
  <2> HIDE DEF A
  <2>1. IsListing(put[0], A(0))
      BY <1>10, <1>12
  <2>2. QED BY <2>1, <1>1
<1>15. ASSUME NEW i \in 1 .. N, i - 1 \in H PROVE i \in H
  <2>1. IsListing(put[i - 1], A(i - 1))
      BY <1>15
  <2>2. CASE n.entry[i] = NoName
    <3> HIDE DEF A
    <3>1. put[i] = put[i - 1] /\ A(i) = A(i - 1)
        BY <2>2, <1>11, <1>13
    <3>2. IsListing(put[i], A(i)) /\ i \in 0 .. N
        BY <2>1, <3>1
    <3>3. QED BY <3>2
  <2>3. CASE n.entry[i] # NoName
    <3>1. n.entry[i] \in Names
        BY <2>3, <1>1, <1>2
    <3>2. n.entry[i] \notin A(i - 1)
      <4>1. i \in Slots /\ n.entry[i] \notin E
          BY <1>1
      <4>2. \A l \in Slots : l <= i - 1 => n.entry[l] # n.entry[i]
          BY <2>3, <4>1, <1>1
      <4>3. QED BY <4>1, <4>2
    <3> HIDE DEF A
    <3>3. put[i] = <<n.entry[i]>> \o put[i - 1] /\ A(i) = A(i - 1) \cup {n.entry[i]}
        BY <2>3, <1>11, <1>13
    <3>4. IsListing(<<n.entry[i]>> \o put[i - 1], A(i - 1) \cup {n.entry[i]})
        BY <2>1, <3>1, <3>2, ListingPlusOne
    <3>5. IsListing(put[i], A(i)) /\ i \in 0 .. N
      <4>1. i \in 0 .. N
          OBVIOUS
      <4>2. QED BY <3>3, <3>4, <4>1
    <3>6. QED BY <3>5
  <2>4. QED BY <2>2, <2>3
<1>16. N \in H
  <2> HIDE DEF H, N
  <2>1. \A i \in 0 .. N : i \in H
      BY <1>1, <1>14, <1>15, UpTo
  <2>2. QED BY <2>1, <1>1
<1> HIDE DEF A
<1>17. QED BY <1>9, <1>12, <1>16
(* CIBNodeGetDirEntries lists the names of the directory. *)
LEMMA DirEntriesLists ==
    ASSUME NEW s, NEW ch, NEW D \in SUBSET Names, Keeps(s, ch, D)
    PROVE  IsListing(DirEntries(s), D)
<1> DEFINE S == Seq(Names)
           A(k) == {y \in Names : \E j \in 1 .. Len(ch), l \in Slots :
                                     j <= k /\ s.node[ch[j]].entry[l] = y}
           Body(f) == [k \in 0 .. Len(ch) |->
                         IF k = 0 THEN <<>> ELSE InFront(s.node[ch[k]], f[k - 1])]
           found == CHOOSE f : f = Body(f)
<1>1. PICK N \in Nat : N = Len(ch)
    BY ChainFacts
<1>2. Chain(s) = ch
    BY ChainIsLinked DEF Keeps
<1>3. ASSUME NEW k \in 1 .. N
      PROVE  /\ s.node[ch[k]] \in NodeType
             /\ s.node[ch[k]].entry \in [Slots -> Names \cup {NoName}]
  <2>1. s.node[ch[k]] \in NodeType
      BY <1>1, ChainFacts
  <2>2. QED BY <2>1 DEF NodeType
<1>4. Holds(s, ch, D)
    BY DEF Keeps
<1>5. ASSUME NEW k \in 1 .. N, NEW seen, IsListing(seen, A(k - 1))
      PROVE  IsListing(InFront(s.node[ch[k]], seen), A(k))
  <2>1. PICK n \in NodeType : n = s.node[ch[k]]
      BY <1>3
  <2>2. ASSUME NEW l \in Slots PROVE n.entry[l] \notin A(k - 1)
    <3>1. SUFFICES ASSUME n.entry[l] \in A(k - 1) PROVE FALSE
        OBVIOUS
    <3>2. PICK j \in 1 .. Len(ch), m \in Slots : j <= k - 1 /\ s.node[ch[j]].entry[m] = n.entry[l]
        BY <3>1
    <3>3. n.entry[l] # NoName
        BY <3>1, SlotsAreFinite
    <3>4. k \in 1 .. Len(ch)
        BY <1>1
    <3>5. j = k
        BY <3>2, <3>3, <3>4, <2>1, <1>4 DEF Holds
    <3>6. QED BY <3>2, <3>5
  <2>3. \A l, m \in Slots : n.entry[l] = n.entry[m] /\ n.entry[l] # NoName => l = m
    <3>1. k \in 1 .. Len(ch)
        BY <1>1
    <3>2. QED BY <3>1, <2>1, <1>4 DEF Holds
  <2>4. A(k) = A(k - 1) \cup {n.entry[l] : l \in Occupied(n)}
    <3>1. ASSUME NEW y \in A(k) PROVE y \in A(k - 1) \cup {n.entry[l] : l \in Occupied(n)}
      <4>1. PICK j \in 1 .. Len(ch), m \in Slots : j <= k /\ s.node[ch[j]].entry[m] = y
          OBVIOUS
      <4>2. CASE j = k
        <5>1. n.entry[m] = y /\ y # NoName
            BY <4>1, <4>2, <2>1, SlotsAreFinite
        <5>2. QED BY <5>1 DEF Occupied
      <4>3. CASE j # k
        <5>1. j <= k - 1
            BY <4>1, <4>3, <1>1
        <5>2. QED BY <4>1, <5>1
      <4>4. QED BY <4>2, <4>3
    <3>2. ASSUME NEW y \in A(k - 1) PROVE y \in A(k)
      <4>1. PICK j \in 1 .. Len(ch), m \in Slots : j <= k - 1 /\ s.node[ch[j]].entry[m] = y
          OBVIOUS
      <4>2. j <= k
          BY <4>1, <1>1
      <4>3. QED BY <4>1, <4>2
    <3>3. ASSUME NEW l \in Occupied(n) PROVE n.entry[l] \in A(k)
      <4>1. l \in Slots /\ n.entry[l] # NoName
          BY DEF Occupied
      <4>2. n.entry[l] \in Names
          BY <4>1, <2>1, <1>3
      <4>3. k \in 1 .. Len(ch) /\ k <= k
          BY <1>1
      <4>4. s.node[ch[k]].entry[l] = n.entry[l]
          BY <2>1
      <4>5. QED BY <4>1, <4>2, <4>3, <4>4
    <3> HIDE DEF A
    <3>4. QED BY <3>1, <3>2, <3>3
  <2> HIDE DEF A
  <2>5. IsListing(InFront(n, seen), A(k - 1) \cup {n.entry[l] : l \in Occupied(n)})
      BY <1>5, <2>2, <2>3, InFrontLists
  <2>6. QED BY <2>1, <2>4, <2>5
<1>6. A(0) = {} /\ A(N) = D
  <2>1. A(0) = {}
      OBVIOUS
  <2>2. \A j \in 1 .. Len(ch) : j <= N
      BY <1>1
  <2>3. \A y \in Names : y \in A(N) <=> y \in D
      BY <1>4, <2>2 DEF Holds
  <2>4. A(N) \subseteq Names
      OBVIOUS
  <2> HIDE DEF A
  <2>5. QED BY <2>1, <2>3, <2>4
<1>7. IsListing(<<>>, {})
    BY EmptySeq DEF IsListing
<1> DEFINE Listings == [0 .. N -> S]
           Lists(f, k) == f[0] = <<>> /\ \A i \in 1 .. k : f[i] = InFront(s.node[ch[i]], f[i - 1])
           G == {k \in 0 .. N : \E f : f \in [0 .. k -> S] /\ Lists(f, k)
                                       /\ \A i \in 0 .. k : IsListing(f[i], A(i))}
<1> HIDE DEF A
<1>8. 0 \in G
  <2> DEFINE f == [i \in 0 .. 0 |-> <<>>]
  <2>1. f \in [0 .. 0 -> S] /\ f[0] = <<>>
      BY EmptySeq
  <2>2. IsListing(f[0], A(0))
      BY <2>1, <1>6, <1>7
  <2> HIDE DEF f, S
  <2>3. Lists(f, 0) /\ \A i \in 0 .. 0 : IsListing(f[i], A(i))
      BY <2>1, <2>2
  <2>4. QED BY <2>1, <2>3, <1>1
<1>9. ASSUME NEW k \in 1 .. N, k - 1 \in G PROVE k \in G
  <2>1. PICK f : /\ f \in [0 .. k - 1 -> S] /\ Lists(f, k - 1)
                 /\ \A i \in 0 .. k - 1 : IsListing(f[i], A(i))
      BY <1>9
  <2> DEFINE last == InFront(s.node[ch[k]], f[k - 1])
             g == [i \in 0 .. k |-> IF i = k THEN last ELSE f[i]]
  <2>2. IsListing(last, A(k)) /\ last \in S
    <3>1. k - 1 \in 0 .. k - 1
        OBVIOUS
    <3>2. IsListing(f[k - 1], A(k - 1))
        BY <2>1, <3>1
    <3>3. IsListing(last, A(k))
        BY <3>2, <1>5
    <3>4. QED BY <3>3 DEF IsListing
  <2>3. g[k] = last /\ \A i \in 0 .. k - 1 : g[i] = f[i]
      OBVIOUS
  <2>4. g \in [0 .. k -> S]
    <3>1. \A i \in 0 .. k : i # k => i \in 0 .. k - 1
        OBVIOUS
    <3> HIDE DEF last, S
    <3>2. QED BY <3>1, <2>1, <2>2
  <2> HIDE DEF g, last
  <2>5. ASSUME NEW i \in 1 .. k PROVE g[i] = InFront(s.node[ch[i]], g[i - 1])
    <3>1. CASE i = k
      <4>1. k - 1 \in 0 .. k - 1
          OBVIOUS
      <4>2. QED BY <3>1, <4>1, <2>3 DEF last
    <3>2. CASE i # k
      <4>1. i \in 1 .. k - 1 /\ i \in 0 .. k - 1 /\ i - 1 \in 0 .. k - 1
          BY <3>2
      <4>2. QED BY <4>1, <2>1, <2>3
    <3>3. QED BY <3>1, <3>2
  <2>6. g[0] = <<>>
    <3>1. 0 \in 0 .. k - 1
        OBVIOUS
    <3>2. QED BY <3>1, <2>1, <2>3
  <2>7. ASSUME NEW i \in 0 .. k PROVE IsListing(g[i], A(i))
    <3>1. CASE i = k
        BY <3>1, <2>2, <2>3
    <3>2. CASE i # k
      <4>1. i \in 0 .. k - 1
          BY <3>2
      <4>2. QED BY <4>1, <2>1, <2>3
    <3>3. QED BY <3>1, <3>2
  <2>8. Lists(g, k)
      BY <2>5, <2>6
  <2>9. k \in 0 .. N
      BY <1>1
  <2> HIDE DEF Lists, S
  <2>10. QED BY <2>4, <2>7, <2>8, <2>9
<1>10. N \in G
  <2> HIDE DEF G
  <2>1. \A k \in 0 .. N : k \in G
      BY <1>1, <1>8, <1>9, UpTo
  <2>2. QED BY <2>1, <1>1
<1>11. PICK f : f \in [0 .. N -> S] /\ Lists(f, N)
    BY <1>10
<1>12. f = Body(f)
  <2>1. ASSUME NEW k \in 0 .. N PROVE f[k] = Body(f)[k]
    <3>1. CASE k = 0
        BY <3>1, <1>1, <1>11
    <3>2. CASE k # 0
      <4>1. k \in 1 .. N
          BY <3>2
      <4>2. Body(f)[k] = InFront(s.node[ch[k]], f[k - 1])
          BY <4>1, <1>1
      <4>3. QED BY <4>1, <4>2, <1>11
    <3>3. QED BY <3>1, <3>2
  <2> DEFINE B == Body(f)
  <2>2. B = [k \in 0 .. N |-> B[k]]
      BY <1>1
  <2>3. \A k \in 0 .. N : f[k] = B[k]
      BY <2>1
  <2>4. f = [k \in 0 .. N |-> f[k]]
      BY <1>11
  <2> HIDE DEF B
  <2>5. f = B
      BY <2>2, <2>3, <2>4
  <2>6. QED BY <2>5 DEF B
<1>13. found = Body(found)
  <2> HIDE DEF Body
  <2>1. QED BY <1>12
<1>14. DirEntries(s) = found[N]
    BY <1>1, <1>2 DEF DirEntries
<1> HIDE DEF found
<1>15. found[0] = <<>>
    BY <1>1, <1>13
<1>16. ASSUME NEW k \in 1 .. N PROVE found[k] = InFront(s.node[ch[k]], found[k - 1])
  <2>1. Body(found)[k] = InFront(s.node[ch[k]], found[k - 1])
      BY <1>1
  <2> HIDE DEF Body
  <2>2. QED BY <2>1, <1>13
<1> DEFINE H == {k \in 0 .. N : IsListing(found[k], A(k))}
<1>17. 0 \in H
  <2>1. 0 \in 0 .. N
      BY <1>1
  <2>2. IsListing(found[0], A(0))
      BY <1>6, <1>7, <1>15
  <2>3. QED BY <2>1, <2>2
<1>18. ASSUME NEW k \in 1 .. N, k - 1 \in H PROVE k \in H
  <2>1. IsListing(found[k - 1], A(k - 1))
      BY <1>18
  <2>2. IsListing(found[k], A(k))
      BY <2>1, <1>5, <1>16
  <2>3. k \in 0 .. N
      BY <1>1
  <2>4. QED BY <2>2, <2>3
<1>19. N \in H
  <2> HIDE DEF H
  <2>1. \A k \in 0 .. N : k \in H
      BY <1>1, <1>17, <1>18, UpTo
  <2>2. QED BY <2>1, <1>1
<1>20. IsListing(found[N], A(N))
    BY <1>19
<1>21. QED BY <1>6, <1>14, <1>20
(* What is left of a listing when the first name is deleted. *)
LEMMA ListingTail ==
    ASSUME NEW q, NEW E, IsListing(q, E), q # <<>>
    PROVE  Head(q) \in E /\ IsListing(Tail(q), E \ {Head(q)})
<1>1. q \in Seq(Names) /\ \A i, j \in 1 .. Len(q) : q[i] = q[j] => i = j
    BY DEF IsListing
<1>e. \A y : y \in E <=> \E i \in 1 .. Len(q) : q[i] = y
  <2>1. {q[i] : i \in 1 .. Len(q)} = E
      BY DEF IsListing
  <2>2. QED BY <2>1
<1>2. PICK n \in Nat \ {0} : n = Len(q)
    BY <1>1, EmptySeq
<1>3. PICK x, r : x = Head(q) /\ r = Tail(q)
    OBVIOUS
<1>4. /\ r \in Seq(Names) /\ Len(r) = n - 1
      /\ \A i \in 1 .. n - 1 : r[i] = q[i + 1]
    BY <1>1, <1>2, <1>3, HeadTailProperties
<1>5. x = q[1] /\ 1 \in 1 .. n
    BY <1>1, <1>3
<1>6. x \in E
    BY <1>2, <1>5, <1>e
<1>7. ASSUME NEW i \in 1 .. n - 1 PROVE i + 1 \in 1 .. n /\ r[i] = q[i + 1] /\ i + 1 # 1
    BY <1>4
<1>8. ASSUME NEW i \in 1 .. n - 1, NEW j \in 1 .. n - 1, r[i] = r[j] PROVE i = j
  <2>1. i + 1 = j + 1
      BY <1>1, <1>2, <1>7, <1>8
  <2>2. QED BY <2>1
<1>9. {r[i] : i \in 1 .. n - 1} = E \ {x}
  <2>1. ASSUME NEW i \in 1 .. n - 1 PROVE r[i] \in E \ {x}
    <3>1. q[i + 1] # q[1] /\ i + 1 \in 1 .. n
        BY <1>1, <1>2, <1>5, <1>7
    <3>2. QED BY <3>1, <1>2, <1>5, <1>7, <1>e
  <2>2. ASSUME NEW y \in E \ {x} PROVE \E i \in 1 .. n - 1 : r[i] = y
    <3>1. PICK i \in 1 .. n : q[i] = y /\ i # 1
        BY <1>2, <1>5, <1>e
    <3>2. i - 1 \in 1 .. n - 1 /\ i - 1 + 1 = i
        BY <3>1
    <3>3. r[i - 1] = y
        BY <3>1, <3>2, <1>7
    <3>4. QED BY <3>2, <3>3
  <2>3. QED BY <2>1, <2>2
<1>10. IsListing(r, E \ {x})
    BY <1>4, <1>8, <1>9 DEF IsListing
<1>11. QED BY <1>3, <1>6, <1>10

(* The loop that sweeps the first block finds nothing once the children are deleted. *)
LEMMA SweptFindsNothing ==
    ASSUME NEW s, NEW ch, Keeps(s, ch, {})
    PROVE  Swept(s) = s
<1> DEFINE N == NODE_ENTRIES
           Body(f) == [i \in 0 .. N |-> IF i = 0 THEN s ELSE SweepSlot(f[i - 1], i)]
           swept == CHOOSE f : f = Body(f)
           f0 == [i \in 0 .. N |-> s]
<1>1. N \in Nat /\ Slots = 1 .. N
    BY SlotsAreFinite DEF Slots
<1>2. ASSUME NEW i \in 1 .. N PROVE SweepSlot(s, i) = s
  <2>1. ch[1] = First /\ 1 \in 1 .. Len(ch)
      BY ChainFacts
  <2>2. s.node[First].entry[i] \in Names \cup {NoName}
    <3>1. s.node[First] \in NodeType
        BY <2>1, ChainFacts
    <3>2. QED BY <3>1, <1>1 DEF NodeType
  <2>3. s.node[First].entry[i] \notin Names
    <3>1. Holds(s, ch, {})
        BY DEF Keeps
    <3>2. QED BY <2>1, <3>1, <1>1 DEF Holds
  <2>4. QED BY <2>2, <2>3 DEF SweepSlot
<1>3. f0 = Body(f0)
  <2>1. ASSUME NEW i \in 0 .. N PROVE f0[i] = Body(f0)[i]
    <3>1. CASE i = 0
        BY <3>1
    <3>2. CASE i # 0
      <4>1. i \in 1 .. N /\ i - 1 \in 0 .. N
          BY <3>2, <1>1
      <4>2. Body(f0)[i] = SweepSlot(f0[i - 1], i)
          BY <3>2
      <4>3. f0[i - 1] = s /\ f0[i] = s
          BY <4>1
      <4>4. QED BY <4>1, <4>2, <4>3, <1>2
    <3>3. QED BY <3>1, <3>2
  <2> DEFINE B == Body(f0)
  <2>2. B = [i \in 0 .. N |-> B[i]] /\ f0 = [i \in 0 .. N |-> f0[i]]
      OBVIOUS
  <2>3. \A i \in 0 .. N : f0[i] = B[i]
      BY <2>1
  <2> HIDE DEF B, f0
  <2>4. f0 = B
      BY <2>2, <2>3
  <2>5. QED BY <2>4 DEF B
<1>4. swept = Body(swept)
  <2> HIDE DEF Body, f0
  <2>1. QED BY <1>3
<1>5. Swept(s) = swept[N]
    BY DEF Swept, N
<1> HIDE DEF swept
<1>6. swept[0] = s
    BY <1>1, <1>4
<1>7. ASSUME NEW i \in 1 .. N PROVE swept[i] = SweepSlot(swept[i - 1], i)
  <2>1. Body(swept)[i] = SweepSlot(swept[i - 1], i)
      OBVIOUS
  <2> HIDE DEF Body
  <2>2. QED BY <2>1, <1>4
<1> DEFINE H == {i \in 0 .. N : swept[i] = s}
<1>8. 0 \in H
    BY <1>1, <1>6
<1>9. ASSUME NEW i \in 1 .. N, i - 1 \in H PROVE i \in H
    BY <1>2, <1>7, <1>9
<1>10. N \in H
  <2> HIDE DEF H, N
  <2>1. \A i \in 0 .. N : i \in H
      BY <1>1, <1>8, <1>9, UpTo
  <2>2. QED BY <2>1, <1>1
<1>11. QED BY <1>5, <1>10

-------------------------------------------------------------------------------
(* The inductive invariant. *)
LEMMA InitInv == Init => IInv
<1> SUFFICES ASSUME Init PROVE IInv
    OBVIOUS
<1>1. First \in Blocks /\ MaxBlock \in Nat
    BY DirChainAssumption DEF DirChainAssumption, First, Blocks
<1>2. EmptyNode \in NodeType
    BY <1>1, SlotsAreFinite DEF EmptyNode, NodeType, First
<1>3. /\ c.node = [b \in Blocks |-> EmptyNode] /\ c.owned = {First}
      /\ c = [node |-> c.node, owned |-> c.owned]
      /\ dir = {} /\ phase = "live" /\ doomed = <<>>
    BY DEF Init
<1>4. c \in ChainType
    BY <1>1, <1>2, <1>3 DEF ChainType
<1>5. c.node[First] = EmptyNode
    BY <1>1, <1>3
<1> DEFINE ch == <<First>>
<1>6. ch \in Seq(Blocks) /\ ch # <<>> /\ Len(ch) = 1 /\ ch[1] = First
    BY <1>1
<1> HIDE DEF ch
<1>7. \A i \in 1 .. Len(ch) : i = 1
    BY <1>6
<1>8. IsLinked(c, ch)
  <2>1. ~EmptyNode.next_flag /\ ~EmptyNode.previous_flag
      BY DEF EmptyNode
  <2>2. 1 .. Len(ch) - 1 = {} /\ 2 .. Len(ch) = {}
      BY <1>6
  <2>3. First \in c.owned
      BY <1>3
  <2>4. QED BY <1>5, <1>6, <1>7, <2>1, <2>2, <2>3 DEF IsLinked
<1>9. Holds(c, ch, dir)
  <2>1. \A k \in Slots : EmptyNode.entry[k] = NoName
      BY DEF EmptyNode
  <2>2. Occupied(EmptyNode) = {} /\ EmptyNode.count = 0
      BY <2>1 DEF Occupied, EmptyNode
  <2>3. Cardinality(Occupied(EmptyNode)) = 0
      BY <2>2, FS_EmptySet
  <2>4. \A i \in 1 .. Len(ch) : c.node[ch[i]] = EmptyNode
      BY <1>5, <1>6, <1>7
  <2>5. QED BY <1>3, <2>1, <2>2, <2>3, <2>4, SlotsAreFinite DEF Holds
<1>10. Dooms
    BY <1>3 DEF Dooms
<1>11. QED BY <1>3, <1>4, <1>8, <1>9, <1>10 DEF IInv
(* The invariant, with the chain named. *)
LEMMA InvKeeps == IInv => \E ch : Keeps(c, ch, dir)
  BY DEF IInv, Keeps

(* Every step keeps the invariant. *)
LEMMA NextInv == IInv /\ [Next]_vars => IInv'
<1> SUFFICES ASSUME IInv, [Next]_vars PROVE IInv'
    OBVIOUS
<1>1. PICK ch : Keeps(c, ch, dir)
    BY InvKeeps
<1>2. PICK s, D : s = c /\ D = dir /\ D \in SUBSET Names /\ Keeps(s, ch, D)
    BY <1>1 DEF IInv
<1>3. Dooms /\ phase \in {"live", "emptying", "sweeping", "gone"}
    BY DEF IInv
<1>4. SUFFICES /\ \E dh : Keeps(c', dh, dir')
               /\ dir' \subseteq Names
               /\ phase' \in {"live", "emptying", "sweeping", "gone"}
               /\ Dooms'
    BY DEF IInv, Keeps
<1>l. ASSUME phase = "live", UNCHANGED <<phase, doomed>> PROVE Dooms'
    BY <1>3, <1>l DEF Dooms
<1>5. ASSUME NEW name \in Names, InsertInRoom(name)
      PROVE  /\ \E dh : Keeps(c', dh, dir') /\ dir' \subseteq Names /\ Dooms'
             /\ phase' \in {"live", "emptying", "sweeping", "gone"}
  <2>1. /\ phase = "live" /\ UNCHANGED <<phase, doomed>>
        /\ GetEntry(s, name) = 0 /\ s.node[Last(Chain(s))].count # NODE_ENTRIES
        /\ c' = InsertInLast(s, name) /\ dir' = D \cup {name}
      BY <1>2, <1>5 DEF InsertInRoom
  <2>2. name \notin D
    <3>1. SUFFICES ASSUME name \in D PROVE FALSE
        OBVIOUS
    <3>2. PICK i \in 1 .. Len(ch), k \in Slots : s.node[ch[i]].entry[k] = name
        BY <1>2, <3>1 DEF Keeps, Holds
    <3>3. GetEntry(s, name) = i /\ i # 0
        BY <1>2, <3>2, FoundWhereItIs
    <3>4. QED BY <2>1, <3>3
  <2>3. Keeps(InsertInLast(s, name), ch, D \cup {name})
      BY <1>2, <2>1, <2>2, InsertInLastKeeps
  <2>4. QED BY <1>2, <1>3, <1>l, <2>1, <2>3
<1>6. ASSUME NEW name \in Names, InsertInNewBlock(name)
      PROVE  /\ \E dh : Keeps(c', dh, dir') /\ dir' \subseteq Names /\ Dooms'
             /\ phase' \in {"live", "emptying", "sweeping", "gone"}
  <2>1. /\ phase = "live" /\ UNCHANGED <<phase, doomed>>
        /\ GetEntry(s, name) = 0 /\ dir' = D \cup {name}
      BY <1>2, <1>6 DEF InsertInNewBlock
  <2>2. PICK new \in Blocks \ s.owned : c' = InsertInLast(LinkNew(s, new), name)
      BY <1>2, <1>6 DEF InsertInNewBlock
  <2>3. name \notin D
    <3>1. SUFFICES ASSUME name \in D PROVE FALSE
        OBVIOUS
    <3>2. PICK i \in 1 .. Len(ch), k \in Slots : s.node[ch[i]].entry[k] = name
        BY <1>2, <3>1 DEF Keeps, Holds
    <3>3. GetEntry(s, name) = i /\ i # 0
        BY <1>2, <3>2, FoundWhereItIs
    <3>4. QED BY <2>1, <3>3
  <2>4. PICK t, dh : t = LinkNew(s, new) /\ dh = Append(ch, new) /\ Keeps(t, dh, D)
                     /\ t.node[Last(Chain(t))].count = 0
      BY <1>2, LinkNewKeeps
  <2>5. t.node[Last(Chain(t))].count # NODE_ENTRIES
      BY <2>4, SlotsAreFinite
  <2>6. Keeps(InsertInLast(t, name), dh, D \cup {name})
      BY <1>2, <2>3, <2>4, <2>5, InsertInLastKeeps
  <2>7. QED BY <1>2, <1>3, <1>l, <2>1, <2>2, <2>4, <2>6
<1>7. ASSUME NEW name \in Names, DeleteEntry(name)
      PROVE  /\ \E dh : Keeps(c', dh, dir') /\ dir' \subseteq Names /\ Dooms'
             /\ phase' \in {"live", "emptying", "sweeping", "gone"}
  <2>1. /\ phase = "live" /\ UNCHANGED <<phase, doomed>>
        /\ GetEntry(s, name) # 0
        /\ c' = RemoveEntryId(s, name) /\ dir' = D \ {name}
      BY <1>2, <1>7 DEF DeleteEntry
  <2>2. name \in D
      BY <1>2, <2>1, NotFound
  <2>3. \E dh : Keeps(RemoveEntryId(s, name), dh, D \ {name})
      BY <1>2, <2>2, RemoveEntryIdKeeps
  <2>4. QED BY <1>2, <1>3, <1>l, <2>1, <2>3
<1>8. ASSUME StartDelete
      PROVE  /\ \E dh : Keeps(c', dh, dir') /\ dir' \subseteq Names /\ Dooms'
             /\ phase' \in {"live", "emptying", "sweeping", "gone"}
  <2>1. doomed' = DirEntries(s) /\ phase' = "emptying" /\ c' = s /\ dir' = D
      BY <1>2, <1>8 DEF StartDelete
  <2>2. PICK q : q = DirEntries(s) /\ IsListing(q, D)
      BY <1>2, DirEntriesLists
  <2>3. Dooms'
      BY <2>1, <2>2 DEF Dooms, IsListing
  <2>4. QED BY <1>2, <2>1, <2>3
<1>9. ASSUME DeleteChild
      PROVE  /\ \E dh : Keeps(c', dh, dir') /\ dir' \subseteq Names /\ Dooms'
             /\ phase' \in {"live", "emptying", "sweeping", "gone"}
  <2>1. PICK q : q = doomed /\ IsListing(q, D) /\ q # <<>>
      BY <1>2, <1>3, <1>9 DEF DeleteChild, Dooms, IsListing
  <2>2. /\ c' = RemoveEntryId(s, Head(q)) /\ dir' = D \ {Head(q)}
        /\ doomed' = Tail(q) /\ phase' = phase /\ phase = "emptying"
      BY <1>2, <1>9, <2>1 DEF DeleteChild
  <2>3. PICK x, r : x = Head(q) /\ r = Tail(q) /\ x \in D /\ IsListing(r, D \ {x})
      BY <2>1, ListingTail
  <2>4. \E dh : Keeps(RemoveEntryId(s, x), dh, D \ {x})
      BY <1>2, <2>3, RemoveEntryIdKeeps
  <2>5. Dooms'
      BY <2>2, <2>3 DEF Dooms, IsListing
  <2>6. QED BY <1>2, <2>2, <2>3, <2>4, <2>5
<1>10. ASSUME ChildrenDeleted
       PROVE  /\ \E dh : Keeps(c', dh, dir') /\ dir' \subseteq Names /\ Dooms'
              /\ phase' \in {"live", "emptying", "sweeping", "gone"}
  <2>1. /\ phase = "emptying" /\ doomed = <<>> /\ phase' = "sweeping"
        /\ c' = s /\ dir' = D /\ doomed' = doomed
      BY <1>2, <1>10 DEF ChildrenDeleted
  <2>2. dir = {}
    <3>1. Len(doomed) = 0
        BY <2>1
    <3>2. {doomed[i] : i \in 1 .. Len(doomed)} = {}
        BY <3>1
    <3>3. QED BY <1>3, <2>1, <3>2 DEF Dooms
  <2>3. Dooms'
      BY <1>2, <1>3, <2>1, <2>2 DEF Dooms
  <2>4. QED BY <1>2, <2>1, <2>3
<1>11. ASSUME Sweep
       PROVE  /\ \E dh : Keeps(c', dh, dir') /\ dir' \subseteq Names /\ Dooms'
              /\ phase' \in {"live", "emptying", "sweeping", "gone"}
  <2>1. D = {} /\ dir = {}
      BY <1>2, <1>3, <1>11 DEF Sweep, Dooms
  <2>2. Keeps(s, ch, {})
      BY <1>2, <2>1
  <2>3. c' = s
      BY <1>2, <1>11, <2>2, SweptFindsNothing DEF Sweep
  <2>4. dir' = {} /\ doomed' = doomed /\ phase' \in {"sweeping", "gone"}
      BY <1>11, <2>1 DEF Sweep
  <2>5. Dooms'
      BY <1>3, <2>4 DEF Dooms
  <2>6. QED BY <2>2, <2>3, <2>4, <2>5
<1>12. CASE UNCHANGED vars
  <2>1. c' = c /\ dir' = dir /\ phase' = phase /\ doomed' = doomed
      BY <1>12 DEF vars
  <2>2. Dooms'
      BY <1>3, <2>1 DEF Dooms
  <2>3. QED BY <1>2, <1>3, <2>1, <2>2
<1>13. QED BY <1>5, <1>6, <1>7, <1>8, <1>9, <1>10, <1>11, <1>12 DEF Next

(* The chain of blocks is what the links say, holds each name of the directory in one
   slot, and does not leave the blocks the directory owns: in every state. *)
THEOREM ChainIsKept == Spec => []IInv
<1>1. QED BY InitInv, NextInv, PTL DEF Spec

-------------------------------------------------------------------------------
LEMMA InvTypes == IInv => TypeOK
<1> SUFFICES ASSUME IInv PROVE TypeOK
    OBVIOUS
<1>1. PICK ch : Keeps(c, ch, dir)
    BY InvKeeps
<1>2. c.node \in [Blocks -> NodeType] /\ c.owned \subseteq Blocks
    BY <1>1, ChainFacts
<1>3. First \in c.owned
  <2>1. ch[1] = First /\ 1 \in 1 .. Len(ch)
      BY <1>1, ChainFacts
  <2>2. QED BY <1>1, <2>1, ChainFacts
<1>4. Range(doomed) \subseteq Names
  <2>1. doomed \in Seq(Names)
      BY DEF IInv, Dooms
  <2>2. DOMAIN doomed = 1 .. Len(doomed) /\ doomed \in [1 .. Len(doomed) -> Names]
      BY <2>1, LenProperties
  <2>3. QED BY <2>2 DEF Range
<1>5. dir \subseteq Names /\ phase \in {"live", "emptying", "sweeping", "gone"}
    BY DEF IInv
<1>6. QED BY <1>2, <1>3, <1>4, <1>5 DEF TypeOK, NodeType

LEMMA InvLookup == IInv => LookupIsExact
<1> SUFFICES ASSUME IInv PROVE LookupIsExact
    OBVIOUS
<1>1. PICK ch : Keeps(c, ch, dir)
    BY InvKeeps
<1>2. dir \in SUBSET Names
    BY DEF IInv
<1>3. ASSUME NEW name \in Names PROVE GetEntry(c, name) # 0 <=> name \in dir
  <2>1. CASE name \in dir
    <3>1. PICK i \in 1 .. Len(ch), k \in Slots : c.node[ch[i]].entry[k] = name
        BY <1>1, <2>1 DEF Keeps, Holds
    <3>2. GetEntry(c, name) = i /\ i # 0
        BY <1>1, <3>1, FoundWhereItIs
    <3>3. QED BY <2>1, <3>2
  <2>2. CASE name \notin dir
      BY <1>1, <2>2, NotFound
  <2>3. QED BY <2>1, <2>2
<1>4. IsListing(DirEntries(c), dir)
    BY <1>1, <1>2, DirEntriesLists
<1>5. Len(DirEntries(c)) = Cardinality(dir) /\ ToSet(DirEntries(c)) = dir
    BY <1>4, ListingLength
<1>6. QED BY <1>3, <1>5 DEF LookupIsExact

(* The blocks of the chain are the set ChainBlocks. *)
LEMMA BlocksOfChain ==
    ASSUME NEW ch, Keeps(c, ch, dir)
    PROVE  Chain(c) = ch /\ \A b \in ChainBlocks : \E i \in 1 .. Len(ch) : b = ch[i]
<1>1. Chain(c) = ch
    BY ChainIsLinked DEF Keeps
<1>2. DOMAIN ch = 1 .. Len(ch)
    BY ChainFacts, LenProperties
<1>3. QED BY <1>1, <1>2 DEF ChainBlocks, ToSet

LEMMA InvCounts == IInv => CountsAreExact
<1> SUFFICES ASSUME IInv PROVE CountsAreExact
    OBVIOUS
<1>1. PICK ch : Keeps(c, ch, dir)
    BY InvKeeps
<1>2. ASSUME NEW b \in ChainBlocks PROVE c.node[b].count = Cardinality(Occupied(c.node[b]))
  <2>1. PICK i \in 1 .. Len(ch) : b = ch[i]
      BY <1>1, BlocksOfChain
  <2>2. QED BY <1>1, <2>1 DEF Keeps, Holds
<1>3. QED BY <1>2 DEF CountsAreExact

LEMMA InvLinks == IInv => LinksStayInOwnedBlocks
<1> SUFFICES ASSUME IInv PROVE LinksStayInOwnedBlocks
    OBVIOUS
<1>1. PICK ch : Keeps(c, ch, dir)
    BY InvKeeps
<1>2. IsLinked(c, ch)
    BY <1>1 DEF Keeps
<1>3. IsFiniteSet(c.owned)
  <2>1. MaxBlock \in Int /\ 0 \in Int
      BY DirChainAssumption DEF DirChainAssumption
  <2>2. IsFiniteSet(0 .. MaxBlock)
      BY <2>1, FS_Interval
  <2>3. c.owned \in SUBSET (0 .. MaxBlock)
      BY <1>1, ChainFacts DEF Blocks
  <2>4. QED BY <2>2, <2>3, FS_Subset
<1>4. Len(Chain(c)) <= Cardinality(c.owned)
  <2>1. \A i, j \in 1 .. Len(ch) : ch[i] = ch[j] => i = j
      BY <1>2 DEF IsLinked
  <2>2. ch \in Seq(c.owned)
    <3>1. ch \in Seq(Range(ch)) /\ Range(ch) \subseteq c.owned
      <4>1. ch \in Seq(Blocks) /\ \A i \in 1 .. Len(ch) : ch[i] \in c.owned
          BY <1>1, ChainFacts
      <4>2. DOMAIN ch = 1 .. Len(ch)
          BY <4>1, LenProperties
      <4>3. Range(ch) \subseteq c.owned
          BY <4>1, <4>2 DEF Range
      <4>4. QED BY <4>1, <4>3, SeqOfRange
    <3>2. QED BY <3>1, SeqMonotonic
  <2>3. Len(ch) <= Cardinality(c.owned)
      BY <1>3, <2>1, <2>2, NoLongerThan
  <2>4. QED BY <1>1, <2>3, BlocksOfChain
<1>5. ASSUME NEW b \in ChainBlocks
      PROVE  b \in c.owned /\ (c.node[b].previous_flag => c.node[b].previous \in c.owned)
  <2>1. PICK i \in 1 .. Len(ch) : b = ch[i]
      BY <1>1, BlocksOfChain
  <2>2. b \in c.owned /\ ch[1] = First
      BY <1>1, <2>1, ChainFacts
  <2>3. CASE i = 1
      BY <1>2, <2>1, <2>2, <2>3 DEF IsLinked
  <2>4. CASE i # 1
    <3>1. i \in 2 .. Len(ch) /\ i - 1 \in 1 .. Len(ch)
        BY <2>4
    <3>2. \/ c.node[ch[i]].previous = ch[i - 1]
          \/ c.node[ch[i]].previous \in c.owned
        BY <1>2, <3>1 DEF IsLinked
    <3>3. ch[i - 1] \in c.owned
        BY <1>1, <3>1, ChainFacts
    <3>4. QED BY <2>1, <2>2, <3>2, <3>3
  <2>5. QED BY <2>3, <2>4
<1>6. QED BY <1>4, <1>5 DEF LinksStayInOwnedBlocks

-------------------------------------------------------------------------------
(* Blocks, links and counters have values of their types: no counter of a block leaves
   0 .. NODE_ENTRIES, whatever is inserted and deleted. *)
THEOREM TypeCorrectness == Spec => []TypeOK
<1>1. QED BY ChainIsKept, InvTypes, PTL

(* CIBNodeGetEntry and CIBNodeGetDirEntries find exactly the names inserted and not
   removed, whichever blocks were emptied, bypassed and pulled forward in between. *)
THEOREM LookupsAreExact == Spec => []LookupIsExact
<1>1. QED BY ChainIsKept, InvLookup, PTL

(* The counter by which a block counts as full or empty counts its names. *)
THEOREM CountersAreExact == Spec => []CountsAreExact
<1>1. QED BY ChainIsKept, InvCounts, PTL

(* No link of the chain, forward or back, leads to a block returned to the free list. *)
THEOREM LinksStayInside == Spec => []LinksStayInOwnedBlocks
<1>1. QED BY ChainIsKept, InvLinks, PTL
===============================================================================
