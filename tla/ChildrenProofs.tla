---------------------------- MODULE ChildrenProofs ----------------------------
(***************************************************************************)
(* Theorems about Children, for all directories, requests and orders in    *)
(* which the processes run: the parent waits for each child exactly once,  *)
(* no output of a child stays in the directory that was archived, and what *)
(* is extracted is what was archived.                                      *)
(*                                                                         *)
(* The count of a directory is its own, but wait() takes any child, so no  *)
(* count is right by itself: the invariant is about their sum.  "Owed"     *)
(* says it with the partial sums from the outermost directory inwards, so  *)
(* that an action, which changes the innermost one only, changes the last  *)
(* of them only.                                                           *)
(*                                                                         *)
(* The last part follows each path of the directory through a child into   *)
(* the archive and through another child out of it: "TripInv" says where   *)
(* a path can be meanwhile, so that none is lost.                          *)
(***************************************************************************)
EXTENDS Children, FiniteSetTheorems, SequenceTheorems, InductionLemmas

IsFrame(f) ==
    /\ f \in [dir : {f.dir}, at : {f.at}, names : {f.names}, opened : {f.opened},
              map : {f.map}, count : Nat]
    /\ f.at = "insert" => f.count = 0

IsStack(s) == s \in Seq(Range(s)) /\ \A i \in 1 .. Len(s) : IsFrame(s[i])

(* S[i] is what is owed for the waits of the command and the outermost i directories. *)
IsTally(S, s, w) ==
    /\ S \in [0 .. Len(s) -> Nat]
    /\ S[0] = w
    /\ \A i \in 1 .. Len(s) : S[i] = S[i - 1] + s[i].count

Owed(s, w, n) == \E S : IsTally(S, s, w) /\ S[Len(s)] = n

ChildrenAreForked ==
    /\ forks \in 0 .. Len(Pids)
    /\ DOMAIN child \subseteq {Pids[i] : i \in 1 .. forks}
    /\ IsFiniteSet(DOMAIN child)
    /\ Cardinality(DOMAIN child) \in 0 .. forks

IInv ==
    /\ IsStack(stack)
    /\ ChildrenAreForked
    /\ refused = {} => Owed(stack, waits, Cardinality(DOMAIN child))

-------------------------------------------------------------------------------
(* There is one tally of a stack only: two that differ would differ first somewhere. *)
LEMMA OneTally ==
    ASSUME NEW n \in Nat, NEW c, NEW P, NEW Q,
           P[0] = Q[0],
           \A i \in 1 .. n : P[i] = P[i - 1] + c[i],
           \A i \in 1 .. n : Q[i] = Q[i - 1] + c[i]
    PROVE  P[n] = Q[n]
<1> DEFINE D == {i \in 0 .. n : P[i] # Q[i]}
<1>1. SUFFICES ASSUME D # {} PROVE FALSE
    OBVIOUS
<1>2. PICK m \in D : \A k \in D : m <= k
    BY <1>1, LeastNumber, D \subseteq Nat
<1>3. m \in 1 .. n
    BY <1>2
<1>4. m - 1 \notin D
    BY <1>2, <1>3
<1>5. P[m - 1] = Q[m - 1]
    BY <1>3, <1>4
<1>6. QED BY <1>2, <1>3, <1>5

(* The last partial sum is what Counted adds up. *)
LEMMA TallyIsCounted ==
    ASSUME IsStack(stack), NEW S, IsTally(S, stack, waits)
    PROVE  Counted = S[Len(stack)]
<1> DEFINE L == Len(stack)
           Sums(f) == [i \in 0 .. L |-> IF i = 0 THEN waits ELSE f[i - 1] + stack[i].count]
           upTo == CHOOSE f : f = Sums(f)
           c == [i \in 1 .. L |-> stack[i].count]
<1>1. L \in Nat
    BY DEF IsStack
<1>2. S = Sums(S)
    BY <1>1 DEF IsTally
<1>3. upTo = Sums(upTo)
    BY <1>2
<1>4. Counted = upTo[L]
    BY DEF Counted
<1> HIDE DEF upTo
<1>5. /\ upTo[0] = waits
      /\ \A i \in 1 .. L : upTo[i] = upTo[i - 1] + c[i]
    BY <1>1, <1>3
<1>6. /\ S[0] = waits
      /\ \A i \in 1 .. L : S[i] = S[i - 1] + c[i]
    BY <1>1 DEF IsTally
<1> HIDE DEF c, L
<1>7. upTo[L] = S[L]
    BY <1>1, <1>5, <1>6, OneTally
<1>8. QED BY <1>4, <1>7 DEF L

-------------------------------------------------------------------------------
(* The last partial sum is the one before it and the count of the innermost directory. *)
LEMMA LastSum ==
    ASSUME NEW s, Len(s) \in Nat, Len(s) > 0, NEW S, NEW w, IsTally(S, s, w)
    PROVE  S[Len(s) - 1] \in Nat /\ S[Len(s)] = S[Len(s) - 1] + s[Len(s)].count
<1>1. PICK L \in Nat : L = Len(s) /\ L > 0
    OBVIOUS
<1>2. /\ S \in [0 .. L -> Nat]
      /\ \A i \in 1 .. L : S[i] = S[i - 1] + s[i].count
    BY <1>1 DEF IsTally
<1>3. S[L - 1] \in Nat /\ S[L] = S[L - 1] + s[L].count
  <2>1. L - 1 \in 0 .. L /\ L \in 1 .. L
      BY <1>1
  <2>2. QED BY <1>2, <2>1
<1>4. QED BY <1>1, <1>3

(* The three ways the parent changes the stack: a directory is entered, its frame is
   changed, it is left. *)
LEMMA Entering ==
    ASSUME NEW s, IsStack(s), NEW f, IsFrame(f)
    PROVE  /\ IsStack(Append(s, f))
           /\ \A w, n : Owed(s, w, n) /\ f.count = 0 => Owed(Append(s, f), w, n)
<1> DEFINE t == Append(s, f)
<1>1. /\ Len(s) \in Nat /\ DOMAIN s = 1 .. Len(s)
      /\ t \in Seq(Range(s) \cup {f})
      /\ Len(t) = Len(s) + 1
      /\ \A i \in 1 .. Len(s) : t[i] = s[i]
      /\ t[Len(s) + 1] = f
    BY DEF IsStack
<1> HIDE DEF t
<1>2. t \in Seq(Range(t))
    BY <1>1 DEF Range
<1>3. IsStack(t)
    BY <1>1, <1>2 DEF IsStack
<1>4. ASSUME NEW w, NEW n, Owed(s, w, n), f.count = 0
      PROVE  Owed(t, w, n)
  <2>1. PICK S : IsTally(S, s, w) /\ S[Len(s)] = n
      BY <1>4 DEF Owed
  <2> DEFINE U == [i \in 0 .. Len(t) |-> IF i <= Len(s) THEN S[i] ELSE n]
  <2>2. S \in [0 .. Len(s) -> Nat] /\ n \in Nat /\ S[0] = w
      BY <1>1, <2>1 DEF IsTally
  <2>3. U \in [0 .. Len(t) -> Nat] /\ U[0] = w
      BY <1>1, <2>2
  <2>4. ASSUME NEW i \in 1 .. Len(t) PROVE U[i] = U[i - 1] + t[i].count
    <3>1. CASE i <= Len(s)
        BY <1>1, <2>1, <3>1 DEF IsTally
    <3>2. CASE i = Len(s) + 1
        BY <1>1, <1>4, <2>1, <2>2, <3>2
    <3>3. QED BY <1>1, <3>1, <3>2
  <2>5. U[Len(t)] = n
      BY <1>1
  <2>6. QED BY <2>5, <2>3, <2>4 DEF Owed, IsTally
<1>5. QED BY <1>3, <1>4 DEF t

LEMMA Changing ==
    ASSUME NEW s, IsStack(s), s # <<>>, NEW f, IsFrame(f)
    PROVE  LET t == [s EXCEPT ![Len(s)] = f] IN
           /\ IsStack(t)
           /\ t # <<>>
           /\ \A w, n : Owed(s, w, n) => Owed(t, w, n - Last(s).count + f.count)
<1> DEFINE t == [s EXCEPT ![Len(s)] = f]
<1>1. /\ Len(s) \in Nat /\ Len(s) > 0 /\ DOMAIN s = 1 .. Len(s)
      /\ t \in Seq(Range(s) \cup {f})
      /\ Len(t) = Len(s)
      /\ \A i \in 1 .. Len(s) - 1 : t[i] = s[i]
      /\ t[Len(s)] = f
    BY DEF IsStack, Range
<1> HIDE DEF t
<1>2. t \in Seq(Range(t))
    BY <1>1 DEF Range
<1>3. IsStack(t)
    BY <1>1, <1>2 DEF IsStack
<1>4. ASSUME NEW w, NEW n, Owed(s, w, n)
      PROVE  Owed(t, w, n - Last(s).count + f.count)
  <2>1. PICK S : IsTally(S, s, w) /\ S[Len(s)] = n
      BY <1>4 DEF Owed
  <2> DEFINE total == n - Last(s).count + f.count
             U == [i \in 0 .. Len(t) |-> IF i < Len(s) THEN S[i] ELSE total]
  <2>2. total = S[Len(s) - 1] + f.count /\ total \in Nat
    <3>1. IsFrame(s[Len(s)])
        BY <1>1 DEF IsStack
    <3>2. s[Len(s)].count \in Nat /\ f.count \in Nat
        BY <3>1 DEF IsFrame
    <3>3. S[Len(s) - 1] \in Nat /\ n = S[Len(s) - 1] + s[Len(s)].count
        BY <1>1, <2>1, LastSum
    <3>4. QED BY <3>2, <3>3 DEF Last
  <2> HIDE DEF total
  <2>3. S \in [0 .. Len(s) -> Nat] /\ S[0] = w
      BY <2>1 DEF IsTally
  <2>4. U \in [0 .. Len(t) -> Nat] /\ U[0] = w
      BY <1>1, <2>2, <2>3
  <2>5. ASSUME NEW i \in 1 .. Len(t) PROVE U[i] = U[i - 1] + t[i].count
    <3>1. PICK L \in Nat : L = Len(s) /\ L = Len(t) /\ i \in 1 .. L
        BY <1>1
    <3>2. U[i - 1] = S[i - 1]
        BY <3>1
    <3>3. CASE i < L
      <4>1. t[i] = s[i] /\ U[i] = S[i]
          BY <1>1, <3>1, <3>3
      <4>2. S[i] = S[i - 1] + s[i].count
          BY <2>1, <3>1 DEF IsTally
      <4>3. QED BY <3>2, <4>1, <4>2
    <3>4. CASE i = L
      <4>1. t[i] = f /\ U[i] = total
          BY <1>1, <3>1, <3>4
      <4>2. QED BY <2>2, <3>1, <3>2, <3>4, <4>1
    <3>5. QED BY <3>1, <3>3, <3>4
  <2>6. U[Len(t)] = total
      BY <1>1
  <2>7. QED BY <2>4, <2>5, <2>6 DEF Owed, IsTally, total
<1>5. t # <<>>
    BY <1>1
<1>6. QED BY <1>3, <1>4, <1>5 DEF t

LEMMA Leaving ==
    ASSUME NEW s, IsStack(s), s # <<>>
    PROVE  /\ IsStack(Front(s))
           /\ \A w, n : Owed(s, w, n) /\ Last(s).count = 0 => Owed(Front(s), w, n)
<1> DEFINE t == Front(s)
<1>1. /\ Len(s) \in Nat /\ Len(s) > 0 /\ DOMAIN s = 1 .. Len(s)
      /\ t \in Seq(Range(s))
      /\ Len(t) = Len(s) - 1
      /\ \A i \in 1 .. Len(s) - 1 : t[i] = s[i]
  <2>1. s \in Seq(Range(s)) /\ Len(s) \in Nat /\ Len(s) > 0 /\ DOMAIN s = 1 .. Len(s)
      BY DEF IsStack
  <2>2. \A i \in 1 .. Len(s) - 1 : s[i] \in Range(s)
      BY <2>1 DEF Range
  <2>3. /\ t \in Seq(Range(s))
        /\ Len(t) = IF 1 <= Len(s) - 1 THEN Len(s) - 1 - 1 + 1 ELSE 0
        /\ \A i \in 1 .. Len(s) - 1 - 1 + 1 : t[i] = s[1 + i - 1]
      BY <2>1, <2>2, SubSeqProperties DEF Front
  <2> HIDE DEF t
  <2>4. Len(t) = Len(s) - 1
    <3>1. PICK n \in Nat : n = Len(s) /\ n > 0
        BY <2>1
    <3>2. Len(t) = IF 1 <= n - 1 THEN n - 1 - 1 + 1 ELSE 0
        BY <2>3, <3>1
    <3>3. QED BY <3>1, <3>2
  <2>5. ASSUME NEW i \in 1 .. Len(s) - 1 PROVE t[i] = s[i]
    <3>1. i \in 1 .. Len(s) - 1 - 1 + 1 /\ 1 + i - 1 = i
        BY <2>1
    <3>2. QED BY <2>3, <3>1
  <2>6. QED BY <2>1, <2>3, <2>4, <2>5
<1> HIDE DEF t
<1>2. t \in Seq(Range(t))
    BY <1>1 DEF Range
<1>3. IsStack(t)
    BY <1>1, <1>2 DEF IsStack
<1>4. ASSUME NEW w, NEW n, Owed(s, w, n), Last(s).count = 0
      PROVE  Owed(t, w, n)
  <2>1. PICK S : IsTally(S, s, w) /\ S[Len(s)] = n
      BY <1>4 DEF Owed
  <2> DEFINE U == [i \in 0 .. Len(t) |-> S[i]]
  <2>2. IsTally(U, t, w)
    <3>1. S \in [0 .. Len(s) -> Nat] /\ S[0] = w
        BY <2>1 DEF IsTally
    <3>2. U \in [0 .. Len(t) -> Nat] /\ U[0] = w
        BY <1>1, <3>1
    <3>3. ASSUME NEW i \in 1 .. Len(t) PROVE U[i] = U[i - 1] + t[i].count
        BY <1>1, <2>1 DEF IsTally
    <3>4. QED BY <3>2, <3>3 DEF IsTally
  <2>3. U[Len(t)] = n
    <3>1. S[Len(s) - 1] \in Nat /\ n = S[Len(s) - 1] + s[Len(s)].count
        BY <1>1, <2>1, LastSum
    <3>2. U[Len(t)] = S[Len(s) - 1]
        BY <1>1
    <3>3. QED BY <1>4, <3>1, <3>2 DEF Last
  <2>4. QED BY <2>2, <2>3 DEF Owed
<1>5. QED BY <1>3, <1>4 DEF t

(* What is owed is never less than what the innermost directory or the command owes. *)
LEMMA OwedBounds ==
    ASSUME NEW s, IsStack(s), NEW w, NEW n, Owed(s, w, n)
    PROVE  /\ w \in Nat /\ n \in Nat
           /\ s # <<>> => Last(s).count <= n
           /\ s = <<>> => w = n
<1>1. PICK S : IsTally(S, s, w) /\ S[Len(s)] = n
    BY DEF Owed
<1>2. Len(s) \in Nat /\ (s # <<>> => Len(s) > 0) /\ (s = <<>> => Len(s) = 0)
    BY DEF IsStack
<1>3. w \in Nat /\ n \in Nat
    BY <1>1, <1>2 DEF IsTally
<1>4. ASSUME s # <<>> PROVE Last(s).count <= n
  <2>1. IsFrame(s[Len(s)])
      BY <1>2, <1>4 DEF IsStack
  <2>2. s[Len(s)].count \in Nat
      BY <2>1 DEF IsFrame
  <2>3. S[Len(s) - 1] \in Nat /\ n = S[Len(s) - 1] + s[Len(s)].count
      BY <1>1, <1>2, <1>4, LastSum
  <2>4. QED BY <2>2, <2>3 DEF Last
<1>5. ASSUME s = <<>> PROVE w = n
    BY <1>1, <1>2, <1>5 DEF IsTally
<1>6. QED BY <1>3, <1>4, <1>5

(* With no directory open, the command alone owes. *)
LEMMA OwedByCommand ==
    ASSUME NEW n \in Nat
    PROVE  Owed(<<>>, n, n)
<1> DEFINE S == [i \in 0 .. 0 |-> n]
<1>1. IsTally(S, <<>>, n)
    BY DEF IsTally
<1>2. QED BY <1>1 DEF Owed

-------------------------------------------------------------------------------
(* The three things that happen to the children not yet waited for. *)
LEMMA Forking ==
    ASSUME ChildrenAreForked, NEW do, NEW dir, NEW path, Fork(do, dir, path)
    PROVE  /\ ChildrenAreForked'
           /\ Cardinality(DOMAIN child') = Cardinality(DOMAIN child) + 1
           /\ Cardinality(DOMAIN child') < UINT64
<1> USE DEF ChildrenAreForked
<1>1. Pid \notin DOMAIN child
  <2>1. SUFFICES ASSUME NEW i \in 1 .. forks, Pid = Pids[i] PROVE FALSE
      OBVIOUS
  <2>2. /\ forks < Len(Pids) /\ Len(Pids) \in Nat /\ DOMAIN Pids = 1 .. Len(Pids)
        /\ \A j, k \in DOMAIN Pids : Pids[j] = Pids[k] => j = k
      BY ChildrenAssumption DEF Fork, ChildrenAssumption
  <2>3. i \in DOMAIN Pids /\ forks + 1 \in DOMAIN Pids
      BY <2>2
  <2>4. QED BY <2>1, <2>2, <2>3 DEF Pid
<1>2. DOMAIN child' = DOMAIN child \cup {Pid}
    BY DEF Fork, Put
<1>3. /\ IsFiniteSet(DOMAIN child')
      /\ Cardinality(DOMAIN child') = Cardinality(DOMAIN child) + 1
    BY <1>1, <1>2, FS_AddElement
<1>4. forks' = forks + 1 /\ forks < Len(Pids)
    BY DEF Fork
<1>5. Len(Pids) \in Nat /\ UINT64 \in Nat /\ Len(Pids) < UINT64
    BY ChildrenAssumption DEF ChildrenAssumption
<1>6. /\ forks' \in 0 .. Len(Pids)
      /\ Cardinality(DOMAIN child') \in 0 .. forks'
      /\ Cardinality(DOMAIN child') < UINT64
    BY <1>3, <1>4, <1>5
<1>7. DOMAIN child' \subseteq {Pids[i] : i \in 1 .. forks'}
    BY <1>2, <1>4 DEF Pid
<1>8. QED BY <1>3, <1>6, <1>7

LEMMA Reaping ==
    ASSUME ChildrenAreForked, Reap, forks' = forks
    PROVE  /\ ChildrenAreForked'
           /\ Cardinality(DOMAIN child') = Cardinality(DOMAIN child) - 1
<1> USE DEF ChildrenAreForked
<1>1. PICK pid \in DOMAIN child : child' = Unlink(child, pid)
    BY DEF Reap
<1>2. DOMAIN child' = DOMAIN child \ {pid}
    BY <1>1 DEF Unlink
<1>3. /\ IsFiniteSet(DOMAIN child')
      /\ Cardinality(DOMAIN child') = Cardinality(DOMAIN child) - 1
    BY <1>1, <1>2, FS_RemoveElement
<1>4. Cardinality(DOMAIN child') \in 0 .. forks
    BY <1>1, <1>2, <1>3, FS_CardinalityType, FS_EmptySet
<1>5. QED BY <1>2, <1>3, <1>4

LEMMA SameChildren ==
    ASSUME ChildrenAreForked, DOMAIN child' = DOMAIN child, forks' = forks
    PROVE  ChildrenAreForked'
BY DEF ChildrenAreForked

(* wait() finds a child whenever one is owed, and takes one off what is owed. *)
LEMMA Waiting ==
    ASSUME ChildrenAreForked, WaitReturns, forks' = forks
    PROVE  /\ ChildrenAreForked'
           /\ Cardinality(DOMAIN child) > 0 =>
                Cardinality(DOMAIN child') = Cardinality(DOMAIN child) - 1
<1>1. CASE Reap
    BY <1>1, Reaping
<1>2. CASE DOMAIN child = {} /\ UNCHANGED child
  <2>1. Cardinality(DOMAIN child) = 0
      BY <1>2, FS_EmptySet
  <2>2. QED BY <1>2, <2>1, SameChildren
<1>3. QED BY <1>1, <1>2 DEF WaitReturns

LEMMA TopFrame ==
    ASSUME IsStack(stack), stack # <<>>
    PROVE  /\ IsFrame(Top)
           /\ Top = Last(stack)
<1>1. Len(stack) \in 1 .. Len(stack)
    BY DEF IsStack
<1>2. QED BY <1>1 DEF IsStack, Top, Last

(* Results of the operations on counts, as long as what is owed does not wrap. *)
LEMMA PlusIsExact ==
    ASSUME NEW c \in Nat, NEW n \in Nat, c + n < UINT64
    PROVE  Plus(c, n) = c + n
BY ChildrenAssumption DEF ChildrenAssumption, Plus

LEMMA PlusType ==
    ASSUME NEW c \in Nat, NEW n \in Int
    PROVE  Plus(c, n) \in Nat
BY ChildrenAssumption DEF ChildrenAssumption, Plus

-------------------------------------------------------------------------------
(* The parent's frame of the innermost directory is replaced, and what is owed
   changes by as much as its count. *)
LEMMA TopChanges ==
    ASSUME IsStack(stack), stack # <<>>, NEW f, IsFrame(f), stack' = WithTop(f)
    PROVE  /\ IsStack(stack')
           /\ stack' # <<>>
           /\ \A w, n : Owed(stack, w, n) => Owed(stack', w, n - Top.count + f.count)
BY Changing DEF WithTop, Top

(* Updates of a frame's fields make a frame again. *)
LEMMA NamesChange ==
    ASSUME NEW f, IsFrame(f), NEW names
    PROVE  LET g == [f EXCEPT !.names = names] IN IsFrame(g) /\ g.count = f.count
<1> DEFINE g == [f EXCEPT !.names = names]
<1>1. g \in [dir : {f.dir}, at : {f.at}, names : {names}, opened : {f.opened},
             map : {f.map}, count : {f.count}]
    BY DEF IsFrame
<1> HIDE DEF g
<1>2. IsFrame(g) /\ g.count = f.count
    BY <1>1 DEF IsFrame
<1>3. QED BY <1>2 DEF g

LEMMA InitInv == Init => IInv
<1> SUFFICES ASSUME Init PROVE IInv
    OBVIOUS
<1> USE DEF Init
<1>1. IsStack(stack)
  <2>1. IsFrame(Scanning(<<>>))
      BY DEF IsFrame, Scanning
  <2>2. QED BY <2>1 DEF IsStack, Range
<1>2. DOMAIN child = {} /\ Cardinality(DOMAIN child) = 0 /\ IsFiniteSet(DOMAIN child)
    BY FS_EmptySet
<1>3. ChildrenAreForked
    BY <1>2, ChildrenAssumption DEF ChildrenAreForked, ChildrenAssumption
<1>4. Owed(stack, waits, 0)
  <2>1. Scanning(<<>>).count = 0
      BY DEF Scanning
  <2> DEFINE S == [i \in 0 .. 1 |-> 0]
  <2>2. IsTally(S, stack, waits) /\ S[Len(stack)] = 0
      BY <2>1 DEF IsTally
  <2>3. QED BY <2>2 DEF Owed
<1>5. QED BY <1>1, <1>2, <1>3, <1>4 DEF IInv

(* A step that replaces the innermost frame keeps the invariant if its count changes by
   as much as the number of children does. *)
LEMMA FrameStep ==
    ASSUME IInv, stack # <<>>, NEW f, IsFrame(f), stack' = WithTop(f),
           ChildrenAreForked', waits' = waits, refused' = {} => refused = {},
           refused' = {} => Cardinality(DOMAIN child') =
                            Cardinality(DOMAIN child) - Top.count + f.count
    PROVE  IInv'
<1>1. IsStack(stack')
    BY TopChanges DEF IInv
<1>2. ASSUME refused' = {} PROVE Owed(stack', waits', Cardinality(DOMAIN child'))
  <2>1. Owed(stack, waits, Cardinality(DOMAIN child))
      BY <1>2 DEF IInv
  <2>2. Owed(stack', waits, Cardinality(DOMAIN child) - Top.count + f.count)
      BY <2>1, TopChanges DEF IInv
  <2>3. QED BY <1>2, <2>2
<1>3. QED BY <1>1, <1>2 DEF IInv

(* So does one that enters a directory below it, for nothing is owed there yet. *)
LEMMA EnterStep ==
    ASSUME IInv, stack # <<>>, NEW f, IsFrame(f), NEW g, IsFrame(g), g.count = 0,
           stack' = Append(WithTop(f), g), refused' = {} => f.count = Top.count,
           UNCHANGED <<child, forks, waits, refused>>
    PROVE  IInv'
<1> DEFINE N == Cardinality(DOMAIN child)
<1>1. ChildrenAreForked'
    BY SameChildren DEF IInv
<1>2. /\ IsStack(WithTop(f))
      /\ \A w, n : Owed(stack, w, n) => Owed(WithTop(f), w, n - Top.count + f.count)
    BY Changing DEF WithTop, Top, IInv
<1>3. IsStack(stack')
    BY <1>2, Entering
<1>4. ASSUME refused' = {} PROVE Owed(stack', waits, N)
  <2>1. Owed(WithTop(f), waits, N - Top.count + f.count)
      BY <1>2, <1>4 DEF IInv
  <2>2. N - Top.count + f.count = N
      BY <1>4, TopFrame DEF IInv, ChildrenAreForked, IsFrame
  <2>3. QED BY <1>2, <2>1, <2>2, Entering
<1>5. QED BY <1>1, <1>3, <1>4 DEF IInv

LEMMA LeaveStep ==
    ASSUME IInv, stack # <<>>, Top.count = 0, stack' = Front(stack),
           UNCHANGED <<child, forks, waits, refused>>
    PROVE  IInv'
<1>1. ChildrenAreForked'
    BY SameChildren DEF IInv
<1>2. IsStack(stack')
    BY Leaving DEF IInv
<1>3. ASSUME refused' = {} PROVE Owed(stack', waits, Cardinality(DOMAIN child))
    BY <1>3, Leaving DEF IInv, Top
<1>4. QED BY <1>1, <1>2, <1>3 DEF IInv

-------------------------------------------------------------------------------
(* The actions of the parent, one lemma for each part of the program. *)
LEMMA ScanStep == IInv /\ (ScanDirectory \/ EndScan) => IInv'
<1> SUFFICES ASSUME IInv, ScanDirectory \/ EndScan PROVE IInv'
    OBVIOUS
<1>1. /\ stack # <<>> /\ IsFrame(Top) /\ ChildrenAreForked /\ Top.at = "scan"
      /\ refused' = refused /\ waits' = waits
    BY TopFrame DEF IInv, ScanDirectory, EndScan
<1>2. Cardinality(DOMAIN child) \in Nat /\ Top.count \in Nat
    BY <1>1 DEF ChildrenAreForked, IsFrame
<1>3. CASE ScanDirectory
  <2>1. PICK name :
          LET seen == [Top EXCEPT !.names = @ \cup {name}] IN
          \/ /\ Fork("gzip", Top.dir, Append(Top.dir, name))
             /\ stack' = WithTop([seen EXCEPT !.map = Put(@, Pid, name), !.count = @ + 1])
          \/ stack' = WithTop(seen) /\ NoFork
      BY <1>3 DEF ScanDirectory
  <2> DEFINE seen == [Top EXCEPT !.names = @ \cup {name}]
             counting == [seen EXCEPT !.map = Put(@, Pid, name), !.count = @ + 1]
  <2>2. seen \in [dir : {Top.dir}, at : {Top.at}, names : {Top.names \cup {name}},
                  opened : {Top.opened}, map : {Top.map}, count : {Top.count}]
      BY <1>1 DEF IsFrame
  <2>3. CASE Fork("gzip", Top.dir, Append(Top.dir, name)) /\ stack' = WithTop(counting)
    <3>1. /\ ChildrenAreForked'
          /\ Cardinality(DOMAIN child') = Cardinality(DOMAIN child) + 1
        BY <1>1, <2>3, Forking
    <3> HIDE DEF seen
    <3>2. counting \in [dir : {Top.dir}, at : {Top.at}, names : {Top.names \cup {name}},
                        opened : {Top.opened}, map : {Put(Top.map, Pid, name)},
                        count : {Top.count + 1}]
        BY <2>2
    <3> HIDE DEF counting
    <3>3. IsFrame(counting) /\ counting.count = Top.count + 1
        BY <1>1, <1>2, <3>2 DEF IsFrame
    <3>4. Cardinality(DOMAIN child') = Cardinality(DOMAIN child) - Top.count + counting.count
        BY <1>2, <3>1, <3>3
    <3>5. QED BY <1>1, <2>3, <3>1, <3>3, <3>4, FrameStep
  <2>4. CASE stack' = WithTop(seen) /\ NoFork
    <3>1. ChildrenAreForked' /\ child' = child
        BY <1>1, <2>4, SameChildren DEF NoFork
    <3> HIDE DEF seen
    <3>2. IsFrame(seen) /\ seen.count = Top.count
        BY <1>1, <2>2 DEF IsFrame
    <3>3. Cardinality(DOMAIN child') = Cardinality(DOMAIN child) - Top.count + seen.count
        BY <1>2, <3>1, <3>2
    <3>4. QED BY <1>1, <2>4, <3>1, <3>2, <3>3, FrameStep
  <2>5. QED BY <2>1, <2>3, <2>4
<1>4. CASE EndScan
  <2> DEFINE f == [Top EXCEPT !.at = "wait"]
  <2>1. IsFrame(f) /\ f.count = Top.count
      BY <1>1 DEF IsFrame
  <2>2. ChildrenAreForked' /\ child' = child /\ stack' = WithTop(f)
      BY <1>1, <1>4, SameChildren DEF EndScan
  <2> HIDE DEF f
  <2>3. Cardinality(DOMAIN child') = Cardinality(DOMAIN child) - Top.count + f.count
      BY <1>2, <2>1, <2>2
  <2>4. QED BY <1>1, <2>1, <2>2, <2>3, FrameStep
<1>5. QED BY <1>3, <1>4

LEMMA InsertStep == IInv /\ (InsertName \/ LeaveInserted) => IInv'
<1> SUFFICES ASSUME IInv, InsertName \/ LeaveInserted PROVE IInv'
    OBVIOUS
<1>1. /\ stack # <<>> /\ IsFrame(Top) /\ ChildrenAreForked /\ Top.at = "insert"
      /\ UNCHANGED <<child, forks, waits, refused>>
    BY TopFrame DEF IInv, InsertName, LeaveInserted
<1>2. Cardinality(DOMAIN child) \in Nat /\ Top.count = 0
    BY <1>1 DEF ChildrenAreForked, IsFrame
<1>3. CASE InsertName
  <2>1. PICK name :
          LET f == [Top EXCEPT !.names = @ \cup {name}] IN
          \/ stack' = Append(WithTop(f), Scanning(Append(Top.dir, name)))
          \/ stack' = WithTop(f)
      BY <1>3 DEF InsertName
  <2> DEFINE f == [Top EXCEPT !.names = @ \cup {name}]
             g == Scanning(Append(Top.dir, name))
  <2>2. IsFrame(f) /\ f.count = Top.count
      BY <1>1, NamesChange
  <2>3. IsFrame(g) /\ g.count = 0
      BY DEF IsFrame, Scanning
  <2>4. ChildrenAreForked'
      BY <1>1, SameChildren
  <2> HIDE DEF f, g
  <2>5. CASE stack' = Append(WithTop(f), g)
      BY <1>1, <2>2, <2>3, <2>5, EnterStep
  <2>6. CASE stack' = WithTop(f)
    <3>1. Cardinality(DOMAIN child') = Cardinality(DOMAIN child) - Top.count + f.count
        BY <1>1, <1>2, <2>2
    <3>2. QED BY <1>1, <2>2, <2>4, <2>6, <3>1, FrameStep
  <2>7. QED BY <2>1, <2>5, <2>6 DEF f, g
<1>4. CASE LeaveInserted
    BY <1>1, <1>2, <1>4, LeaveStep DEF LeaveInserted
<1>5. QED BY <1>3, <1>4

(* As long as no directory was refused, nothing owed reaches the limit of a count. *)
LEMMA NothingWraps ==
    ASSUME IInv, refused = {}
    PROVE  /\ Cardinality(DOMAIN child) < UINT64
           /\ stack # <<>> => Top.count <= Cardinality(DOMAIN child)
           /\ stack = <<>> => waits = Cardinality(DOMAIN child)
<1>1. Len(Pids) \in Nat /\ UINT64 \in Nat /\ Len(Pids) < UINT64
    BY ChildrenAssumption DEF ChildrenAssumption
<1>2. forks \in 0 .. Len(Pids) /\ Cardinality(DOMAIN child) \in 0 .. forks
    BY DEF IInv, ChildrenAreForked
<1>3. Cardinality(DOMAIN child) < UINT64
    BY <1>1, <1>2
<1>4. QED BY <1>3, OwedBounds DEF IInv, Top

(* Extracting an item starts a child, which is counted, or neither. *)
LEMMA ItemForks ==
    ASSUME NEW path, NEW tree, NEW n, ExtractItem(path, tree, n)
    PROVE  \/ ForksFor(path) /\ Fork("gunzip", Front(path), path) /\ n = 1
           \/ NoFork /\ n = 0
<1>1. CASE ExtractLink(path, tree, n)
    BY <1>1 DEF ExtractLink, Skips
<1>2. CASE Skips(path, tree, n)
    BY <1>2 DEF Skips
<1>3. CASE WriteFile(path, tree, n) \/ WriteThroughLink(path, tree, n)
  <2>1. ForkFor(path) /\ n = Returned(path)
      BY <1>3 DEF WriteFile, WriteThroughLink
  <2>2. QED BY <2>1 DEF ForkFor, Returned
<1>4. QED BY <1>1, <1>2, <1>3 DEF ExtractItem, ExtractFile

LEMMA ExtractedItem ==
    ASSUME ChildrenAreForked, NEW path, NEW tree, NEW n, ExtractItem(path, tree, n)
    PROVE  /\ ChildrenAreForked'
           /\ n \in 0 .. 1
           /\ Cardinality(DOMAIN child') = Cardinality(DOMAIN child) + n
           /\ Cardinality(DOMAIN child) < UINT64 => Cardinality(DOMAIN child') < UINT64
<1>1. CASE Fork("gunzip", Front(path), path) /\ n = 1
    BY <1>1, Forking
<1>2. CASE NoFork /\ n = 0
  <2>1. child' = child /\ forks' = forks /\ n = 0
      BY <1>2 DEF NoFork
  <2>2. ChildrenAreForked'
      BY <2>1, SameChildren
  <2>3. Cardinality(DOMAIN child) \in Nat
      BY DEF ChildrenAreForked
  <2>4. QED BY <2>1, <2>2, <2>3
<1>3. QED BY <1>1, <1>2, ItemForks

LEMMA ExtractNameStep == IInv /\ ExtractName => IInv'
<1> SUFFICES ASSUME IInv, ExtractName PROVE IInv'
    OBVIOUS
<1>1. /\ stack # <<>> /\ IsFrame(Top) /\ ChildrenAreForked /\ Top.at = "extract"
      /\ waits' = waits
    BY TopFrame DEF IInv, ExtractName
<1>2. Cardinality(DOMAIN child) \in Nat /\ Top.count \in Nat
    BY <1>1 DEF ChildrenAreForked, IsFrame
<1> DEFINE path(name) == Append(Top.dir, name)
           f(name, n) == [Top EXCEPT !.names = @ \ {name}, !.count = Plus(@, n)]
<1>3. PICK name, n :
        \/ /\ stack' = Append(WithTop(f(name, 0)), Extracting(path(name)))
           /\ NoFork /\ UNCHANGED refused
        \/ /\ stack' = WithTop(f(name, -1))
           /\ refused' = refused \cup {path(name)}
           /\ NoFork
        \/ /\ ExtractItem(path(name), out, n)
           /\ stack' = WithTop(f(name, n))
           /\ UNCHANGED refused
    BY DEF ExtractName
<1>4. ASSUME NEW k \in Int PROVE IsFrame(f(name, k)) /\ f(name, k).count = Plus(Top.count, k)
  <2> DEFINE g == f(name, k)
  <2>1. Plus(Top.count, k) \in Nat
      BY <1>2, PlusType
  <2>2. g \in [dir : {Top.dir}, at : {Top.at}, names : {Top.names \ {name}},
               opened : {Top.opened}, map : {Top.map}, count : {Plus(Top.count, k)}]
      BY <1>1 DEF IsFrame
  <2> HIDE DEF g
  <2>3. IsFrame(g) /\ g.count = Plus(Top.count, k)
      BY <1>1, <2>1, <2>2 DEF IsFrame
  <2>4. QED BY <2>3 DEF g
<1> HIDE DEF f, path
<1>5. CASE /\ stack' = Append(WithTop(f(name, 0)), Extracting(path(name)))
           /\ NoFork /\ UNCHANGED refused
  <2>1. IsFrame(Extracting(path(name))) /\ Extracting(path(name)).count = 0
      BY DEF IsFrame, Extracting
  <2>2. ASSUME refused' = {} PROVE f(name, 0).count = Top.count
    <3>1. Top.count + 0 < UINT64
        BY <1>1, <1>2, <1>5, <2>2, NothingWraps, ChildrenAssumption DEF ChildrenAssumption
    <3>2. QED BY <1>2, <1>4, <3>1, PlusIsExact
  <2>3. QED BY <1>1, <1>4, <1>5, <2>1, <2>2, EnterStep DEF NoFork
<1>6. CASE /\ stack' = WithTop(f(name, -1))
           /\ refused' = refused \cup {path(name)}
           /\ NoFork
  <2>1. ChildrenAreForked' /\ refused' # {}
      BY <1>1, <1>6, SameChildren DEF NoFork
  <2>2. QED BY <1>1, <1>4, <1>6, <2>1, FrameStep
<1>7. CASE /\ ExtractItem(path(name), out, n)
           /\ stack' = WithTop(f(name, n))
           /\ UNCHANGED refused
  <2>1. /\ ChildrenAreForked' /\ n \in 0 .. 1
        /\ Cardinality(DOMAIN child') = Cardinality(DOMAIN child) + n
        /\ Cardinality(DOMAIN child) < UINT64 => Cardinality(DOMAIN child') < UINT64
      BY <1>1, <1>7, ExtractedItem
  <2>2. ASSUME refused' = {}
        PROVE  Cardinality(DOMAIN child') =
                 Cardinality(DOMAIN child) - Top.count + f(name, n).count
    <3>1. Cardinality(DOMAIN child) < UINT64 /\ Top.count <= Cardinality(DOMAIN child)
        BY <1>1, <1>7, <2>2, NothingWraps
    <3>2. Top.count + n < UINT64
        BY <1>2, <2>1, <3>1, ChildrenAssumption DEF ChildrenAssumption
    <3>3. f(name, n).count = Top.count + n
        BY <1>2, <1>4, <2>1, <3>2, PlusIsExact
    <3>4. QED BY <1>2, <2>1, <3>3
  <2>3. IsFrame(f(name, n)) /\ stack' = WithTop(f(name, n))
      BY <1>4, <1>7, <2>1
  <2>4. QED BY <1>1, <1>7, <2>1, <2>2, <2>3, FrameStep
<1>8. QED BY <1>3, <1>5, <1>6, <1>7

LEMMA ExtractPathStep == IInv /\ ExtractPath => IInv'
<1> SUFFICES ASSUME IInv, ExtractPath PROVE IInv'
    OBVIOUS
<1> DEFINE path == Head(todo)
           N == Cardinality(DOMAIN child)
<1>1. stack = <<>> /\ IsStack(stack) /\ ChildrenAreForked
    BY DEF IInv, ExtractPath
<1>2. N \in Nat
    BY <1>1 DEF ChildrenAreForked
<1>3. \/ UNCHANGED <<stack, waits, child, forks, refused>>
      \/ refused' # {} /\ UNCHANGED <<stack, child, forks>>
      \/ stack' = <<Extracting(path)>> /\ UNCHANGED <<child, forks, waits, refused>>
      \/ \E tree, n : ExtractItem(path, tree, n) /\ waits' = waits + n
                      /\ UNCHANGED <<stack, refused>>
    BY DEF ExtractPath, NoFork
<1>4. CASE UNCHANGED <<stack, waits, child, forks, refused>>
    BY <1>4 DEF IInv, ChildrenAreForked
<1>5. CASE refused' # {} /\ UNCHANGED <<stack, child, forks>>
    BY <1>5 DEF IInv, ChildrenAreForked
<1>6. CASE stack' = <<Extracting(path)>> /\ UNCHANGED <<child, forks, waits, refused>>
  <2>1. IsFrame(Extracting(path)) /\ Extracting(path).count = 0
      BY DEF IsFrame, Extracting
  <2>2. stack' = Append(stack, Extracting(path))
      BY <1>1, <1>6
  <2>3. IsStack(stack') /\ (Owed(stack, waits, N) => Owed(stack', waits, N))
      BY <1>1, <2>1, <2>2, Entering
  <2>4. ChildrenAreForked'
      BY <1>1, <1>6, SameChildren
  <2>5. QED BY <1>6, <2>3, <2>4 DEF IInv
<1>7. ASSUME NEW tree, NEW n, ExtractItem(path, tree, n), waits' = waits + n,
             UNCHANGED <<stack, refused>>
      PROVE  IInv'
  <2>1. /\ ChildrenAreForked' /\ n \in 0 .. 1
        /\ Cardinality(DOMAIN child') = N + n
      BY <1>1, <1>7, ExtractedItem
  <2>2. ASSUME refused' = {} PROVE Owed(stack', waits', Cardinality(DOMAIN child'))
    <3>1. waits' = N + n
        BY <1>1, <1>7, <2>2, NothingWraps
    <3>2. N + n \in Nat
        BY <1>2, <2>1
    <3>3. QED BY <1>1, <1>7, <2>1, <3>1, <3>2, OwedByCommand
  <2>3. QED BY <1>1, <1>7, <2>1, <2>2 DEF IInv
<1>8. QED BY <1>3, <1>4, <1>5, <1>6, <1>7

LEMMA EndNamesStep == IInv /\ EndNames => IInv'
<1> SUFFICES ASSUME IInv, EndNames PROVE IInv'
    OBVIOUS
<1> DEFINE f == [Top EXCEPT !.at = "wait"]
<1>1. /\ stack # <<>> /\ IsFrame(Top) /\ ChildrenAreForked /\ stack' = WithTop(f)
      /\ UNCHANGED <<child, forks, waits, refused>>
    BY TopFrame DEF IInv, EndNames
<1>2. IsFrame(f) /\ f.count = Top.count
    BY <1>1 DEF IsFrame
<1>3. ChildrenAreForked'
    BY <1>1, SameChildren
<1> HIDE DEF f
<1>4. Cardinality(DOMAIN child') = Cardinality(DOMAIN child) - Top.count + f.count
    BY <1>1, <1>2 DEF ChildrenAreForked, IsFrame
<1>5. QED BY <1>1, <1>2, <1>3, <1>4, FrameStep

LEMMA WaitStep == IInv /\ (WaitInDirectory \/ EndWait \/ WaitAtEnd) => IInv'
<1> SUFFICES ASSUME IInv, WaitInDirectory \/ EndWait \/ WaitAtEnd PROVE IInv'
    OBVIOUS
<1>1. ChildrenAreForked /\ IsStack(stack) /\ refused' = refused
    BY DEF IInv, WaitInDirectory, EndWait, WaitAtEnd
<1>2. Cardinality(DOMAIN child) \in Nat
    BY <1>1 DEF ChildrenAreForked
<1>3. CASE WaitInDirectory
  <2> DEFINE f == [Top EXCEPT !.count = @ - 1]
  <2>1. /\ stack # <<>> /\ Top.at = "wait" /\ Top.count > 0 /\ stack' = WithTop(f)
        /\ waits' = waits /\ forks' = forks /\ WaitReturns /\ IsFrame(Top)
      BY <1>1, <1>3, TopFrame DEF WaitInDirectory
  <2>2. IsFrame(f) /\ f.count = Top.count - 1 /\ Top.count \in Nat
    <3>1. Top.count \in Nat /\ Top.count - 1 \in Nat
        BY <2>1 DEF IsFrame
    <3>2. f \in [dir : {Top.dir}, at : {Top.at}, names : {Top.names},
                 opened : {Top.opened}, map : {Top.map}, count : {Top.count - 1}]
        BY <2>1 DEF IsFrame
    <3> HIDE DEF f
    <3>3. QED BY <2>1, <3>1, <3>2 DEF IsFrame
  <2> HIDE DEF f
  <2>3. ASSUME refused' = {}
        PROVE  Cardinality(DOMAIN child') =
                 Cardinality(DOMAIN child) - Top.count + f.count
    <3>1. Top.count <= Cardinality(DOMAIN child)
        BY <1>1, <2>1, <2>3, NothingWraps
    <3>2. Cardinality(DOMAIN child') = Cardinality(DOMAIN child) - 1
        BY <1>1, <1>2, <2>1, <2>2, <3>1, Waiting
    <3>3. QED BY <1>2, <2>2, <3>2
  <2>4. ChildrenAreForked'
      BY <1>1, <2>1, Waiting
  <2>5. QED BY <1>1, <2>1, <2>2, <2>3, <2>4, FrameStep
<1>4. CASE EndWait
  <2>1. /\ stack # <<>> /\ Top.count = 0 /\ IsFrame(Top)
        /\ UNCHANGED <<child, forks, waits, refused>>
      BY <1>1, <1>4, TopFrame DEF EndWait
  <2> DEFINE f == [Top EXCEPT !.at = "insert", !.names = {}]
  <2>2. stack' = WithTop(f) \/ stack' = Front(stack)
      BY <1>4 DEF EndWait
  <2>3. f \in [dir : {Top.dir}, at : {"insert"}, names : {{}}, opened : {Top.opened},
               map : {Top.map}, count : {0}]
      BY <2>1 DEF IsFrame
  <2> HIDE DEF f
  <2>4. IsFrame(f) /\ f.count = 0
      BY <2>3 DEF IsFrame
  <2>5. CASE stack' = WithTop(f)
    <3>1. ChildrenAreForked'
        BY <1>1, <2>1, SameChildren
    <3>2. Cardinality(DOMAIN child') = Cardinality(DOMAIN child) - Top.count + f.count
        BY <1>2, <2>1, <2>4
    <3>3. QED BY <1>1, <2>1, <2>4, <2>5, <3>1, <3>2, FrameStep
  <2>6. CASE stack' = Front(stack)
      BY <2>1, <2>6, LeaveStep
  <2>7. QED BY <2>2, <2>5, <2>6
<1>5. CASE WaitAtEnd
  <2>1. stack = <<>> /\ stack' = stack /\ waits > 0 /\ waits' = waits - 1
        /\ forks' = forks /\ WaitReturns
      BY <1>5 DEF WaitAtEnd
  <2>2. ChildrenAreForked'
      BY <1>1, <2>1, Waiting
  <2>3. ASSUME refused' = {} PROVE Owed(stack', waits', Cardinality(DOMAIN child'))
    <3>1. waits = Cardinality(DOMAIN child)
        BY <1>1, <2>1, <2>3, NothingWraps
    <3>2. Cardinality(DOMAIN child') = waits' /\ waits' \in Nat
        BY <1>1, <1>2, <2>1, <3>1, Waiting
    <3>3. QED BY <2>1, <3>2, OwedByCommand
  <2>4. QED BY <1>1, <2>1, <2>2, <2>3 DEF IInv
<1>6. QED BY <1>3, <1>4, <1>5

(* The children themselves, and what only changes the phase. *)
LEMMA ChildStepInv == IInv /\ ChildStep => IInv'
<1> SUFFICES ASSUME IInv, ChildStep PROVE IInv'
    OBVIOUS
<1>1. UNCHANGED <<stack, forks, waits, refused>>
    BY DEF ChildStep, OpenOutput, Gzip, Gunzip, RemoveZipped, ChildUnchanged
<1>2. DOMAIN child' = DOMAIN child
    BY DEF ChildStep, OpenOutput, Gzip, Gunzip, RemoveZipped, Goes
<1>3. ChildrenAreForked'
    BY <1>1, <1>2, SameChildren DEF IInv
<1>4. QED BY <1>1, <1>2, <1>3 DEF IInv

LEMMA NextInv == IInv /\ [Next]_vars => IInv'
<1> SUFFICES ASSUME IInv, [Next]_vars PROVE IInv'
    OBVIOUS
<1>1. CASE ParentStep
  <2>1. CASE Exit
      BY <2>1 DEF Exit, IInv, ChildrenAreForked
  <2>2. QED BY <1>1, <2>1, ScanStep, InsertStep, ExtractNameStep, EndNamesStep,
               ExtractPathStep, WaitStep DEF ParentStep
<1>2. CASE ChildStep
    BY <1>2, ChildStepInv
<1>3. CASE \E request \in Requests, kinds \in InTheWay : Choose(request, kinds)
    BY <1>3 DEF Choose, IInv, ChildrenAreForked
<1>4. CASE UNCHANGED vars
    BY <1>4 DEF vars, IInv, ChildrenAreForked
<1>5. QED BY <1>1, <1>2, <1>3, <1>4 DEF Next

-------------------------------------------------------------------------------
(* The inductive invariant: the frames of the recursion, the children forked, and, as
   long as no directory was refused, the sum of what is owed. *)
THEOREM Invariance == Spec => []IInv
<1>1. QED BY InitInv, NextInv, PTL DEF Spec

(* On every level of the recursion, and whichever children wait() takes, the parent has
   as many waits left as there are children (CIBExtractRec, CIBExtract, CIBCompressDir). *)
THEOREM ChildrenAreCounted == Spec => []EveryChildIsCounted
<1>1. IInv => EveryChildIsCounted
  <2> SUFFICES ASSUME IInv, refused = {} PROVE Counted = Cardinality(DOMAIN child)
      BY DEF EveryChildIsCounted
  <2>1. PICK S : IsTally(S, stack, waits) /\ S[Len(stack)] = Cardinality(DOMAIN child)
      BY DEF IInv, Owed
  <2>2. QED BY <2>1, TallyIsCounted DEF IInv
<1>2. QED BY <1>1, Invariance, PTL

(* No wait() of the parent is in vain: each one collects a child. *)
THEOREM WaitsFindAChild ==
    Spec => [][(WaitInDirectory \/ WaitAtEnd) /\ refused = {} => Reap]_vars
<1>1. IInv /\ (WaitInDirectory \/ WaitAtEnd) /\ refused = {} => Reap
  <2> SUFFICES ASSUME IInv, WaitInDirectory \/ WaitAtEnd, refused = {} PROVE Reap
      OBVIOUS
  <2>1. IsStack(stack) /\ Cardinality(DOMAIN child) \in Nat
      BY DEF IInv, ChildrenAreForked
  <2>2. CASE WaitInDirectory
    <3>1. stack # <<>> /\ Top.count > 0 /\ WaitReturns
        BY <2>2 DEF WaitInDirectory
    <3>2. Top.count \in Nat /\ Top.count <= Cardinality(DOMAIN child)
        BY <2>1, <3>1, TopFrame, NothingWraps DEF IsFrame
    <3>3. Cardinality(DOMAIN child) # 0
        BY <2>1, <3>1, <3>2
    <3>4. QED BY <3>1, <3>3, FS_EmptySet DEF WaitReturns
  <2>3. CASE WaitAtEnd
    <3>1. stack = <<>> /\ waits > 0 /\ WaitReturns
        BY <2>3 DEF WaitAtEnd
    <3>2. Cardinality(DOMAIN child) # 0
        BY <2>1, <3>1, NothingWraps
    <3>3. QED BY <3>1, <3>2, FS_EmptySet DEF WaitReturns
  <2>4. QED BY <2>2, <2>3
<1>2. QED BY <1>1, Invariance, PTL DEF Spec

(* Once the parent has exited it waits for nothing more. *)
ExitIsFinal == phase = "exit" => stack = <<>> /\ waits <= 0

LEMMA ExitInvariance == Spec => []ExitIsFinal
<1>1. Init => ExitIsFinal
    BY DEF Init, ExitIsFinal
<1>2. ExitIsFinal /\ [Next]_vars => ExitIsFinal'
  <2> SUFFICES ASSUME ExitIsFinal, [Next]_vars, phase' = "exit"
               PROVE  stack' = <<>> /\ waits' <= 0
      BY DEF ExitIsFinal
  <2>1. CASE Exit
      BY <2>1 DEF Exit
  <2>2. CASE phase = "exit" /\ UNCHANGED <<stack, waits>>
      BY <2>2 DEF ExitIsFinal
  <2>3. Exit \/ (phase = "exit" /\ UNCHANGED <<stack, waits>>)
    <3>1. CASE ChildStep
      <4>1. UNCHANGED <<phase, stack, waits>>
          BY <3>1 DEF ChildStep, OpenOutput, Gzip, Gunzip, RemoveZipped, ChildUnchanged
      <4>2. QED BY <4>1
    <3>2. CASE UNCHANGED vars
        BY <3>2 DEF vars
    <3>3. ~ScanDirectory /\ ~EndScan /\ ~InsertName
        BY DEF ScanDirectory, EndScan, InsertName
    <3>4. ~LeaveInserted
        BY DEF LeaveInserted
    <3>5. ~ExtractName /\ ~EndNames /\ ~ExtractPath /\ ~WaitAtEnd
        BY DEF ExtractName, EndNames, ExtractPath, WaitAtEnd
    <3>6. ~WaitInDirectory /\ ~EndWait
        BY DEF WaitInDirectory, EndWait, ExitIsFinal
    <3>7. ~\E request \in Requests, kinds \in InTheWay : Choose(request, kinds)
        BY DEF Choose
    <3>8. QED BY <3>1, <3>2, <3>3, <3>4, <3>5, <3>6, <3>7 DEF Next, ParentStep
  <2>4. QED BY <2>1, <2>2, <2>3
<1>3. QED BY <1>1, <1>2, PTL DEF Spec

(* No child outlives the command: when the parent exits, all have been collected. *)
THEOREM NoChildIsLeft == Spec => [](phase = "exit" /\ refused = {} => DOMAIN child = {})
<1>1. IInv /\ ExitIsFinal => (phase = "exit" /\ refused = {} => DOMAIN child = {})
  <2> SUFFICES ASSUME IInv, ExitIsFinal, phase = "exit", refused = {}
               PROVE  DOMAIN child = {}
      OBVIOUS
  <2>1. waits = Cardinality(DOMAIN child) /\ waits <= 0
      BY NothingWraps DEF ExitIsFinal
  <2>2. Cardinality(DOMAIN child) \in Nat /\ IsFiniteSet(DOMAIN child)
      BY DEF IInv, ChildrenAreForked
  <2>3. QED BY <2>1, <2>2, FS_EmptySet
<1>2. QED BY <1>1, Invariance, ExitInvariance, PTL
-------------------------------------------------------------------------------
(***************************************************************************)
(* Types, and what happens to the directory while it is stored.  Only the  *)
(* innermost frame has children then; and what is in the directory beyond  *)
(* its own files are outputs, which a frame has in its table and has not   *)
(* come across yet in its second reading.                                  *)
(***************************************************************************)
IsPath(p) == p \in Seq(Range(p))

Scans(f) ==
    /\ IsPath(f.dir)
    /\ f.at \in {"scan", "wait", "insert"}
    /\ DOMAIN f.map \subseteq Range(Pids)
    /\ compress \/ (f.at = "insert" /\ DOMAIN f.map = {})

IsOutput(p, f) ==
    \E pid \in DOMAIN f.map :
        p = Append(f.dir, pid) /\ (f.at = "insert" => pid \notin f.names)

OnlyOutputsAreNew(s) ==
    /\ DOMAIN s \subseteq DOMAIN source
    /\ source = [p \in DOMAIN source |-> source[p]]
    /\ \A p \in DOMAIN s : source[p] = Tree(s)[p]
    /\ \A p \in DOMAIN source \ DOMAIN s :
         source[p].kind = "file" /\ \E i \in 1 .. Len(stack) : IsOutput(p, stack[i])

GzipsInTop(pid) ==
    child[pid].do = "gzip" /\ child[pid].dir = Top.dir /\ pid \in DOMAIN Top.map

Storing ==
    /\ stack # <<>>
    /\ \E s \in Sources : OnlyOutputsAreNew(s)
    /\ \A i \in 1 .. Len(stack) : Scans(stack[i])
    /\ \A i \in 1 .. Len(stack) - 1 : stack[i].at = "insert"
    /\ Cardinality(DOMAIN child) = Top.count
    /\ \A pid \in DOMAIN child : GzipsInTop(pid)

Between == stack = <<>> /\ DOMAIN child = {} /\ \E s \in Sources : source = Tree(s)

Activities ==
    /\ child = [pid \in DOMAIN child |-> child[pid]]
    /\ \A pid \in DOMAIN child :
         child[pid] \in [do : {"gzip", "gunzip"}, dir : {child[pid].dir},
                         path : {child[pid].path}, at : {"start", "open", "zombie"}]

CountsFit == \A i \in 1 .. Len(stack) : stack[i].count < UINT64

Types ==
    /\ compress \in BOOLEAN
    /\ phase \in {"store", "choose", "extract", "exit"}
    /\ waits \in Int
    /\ \A p \in DOMAIN stored : stored[p].kind \in Kinds
    /\ CountsFit
    /\ Activities

StoreInv ==
    /\ Types
    /\ phase = "store" => Storing
    /\ phase = "choose" => Between
-------------------------------------------------------------------------------
(* Paths and names. *)
LEMMA JoinAndSplit ==
    ASSUME NEW d, IsPath(d), NEW n
    PROVE  /\ IsPath(Append(d, n)) /\ Append(d, n) # <<>>
           /\ Last(Append(d, n)) = n /\ Front(Append(d, n)) = d
<1> DEFINE S == Range(d) \cup {n}
           p == Append(d, n)
<1>1. PICK k \in Nat : k = Len(d)
    BY DEF IsPath
<1>2. /\ d \in Seq(S) /\ p \in Seq(S) /\ Len(p) = k + 1
      /\ p[k + 1] = n /\ \A i \in 1 .. k : p[i] = d[i]
    BY <1>1 DEF IsPath
<1> HIDE DEF p, S
<1>3. IsPath(p) /\ p # <<>> /\ Last(p) = n
    BY <1>1, <1>2 DEF IsPath, Range, Last
<1>4. Front(p) = SubSeq(p, 1, k)
    BY <1>1, <1>2 DEF Front
<1>5. /\ SubSeq(p, 1, k) \in Seq(S)
      /\ Len(SubSeq(p, 1, k)) = k
      /\ \A i \in 1 .. k : SubSeq(p, 1, k)[i] = d[i]
  <2>1. \A i \in 1 .. k : p[i] \in S
      BY <1>1, <1>2, ElementOfSeq
  <2>2. /\ SubSeq(p, 1, k) \in Seq(S)
        /\ Len(SubSeq(p, 1, k)) = IF 1 <= k THEN k - 1 + 1 ELSE 0
        /\ \A i \in 1 .. k - 1 + 1 : SubSeq(p, 1, k)[i] = p[1 + i - 1]
      BY <2>1, SubSeqProperties
  <2>3. k - 1 + 1 = k /\ \A i \in 1 .. k : 1 + i - 1 = i
      OBVIOUS
  <2>4. QED BY <1>2, <2>2, <2>3
<1>6. SubSeq(p, 1, k) = d
    BY <1>1, <1>2, <1>5, SeqEqual
<1>7. QED BY <1>3, <1>4, <1>6 DEF p

LEMMA SplitAndJoin ==
    ASSUME NEW q, IsPath(q), q # <<>>
    PROVE  Append(Front(q), Last(q)) = q
<1> DEFINE S == Range(q)
           h == SubSeq(q, 1, Len(q) - 1)
<1>1. PICK k \in Nat : k = Len(q) /\ k > 0
    BY DEF IsPath
<1>2. q \in Seq(S) /\ \A i \in 1 .. k : q[i] \in S
    BY <1>1, ElementOfSeq DEF IsPath
<1>3. /\ h \in Seq(S) /\ Len(h) = k - 1
      /\ \A i \in 1 .. k - 1 : h[i] = q[i]
  <2>1. /\ h \in Seq(S)
        /\ Len(h) = IF 1 <= k - 1 THEN k - 1 - 1 + 1 ELSE 0
        /\ \A i \in 1 .. k - 1 - 1 + 1 : h[i] = q[1 + i - 1]
      BY <1>1, <1>2, SubSeqProperties
  <2>2. k - 1 - 1 + 1 = k - 1 /\ \A i \in 1 .. k - 1 : 1 + i - 1 = i
      OBVIOUS
  <2> HIDE DEF h
  <2>3. Len(h) = k - 1
      BY <1>1, <2>1
  <2>4. \A i \in 1 .. k - 1 : h[i] = q[i]
      BY <2>1, <2>2
  <2>5. QED BY <2>1, <2>3, <2>4
<1> HIDE DEF h
<1>4. /\ Append(h, q[k]) \in Seq(S) /\ Len(Append(h, q[k])) = k
      /\ \A i \in 1 .. k : Append(h, q[k])[i] = q[i]
    BY <1>1, <1>2, <1>3
<1>5. Append(h, q[k]) = q
    BY <1>1, <1>2, <1>4, SeqEqual
<1>6. QED BY <1>1, <1>5 DEF Front, Last, h

(* The stack after the parent changed it, position by position. *)
LEMMA Replaced ==
    ASSUME IsStack(stack), stack # <<>>, NEW f, stack' = WithTop(f)
    PROVE  /\ Len(stack) \in Nat \ {0} /\ Len(stack') = Len(stack)
           /\ \A i \in 1 .. Len(stack) - 1 : stack'[i] = stack[i]
           /\ stack'[Len(stack)] = f /\ Top' = f /\ Top = stack[Len(stack)]
           /\ stack' # <<>>
<1>1. PICK k \in Nat : k = Len(stack) /\ k > 0 /\ DOMAIN stack = 1 .. k
    BY DEF IsStack
<1>2. stack' \in Seq(Range(stack) \cup {f}) /\ Len(stack') = k
    BY <1>1 DEF IsStack, WithTop, Range
<1>3. stack'[k] = f /\ \A i \in 1 .. k - 1 : stack'[i] = stack[i]
    BY <1>1 DEF WithTop
<1>4. QED BY <1>1, <1>2, <1>3 DEF Top, Last

LEMMA Pushed ==
    ASSUME IsStack(stack), stack # <<>>, NEW f, NEW g, stack' = Append(WithTop(f), g)
    PROVE  /\ Len(stack) \in Nat \ {0} /\ Len(stack') = Len(stack) + 1
           /\ \A i \in 1 .. Len(stack) - 1 : stack'[i] = stack[i]
           /\ stack'[Len(stack)] = f /\ stack'[Len(stack) + 1] = g
           /\ Top' = g /\ Top = stack[Len(stack)]
           /\ stack' # <<>>
<1>1. PICK k \in Nat : k = Len(stack) /\ k > 0 /\ DOMAIN stack = 1 .. k
    BY DEF IsStack
<1> DEFINE s == WithTop(f)
<1>2. s \in Seq(Range(stack) \cup {f}) /\ Len(s) = k
    BY <1>1 DEF IsStack, WithTop, Range
<1>3. s[k] = f /\ \A i \in 1 .. k - 1 : s[i] = stack[i]
    BY <1>1 DEF WithTop
<1>4. stack' = Append(s, g)
    OBVIOUS
<1> HIDE DEF s
<1>5. /\ stack' \in Seq(Range(stack) \cup {f, g})
      /\ Len(stack') = k + 1 /\ stack'[k + 1] = g
      /\ \A i \in 1 .. k : stack'[i] = s[i]
    BY <1>1, <1>2, <1>4
<1>6. QED BY <1>1, <1>3, <1>5 DEF Top, Last

LEMMA Popped ==
    ASSUME IsStack(stack), stack # <<>>, stack' = Front(stack)
    PROVE  /\ Len(stack) \in Nat \ {0} /\ Len(stack') = Len(stack) - 1
           /\ \A i \in 1 .. Len(stack) - 1 : stack'[i] = stack[i]
           /\ Len(stack) > 1 => stack' # <<>> /\ Top' = stack[Len(stack) - 1]
           /\ Len(stack) = 1 => stack' = <<>>
           /\ Top = stack[Len(stack)]
<1>1. PICK k \in Nat : k = Len(stack) /\ k > 0 /\ DOMAIN stack = 1 .. k
    BY DEF IsStack
<1>2. \A i \in 1 .. k - 1 : stack[i] \in Range(stack)
    BY <1>1 DEF Range
<1>3. /\ stack' \in Seq(Range(stack))
      /\ Len(stack') = IF 1 <= k - 1 THEN k - 1 - 1 + 1 ELSE 0
      /\ \A i \in 1 .. k - 1 - 1 + 1 : stack'[i] = stack[1 + i - 1]
    BY <1>1, <1>2, SubSeqProperties DEF Front
<1>4. k - 1 - 1 + 1 = k - 1 /\ \A i \in 1 .. k - 1 : 1 + i - 1 = i
    OBVIOUS
<1>5. Len(stack') = k - 1 /\ \A i \in 1 .. k - 1 : stack'[i] = stack[i]
  <2>1. Len(stack') = k - 1
      BY <1>1, <1>3
  <2>2. \A i \in 1 .. k - 1 : stack'[i] = stack[i]
      BY <1>3, <1>4
  <2>3. QED BY <2>1, <2>2
<1>6. k > 1 => stack' # <<>> /\ Top' = stack[k - 1]
    BY <1>3, <1>5 DEF Top, Last
<1>7. k = 1 => stack' = <<>>
    BY <1>3, <1>5
<1>8. QED BY <1>1, <1>5, <1>6, <1>7 DEF Top, Last
-------------------------------------------------------------------------------
(* Types. *)
LEMMA CountsStay ==
    ASSUME IsStack(stack), stack # <<>>, CountsFit
    PROVE  /\ Top.count < UINT64
           /\ \A f : f.count < UINT64 /\ stack' = WithTop(f) => CountsFit'
           /\ \A f, g : f.count < UINT64 /\ g.count = 0 /\ stack' = Append(WithTop(f), g)
                => CountsFit'
           /\ stack' = Front(stack) => CountsFit'
<1>1. PICK k \in Nat : k = Len(stack) /\ k > 0
    BY DEF IsStack
<1>2. Top.count < UINT64 /\ \A i \in 1 .. k : stack[i].count < UINT64
    BY <1>1 DEF CountsFit, Top, Last
<1>3. ASSUME NEW f, f.count < UINT64, stack' = WithTop(f) PROVE CountsFit'
  <2>1. /\ Len(stack') = k /\ stack'[k] = f
        /\ \A i \in 1 .. k - 1 : stack'[i] = stack[i]
      BY <1>1, <1>3, Replaced
  <2>2. ASSUME NEW i \in 1 .. k PROVE stack'[i].count < UINT64
    <3>1. CASE i = k
        BY <1>3, <2>1, <3>1
    <3>2. CASE i # k
      <4>1. i \in 1 .. k - 1 /\ stack'[i] = stack[i]
          BY <1>1, <2>1, <3>2
      <4>2. QED BY <1>2, <4>1
    <3>3. QED BY <3>1, <3>2
  <2>3. QED BY <2>1, <2>2 DEF CountsFit
<1>4. ASSUME NEW f, NEW g, f.count < UINT64, g.count = 0, stack' = Append(WithTop(f), g)
      PROVE  CountsFit'
  <2>1. /\ Len(stack') = k + 1 /\ stack'[k] = f /\ stack'[k + 1] = g
        /\ \A i \in 1 .. k - 1 : stack'[i] = stack[i]
      BY <1>1, <1>4, Pushed
  <2>2. UINT64 > 0
      BY ChildrenAssumption DEF ChildrenAssumption
  <2>3. ASSUME NEW i \in 1 .. k + 1 PROVE stack'[i].count < UINT64
    <3>1. CASE i = k \/ i = k + 1
        BY <1>4, <2>1, <2>2, <3>1
    <3>2. CASE i # k /\ i # k + 1
      <4>1. i \in 1 .. k - 1 /\ stack'[i] = stack[i]
          BY <1>1, <2>1, <3>2
      <4>2. QED BY <1>2, <4>1
    <3>3. QED BY <3>1, <3>2
  <2>4. QED BY <2>1, <2>3 DEF CountsFit
<1>5. ASSUME stack' = Front(stack) PROVE CountsFit'
  <2>1. Len(stack') = k - 1 /\ \A i \in 1 .. k - 1 : stack'[i] = stack[i]
      BY <1>1, <1>5, Popped
  <2>2. \A i \in 1 .. k - 1 : stack'[i].count < UINT64
      BY <1>1, <1>2, <2>1
  <2>3. QED BY <2>1, <2>2 DEF CountsFit
<1>6. QED BY <1>2, <1>3, <1>4, <1>5

LEMMA ActivitiesStay ==
    ASSUME Activities
    PROVE  /\ \A do \in {"gzip", "gunzip"} : \A dir, path :
                Fork(do, dir, path) => Activities'
           /\ WaitReturns => Activities'
           /\ UNCHANGED child => Activities'
           /\ \A pid \in DOMAIN child, at \in {"start", "open", "zombie"} :
                Goes(pid, at) => Activities'
<1>1. ASSUME NEW do \in {"gzip", "gunzip"}, NEW dir, NEW path, Fork(do, dir, path)
      PROVE  Activities'
  <2>1. PICK c : c = [do |-> do, dir |-> dir, path |-> path, at |-> "start"]
      OBVIOUS
  <2>2. child' = [p \in DOMAIN child \cup {Pid} |-> IF p = Pid THEN c ELSE child[p]]
      BY <1>1, <2>1 DEF Fork, Put
  <2>3. c \in [do : {"gzip", "gunzip"}, dir : {c.dir}, path : {c.path},
               at : {"start", "open", "zombie"}]
      BY <2>1
  <2>4. QED BY <2>2, <2>3 DEF Activities
<1>2. ASSUME NEW pid \in DOMAIN child, child' = Unlink(child, pid)
      PROVE  Activities'
    BY <1>2 DEF Activities, Unlink
<1>3. UNCHANGED child => Activities'
    BY DEF Activities
<1>4. WaitReturns => Activities'
    BY <1>2, <1>3 DEF WaitReturns, Reap
<1>5. ASSUME NEW pid \in DOMAIN child, NEW at \in {"start", "open", "zombie"}, Goes(pid, at)
      PROVE  Activities'
  <2>1. PICK c : c = [child[pid] EXCEPT !.at = at]
      OBVIOUS
  <2>2. child' = [p \in DOMAIN child |-> IF p = pid THEN c ELSE child[p]]
      BY <1>5, <2>1 DEF Goes, Activities
  <2>3. c \in [do : {"gzip", "gunzip"}, dir : {child[pid].dir}, path : {child[pid].path},
               at : {"start", "open", "zombie"}]
      BY <2>1 DEF Activities
  <2>4. c \in [do : {"gzip", "gunzip"}, dir : {c.dir}, path : {c.path},
               at : {"start", "open", "zombie"}]
      BY <2>3
  <2>5. QED BY <2>2, <2>4 DEF Activities
<1>6. QED BY <1>1, <1>3, <1>4, <1>5

(* What is in the directory are files, links, directories, at sequences of names. *)
LEMMA SourceKinds ==
    ASSUME Storing
    PROVE  \A p \in DOMAIN source : IsPath(p) /\ source[p].kind \in Kinds
<1>1. PICK s \in Sources : OnlyOutputsAreNew(s)
    BY DEF Storing
<1>2. ASSUME NEW p \in DOMAIN s PROVE IsPath(p) /\ source[p].kind \in Kinds
  <2>1. s[p] \in Kinds /\ IsPath(p)
      BY ChildrenAssumption DEF ChildrenAssumption, IsPath
  <2>2. source[p] = IF s[p] = "dir" THEN Directory ELSE [kind |-> s[p], of |-> p, zip |-> 0]
      BY <1>1 DEF OnlyOutputsAreNew, Tree
  <2>3. source[p].kind = s[p]
      BY <2>2 DEF Directory
  <2>4. QED BY <2>1, <2>3
<1>3. ASSUME NEW p \in DOMAIN source \ DOMAIN s PROVE IsPath(p) /\ source[p].kind \in Kinds
  <2>1. source[p].kind = "file" /\ \E i \in 1 .. Len(stack) : IsOutput(p, stack[i])
      BY <1>1 DEF OnlyOutputsAreNew
  <2>2. PICK i \in 1 .. Len(stack) : \E pid : p = Append(stack[i].dir, pid)
      BY <2>1 DEF IsOutput
  <2>3. IsPath(stack[i].dir)
      BY DEF Storing, Scans
  <2>4. QED BY <2>1, <2>2, <2>3, JoinAndSplit DEF Kinds
<1>4. QED BY <1>2, <1>3

(* The names that readdir returns, and the paths in the directory. *)
LEMMA NamesArePaths ==
    ASSUME Storing, NEW dir, NEW name \in NamesIn(source, dir)
    PROVE  Append(dir, name) \in DOMAIN source
<1>1. PICK q \in DOMAIN source : q # <<>> /\ Front(q) = dir /\ Last(q) = name
    BY DEF NamesIn
<1>2. QED BY <1>1, SourceKinds, SplitAndJoin

LEMMA PathsAreNamed ==
    ASSUME NEW dir, IsPath(dir), NEW name, Append(dir, name) \in DOMAIN source
    PROVE  name \in NamesIn(source, dir)
BY JoinAndSplit DEF NamesIn
-------------------------------------------------------------------------------
(* While the directory is stored. *)
LEMMA StoringFacts ==
    ASSUME IInv, Storing
    PROVE  /\ IsStack(stack) /\ ChildrenAreForked /\ stack # <<>>
           /\ Len(stack) \in Nat \ {0} /\ Top = stack[Len(stack)]
           /\ IsFrame(Top) /\ Scans(Top) /\ Top.count \in Nat
           /\ Top.at = "insert" => DOMAIN child = {}
<1>1. IsStack(stack) /\ ChildrenAreForked /\ stack # <<>>
    BY DEF IInv, Storing
<1>2. Len(stack) \in Nat \ {0} /\ Top = stack[Len(stack)]
    BY <1>1 DEF IsStack, Top, Last
<1>3. IsFrame(Top) /\ Scans(Top)
    BY <1>1, <1>2, TopFrame DEF Storing
<1>4. Top.count \in Nat /\ (Top.at = "insert" => Top.count = 0)
    BY <1>3 DEF IsFrame
<1>5. ASSUME Top.at = "insert" PROVE DOMAIN child = {}
  <2>1. Cardinality(DOMAIN child) = 0
      BY <1>4, <1>5 DEF Storing
  <2>2. QED BY <1>1, <2>1, FS_EmptySet DEF ChildrenAreForked
<1>6. QED BY <1>1, <1>2, <1>3, <1>4, <1>5

(* What is in the directory after "gone" was unlinked, which is not one of its own. *)
LEMMA OutputsKept ==
    ASSUME NEW s, OnlyOutputsAreNew(s), NEW gone, gone \cap DOMAIN s = {},
           source' = [p \in DOMAIN source \ gone |-> source[p]],
           \A p \in (DOMAIN source \ DOMAIN s) \ gone, i \in 1 .. Len(stack) :
               source[p].kind = "file" /\ IsOutput(p, stack[i])
                 => \E j \in 1 .. Len(stack') : IsOutput(p, stack'[j])
    PROVE  OnlyOutputsAreNew(s)'
<1>1. DOMAIN source' = DOMAIN source \ gone /\ \A p \in DOMAIN source' : source'[p] = source[p]
    OBVIOUS
<1>2. DOMAIN s \subseteq DOMAIN source' /\ source' = [p \in DOMAIN source' |-> source'[p]]
    BY <1>1 DEF OnlyOutputsAreNew
<1>3. ASSUME NEW p \in DOMAIN s PROVE source'[p] = Tree(s)[p]
    BY <1>1, <1>2 DEF OnlyOutputsAreNew
<1>4. ASSUME NEW p \in DOMAIN source' \ DOMAIN s
      PROVE  source'[p].kind = "file" /\ \E i \in 1 .. Len(stack') : IsOutput(p, stack'[i])
  <2>1. p \in (DOMAIN source \ DOMAIN s) \ gone /\ source'[p] = source[p]
      BY <1>1
  <2>2. source[p].kind = "file" /\ \E i \in 1 .. Len(stack) : IsOutput(p, stack[i])
      BY <2>1 DEF OnlyOutputsAreNew
  <2>3. QED BY <2>1, <2>2
<1>5. QED BY <1>2, <1>3, <1>4 DEF OnlyOutputsAreNew, Tree

(* A step that changes the innermost frame only, and takes from the directory only
   outputs that this frame has in its table. *)
LEMMA StoringFrame ==
    ASSUME IInv, Storing, NEW f, stack' = WithTop(f), UNCHANGED compress,
           Scans(f), NEW gone,
           \A s \in Sources : OnlyOutputsAreNew(s) => gone \cap DOMAIN s = {},
           source' = [p \in DOMAIN source \ gone |-> source[p]],
           \A p \in DOMAIN source \ gone :
               source[p].kind = "file" /\ IsOutput(p, Top) => IsOutput(p, f),
           Cardinality(DOMAIN child') = f.count,
           \A pid \in DOMAIN child' :
               child'[pid].do = "gzip" /\ child'[pid].dir = f.dir /\ pid \in DOMAIN f.map
    PROVE  Storing'
<1>1. PICK L \in Nat : L = Len(stack) /\ L > 0
    BY StoringFacts
<1>2. /\ Len(stack') = L /\ stack' # <<>> /\ stack'[L] = f /\ Top' = f /\ Top = stack[L]
      /\ \A i \in 1 .. L - 1 : stack'[i] = stack[i]
    BY <1>1, Replaced, StoringFacts
<1>3. PICK s \in Sources : OnlyOutputsAreNew(s)
    BY DEF Storing
<1>4. OnlyOutputsAreNew(s)'
  <2>1. ASSUME NEW p \in (DOMAIN source \ DOMAIN s) \ gone, NEW i \in 1 .. Len(stack),
               source[p].kind = "file", IsOutput(p, stack[i])
        PROVE  \E j \in 1 .. Len(stack') : IsOutput(p, stack'[j])
    <3>1. CASE i = L
        BY <1>1, <1>2, <2>1, <3>1
    <3>2. CASE i # L
      <4>1. i \in 1 .. L - 1 /\ i \in 1 .. L
          BY <1>1, <3>2
      <4>2. QED BY <1>2, <2>1, <4>1
    <3>3. QED BY <3>1, <3>2
  <2>2. QED BY <1>3, <2>1, OutputsKept
<1>5. ASSUME NEW i \in 1 .. L PROVE Scans(stack[i])' /\ (i \in 1 .. L - 1 => stack'[i].at = "insert")
  <2>1. CASE i = L
      BY <1>1, <1>2, <2>1 DEF Scans
  <2>2. CASE i # L
    <3>1. i \in 1 .. L - 1 /\ stack'[i] = stack[i]
        BY <1>1, <1>2, <2>2
    <3>2. Scans(stack[i]) /\ stack[i].at = "insert"
        BY <1>1, <3>1 DEF Storing
    <3>3. QED BY <3>1, <3>2 DEF Scans
  <2>3. QED BY <2>1, <2>2
<1>6. \A i \in 1 .. L - 1 : i \in 1 .. L
    BY <1>1
<1>7. \A pid \in DOMAIN child' : GzipsInTop(pid)'
    BY <1>2 DEF GzipsInTop
<1>8. QED BY <1>1, <1>2, <1>3, <1>4, <1>5, <1>6, <1>7 DEF Storing
LEMMA ScanStores == IInv /\ Storing /\ Types /\ (ScanDirectory \/ EndScan) => Storing' /\ Types'
<1> SUFFICES ASSUME IInv, Storing, Types, ScanDirectory \/ EndScan PROVE Storing' /\ Types'
    OBVIOUS
<1>1. /\ IsStack(stack) /\ ChildrenAreForked /\ stack # <<>> /\ IsFrame(Top) /\ Scans(Top)
      /\ Top.at = "scan" /\ Top.count \in Nat
      /\ UNCHANGED <<compress, source, stored, waits, phase>>
    BY StoringFacts DEF ScanDirectory, EndScan
<1>2. PICK gone : /\ source' = [p \in DOMAIN source \ gone |-> source[p]]
                  /\ \A s \in Sources : gone \cap DOMAIN s = {}
  <2>1. source = [p \in DOMAIN source |-> source[p]]
      BY DEF Storing, OnlyOutputsAreNew
  <2>2. source' = [p \in DOMAIN source \ {} |-> source[p]]
      BY <1>1, <2>1
  <2>3. \A s \in Sources : {} \cap DOMAIN s = {}
      OBVIOUS
  <2>4. QED BY <2>2, <2>3
<1>3. Cardinality(DOMAIN child) = Top.count /\ \A pid \in DOMAIN child : GzipsInTop(pid)
    BY DEF Storing
<1>4. CountsFit /\ Activities
    BY DEF Types
<1>5. CASE ScanDirectory
  <2>1. PICK name :
          LET seen == [Top EXCEPT !.names = @ \cup {name}] IN
          \/ /\ Fork("gzip", Top.dir, Append(Top.dir, name))
             /\ stack' = WithTop([seen EXCEPT !.map = Put(@, Pid, name), !.count = @ + 1])
          \/ stack' = WithTop(seen) /\ NoFork
      BY <1>5 DEF ScanDirectory
  <2> DEFINE seen == [Top EXCEPT !.names = @ \cup {name}]
             counting == [seen EXCEPT !.map = Put(@, Pid, name), !.count = @ + 1]
  <2>2. seen \in [dir : {Top.dir}, at : {"scan"}, names : {Top.names \cup {name}},
                  opened : {Top.opened}, map : {Top.map}, count : {Top.count}]
      BY <1>1 DEF IsFrame
  <2>3. CASE Fork("gzip", Top.dir, Append(Top.dir, name)) /\ stack' = WithTop(counting)
    <3> HIDE DEF seen
    <3>1. counting \in [dir : {Top.dir}, at : {"scan"}, names : {Top.names \cup {name}},
                        opened : {Top.opened}, map : {Put(Top.map, Pid, name)},
                        count : {Top.count + 1}]
        BY <2>2
    <3> HIDE DEF counting
    <3>2. /\ counting.dir = Top.dir /\ counting.at = "scan" /\ counting.count = Top.count + 1
          /\ DOMAIN counting.map = DOMAIN Top.map \cup {Pid}
        BY <3>1 DEF Put
    <3>3. /\ Cardinality(DOMAIN child') = Cardinality(DOMAIN child) + 1
          /\ Cardinality(DOMAIN child') < UINT64
        BY <1>1, <2>3, Forking
    <3>4. Cardinality(DOMAIN child') = counting.count /\ counting.count < UINT64
        BY <1>3, <3>2, <3>3
    <3>5. Pid \in Range(Pids)
      <4>1. forks \in Nat /\ forks < Len(Pids)
          BY <1>1, <2>3 DEF ChildrenAreForked, Fork
      <4>2. Len(Pids) \in Nat /\ DOMAIN Pids = 1 .. Len(Pids)
          BY ChildrenAssumption DEF ChildrenAssumption
      <4>3. forks + 1 \in DOMAIN Pids
          BY <4>1, <4>2
      <4>4. QED BY <4>3 DEF Pid, Range
    <3>6. Scans(counting)
        BY <1>1, <3>2, <3>5 DEF Scans
    <3>7. \A p : IsOutput(p, Top) => IsOutput(p, counting)
        BY <1>1, <3>2 DEF IsOutput
    <3>8. ASSUME NEW pid \in DOMAIN child'
          PROVE  /\ child'[pid].do = "gzip" /\ child'[pid].dir = counting.dir
                 /\ pid \in DOMAIN counting.map
      <4> DEFINE c == [do |-> "gzip", dir |-> Top.dir, path |-> Append(Top.dir, name), at |-> "start"]
      <4>1. child' = [p \in DOMAIN child \cup {Pid} |-> IF p = Pid THEN c ELSE child[p]]
          BY <2>3 DEF Fork, Put
      <4>2. c.do = "gzip" /\ c.dir = Top.dir
          OBVIOUS
      <4> HIDE DEF c
      <4>3. CASE pid = Pid
          BY <3>2, <4>1, <4>2, <4>3
      <4>4. CASE pid # Pid
        <5>1. pid \in DOMAIN child /\ child'[pid] = child[pid]
            BY <4>1, <4>4
        <5>2. QED BY <1>3, <3>2, <5>1 DEF GzipsInTop
      <4>5. QED BY <4>3, <4>4
    <3>9. Storing'
        BY <1>1, <1>2, <2>3, <3>4, <3>6, <3>7, <3>8, StoringFrame
    <3>10. CountsFit' /\ Activities'
        BY <1>1, <1>4, <2>3, <3>4, CountsStay, ActivitiesStay
    <3>11. QED BY <1>1, <3>9, <3>10 DEF Types
  <2>4. CASE stack' = WithTop(seen) /\ NoFork
    <3> HIDE DEF seen
    <3>1. seen.dir = Top.dir /\ seen.at = "scan" /\ seen.map = Top.map /\ seen.count = Top.count
        BY <2>2
    <3>2. Scans(seen) /\ \A p : IsOutput(p, Top) => IsOutput(p, seen)
        BY <1>1, <3>1 DEF Scans, IsOutput
    <3>3. child' = child
        BY <2>4 DEF NoFork
    <3>4. \A pid \in DOMAIN child' :
            child'[pid].do = "gzip" /\ child'[pid].dir = seen.dir /\ pid \in DOMAIN seen.map
        BY <1>3, <3>1, <3>3 DEF GzipsInTop
    <3>5. Cardinality(DOMAIN child') = seen.count
        BY <1>3, <3>1, <3>3
    <3>6. Storing'
        BY <1>1, <1>2, <2>4, <3>2, <3>4, <3>5, StoringFrame
    <3>7. CountsFit' /\ Activities'
        BY <1>1, <1>4, <2>4, <3>1, <3>3, CountsStay, ActivitiesStay
    <3>8. QED BY <1>1, <3>6, <3>7 DEF Types
  <2>5. QED BY <2>1, <2>3, <2>4
<1>6. CASE EndScan
  <2> DEFINE f == [Top EXCEPT !.at = "wait"]
  <2>1. stack' = WithTop(f) /\ child' = child
      BY <1>6 DEF EndScan
  <2>2. f.dir = Top.dir /\ f.at = "wait" /\ f.map = Top.map /\ f.count = Top.count
      BY <1>1 DEF IsFrame
  <2> HIDE DEF f
  <2>3. Scans(f) /\ \A p : IsOutput(p, Top) => IsOutput(p, f)
      BY <1>1, <2>2 DEF Scans, IsOutput
  <2>4. \A pid \in DOMAIN child' :
          child'[pid].do = "gzip" /\ child'[pid].dir = f.dir /\ pid \in DOMAIN f.map
      BY <1>3, <2>1, <2>2 DEF GzipsInTop
  <2>5. Cardinality(DOMAIN child') = f.count
      BY <1>3, <2>1, <2>2
  <2>6. Storing'
      BY <1>1, <1>2, <2>1, <2>3, <2>4, <2>5, StoringFrame
  <2>7. CountsFit' /\ Activities'
      BY <1>1, <1>4, <2>1, <2>2, CountsStay, ActivitiesStay
  <2>8. QED BY <1>1, <2>6, <2>7 DEF Types
<1>7. QED BY <1>5, <1>6
(* What a name is that readdir returns: one of the directory's own, or an output. *)
LEMMA NameIsOwnOrOutput ==
    ASSUME IInv, Storing, NEW s \in Sources, OnlyOutputsAreNew(s),
           NEW name \in NamesIn(source, Top.dir)
    PROVE  LET path == Append(Top.dir, name) IN
           /\ path \in DOMAIN source /\ source[path].kind \in Kinds
           /\ name \in DOMAIN Top.map => path \notin DOMAIN s
           /\ \A pid : path = Append(Top.dir, pid) <=> pid = name
<1> DEFINE path == Append(Top.dir, name)
<1>1. path \in DOMAIN source /\ source[path].kind \in Kinds
    BY NamesArePaths, SourceKinds
<1>2. IsPath(Top.dir) /\ DOMAIN Top.map \subseteq Range(Pids)
    BY StoringFacts DEF Scans
<1>3. path # <<>> /\ Last(path) = name
    BY <1>2, JoinAndSplit
<1>4. ASSUME name \in DOMAIN Top.map PROVE path \notin DOMAIN s
  <2>1. PICK i \in DOMAIN Pids : name = Pids[i]
      BY <1>2, <1>4 DEF Range
  <2> HIDE DEF path
  <2>2. QED BY <1>3, <2>1, ChildrenAssumption DEF ChildrenAssumption
<1>5. \A pid : path = Append(Top.dir, pid) <=> pid = name
    BY <1>2, JoinAndSplit
<1>6. QED BY <1>1, <1>4, <1>5

(* The second reading, one name. *)
LEMMA InsertStores == IInv /\ Storing /\ Types /\ InsertName => Storing' /\ Types'
<1> SUFFICES ASSUME IInv, Storing, Types, InsertName PROVE Storing' /\ Types'
    OBVIOUS
<1>1. /\ IsStack(stack) /\ stack # <<>> /\ IsFrame(Top) /\ Scans(Top)
      /\ Top.at = "insert" /\ DOMAIN child = {} /\ Top.count = 0
      /\ UNCHANGED <<compress, child, waits, phase>>
    BY StoringFacts DEF InsertName, IsFrame
<1>2. source = [p \in DOMAIN source |-> source[p]]
    BY DEF Storing, OnlyOutputsAreNew
<1>3. Cardinality(DOMAIN child) = 0
    BY <1>1 DEF Storing
<1>4. PICK name \in NamesIn(source, Top.dir) \ Top.names :
         LET path == Append(Top.dir, name)
             kind == source[path].kind
             f == [Top EXCEPT !.names = @ \cup {name}]
         IN  \/ /\ kind = "dir"
                /\ stored' = Put(stored, path, Directory)
                /\ stack' = Append(WithTop(f), Scanning(path))
                /\ UNCHANGED source
             \/ /\ kind # "dir" /\ name \in DOMAIN Top.map
                /\ stored' = Put(stored, Append(Top.dir, ItemName(name)),
                                 Stored(path, source[path].of, TRUE))
                /\ source' = AfterInsert(path)
                /\ stack' = WithTop(f)
             \/ /\ kind # "dir" /\ name \notin DOMAIN Top.map
                /\ \/ \E of : stored' = Put(stored, path, Stored(path, of, FALSE))
                   \/ UNCHANGED stored
                /\ UNCHANGED source
                /\ stack' = WithTop(f)
    BY DEF InsertName
<1> DEFINE path == Append(Top.dir, name)
           kind == source[path].kind
           f == [Top EXCEPT !.names = @ \cup {name}]
           g == Scanning(path)
<1>5. f \in [dir : {Top.dir}, at : {"insert"}, names : {Top.names \cup {name}},
             opened : {Top.opened}, map : {Top.map}, count : {0}]
    BY <1>1 DEF IsFrame
<1> HIDE DEF f
<1>6. /\ f.dir = Top.dir /\ f.at = "insert" /\ f.names = Top.names \cup {name}
      /\ f.map = Top.map /\ f.count = 0
    BY <1>5
<1>7. Scans(f)
    BY <1>1, <1>6 DEF Scans
<1>8. /\ path \in DOMAIN source /\ kind \in Kinds
      /\ \A s \in Sources : OnlyOutputsAreNew(s) /\ name \in DOMAIN Top.map
           => path \notin DOMAIN s
      /\ \A pid : path = Append(Top.dir, pid) <=> pid = name
  <2>1. PICK s \in Sources : OnlyOutputsAreNew(s)
      BY DEF Storing
  <2>2. \A t \in Sources : OnlyOutputsAreNew(t) /\ name \in DOMAIN Top.map
          => path \notin DOMAIN t
      BY NameIsOwnOrOutput
  <2>3. QED BY <2>1, <2>2, NameIsOwnOrOutput
<1>9. ASSUME NEW p, IsOutput(p, Top), p # path PROVE IsOutput(p, f)
  <2>1. PICK pid \in DOMAIN Top.map : p = Append(Top.dir, pid) /\ pid \notin Top.names
      BY <1>1, <1>9 DEF IsOutput
  <2>2. pid # name
      BY <1>9, <2>1
  <2> HIDE DEF path
  <2>3. QED BY <1>6, <2>1, <2>2 DEF IsOutput
<1>10. ASSUME NEW q, NEW item, item.kind \in Kinds,
              stored' = Put(stored, q, item) \/ stored' = stored
       PROVE  \A p \in DOMAIN stored' : stored'[p].kind \in Kinds
  <2>1. \A p \in DOMAIN stored : stored[p].kind \in Kinds
      BY DEF Types
  <2>2. CASE stored' = stored
      BY <2>1, <2>2
  <2>3. CASE stored' = Put(stored, q, item)
    <3>1. DOMAIN stored' = DOMAIN stored \cup {q}
          /\ \A p \in DOMAIN stored' : stored'[p] = IF p = q THEN item ELSE stored[p]
        BY <2>3 DEF Put
    <3>2. QED BY <1>10, <2>1, <3>1
  <2>4. QED BY <1>10, <2>2, <2>3
<1>11. Activities'
    BY <1>1, ActivitiesStay DEF Types
<1>12. UINT64 > 0 /\ CountsFit
    BY ChildrenAssumption DEF ChildrenAssumption, Types
<1>13. CASE /\ kind = "dir"
            /\ stored' = Put(stored, path, Directory)
            /\ stack' = Append(WithTop(f), g)
            /\ UNCHANGED source
  <2>1. /\ g.dir = path /\ g.count = 0 /\ g.at \in {"scan", "insert"}
        /\ DOMAIN g.map = {} /\ (compress \/ g.at = "insert")
      BY DEF Scanning
  <2>2. Scans(g)
    <3>1. IsPath(path)
        BY <1>1, JoinAndSplit DEF Scans
    <3> HIDE DEF g
    <3>2. QED BY <2>1, <3>1 DEF Scans
  <2> HIDE DEF g
  <2>3. PICK L \in Nat : L = Len(stack) /\ L > 0
      BY StoringFacts
  <2>4. /\ Len(stack') = L + 1 /\ stack' # <<>> /\ stack'[L] = f /\ stack'[L + 1] = g
        /\ Top' = g /\ Top = stack[L] /\ \A i \in 1 .. L - 1 : stack'[i] = stack[i]
      BY <1>1, <1>13, <2>3, Pushed
  <2>5. PICK s \in Sources : OnlyOutputsAreNew(s)
      BY DEF Storing
  <2>6. OnlyOutputsAreNew(s)'
    <3>1. PICK gone : gone = {} /\ source' = [p \in DOMAIN source \ gone |-> source[p]]
      <4>1. source' = [p \in DOMAIN source \ {} |-> source[p]]
          BY <1>2, <1>13
      <4>2. QED BY <4>1
    <3>2. ASSUME NEW p \in (DOMAIN source \ DOMAIN s) \ gone, NEW i \in 1 .. Len(stack),
                 source[p].kind = "file", IsOutput(p, stack[i])
          PROVE  \E j \in 1 .. Len(stack') : IsOutput(p, stack'[j])
      <4>1. CASE i = L
        <5>1. p # path
            BY <1>13, <3>2
        <5>2. IsOutput(p, f)
            BY <1>9, <2>4, <3>2, <4>1, <5>1
        <5>3. L \in 1 .. Len(stack')
            BY <2>3, <2>4
        <5>4. QED BY <2>4, <5>2, <5>3
      <4>2. CASE i # L
        <5>1. i \in 1 .. L - 1 /\ i \in 1 .. Len(stack')
            BY <2>3, <2>4, <4>2
        <5>2. QED BY <2>4, <3>2, <5>1
      <4>3. QED BY <4>1, <4>2
    <3> HIDE DEF path
    <3>3. gone \cap DOMAIN s = {}
        BY <3>1
    <3>4. QED BY <2>5, <3>1, <3>2, <3>3, OutputsKept
  <2>7. ASSUME NEW i \in 1 .. L + 1
        PROVE  Scans(stack[i])' /\ (i \in 1 .. L => stack'[i].at = "insert")
    <3>1. CASE i = L + 1
        BY <1>1, <2>2, <2>3, <2>4, <3>1 DEF Scans
    <3>2. CASE i = L
        BY <1>1, <1>6, <1>7, <2>4, <3>2 DEF Scans
    <3>3. CASE i # L /\ i # L + 1
      <4>1. i \in 1 .. L - 1 /\ stack'[i] = stack[i]
          BY <2>3, <2>4, <3>3
      <4>2. Scans(stack[i]) /\ stack[i].at = "insert"
          BY <2>3, <4>1 DEF Storing
      <4>3. QED BY <1>1, <4>1, <4>2 DEF Scans
    <3>4. QED BY <3>1, <3>2, <3>3
  <2>8. Storing'
    <3>1. \A i \in 1 .. L : i \in 1 .. L + 1
        BY <2>3
    <3>2. Cardinality(DOMAIN child') = Top'.count /\ DOMAIN child' = {}
        BY <1>1, <1>3, <2>1, <2>4
    <3>3. Len(stack') - 1 = L
        BY <2>3, <2>4
    <3>4. QED BY <2>4, <2>5, <2>6, <2>7, <3>1, <3>2, <3>3 DEF Storing
  <2>9. CountsFit'
      BY <1>1, <1>6, <1>12, <1>13, <2>1, CountsStay
  <2>10. \A p \in DOMAIN stored' : stored'[p].kind \in Kinds
    <3>1. Directory.kind \in Kinds
        BY DEF Directory, Kinds
    <3>2. QED BY <1>10, <1>13, <3>1
  <2>11. QED BY <1>1, <1>11, <2>8, <2>9, <2>10 DEF Types
<1>14. ASSUME stack' = WithTop(f), NEW gone,
              \A s \in Sources : OnlyOutputsAreNew(s) => gone \cap DOMAIN s = {},
              source' = [p \in DOMAIN source \ gone |-> source[p]],
              name \in DOMAIN Top.map => path \in gone
       PROVE  Storing' /\ CountsFit'
  <2>1. ASSUME NEW p \in DOMAIN source \ gone, IsOutput(p, Top)
        PROVE  IsOutput(p, f)
    <3>1. PICK pid \in DOMAIN Top.map : p = Append(Top.dir, pid) /\ pid \notin Top.names
        BY <1>1, <2>1 DEF IsOutput
    <3>2. pid # name
        BY <1>14, <2>1, <3>1
    <3>3. QED BY <1>6, <3>1, <3>2 DEF IsOutput
  <2>2. Cardinality(DOMAIN child') = f.count /\ DOMAIN child' = {}
      BY <1>1, <1>3, <1>6
  <2> HIDE DEF path
  <2>3. Storing'
      BY <1>1, <1>7, <1>14, <2>1, <2>2, StoringFrame
  <2>4. CountsFit'
      BY <1>1, <1>6, <1>12, <1>14, CountsStay
  <2>5. QED BY <2>3, <2>4
<1>15. CASE /\ kind # "dir" /\ name \in DOMAIN Top.map
            /\ stored' = Put(stored, Append(Top.dir, ItemName(name)),
                             Stored(path, source[path].of, TRUE))
            /\ source' = AfterInsert(path)
            /\ stack' = WithTop(f)
  <2>1. source' = [p \in DOMAIN source \ {path} |-> source[p]]
      BY <1>15 DEF AfterInsert, Unlink
  <2>2. \A s \in Sources : OnlyOutputsAreNew(s) => {path} \cap DOMAIN s = {}
      BY <1>8, <1>15
  <2>3. Storing' /\ CountsFit'
      BY <1>14, <1>15, <2>1, <2>2
  <2>4. \A p \in DOMAIN stored' : stored'[p].kind \in Kinds
    <3>1. PICK item : item = Stored(path, source[path].of, TRUE)
        OBVIOUS
    <3>2. item.kind \in Kinds
        BY <1>8, <3>1 DEF Stored
    <3>3. QED BY <1>10, <1>15, <3>1, <3>2
  <2>5. QED BY <1>1, <1>11, <2>3, <2>4 DEF Types
<1>16. CASE /\ kind # "dir" /\ name \notin DOMAIN Top.map
            /\ \/ \E of : stored' = Put(stored, path, Stored(path, of, FALSE))
               \/ UNCHANGED stored
            /\ UNCHANGED source
            /\ stack' = WithTop(f)
  <2>1. PICK gone : gone = {} /\ source' = [p \in DOMAIN source \ gone |-> source[p]]
    <3>1. source' = [p \in DOMAIN source \ {} |-> source[p]]
        BY <1>2, <1>16
    <3>2. QED BY <3>1
  <2>2. \A s \in Sources : gone \cap DOMAIN s = {}
      BY <2>1
  <2>3. Storing' /\ CountsFit'
    <3> HIDE DEF path, kind
    <3>1. QED BY <1>14, <1>16, <2>1, <2>2
  <2>4. \A p \in DOMAIN stored' : stored'[p].kind \in Kinds
    <3>1. PICK of, item :
            /\ item = Stored(path, of, FALSE)
            /\ stored' = Put(stored, path, item) \/ stored' = stored
        BY <1>16
    <3>2. item.kind \in Kinds
        BY <1>8, <3>1 DEF Stored
    <3>3. QED BY <1>10, <3>1, <3>2
  <2>5. QED BY <1>1, <1>11, <2>3, <2>4 DEF Types
<1>17. QED BY <1>4, <1>13, <1>15, <1>16 DEF f
(* The second reading ends: all outputs have come across and were unlinked. *)
LEMMA LeaveStores ==
    IInv /\ Storing /\ Types /\ LeaveInserted =>
        /\ phase' = "store" => Storing'
        /\ phase' = "choose" => Between'
        /\ Types'
<1> SUFFICES ASSUME IInv, Storing, Types, LeaveInserted
             PROVE  /\ phase' = "store" => Storing'
                    /\ phase' = "choose" => Between'
                    /\ Types'
    OBVIOUS
<1>1. /\ IsStack(stack) /\ stack # <<>> /\ Scans(Top) /\ Top.at = "insert"
      /\ DOMAIN child = {} /\ stack' = Front(stack)
      /\ NamesIn(source, Top.dir) \subseteq Top.names
      /\ UNCHANGED <<compress, source, stored, child, waits>>
    BY StoringFacts DEF LeaveInserted
<1>2. PICK L \in Nat : L = Len(stack) /\ L > 0
    BY StoringFacts
<1>3. /\ Len(stack') = L - 1 /\ Top = stack[L]
      /\ \A i \in 1 .. L - 1 : stack'[i] = stack[i]
      /\ L > 1 => stack' # <<>> /\ Top' = stack[L - 1]
      /\ L = 1 => stack' = <<>>
    BY <1>1, <1>2, Popped
<1>4. phase' = IF L = 1 THEN "choose" ELSE "store"
    BY <1>2 DEF LeaveInserted
<1>5. ASSUME NEW p \in DOMAIN source PROVE ~IsOutput(p, Top)
  <2>1. SUFFICES ASSUME NEW pid, p = Append(Top.dir, pid), pid \notin Top.names PROVE FALSE
      BY <1>1 DEF IsOutput
  <2>2. pid \in NamesIn(source, Top.dir)
      BY <1>1, <2>1, PathsAreNamed DEF Scans
  <2>3. QED BY <1>1, <2>1, <2>2
<1>6. PICK s \in Sources : OnlyOutputsAreNew(s)
    BY DEF Storing
<1>7. OnlyOutputsAreNew(s)'
  <2>1. PICK gone : gone = {} /\ source' = [p \in DOMAIN source \ gone |-> source[p]]
    <3>1. source' = [p \in DOMAIN source |-> source[p]]
        BY <1>1, <1>6 DEF OnlyOutputsAreNew
    <3>2. source' = [p \in DOMAIN source \ {} |-> source[p]]
        BY <3>1
    <3>3. QED BY <3>2
  <2>2. ASSUME NEW p \in (DOMAIN source \ DOMAIN s) \ gone, NEW i \in 1 .. Len(stack),
               source[p].kind = "file", IsOutput(p, stack[i])
        PROVE  \E j \in 1 .. Len(stack') : IsOutput(p, stack'[j])
    <3>1. i # L
        BY <1>3, <1>5, <2>2
    <3>2. i \in 1 .. L - 1
        BY <1>2, <3>1
    <3>3. QED BY <1>3, <2>2, <3>2
  <2>3. gone \cap DOMAIN s = {}
      BY <2>1
  <2>4. QED BY <1>6, <2>1, <2>2, <2>3, OutputsKept
<1>8. ASSUME L > 1 PROVE Storing'
  <2>1. ASSUME NEW i \in 1 .. L - 1 PROVE Scans(stack[i])' /\ stack'[i].at = "insert"
    <3>1. Scans(stack[i]) /\ stack[i].at = "insert"
        BY <1>2 DEF Storing
    <3>2. QED BY <1>1, <1>3, <3>1 DEF Scans
  <2>2. Cardinality(DOMAIN child') = Top'.count
    <3>1. L - 1 \in 1 .. L - 1 /\ L - 1 \in 1 .. Len(stack)
        BY <1>2, <1>8
    <3>2. IsFrame(stack[L - 1]) /\ stack[L - 1].at = "insert"
        BY <1>1, <1>2, <3>1 DEF IsStack, Storing
    <3>3. stack[L - 1].count = 0
        BY <3>2 DEF IsFrame
    <3>4. QED BY <1>1, <1>3, <1>8, <3>3, FS_EmptySet
  <2>3. \A i \in 1 .. L - 1 - 1 : i \in 1 .. L - 1
      BY <1>2
  <2>4. QED BY <1>1, <1>3, <1>6, <1>7, <1>8, <2>1, <2>2, <2>3 DEF Storing
<1>9. ASSUME L = 1 PROVE Between'
  <2>1. DOMAIN source' \subseteq DOMAIN s
    <3>1. Len(stack') = 0
        BY <1>3, <1>9
    <3>2. \A p \in DOMAIN source' \ DOMAIN s : \E i \in 1 .. Len(stack') : IsOutput(p, stack'[i])
        BY <1>7 DEF OnlyOutputsAreNew
    <3>3. QED BY <3>1, <3>2
  <2>2. /\ DOMAIN s \subseteq DOMAIN source'
        /\ source' = [p \in DOMAIN source' |-> source'[p]]
        /\ \A p \in DOMAIN s : source'[p] = Tree(s)[p]
      BY <1>7 DEF OnlyOutputsAreNew, Tree
  <2>3. Tree(s) = [p \in DOMAIN s |-> Tree(s)[p]]
      BY DEF Tree
  <2>4. source' = Tree(s)
      BY <2>1, <2>2, <2>3
  <2>5. QED BY <1>1, <1>3, <1>6, <1>9, <2>4 DEF Between, Tree
<1>10. Types'
  <2>1. CountsFit' /\ Activities'
      BY <1>1, CountsStay, ActivitiesStay DEF Types
  <2>2. phase' \in {"store", "choose"}
      BY <1>4
  <2>3. QED BY <1>1, <2>1, <2>2 DEF Types
<1>11. QED BY <1>2, <1>4, <1>8, <1>9, <1>10

(* The parent waits for the children of the innermost frame, one by one. *)
LEMMA WaitStores ==
    IInv /\ Storing /\ Types /\ phase = "store" /\ (WaitInDirectory \/ EndWait) => Storing'
<1> SUFFICES ASSUME IInv, Storing, Types, phase = "store", WaitInDirectory \/ EndWait
             PROVE  Storing'
    OBVIOUS
<1>1. /\ IsStack(stack) /\ ChildrenAreForked /\ stack # <<>> /\ IsFrame(Top) /\ Scans(Top)
      /\ Top.at = "wait" /\ Top.count \in Nat
      /\ UNCHANGED <<compress, source>>
    BY StoringFacts DEF WaitInDirectory, EndWait
<1>2. PICK gone : /\ source' = [p \in DOMAIN source \ gone |-> source[p]]
                  /\ \A s \in Sources : gone \cap DOMAIN s = {}
  <2>1. source = [p \in DOMAIN source |-> source[p]]
      BY DEF Storing, OnlyOutputsAreNew
  <2>2. source' = [p \in DOMAIN source \ {} |-> source[p]]
      BY <1>1, <2>1
  <2>3. \A s \in Sources : {} \cap DOMAIN s = {}
      OBVIOUS
  <2>4. QED BY <2>2, <2>3
<1>3. Cardinality(DOMAIN child) = Top.count /\ \A pid \in DOMAIN child : GzipsInTop(pid)
    BY DEF Storing
<1>4. CASE WaitInDirectory
  <2> DEFINE f == [Top EXCEPT !.count = @ - 1]
  <2>1. stack' = WithTop(f) /\ Top.count > 0 /\ WaitReturns /\ forks' = forks
      BY <1>4 DEF WaitInDirectory
  <2>2. f.dir = Top.dir /\ f.at = "wait" /\ f.map = Top.map /\ f.count = Top.count - 1
      BY <1>1 DEF IsFrame
  <2> HIDE DEF f
  <2>3. Cardinality(DOMAIN child') = f.count
      BY <1>1, <1>3, <2>1, <2>2, Waiting
  <2>4. DOMAIN child' \subseteq DOMAIN child /\ \A pid \in DOMAIN child' : child'[pid] = child[pid]
      BY <2>1 DEF WaitReturns, Reap, Unlink
  <2>5. \A pid \in DOMAIN child' :
          child'[pid].do = "gzip" /\ child'[pid].dir = f.dir /\ pid \in DOMAIN f.map
      BY <1>3, <2>2, <2>4 DEF GzipsInTop
  <2>6. Scans(f) /\ \A p : IsOutput(p, Top) => IsOutput(p, f)
      BY <1>1, <2>2 DEF Scans, IsOutput
  <2>7. QED BY <1>1, <1>2, <2>1, <2>3, <2>5, <2>6, StoringFrame
<1>5. CASE EndWait
  <2> DEFINE f == [Top EXCEPT !.at = "insert", !.names = {}]
  <2>1. stack' = WithTop(f) /\ Top.count = 0 /\ child' = child
      BY <1>5 DEF EndWait
  <2>2. /\ f.dir = Top.dir /\ f.at = "insert" /\ f.map = Top.map /\ f.count = 0
        /\ f.names = {}
      BY <1>1, <2>1 DEF IsFrame
  <2> HIDE DEF f
  <2>3. Cardinality(DOMAIN child') = f.count
      BY <1>3, <2>1, <2>2
  <2>4. \A pid \in DOMAIN child' :
          child'[pid].do = "gzip" /\ child'[pid].dir = f.dir /\ pid \in DOMAIN f.map
      BY <1>3, <2>1, <2>2 DEF GzipsInTop
  <2>5. Scans(f) /\ \A p : IsOutput(p, Top) => IsOutput(p, f)
      BY <1>1, <2>2 DEF Scans, IsOutput
  <2>6. QED BY <1>1, <1>2, <2>1, <2>3, <2>4, <2>5, StoringFrame
<1>6. QED BY <1>4, <1>5
(* What the children write is in the table of the innermost frame, which waits for them
   before it reads the directory again. *)
LEMMA ChildStores ==
    IInv /\ Storing /\ Types /\ ChildStep => Storing'
<1> SUFFICES ASSUME IInv, Storing, Types, ChildStep PROVE Storing'
    OBVIOUS
<1>1. PICK pid \in DOMAIN child :
        OpenOutput(pid) \/ Gzip(pid) \/ Gunzip(pid) \/ RemoveZipped(pid)
    BY DEF ChildStep
<1>2. /\ GzipsInTop(pid) /\ Top.at # "insert" /\ Scans(Top) /\ stack # <<>>
      /\ Len(stack) \in Nat \ {0} /\ Top = stack[Len(stack)]
    BY StoringFacts DEF Storing
<1>3. OpenOutput(pid) \/ Gzip(pid)
    BY <1>1, <1>2 DEF GzipsInTop, Gunzip, RemoveZipped
<1>4. UNCHANGED <<compress, stack>>
    BY <1>3 DEF OpenOutput, Gzip, ChildUnchanged
<1>5. PICK at \in {"start", "open", "zombie"} : Goes(pid, at)
    BY <1>3 DEF OpenOutput, Gzip
<1>6. DOMAIN child' = DOMAIN child
      /\ \A p \in DOMAIN child : child'[p].do = child[p].do /\ child'[p].dir = child[p].dir
  <2>1. child' = [p \in DOMAIN child |->
                    IF p = pid THEN [child[pid] EXCEPT !.at = at] ELSE child[p]]
      BY <1>5 DEF Goes, Types, Activities
  <2>2. /\ [child[pid] EXCEPT !.at = at].do = child[pid].do
        /\ [child[pid] EXCEPT !.at = at].dir = child[pid].dir
      BY DEF Types, Activities
  <2>3. QED BY <2>1, <2>2
<1>7. PICK item : /\ item.kind = "file"
                  /\ source' = Put(source, Output(pid), item) \/ source' = source
    BY <1>3 DEF OpenOutput, Gzip, Empty, File
<1>8. PICK s \in Sources : OnlyOutputsAreNew(s)
    BY DEF Storing
<1>9. /\ Output(pid) = Append(Top.dir, pid) /\ Output(pid) \notin DOMAIN s
      /\ IsOutput(Output(pid), Top)
  <2>1. Output(pid) = Append(Top.dir, pid) /\ pid \in DOMAIN Top.map
      BY <1>2 DEF Output, GzipsInTop
  <2>2. Output(pid) # <<>> /\ Last(Output(pid)) = pid
      BY <1>2, <2>1, JoinAndSplit DEF Scans
  <2>3. PICK i \in DOMAIN Pids : pid = Pids[i]
      BY <1>2, <2>1 DEF Scans, Range
  <2>4. Output(pid) \notin DOMAIN s
      BY <2>2, <2>3, ChildrenAssumption DEF ChildrenAssumption
  <2>5. QED BY <1>2, <2>1, <2>4 DEF IsOutput
<1>10. OnlyOutputsAreNew(s)'
  <2>1. CASE source' = source
      BY <1>4, <1>8, <2>1 DEF OnlyOutputsAreNew, Tree
  <2>2. CASE source' = Put(source, Output(pid), item)
    <3>1. PICK o : o = Output(pid)
        OBVIOUS
    <3>2. source' = [p \in DOMAIN source \cup {o} |-> IF p = o THEN item ELSE source[p]]
        BY <2>2, <3>1 DEF Put
    <3>3. DOMAIN s \subseteq DOMAIN source' /\ source' = [p \in DOMAIN source' |-> source'[p]]
        BY <1>8, <3>2 DEF OnlyOutputsAreNew
    <3>4. ASSUME NEW p \in DOMAIN s PROVE source'[p] = Tree(s)[p]
      <4>1. p \in DOMAIN source /\ source[p] = Tree(s)[p] /\ p # o
          BY <1>8, <1>9, <3>1 DEF OnlyOutputsAreNew
      <4>2. QED BY <3>2, <4>1
    <3>5. ASSUME NEW p \in DOMAIN source' \ DOMAIN s
          PROVE  source'[p].kind = "file" /\ \E i \in 1 .. Len(stack') : IsOutput(p, stack'[i])
      <4>1. CASE p = o
        <5>1. source'[p].kind = "file"
            BY <1>7, <3>2, <4>1
        <5>2. Len(stack) \in 1 .. Len(stack') /\ IsOutput(p, stack'[Len(stack)])
            BY <1>2, <1>4, <1>9, <3>1, <4>1
        <5>3. QED BY <5>1, <5>2
      <4>2. CASE p # o
        <5>1. p \in DOMAIN source \ DOMAIN s /\ source'[p] = source[p]
            BY <3>2, <4>2
        <5>2. source[p].kind = "file" /\ \E i \in 1 .. Len(stack) : IsOutput(p, stack[i])
            BY <1>8, <5>1 DEF OnlyOutputsAreNew
        <5>3. QED BY <1>4, <5>1, <5>2
      <4>3. QED BY <4>1, <4>2
    <3>6. QED BY <3>3, <3>4, <3>5 DEF OnlyOutputsAreNew, Tree
  <2>3. QED BY <1>7, <2>1, <2>2
<1>11. \A p \in DOMAIN child' : GzipsInTop(p)'
    BY <1>4, <1>6 DEF Storing, GzipsInTop, Top
<1>12. /\ Top' = Top /\ stack' # <<>>
       /\ \A i \in 1 .. Len(stack') : Scans(stack[i])'
       /\ \A i \in 1 .. Len(stack') - 1 : stack'[i].at = "insert"
       /\ Cardinality(DOMAIN child') = Top'.count
    BY <1>2, <1>4, <1>6 DEF Storing, Scans, Top
<1>13. QED BY <1>8, <1>10, <1>11, <1>12 DEF Storing

(* The types after the steps of the extraction, of a wait, and of a child. *)
LEMMA ChildTypes == Types /\ ChildStep => Types'
<1> SUFFICES ASSUME Types, ChildStep PROVE Types'
    OBVIOUS
<1>1. PICK pid \in DOMAIN child :
        OpenOutput(pid) \/ Gzip(pid) \/ Gunzip(pid) \/ RemoveZipped(pid)
    BY DEF ChildStep
<1>2. \E at \in {"start", "open", "zombie"} : Goes(pid, at)
    BY <1>1 DEF OpenOutput, Gzip, Gunzip, RemoveZipped
<1>3. Activities'
    BY <1>2, ActivitiesStay DEF Types
<1>4. UNCHANGED <<compress, phase, waits, stored, stack>>
    BY <1>1 DEF OpenOutput, Gzip, Gunzip, RemoveZipped, ChildUnchanged
<1>5. QED BY <1>3, <1>4 DEF Types, CountsFit

LEMMA WaitTypes == IInv /\ Types /\ (WaitInDirectory \/ EndWait \/ WaitAtEnd) => Types'
<1> SUFFICES ASSUME IInv, Types, WaitInDirectory \/ EndWait \/ WaitAtEnd PROVE Types'
    OBVIOUS
<1>1. UNCHANGED <<compress, phase, stored>> /\ waits' \in Int
    BY DEF Types, WaitInDirectory, EndWait, WaitAtEnd
<1>2. Activities'
    BY ActivitiesStay DEF Types, WaitInDirectory, EndWait, WaitAtEnd
<1>3. CASE WaitAtEnd
  <2>1. stack' = stack
      BY <1>3 DEF WaitAtEnd
  <2>2. QED BY <1>1, <1>2, <2>1 DEF Types, CountsFit
<1>4. CASE WaitInDirectory \/ EndWait
  <2>1. IsStack(stack) /\ stack # <<>> /\ IsFrame(Top) /\ CountsFit
      BY <1>4, TopFrame DEF IInv, WaitInDirectory, EndWait, Types
  <2>2. Top.count \in Nat /\ Top.count < UINT64
      BY <2>1, CountsStay DEF IsFrame
  <2>3. UINT64 \in Nat
      BY ChildrenAssumption DEF ChildrenAssumption
  <2>4. CASE WaitInDirectory
    <3> DEFINE f == [Top EXCEPT !.count = @ - 1]
    <3>1. f.count = Top.count - 1
        BY <2>1 DEF IsFrame
    <3>2. stack' = WithTop(f)
        BY <2>4 DEF WaitInDirectory
    <3> HIDE DEF f
    <3>3. f.count < UINT64
        BY <2>2, <2>3, <3>1
    <3>4. QED BY <1>1, <1>2, <2>1, <3>2, <3>3, CountsStay DEF Types
  <2>5. CASE EndWait
    <3> DEFINE f == [Top EXCEPT !.at = "insert", !.names = {}]
    <3>1. f.count = Top.count
        BY <2>1 DEF IsFrame
    <3>2. stack' = WithTop(f) \/ stack' = Front(stack)
        BY <2>5 DEF EndWait
    <3> HIDE DEF f
    <3>3. QED BY <1>1, <1>2, <2>1, <2>2, <3>1, <3>2, CountsStay DEF Types
  <2>6. QED BY <1>4, <2>4, <2>5
<1>5. QED BY <1>3, <1>4

LEMMA ExtractTypes ==
    IInv /\ Types /\ (ExtractName \/ EndNames \/ ExtractPath \/ Exit) => Types'
<1> SUFFICES ASSUME IInv, Types, ExtractName \/ EndNames \/ ExtractPath \/ Exit PROVE Types'
    OBVIOUS
<1>1. CountsFit /\ Activities /\ waits \in Int /\ IsStack(stack)
    BY DEF Types, IInv
<1>2. UNCHANGED <<compress, stored>> /\ (phase' = phase \/ phase' = "exit")
    BY DEF ExtractName, EndNames, ExtractPath, Exit
<1>3. ASSUME NEW path, NEW tree, NEW n, ExtractItem(path, tree, n)
      PROVE  Activities' /\ n \in 0 .. 1
    BY <1>1, <1>3, ItemForks, ActivitiesStay DEF NoFork
<1>5. \A n \in Int : IsFrame(Top) => Plus(Top.count, n) < UINT64
    BY ChildrenAssumption DEF ChildrenAssumption, Plus, IsFrame
<1>6. CASE ExtractName
  <2> DEFINE path(name) == Append(Top.dir, name)
             f(name, n) == [Top EXCEPT !.names = @ \ {name}, !.count = Plus(@, n)]
  <2>1. PICK name, n :
          \/ /\ stack' = Append(WithTop(f(name, 0)), Extracting(path(name))) /\ NoFork
          \/ /\ stack' = WithTop(f(name, -1)) /\ NoFork
          \/ /\ stack' = WithTop(f(name, n)) /\ ExtractItem(path(name), out, n)
      BY <1>6 DEF ExtractName
  <2>2. stack # <<>> /\ IsFrame(Top) /\ waits' = waits
      BY <1>1, <1>6, TopFrame DEF ExtractName
  <2>3. ASSUME NEW k \in Int PROVE f(name, k).count < UINT64
    <3>1. f(name, k).count = Plus(Top.count, k)
        BY <2>2 DEF IsFrame
    <3>2. QED BY <1>5, <2>2, <3>1
  <2>4. Extracting(path(name)).count = 0
      BY DEF Extracting
  <2> HIDE DEF f, path
  <2>5. Activities'
      BY <1>1, <1>3, <2>1, ActivitiesStay DEF NoFork
  <2>6. CountsFit'
    <3>1. f(name, 0).count < UINT64 /\ f(name, -1).count < UINT64
        BY <2>3
    <3>2. ExtractItem(path(name), out, n) => f(name, n).count < UINT64
        BY <1>3, <2>3
    <3>3. QED BY <1>1, <2>1, <2>2, <2>4, <3>1, <3>2, CountsStay
  <2>7. QED BY <1>2, <2>2, <2>5, <2>6 DEF Types
<1>7. CASE EndNames
  <2> DEFINE f == [Top EXCEPT !.at = "wait"]
  <2>1. /\ stack # <<>> /\ stack' = WithTop(f) /\ IsFrame(Top)
        /\ UNCHANGED <<child, waits>>
      BY <1>1, <1>7, TopFrame DEF EndNames
  <2>2. f.count = Top.count
      BY <2>1 DEF IsFrame
  <2> HIDE DEF f
  <2>3. CountsFit' /\ Activities'
      BY <1>1, <2>1, <2>2, CountsStay, ActivitiesStay
  <2>4. QED BY <1>2, <2>1, <2>3 DEF Types
<1>8. CASE ExtractPath
  <2> DEFINE path == Head(todo)
  <2>1. /\ waits' \in Int
        /\ UNCHANGED child \/ \E tree, n : ExtractItem(path, tree, n)
        /\ stack' = stack \/ stack' = <<Extracting(path)>>
      BY <1>1, <1>3, <1>8 DEF ExtractPath, NoFork
  <2>2. Activities'
      BY <1>1, <1>3, <2>1, ActivitiesStay
  <2>3. CountsFit'
    <3>1. CASE stack' = stack
        BY <1>1, <3>1 DEF CountsFit
    <3>2. CASE stack' = <<Extracting(path)>>
      <4>1. Extracting(path).count = 0 /\ UINT64 > 0
          BY ChildrenAssumption DEF ChildrenAssumption, Extracting
      <4>2. Len(stack') = 1 /\ stack'[1] = Extracting(path)
          BY <3>2
      <4>3. QED BY <4>1, <4>2 DEF CountsFit
    <3>3. QED BY <2>1, <3>1, <3>2
  <2>4. QED BY <1>2, <2>1, <2>2, <2>3 DEF Types
<1>9. CASE Exit
    BY <1>2, <1>9 DEF Exit, Types, CountsFit, Activities
<1>10. QED BY <1>6, <1>7, <1>8, <1>9
-------------------------------------------------------------------------------
LEMMA InitStores == Init => StoreInv
<1> SUFFICES ASSUME Init PROVE StoreInv
    OBVIOUS
<1> USE DEF Init
<1>1. /\ Scanning(<<>>).dir = <<>> /\ Scanning(<<>>).count = 0
      /\ Scanning(<<>>).at = IF compress THEN "scan" ELSE "insert"
      /\ DOMAIN Scanning(<<>>).map = {}
    BY DEF Scanning
<1>2. Len(stack) = 1 /\ stack[1] = Scanning(<<>>) /\ stack # <<>> /\ Top = Scanning(<<>>)
    BY DEF Top, Last
<1>3. \A i \in 1 .. Len(stack) : i = 1
    BY <1>2
<1>4. DOMAIN child = {} /\ Cardinality(DOMAIN child) = 0
    BY FS_EmptySet
<1>5. Types
  <2>1. CountsFit
      BY <1>1, <1>2, <1>3, ChildrenAssumption DEF ChildrenAssumption, CountsFit
  <2>2. \A p \in DOMAIN stored : stored[p].kind \in Kinds
      BY DEF Directory, Kinds
  <2>3. Activities
      BY <1>4 DEF Activities
  <2>4. QED BY <2>1, <2>2, <2>3 DEF Types
<1>6. Storing
  <2>1. PICK s \in Sources : source = Tree(s)
      OBVIOUS
  <2>2. OnlyOutputsAreNew(s)
      BY <2>1 DEF OnlyOutputsAreNew, Tree
  <2>3. IsPath(<<>>)
      BY DEF IsPath, Range
  <2>4. \A i \in 1 .. Len(stack) : Scans(stack[i])
      BY <1>1, <1>2, <1>3, <2>3 DEF Scans
  <2>5. 1 .. Len(stack) - 1 = {}
      BY <1>2
  <2>6. QED BY <1>1, <1>2, <1>4, <2>2, <2>4, <2>5 DEF Storing
<1>7. QED BY <1>5, <1>6 DEF StoreInv

LEMMA NextStores == IInv /\ StoreInv /\ [Next]_vars => StoreInv'
<1> SUFFICES ASSUME IInv, StoreInv, [Next]_vars PROVE StoreInv'
    OBVIOUS
<1>1. Types /\ (phase = "store" => Storing) /\ (phase = "choose" => Between)
    BY DEF StoreInv
<1>2. CASE ScanDirectory \/ EndScan
  <2>1. phase = "store" /\ phase' = "store"
      BY <1>2 DEF ScanDirectory, EndScan
  <2>2. QED BY <1>1, <1>2, <2>1, ScanStores DEF StoreInv
<1>3. CASE InsertName
  <2>1. phase = "store" /\ phase' = "store"
      BY <1>3 DEF InsertName
  <2>2. QED BY <1>1, <1>3, <2>1, InsertStores DEF StoreInv
<1>4. CASE LeaveInserted
  <2>1. phase = "store"
      BY <1>4 DEF LeaveInserted
  <2>2. QED BY <1>1, <1>4, <2>1, LeaveStores DEF StoreInv
<1>5. CASE ExtractName \/ EndNames \/ ExtractPath \/ Exit
  <2>1. phase' \in {"extract", "exit"}
      BY <1>5 DEF ExtractName, EndNames, ExtractPath, Exit
  <2>2. QED BY <1>1, <1>5, <2>1, ExtractTypes DEF StoreInv
<1>6. CASE WaitInDirectory \/ EndWait \/ WaitAtEnd
  <2>1. Types' /\ phase' = phase
      BY <1>1, <1>6, WaitTypes DEF WaitInDirectory, EndWait, WaitAtEnd
  <2>2. ASSUME phase' = "store" PROVE Storing'
    <3>1. phase = "store" /\ ~WaitAtEnd
        BY <2>1, <2>2 DEF WaitAtEnd
    <3>2. QED BY <1>1, <1>6, <3>1, WaitStores
  <2>3. phase # "choose"
    <3>1. WaitAtEnd => phase = "extract"
        BY DEF WaitAtEnd
    <3>2. WaitInDirectory \/ EndWait => stack # <<>>
        BY DEF WaitInDirectory, EndWait
    <3>3. QED BY <1>1, <1>6, <3>1, <3>2 DEF Between
  <2>4. QED BY <2>1, <2>2, <2>3 DEF StoreInv
<1>7. CASE ChildStep
  <2>1. Types' /\ phase' = phase
      BY <1>1, <1>7, ChildTypes DEF ChildStep, OpenOutput, Gzip, Gunzip, RemoveZipped, ChildUnchanged
  <2>2. phase # "choose"
      BY <1>1, <1>7 DEF ChildStep, Between
  <2>3. QED BY <1>1, <1>7, <2>1, <2>2, ChildStores DEF StoreInv
<1>8. CASE \E request \in Requests, kinds \in InTheWay : Choose(request, kinds)
  <2>1. phase' = "extract" /\ UNCHANGED <<compress, waits, stored, stack, child>>
      BY <1>8 DEF Choose
  <2>2. QED BY <1>1, <2>1 DEF StoreInv, Types, CountsFit, Activities
<1>9. CASE UNCHANGED vars
  <2>1. Types'
      BY <1>1, <1>9 DEF vars, Types, CountsFit, Activities
  <2>2. Storing => Storing'
    <3>1. \A s : OnlyOutputsAreNew(s) => OnlyOutputsAreNew(s)'
        BY <1>9 DEF vars, OnlyOutputsAreNew, Tree
    <3>2. \A i : Scans(stack[i]) => Scans(stack[i])'
        BY <1>9 DEF vars, Scans
    <3>3. \A pid : GzipsInTop(pid) => GzipsInTop(pid)'
        BY <1>9 DEF vars, GzipsInTop, Top
    <3>4. UNCHANGED <<stack, child, Top>>
        BY <1>9 DEF vars, Top
    <3>5. QED BY <3>1, <3>2, <3>3, <3>4 DEF Storing
  <2>3. Between => Between'
      BY <1>9 DEF vars, Between, Tree
  <2>4. QED BY <1>1, <1>9, <2>1, <2>2, <2>3 DEF StoreInv, vars
<1>10. QED BY <1>2, <1>3, <1>4, <1>5, <1>6, <1>7, <1>8, <1>9 DEF Next, ParentStep

LEMMA StoreInvariance == Spec => [](IInv /\ StoreInv)
<1>1. QED BY InitInv, NextInv, InitStores, NextStores, PTL DEF Spec

(* Types: in particular, the unsigned count of a directory is never negative and never
   reaches 2^64, also where a directory that could not be created was counted as -1. *)
THEOREM TypeCorrectness == Spec => []TypeOK
<1>1. IInv /\ StoreInv => TypeOK
  <2> SUFFICES ASSUME IInv, StoreInv PROVE TypeOK
      OBVIOUS
  <2>1. \A i \in 1 .. Len(stack) : stack[i].count \in 0 .. UINT64 - 1
    <3>1. \A i \in 1 .. Len(stack) : stack[i].count \in Nat /\ stack[i].count < UINT64
        BY DEF IInv, IsStack, IsFrame, StoreInv, Types, CountsFit
    <3>2. UINT64 \in Nat
        BY ChildrenAssumption DEF ChildrenAssumption
    <3>3. QED BY <3>1, <3>2
  <2>2. DOMAIN stack = 1 .. Len(stack)
      BY DEF IInv, IsStack
  <2>3. \A pid \in DOMAIN child : child[pid].at \in {"start", "open", "zombie"}
      BY DEF StoreInv, Types, Activities
  <2>4. DOMAIN child \subseteq {Pids[i] : i \in 1 .. forks}
      BY DEF IInv, ChildrenAreForked
  <2>5. QED BY <2>1, <2>2, <2>3, <2>4 DEF TypeOK, StoreInv, Types
<1>2. QED BY <1>1, StoreInvariance, PTL

(* Whatever directory is stored, in whatever order readdir returns the names, with or
   without the outputs that appear meanwhile, and whichever children fail: once it is
   stored it is as it was, no output is left in it and no file of its own was removed
   (CIBCompressDir, CIBInsertDirectory). *)
THEOREM OutputsAreTemporary == Spec => []SourceIsLeftAsItWas
<1>1. StoreInv => SourceIsLeftAsItWas
    BY DEF StoreInv, Between, SourceIsLeftAsItWas
<1>2. QED BY <1>1, StoreInvariance, PTL
-------------------------------------------------------------------------------
(***************************************************************************)
(* What is archived and what is extracted.  The directory's own paths are  *)
(* those that do not end in the number of a child.                         *)
(***************************************************************************)
Own == {p \in DOMAIN source : p # <<>> => Last(p) \notin Range(Pids)}
OwnKind(p) == source[p].kind

(* An item of the archive is right. *)
IsRight(p) ==
    CASE OwnKind(p) = "dir" -> stored[p] = Directory
      [] OwnKind(p) # "dir" /\ (OwnKind(p) = "link" \/ ~compress) ->
            \/ stored[p] = [kind |-> OwnKind(p), of |-> p, zip |-> 0, zipped |-> FALSE]
            \/ /\ OwnKind(p) = "link"
               /\ stored[p] = [kind |-> "link", of |-> Overrun, zip |-> 0, zipped |-> FALSE]
      [] OTHER ->
            \/ stored[p] = [kind |-> "file", of |-> p, zip |-> 1, zipped |-> TRUE]
            \/ p \in failed
               /\ stored[p] = [kind |-> "file", of |-> Nothing, zip |-> 0, zipped |-> TRUE]

(* The path has still to come across, in the innermost directories or below them;
   a file that is compressed comes as the output of a child. *)
ComesAs(p, f, n) ==
    /\ n \notin f.names
    /\ IsPrefix(Append(f.dir, n), p)
    /\ p = Append(f.dir, n) => ~(compress /\ OwnKind(p) = "file")

ComesZipped(p, f, pid) ==
    /\ pid \in DOMAIN f.map /\ pid \notin f.names
    /\ Append(f.dir, f.map[pid]) = p
    /\ Append(f.dir, pid) \in DOMAIN source

PendingIn(p, f) ==
    \/ f.at # "insert" /\ IsStrictPrefix(f.dir, p)
    \/ f.at = "insert" /\ \E n : ComesAs(p, f, n) \/ ComesZipped(p, f, n)

Pending(p) == \E i \in 1 .. Len(stack) : PendingIn(p, stack[i])

StoredIsRight ==
    /\ stored = [p \in DOMAIN stored |-> stored[p]]
    /\ DOMAIN stored \subseteq Own
    /\ \A p \in DOMAIN stored : IsRight(p)
    /\ \A p \in failed : p \in Own /\ OwnKind(p) = "file"

ArchiveIsRight ==
    /\ StoredIsRight
    /\ \A p \in Own : p \in DOMAIN stored \/ p \in failed \/ (phase = "store" /\ Pending(p))

(* The work of a child that was started for a file, until its output is inserted. *)
Running(q, p, pid) ==
    /\ pid \in DOMAIN child /\ child[pid].path = p
    /\ child[pid].at \in {"start", "open"}
    /\ child[pid].at = "open" => q \in DOMAIN source

WorkOf(q, p, f, pid) ==
    /\ q \in DOMAIN source => source[q] \in {Empty, File(p, 1)}
    /\ \/ f.at # "insert" /\ Running(q, p, pid)
       \/ p \in failed
       \/ q \in DOMAIN source /\ source[q] = File(p, 1)
       \/ f.at = "insert" /\ pid \in f.names /\ q \notin DOMAIN source

IsOwnFile(p) == p \in Own /\ OwnKind(p) = "file"

HasBeen(f, n) == f.at = "wait" \/ (f.at = "scan" /\ n \in f.names)

(* A frame while the directory is stored; "i" is where it is in the stack. *)
StoringWell(f, i) ==
    /\ f.dir \in Own /\ OwnKind(f.dir) = "dir" /\ Len(f.dir) = i - 1
    /\ DOMAIN f.map \subseteq {Pids[k] : k \in 1 .. forks}
    /\ \A pid \in DOMAIN f.map :
         /\ IsOwnFile(Append(f.dir, f.map[pid]))
         /\ WorkOf(Append(f.dir, pid), Append(f.dir, f.map[pid]), f, pid)
    /\ \A n : IsOwnFile(Append(f.dir, n)) /\ HasBeen(f, n) =>
         \E pid \in DOMAIN f.map : f.map[pid] = n
    /\ f.at = "scan" => \A n : Append(f.dir, n) \in Own => n \in f.opened

GzipsWell(pid) == child[pid].path = Append(Top.dir, Top.map[pid])

StoresAll ==
    /\ \A i \in 1 .. Len(stack) : StoringWell(stack[i], i)
    /\ \A pid \in DOMAIN child : GzipsWell(pid)

-------------------------------------------------------------------------------
(* Extraction. *)
Arrived(p) == p \in DOMAIN out /\ out[p] = source[p]

Gunzips(pid, p) == pid \in DOMAIN child /\ child[pid].path = p

Coming(p) ==
    \/ Arrived(p)
    \/ ForksFor(p) /\ IsZipped(Gz(p)) /\ \E pid : Gunzips(pid, p) /\ child[pid].at = "start"

LeftIn(p, f) == \E n \in f.names : IsPrefix(Append(f.dir, n), p)

ToExtract(p) ==
    \/ \E i \in 1 .. Len(todo) : IsPrefix(todo[i], p)
    \/ \E i \in 1 .. Len(stack) : LeftIn(p, stack[i])

IsTemporary(q) ==
    /\ out[q].kind = "file" /\ out[q].zip > 0
    /\ \E pid \in DOMAIN child : child[pid].at # "zombie" /\ q = Gz(child[pid].path)

IsItem(x) == x \in [kind : {x.kind}, of : {x.of}, zip : {x.zip}]

OutIsWell ==
    /\ out = [q \in DOMAIN out |-> out[q]]
    /\ <<>> \in DOMAIN out
    /\ \A q \in DOMAIN out :
         IsItem(out[q]) /\ (out[q].kind = "dir" => out[q] = Directory)
    /\ \A q \in DOMAIN out :
         q \in DOMAIN source \cup WasInTheWay \cup skipped \/ IsTemporary(q)
    /\ \A p \in DOMAIN stored :
         ForksFor(p) /\ ~Clash(p) /\ IsZipped(Gz(p)) => out[Gz(p)] = Bytes(p)

GunzipsWell(pid) ==
    /\ child[pid].do = "gunzip"
    /\ child[pid].path \in DOMAIN stored /\ ForksFor(child[pid].path)
    /\ child[pid].at = "open" => Clash(child[pid].path) \/ Arrived(child[pid].path)

ExtractingWell(f) ==
    /\ f.dir \in DOMAIN stored /\ stored[f.dir].kind = "dir"
    /\ f.at \in {"extract", "wait"}
    /\ f.at = "wait" => f.names = {}
    /\ \A n \in f.names : Append(f.dir, n) \in DOMAIN stored

Extracts ==
    /\ \E s \in Sources : source = Tree(s)
    /\ OutIsWell
    /\ \A pid \in DOMAIN child : GunzipsWell(pid)
    /\ \A i \in 1 .. Len(stack) : ExtractingWell(stack[i])
    /\ todo \in Seq(Range(todo)) /\ \A i \in 1 .. Len(todo) : IsPath(todo[i])
    /\ \A p \in DOMAIN stored : Wanted(p) /\ ~Spoilt(p) => Coming(p) \/ ToExtract(p)
    /\ phase = "exit" => stack = <<>> /\ todo = <<>>

TripInv ==
    /\ ArchiveIsRight
    /\ phase = "store" => StoresAll
    /\ phase \in {"extract", "exit"} => Extracts
-------------------------------------------------------------------------------
(* Prefixes of paths. *)
LEMMA PrefixIs ==
    ASSUME NEW d, IsPath(d), NEW p, IsPath(p)
    PROVE  /\ IsPrefix(d, p) <=> (Len(d) <= Len(p) /\ \A i \in 1 .. Len(d) : d[i] = p[i])
           /\ Len(d) \in Nat /\ Len(p) \in Nat
           /\ IsPrefix(d, p) => d \in Prefixes(p)
<1> DEFINE S == Range(d) \cup Range(p)
<1>1. PICK k \in Nat : k = Len(d)
    BY DEF IsPath
<1>2. PICK m \in Nat : m = Len(p)
    BY DEF IsPath
<1>3. d \in Seq(S) /\ p \in Seq(S)
    BY SeqMonotonic DEF IsPath
<1>4. SubSeq(d, 1, k) = d
    BY <1>1, <1>3, SubSeqFull
<1> DEFINE q == SubSeq(p, 1, k)
<1>5. ASSUME k <= m PROVE q \in Seq(S) /\ Len(q) = k /\ \A i \in 1 .. k : q[i] = p[i]
  <2>1. \A i \in 1 .. k : p[i] \in S
      BY <1>2, <1>3, <1>5, ElementOfSeq
  <2>2. /\ q \in Seq(S) /\ Len(q) = IF 1 <= k THEN k - 1 + 1 ELSE 0
        /\ \A i \in 1 .. k - 1 + 1 : q[i] = p[1 + i - 1]
      BY <2>1, SubSeqProperties
  <2>3. k - 1 + 1 = k /\ \A i \in 1 .. k : 1 + i - 1 = i
      OBVIOUS
  <2> HIDE DEF q
  <2>4. QED BY <2>2, <2>3
<1> HIDE DEF q, S
<1>6. IsPrefix(d, p) <=> (k <= m /\ d = q)
    BY <1>1, <1>2, <1>4 DEF IsPrefix, q
<1>7. ASSUME k <= m, \A i \in 1 .. k : d[i] = p[i] PROVE d = q
  <2>1. \A i \in 1 .. Len(d) : d[i] = q[i]
      BY <1>1, <1>5, <1>7
  <2>2. Len(d) = Len(q)
      BY <1>1, <1>5, <1>7
  <2>3. QED BY <1>3, <1>5, <1>7, <2>1, <2>2, SeqEqual
<1>8. k <= m /\ d = q => \A i \in 1 .. k : d[i] = p[i]
    BY <1>5
<1>9. k <= m /\ d = q => d \in Prefixes(p)
    BY <1>1, <1>2 DEF Prefixes, q
<1>10. QED BY <1>1, <1>2, <1>6, <1>7, <1>8, <1>9

(* A name is added to a path at its end. *)
LEMMA AppendIs ==
    ASSUME NEW d, IsPath(d), NEW n
    PROVE  /\ IsPath(Append(d, n)) /\ Len(d) \in Nat /\ Len(Append(d, n)) = Len(d) + 1
           /\ Append(d, n)[Len(d) + 1] = n
           /\ \A i \in 1 .. Len(d) : Append(d, n)[i] = d[i]
<1> DEFINE S == Range(d) \cup {n}
<1>1. d \in Seq(S)
    BY SeqMonotonic DEF IsPath
<1>2. IsPath(Append(d, n))
    BY JoinAndSplit
<1>3. QED BY <1>1, <1>2

(* A path is no longer than another one it begins with only if it is that one. *)
LEMMA SamePath ==
    ASSUME NEW d, IsPath(d), NEW p, IsPath(p), IsPrefix(d, p), Len(p) <= Len(d)
    PROVE  d = p
<1> DEFINE S == Range(d) \cup Range(p)
<1>1. d \in Seq(S) /\ p \in Seq(S)
    BY SeqMonotonic DEF IsPath
<1>2. Len(d) = Len(p) /\ \A i \in 1 .. Len(d) : d[i] = p[i]
    BY PrefixIs
<1>3. QED BY <1>1, <1>2, SeqEqual

(* What is below a directory is below one of the names in it. *)
LEMMA NextNameOn ==
    ASSUME NEW d, IsPath(d), NEW p, IsPath(p), IsStrictPrefix(d, p)
    PROVE  \E n : IsPrefix(Append(d, n), p)
<1>1. PICK k \in Nat : k = Len(d)
    BY PrefixIs
<1>2. PICK m \in Nat : m = Len(p)
    BY PrefixIs
<1>3. IsPrefix(d, p) /\ d # p
    BY DEF IsStrictPrefix
<1>4. k < m
    BY <1>1, <1>2, <1>3, PrefixIs, SamePath
<1> DEFINE n == p[k + 1]
           e == Append(d, n)
<1>5. IsPath(e) /\ Len(e) = k + 1 /\ e[k + 1] = n /\ \A i \in 1 .. k : e[i] = d[i]
    BY <1>1, AppendIs
<1>6. \A i \in 1 .. k : d[i] = p[i]
    BY <1>1, <1>3, PrefixIs
<1> HIDE DEF e
<1>7. \A i \in 1 .. Len(e) : e[i] = p[i]
    BY <1>1, <1>5, <1>6
<1>8. Len(e) <= Len(p)
    BY <1>1, <1>2, <1>4, <1>5
<1>9. IsPrefix(e, p)
    BY <1>5, <1>7, <1>8, PrefixIs
<1>10. QED BY <1>9 DEF e

(* What lies above a directory lies above what is in the directory. *)
LEMMA PrefixOfPrefix ==
    ASSUME NEW c, IsPath(c), NEW d, IsPath(d), NEW p, IsPath(p),
           IsPrefix(c, d), IsPrefix(d, p)
    PROVE  IsPrefix(c, p)
<1>1. PICK j \in Nat : j = Len(c)
    BY PrefixIs
<1>2. PICK k \in Nat : k = Len(d)
    BY PrefixIs
<1>3. PICK l \in Nat : l = Len(p)
    BY PrefixIs
<1>4. j <= k /\ \A i \in 1 .. j : c[i] = d[i]
    BY <1>1, <1>2, PrefixIs
<1>5. k <= l /\ \A i \in 1 .. k : d[i] = p[i]
    BY <1>2, <1>3, PrefixIs
<1>6. j <= l /\ \A i \in 1 .. j : c[i] = p[i]
    BY <1>4, <1>5
<1>7. QED BY <1>1, <1>3, <1>6, PrefixIs

-------------------------------------------------------------------------------
(* The directory's own paths are a tree of files, links and directories. *)
OwnIsTree ==
    /\ Own \subseteq DOMAIN source /\ <<>> \in Own /\ OwnKind(<<>>) = "dir"
    /\ Nothing \notin Own
    /\ \A p \in Own :
         /\ IsPath(p) /\ \A i \in 1 .. Len(p) : p[i] \in Seq(Range(p[i]))
         /\ OwnKind(p) \in Kinds
         /\ source[p] = IF OwnKind(p) = "dir" THEN Directory
                        ELSE [kind |-> OwnKind(p), of |-> p, zip |-> 0]
         /\ \A q : IsPath(q) /\ IsPrefix(q, p) /\ q # p => q \in Own /\ OwnKind(q) = "dir"

(* The own paths are those the directory had when it was archived. *)
LEMMA OwnPaths ==
    ASSUME NEW s \in Sources, DOMAIN s \subseteq DOMAIN source,
           \A p \in DOMAIN s : source[p] = Tree(s)[p],
           \A p \in DOMAIN source \ DOMAIN s :
               \E d, pid : IsPath(d) /\ pid \in Range(Pids) /\ p = Append(d, pid)
    PROVE  Own = DOMAIN s /\ OwnIsTree
<1>1. Own = DOMAIN s
  <2>1. ASSUME NEW p \in DOMAIN s PROVE p \in Own
    <3>1. p # <<>> => Last(p) \notin Range(Pids)
        BY ChildrenAssumption DEF ChildrenAssumption, Range
    <3>2. QED BY <3>1 DEF Own
  <2>2. ASSUME NEW p \in Own, p \notin DOMAIN s PROVE FALSE
    <3>1. p \in DOMAIN source \ DOMAIN s
        BY <2>2 DEF Own
    <3>2. PICK d, pid : IsPath(d) /\ pid \in Range(Pids) /\ p = Append(d, pid)
        BY <3>1
    <3>3. p # <<>> /\ Last(p) = pid
        BY <3>2, JoinAndSplit
    <3>4. QED BY <2>2, <3>2, <3>3 DEF Own
  <2>3. QED BY <2>1, <2>2
<1>2. ASSUME NEW p \in DOMAIN s
      PROVE  /\ IsPath(p) /\ s[p] \in Kinds /\ OwnKind(p) = s[p]
             /\ source[p] = IF s[p] = "dir" THEN Directory
                            ELSE [kind |-> s[p], of |-> p, zip |-> 0]
  <2>1. s[p] \in Kinds /\ IsPath(p)
      BY ChildrenAssumption DEF ChildrenAssumption, IsPath
  <2>2. source[p] = IF s[p] = "dir" THEN Directory ELSE [kind |-> s[p], of |-> p, zip |-> 0]
      BY DEF Tree
  <2>3. OwnKind(p) = s[p]
      BY <2>2 DEF Directory, OwnKind
  <2>4. QED BY <2>1, <2>2, <2>3
<1>3. <<>> \in DOMAIN s /\ s[<<>>] = "dir"
    BY ChildrenAssumption DEF ChildrenAssumption
<1>4. Nothing \notin DOMAIN s
    BY PathsAssumption DEF PathsAssumption
<1>5. ASSUME NEW p \in DOMAIN s
      PROVE  /\ \A i \in DOMAIN p : p[i] \in Seq(Range(p[i]))
             /\ \A q \in Prefixes(p) \ {p} : q \in DOMAIN s /\ s[q] = "dir"
    BY PathsAssumption DEF PathsAssumption
<1>6. ASSUME NEW p \in DOMAIN s
      PROVE  /\ \A i \in 1 .. Len(p) : p[i] \in Seq(Range(p[i]))
             /\ \A q : IsPath(q) /\ IsPrefix(q, p) /\ q # p => q \in DOMAIN s /\ OwnKind(q) = "dir"
  <2>1. IsPath(p)
      BY <1>2
  <2>2. DOMAIN p = 1 .. Len(p)
      BY <2>1, LenProperties DEF IsPath
  <2>3. ASSUME NEW q, IsPath(q), IsPrefix(q, p), q # p
        PROVE  q \in DOMAIN s /\ OwnKind(q) = "dir"
    <3>1. q \in Prefixes(p)
        BY <2>1, <2>3, PrefixIs
    <3>2. q \in DOMAIN s /\ s[q] = "dir"
        BY <1>5, <2>3, <3>1
    <3>3. QED BY <1>2, <3>2
  <2>4. QED BY <1>5, <2>2, <2>3
<1>7. QED
  <2>1. Own \subseteq DOMAIN source /\ <<>> \in Own /\ OwnKind(<<>>) = "dir" /\ Nothing \notin Own
      BY <1>1, <1>2, <1>3, <1>4
  <2>2. ASSUME NEW p \in Own
        PROVE  /\ IsPath(p) /\ \A i \in 1 .. Len(p) : p[i] \in Seq(Range(p[i]))
               /\ OwnKind(p) \in Kinds
               /\ source[p] = IF OwnKind(p) = "dir" THEN Directory
                              ELSE [kind |-> OwnKind(p), of |-> p, zip |-> 0]
               /\ \A q : IsPath(q) /\ IsPrefix(q, p) /\ q # p => q \in Own /\ OwnKind(q) = "dir"
      BY <1>1, <1>2, <1>6
  <2>3. QED BY <1>1, <2>1, <2>2 DEF OwnIsTree

(* While the directory is stored, *)
LEMMA OwnWhileStored ==
    ASSUME Storing
    PROVE  \E s \in Sources : OnlyOutputsAreNew(s) /\ Own = DOMAIN s /\ OwnIsTree
<1>1. PICK s \in Sources : OnlyOutputsAreNew(s)
    BY DEF Storing
<1>2. ASSUME NEW p \in DOMAIN source \ DOMAIN s
      PROVE  \E d, pid : IsPath(d) /\ pid \in Range(Pids) /\ p = Append(d, pid)
  <2>1. PICK i \in 1 .. Len(stack) : IsOutput(p, stack[i])
      BY <1>1 DEF OnlyOutputsAreNew
  <2>2. PICK pid \in DOMAIN stack[i].map : p = Append(stack[i].dir, pid)
      BY <2>1 DEF IsOutput
  <2>3. IsPath(stack[i].dir) /\ pid \in Range(Pids)
      BY <2>2 DEF Storing, Scans
  <2>4. QED BY <2>2, <2>3
<1>3. DOMAIN s \subseteq DOMAIN source /\ \A p \in DOMAIN s : source[p] = Tree(s)[p]
    BY <1>1 DEF OnlyOutputsAreNew
<1>4. QED BY <1>1, <1>2, <1>3, OwnPaths

(* and when it is as it was. *)
LEMMA OwnOfTree ==
    ASSUME NEW s \in Sources, source = Tree(s)
    PROVE  Own = DOMAIN source /\ OwnIsTree
<1>1. DOMAIN source = DOMAIN s
    BY DEF Tree
<1>2. QED BY <1>1, OwnPaths

(* What the names with ".gz" are told apart by. *)
LEMMA GzIsPath ==
    ASSUME NEW p, IsPath(p), p # <<>>
    PROVE  IsPath(Gz(p)) /\ Gz(p) # <<>>
<1>1. IsPath(Front(p))
  <2>1. PICK k \in Nat : k = Len(p) /\ k > 0
      BY DEF IsPath
  <2>2. \A i \in 1 .. k - 1 : p[i] \in Range(p)
      BY <2>1, ElementOfSeq DEF IsPath
  <2>3. /\ Front(p) \in Seq(Range(p)) /\ Len(Front(p)) = IF 1 <= k - 1 THEN k - 1 - 1 + 1 ELSE 0
      BY <2>1, <2>2, SubSeqProperties DEF Front
  <2>4. Front(p) \in Seq(Range(Front(p)))
      BY <2>3, LenProperties DEF Range
  <2>5. QED BY <2>4 DEF IsPath
<1>2. QED BY <1>1, JoinAndSplit DEF Gz

(* Different files have different compressed ones. *)
LEMMA GzTellsApart ==
    ASSUME NEW p, IsPath(p), p # <<>>, NEW q, IsPath(q), q # <<>>,
           Last(p) \in Seq(Range(Last(p))), Last(q) \in Seq(Range(Last(q))), Gz(p) = Gz(q)
    PROVE  p = q
<1>1. IsPath(Front(p)) /\ IsPath(Front(q))
  <2>1. ASSUME NEW r, IsPath(r), r # <<>> PROVE IsPath(Front(r))
    <3>1. PICK k \in Nat : k = Len(r) /\ k > 0
        BY <2>1 DEF IsPath
    <3>2. \A i \in 1 .. k - 1 : r[i] \in Range(r)
        BY <2>1, <3>1, ElementOfSeq DEF IsPath
    <3>3. Front(r) \in Seq(Range(r))
        BY <3>1, <3>2, SubSeqProperties DEF Front
    <3>4. Front(r) \in Seq(Range(Front(r)))
        BY <3>3, LenProperties DEF Range
    <3>5. QED BY <3>4 DEF IsPath
  <2>2. QED BY <2>1
<1>2. Front(p) = Front(q) /\ Append(Last(p), "gz") = Append(Last(q), "gz")
  <2>1. ASSUME NEW r, IsPath(r), r # <<>>, IsPath(Front(r))
        PROVE  Front(Gz(r)) = Front(r) /\ Last(Gz(r)) = Append(Last(r), "gz")
      BY <2>1, JoinAndSplit DEF Gz
  <2>2. QED BY <1>1, <2>1
<1>3. IsPath(Last(p)) /\ IsPath(Last(q))
    BY DEF IsPath
<1>4. Last(p) = Last(q)
    BY <1>2, <1>3, JoinAndSplit
<1>5. QED BY <1>2, <1>4, SplitAndJoin
-------------------------------------------------------------------------------
(***************************************************************************)
(* While the directory is stored.  A step changes at most one output, "q", *)
(* of the innermost frame, and nothing of the directory's own.             *)
(***************************************************************************)
OthersStay(q) ==
    \A p : p # q => /\ p \in DOMAIN source' <=> p \in DOMAIN source
                    /\ p \in DOMAIN source => source'[p] = source[p]

OnlyChanges(q) ==
    /\ Own' = Own /\ \A p \in Own : source'[p] = source[p]
    /\ OthersStay(q)

(* What a child writes or the parent unlinks is none of the own paths. *)
LEMMA OutputChanges ==
    ASSUME NEW d, IsPath(d), NEW pid \in Range(Pids), NEW q, q = Append(d, pid),
           OthersStay(q)
    PROVE  OnlyChanges(q)
<1>1. q # <<>> /\ Last(q) = pid
    BY JoinAndSplit
<1>2. q \notin Own /\ q \notin Own'
    BY <1>1 DEF Own
<1>3. \A p : p # q => (p \in Own <=> p \in Own')
    BY DEF Own, OthersStay
<1>4. Own' = Own
  <2>1. \A p : p \in Own <=> p \in Own'
      BY <1>2, <1>3
  <2> HIDE DEF Own
  <2>2. QED BY <2>1
<1>5. \A p \in Own : source'[p] = source[p]
    BY <1>2 DEF Own, OthersStay
<1>6. QED BY <1>4, <1>5 DEF OnlyChanges, OthersStay

(* A step may leave the directory alone. *)
LEMMA NothingChanges ==
    ASSUME source' = source, NEW q
    PROVE  OnlyChanges(q)
BY DEF OnlyChanges, OthersStay, Own

(* A frame is as deep in the stack as its directory is in the tree, so that the names
   in the directories of the stack are apart; only the innermost one is not inserted. *)
LEMMA StoringLengths ==
    ASSUME IInv, Storing, StoresAll
    PROVE  /\ OwnIsTree
           /\ Len(stack) \in Nat \ {0} /\ Top = stack[Len(stack)] /\ stack # <<>> /\ IsStack(stack)
           /\ \A i \in 1 .. Len(stack) :
                /\ StoringWell(stack[i], i) /\ Scans(stack[i]) /\ IsPath(stack[i].dir)
                /\ \A n : Len(Append(stack[i].dir, n)) = i
           /\ \A i \in 1 .. Len(stack) - 1 : i \in 1 .. Len(stack) /\ stack[i].at = "insert"
           /\ forks \in Nat
<1>1. Len(stack) \in Nat \ {0} /\ Top = stack[Len(stack)] /\ stack # <<>> /\ IsStack(stack)
    BY StoringFacts
<1>2. OwnIsTree
    BY OwnWhileStored
<1>3. ASSUME NEW i \in 1 .. Len(stack)
      PROVE  /\ StoringWell(stack[i], i) /\ Scans(stack[i]) /\ IsPath(stack[i].dir)
             /\ \A n : Len(Append(stack[i].dir, n)) = i
  <2>1. StoringWell(stack[i], i) /\ Scans(stack[i]) /\ IsPath(stack[i].dir)
      BY DEF StoresAll, Storing, Scans
  <2>2. Len(stack[i].dir) = i - 1
      BY <2>1 DEF StoringWell
  <2>3. \A n : Len(Append(stack[i].dir, n)) = Len(stack[i].dir) + 1
      BY <2>1, AppendIs
  <2>4. QED BY <1>1, <2>1, <2>2, <2>3
<1>4. \A i \in 1 .. Len(stack) - 1 : i \in 1 .. Len(stack) /\ stack[i].at = "insert"
    BY <1>1 DEF Storing
<1>5. forks \in Nat
    BY DEF IInv, ChildrenAreForked
<1>6. QED BY <1>1, <1>2, <1>3, <1>4, <1>5

(* A frame further out does not notice. *)
LEMMA OuterStoresWell ==
    ASSUME NEW f, NEW i, StoringWell(f, i), f.at = "insert",
           \A n : Len(Append(f.dir, n)) = i,
           NEW q, Len(q) # i, OnlyChanges(q),
           failed \subseteq failed', forks \in Nat, forks' \in Nat, forks <= forks'
    PROVE  StoringWell(f, i)'
<1>1. /\ f.dir \in Own' /\ OwnKind(f.dir)' = "dir" /\ Len(f.dir) = i - 1
    BY DEF StoringWell, OnlyChanges, OwnKind
<1>2. DOMAIN f.map \subseteq {Pids[k] : k \in 1 .. forks'}
    BY DEF StoringWell
<1>3. ASSUME NEW pid \in DOMAIN f.map
      PROVE  /\ IsOwnFile(Append(f.dir, f.map[pid]))'
             /\ WorkOf(Append(f.dir, pid), Append(f.dir, f.map[pid]), f, pid)'
  <2>1. /\ IsOwnFile(Append(f.dir, f.map[pid]))
        /\ WorkOf(Append(f.dir, pid), Append(f.dir, f.map[pid]), f, pid)
      BY DEF StoringWell
  <2> DEFINE o == Append(f.dir, pid)
             p == Append(f.dir, f.map[pid])
  <2>2. o # q
      OBVIOUS
  <2> HIDE DEF o, p
  <2>3. /\ o \in DOMAIN source' <=> o \in DOMAIN source
        /\ o \in DOMAIN source => source'[o] = source[o]
      BY <2>2 DEF OnlyChanges, OthersStay
  <2>4. WorkOf(o, p, f, pid)'
      BY <2>1, <2>3 DEF WorkOf, o, p
  <2>5. IsOwnFile(p)'
      BY <2>1 DEF IsOwnFile, OnlyChanges, OwnKind, p
  <2>6. QED BY <2>4, <2>5 DEF o, p
<1>4. QED BY <1>1, <1>2, <1>3 DEF StoringWell, HasBeen

(* What has to come across in an outer directory still has to. *)
LEMMA OuterPending ==
    ASSUME NEW f, NEW i, f.at = "insert", \A n : Len(Append(f.dir, n)) = i,
           NEW q, Len(q) # i, OnlyChanges(q), compress' = compress,
           NEW p \in Own, PendingIn(p, f)
    PROVE  PendingIn(p, f)'
<1>1. PICK n : ComesAs(p, f, n) \/ ComesZipped(p, f, n)
    BY DEF PendingIn
<1>2. CASE ComesAs(p, f, n)
    BY <1>2 DEF ComesAs, PendingIn, OnlyChanges, OwnKind
<1>3. CASE ComesZipped(p, f, n)
  <2> DEFINE o == Append(f.dir, n)
  <2>1. o # q
      OBVIOUS
  <2> HIDE DEF o
  <2>2. o \in DOMAIN source' <=> o \in DOMAIN source
      BY <2>1 DEF OnlyChanges, OthersStay
  <2>3. ComesZipped(p, f, n)'
      BY <1>3, <2>2 DEF ComesZipped, o
  <2>4. QED BY <2>3 DEF PendingIn
<1>4. QED BY <1>1, <1>2, <1>3

(* A step of the innermost frame. *)
LEMMA TopStores ==
    ASSUME IInv, Storing, ArchiveIsRight, StoresAll, phase' = "store", NEW g, stack' = WithTop(g),
           compress' = compress, failed \subseteq failed', forks' \in Nat, forks <= forks',
           NEW L, L = Len(stack), NEW q, Len(q) = L, OnlyChanges(q),
           StoringWell(g, L)',
           \A pid \in DOMAIN child' : child'[pid].path = Append(g.dir, g.map[pid]),
           DOMAIN stored \subseteq DOMAIN stored', StoredIsRight',
           \A p \in Own : PendingIn(p, Top) =>
               p \in DOMAIN stored' \/ p \in failed' \/ PendingIn(p, g)'
    PROVE  ArchiveIsRight' /\ StoresAll'
<1>1. L \in Nat /\ L = Len(stack) /\ L > 0
    BY StoringFacts
<1>2. /\ Len(stack') = L /\ stack'[L] = g /\ Top' = g /\ Top = stack[L]
      /\ \A i \in 1 .. L - 1 : stack'[i] = stack[i]
    BY <1>1, Replaced, StoringFacts
<1>3. ASSUME NEW i \in 1 .. L PROVE StoringWell(stack[i], i)'
  <2>1. CASE i = L
      BY <1>1, <1>2, <2>1
  <2>2. CASE i # L
    <3>1. i \in 1 .. L - 1 /\ stack'[i] = stack[i]
        BY <1>1, <1>2, <2>2
    <3>2. /\ StoringWell(stack[i], i) /\ stack[i].at = "insert" /\ forks \in Nat
          /\ \A n : Len(Append(stack[i].dir, n)) = i
        BY <1>1, <3>1, StoringLengths
    <3>3. PICK f : f = stack[i]
        OBVIOUS
    <3>4. StoringWell(f, i)'
        BY <1>1, <2>2, <3>2, <3>3, OuterStoresWell
    <3>5. QED BY <3>1, <3>3, <3>4
  <2>3. QED BY <2>1, <2>2
<1>4. ASSUME NEW p \in Own, NEW i \in 1 .. L, PendingIn(p, stack[i])
      PROVE  p \in DOMAIN stored' \/ p \in failed' \/ Pending(p)'
  <2>1. CASE i = L
    <3>1. p \in DOMAIN stored' \/ p \in failed' \/ PendingIn(p, stack[L])'
        BY <1>2, <1>4, <2>1
    <3>2. QED BY <1>1, <1>2, <3>1 DEF Pending
  <2>2. CASE i # L
    <3>1. i \in 1 .. L - 1 /\ stack'[i] = stack[i]
        BY <1>1, <1>2, <2>2
    <3>2. stack[i].at = "insert" /\ \A n : Len(Append(stack[i].dir, n)) = i
        BY <1>1, <3>1, StoringLengths
    <3>3. PICK f : f = stack[i]
        OBVIOUS
    <3>4. PendingIn(p, f)'
        BY <1>1, <1>4, <2>2, <3>2, <3>3, OuterPending
    <3>5. PendingIn(p, stack[i])'
        BY <3>1, <3>3, <3>4
    <3>6. QED BY <1>2, <3>5 DEF Pending
  <2>3. QED BY <2>1, <2>2
<1>5. ASSUME NEW p \in Own' PROVE p \in DOMAIN stored' \/ p \in failed' \/ Pending(p)'
  <2>1. p \in Own
      BY DEF OnlyChanges
  <2>2. p \in DOMAIN stored \/ p \in failed \/ Pending(p)
      BY <2>1 DEF ArchiveIsRight
  <2>3. CASE Pending(p)
    <3>1. PICK i \in 1 .. L : PendingIn(p, stack[i])
        BY <1>1, <2>3 DEF Pending
    <3>2. QED BY <1>4, <2>1, <3>1
  <2>4. QED BY <2>2, <2>3
<1>6. ArchiveIsRight'
    BY <1>5 DEF ArchiveIsRight
<1>7. StoresAll'
  <2>1. \A pid \in DOMAIN child' : GzipsWell(pid)'
      BY <1>2 DEF GzipsWell
  <2>2. QED BY <1>2, <1>3, <2>1 DEF StoresAll
<1>8. QED BY <1>6, <1>7
-------------------------------------------------------------------------------
(* What a frame needs for its table and its names, whatever its children did. *)
LEMMA WorkGoesOn ==
    ASSUME NEW q, NEW p, NEW f, NEW g, NEW pid, WorkOf(q, p, f, pid), source' = source,
           failed' = failed, f.at # "insert" /\ g.at # "insert",
           pid \in DOMAIN child /\ child[pid].at # "zombie" =>
               pid \in DOMAIN child' /\ child'[pid] = child[pid]
    PROVE  WorkOf(q, p, g, pid)'
BY DEF WorkOf, Running

(* Items stay right if neither they nor what they were made of changes. *)
LEMMA SameRight ==
    ASSUME ArchiveIsRight, UNCHANGED <<compress, source, stored, failed>>
    PROVE  StoredIsRight'
<1>1. ASSUME NEW p, IsRight(p) PROVE IsRight(p)'
    BY <1>1 DEF IsRight, OwnKind
<1>2. QED BY <1>1 DEF ArchiveIsRight, StoredIsRight, Own, OwnKind

(* The new child is named by a process id that was not in use. *)
LEMMA NewPid ==
    ASSUME IInv, NEW do, NEW dir, NEW path, Fork(do, dir, path)
    PROVE  /\ Pid \in Range(Pids) /\ Pid \notin {Pids[k] : k \in 1 .. forks}
           /\ Pid \notin DOMAIN child
           /\ forks' = forks + 1 /\ forks \in Nat
           /\ Pid \in {Pids[k] : k \in 1 .. forks'}
           /\ {Pids[k] : k \in 1 .. forks} \subseteq {Pids[k] : k \in 1 .. forks'}
           /\ DOMAIN child' = DOMAIN child \cup {Pid}
           /\ child'[Pid] = [do |-> do, dir |-> dir, path |-> path, at |-> "start"]
           /\ \A pid \in DOMAIN child : child'[pid] = child[pid]
<1>1. /\ forks < Len(Pids) /\ Len(Pids) \in Nat /\ DOMAIN Pids = 1 .. Len(Pids)
      /\ \A j, k \in DOMAIN Pids : Pids[j] = Pids[k] => j = k
    BY ChildrenAssumption DEF Fork, ChildrenAssumption
<1>2. forks \in Nat /\ forks' = forks + 1
    BY DEF IInv, ChildrenAreForked, Fork
<1>3. forks + 1 \in DOMAIN Pids /\ \A i \in 1 .. forks : i \in DOMAIN Pids /\ i # forks + 1
    BY <1>1, <1>2
<1>4. Pid \in Range(Pids) /\ Pid \notin {Pids[k] : k \in 1 .. forks}
    BY <1>1, <1>3 DEF Pid, Range
<1>5. Pid \notin DOMAIN child
    BY <1>4 DEF IInv, ChildrenAreForked
<1>6. /\ DOMAIN child' = DOMAIN child \cup {Pid}
      /\ child'[Pid] = [do |-> do, dir |-> dir, path |-> path, at |-> "start"]
      /\ \A pid \in DOMAIN child : child'[pid] = child[pid]
    BY <1>5 DEF Fork, Put
<1>7. Pid \in {Pids[k] : k \in 1 .. forks'}
    BY <1>2 DEF Pid
<1>8. {Pids[k] : k \in 1 .. forks} \subseteq {Pids[k] : k \in 1 .. forks'}
    BY <1>2
<1>9. QED BY <1>2, <1>4, <1>5, <1>6, <1>7, <1>8

(* In the innermost frame no output is there before its child is started. *)
LEMMA NoOutputYet ==
    ASSUME IInv, Storing, StoresAll, NEW pid \in Range(Pids),
           pid \notin {Pids[k] : k \in 1 .. forks}
    PROVE  Append(Top.dir, pid) \notin DOMAIN source
<1> DEFINE q == Append(Top.dir, pid)
<1>1. PICK L \in Nat : L = Len(stack) /\ L > 0
    BY StoringFacts
<1>2. /\ Top = stack[L] /\ IsPath(Top.dir)
      /\ \A i \in 1 .. L : /\ IsPath(stack[i].dir)
                           /\ DOMAIN stack[i].map \subseteq {Pids[k] : k \in 1 .. forks}
    BY <1>1, StoringLengths DEF StoringWell
<1>3. q # <<>> /\ Last(q) = pid
    BY <1>2, JoinAndSplit
<1>4. q \notin Own
    BY <1>3 DEF Own
<1>5. SUFFICES ASSUME q \in DOMAIN source PROVE FALSE
    OBVIOUS
<1>6. PICK s \in Sources : OnlyOutputsAreNew(s) /\ Own = DOMAIN s
    BY OwnWhileStored
<1>7. PICK i \in 1 .. L : IsOutput(q, stack[i])
    BY <1>1, <1>4, <1>5, <1>6 DEF OnlyOutputsAreNew
<1>8. PICK other \in DOMAIN stack[i].map : q = Append(stack[i].dir, other)
    BY <1>7 DEF IsOutput
<1>9. Last(q) = other
    BY <1>2, <1>8, JoinAndSplit
<1>10. QED BY <1>2, <1>3, <1>8, <1>9

(* readdir returns a name, and a child is started for it or not. *)
LEMMA ScanWell ==
    ASSUME IInv, Storing, Types, ArchiveIsRight, StoresAll, ScanDirectory
    PROVE  ArchiveIsRight' /\ StoresAll'
<1>0. PICK t : t = Top
    OBVIOUS
<1>1. /\ OwnIsTree /\ stack # <<>> /\ t.at = "scan" /\ IsFrame(t) /\ Scans(t)
      /\ phase' = "store" /\ UNCHANGED <<compress, source, stored, failed>>
      /\ IsPath(t.dir)
    BY <1>0, StoringFacts, StoringLengths DEF ScanDirectory, Scans
<1>2. PICK L \in Nat : L = Len(stack) /\ L > 0
    BY StoringFacts
<1>3. /\ t = stack[L] /\ StoringWell(t, L) /\ forks \in Nat
      /\ \A n : Len(Append(t.dir, n)) = L
    BY <1>0, <1>2, StoringLengths
<1>4. PICK name \in NamesIn(source, t.dir) \ t.names :
         LET seen == [t EXCEPT !.names = @ \cup {name}] IN
         \/ /\ ToCompress(name)
            /\ Fork("gzip", t.dir, Append(t.dir, name))
            /\ stack' = WithTop([seen EXCEPT !.map = Put(@, Pid, name), !.count = @ + 1])
         \/ ~ToCompress(name) /\ stack' = WithTop(seen) /\ NoFork
    BY <1>0 DEF ScanDirectory
<1> DEFINE path == Append(t.dir, name)
<1>20. PICK seen : seen = [t EXCEPT !.names = @ \cup {name}]
    OBVIOUS
<1>21. PICK counting : counting = [seen EXCEPT !.map = Put(@, Pid, name), !.count = @ + 1]
    OBVIOUS
<1>5. seen \in [dir : {t.dir}, at : {"scan"}, names : {t.names \cup {name}},
                opened : {t.opened}, map : {t.map}, count : {t.count}]
    BY <1>1, <1>20 DEF IsFrame
<1>6. path \in DOMAIN source
    BY <1>0, NamesArePaths
<1>7. OnlyChanges(Append(t.dir, name)) /\ Len(Append(t.dir, name)) = L /\ StoredIsRight'
    BY <1>1, <1>3, NothingChanges, SameRight
<1>8. Own' = Own /\ (\A p : IsOwnFile(p)' <=> IsOwnFile(p)) /\ \A p : OwnKind(p)' = OwnKind(p)
    BY <1>1, <1>7 DEF OnlyChanges, IsOwnFile, OwnKind
<1>9. /\ t.dir \in Own /\ OwnKind(t.dir) = "dir" /\ Len(t.dir) = L - 1
      /\ DOMAIN t.map \subseteq {Pids[k] : k \in 1 .. forks}
      /\ \A pid \in DOMAIN t.map :
           /\ IsOwnFile(Append(t.dir, t.map[pid]))
           /\ WorkOf(Append(t.dir, pid), Append(t.dir, t.map[pid]), t, pid)
      /\ \A n : IsOwnFile(Append(t.dir, n)) /\ n \in t.names =>
           \E pid \in DOMAIN t.map : t.map[pid] = n
      /\ \A n : Append(t.dir, n) \in Own => n \in t.opened
    BY <1>1, <1>3 DEF StoringWell, HasBeen
<1>10. \A pid \in DOMAIN child : child[pid].path = Append(t.dir, t.map[pid])
         /\ pid \in DOMAIN t.map
    BY <1>0 DEF StoresAll, GzipsWell, Storing, GzipsInTop
<1>11. CASE ~ToCompress(name) /\ stack' = WithTop(seen) /\ NoFork
  <2>1. child' = child /\ forks' = forks
      BY <1>11 DEF NoFork
  <2>2. seen.dir = t.dir /\ seen.at = "scan" /\ seen.names = t.names \cup {name}
        /\ seen.opened = t.opened /\ seen.map = t.map
      BY <1>5
  <2>3. ASSUME NEW n, IsOwnFile(Append(t.dir, n)), n \in seen.names
        PROVE  \E pid \in DOMAIN t.map : t.map[pid] = n
    <3>1. CASE n \in t.names
        BY <1>9, <2>3, <3>1
    <3>2. CASE n = name
      <4>1. name \in DOMAIN t.map
          BY <1>0, <1>11, <2>3, <3>2 DEF ToCompress, IsOwnFile, OwnKind
      <4>2. name \in Range(Pids)
          BY <1>1, <4>1 DEF Scans
      <4>3. path # <<>> /\ Last(path) = name
          BY <1>1, JoinAndSplit
      <4>4. path \notin Own
          BY <4>2, <4>3 DEF Own
      <4>5. QED BY <2>3, <3>2, <4>4 DEF IsOwnFile
    <3>3. QED BY <2>2, <2>3, <3>1, <3>2
  <2>4. ASSUME NEW pid \in DOMAIN t.map
        PROVE  WorkOf(Append(t.dir, pid), Append(t.dir, t.map[pid]), seen, pid)'
      BY <1>1, <1>9, <2>1, <2>2, WorkGoesOn
  <2>5. StoringWell(seen, L)'
      BY <1>8, <1>9, <2>1, <2>2, <2>3, <2>4 DEF StoringWell, HasBeen
  <2>6. \A p \in Own : PendingIn(p, Top) => PendingIn(p, seen)'
      BY <1>0, <1>1, <2>2 DEF PendingIn
  <2>7. \A pid \in DOMAIN child' : child'[pid].path = Append(seen.dir, seen.map[pid])
      BY <1>10, <2>1, <2>2
  <2>8. /\ forks' \in Nat /\ forks <= forks'
        /\ failed \subseteq failed' /\ DOMAIN stored \subseteq DOMAIN stored'
      BY <1>1, <1>3, <2>1
  <2>9. stack' = WithTop(seen)
      BY <1>11, <1>20
  <2> HIDE DEF path
  <2>10. QED BY <1>1, <1>2, <1>7, <2>5, <2>6, <2>7, <2>8, <2>9, TopStores
<1>12. CASE /\ ToCompress(name)
            /\ Fork("gzip", t.dir, path)
            /\ stack' = WithTop(counting)
  <2>1. /\ Pid \in Range(Pids) /\ Pid \notin {Pids[k] : k \in 1 .. forks}
        /\ Pid \notin DOMAIN child
        /\ forks' = forks + 1
        /\ Pid \in {Pids[k] : k \in 1 .. forks'}
        /\ {Pids[k] : k \in 1 .. forks} \subseteq {Pids[k] : k \in 1 .. forks'}
        /\ DOMAIN child' = DOMAIN child \cup {Pid}
        /\ child'[Pid] = [do |-> "gzip", dir |-> t.dir, path |-> path, at |-> "start"]
        /\ \A pid \in DOMAIN child : child'[pid] = child[pid]
      BY <1>12, NewPid
  <2>2. Pid \notin DOMAIN t.map
      BY <1>9, <2>1
  <2>3. counting \in [dir : {t.dir}, at : {"scan"}, names : {t.names \cup {name}},
                      opened : {t.opened}, map : {Put(t.map, Pid, name)},
                      count : {t.count + 1}]
      BY <1>5, <1>21
  <2>4. counting.dir = t.dir /\ counting.at = "scan"
        /\ counting.names = t.names \cup {name} /\ counting.opened = t.opened
      BY <2>3
  <2>5. /\ DOMAIN counting.map = DOMAIN t.map \cup {Pid}
        /\ counting.map[Pid] = name
        /\ \A pid \in DOMAIN t.map : counting.map[pid] = t.map[pid]
      BY <2>2, <2>3 DEF Put
  <2>6. IsOwnFile(path)
    <3>1. name \notin DOMAIN t.map /\ source[path].kind = "file"
        BY <1>0, <1>12 DEF ToCompress
    <3>2. PICK s \in Sources : OnlyOutputsAreNew(s) /\ Own = DOMAIN s
        BY OwnWhileStored
    <3>3. ASSUME path \notin DOMAIN s PROVE FALSE
      <4>1. PICK i \in 1 .. L : IsOutput(path, stack[i])
          BY <1>2, <1>6, <3>2, <3>3 DEF OnlyOutputsAreNew
      <4>2. PICK pid \in DOMAIN stack[i].map : path = Append(stack[i].dir, pid)
          BY <4>1 DEF IsOutput
      <4>3. Len(path) = L /\ Len(Append(stack[i].dir, pid)) = i /\ t = stack[L]
          BY <1>2, <1>3, StoringLengths
      <4>4. i = L
          BY <4>2, <4>3
      <4>5. pid = name
          BY <1>1, <4>2, <4>3, <4>4, JoinAndSplit
      <4>6. QED BY <3>1, <4>2, <4>3, <4>4, <4>5
    <3>4. QED BY <3>1, <3>2, <3>3 DEF IsOwnFile, OwnKind
  <2>7. ASSUME NEW n, IsOwnFile(Append(t.dir, n)), n \in counting.names
        PROVE  \E pid \in DOMAIN counting.map : counting.map[pid] = n
    <3>1. CASE n \in t.names
        BY <1>9, <2>5, <2>7, <3>1
    <3>2. CASE n = name
        BY <2>5, <3>2
    <3>3. QED BY <2>4, <2>7, <3>1, <3>2
  <2>8. ASSUME NEW pid \in DOMAIN counting.map
        PROVE  /\ IsOwnFile(Append(t.dir, counting.map[pid]))
               /\ WorkOf(Append(t.dir, pid), Append(t.dir, counting.map[pid]), counting, pid)'
    <3>1. CASE pid \in DOMAIN t.map
      <4>1. /\ IsOwnFile(Append(t.dir, t.map[pid]))
            /\ WorkOf(Append(t.dir, pid), Append(t.dir, t.map[pid]), t, pid)
          BY <1>9, <3>1
      <4>2. WorkOf(Append(t.dir, pid), Append(t.dir, t.map[pid]), counting, pid)'
          BY <1>1, <2>1, <2>4, <4>1, WorkGoesOn
      <4>3. QED BY <2>5, <3>1, <4>1, <4>2
    <3>2. CASE pid = Pid
      <4>1. Append(t.dir, Pid) \notin DOMAIN source
          BY <1>0, <2>1, NoOutputYet
      <4>2. Running(Append(t.dir, pid), path, pid)'
          BY <2>1, <3>2 DEF Running
      <4>3. WorkOf(Append(t.dir, pid), path, counting, pid)'
          BY <1>1, <2>4, <3>2, <4>1, <4>2 DEF WorkOf
      <4>4. QED BY <2>5, <2>6, <3>2, <4>3
    <3>3. QED BY <2>5, <2>8, <3>1, <3>2
  <2>9. StoringWell(counting, L)'
    <3>1. DOMAIN counting.map \subseteq {Pids[k] : k \in 1 .. forks'}
        BY <1>9, <2>1, <2>5
    <3>2. QED BY <1>8, <1>9, <2>4, <2>7, <2>8, <3>1 DEF StoringWell, HasBeen
  <2>10. \A p \in Own : PendingIn(p, Top) => PendingIn(p, counting)'
      BY <1>0, <1>1, <2>4 DEF PendingIn
  <2>11. ASSUME NEW pid \in DOMAIN child'
         PROVE  child'[pid].path = Append(counting.dir, counting.map[pid])
    <3>1. CASE pid \in DOMAIN child
        BY <1>10, <2>1, <2>4, <2>5, <3>1
    <3>2. CASE pid = Pid
        BY <2>1, <2>4, <2>5, <3>2
    <3>3. QED BY <2>1, <3>1, <3>2
  <2>12. forks' \in Nat /\ forks <= forks'
      BY <1>3, <2>1
  <2>13. QED BY <1>1, <1>2, <1>3, <1>7, <1>12, <2>9, <2>10, <2>11, <2>12, TopStores
<1>13. QED BY <1>4, <1>11, <1>12, <1>20, <1>21
-------------------------------------------------------------------------------
(* The innermost frame goes on, nothing else but which children there are changes. *)
LEMMA TopGoesOn ==
    ASSUME IInv, Storing, ArchiveIsRight, StoresAll, phase' = "store",
           UNCHANGED <<compress, source, stored, failed, forks>>,
           DOMAIN child' \subseteq DOMAIN child,
           \A pid \in DOMAIN child' : child'[pid] = child[pid],
           \A pid \in DOMAIN child : child[pid].at # "zombie" => pid \in DOMAIN child',
           NEW t, t = Top, NEW g, stack' = WithTop(g), g.dir = t.dir, g.map = t.map,
           \/ t.at = "scan" /\ t.opened \subseteq t.names /\ g.at = "wait"
           \/ t.at = "wait" /\ g.at = "wait"
    PROVE  ArchiveIsRight' /\ StoresAll'
<1>1. PICK L \in Nat : L = Len(stack) /\ L > 0
    BY StoringFacts
<1>2. /\ OwnIsTree /\ t = stack[L] /\ StoringWell(t, L) /\ forks \in Nat /\ IsPath(t.dir)
      /\ \A n : Len(Append(t.dir, n)) = L
    BY <1>1, StoringLengths
<1>3. PICK q : q = Append(t.dir, "none") /\ Len(q) = L
    BY <1>2
<1>4. OnlyChanges(q) /\ StoredIsRight'
    BY NothingChanges, SameRight
<1>5. Own' = Own /\ (\A p : IsOwnFile(p)' <=> IsOwnFile(p)) /\ \A p : OwnKind(p)' = OwnKind(p)
    BY <1>4 DEF OnlyChanges, IsOwnFile, OwnKind
<1>6. /\ t.dir \in Own /\ OwnKind(t.dir) = "dir" /\ Len(t.dir) = L - 1
      /\ DOMAIN t.map \subseteq {Pids[k] : k \in 1 .. forks}
      /\ \A pid \in DOMAIN t.map :
           /\ IsOwnFile(Append(t.dir, t.map[pid]))
           /\ WorkOf(Append(t.dir, pid), Append(t.dir, t.map[pid]), t, pid)
    BY <1>2 DEF StoringWell
<1>7. ASSUME NEW n, IsOwnFile(Append(t.dir, n))
      PROVE  \E pid \in DOMAIN t.map : t.map[pid] = n
  <2>1. CASE t.at = "wait"
      BY <1>2, <1>7, <2>1 DEF StoringWell, HasBeen
  <2>2. CASE t.at = "scan" /\ t.opened \subseteq t.names
    <3>1. n \in t.opened
        BY <1>2, <1>7, <2>2 DEF StoringWell, IsOwnFile
    <3>2. QED BY <1>2, <1>7, <2>2, <3>1 DEF StoringWell, HasBeen
  <2>3. QED BY <2>1, <2>2
<1>8. ASSUME NEW pid \in DOMAIN t.map
      PROVE  WorkOf(Append(t.dir, pid), Append(t.dir, t.map[pid]), g, pid)'
    BY <1>6, WorkGoesOn
<1>9. StoringWell(g, L)'
  <2>1. g.at = "wait"
      OBVIOUS
  <2>2. QED BY <1>5, <1>6, <1>7, <1>8, <2>1 DEF StoringWell, HasBeen
<1>10. \A p \in Own : PendingIn(p, Top) => PendingIn(p, g)'
    BY DEF PendingIn
<1>11. \A pid \in DOMAIN child : child[pid].path = Append(t.dir, t.map[pid])
    BY DEF StoresAll, GzipsWell
<1>12. \A pid \in DOMAIN child' : child'[pid].path = Append(g.dir, g.map[pid])
    BY <1>11
<1>13. /\ forks' \in Nat /\ forks <= forks'
       /\ failed \subseteq failed' /\ DOMAIN stored \subseteq DOMAIN stored'
    BY <1>2
<1>14. QED BY <1>1, <1>3, <1>4, <1>9, <1>10, <1>12, <1>13, TopStores

(* All names have been returned: each own file has a child. *)
LEMMA EndScanWell ==
    ASSUME IInv, Storing, ArchiveIsRight, StoresAll, EndScan
    PROVE  ArchiveIsRight' /\ StoresAll'
<1>1. PICK t : t = Top
    OBVIOUS
<1>2. PICK g : g = [t EXCEPT !.at = "wait"]
    OBVIOUS
<1>3. IsFrame(t) /\ t.at = "scan"
    BY <1>1, StoringFacts DEF EndScan
<1>4. g.dir = t.dir /\ g.map = t.map /\ g.at = "wait"
    BY <1>2, <1>3 DEF IsFrame
<1>5. /\ stack' = WithTop(g) /\ phase' = "store" /\ t.opened \subseteq t.names
      /\ UNCHANGED <<compress, source, stored, failed, forks, child>>
    BY <1>1, <1>2 DEF EndScan
<1>6. QED BY <1>1, <1>3, <1>4, <1>5, TopGoesOn

(* A wait takes a child that has ended, which leaves what it was for as it is. *)
LEMMA WaitWell ==
    ASSUME IInv, Storing, ArchiveIsRight, StoresAll, phase = "store", WaitInDirectory
    PROVE  ArchiveIsRight' /\ StoresAll'
<1>1. PICK t : t = Top
    OBVIOUS
<1>2. PICK g : g = [t EXCEPT !.count = @ - 1]
    OBVIOUS
<1>3. IsFrame(t) /\ t.at = "wait"
    BY <1>1, StoringFacts DEF WaitInDirectory
<1>4. g.dir = t.dir /\ g.map = t.map /\ g.at = "wait"
    BY <1>2, <1>3 DEF IsFrame
<1>5. /\ stack' = WithTop(g) /\ phase' = "store" /\ WaitReturns
      /\ UNCHANGED <<compress, source, stored, failed, forks>>
    BY <1>1, <1>2 DEF WaitInDirectory
<1>6. /\ DOMAIN child' \subseteq DOMAIN child
      /\ \A pid \in DOMAIN child' : child'[pid] = child[pid]
      /\ \A pid \in DOMAIN child : child[pid].at # "zombie" => pid \in DOMAIN child'
  <2>1. CASE Reap
    <3>1. PICK gone \in DOMAIN child : child[gone].at = "zombie" /\ child' = Unlink(child, gone)
        BY <2>1 DEF Reap
    <3>2. /\ DOMAIN child' = DOMAIN child \ {gone}
          /\ \A pid \in DOMAIN child' : child'[pid] = child[pid]
        BY <3>1 DEF Unlink
    <3>3. QED BY <3>1, <3>2
  <2>2. CASE child' = child
      BY <2>2
  <2>3. QED BY <1>5, <2>1, <2>2 DEF WaitReturns
<1>7. QED BY <1>1, <1>3, <1>4, <1>5, <1>6, TopGoesOn

(* All children of the innermost frame have ended: the outputs are there. *)
LEMMA EndWaitWell ==
    ASSUME IInv, Storing, ArchiveIsRight, StoresAll, phase = "store", EndWait
    PROVE  ArchiveIsRight' /\ StoresAll'
<1>1. PICK t : t = Top
    OBVIOUS
<1>2. PICK g : g = [t EXCEPT !.at = "insert", !.names = {}]
    OBVIOUS
<1>3. IsFrame(t) /\ t.at = "wait" /\ Scans(t) /\ t.count = 0
    BY <1>1, StoringFacts DEF EndWait
<1>4. g.dir = t.dir /\ g.map = t.map /\ g.at = "insert" /\ g.names = {}
    BY <1>2, <1>3 DEF IsFrame
<1>5. /\ stack' = WithTop(g) /\ phase' = "store" /\ compress
      /\ UNCHANGED <<compress, source, stored, failed, forks, child>>
    BY <1>1, <1>2, <1>3 DEF EndWait, Scans
<1>6. DOMAIN child = {}
  <2>1. Cardinality(DOMAIN child) = 0 /\ IsFiniteSet(DOMAIN child)
      BY <1>1, <1>3 DEF Storing, IInv, ChildrenAreForked
  <2>2. QED BY <2>1, FS_EmptySet
<1>7. PICK L \in Nat : L = Len(stack) /\ L > 0
    BY StoringFacts
<1>8. /\ OwnIsTree /\ t = stack[L] /\ StoringWell(t, L) /\ forks \in Nat /\ IsPath(t.dir)
      /\ \A n : Len(Append(t.dir, n)) = L
    BY <1>1, <1>7, StoringLengths
<1>9. PICK q : q = Append(t.dir, "none") /\ Len(q) = L
    BY <1>8
<1>10. OnlyChanges(q) /\ StoredIsRight'
    BY <1>5, NothingChanges, SameRight
<1>11. Own' = Own /\ (\A p : IsOwnFile(p)' <=> IsOwnFile(p)) /\ \A p : OwnKind(p)' = OwnKind(p)
    BY <1>5, <1>10 DEF OnlyChanges, IsOwnFile, OwnKind
<1>12. /\ t.dir \in Own /\ OwnKind(t.dir) = "dir" /\ Len(t.dir) = L - 1
       /\ DOMAIN t.map \subseteq {Pids[k] : k \in 1 .. forks}
       /\ \A pid \in DOMAIN t.map :
            /\ IsOwnFile(Append(t.dir, t.map[pid]))
            /\ WorkOf(Append(t.dir, pid), Append(t.dir, t.map[pid]), t, pid)
       /\ \A n : IsOwnFile(Append(t.dir, n)) => \E pid \in DOMAIN t.map : t.map[pid] = n
    BY <1>3, <1>8 DEF StoringWell, HasBeen
<1>13. ASSUME NEW pid \in DOMAIN t.map
       PROVE  WorkOf(Append(t.dir, pid), Append(t.dir, t.map[pid]), g, pid)'
  <2>1. WorkOf(Append(t.dir, pid), Append(t.dir, t.map[pid]), t, pid)
      BY <1>12
  <2>2. ~Running(Append(t.dir, pid), Append(t.dir, t.map[pid]), pid)
      BY <1>6 DEF Running
  <2>3. QED BY <1>3, <1>5, <2>1, <2>2 DEF WorkOf
<1>14. StoringWell(g, L)'
    BY <1>4, <1>5, <1>11, <1>12, <1>13 DEF StoringWell, HasBeen
<1>15. ASSUME NEW p \in Own, PendingIn(p, Top)
       PROVE  p \in DOMAIN stored' \/ p \in failed' \/ PendingIn(p, g)'
  <2>1. IsStrictPrefix(t.dir, p)
      BY <1>1, <1>3, <1>15 DEF PendingIn
  <2>2. IsPath(p)
      BY <1>8 DEF OwnIsTree
  <2>3. PICK n : IsPrefix(Append(t.dir, n), p)
      BY <1>8, <2>1, <2>2, NextNameOn
  <2>4. CASE ~(p = Append(t.dir, n) /\ OwnKind(p) = "file")
    <3>1. ComesAs(p, g, n)'
        BY <1>4, <1>5, <1>11, <2>3, <2>4 DEF ComesAs
    <3>2. QED BY <1>4, <3>1 DEF PendingIn
  <2>5. CASE p = Append(t.dir, n) /\ OwnKind(p) = "file" /\ p \notin failed
    <3>1. PICK pid \in DOMAIN t.map : t.map[pid] = n
        BY <1>12, <2>5 DEF IsOwnFile
    <3>2. WorkOf(Append(t.dir, pid), p, t, pid)
        BY <1>12, <2>5, <3>1
    <3>3. ~Running(Append(t.dir, pid), p, pid)
        BY <1>6 DEF Running
    <3>4. Append(t.dir, pid) \in DOMAIN source
        BY <1>3, <2>5, <3>2, <3>3 DEF WorkOf
    <3>5. ComesZipped(p, g, pid)'
        BY <1>4, <1>5, <2>5, <3>1, <3>4 DEF ComesZipped
    <3>6. QED BY <1>4, <3>5 DEF PendingIn
  <2>6. QED BY <1>5, <2>4, <2>5
<1>16. /\ forks' \in Nat /\ forks <= forks'
       /\ failed \subseteq failed' /\ DOMAIN stored \subseteq DOMAIN stored'
    BY <1>5, <1>8
<1>17. \A pid \in DOMAIN child' : child'[pid].path = Append(g.dir, g.map[pid])
    BY <1>5, <1>6
<1>18. QED BY <1>5, <1>7, <1>9, <1>10, <1>14, <1>15, <1>16, <1>17, TopStores
-------------------------------------------------------------------------------
(* A child works on its output, or fails. *)
LEMMA RightStays ==
    ASSUME StoredIsRight, UNCHANGED <<compress, stored>>, NEW q, OnlyChanges(q),
           failed \subseteq failed', \A p \in failed' : p \in Own /\ OwnKind(p) = "file"
    PROVE  StoredIsRight'
<1>1. Own' = Own /\ \A p \in Own : OwnKind(p)' = OwnKind(p)
    BY DEF OnlyChanges, OwnKind
<1>2. ASSUME NEW p \in DOMAIN stored PROVE IsRight(p)'
  <2>1. IsRight(p) /\ p \in Own
      BY DEF StoredIsRight
  <2>2. QED BY <1>1, <2>1 DEF IsRight
<1>3. stored' = [p \in DOMAIN stored' |-> stored'[p]] /\ DOMAIN stored' \subseteq Own'
    BY <1>1 DEF StoredIsRight
<1>4. QED BY <1>1, <1>2, <1>3 DEF StoredIsRight

(* Nothing happens to the stack. *)
LEMMA SameTop ==
    ASSUME IsStack(stack), stack # <<>>
    PROVE  stack = WithTop(Top)
<1>1. PICK k \in Nat : k = Len(stack) /\ k > 0 /\ DOMAIN stack = 1 .. k
    BY DEF IsStack
<1>2. QED BY <1>1 DEF WithTop, Top, Last, IsStack

(* A gzip child creates its output, fills it, or fails. *)
LEMMA ChildWell ==
    ASSUME IInv, Storing, Types, ArchiveIsRight, StoresAll, phase = "store", ChildStep
    PROVE  ArchiveIsRight' /\ StoresAll'
<1>1. PICK t : t = Top
    OBVIOUS
<1>2. PICK L \in Nat : L = Len(stack) /\ L > 0
    BY StoringFacts
<1>3. /\ OwnIsTree /\ t = stack[L] /\ StoringWell(t, L) /\ forks \in Nat /\ IsPath(t.dir)
      /\ \A n : Len(Append(t.dir, n)) = L
      /\ DOMAIN t.map \subseteq Range(Pids)
    BY <1>1, <1>2, StoringLengths DEF Scans
<1>4. PICK pid \in DOMAIN child : OpenOutput(pid) \/ Gzip(pid) \/ Gunzip(pid) \/ RemoveZipped(pid)
    BY DEF ChildStep
<1>5. /\ child[pid].do = "gzip" /\ child[pid].dir = t.dir /\ pid \in DOMAIN t.map
      /\ child[pid].path = Append(t.dir, t.map[pid])
    BY <1>1 DEF Storing, GzipsInTop, StoresAll, GzipsWell
<1> DEFINE P == Append(t.dir, t.map[pid])
           Q == Append(t.dir, pid)
<1>6. IsOwnFile(P) /\ source[P] = File(P, 0)
  <2>1. IsOwnFile(P)
      BY <1>3, <1>5 DEF StoringWell
  <2> HIDE DEF P
  <2>2. source[P] = [kind |-> "file", of |-> P, zip |-> 0]
      BY <1>3, <2>1 DEF OwnIsTree, IsOwnFile
  <2>3. QED BY <2>1, <2>2 DEF File
<1>7. /\ \/ source' = Put(source, Q, Empty) /\ child' = [child EXCEPT ![pid].at = "open"]
            /\ failed' = failed
         \/ source' = source /\ child' = [child EXCEPT ![pid].at = "zombie"]
            /\ failed' = failed \cup {P}
         \/ source' = Put(source, Q, File(P, 1)) /\ child' = [child EXCEPT ![pid].at = "zombie"]
            /\ failed' = failed
      /\ UNCHANGED <<compress, stored, stack, forks, phase>>
  <2>1. CASE OpenOutput(pid)
      BY <1>5, <2>1 DEF OpenOutput, Output, Goes, ChildUnchanged
  <2>2. CASE Gzip(pid)
    <3>1. source[P].of = P /\ source[P].zip + 1 = 1
        BY <1>6 DEF File
    <3> HIDE DEF P
    <3>2. QED BY <1>5, <2>2, <3>1 DEF Gzip, Output, Goes, ChildUnchanged, P
  <2>3. ~Gunzip(pid) /\ ~RemoveZipped(pid)
      BY <1>5 DEF Gunzip, RemoveZipped
  <2>4. QED BY <1>4, <2>1, <2>2, <2>3
<1>8. PICK q : q = Q
    OBVIOUS
<1>9. PICK p : p = P
    OBVIOUS
<1>10. Len(q) = L
    BY <1>3, <1>8
<1>11. OthersStay(q)
  <2>1. CASE source' = source
      BY <2>1 DEF OthersStay
  <2>2. ASSUME NEW item, source' = Put(source, q, item)
        PROVE  OthersStay(q)
      BY <2>2 DEF Put, OthersStay
  <2>3. QED BY <1>7, <1>8, <2>1, <2>2
<1>12. OnlyChanges(q)
    BY <1>3, <1>5, <1>8, <1>11, OutputChanges
<1>13. failed \subseteq failed' /\ \A x \in failed' : x \in Own /\ OwnKind(x) = "file"
    BY <1>6, <1>7 DEF ArchiveIsRight, StoredIsRight, IsOwnFile
<1>14. StoredIsRight'
    BY <1>7, <1>12, <1>13, RightStays DEF ArchiveIsRight
<1>15. ASSUME NEW at, child' = [child EXCEPT ![pid].at = at]
       PROVE  /\ DOMAIN child' = DOMAIN child
              /\ \A x \in DOMAIN child : x # pid => child'[x] = child[x]
              /\ child'[pid].path = child[pid].path /\ child'[pid].at = at
  <2>1. child[pid] \in [do : {"gzip", "gunzip"}, dir : {child[pid].dir},
                         path : {child[pid].path}, at : {"start", "open", "zombie"}]
      BY DEF Types, Activities
  <2>2. QED BY <1>15, <2>1
<1>16. /\ DOMAIN child' = DOMAIN child
       /\ \A x \in DOMAIN child :
            (x # pid => child'[x] = child[x]) /\ child'[x].path = child[x].path
    BY <1>7, <1>15
<1>17. /\ q \in DOMAIN source => source[q] \in {Empty, File(p, 1)}
       /\ DOMAIN source \subseteq DOMAIN source'
       /\ q \in DOMAIN source' => source'[q] \in {Empty, File(p, 1)}
       /\ WorkOf(q, p, t, pid)
  <2>1. WorkOf(q, p, t, pid)
      BY <1>3, <1>5, <1>8, <1>9 DEF StoringWell
  <2>2. q \in DOMAIN source => source[q] \in {Empty, File(p, 1)}
      BY <2>1 DEF WorkOf
  <2>3. ASSUME NEW item \in {Empty, File(p, 1)}, source' = Put(source, q, item)
        PROVE  DOMAIN source \subseteq DOMAIN source' /\ source'[q] \in {Empty, File(p, 1)}
      BY <2>3 DEF Put
  <2>4. QED BY <1>7, <1>8, <1>9, <2>1, <2>2, <2>3
<1> HIDE DEF P, Q
<1>18. t.at # "insert"
  <2>1. IsFrame(t) /\ (t.at = "insert" => DOMAIN child = {})
      BY <1>1, StoringFacts
  <2>2. QED BY <2>1
<1>19. WorkOf(q, p, t, pid)'
  <2>1. CASE /\ source' = Put(source, Q, Empty) /\ child' = [child EXCEPT ![pid].at = "open"]
             /\ failed' = failed
    <3>1. q \in DOMAIN source'
        BY <1>8, <2>1 DEF Put
    <3>2. child'[pid].at = "open" /\ child'[pid].path = p /\ pid \in DOMAIN child'
        BY <1>5, <1>9, <1>15, <2>1 DEF P
    <3>3. Running(q, p, pid)'
        BY <3>1, <3>2 DEF Running
    <3>4. QED BY <1>17, <1>18, <3>3 DEF WorkOf
  <2>2. CASE source' = source /\ child' = [child EXCEPT ![pid].at = "zombie"]
             /\ failed' = failed \cup {P}
      BY <1>9, <1>17, <2>2 DEF WorkOf
  <2>3. CASE /\ source' = Put(source, Q, File(P, 1)) /\ child' = [child EXCEPT ![pid].at = "zombie"]
             /\ failed' = failed
    <3>1. q \in DOMAIN source' /\ source'[q] = File(p, 1)
        BY <1>8, <1>9, <2>3 DEF Put
    <3>2. QED BY <1>17, <3>1 DEF WorkOf
  <2>4. QED BY <1>7, <2>1, <2>2, <2>3
<1>20. ASSUME NEW x \in DOMAIN t.map
       PROVE  WorkOf(Append(t.dir, x), Append(t.dir, t.map[x]), t, x)'
  <2>1. CASE x = pid
      BY <1>8, <1>9, <1>19, <2>1 DEF P, Q
  <2>2. CASE x # pid
    <3> DEFINE o == Append(t.dir, x)
               r == Append(t.dir, t.map[x])
    <3>1. o # q
        BY <1>3, <1>8, <2>2, JoinAndSplit DEF Q
    <3>2. WorkOf(o, r, t, x)
        BY <1>3 DEF StoringWell
    <3> HIDE DEF o, r
    <3>3. /\ o \in DOMAIN source' <=> o \in DOMAIN source
          /\ o \in DOMAIN source => source'[o] = source[o]
        BY <1>11, <3>1 DEF OthersStay
    <3>4. Running(o, r, x) => Running(o, r, x)'
        BY <1>16, <2>2, <3>3 DEF Running
    <3>5. WorkOf(o, r, t, x)'
        BY <1>13, <3>2, <3>3, <3>4 DEF WorkOf
    <3>6. QED BY <3>5 DEF o, r
  <2>3. QED BY <2>1, <2>2
<1>21. /\ Own' = Own /\ \A x : IsOwnFile(x) <=> IsOwnFile(x)'
       /\ OwnKind(t.dir) = "dir" /\ t.dir \in Own
    BY <1>3, <1>12 DEF OnlyChanges, IsOwnFile, OwnKind, StoringWell
<1>22. OwnKind(t.dir)' = "dir"
  <2>1. PICK d : d = t.dir
      OBVIOUS
  <2>2. OwnKind(d)' = "dir"
      BY <1>12, <1>21, <2>1 DEF OnlyChanges, OwnKind
  <2>3. QED BY <2>1, <2>2
<1>23. StoringWell(t, L)'
  <2>1. /\ Len(t.dir) = L - 1 /\ DOMAIN t.map \subseteq {Pids[k] : k \in 1 .. forks}
        /\ \A x \in DOMAIN t.map : IsOwnFile(Append(t.dir, t.map[x]))
        /\ \A n : IsOwnFile(Append(t.dir, n)) /\ HasBeen(t, n) =>
             \E x \in DOMAIN t.map : t.map[x] = n
        /\ t.at = "scan" => \A n : Append(t.dir, n) \in Own => n \in t.opened
      BY <1>3 DEF StoringWell
  <2>2. \A x \in DOMAIN t.map : IsOwnFile(Append(t.dir, t.map[x]))'
      BY <1>21, <2>1
  <2>3. \A n : IsOwnFile(Append(t.dir, n))' => IsOwnFile(Append(t.dir, n))
      BY <1>21
  <2>4. QED BY <1>7, <1>20, <1>21, <1>22, <2>1, <2>2, <2>3 DEF StoringWell, HasBeen
<1>24. \A x \in Own : PendingIn(x, Top) => PendingIn(x, t)'
    BY <1>1, <1>18 DEF PendingIn
<1>25. \A x \in DOMAIN child' : child'[x].path = Append(t.dir, t.map[x])
  <2>1. \A x \in DOMAIN child : child[x].path = Append(t.dir, t.map[x])
      BY <1>1 DEF StoresAll, GzipsWell
  <2>2. QED BY <1>16, <2>1
<1>26. stack' = WithTop(t)
    BY <1>1, <1>7, StoringFacts, SameTop
<1>27. /\ forks' \in Nat /\ forks <= forks' /\ DOMAIN stored \subseteq DOMAIN stored'
       /\ phase' = "store" /\ compress' = compress
    BY <1>3, <1>7
<1>28. QED BY <1>2, <1>10, <1>12, <1>13, <1>14, <1>23, <1>24, <1>25, <1>26, <1>27, TopStores
-------------------------------------------------------------------------------
(* The second reading: an item is stored, *)
LEMMA ItemIsRight ==
    ASSUME StoredIsRight, UNCHANGED <<compress, failed>>, NEW q, OnlyChanges(q),
           NEW p \in Own, NEW item, stored' = Put(stored, p, item), IsRight(p)'
    PROVE  StoredIsRight' /\ DOMAIN stored \subseteq DOMAIN stored' /\ p \in DOMAIN stored'
<1>1. /\ DOMAIN stored' = DOMAIN stored \cup {p}
      /\ \A r \in DOMAIN stored : r # p => stored'[r] = stored[r]
      /\ stored' = [r \in DOMAIN stored' |-> stored'[r]]
    BY DEF Put
<1>2. Own' = Own /\ \A r \in Own : OwnKind(r)' = OwnKind(r)
    BY DEF OnlyChanges, OwnKind
<1>3. ASSUME NEW r \in DOMAIN stored' PROVE IsRight(r)'
  <2>1. CASE r = p
      BY <2>1
  <2>2. CASE r # p
    <3>1. r \in DOMAIN stored /\ stored'[r] = stored[r]
        BY <1>1, <2>2
    <3>2. IsRight(r) /\ r \in Own
        BY <3>1 DEF StoredIsRight
    <3>3. QED BY <1>2, <3>1, <3>2 DEF IsRight
  <2>3. QED BY <2>1, <2>2
<1>4. DOMAIN stored' \subseteq Own' /\ \A r \in failed' : r \in Own' /\ OwnKind(r)' = "file"
    BY <1>1, <1>2 DEF StoredIsRight
<1>5. QED BY <1>1, <1>3, <1>4 DEF StoredIsRight

(* and the frame has seen its name. *)
LEMMA InsertedWell ==
    ASSUME NEW t, NEW L, StoringWell(t, L), IsPath(t.dir), t.at = "insert",
           NEW f, f.at = "insert", f.dir = t.dir, f.map = t.map, NEW name,
           f.names = t.names \cup {name}, NEW q, q = Append(t.dir, name), OnlyChanges(q),
           source' = source \/ q \notin DOMAIN source',
           UNCHANGED <<child, failed, forks>>
    PROVE  StoringWell(f, L)'
<1>1. /\ t.dir \in Own /\ OwnKind(t.dir) = "dir" /\ Len(t.dir) = L - 1
      /\ DOMAIN t.map \subseteq {Pids[k] : k \in 1 .. forks}
      /\ \A pid \in DOMAIN t.map :
           /\ IsOwnFile(Append(t.dir, t.map[pid]))
           /\ WorkOf(Append(t.dir, pid), Append(t.dir, t.map[pid]), t, pid)
    BY DEF StoringWell
<1>2. /\ t.dir \in Own' /\ \A d : d \in Own /\ OwnKind(d) = "dir" => OwnKind(d)' = "dir"
      /\ \A x : IsOwnFile(x) => IsOwnFile(x)'
    BY <1>1 DEF OnlyChanges, OwnKind, IsOwnFile
<1>3. ASSUME NEW pid \in DOMAIN t.map
      PROVE  WorkOf(Append(t.dir, pid), Append(t.dir, t.map[pid]), f, pid)'
  <2>1. PICK o : o = Append(t.dir, pid)
      OBVIOUS
  <2>2. PICK r : r = Append(t.dir, t.map[pid])
      OBVIOUS
  <2>3. WorkOf(o, r, t, pid)
      BY <1>1, <2>1, <2>2
  <2>4. CASE source' = source
    <3>1. WorkOf(o, r, f, pid)'
        BY <2>3, <2>4 DEF WorkOf
    <3>2. QED BY <2>1, <2>2, <3>1
  <2>5. CASE pid = name /\ q \notin DOMAIN source'
    <3>1. o = q /\ pid \in f.names
        BY <2>1, <2>5
    <3>2. WorkOf(o, r, f, pid)'
        BY <2>5, <3>1 DEF WorkOf
    <3>3. QED BY <2>1, <2>2, <3>2
  <2>6. CASE pid # name
    <3>1. o # q
        BY <2>1, <2>6, JoinAndSplit
    <3>2. /\ o \in DOMAIN source' <=> o \in DOMAIN source
          /\ o \in DOMAIN source => source'[o] = source[o]
        BY <3>1 DEF OnlyChanges, OthersStay
    <3>3. WorkOf(o, r, f, pid)'
        BY <2>3, <3>2 DEF WorkOf
    <3>4. QED BY <2>1, <2>2, <3>3
  <2>7. QED BY <2>4, <2>5, <2>6
<1>4. PICK d : d = t.dir
    OBVIOUS
<1>5. f.dir \in Own' /\ OwnKind(d)' = "dir" /\ Len(f.dir) = L - 1
    BY <1>1, <1>2, <1>4
<1>6. \A pid \in DOMAIN f.map : /\ IsOwnFile(Append(f.dir, f.map[pid]))'
                                /\ WorkOf(Append(f.dir, pid), Append(f.dir, f.map[pid]), f, pid)'
    BY <1>1, <1>2, <1>3
<1>7. QED BY <1>1, <1>4, <1>5, <1>6 DEF StoringWell, HasBeen

(* A directory in the innermost one is entered. *)
LEMMA DirectoryStores ==
    ASSUME IInv, Storing, ArchiveIsRight, StoresAll, phase' = "store",
           NEW f, NEW g, stack' = Append(WithTop(f), g),
           UNCHANGED <<compress, source, failed, forks>>, DOMAIN child' = {},
           NEW L, L = Len(stack), StoringWell(f, L)', StoringWell(g, L + 1)',
           DOMAIN stored \subseteq DOMAIN stored', StoredIsRight',
           \A p \in Own : PendingIn(p, Top) =>
               p \in DOMAIN stored' \/ PendingIn(p, f)' \/ PendingIn(p, g)'
    PROVE  ArchiveIsRight' /\ StoresAll'
<1>1. L \in Nat /\ L > 0 /\ L = Len(stack) /\ Top = stack[L] /\ IsStack(stack) /\ stack # <<>>
    BY StoringFacts
<1>2. /\ Len(stack') = L + 1 /\ stack'[L] = f /\ stack'[L + 1] = g
      /\ \A i \in 1 .. L - 1 : stack'[i] = stack[i]
    BY <1>1, Pushed
<1>3. PICK q : Len(q) = L
  <2>1. \A n : Len(Append(stack[L].dir, n)) = L
      BY <1>1, StoringLengths
  <2>2. Len(Append(stack[L].dir, "none")) = L
      BY <2>1
  <2>3. QED BY <2>2
<1>4. OnlyChanges(q)
    BY NothingChanges
<1>5. ASSUME NEW i \in 1 .. L - 1
      PROVE  /\ stack'[i] = stack[i] /\ StoringWell(stack[i], i)'
             /\ \A p \in Own : PendingIn(p, stack[i]) => PendingIn(p, stack[i])'
  <2>1. /\ StoringWell(stack[i], i) /\ stack[i].at = "insert"
        /\ forks \in Nat /\ stack'[i] = stack[i]
        /\ \A n : Len(Append(stack[i].dir, n)) = i
      BY <1>1, <1>2, StoringLengths
  <2>2. PICK h : h = stack[i]
      OBVIOUS
  <2>3. Len(q) # i /\ failed \subseteq failed' /\ forks' \in Nat /\ forks <= forks'
      BY <1>1, <1>3, <2>1
  <2>4. StoringWell(h, i)'
      BY <1>4, <2>1, <2>2, <2>3, OuterStoresWell
  <2>5. \A p \in Own : PendingIn(p, h) => PendingIn(p, h)'
      BY <1>4, <2>1, <2>2, <2>3, OuterPending
  <2>6. QED BY <2>1, <2>2, <2>4, <2>5
<1>6. ASSUME NEW i \in 1 .. L + 1 PROVE StoringWell(stack[i], i)'
  <2>1. i \in 1 .. L - 1 \/ i = L \/ i = L + 1
      BY <1>1
  <2>2. QED BY <1>2, <1>5, <2>1
<1>7. ASSUME NEW p \in Own' PROVE p \in DOMAIN stored' \/ p \in failed' \/ Pending(p)'
  <2>1. p \in Own
      BY <1>4 DEF OnlyChanges
  <2>2. p \in DOMAIN stored \/ p \in failed \/ Pending(p)
      BY <2>1 DEF ArchiveIsRight
  <2>3. CASE Pending(p)
    <3>1. PICK i \in 1 .. L : PendingIn(p, stack[i])
        BY <1>1, <2>3 DEF Pending
    <3>2. CASE i = L
      <4>1. p \in DOMAIN stored' \/ PendingIn(p, stack[L])' \/ PendingIn(p, stack[L + 1])'
          BY <1>1, <1>2, <2>1, <3>1, <3>2
      <4>2. L \in 1 .. Len(stack') /\ L + 1 \in 1 .. Len(stack')
          BY <1>1, <1>2
      <4>3. QED BY <4>1, <4>2 DEF Pending
    <3>3. CASE i # L
      <4>1. i \in 1 .. L - 1 /\ i \in 1 .. Len(stack')
          BY <1>1, <1>2, <3>3
      <4>2. PendingIn(p, stack[i])'
          BY <1>5, <2>1, <3>1, <4>1
      <4>3. QED BY <4>1, <4>2 DEF Pending
    <3>4. QED BY <3>2, <3>3
  <2>4. QED BY <2>2, <2>3
<1>8. QED BY <1>2, <1>6, <1>7 DEF ArchiveIsRight, StoresAll
(* What a name in the innermost directory is, which the second reading comes to. *)
LEMMA InsertedName ==
    ASSUME IInv, Storing, StoresAll, NEW t, t = Top, t.at = "insert",
           NEW name \in NamesIn(source, t.dir), name \notin t.names,
           NEW q, q = Append(t.dir, name)
    PROVE  /\ q \in DOMAIN source
           /\ name \notin DOMAIN t.map \/ source[q].kind = "dir" =>
                q \in Own /\ name \notin DOMAIN t.map
           /\ name \in DOMAIN t.map =>
                /\ IsOwnFile(Append(t.dir, t.map[name])) /\ compress
                /\ q \notin Own
                /\ \/ source[q] = File(Append(t.dir, t.map[name]), 1)
                   \/ source[q] = Empty /\ Append(t.dir, t.map[name]) \in failed
<1>1. PICK L \in Nat : L = Len(stack) /\ L > 0
    BY StoringFacts
<1>2. /\ t = stack[L] /\ StoringWell(t, L) /\ IsPath(t.dir) /\ Scans(t)
    BY <1>1, StoringLengths
<1>3. PICK s \in Sources : OnlyOutputsAreNew(s) /\ Own = DOMAIN s
    BY OwnWhileStored
<1>4. q \in DOMAIN source
    BY NamesArePaths
<1>5. ASSUME name \in DOMAIN t.map
      PROVE  /\ IsOwnFile(Append(t.dir, t.map[name])) /\ compress /\ q \notin Own
             /\ source[q].kind = "file"
             /\ \/ source[q] = File(Append(t.dir, t.map[name]), 1)
                \/ source[q] = Empty /\ Append(t.dir, t.map[name]) \in failed
  <2>1. IsOwnFile(Append(t.dir, t.map[name])) /\ WorkOf(q, Append(t.dir, t.map[name]), t, name)
      BY <1>2, <1>5 DEF StoringWell
  <2>2. compress /\ name \in Range(Pids)
      BY <1>2, <1>5 DEF Scans
  <2>3. q # <<>> /\ Last(q) = name
      BY <1>2, JoinAndSplit
  <2>4. q \notin Own
      BY <2>2, <2>3 DEF Own
  <2>5. PICK p : p = Append(t.dir, t.map[name])
      OBVIOUS
  <2>6. source[q] = File(p, 1) \/ (source[q] = Empty /\ p \in failed)
      BY <1>4, <2>1, <2>5 DEF WorkOf
  <2>7. source[q].kind = "file"
      BY <2>6 DEF File, Empty
  <2>8. QED BY <2>1, <2>2, <2>4, <2>5, <2>6, <2>7
<1>6. ASSUME name \notin DOMAIN t.map PROVE q \in Own
  <2>1. SUFFICES ASSUME q \notin DOMAIN s PROVE FALSE
      BY <1>3
  <2>2. PICK i \in 1 .. L : IsOutput(q, stack[i])
      BY <1>1, <1>3, <1>4, <2>1 DEF OnlyOutputsAreNew
  <2>3. PICK pid \in DOMAIN stack[i].map : q = Append(stack[i].dir, pid)
      BY <2>2 DEF IsOutput
  <2>4. Len(q) = L /\ Len(Append(stack[i].dir, pid)) = i
      BY <1>1, <1>2, StoringLengths
  <2>5. i = L
      BY <2>3, <2>4
  <2>6. pid = name
      BY <1>2, <2>3, <2>5, JoinAndSplit
  <2>7. QED BY <1>2, <1>6, <2>3, <2>5, <2>6
<1>7. QED BY <1>4, <1>5, <1>6

(* What was pending in the innermost frame still is, or came under the name. *)
LEMMA StillPending ==
    ASSUME NEW t, t.at = "insert", IsPath(t.dir), NEW f, f.at = "insert", f.dir = t.dir,
           f.map = t.map, NEW name, f.names = t.names \cup {name},
           NEW q, q = Append(t.dir, name), OnlyChanges(q), compress' = compress,
           NEW p \in Own, PendingIn(p, t), OwnIsTree
    PROVE  \/ PendingIn(p, f)'
           \/ name \in DOMAIN t.map /\ p = Append(t.dir, t.map[name]) /\ q \in DOMAIN source
           \/ p = q /\ ~(compress /\ OwnKind(q) = "file")
           \/ q # p /\ q \in Own /\ OwnKind(q) = "dir" /\ IsStrictPrefix(q, p)
<1>1. PICK n : ComesAs(p, t, n) \/ ComesZipped(p, t, n)
    BY DEF PendingIn
<1>2. CASE ComesAs(p, t, n) /\ n # name
  <2>1. ComesAs(p, f, n)'
      BY <1>2 DEF ComesAs, OnlyChanges, OwnKind
  <2>2. QED BY <2>1 DEF PendingIn
<1>3. CASE ComesZipped(p, t, n) /\ n # name
  <2>1. Append(t.dir, n) # q
      BY <1>3, JoinAndSplit
  <2>2. PICK o : o = Append(t.dir, n)
      OBVIOUS
  <2>3. o \in DOMAIN source' <=> o \in DOMAIN source
      BY <2>1, <2>2 DEF OnlyChanges, OthersStay
  <2>4. ComesZipped(p, f, n)'
      BY <1>3, <2>2, <2>3 DEF ComesZipped
  <2>5. QED BY <2>4 DEF PendingIn
<1>4. CASE ComesZipped(p, t, n) /\ n = name
    BY <1>4 DEF ComesZipped
<1>5. CASE ComesAs(p, t, n) /\ n = name
  <2>1. IsPrefix(q, p) /\ (p = q => ~(compress /\ OwnKind(p) = "file"))
      BY <1>5 DEF ComesAs
  <2>2. IsPath(q)
      BY AppendIs
  <2>3. CASE q # p
    <3>1. q \in Own /\ OwnKind(q) = "dir"
        BY <2>1, <2>2, <2>3 DEF OwnIsTree
    <3>2. QED BY <2>1, <2>3, <3>1 DEF IsStrictPrefix
  <2>4. QED BY <2>1, <2>3
<1>6. QED BY <1>1, <1>2, <1>3, <1>4, <1>5

(* A name is inserted: a directory is entered, an output comes across as its file. *)
LEMMA InsertWell ==
    ASSUME IInv, Storing, Types, ArchiveIsRight, StoresAll, InsertName
    PROVE  ArchiveIsRight' /\ StoresAll'
<1>1. PICK t : t = Top
    OBVIOUS
<1>2. PICK L \in Nat : L = Len(stack) /\ L > 0
    BY StoringFacts
<1>3. /\ OwnIsTree /\ t = stack[L] /\ StoringWell(t, L) /\ forks \in Nat /\ IsPath(t.dir)
      /\ (\A n : Len(Append(t.dir, n)) = L) /\ IsFrame(t) /\ Scans(t)
      /\ t.at = "insert" /\ DOMAIN child = {}
      /\ phase' = "store" /\ UNCHANGED <<compress, child, forks, failed>>
    BY <1>1, <1>2, StoringFacts, StoringLengths DEF InsertName
<1>4. PICK name \in NamesIn(source, t.dir) \ t.names :
         LET path == Append(t.dir, name)
             kind == source[path].kind
             output == kind # "dir" /\ name \in DOMAIN t.map
             taken == kind # "dir" /\ ~output /\ (kind = "link" \/ ~compress)
             f == [t EXCEPT !.names = @ \cup {name}]
         IN  \/ /\ kind = "dir"
                /\ stored' = Put(stored, path, Directory)
                /\ stack' = Append(WithTop(f), Scanning(path))
                /\ UNCHANGED source
             \/ /\ kind # "dir" /\ output
                /\ stored' = Put(stored, Append(t.dir, t.map[name]),
                                 Stored(path, source[path].of, TRUE))
                /\ source' = AfterInsert(path)
                /\ stack' = WithTop(f)
             \/ /\ kind # "dir" /\ taken
                /\ \E of \in ReadBack(path) :
                     stored' = Put(stored, path, Stored(path, of, FALSE))
                /\ stack' = WithTop(f)
                /\ UNCHANGED source
             \/ /\ kind # "dir" /\ ~output /\ ~taken
                /\ stack' = WithTop(f) /\ UNCHANGED <<stored, source>>
    BY <1>1 DEF InsertName, ItemName
<1>5. PICK q : q = Append(t.dir, name)
    OBVIOUS
<1>6. PICK f : f = [t EXCEPT !.names = @ \cup {name}]
    OBVIOUS
<1>7. f.dir = t.dir /\ f.at = "insert" /\ f.names = t.names \cup {name} /\ f.map = t.map
    BY <1>3, <1>6 DEF IsFrame
<1>8. /\ q \in DOMAIN source
      /\ name \notin DOMAIN t.map \/ source[q].kind = "dir" => q \in Own /\ name \notin DOMAIN t.map
      /\ name \in DOMAIN t.map =>
           /\ IsOwnFile(Append(t.dir, t.map[name])) /\ compress
           /\ q \notin Own
           /\ \/ source[q] = File(Append(t.dir, t.map[name]), 1)
              \/ source[q] = Empty /\ Append(t.dir, t.map[name]) \in failed
    BY <1>1, <1>3, <1>5, InsertedName
<1>9. Len(q) = L
    BY <1>3, <1>5
<1>10. StoredIsRight
    BY DEF ArchiveIsRight
<1> DEFINE Comes(p) == \/ name \in DOMAIN t.map /\ p = Append(t.dir, t.map[name])
                       \/ p = q /\ ~(compress /\ OwnKind(q) = "file")
                       \/ q # p /\ q \in Own /\ OwnKind(q) = "dir"
<1>11. ASSUME OnlyChanges(q), source' = source \/ q \notin DOMAIN source', stack' = WithTop(f),
              DOMAIN stored \subseteq DOMAIN stored', StoredIsRight',
              \A p \in Own : Comes(p) => p \in DOMAIN stored'
       PROVE  ArchiveIsRight' /\ StoresAll'
  <2>1. StoringWell(f, L)'
      BY <1>3, <1>5, <1>7, <1>11, InsertedWell
  <2>2. ASSUME NEW p \in Own, PendingIn(p, Top)
        PROVE  p \in DOMAIN stored' \/ p \in failed' \/ PendingIn(p, f)'
    <3>1. PendingIn(p, t)
        BY <1>1, <2>2
    <3>2. \/ PendingIn(p, f)'
          \/ name \in DOMAIN t.map /\ p = Append(t.dir, t.map[name])
          \/ p = q /\ ~(compress /\ OwnKind(q) = "file")
          \/ q # p /\ q \in Own /\ OwnKind(q) = "dir"
        BY <1>3, <1>5, <1>7, <1>11, <2>2, <3>1, StillPending
    <3>3. QED BY <1>11, <2>2, <3>2
  <2>3. /\ forks' \in Nat /\ forks <= forks' /\ failed \subseteq failed'
        /\ \A pid \in DOMAIN child' : child'[pid].path = Append(f.dir, f.map[pid])
      BY <1>3
  <2>4. QED BY <1>2, <1>3, <1>9, <1>11, <2>1, <2>2, <2>3, TopStores
<1>12. ASSUME source' = source PROVE OnlyChanges(q)
    BY <1>12, NothingChanges
<1>13. CASE /\ source[q].kind = "dir"
            /\ stored' = Put(stored, q, Directory)
            /\ stack' = Append(WithTop(f), Scanning(q))
            /\ UNCHANGED source
  <2>1. PICK g : g = Scanning(q)
      OBVIOUS
  <2>2. /\ g.dir = q /\ g.at = (IF compress THEN "scan" ELSE "insert") /\ g.names = {}
        /\ g.opened = NamesIn(source, q) /\ DOMAIN g.map = {}
      BY <2>1 DEF Scanning
  <2>3. q \in Own /\ OwnKind(q) = "dir" /\ IsPath(q) /\ OnlyChanges(q)
        /\ name \notin DOMAIN t.map
      BY <1>3, <1>8, <1>12, <1>13 DEF OwnKind, OwnIsTree
  <2>4. Own' = Own /\ OwnKind(q)' = "dir"
      BY <1>13, <2>3 DEF OnlyChanges, OwnKind
  <2>5. stored'[q] = Directory
      BY <1>13 DEF Put
  <2>6. IsRight(q)'
      BY <2>4, <2>5 DEF IsRight
  <2>7. StoredIsRight' /\ DOMAIN stored \subseteq DOMAIN stored' /\ q \in DOMAIN stored'
      BY <1>3, <1>10, <1>13, <2>3, <2>6, ItemIsRight
  <2>8. StoringWell(f, L)'
      BY <1>3, <1>5, <1>7, <1>13, <2>3, InsertedWell
  <2>9. StoringWell(g, L + 1)'
    <3>1. \A n : Append(q, n) \in Own => n \in g.opened
        BY <2>2, <2>3, PathsAreNamed DEF OwnIsTree, Own
    <3>2. (L + 1) - 1 = L
        BY <1>2
    <3>3. \A n : ~HasBeen(g, n)
        BY <2>2 DEF HasBeen
    <3>4. QED BY <1>9, <2>2, <2>3, <2>4, <3>1, <3>2, <3>3 DEF StoringWell, HasBeen
  <2>10. ASSUME NEW p \in Own, PendingIn(p, Top)
         PROVE  p \in DOMAIN stored' \/ PendingIn(p, f)' \/ PendingIn(p, g)'
    <3>1. \/ PendingIn(p, f)'
          \/ p = q
          \/ q # p /\ IsStrictPrefix(q, p)
        BY <1>1, <1>3, <1>5, <1>7, <2>3, <2>10, StillPending
    <3>2. CASE q # p /\ IsStrictPrefix(q, p)
      <4>1. CASE g.at = "scan"
          BY <2>2, <3>2, <4>1 DEF PendingIn
      <4>2. CASE g.at = "insert"
        <5>1. PICK n : IsPrefix(Append(q, n), p)
            BY <1>3, <2>3, <3>2, NextNameOn DEF OwnIsTree
        <5>2. ~compress'
            BY <1>3, <2>2, <4>2
        <5>3. ComesAs(p, g, n)'
            BY <2>2, <5>1, <5>2 DEF ComesAs
        <5>4. QED BY <4>2, <5>3 DEF PendingIn
      <4>3. QED BY <2>2, <4>1, <4>2
    <3>3. QED BY <2>7, <3>1, <3>2
  <2>11. stack' = Append(WithTop(f), g) /\ DOMAIN child' = {}
      BY <1>3, <1>13, <2>1
  <2>12. QED BY <1>2, <1>3, <1>13, <2>7, <2>8, <2>9, <2>10, <2>11, DirectoryStores
<1>14. CASE /\ source[q].kind # "dir" /\ name \in DOMAIN t.map
            /\ stored' = Put(stored, Append(t.dir, t.map[name]),
                             Stored(q, source[q].of, TRUE))
            /\ source' = AfterInsert(q)
            /\ stack' = WithTop(f)
  <2>1. PICK p : p = Append(t.dir, t.map[name])
      OBVIOUS
  <2>2. /\ p \in Own /\ OwnKind(p) = "file" /\ compress /\ q \notin Own
        /\ source[q] = File(p, 1) \/ (source[q] = Empty /\ p \in failed)
        /\ name \in Range(Pids)
      BY <1>3, <1>8, <1>14, <2>1 DEF IsOwnFile, Scans
  <2>3. OthersStay(q) /\ q \notin DOMAIN source'
      BY <1>14 DEF AfterInsert, Unlink, OthersStay
  <2>4. OnlyChanges(q)
      BY <1>3, <1>5, <2>2, <2>3, OutputChanges
  <2>5. /\ stored'[p] = Stored(q, source[q].of, TRUE)
        /\ stored' = Put(stored, p, Stored(q, source[q].of, TRUE))
      BY <1>14, <2>1 DEF Put
  <2>6. \/ stored'[p] = [kind |-> "file", of |-> p, zip |-> 1, zipped |-> TRUE]
        \/ /\ p \in failed
           /\ stored'[p] = [kind |-> "file", of |-> Nothing, zip |-> 0, zipped |-> TRUE]
    <3>1. /\ source[q] = File(p, 1) => /\ source[q].kind = "file" /\ source[q].of = p
                                      /\ source[q].zip = 1
          /\ source[q] = Empty => /\ source[q].kind = "file" /\ source[q].of = Nothing
                                 /\ source[q].zip = 0
        BY DEF File, Empty
    <3>2. QED BY <2>2, <2>5, <3>1 DEF Stored
  <2>7. OwnKind(p)' = "file"
      BY <2>2, <2>4 DEF OnlyChanges, OwnKind
  <2>8. IsRight(p)'
      BY <1>3, <2>2, <2>6, <2>7 DEF IsRight
  <2>9. StoredIsRight' /\ DOMAIN stored \subseteq DOMAIN stored' /\ p \in DOMAIN stored'
      BY <1>3, <1>10, <2>2, <2>4, <2>5, <2>8, ItemIsRight
  <2>10. \A x \in Own : Comes(x) => x \in DOMAIN stored'
      BY <2>1, <2>2, <2>9
  <2>11. QED BY <1>11, <1>14, <2>3, <2>4, <2>9, <2>10
<1>15. CASE /\ source[q].kind # "dir" /\ name \notin DOMAIN t.map
            /\ source[q].kind = "link" \/ ~compress
            /\ \E of \in ReadBack(q) : stored' = Put(stored, q, Stored(q, of, FALSE))
            /\ stack' = WithTop(f)
            /\ UNCHANGED source
  <2>1. q \in Own /\ OnlyChanges(q) /\ OwnKind(q) # "dir" /\ (OwnKind(q) = "link" \/ ~compress)
      BY <1>8, <1>12, <1>15 DEF OwnKind
  <2>2. source[q] = [kind |-> OwnKind(q), of |-> q, zip |-> 0]
      BY <1>3, <2>1 DEF OwnIsTree
  <2>9. PICK of \in ReadBack(q) : stored' = Put(stored, q, Stored(q, of, FALSE))
      BY <1>15
  <2>10. of = q \/ (OwnKind(q) = "link" /\ of = Overrun)
      BY <2>2 DEF ReadBack, OwnKind
  <2>3. stored'[q] = [kind |-> OwnKind(q), of |-> of, zip |-> 0, zipped |-> FALSE]
      BY <2>2, <2>9 DEF Put, Stored
  <2>4. OwnKind(q)' = OwnKind(q)
      BY <1>15 DEF OwnKind
  <2>5. IsRight(q)'
      BY <1>3, <2>1, <2>3, <2>4, <2>10 DEF IsRight
  <2>6. StoredIsRight' /\ DOMAIN stored \subseteq DOMAIN stored' /\ q \in DOMAIN stored'
      BY <1>3, <1>10, <2>1, <2>5, <2>9, ItemIsRight
  <2>7. \A x \in Own : Comes(x) => x \in DOMAIN stored'
      BY <1>15, <2>1, <2>6
  <2>8. QED BY <1>11, <1>15, <2>1, <2>6, <2>7
<1>16. CASE /\ source[q].kind # "dir" /\ name \notin DOMAIN t.map
            /\ source[q].kind # "link" /\ compress
            /\ stack' = WithTop(f) /\ UNCHANGED <<stored, source>>
  <2>1. q \in Own /\ OnlyChanges(q) /\ OwnKind(q) = "file"
      BY <1>3, <1>8, <1>12, <1>16 DEF OwnKind, OwnIsTree, Kinds
  <2>2. StoredIsRight'
      BY <1>3, <1>16, SameRight
  <2>3. \A x \in Own : Comes(x) => x \in DOMAIN stored'
      BY <1>16, <2>1
  <2>4. QED BY <1>11, <1>16, <2>1, <2>2, <2>3
<1>17. QED
  <2>1. /\ f = [t EXCEPT !.names = @ \cup {name}] /\ q = Append(t.dir, name)
      BY <1>5, <1>6
  <2>2. QED BY <1>4, <1>13, <1>14, <1>15, <1>16, <2>1
(* The second reading of a directory ends when nothing more is to come across in it. *)
LEMMA LeaveWell ==
    ASSUME IInv, Storing, ArchiveIsRight, StoresAll, LeaveInserted
    PROVE  ArchiveIsRight' /\ (phase' = "store" => StoresAll')
<1>1. PICK t : t = Top
    OBVIOUS
<1>2. PICK L \in Nat : L = Len(stack) /\ L > 0
    BY StoringFacts
<1>3. /\ OwnIsTree /\ t = stack[L] /\ StoringWell(t, L) /\ forks \in Nat /\ IsPath(t.dir)
      /\ (\A n : Len(Append(t.dir, n)) = L)
      /\ t.at = "insert" /\ DOMAIN child = {} /\ NamesIn(source, t.dir) \subseteq t.names
      /\ UNCHANGED <<compress, source, stored, child, forks, failed>>
      /\ IsStack(stack) /\ stack # <<>>
    BY <1>1, <1>2, StoringFacts, StoringLengths DEF LeaveInserted
<1>4. /\ Len(stack') = L - 1 /\ \A i \in 1 .. L - 1 : stack'[i] = stack[i]
      /\ phase' = IF L = 1 THEN "choose" ELSE "store"
    BY <1>2, <1>3, Popped DEF LeaveInserted
<1>5. PICK q : Len(q) = L
  <2>1. Len(Append(t.dir, "none")) = L
      BY <1>3
  <2>2. QED BY <2>1
<1>6. OnlyChanges(q) /\ StoredIsRight'
    BY <1>3, NothingChanges, SameRight
<1>7. ASSUME NEW p \in Own, PendingIn(p, t) PROVE FALSE
  <2>1. PICK n : ComesAs(p, t, n) \/ ComesZipped(p, t, n)
      BY <1>3, <1>7 DEF PendingIn
  <2>2. n \notin t.names
      BY <2>1 DEF ComesAs, ComesZipped
  <2>3. Append(t.dir, n) \in DOMAIN source
    <3>1. CASE ComesZipped(p, t, n)
        BY <3>1 DEF ComesZipped
    <3>2. CASE ComesAs(p, t, n)
      <4>1. IsPrefix(Append(t.dir, n), p) /\ IsPath(Append(t.dir, n))
          BY <1>3, <3>2, AppendIs DEF ComesAs
      <4>2. Append(t.dir, n) \in Own
        <5>1. PICK o : o = Append(t.dir, n)
            OBVIOUS
        <5>2. o = p \/ o \in Own
            BY <1>3, <4>1, <5>1 DEF OwnIsTree
        <5>3. QED BY <5>1, <5>2
      <4>3. QED BY <1>3, <4>2 DEF OwnIsTree
    <3>3. QED BY <2>1, <3>1, <3>2
  <2>4. QED BY <1>3, <2>2, <2>3, PathsAreNamed
<1>8. ASSUME NEW i \in 1 .. L - 1
      PROVE  /\ stack'[i] = stack[i] /\ StoringWell(stack[i], i)'
             /\ \A p \in Own : PendingIn(p, stack[i]) => PendingIn(p, stack[i])'
  <2>1. /\ StoringWell(stack[i], i) /\ stack[i].at = "insert"
        /\ forks \in Nat /\ stack'[i] = stack[i]
        /\ \A n : Len(Append(stack[i].dir, n)) = i
      BY <1>2, <1>4, StoringLengths
  <2>2. PICK h : h = stack[i]
      OBVIOUS
  <2>3. Len(q) # i /\ failed \subseteq failed' /\ forks' \in Nat /\ forks <= forks'
      BY <1>2, <1>3, <1>5, <2>1
  <2>4. StoringWell(h, i)'
      BY <1>6, <2>1, <2>2, <2>3, OuterStoresWell
  <2>5. \A p \in Own : PendingIn(p, h) => PendingIn(p, h)'
      BY <1>3, <1>6, <2>1, <2>2, <2>3, OuterPending
  <2>6. QED BY <2>1, <2>2, <2>4, <2>5
<1>9. ASSUME NEW p \in Own'
      PROVE  p \in DOMAIN stored' \/ p \in failed' \/ (phase' = "store" /\ Pending(p)')
  <2>1. p \in Own
      BY <1>6 DEF OnlyChanges
  <2>2. p \in DOMAIN stored \/ p \in failed \/ Pending(p)
      BY <2>1 DEF ArchiveIsRight
  <2>3. CASE Pending(p)
    <3>1. PICK i \in 1 .. L : PendingIn(p, stack[i])
        BY <1>2, <2>3 DEF Pending
    <3>2. i # L
        BY <1>3, <1>7, <2>1, <3>1
    <3>3. i \in 1 .. L - 1 /\ i \in 1 .. Len(stack') /\ L # 1
        BY <1>2, <1>4, <3>2
    <3>4. PendingIn(p, stack[i])'
        BY <1>8, <2>1, <3>1, <3>3
    <3>5. QED BY <1>4, <3>3, <3>4 DEF Pending
  <2>4. QED BY <1>3, <2>2, <2>3
<1>10. ArchiveIsRight'
    BY <1>6, <1>9 DEF ArchiveIsRight
<1>11. StoresAll'
    BY <1>3, <1>4, <1>8 DEF StoresAll
<1>12. QED BY <1>10, <1>11

(* Nothing has come across when the storing starts, and all of it has to. *)
LEMMA InitTrip == Init => TripInv
<1> SUFFICES ASSUME Init PROVE TripInv
    OBVIOUS
<1> USE DEF Init
<1>1. PICK s \in Sources : source = Tree(s)
    OBVIOUS
<1>2. Own = DOMAIN source /\ OwnIsTree
    BY <1>1, OwnOfTree
<1>3. PICK f : f = Scanning(<<>>) /\ stack = <<f>>
    OBVIOUS
<1>4. /\ f.dir = <<>> /\ f.at = (IF compress THEN "scan" ELSE "insert") /\ f.names = {}
      /\ f.opened = NamesIn(source, <<>>) /\ DOMAIN f.map = {}
      /\ Len(stack) = 1 /\ stack[1] = f
    BY <1>3 DEF Scanning
<1>5. DOMAIN stored = {<<>>} /\ stored[<<>>] = Directory
    OBVIOUS
<1>6. IsRight(<<>>)
    BY <1>2, <1>5 DEF IsRight, OwnIsTree
<1>7. StoredIsRight
    BY <1>2, <1>5, <1>6 DEF StoredIsRight, OwnIsTree
<1>8. IsPath(<<>>) /\ Len(<<>>) = 0
    BY DEF IsPath
<1>9. ASSUME NEW p \in Own, p # <<>> PROVE Pending(p)
  <2>1. IsPath(p)
      BY <1>2 DEF OwnIsTree
  <2>2. IsStrictPrefix(<<>>, p)
    <3>1. PICK d : d = <<>>
        OBVIOUS
    <3>2. IsPath(d) /\ Len(d) = 0 /\ Len(p) \in Nat
        BY <1>8, <2>1, <3>1 DEF IsPath
    <3>3. IsPrefix(d, p)
        BY <2>1, <3>2, PrefixIs
    <3>4. QED BY <1>9, <3>1, <3>3 DEF IsStrictPrefix
  <2>3. PendingIn(p, f)
    <3>1. CASE f.at = "scan"
        BY <1>4, <2>2, <3>1 DEF PendingIn
    <3>2. CASE f.at = "insert"
      <4>1. PICK n : IsPrefix(Append(<<>>, n), p)
          BY <1>8, <2>1, <2>2, NextNameOn
      <4>2. ComesAs(p, f, n)
          BY <1>4, <3>2, <4>1 DEF ComesAs
      <4>3. QED BY <3>2, <4>2 DEF PendingIn
    <3>3. QED BY <1>4, <3>1, <3>2
  <2>4. 1 \in 1 .. Len(stack)
      BY <1>4
  <2>5. QED BY <1>4, <2>3, <2>4 DEF Pending
<1>10. ArchiveIsRight
    BY <1>5, <1>7, <1>9 DEF ArchiveIsRight
<1>11. StoringWell(f, 1)
  <2>1. <<>> \in Own /\ OwnKind(<<>>) = "dir"
      BY <1>2 DEF OwnIsTree
  <2>2. \A n : Append(<<>>, n) \in Own => n \in f.opened
    <3>1. PICK d : d = <<>>
        OBVIOUS
    <3>2. \A n : Append(d, n) \in Own => n \in NamesIn(source, d)
        BY <1>8, <3>1, PathsAreNamed DEF Own
    <3>3. QED BY <1>4, <3>1, <3>2
  <2>3. \A n : ~HasBeen(f, n)
      BY <1>4 DEF HasBeen
  <2>4. QED BY <1>4, <1>8, <2>1, <2>2, <2>3 DEF StoringWell, HasBeen
<1>12. StoresAll
  <2>1. \A i \in 1 .. Len(stack) : i = 1
      BY <1>4
  <2>2. QED BY <1>4, <1>11, <2>1 DEF StoresAll
<1>13. QED BY <1>10, <1>12 DEF TripInv
-------------------------------------------------------------------------------
(***************************************************************************)
(* The extraction.  What one step does to a path where the archive is      *)
(* extracted: nothing, or it makes a directory of the archive there, or it *)
(* writes a file there, compressed or not, or removes a compressed one, or *)
(* what was in the way of a link.                                          *)
(***************************************************************************)
MayDiffer(q) == q \in failed \cup skipped' \/ stored[q].of = Overrun

Kept(q) == /\ q \in DOMAIN out' <=> q \in DOMAIN out
           /\ q \in DOMAIN out => out'[q] = out[q]

MadeDirectory(q) ==
    q \notin DOMAIN out /\ q \in DOMAIN out' /\ out'[q] = Directory /\ q \in Own

WrittenAs(q, item) ==
    /\ q \in DOMAIN stored /\ q \in DOMAIN out' /\ out'[q] = item
    /\ IsItem(item) /\ item.kind # "dir"
    /\ item = source[q] \/ Clash(q) \/ (MayDiffer(q) /\ ~ForksFor(q))

WrittenZipped(q, path) ==
    /\ path \in DOMAIN stored /\ ForksFor(path) /\ q = Gz(path)
    /\ q \in DOMAIN out' /\ out'[q] = Bytes(path)
    /\ \E pid \in DOMAIN child' : child'[pid].at = "start" /\ child'[pid].path = path

RemovedZipped(q, path) ==
    /\ path \in DOMAIN stored /\ ForksFor(path) /\ q = Gz(path)
    /\ q \notin DOMAIN out'
    /\ Clash(path) \/ Arrived(path)

RemovedLink(q) ==
    /\ q \in DOMAIN stored /\ stored[q].kind = "link"
    /\ q \notin DOMAIN out' /\ q \in skipped'

OutStep ==
    /\ out' = [q \in DOMAIN out' |-> out'[q]]
    /\ \A q : \/ Kept(q) \/ MadeDirectory(q) \/ RemovedLink(q)
              \/ \E item : WrittenAs(q, item)
              \/ \E path : WrittenZipped(q, path) \/ RemovedZipped(q, path)

(* A child goes on with its work, or has none, or has done it. *)
NothingAt(q) == ~(q \in DOMAIN out' /\ out'[q].kind = "file" /\ out'[q].zip > 0)
IsThere(p) == p \in DOMAIN out' /\ out'[p] = source[p]

GoesOnWith(pid, p) ==
    /\ \/ pid \in DOMAIN child' /\ child'[pid].path = p /\ child'[pid].at # "zombie"
       \/ NothingAt(Gz(p)) \/ Gz(p) \in skipped'
    /\ \/ pid \in DOMAIN child' /\ child'[pid].path = p /\ child'[pid].at = "start"
       \/ child[pid].at # "start" \/ Clash(p) \/ IsThere(p) \/ ~IsZipped(Gz(p))
       \/ p \in skipped'

ChildrenGoOn ==
    \A pid \in DOMAIN child : child[pid].at # "zombie" => GoesOnWith(pid, child[pid].path)

ExtractsFrom == phase # "store" /\ ArchiveIsRight /\ \E s \in Sources : source = Tree(s)

(* Between the commands the directory is as it was, and its items are right. *)
LEMMA ArchiveFacts ==
    ASSUME ExtractsFrom
    PROVE  /\ Own = DOMAIN source /\ OwnIsTree /\ StoredIsRight
           /\ DOMAIN stored \subseteq Own
           /\ \A p \in Own : p \in DOMAIN stored \/ p \in failed
<1>1. Own = DOMAIN source /\ OwnIsTree
    BY OwnOfTree DEF ExtractsFrom
<1>2. QED BY <1>1 DEF ExtractsFrom, ArchiveIsRight, StoredIsRight

(* The items of the archive, by what the extraction does with them. *)
LEMMA DirectoryItem ==
    ASSUME ExtractsFrom, NEW p \in DOMAIN stored
    PROVE  stored[p].kind = "dir" <=> OwnKind(p) = "dir"
<1>1. IsRight(p) /\ p \in Own /\ OwnKind(p) \in Kinds
    BY ArchiveFacts DEF StoredIsRight, OwnIsTree
<1>2. CASE OwnKind(p) = "dir"
    BY <1>1, <1>2 DEF IsRight, Directory
<1>3. CASE OwnKind(p) # "dir" /\ (OwnKind(p) = "link" \/ ~compress)
    BY <1>1, <1>3 DEF IsRight
<1>4. CASE OwnKind(p) # "dir" /\ ~(OwnKind(p) = "link" \/ ~compress)
  <2>1. stored[p] \in {[kind |-> "file", of |-> p, zip |-> 1, zipped |-> TRUE],
                       [kind |-> "file", of |-> Nothing, zip |-> 0, zipped |-> TRUE]}
      BY <1>1, <1>4 DEF IsRight
  <2>2. QED BY <1>4, <2>1
<1>5. QED BY <1>2, <1>3, <1>4

(* An item a child is started for is a file that was compressed once. *)
LEMMA ForkedItem ==
    ASSUME ExtractsFrom, NEW p \in DOMAIN stored, ForksFor(p)
    PROVE  /\ p \in Own /\ p # <<>> /\ IsPath(p) /\ OwnKind(p) = "file"
           /\ Last(p) \in Seq(Range(Last(p)))
           /\ Bytes(p) = File(p, 1) /\ source[p] = File(p, 0)
           /\ IsPath(Gz(p)) /\ Gz(p) # <<>>
<1>1. IsRight(p) /\ p \in Own /\ OwnKind(p) \in Kinds /\ IsPath(p) /\ OwnKind(<<>>) = "dir"
      /\ source[p] = (IF OwnKind(p) = "dir" THEN Directory
                      ELSE [kind |-> OwnKind(p), of |-> p, zip |-> 0])
      /\ \A i \in 1 .. Len(p) : p[i] \in Seq(Range(p[i]))
    BY ArchiveFacts DEF StoredIsRight, OwnIsTree
<1>2. stored[p].kind = "file" /\ stored[p].zipped /\ stored[p].of # Nothing
    BY DEF ForksFor
<1>3. OwnKind(p) # "dir"
    BY <1>1, <1>2 DEF IsRight, Directory
<1>4. ~(OwnKind(p) = "link" \/ ~compress)
    BY <1>1, <1>2, <1>3 DEF IsRight
<1>5. OwnKind(p) = "file"
    BY <1>1, <1>3, <1>4 DEF Kinds
<1>6. stored[p] = [kind |-> "file", of |-> p, zip |-> 1, zipped |-> TRUE]
  <2>1. \/ stored[p] = [kind |-> "file", of |-> p, zip |-> 1, zipped |-> TRUE]
        \/ stored[p] = [kind |-> "file", of |-> Nothing, zip |-> 0, zipped |-> TRUE]
      BY <1>1, <1>3, <1>4 DEF IsRight
  <2>2. QED BY <1>2, <2>1
<1>7. Bytes(p) = File(p, 1) /\ source[p] = File(p, 0)
    BY <1>1, <1>5, <1>6 DEF Bytes, File
<1>8. p # <<>>
    BY <1>1, <1>5
<1>9. IsPath(Gz(p)) /\ Gz(p) # <<>>
    BY <1>1, <1>8, GzIsPath
<1>10. Last(p) \in Seq(Range(Last(p)))
  <2>1. Len(p) \in 1 .. Len(p)
      BY <1>1, <1>8 DEF IsPath
  <2>2. QED BY <1>1, <2>1 DEF Last
<1>11. QED BY <1>1, <1>5, <1>7, <1>8, <1>9, <1>10

(* An item no child is started for is written as it was, if its gzip did not fail and
   it is no link that is read past its end. *)
LEMMA PlainItem ==
    ASSUME ExtractsFrom, NEW p \in DOMAIN stored, stored[p].kind # "dir", ~ForksFor(p)
    PROVE  /\ IsItem(Bytes(p)) /\ Bytes(p).kind # "dir"
           /\ Bytes(p) = source[p] \/ p \in failed \/ stored[p].of = Overrun
<1>1. IsRight(p) /\ p \in Own /\ OwnKind(p) \in Kinds /\ OwnKind(p) # "dir" /\ Nothing \notin Own
      /\ source[p] = [kind |-> OwnKind(p), of |-> p, zip |-> 0]
    BY ArchiveFacts, DirectoryItem DEF StoredIsRight, OwnIsTree
<1>2. IsItem(Bytes(p)) /\ Bytes(p).kind # "dir"
    BY DEF IsItem, Bytes
<1>3. CASE OwnKind(p) = "link" \/ ~compress
  <2>1. stored[p] = [kind |-> OwnKind(p), of |-> p, zip |-> 0, zipped |-> FALSE]
        \/ stored[p].of = Overrun
      BY <1>1, <1>3 DEF IsRight
  <2>2. QED BY <1>1, <1>2, <2>1 DEF Bytes
<1>4. CASE ~(OwnKind(p) = "link" \/ ~compress)
  <2>1. stored[p] = [kind |-> "file", of |-> p, zip |-> 1, zipped |-> TRUE] \/ p \in failed
      BY <1>1, <1>4 DEF IsRight
  <2>2. ASSUME stored[p] = [kind |-> "file", of |-> p, zip |-> 1, zipped |-> TRUE]
        PROVE  FALSE
    <3>1. stored[p].kind = "file" /\ stored[p].zipped /\ stored[p].of = p
        BY <2>2
    <3>2. QED BY <1>1, <3>1 DEF ForksFor
  <2>3. QED BY <1>2, <2>1, <2>2
<1>5. QED BY <1>3, <1>4

(* Two files of the archive have two compressed ones, and these are not in it. *)
LEMMA ZippedApart ==
    ASSUME ExtractsFrom, NEW p \in DOMAIN stored, ForksFor(p), NEW r \in DOMAIN stored, ForksFor(r)
    PROVE  /\ Gz(p) = Gz(r) => p = r
           /\ ~Clash(p) => Gz(p) \notin DOMAIN stored
           /\ ~Clash(p) => Gz(r) # p
<1>1. /\ IsPath(p) /\ p # <<>> /\ Last(p) \in Seq(Range(Last(p)))
      /\ IsPath(r) /\ r # <<>> /\ Last(r) \in Seq(Range(Last(r)))
    BY ForkedItem
<1>2. Gz(p) = Gz(r) => p = r
    BY <1>1, GzTellsApart
<1>3. QED BY <1>1, <1>2 DEF Clash
-------------------------------------------------------------------------------
(* What has arrived stays, and what is there compressed until it was uncompressed. *)
LEMMA ArrivedStays ==
    ASSUME ExtractsFrom, OutStep, NEW p \in DOMAIN stored, ~Clash(p), Arrived(p),
           ~MayDiffer(p) \/ ForksFor(p)
    PROVE  IsThere(p)
<1>1. p \in DOMAIN out /\ out[p] = source[p]
    BY DEF Arrived
<1>2. CASE Kept(p)
    BY <1>1, <1>2 DEF Kept, IsThere
<1>3. CASE MadeDirectory(p)
    BY <1>1, <1>3 DEF MadeDirectory
<1>4. ASSUME NEW item, WrittenAs(p, item) PROVE IsThere(p)
    BY <1>4 DEF WrittenAs, IsThere
<1>5. ASSUME NEW path, WrittenZipped(p, path) \/ RemovedZipped(p, path) PROVE FALSE
  <2>1. path \in DOMAIN stored /\ ForksFor(path) /\ p = Gz(path)
      BY <1>5 DEF WrittenZipped, RemovedZipped
  <2>2. path # <<>> /\ p # <<>>
      BY <2>1, ForkedItem
  <2>3. QED BY <2>1, <2>2 DEF Clash
<1>6. ~RemovedLink(p)
    BY DEF RemovedLink, MayDiffer, ForksFor
<1>7. QED BY <1>2, <1>3, <1>4, <1>5, <1>6 DEF OutStep

(* The compressed file of a path stays there until the path itself is. *)
LEMMA ZippedStays ==
    ASSUME ExtractsFrom, OutIsWell, OutStep, NEW p \in DOMAIN stored, ForksFor(p), ~Clash(p)
    PROVE  /\ IsZipped(Gz(p)) => ~NothingAt(Gz(p)) \/ IsThere(p)
           /\ ~NothingAt(Gz(p)) => out'[Gz(p)] = Bytes(p)
<1>1. PICK q : q = Gz(p)
    OBVIOUS
<1>2. q \notin DOMAIN stored /\ \A r \in DOMAIN stored : ForksFor(r) /\ q = Gz(r) => r = p
    BY <1>1, ZippedApart
<1>3. Bytes(p).kind = "file" /\ Bytes(p).zip = 1
  <2>1. Bytes(p) = File(p, 1)
      BY ForkedItem
  <2>2. File(p, 1).kind = "file" /\ File(p, 1).zip = 1
      BY DEF File
  <2>3. QED BY <2>1, <2>2
<1>4. CASE Kept(q)
  <2>1. ~NothingAt(q) => IsZipped(q) /\ out'[q] = out[q]
      BY <1>4 DEF Kept, NothingAt, IsZipped
  <2>2. IsZipped(q) => ~NothingAt(q)
      BY <1>4 DEF Kept, NothingAt, IsZipped
  <2>3. IsZipped(q) => out[q] = Bytes(p)
      BY <1>1 DEF OutIsWell
  <2>4. QED BY <1>1, <2>1, <2>2, <2>3
<1>5. CASE MadeDirectory(q)
  <2>1. NothingAt(q) /\ ~IsZipped(q)
      BY <1>5 DEF MadeDirectory, NothingAt, IsZipped, Directory
  <2>2. QED BY <1>1, <2>1
<1>6. ASSUME NEW item PROVE ~WrittenAs(q, item)
    BY <1>2 DEF WrittenAs
<1>7. ASSUME NEW path, WrittenZipped(q, path)
      PROVE  ~NothingAt(q) /\ out'[q] = Bytes(p)
  <2>1. path = p
      BY <1>2, <1>7 DEF WrittenZipped
  <2>2. q \in DOMAIN out' /\ out'[q] = Bytes(p)
      BY <1>7, <2>1 DEF WrittenZipped
  <2>3. QED BY <1>3, <2>2 DEF NothingAt
<1>8. ASSUME NEW path, RemovedZipped(q, path)
      PROVE  NothingAt(q) /\ IsThere(p)
  <2>1. path = p
      BY <1>2, <1>8 DEF RemovedZipped
  <2>2. q \notin DOMAIN out' /\ Arrived(p)
      BY <1>8, <2>1 DEF RemovedZipped
  <2>3. QED BY <2>2, ArrivedStays DEF NothingAt
<1>9. QED
  <2>1. \/ Kept(q) \/ MadeDirectory(q)
        \/ \E item : WrittenAs(q, item)
        \/ \E path : WrittenZipped(q, path) \/ RemovedZipped(q, path)
      BY <1>2 DEF OutStep, RemovedLink
  <2>2. QED BY <1>1, <1>4, <1>5, <1>6, <1>7, <1>8, <2>1

(* Nothing else is there than what was archived, what was there before, and compressed
   files whose child is at work. *)
LEMMA OutStaysWell ==
    ASSUME ExtractsFrom, OutIsWell, OutStep, ChildrenGoOn, UNCHANGED <<source, stored>>,
           skipped \subseteq skipped'
    PROVE  OutIsWell'
<1>1. /\ out' = [q \in DOMAIN out' |-> out'[q]]
      /\ \A q : \/ Kept(q) \/ MadeDirectory(q) \/ RemovedLink(q)
                \/ \E item : WrittenAs(q, item)
                \/ \E path : WrittenZipped(q, path) \/ RemovedZipped(q, path)
    BY DEF OutStep
<1>2. DOMAIN stored \subseteq DOMAIN source /\ Own = DOMAIN source
    BY ArchiveFacts
<1>3. ASSUME NEW q, NEW path, WrittenZipped(q, path) \/ RemovedZipped(q, path)
      PROVE  /\ q # <<>> /\ q = Gz(path) /\ path \in DOMAIN stored
             /\ Bytes(path) = File(path, 1)
  <2>1. path \in DOMAIN stored /\ ForksFor(path) /\ q = Gz(path)
      BY <1>3 DEF WrittenZipped, RemovedZipped
  <2>2. QED BY <2>1, ForkedItem
<1>4. <<>> \in DOMAIN out'
  <2>1. <<>> \in DOMAIN out
      BY DEF OutIsWell
  <2>2. \A path : ~WrittenZipped(<<>>, path) /\ ~RemovedZipped(<<>>, path)
      BY <1>3
  <2>3. ~RemovedLink(<<>>)
    <3>1. OwnKind(<<>>) = "dir"
        BY ArchiveFacts DEF OwnIsTree
    <3>2. <<>> \in DOMAIN stored => stored[<<>>].kind = "dir"
        BY <3>1, DirectoryItem
    <3>3. QED BY <3>2 DEF RemovedLink
  <2>4. QED BY <1>1, <2>1, <2>2, <2>3 DEF Kept, MadeDirectory, WrittenAs
<1>5. ASSUME NEW q \in DOMAIN out'
      PROVE  IsItem(out'[q]) /\ (out'[q].kind = "dir" => out'[q] = Directory)
  <2>1. CASE Kept(q)
      BY <2>1 DEF Kept, OutIsWell
  <2>2. CASE MadeDirectory(q)
      BY <2>2 DEF MadeDirectory, IsItem, Directory
  <2>3. ASSUME NEW item, WrittenAs(q, item)
        PROVE  IsItem(out'[q]) /\ out'[q].kind # "dir"
      BY <2>3 DEF WrittenAs
  <2>4. ASSUME NEW path, WrittenZipped(q, path)
        PROVE  IsItem(out'[q]) /\ out'[q].kind # "dir"
    <3>1. out'[q] = File(path, 1)
        BY <1>3, <2>4 DEF WrittenZipped
    <3>2. QED BY <3>1 DEF IsItem, File
  <2>5. ~RemovedLink(q) /\ \A path : ~RemovedZipped(q, path)
      BY DEF RemovedZipped, RemovedLink
  <2>6. QED BY <1>1, <2>1, <2>2, <2>3, <2>4, <2>5
<1>6. ASSUME NEW q \in DOMAIN out'
      PROVE  q \in DOMAIN source \cup WasInTheWay \cup skipped' \/ IsTemporary(q)'
  <2>1. CASE Kept(q)
    <3>1. q \in DOMAIN out /\ out'[q] = out[q]
        BY <2>1 DEF Kept
    <3>2. CASE IsTemporary(q)
      <4>1. PICK pid \in DOMAIN child : child[pid].at # "zombie" /\ q = Gz(child[pid].path)
          BY <3>2 DEF IsTemporary
      <4>2. out'[q].kind = "file" /\ out'[q].zip > 0
          BY <3>1, <3>2 DEF IsTemporary
      <4>3. PICK p : p = child[pid].path
          OBVIOUS
      <4>4. GoesOnWith(pid, p)
          BY <4>1, <4>3 DEF ChildrenGoOn
      <4>5. \/ pid \in DOMAIN child' /\ child'[pid].path = p /\ child'[pid].at # "zombie"
            \/ q \in skipped'
          BY <4>1, <4>2, <4>3, <4>4 DEF GoesOnWith, NothingAt
      <4>6. QED BY <4>1, <4>2, <4>3, <4>5 DEF IsTemporary
    <3>3. QED BY <3>1, <3>2 DEF OutIsWell
  <2>2. CASE MadeDirectory(q)
      BY <1>2, <2>2 DEF MadeDirectory
  <2>3. ASSUME NEW item, WrittenAs(q, item) PROVE q \in DOMAIN source
      BY <1>2, <2>3 DEF WrittenAs
  <2>4. ASSUME NEW path, WrittenZipped(q, path) PROVE IsTemporary(q)'
    <3>1. out'[q] = File(path, 1) /\ q = Gz(path)
        BY <1>3, <2>4 DEF WrittenZipped
    <3>2. PICK pid \in DOMAIN child' : child'[pid].at = "start" /\ child'[pid].path = path
        BY <2>4 DEF WrittenZipped
    <3>3. out'[q].kind = "file" /\ out'[q].zip > 0
        BY <3>1 DEF File
    <3>4. QED BY <3>1, <3>2, <3>3 DEF IsTemporary
  <2>5. ~RemovedLink(q) /\ \A path : ~RemovedZipped(q, path)
      BY DEF RemovedZipped, RemovedLink
  <2>6. QED BY <1>1, <2>1, <2>2, <2>3, <2>4, <2>5
<1>7. ASSUME NEW p \in DOMAIN stored', ForksFor(p)', ~Clash(p)', IsZipped(Gz(p))'
      PROVE  (out[Gz(p)] = Bytes(p))'
  <2>1. p \in DOMAIN stored /\ ForksFor(p) /\ ~Clash(p) /\ Bytes(p)' = Bytes(p)
      BY <1>7 DEF ForksFor, Clash, Bytes
  <2>2. PICK q : q = Gz(p)
      OBVIOUS
  <2>3. ~NothingAt(q)
      BY <1>7, <2>2 DEF IsZipped, NothingAt
  <2>4. out'[q] = Bytes(p)
      BY <2>1, <2>2, <2>3, ZippedStays
  <2>5. QED BY <2>1, <2>2, <2>4
<1>8. WasInTheWay' = WasInTheWay
    BY DEF WasInTheWay
<1>9. QED BY <1>1, <1>4, <1>5, <1>6, <1>7, <1>8 DEF OutIsWell

(* What is coming keeps coming, or arrives. *)
LEMMA ComingStays ==
    ASSUME ExtractsFrom, OutIsWell, OutStep, ChildrenGoOn, UNCHANGED <<source, stored>>,
           NEW p \in DOMAIN stored, ~Clash(p), ~MayDiffer(p), Coming(p)
    PROVE  Coming(p)'
<1>1. CASE Arrived(p)
  <2>1. IsThere(p)
      BY <1>1, ArrivedStays
  <2>2. QED BY <2>1 DEF IsThere, Arrived, Coming
<1>2. CASE ForksFor(p) /\ IsZipped(Gz(p)) /\ \E pid : Gunzips(pid, p) /\ child[pid].at = "start"
  <2>1. PICK pid : pid \in DOMAIN child /\ child[pid].path = p /\ child[pid].at = "start"
      BY <1>2 DEF Gunzips
  <2>2. GoesOnWith(pid, p)
      BY <2>1 DEF ChildrenGoOn
  <2>3. CASE IsThere(p)
      BY <2>3 DEF IsThere, Arrived, Coming
  <2>4. CASE ~IsThere(p)
    <3>1. pid \in DOMAIN child' /\ child'[pid].path = p /\ child'[pid].at = "start"
        BY <1>2, <2>1, <2>2, <2>4 DEF GoesOnWith, MayDiffer
    <3>2. ~NothingAt(Gz(p))
        BY <1>2, <2>4, ZippedStays
    <3>3. PICK q : q = Gz(p)
        OBVIOUS
    <3>4. IsZipped(q)'
        BY <3>2, <3>3 DEF NothingAt, IsZipped
    <3>5. ForksFor(p)' /\ Gunzips(pid, p)'
        BY <1>2, <3>1 DEF ForksFor, Gunzips
    <3>6. QED BY <3>1, <3>3, <3>4, <3>5 DEF Coming
  <2>5. QED BY <2>3, <2>4
<1>3. QED BY <1>1, <1>2 DEF Coming
-------------------------------------------------------------------------------
(* A step of the extraction. *)
LEMMA ExtractsOn ==
    ASSUME ExtractsFrom, Extracts, phase' \in {"extract", "exit"},
           UNCHANGED <<compress, source, stored, failed, asked>>, refused \subseteq refused',
           skipped \subseteq skipped',
           OutStep, ChildrenGoOn, \A pid \in DOMAIN child' : GunzipsWell(pid)',
           \A i \in 1 .. Len(stack') : ExtractingWell(stack[i])',
           todo' \in Seq(Range(todo')), \A i \in 1 .. Len(todo') : IsPath(todo'[i]),
           \A p \in DOMAIN stored :
               Wanted(p) /\ ~MayDiffer(p) /\ ~Clash(p) /\ (\A r \in refused' : ~IsPrefix(r, p))
                 /\ ToExtract(p) => Coming(p)' \/ ToExtract(p)',
           phase' = "exit" => stack' = <<>> /\ todo' = <<>>
    PROVE  ArchiveIsRight' /\ Extracts'
<1>1. StoredIsRight'
    BY SameRight DEF ExtractsFrom
<1>2. ArchiveIsRight'
  <2>1. Own' = Own
      BY DEF Own
  <2>2. QED BY <1>1, <2>1, ArchiveFacts DEF ArchiveIsRight
<1>3. OutIsWell'
    BY OutStaysWell DEF Extracts
<1>4. ASSUME NEW p \in DOMAIN stored', Wanted(p)', ~Spoilt(p)'
      PROVE  Coming(p)' \/ ToExtract(p)'
  <2>1. p \in DOMAIN stored /\ Wanted(p) /\ ~MayDiffer(p) /\ ~Clash(p)
        /\ \A r \in refused' : ~IsPrefix(r, p)
      BY <1>4 DEF Wanted, Spoilt, Clash, MayDiffer
  <2>2. Coming(p) \/ ToExtract(p)
      BY <2>1 DEF Extracts, Spoilt, MayDiffer
  <2>3. CASE Coming(p)
    <3>1. OutIsWell
        BY DEF Extracts
    <3>2. Coming(p)'
        BY <2>1, <2>3, <3>1, ComingStays
    <3>3. QED BY <3>2
  <2>4. QED BY <2>1, <2>2, <2>3
<1>5. (\E s \in Sources : source = Tree(s))'
    BY DEF ExtractsFrom, Tree
<1>6. QED BY <1>2, <1>3, <1>4, <1>5 DEF Extracts

(* The children that have work to do are left alone. *)
LEMMA SameGoOn ==
    ASSUME \A pid \in DOMAIN child : child[pid].at # "zombie" =>
               pid \in DOMAIN child' /\ child'[pid] = child[pid]
    PROVE  ChildrenGoOn
BY DEF ChildrenGoOn, GoesOnWith

(* A child that does nothing in a step stays right. *)
LEMMA SameGunzips ==
    ASSUME ExtractsFrom, Extracts, UNCHANGED <<source, stored>>, OutStep,
           NEW pid \in DOMAIN child, child'[pid] = child[pid]
    PROVE  GunzipsWell(pid)'
<1>1. PICK p : p = child[pid].path
    OBVIOUS
<1>2. /\ child[pid].do = "gunzip" /\ p \in DOMAIN stored /\ ForksFor(p)
      /\ child[pid].at = "open" => Clash(p) \/ Arrived(p)
    BY <1>1 DEF Extracts, GunzipsWell
<1>3. ForksFor(p)' /\ (Clash(p)' <=> Clash(p))
    BY <1>2 DEF ForksFor, Clash
<1>4. Arrived(p) /\ ~Clash(p) => Arrived(p)'
    BY <1>2, ArrivedStays DEF IsThere, Arrived
<1>5. child'[pid].do = "gunzip" /\ child'[pid].path = p /\ child'[pid].at = child[pid].at
    BY <1>1, <1>2
<1>6. QED BY <1>2, <1>3, <1>4, <1>5 DEF GunzipsWell

(* Directories of the archive are made where they are not. *)
DirsAdded(tree, dirs) ==
    /\ tree = [q \in DOMAIN tree |-> tree[q]]
    /\ DOMAIN tree = DOMAIN out \cup dirs
    /\ \A q \in DOMAIN tree : tree[q] = IF q \in DOMAIN out THEN out[q] ELSE Directory

(* Directories of the archive are made. *)
LEMMA DirsStep ==
    ASSUME NEW dirs, dirs \subseteq Own, DirsAdded(out', dirs)
    PROVE  OutStep
BY DEF DirsAdded, OutStep, Kept, MadeDirectory

(* What CreateDirRec and CreateDir leave is the tree with directories added. *)
LEMMA AddingDirs ==
    ASSUME OutIsWell, NEW dirs
    PROVE  /\ DirsAdded(WithDirs(out, dirs), dirs)
           /\ DirsAdded(out, {})
           /\ \A path : DirsAdded(WithDirs(WithDirs(out, dirs), {path}), dirs \cup {path})
BY DEF OutIsWell, DirsAdded, WithDirs

(* A file or a link is extracted, or skipped, after directories above it were made. *)
LEMMA ItemStep ==
    ASSUME IInv, ExtractsFrom, Extracts, UNCHANGED <<source, stored>>,
           NEW path \in DOMAIN stored, stored[path].kind # "dir",
           NEW dirs, dirs \subseteq Own, NEW tree, DirsAdded(tree, dirs),
           NEW n, ExtractItem(path, tree, n)
    PROVE  /\ OutStep /\ ChildrenGoOn /\ \A pid \in DOMAIN child' : GunzipsWell(pid)'
           /\ skipped \subseteq skipped'
           /\ ~MayDiffer(path) => Coming(path)'
<1>1. ASSUME NEW x, NEW item, out' = Put(tree, x, item)
      PROVE  /\ out' = [q \in DOMAIN out' |-> out'[q]]
             /\ x \in DOMAIN out' /\ out'[x] = item
             /\ \A q : q # x => Kept(q) \/ MadeDirectory(q)
  <2>1. /\ DOMAIN out' = DOMAIN out \cup dirs \cup {x}
        /\ out' = [q \in DOMAIN out' |-> out'[q]] /\ out'[x] = item
        /\ \A q \in DOMAIN out' : q # x =>
             out'[q] = IF q \in DOMAIN out THEN out[q] ELSE Directory
      BY <1>1 DEF Put, DirsAdded
  <2>2. QED BY <2>1 DEF Kept, MadeDirectory
<1>2. ASSUME out' = tree PROVE OutStep
    BY <1>2, DirsStep
<1>3. ASSUME ForksFor(path), OutStep, Fork("gunzip", Front(path), path)
      PROVE  /\ ChildrenGoOn /\ \A pid \in DOMAIN child' : GunzipsWell(pid)'
             /\ \E pid \in DOMAIN child' : child'[pid].path = path /\ child'[pid].at = "start"
  <2>1. /\ DOMAIN child' = DOMAIN child \cup {Pid}
        /\ child'[Pid] = [do |-> "gunzip", dir |-> Front(path), path |-> path, at |-> "start"]
        /\ \A pid \in DOMAIN child : child'[pid] = child[pid]
      BY <1>3, NewPid
  <2>2. ChildrenGoOn
      BY <2>1, SameGoOn
  <2>3. ForksFor(path)'
      BY <1>3 DEF ForksFor
  <2>4. \A pid \in DOMAIN child : GunzipsWell(pid)'
      BY <1>3, <2>1, SameGunzips
  <2>5. PICK new : new = Pid
      OBVIOUS
  <2>6. /\ new \in DOMAIN child'
        /\ child'[new].do = "gunzip" /\ child'[new].path = path /\ child'[new].at = "start"
      BY <2>1, <2>5
  <2>7. GunzipsWell(new)'
      BY <2>3, <2>6 DEF GunzipsWell
  <2>8. \A pid \in DOMAIN child' : GunzipsWell(pid)'
      BY <2>1, <2>4, <2>5, <2>7
  <2>9. QED BY <2>2, <2>6, <2>8
<1>4. ASSUME OutStep, child' = child
      PROVE  ChildrenGoOn /\ \A pid \in DOMAIN child' : GunzipsWell(pid)'
  <2>1. ChildrenGoOn
      BY <1>4, SameGoOn
  <2>2. QED BY <1>4, <2>1, SameGunzips
<1>5. CASE WriteFile(path, tree, n) /\ ForksFor(path)
  <2>1. /\ out' = Put(tree, Gz(path), Bytes(path)) /\ Fork("gunzip", Front(path), path)
        /\ skipped' = skipped
      BY <1>5 DEF WriteFile, Target, ForkFor
  <2>2. PICK new \in DOMAIN child' : child'[new].at = "start" /\ child'[new].path = path
    <3>1. /\ DOMAIN child' = DOMAIN child \cup {Pid}
          /\ child'[Pid] = [do |-> "gunzip", dir |-> Front(path), path |-> path, at |-> "start"]
        BY <2>1, NewPid
    <3>2. PICK p : p = Pid
        OBVIOUS
    <3>3. p \in DOMAIN child' /\ child'[p].at = "start" /\ child'[p].path = path
        BY <3>1, <3>2
    <3>4. QED BY <3>3
  <2>3. PICK q : q = Gz(path)
      OBVIOUS
  <2>4. WrittenZipped(q, path)
      BY <1>1, <1>5, <2>1, <2>2, <2>3 DEF WrittenZipped
  <2>5. OutStep
      BY <1>1, <2>1, <2>3, <2>4 DEF OutStep
  <2>6. Coming(path)'
    <3>1. Bytes(path).kind = "file" /\ Bytes(path).zip = 1
      <4>1. Bytes(path) = File(path, 1)
          BY <1>5, ForkedItem
      <4>2. QED BY <4>1 DEF File
    <3>2. IsZipped(q)'
        BY <2>4, <3>1 DEF WrittenZipped, IsZipped
    <3>3. Gunzips(new, path)'
        BY <2>2 DEF Gunzips
    <3>4. ForksFor(path)'
        BY <1>5 DEF ForksFor
    <3>5. QED BY <2>2, <2>3, <3>2, <3>3, <3>4 DEF Coming
  <2>7. QED BY <1>3, <1>5, <2>1, <2>5, <2>6
<1>6. ASSUME out' = Put(tree, path, Bytes(path)), child' = child, skipped' = skipped,
             ~ForksFor(path)
      PROVE  /\ OutStep /\ ChildrenGoOn /\ \A pid \in DOMAIN child' : GunzipsWell(pid)'
             /\ ~MayDiffer(path) => Coming(path)'
  <2>1. IsItem(Bytes(path)) /\ Bytes(path).kind # "dir"
        /\ (Bytes(path) = source[path] \/ MayDiffer(path))
      BY <1>6, PlainItem DEF MayDiffer
  <2>2. path \in DOMAIN out' /\ out'[path] = Bytes(path)
      BY <1>1, <1>6
  <2>3. WrittenAs(path, Bytes(path))
      BY <1>6, <2>1, <2>2 DEF WrittenAs
  <2>4. OutStep
      BY <1>1, <1>6, <2>3 DEF OutStep
  <2>5. ~MayDiffer(path) => Coming(path)'
      BY <2>1, <2>2 DEF Coming, Arrived
  <2>6. QED BY <1>4, <1>6, <2>4, <2>5
<1>7. CASE WriteFile(path, tree, n) /\ ~ForksFor(path)
  <2>1. out' = Put(tree, path, Bytes(path)) /\ child' = child /\ skipped' = skipped
      BY <1>7 DEF WriteFile, Target, ForkFor, NoFork
  <2>2. QED BY <1>6, <1>7, <2>1
<1>8. CASE WriteThroughLink(path, tree, n) /\ ForksFor(path)
  <2>1. /\ out' = tree /\ Fork("gunzip", Front(path), path)
        /\ skipped' = skipped \cup {path}
      BY <1>8 DEF WriteThroughLink, ForkFor
  <2>2. QED BY <1>2, <1>3, <1>8, <2>1 DEF MayDiffer
<1>9. CASE \/ Skips(path, tree, n)
           \/ WriteThroughLink(path, tree, n) /\ ~ForksFor(path)
  <2>1. out' = tree /\ child' = child /\ skipped' = skipped \cup {path}
      BY <1>9 DEF Skips, WriteThroughLink, ForkFor, NoFork
  <2>2. QED BY <1>2, <1>4, <2>1 DEF MayDiffer
<1>10. CASE stored[path].kind = "link" /\ Skips(path, Unlink(tree, path), n)
  <2>1. /\ out' = Unlink(tree, path) /\ child' = child
        /\ skipped' = skipped \cup {path}
      BY <1>10 DEF Skips, NoFork
  <2>2. /\ DOMAIN out' = (DOMAIN out \cup dirs) \ {path}
        /\ out' = [q \in DOMAIN out' |-> out'[q]]
        /\ \A q \in DOMAIN out' : out'[q] = IF q \in DOMAIN out THEN out[q] ELSE Directory
      BY <2>1 DEF Unlink, DirsAdded
  <2>3. RemovedLink(path)
      BY <1>10, <2>1, <2>2 DEF RemovedLink
  <2>4. \A q : q # path => Kept(q) \/ MadeDirectory(q)
      BY <2>2 DEF Kept, MadeDirectory
  <2>5. OutStep
      BY <2>2, <2>3, <2>4 DEF OutStep
  <2>6. QED BY <1>4, <2>1, <2>5 DEF MayDiffer
<1>11. CASE stored[path].kind = "link" /\ ExtractLink(path, tree, n)
  <2>1. CASE out' = Put(tree, path, Bytes(path)) /\ NoFork /\ UNCHANGED skipped
    <3>1. ~ForksFor(path) /\ child' = child /\ skipped' = skipped
        BY <1>11, <2>1 DEF ForksFor, NoFork
    <3>2. QED BY <1>6, <2>1, <3>1
  <2>2. QED BY <1>9, <1>10, <1>11, <2>1 DEF ExtractLink
<1>12. QED
    BY <1>5, <1>7, <1>8, <1>9, <1>11 DEF ExtractItem, ExtractFile
-------------------------------------------------------------------------------
(* Paths of the archive, above and below others. *)
LEMMA AboveAreDirectories ==
    ASSUME ExtractsFrom, NEW path \in Own
    PROVE  /\ Above(path) \subseteq Own
           /\ \A q \in Above(path) : IsPath(q) /\ IsPrefix(q, path)
<1>1. PICK s \in Sources : source = Tree(s)
    BY DEF ExtractsFrom
<1>2. Own = DOMAIN s /\ OwnIsTree /\ IsPath(path) /\ path \in DOMAIN s
    BY <1>1, ArchiveFacts DEF Tree, OwnIsTree
<1>3. ASSUME NEW q \in Above(path) PROVE q \in Own /\ IsPath(q) /\ IsPrefix(q, path)
  <2>1. q \in Prefixes(path) \ {path}
      BY <1>3 DEF Above
  <2>2. q \in DOMAIN s
      BY <1>2, <2>1, PathsAssumption DEF PathsAssumption
  <2>3. IsPath(q)
      BY <1>2, <2>2 DEF OwnIsTree
  <2>4. PICK k \in Nat : k = Len(path)
      BY <1>2 DEF IsPath
  <2>5. PICK m \in 0 .. k : q = SubSeq(path, 1, m)
      BY <2>1, <2>4 DEF Prefixes
  <2>6. \A i \in 1 .. m : path[i] \in Range(path)
      BY <1>2, <2>4, ElementOfSeq DEF IsPath
  <2>7. /\ Len(q) = IF 1 <= m THEN m - 1 + 1 ELSE 0
        /\ \A i \in 1 .. m - 1 + 1 : q[i] = path[1 + i - 1]
      BY <2>5, <2>6, SubSeqProperties
  <2>8. Len(q) = m /\ \A i \in 1 .. m : q[i] = path[i]
    <3>1. m - 1 + 1 = m /\ \A i \in 1 .. m : 1 + i - 1 = i
        OBVIOUS
    <3>2. Len(q) = m
        BY <2>7, <3>1
    <3>3. QED BY <2>7, <3>1, <3>2
  <2>9. IsPrefix(q, path)
      BY <1>2, <2>3, <2>4, <2>8, PrefixIs
  <2>10. QED BY <1>2, <2>2, <2>3, <2>9
<1>4. QED BY <1>3

(* Below a file there is only the file. *)
LEMMA BelowAFile ==
    ASSUME ExtractsFrom, NEW path \in DOMAIN stored, stored[path].kind # "dir",
           NEW p \in DOMAIN stored, IsPrefix(path, p)
    PROVE  p = path
<1>1. OwnKind(path) # "dir" /\ p \in Own /\ IsPath(path)
    BY DirectoryItem, ArchiveFacts DEF OwnIsTree
<1>2. QED BY <1>1, ArchiveFacts DEF OwnIsTree

(* What is below a directory is below one of its names. *)
LEMMA BelowADirectory ==
    ASSUME ExtractsFrom, NEW path \in DOMAIN stored, NEW p \in DOMAIN stored,
           IsPrefix(path, p), p # path
    PROVE  \E n \in NamesIn(stored, path) : IsPrefix(Append(path, n), p)
<1>1. p \in Own /\ IsPath(p) /\ IsPath(path)
    BY ArchiveFacts DEF OwnIsTree
<1>2. PICK n : IsPrefix(Append(path, n), p)
    BY <1>1, NextNameOn DEF IsStrictPrefix
<1>3. PICK q : q = Append(path, n)
    OBVIOUS
<1>4. IsPath(q) /\ q # <<>> /\ Last(q) = n /\ Front(q) = path
    BY <1>1, <1>3, JoinAndSplit
<1>5. q \in DOMAIN stored
  <2>1. q = p \/ (q \in Own /\ OwnKind(q) = "dir")
      BY <1>1, <1>2, <1>3, <1>4, ArchiveFacts DEF OwnIsTree
  <2>2. q \in failed => OwnKind(q) = "file"
      BY ArchiveFacts DEF StoredIsRight
  <2>3. QED BY <2>1, <2>2, ArchiveFacts
<1>6. n \in NamesIn(stored, path)
    BY <1>4, <1>5 DEF NamesIn
<1>7. QED BY <1>2, <1>6

(* What is above an item is an item. *)
LEMMA NothingMissing ==
    ASSUME ExtractsFrom, NEW path, IsPath(path), NEW p \in DOMAIN stored, IsPrefix(path, p)
    PROVE  path \in DOMAIN stored
<1>1. p \in Own
    BY ArchiveFacts
<1>2. path = p \/ (path \in Own /\ OwnKind(path) = "dir")
    BY <1>1, ArchiveFacts DEF OwnIsTree
<1>3. path \in failed => OwnKind(path) = "file"
    BY ArchiveFacts DEF StoredIsRight
<1>4. QED BY <1>2, <1>3, ArchiveFacts

(* A directory of the archive is entered. *)
LEMMA DirectoryArrives ==
    ASSUME ExtractsFrom, Extracts, UNCHANGED <<source, stored>>,
           NEW path \in DOMAIN stored, stored[path].kind = "dir", CanCreate(path),
           NEW dirs, path \in dirs, DirsAdded(out', dirs)
    PROVE  Coming(path)'
<1>1. path \in Own /\ source[path] = Directory
    BY DirectoryItem, ArchiveFacts DEF OwnIsTree
<1>2. path \in DOMAIN out => out[path] = Directory
    BY DEF CanCreate, Extracts, OutIsWell
<1>3. path \in DOMAIN out' /\ out'[path] = Directory
    BY <1>2 DEF DirsAdded
<1>4. QED BY <1>1, <1>3 DEF Coming, Arrived

(* A directory is entered with all its names still to extract. *)
LEMMA FrameEntered ==
    ASSUME ExtractsFrom, NEW path \in DOMAIN stored, stored[path].kind = "dir",
           UNCHANGED stored, NEW g, g = Extracting(path)
    PROVE  ExtractingWell(g)' /\ g.names = NamesIn(stored, path) /\ g.dir = path
<1>1. g.dir = path /\ g.at = "extract" /\ g.names = NamesIn(stored, path)
    BY DEF Extracting
<1>2. ASSUME NEW n \in g.names PROVE Append(path, n) \in DOMAIN stored
  <2>1. PICK q \in DOMAIN stored : q # <<>> /\ Front(q) = path /\ Last(q) = n
      BY <1>1, <1>2 DEF NamesIn
  <2>2. IsPath(q)
      BY ArchiveFacts DEF OwnIsTree
  <2>3. QED BY <2>1, <2>2, SplitAndJoin
<1>3. QED BY <1>1, <1>2 DEF ExtractingWell

(* What is left elsewhere than in the innermost directory stays. *)
LEMMA LeftElsewhere ==
    ASSUME NEW L, L = Len(stack), L \in Nat, todo' = todo,
           \A i \in 1 .. L - 1 : i \in 1 .. Len(stack') /\ stack'[i] = stack[i],
           NEW p, ToExtract(p)
    PROVE  ToExtract(p)' \/ (L > 0 /\ LeftIn(p, stack[L]))
<1>1. CASE \E i \in 1 .. Len(todo) : IsPrefix(todo[i], p)
    BY <1>1 DEF ToExtract
<1>2. CASE \E i \in 1 .. L : LeftIn(p, stack[i])
  <2>1. PICK i \in 1 .. L : LeftIn(p, stack[i])
      BY <1>2
  <2>2. CASE i = L
      BY <2>1, <2>2
  <2>3. CASE i # L
    <3>1. i \in 1 .. Len(stack') /\ stack'[i] = stack[i]
        BY <2>1, <2>3
    <3>2. LeftIn(p, stack[i])'
        BY <2>1, <3>1 DEF LeftIn
    <3>3. QED BY <3>1, <3>2 DEF ToExtract
  <2>4. QED BY <2>2, <2>3
<1>3. QED BY <1>1, <1>2 DEF ToExtract
-------------------------------------------------------------------------------
(* One name of the innermost directory is taken, and a frame may be put on top. *)
LEMMA NameTaken ==
    ASSUME IInv, Extracts, stack # <<>>, NEW t, t = Top, NEW name,
           NEW f, f.dir = t.dir, f.at = t.at, f.names = t.names \ {name},
           UNCHANGED <<stored, todo>>,
           \/ stack' = WithTop(f)
           \/ \E g : stack' = Append(WithTop(f), g) /\ ExtractingWell(g)'
    PROVE  /\ \A i \in 1 .. Len(stack') : ExtractingWell(stack[i])'
           /\ \A p : ToExtract(p) => ToExtract(p)' \/ IsPrefix(Append(t.dir, name), p)
<1>1. IsStack(stack)
    BY DEF IInv
<1>2. PICK L \in Nat : L = Len(stack) /\ L > 0
    BY <1>1 DEF IsStack
<1>3. /\ stack'[L] = f /\ t = stack[L] /\ Len(stack') \in {L, L + 1}
      /\ \A i \in 1 .. L - 1 : i \in 1 .. Len(stack') /\ stack'[i] = stack[i]
      /\ Len(stack') = L + 1 => ExtractingWell(stack[L + 1])'
  <2>1. CASE stack' = WithTop(f)
      BY <1>1, <1>2, <2>1, Replaced
  <2>2. ASSUME NEW g, stack' = Append(WithTop(f), g), ExtractingWell(g)'
        PROVE  /\ stack'[L] = f /\ t = stack[L] /\ Len(stack') \in {L, L + 1}
               /\ \A i \in 1 .. L - 1 : i \in 1 .. Len(stack') /\ stack'[i] = stack[i]
               /\ Len(stack') = L + 1 => ExtractingWell(stack[L + 1])'
      BY <1>1, <1>2, <2>2, Pushed
  <2>3. QED BY <2>1, <2>2
<1>4. \A i \in 1 .. L : ExtractingWell(stack[i])
    BY <1>2 DEF Extracts
<1>5. ExtractingWell(f)'
    BY <1>2, <1>3, <1>4 DEF ExtractingWell
<1>6. ASSUME NEW i \in 1 .. Len(stack') PROVE ExtractingWell(stack[i])'
  <2>1. CASE i \in 1 .. L - 1
    <3>1. i \in 1 .. L
        BY <1>2, <2>1
    <3>2. stack'[i] = stack[i]
        BY <1>3, <2>1
    <3>3. QED BY <1>4, <3>1, <3>2 DEF ExtractingWell
  <2>2. CASE i = L
      BY <1>3, <1>5, <2>2
  <2>3. CASE i = L + 1
      BY <1>2, <1>3, <2>3
  <2>4. QED BY <1>2, <1>3, <2>1, <2>2, <2>3
<1>7. ASSUME NEW p, ToExtract(p) PROVE ToExtract(p)' \/ IsPrefix(Append(t.dir, name), p)
  <2>1. ToExtract(p)' \/ LeftIn(p, t)
      BY <1>2, <1>3, <1>7, LeftElsewhere
  <2>2. ASSUME NEW n \in t.names, n # name, IsPrefix(Append(t.dir, n), p)
        PROVE  ToExtract(p)'
    <3>1. LeftIn(p, f)
        BY <2>2 DEF LeftIn
    <3>2. L \in 1 .. Len(stack')
        BY <1>2, <1>3
    <3>3. QED BY <1>3, <3>1, <3>2 DEF ToExtract, LeftIn
  <2>3. QED BY <2>1, <2>2 DEF LeftIn
<1>8. QED BY <1>6, <1>7

(* A name of the innermost directory is extracted. *)
LEMMA ExtractNameWell ==
    ASSUME IInv, ExtractsFrom, Extracts, ExtractName
    PROVE  ArchiveIsRight' /\ Extracts'
<1>1. PICK t : t = Top
    OBVIOUS
<1>2. /\ stack # <<>> /\ t.at = "extract" /\ IsFrame(t) /\ OutIsWell
      /\ phase' = "extract" /\ UNCHANGED <<compress, source, stored, failed, asked, todo>>
    BY <1>1, TopFrame DEF IInv, ExtractName, Extracts
<1>3. ExtractingWell(t)
  <2>1. Len(stack) \in 1 .. Len(stack)
      BY <1>2 DEF IInv, IsStack
  <2>2. QED BY <1>1, <2>1 DEF Extracts, Top, Last
<1>4. PICK name \in t.names :
         LET path == Append(t.dir, name)
             counted(n) == WithTop([t EXCEPT !.names = @ \ {name}, !.count = Plus(@, n)])
         IN  \/ /\ stored[path].kind = "dir" /\ CanCreate(path)
                /\ out' = WithDirs(out, {path})
                /\ stack' = Append(counted(0), Extracting(path))
                /\ NoFork /\ UNCHANGED <<refused, skipped>>
             \/ /\ stored[path].kind = "dir" /\ ~CanCreate(path)
                /\ stack' = counted(-1)
                /\ refused' = refused \cup {path}
                /\ NoFork /\ UNCHANGED <<out, skipped>>
             \/ /\ stored[path].kind # "dir"
                /\ \E n \in 0 .. 1 : ExtractItem(path, out, n) /\ stack' = counted(n)
                /\ UNCHANGED refused
    BY <1>1 DEF ExtractName
<1>5. PICK path : path = Append(t.dir, name)
    OBVIOUS
<1>6. path \in DOMAIN stored /\ path \in Own /\ IsPath(path)
    BY <1>3, <1>5, ArchiveFacts DEF ExtractingWell, OwnIsTree
<1>7. ASSUME NEW n
      PROVE  LET f == [t EXCEPT !.names = @ \ {name}, !.count = Plus(@, n)]
             IN  f.dir = t.dir /\ f.at = t.at /\ f.names = t.names \ {name}
    BY <1>2 DEF IsFrame
<1>8. DirsAdded(out, {}) /\ DirsAdded(WithDirs(out, {path}), {path})
    BY <1>2, AddingDirs
<1>9. todo' \in Seq(Range(todo')) /\ \A i \in 1 .. Len(todo') : IsPath(todo'[i])
    BY <1>2 DEF Extracts
<1> DEFINE NotSpoilt(p) == /\ Wanted(p) /\ ~MayDiffer(p) /\ ~Clash(p)
                           /\ \A r \in refused' : ~IsPrefix(r, p)
<1>10. ASSUME refused \subseteq refused', skipped \subseteq skipped', OutStep, ChildrenGoOn,
              \A pid \in DOMAIN child' : GunzipsWell(pid)',
              \A i \in 1 .. Len(stack') : ExtractingWell(stack[i])',
              \A p \in DOMAIN stored : NotSpoilt(p) /\ ToExtract(p) => Coming(p)' \/ ToExtract(p)'
       PROVE  ArchiveIsRight' /\ Extracts'
    BY <1>2, <1>9, <1>10, ExtractsOn
<1>11. CASE /\ stored[path].kind = "dir" /\ CanCreate(path)
            /\ out' = WithDirs(out, {path})
            /\ stack' = Append(WithTop([t EXCEPT !.names = @ \ {name}, !.count = Plus(@, 0)]),
                               Extracting(path))
            /\ NoFork /\ UNCHANGED <<refused, skipped>>
  <2>1. PICK f : f = [t EXCEPT !.names = @ \ {name}, !.count = Plus(@, 0)]
      OBVIOUS
  <2>2. PICK g : g = Extracting(path)
      OBVIOUS
  <2>3. f.dir = t.dir /\ f.at = t.at /\ f.names = t.names \ {name} /\ stack' = Append(WithTop(f), g)
      BY <1>7, <1>11, <2>1, <2>2
  <2>4. ExtractingWell(g)' /\ g.names = NamesIn(stored, path) /\ g.dir = path
      BY <1>2, <1>6, <1>11, <2>2, FrameEntered
  <2>5. /\ \A i \in 1 .. Len(stack') : ExtractingWell(stack[i])'
        /\ \A p : ToExtract(p) => ToExtract(p)' \/ IsPrefix(path, p)
      BY <1>1, <1>2, <1>5, <2>3, <2>4, NameTaken
  <2>6. OutStep
      BY <1>6, <1>8, <1>11, DirsStep
  <2>7. child' = child
      BY <1>11 DEF NoFork
  <2>8. ChildrenGoOn /\ \A pid \in DOMAIN child' : GunzipsWell(pid)'
      BY <1>2, <2>6, <2>7, SameGoOn, SameGunzips
  <2>9. Coming(path)'
      BY <1>2, <1>6, <1>8, <1>11, DirectoryArrives
  <2>10. ASSUME NEW p \in DOMAIN stored, IsPrefix(path, p), p # path PROVE ToExtract(p)'
    <3>1. PICK n \in NamesIn(stored, path) : IsPrefix(Append(path, n), p)
        BY <1>6, <2>10, BelowADirectory
    <3>2. LeftIn(p, g)
        BY <2>4, <3>1 DEF LeftIn
    <3>3. /\ Len(stack) \in Nat /\ Len(stack') = Len(stack) + 1 /\ stack'[Len(stack) + 1] = g
        BY <1>2, <2>3, Pushed DEF IInv
    <3>4. Len(stack) + 1 \in 1 .. Len(stack')
        BY <3>3
    <3>5. QED BY <3>2, <3>3, <3>4 DEF ToExtract, LeftIn
  <2>11. QED BY <1>10, <1>11, <2>5, <2>6, <2>8, <2>9, <2>10
<1>12. CASE /\ stored[path].kind = "dir" /\ ~CanCreate(path)
            /\ stack' = WithTop([t EXCEPT !.names = @ \ {name}, !.count = Plus(@, -1)])
            /\ refused' = refused \cup {path}
            /\ NoFork /\ UNCHANGED <<out, skipped>>
  <2>1. PICK f : f = [t EXCEPT !.names = @ \ {name}, !.count = Plus(@, -1)]
      OBVIOUS
  <2>2. f.dir = t.dir /\ f.at = t.at /\ f.names = t.names \ {name} /\ stack' = WithTop(f)
      BY <1>7, <1>12, <2>1
  <2>3. /\ \A i \in 1 .. Len(stack') : ExtractingWell(stack[i])'
        /\ \A p : ToExtract(p) => ToExtract(p)' \/ IsPrefix(path, p)
      BY <1>1, <1>2, <1>5, <2>2, NameTaken
  <2>4. DirsAdded(out', {})
      BY <1>8, <1>12
  <2>5. OutStep
      BY <2>4, DirsStep
  <2>6. child' = child
      BY <1>12 DEF NoFork
  <2>7. ChildrenGoOn /\ \A pid \in DOMAIN child' : GunzipsWell(pid)'
      BY <1>2, <2>5, <2>6, SameGoOn, SameGunzips
  <2>8. \A p : NotSpoilt(p) => ~IsPrefix(path, p)
      BY <1>12
  <2>9. QED BY <1>10, <1>12, <2>3, <2>5, <2>7, <2>8
<1>13. ASSUME NEW n \in 0 .. 1, stored[path].kind # "dir",
              ExtractItem(path, out, n), UNCHANGED refused,
              stack' = WithTop([t EXCEPT !.names = @ \ {name}, !.count = Plus(@, n)])
       PROVE  ArchiveIsRight' /\ Extracts'
  <2>1. PICK f : f = [t EXCEPT !.names = @ \ {name}, !.count = Plus(@, n)]
      OBVIOUS
  <2>2. f.dir = t.dir /\ f.at = t.at /\ f.names = t.names \ {name} /\ stack' = WithTop(f)
      BY <1>7, <1>13, <2>1
  <2>3. /\ \A i \in 1 .. Len(stack') : ExtractingWell(stack[i])'
        /\ \A p : ToExtract(p) => ToExtract(p)' \/ IsPrefix(path, p)
      BY <1>1, <1>2, <1>5, <2>2, NameTaken
  <2>4. /\ OutStep /\ ChildrenGoOn /\ \A pid \in DOMAIN child' : GunzipsWell(pid)'
        /\ skipped \subseteq skipped'
        /\ ~MayDiffer(path) => Coming(path)'
    <3>1. {} \subseteq Own
        OBVIOUS
    <3>2. QED BY <1>2, <1>6, <1>8, <1>13, <3>1, ItemStep
  <2>5. \A p \in DOMAIN stored : IsPrefix(path, p) => p = path
      BY <1>6, <1>13, BelowAFile
  <2>6. QED BY <1>10, <1>13, <2>3, <2>4, <2>5
<1>14. QED BY <1>4, <1>5, <1>11, <1>12, <1>13

(* The innermost directory has no name left: the parent waits, then leaves it. *)
LEMMA NoNameLeft ==
    ASSUME IInv, Extracts, stack # <<>>, NEW t, t = Top, t.names = {},
           UNCHANGED <<stored, todo>>,
           \/ \E f : f.dir = t.dir /\ f.at = "wait" /\ f.names = {} /\ stack' = WithTop(f)
           \/ stack' = Front(stack)
    PROVE  /\ \A i \in 1 .. Len(stack') : ExtractingWell(stack[i])'
           /\ \A p : ToExtract(p) => ToExtract(p)'
<1>1. IsStack(stack)
    BY DEF IInv
<1>2. PICK L \in Nat : L = Len(stack) /\ L > 0
    BY <1>1 DEF IsStack
<1>3. \A i \in 1 .. L : ExtractingWell(stack[i])
    BY <1>2 DEF Extracts
<1>4. /\ t = stack[L] /\ Len(stack') \in {L - 1, L}
      /\ \A i \in 1 .. L - 1 : i \in 1 .. Len(stack') /\ stack'[i] = stack[i]
      /\ Len(stack') = L => ExtractingWell(stack[L])'
  <2>1. ASSUME NEW f, f.dir = t.dir, f.at = "wait", f.names = {}, stack' = WithTop(f)
        PROVE  /\ t = stack[L] /\ Len(stack') = L /\ ExtractingWell(stack[L])'
               /\ \A i \in 1 .. L - 1 : i \in 1 .. Len(stack') /\ stack'[i] = stack[i]
    <3>1. /\ stack'[L] = f /\ t = stack[L] /\ Len(stack') = L
          /\ \A i \in 1 .. L - 1 : i \in 1 .. Len(stack') /\ stack'[i] = stack[i]
        BY <1>1, <1>2, <2>1, Replaced
    <3>2. ExtractingWell(t)
        BY <1>2, <1>3, <3>1
    <3>3. ExtractingWell(f)'
        BY <2>1, <3>2 DEF ExtractingWell
    <3>4. QED BY <3>1, <3>3
  <2>2. CASE stack' = Front(stack)
    <3>1. /\ t = stack[L] /\ Len(stack') = L - 1
          /\ \A i \in 1 .. L - 1 : i \in 1 .. Len(stack') /\ stack'[i] = stack[i]
        BY <1>1, <1>2, <2>2, Popped
    <3>2. L - 1 # L
        BY <1>2
    <3>3. QED BY <3>1, <3>2
  <2>3. QED BY <2>1, <2>2
<1>5. ASSUME NEW i \in 1 .. Len(stack') PROVE ExtractingWell(stack[i])'
  <2>1. CASE i \in 1 .. L - 1
    <3>1. i \in 1 .. L
        BY <1>2, <2>1
    <3>2. stack'[i] = stack[i]
        BY <1>4, <2>1
    <3>3. QED BY <1>3, <3>1, <3>2 DEF ExtractingWell
  <2>2. CASE i \notin 1 .. L - 1
    <3>1. i = L /\ Len(stack') = L
        BY <1>2, <1>4, <2>2
    <3>2. QED BY <1>4, <3>1
  <2>3. QED BY <2>1, <2>2
<1>6. \A p : ToExtract(p) => ToExtract(p)'
    BY <1>2, <1>4, LeftElsewhere DEF LeftIn
<1>7. QED BY <1>5, <1>6

(* No name of the innermost directory is left. *)
LEMMA EndNamesWell ==
    ASSUME IInv, ExtractsFrom, Extracts, EndNames
    PROVE  ArchiveIsRight' /\ Extracts'
<1>1. PICK t : t = Top
    OBVIOUS
<1>2. PICK f : f = [t EXCEPT !.at = "wait"]
    OBVIOUS
<1>3. /\ stack # <<>> /\ IsFrame(t) /\ t.names = {} /\ OutIsWell
      /\ stack' = WithTop(f)
      /\ phase' = "extract"
      /\ UNCHANGED <<compress, source, stored, failed, asked, todo, child, out, refused, skipped>>
    BY <1>1, <1>2, TopFrame DEF IInv, EndNames, Extracts
<1>4. f.dir = t.dir /\ f.at = "wait" /\ f.names = {}
    BY <1>2, <1>3 DEF IsFrame
<1>5. /\ \A i \in 1 .. Len(stack') : ExtractingWell(stack[i])'
      /\ \A p : ToExtract(p) => ToExtract(p)'
    BY <1>1, <1>3, <1>4, NoNameLeft
<1>6. OutStep
    BY <1>3, AddingDirs, DirsStep
<1>7. ChildrenGoOn /\ \A pid \in DOMAIN child' : GunzipsWell(pid)'
    BY <1>3, <1>6, SameGoOn, SameGunzips
<1>8. todo' \in Seq(Range(todo')) /\ \A i \in 1 .. Len(todo') : IsPath(todo'[i])
    BY <1>3 DEF Extracts
<1>9. QED BY <1>3, <1>5, <1>6, <1>7, <1>8, ExtractsOn
-------------------------------------------------------------------------------
(* The next of the paths that were asked for. *)
LEMMA TailOfTodo ==
    ASSUME NEW s, s \in Seq(Range(s)), s # <<>>
    PROVE  /\ Tail(s) \in Seq(Range(Tail(s))) /\ Len(s) \in Nat /\ Len(s) > 0
           /\ Head(s) = s[1] /\ Len(Tail(s)) = Len(s) - 1
           /\ \A i \in 1 .. Len(Tail(s)) : Tail(s)[i] = s[i + 1] /\ i + 1 \in 1 .. Len(s)
<1>1. PICK k \in Nat : k = Len(s) /\ k > 0
    OBVIOUS
<1>2. /\ Tail(s) \in Seq(Range(s)) /\ Len(Tail(s)) = k - 1 /\ Head(s) = s[1]
      /\ \A i \in 1 .. k - 1 : Tail(s)[i] = s[i + 1]
    BY <1>1, HeadTailProperties
<1>3. ASSUME NEW t, t \in Seq(Range(s)) PROVE t \in Seq(Range(t))
    BY <1>3 DEF Range
<1>4. Tail(s) \in Seq(Range(Tail(s)))
    BY <1>2, <1>3
<1>5. \A i \in 1 .. k - 1 : i + 1 \in 1 .. k
    BY <1>1
<1>6. QED BY <1>1, <1>2, <1>4, <1>5

(* The next path asked for is extracted, with the directories above it. *)
LEMMA ExtractPathWell ==
    ASSUME IInv, ExtractsFrom, Extracts, ExtractPath
    PROVE  ArchiveIsRight' /\ Extracts'
<1>1. /\ stack = <<>> /\ todo # <<>> /\ todo' = Tail(todo) /\ OutIsWell
      /\ todo \in Seq(Range(todo)) /\ \A i \in 1 .. Len(todo) : IsPath(todo[i])
      /\ phase' = "extract" /\ UNCHANGED <<compress, source, stored, failed, asked>>
    BY DEF ExtractPath, Extracts
<1>2. /\ Len(todo) \in Nat /\ Len(todo) > 0 /\ Head(todo) = todo[1]
      /\ todo' \in Seq(Range(todo')) /\ Len(todo') = Len(todo) - 1
      /\ \A i \in 1 .. Len(todo') : todo'[i] = todo[i + 1] /\ i + 1 \in 1 .. Len(todo)
    BY <1>1, TailOfTodo
<1>3. PICK path : path = Head(todo)
    OBVIOUS
<1>4. PICK above : above = Above(path)
    OBVIOUS
<1>5. PICK made : made = WithDirs(out, above)
    OBVIOUS
<1>6. \/ /\ path \notin DOMAIN stored
         /\ UNCHANGED <<out, stack, child, refused, skipped>>
      \/ /\ path \in DOMAIN stored /\ \E p \in above : ~CanCreate(p)
         /\ refused' = refused \cup {p \in above : ~CanCreate(p)}
         /\ out' = WithDirs(out, {p \in above : \A q \in Prefixes(p) : CanCreate(q)})
         /\ UNCHANGED <<stack, child, skipped>>
      \/ /\ path \in DOMAIN stored /\ stored[path].kind = "dir" /\ CanCreate(path)
         /\ out' = WithDirs(made, {path})
         /\ stack' = <<Extracting(path)>>
         /\ UNCHANGED <<child, refused, skipped>>
      \/ /\ path \in DOMAIN stored /\ stored[path].kind = "dir"
         /\ out' = made
         /\ refused' = refused \cup {path}
         /\ UNCHANGED <<child, stack, skipped>>
      \/ /\ path \in DOMAIN stored /\ stored[path].kind # "dir"
         /\ \E n \in 0 .. 1 : ExtractItem(path, made, n)
         /\ UNCHANGED <<stack, refused>>
    BY <1>3, <1>4, <1>5 DEF ExtractPath, NoFork
<1>7. IsPath(path) /\ \A i \in 1 .. Len(todo') : IsPath(todo'[i])
    BY <1>1, <1>2, <1>3
<1>8. Len(stack) = 0 /\ ~\E i \in 1 .. Len(stack) : TRUE
    BY <1>1
<1>9. ASSUME NEW p, ToExtract(p) PROVE ToExtract(p)' \/ IsPrefix(path, p)
  <2>1. PICK i \in 1 .. Len(todo) : IsPrefix(todo[i], p)
      BY <1>8, <1>9 DEF ToExtract
  <2>2. CASE i = 1
      BY <1>2, <1>3, <2>1, <2>2
  <2>3. CASE i # 1
    <3>1. i - 1 \in 1 .. Len(todo') /\ (i - 1) + 1 = i
        BY <1>2, <2>1, <2>3
    <3>2. todo'[i - 1] = todo[i]
        BY <1>2, <3>1
    <3>3. QED BY <2>1, <3>1, <3>2 DEF ToExtract
  <2>4. QED BY <2>2, <2>3
<1>10. ASSUME path \in DOMAIN stored
       PROVE  above \subseteq Own /\ path \in Own /\ \A q \in above : IsPath(q) /\ IsPrefix(q, path)
    BY <1>4, <1>10, AboveAreDirectories, ArchiveFacts
<1>11. /\ DirsAdded(out, {}) /\ DirsAdded(made, above)
       /\ \A dirs : DirsAdded(WithDirs(out, dirs), dirs)
       /\ DirsAdded(WithDirs(made, {path}), above \cup {path})
    BY <1>1, <1>5, AddingDirs
<1> DEFINE NotSpoilt(p) == /\ Wanted(p) /\ ~MayDiffer(p) /\ ~Clash(p)
                           /\ \A r \in refused' : ~IsPrefix(r, p)
<1>12. ASSUME refused \subseteq refused', skipped \subseteq skipped', OutStep, ChildrenGoOn,
              \A pid \in DOMAIN child' : GunzipsWell(pid)',
              \A i \in 1 .. Len(stack') : ExtractingWell(stack[i])',
              \A p \in DOMAIN stored :
                  NotSpoilt(p) /\ IsPrefix(path, p) => Coming(p)' \/ ToExtract(p)'
       PROVE  ArchiveIsRight' /\ Extracts'
    BY <1>1, <1>2, <1>7, <1>9, <1>12, ExtractsOn
<1>13. ASSUME stack' = stack PROVE \A i \in 1 .. Len(stack') : ExtractingWell(stack[i])'
    BY <1>8, <1>13
<1>14. ASSUME child' = child, OutStep
       PROVE  ChildrenGoOn /\ \A pid \in DOMAIN child' : GunzipsWell(pid)'
    BY <1>1, <1>14, SameGoOn, SameGunzips
<1>15. CASE /\ path \notin DOMAIN stored
            /\ UNCHANGED <<out, stack, child, refused, skipped>>
  <2>1. OutStep
      BY <1>11, <1>15, DirsStep
  <2>2. \A p \in DOMAIN stored : ~IsPrefix(path, p)
      BY <1>7, <1>15, NothingMissing
  <2>3. QED BY <1>12, <1>13, <1>14, <1>15, <2>1, <2>2
<1>16. CASE /\ path \in DOMAIN stored /\ \E p \in above : ~CanCreate(p)
            /\ refused' = refused \cup {p \in above : ~CanCreate(p)}
            /\ out' = WithDirs(out, {p \in above : \A q \in Prefixes(p) : CanCreate(q)})
            /\ UNCHANGED <<stack, child, skipped>>
  <2>1. PICK dirs : dirs = {p \in above : \A q \in Prefixes(p) : CanCreate(q)}
      OBVIOUS
  <2>2. dirs \subseteq Own /\ DirsAdded(out', dirs)
      BY <1>10, <1>11, <1>16, <2>1
  <2>3. OutStep
      BY <2>2, DirsStep
  <2>4. PICK r \in above : ~CanCreate(r) /\ r \in refused'
      BY <1>16
  <2>5. ASSUME NEW p \in DOMAIN stored, IsPrefix(path, p) PROVE IsPrefix(r, p)
    <3>1. IsPath(p) /\ IsPath(r) /\ IsPrefix(r, path)
        BY <1>10, <1>16, ArchiveFacts DEF OwnIsTree
    <3>2. QED BY <1>7, <2>5, <3>1, PrefixOfPrefix
  <2>6. \A p \in DOMAIN stored : NotSpoilt(p) => ~IsPrefix(path, p)
      BY <2>4, <2>5
  <2>7. refused \subseteq refused'
      BY <1>16
  <2>8. QED BY <1>12, <1>13, <1>14, <1>16, <2>3, <2>6, <2>7
<1>17. CASE /\ path \in DOMAIN stored /\ stored[path].kind = "dir" /\ CanCreate(path)
            /\ out' = WithDirs(made, {path})
            /\ stack' = <<Extracting(path)>>
            /\ UNCHANGED <<child, refused, skipped>>
  <2>1. PICK g : g = Extracting(path)
      OBVIOUS
  <2>2. ExtractingWell(g)' /\ g.names = NamesIn(stored, path) /\ g.dir = path
      BY <1>1, <1>17, <2>1, FrameEntered
  <2>3. Len(stack') = 1 /\ stack'[1] = g /\ 1 \in 1 .. Len(stack')
      BY <1>17, <2>1
  <2>4. \A i \in 1 .. Len(stack') : ExtractingWell(stack[i])'
      BY <2>2, <2>3
  <2>5. OutStep
      BY <1>10, <1>11, <1>17, DirsStep
  <2>6. Coming(path)'
    <3>1. path \in above \cup {path} /\ DirsAdded(out', above \cup {path})
        BY <1>11, <1>17
    <3>2. QED BY <1>1, <1>17, <3>1, DirectoryArrives
  <2>7. ASSUME NEW p \in DOMAIN stored, IsPrefix(path, p), p # path PROVE ToExtract(p)'
    <3>1. PICK n \in NamesIn(stored, path) : IsPrefix(Append(path, n), p)
        BY <1>17, <2>7, BelowADirectory
    <3>2. LeftIn(p, g)
        BY <2>2, <3>1 DEF LeftIn
    <3>3. QED BY <2>3, <3>2 DEF ToExtract, LeftIn
  <2>8. QED BY <1>12, <1>14, <1>17, <2>4, <2>5, <2>6, <2>7
<1>18. CASE /\ path \in DOMAIN stored /\ stored[path].kind = "dir"
            /\ out' = made
            /\ refused' = refused \cup {path}
            /\ UNCHANGED <<child, stack, skipped>>
  <2>1. OutStep
      BY <1>10, <1>11, <1>18, DirsStep
  <2>2. \A p : NotSpoilt(p) => ~IsPrefix(path, p)
      BY <1>18
  <2>3. QED BY <1>12, <1>13, <1>14, <1>18, <2>1, <2>2
<1>19. CASE /\ path \in DOMAIN stored /\ stored[path].kind # "dir"
            /\ \E n \in 0 .. 1 : ExtractItem(path, made, n)
            /\ UNCHANGED <<stack, refused>>
  <2>1. /\ OutStep /\ ChildrenGoOn /\ \A pid \in DOMAIN child' : GunzipsWell(pid)'
        /\ skipped \subseteq skipped'
        /\ ~MayDiffer(path) => Coming(path)'
    <3>1. PICK n \in 0 .. 1 : ExtractItem(path, made, n)
        BY <1>19
    <3>2. QED BY <1>1, <1>10, <1>11, <1>19, <3>1, ItemStep
  <2>2. \A p \in DOMAIN stored : IsPrefix(path, p) => p = path
      BY <1>19, BelowAFile
  <2>3. QED BY <1>12, <1>13, <1>19, <2>1, <2>2
<1>20. QED BY <1>6, <1>15, <1>16, <1>17, <1>18, <1>19
-------------------------------------------------------------------------------
(* The parent waits for children, and exits. *)
LEMMA WaitsExtract ==
    ASSUME IInv, ExtractsFrom, Extracts, phase = "extract",
           WaitInDirectory \/ EndWait \/ WaitAtEnd \/ Exit
    PROVE  ArchiveIsRight' /\ Extracts'
<1>1. /\ OutIsWell
      /\ UNCHANGED <<compress, source, stored, failed, asked, todo, out, refused, skipped>>
      /\ phase' = (IF Exit THEN "exit" ELSE "extract")
      /\ phase' = "exit" => stack' = <<>> /\ todo' = <<>>
    BY DEF WaitInDirectory, EndWait, WaitAtEnd, Exit, Extracts
<1>2. OutStep
    BY <1>1, AddingDirs, DirsStep
<1>3. /\ DOMAIN child' \subseteq DOMAIN child
      /\ \A pid \in DOMAIN child' : child'[pid] = child[pid]
      /\ \A pid \in DOMAIN child : child[pid].at # "zombie" => pid \in DOMAIN child'
  <2>1. CASE Reap
    <3>1. PICK gone \in DOMAIN child : child[gone].at = "zombie" /\ child' = Unlink(child, gone)
        BY <2>1 DEF Reap
    <3>2. /\ DOMAIN child' = DOMAIN child \ {gone}
          /\ \A pid \in DOMAIN child' : child'[pid] = child[pid]
        BY <3>1 DEF Unlink
    <3>3. QED BY <3>1, <3>2
  <2>2. CASE child' = child
      BY <2>2
  <2>3. QED BY <2>1, <2>2 DEF WaitInDirectory, EndWait, WaitAtEnd, Exit, WaitReturns
<1>4. ChildrenGoOn /\ \A pid \in DOMAIN child' : GunzipsWell(pid)'
    BY <1>1, <1>2, <1>3, SameGoOn, SameGunzips
<1>5. todo' \in Seq(Range(todo')) /\ \A i \in 1 .. Len(todo') : IsPath(todo'[i])
    BY <1>1 DEF Extracts
<1>6. /\ \A i \in 1 .. Len(stack') : ExtractingWell(stack[i])'
      /\ \A p : ToExtract(p) => ToExtract(p)'
  <2>1. CASE WaitAtEnd \/ Exit
    <3>1. stack' = stack
        BY <2>1 DEF WaitAtEnd, Exit
    <3>2. \A i \in 1 .. Len(stack') : ExtractingWell(stack[i])'
        BY <1>1, <3>1 DEF Extracts, ExtractingWell
    <3>3. QED BY <1>1, <3>1, <3>2 DEF ToExtract, LeftIn
  <2>2. CASE WaitInDirectory \/ EndWait
    <3>1. PICK t : t = Top
        OBVIOUS
    <3>2. stack # <<>> /\ t.at = "wait" /\ IsFrame(t)
        BY <2>2, <3>1, TopFrame DEF IInv, WaitInDirectory, EndWait
    <3>3. ExtractingWell(t)
      <4>1. Len(stack) \in 1 .. Len(stack)
          BY <3>2 DEF IInv, IsStack
      <4>2. QED BY <3>1, <4>1 DEF Extracts, Top, Last
    <3>4. t.names = {}
        BY <3>2, <3>3 DEF ExtractingWell
    <3>5. CASE WaitInDirectory
      <4>1. PICK f : f = [t EXCEPT !.count = @ - 1]
          OBVIOUS
      <4>2. f.dir = t.dir /\ f.at = "wait" /\ f.names = {}
          BY <3>2, <3>4, <4>1 DEF IsFrame
      <4>3. stack' = WithTop(f)
          BY <3>1, <3>5, <4>1 DEF WaitInDirectory
      <4>4. QED BY <1>1, <3>1, <3>2, <3>4, <4>2, <4>3, NoNameLeft
    <3>6. CASE EndWait
      <4>1. stack' = Front(stack)
          BY <3>6 DEF EndWait
      <4>2. QED BY <1>1, <3>1, <3>2, <3>4, <4>1, NoNameLeft
    <3>7. QED BY <2>2, <3>5, <3>6
  <2>3. QED BY <2>1, <2>2
<1>7. phase' \in {"extract", "exit"} /\ refused \subseteq refused' /\ skipped \subseteq skipped'
    BY <1>1
<1>8. QED BY <1>1, <1>2, <1>4, <1>5, <1>6, <1>7, ExtractsOn

(* A child uncompresses a file: it writes the one, then removes the other. *)
LEMMA ChildExtracts ==
    ASSUME IInv, Types, ExtractsFrom, Extracts, phase \in {"extract", "exit"}, ChildStep
    PROVE  ArchiveIsRight' /\ Extracts'
<1>1. PICK pid \in DOMAIN child : OpenOutput(pid) \/ Gzip(pid) \/ Gunzip(pid) \/ RemoveZipped(pid)
    BY DEF ChildStep
<1>2. PICK path : path = child[pid].path
    OBVIOUS
<1>3. /\ child[pid].do = "gunzip" /\ path \in DOMAIN stored /\ ForksFor(path)
      /\ child[pid].at = "open" => Clash(path) \/ Arrived(path)
      /\ OutIsWell
    BY <1>2 DEF Extracts, GunzipsWell
<1>4. /\ Gunzip(pid) \/ RemoveZipped(pid)
      /\ UNCHANGED <<compress, source, stored, failed, asked, todo, stack, phase, refused>>
      /\ skipped \subseteq skipped'
    BY <1>1, <1>3 DEF OpenOutput, Gzip, Gunzip, RemoveZipped, ChildUnchanged
<1>5. PICK q : q = Gz(path)
    OBVIOUS
<1>6. ASSUME NEW at, child' = [child EXCEPT ![pid].at = at]
      PROVE  /\ DOMAIN child' = DOMAIN child
             /\ \A x \in DOMAIN child : x # pid => child'[x] = child[x]
             /\ child'[pid].path = path /\ child'[pid].do = "gunzip" /\ child'[pid].at = at
  <2>1. child[pid] \in [do : {child[pid].do}, dir : {child[pid].dir},
                        path : {child[pid].path}, at : {"start", "open", "zombie"}]
      BY DEF Types, Activities
  <2>2. QED BY <1>2, <1>3, <1>6, <2>1
<1>7. Bytes(path) = File(path, 1) /\ source[path] = File(path, 0)
    BY <1>3, ForkedItem
<1>8. ASSUME NEW at, child' = [child EXCEPT ![pid].at = at], OutStep,
             GoesOnWith(pid, path), at = "open" => Clash(path) \/ IsThere(path)
      PROVE  ArchiveIsRight' /\ Extracts'
  <2>1. /\ DOMAIN child' = DOMAIN child
        /\ \A x \in DOMAIN child : x # pid => child'[x] = child[x]
        /\ child'[pid].path = path /\ child'[pid].do = "gunzip" /\ child'[pid].at = at
      BY <1>6, <1>8
  <2>2. ASSUME NEW x \in DOMAIN child, child[x].at # "zombie"
        PROVE  GoesOnWith(x, child[x].path)
    <3>1. CASE x = pid
        BY <1>2, <1>8, <3>1
    <3>2. CASE x # pid
        BY <2>1, <2>2, <3>2 DEF GoesOnWith
    <3>3. QED BY <3>1, <3>2
  <2>3. ChildrenGoOn
      BY <2>2 DEF ChildrenGoOn
  <2>4. GunzipsWell(pid)'
    <3>1. ForksFor(path)' /\ path \in DOMAIN stored' /\ (Clash(path)' <=> Clash(path))
        BY <1>3, <1>4 DEF ForksFor, Clash
    <3>2. IsThere(path) => Arrived(path)'
        BY <1>4 DEF IsThere, Arrived
    <3>3. QED BY <1>8, <2>1, <3>1, <3>2 DEF GunzipsWell
  <2>5. \A x \in DOMAIN child' : GunzipsWell(x)'
      BY <1>4, <1>8, <2>1, <2>4, SameGunzips
  <2>6. /\ \A i \in 1 .. Len(stack') : ExtractingWell(stack[i])'
        /\ \A p : ToExtract(p) => ToExtract(p)'
    <3>1. \A i \in 1 .. Len(stack') : ExtractingWell(stack[i])'
        BY <1>4 DEF Extracts, ExtractingWell
    <3>2. QED BY <1>4, <3>1 DEF ToExtract, LeftIn
  <2>7. /\ todo' \in Seq(Range(todo')) /\ \A i \in 1 .. Len(todo') : IsPath(todo'[i])
        /\ phase' \in {"extract", "exit"}
        /\ refused \subseteq refused' /\ skipped \subseteq skipped'
        /\ phase' = "exit" => stack' = <<>> /\ todo' = <<>>
      BY <1>4 DEF Extracts
  <2>8. QED BY <1>4, <1>8, <2>3, <2>5, <2>6, <2>7, ExtractsOn
<1>9. ASSUME NEW item, out' = Put(out, path, Unzipped(item)),
             child' = [child EXCEPT ![pid].at = "open"],
             \/ IsZipped(q) /\ item = out[q]
             \/ item = Bytes(path)
      PROVE  ArchiveIsRight' /\ Extracts'
  <2>1. PICK written : written = Unzipped(item)
      OBVIOUS
  <2>2. IsItem(item) /\ item.kind = "file" /\ item.zip > 0
    <3>1. CASE IsZipped(q) /\ item = out[q]
        BY <1>3, <3>1 DEF OutIsWell, IsZipped
    <3>2. CASE item = Bytes(path)
        BY <1>7, <3>2 DEF IsItem, File
    <3>3. QED BY <1>9, <3>1, <3>2
  <2>3. written \in [kind : {"file"}, of : {item.of}, zip : {item.zip - 1}]
      BY <2>1, <2>2 DEF IsItem, Unzipped
  <2>4. IsItem(written) /\ written.kind # "dir"
      BY <2>2, <2>3 DEF IsItem
  <2>5. ~Clash(path) => written = source[path]
    <3>1. SUFFICES ASSUME ~Clash(path) PROVE written = source[path]
        OBVIOUS
    <3>2. item = File(path, 1)
        BY <1>3, <1>5, <1>7, <1>9, <3>1 DEF OutIsWell
    <3>3. written = File(path, 0)
        BY <2>1, <3>2 DEF File, Unzipped
    <3>4. QED BY <1>7, <3>3
  <2>6. path \in DOMAIN out' /\ out'[path] = written /\ out' = [x \in DOMAIN out' |-> out'[x]]
        /\ \A x : x # path => Kept(x)
      BY <1>9, <2>1 DEF Put, Kept
  <2>7. WrittenAs(path, written)
      BY <1>3, <2>4, <2>5, <2>6 DEF WrittenAs
  <2>8. OutStep
      BY <2>6, <2>7 DEF OutStep
  <2>9. Clash(path) \/ IsThere(path)
      BY <2>5, <2>6 DEF IsThere
  <2>10. GoesOnWith(pid, path)
      BY <1>6, <1>9, <2>9 DEF GoesOnWith
  <2>11. PICK at : at = "open"
      OBVIOUS
  <2>12. child' = [child EXCEPT ![pid].at = at] /\ (at = "open" => Clash(path) \/ IsThere(path))
      BY <1>9, <2>9, <2>11
  <2>13. QED BY <1>8, <2>8, <2>10, <2>12
<1>10. ASSUME out' = out, child' = [child EXCEPT ![pid].at = "zombie"],
              ~IsZipped(q) \/ {path, q} \subseteq skipped'
       PROVE  ArchiveIsRight' /\ Extracts'
  <2>1. OutStep
      BY <1>3, <1>10, AddingDirs, DirsStep
  <2>2. GoesOnWith(pid, path)
      BY <1>5, <1>10 DEF GoesOnWith, NothingAt, IsZipped
  <2>3. PICK at : at = "zombie"
      OBVIOUS
  <2>4. child' = [child EXCEPT ![pid].at = at] /\ (at = "open" => Clash(path) \/ IsThere(path))
      BY <1>10, <2>3
  <2>5. QED BY <1>8, <2>1, <2>2, <2>4
<1>11. CASE Gunzip(pid)
  <2>1. \/ \E item : /\ out' = Put(out, path, Unzipped(item))
                     /\ child' = [child EXCEPT ![pid].at = "open"]
                     /\ (IsZipped(q) /\ item = out[q]) \/ item = Bytes(path)
        \/ /\ out' = out /\ child' = [child EXCEPT ![pid].at = "zombie"]
           /\ ~IsZipped(q) \/ {path, q} \subseteq skipped'
      BY <1>2, <1>5, <1>11 DEF Gunzip, Goes
  <2>2. QED BY <1>9, <1>10, <2>1
<1>12. CASE RemoveZipped(pid)
  <2>1. /\ out' = Unlink(out, q) \/ (KindAt(out, q) = "dir" /\ out' = out)
        /\ child' = [child EXCEPT ![pid].at = "zombie"]
        /\ child[pid].at = "open"
      BY <1>2, <1>5, <1>12 DEF RemoveZipped, Goes
  <2>2. OutStep /\ NothingAt(q)
    <3>1. CASE out' = Unlink(out, q)
      <4>1. q \notin DOMAIN out' /\ out' = [x \in DOMAIN out' |-> out'[x]]
            /\ \A x : x # q => Kept(x)
          BY <3>1 DEF Unlink, Kept
      <4>2. RemovedZipped(q, path)
          BY <1>3, <1>5, <2>1, <4>1 DEF RemovedZipped
      <4>3. OutStep
          BY <4>1, <4>2 DEF OutStep
      <4>4. QED BY <4>1, <4>3 DEF NothingAt
    <3>2. CASE KindAt(out, q) = "dir" /\ out' = out
      <4>1. OutStep
          BY <1>3, <3>2, AddingDirs, DirsStep
      <4>2. QED BY <3>2, <4>1 DEF NothingAt, KindAt
    <3>3. QED BY <2>1, <3>1, <3>2
  <2>3. GoesOnWith(pid, path)
      BY <1>5, <2>1, <2>2 DEF GoesOnWith
  <2>4. PICK at : at = "zombie"
      OBVIOUS
  <2>5. child' = [child EXCEPT ![pid].at = at] /\ (at = "open" => Clash(path) \/ IsThere(path))
      BY <2>1, <2>4
  <2>6. QED BY <1>8, <2>2, <2>3, <2>5
<1>13. QED BY <1>4, <1>11, <1>12
-------------------------------------------------------------------------------
(* The command that extracts starts with everything still to come. *)
LEMMA ChooseWell ==
    ASSUME Between, ArchiveIsRight, phase = "choose",
           NEW request \in Requests, NEW kinds \in InTheWay, Choose(request, kinds)
    PROVE  ArchiveIsRight' /\ Extracts'
<1>1. /\ out' = [p \in DOMAIN kinds |-> Lying(kinds[p])]
      /\ todo' = request /\ asked' = request /\ phase' = "extract"
      /\ UNCHANGED <<compress, source, stored, child, stack, failed, refused, skipped>>
    BY DEF Choose
<1>2. PICK s \in Sources : source = Tree(s)
    BY DEF Between
<1>3. Own = DOMAIN source /\ OwnIsTree
    BY <1>2, OwnOfTree
<1>4. ArchiveIsRight'
  <2>1. StoredIsRight' /\ Own' = Own
      BY <1>1, SameRight DEF Own
  <2>2. QED BY <1>1, <2>1 DEF ArchiveIsRight
<1>5. OutIsWell'
  <2>1. ASSUME NEW q \in DOMAIN out'
        PROVE  /\ out'[q] = Directory
                  \/ \E k \in Kinds : k # "dir" /\ out'[q] = [kind |-> k, of |-> Nothing, zip |-> 0]
               /\ q \in DOMAIN source' \cup WasInTheWay \cup skipped'
    <3>1. q \in DOMAIN kinds /\ kinds[q] \in Kinds /\ out'[q] = Lying(kinds[q])
        BY <1>1, <2>1, PathsAssumption DEF PathsAssumption
    <3>2. QED BY <3>1 DEF Lying, WasInTheWay
  <2>2. \A q \in DOMAIN out' : /\ IsItem(out'[q]) /\ (out'[q].kind = "dir" => out'[q] = Directory)
                               /\ out'[q].zip = 0
      BY <2>1 DEF IsItem, Directory, Kinds
  <2>3. <<>> \in DOMAIN out' /\ out' = [q \in DOMAIN out' |-> out'[q]]
      BY <1>1, PathsAssumption DEF PathsAssumption
  <2>4. \A q : ~IsZipped(q)'
      BY <2>2 DEF IsZipped
  <2>5. \A p : ~IsZipped(Gz(p))'
    <3>1. ASSUME NEW p PROVE ~IsZipped(Gz(p))'
      <4>1. PICK q : q = Gz(p)
          OBVIOUS
      <4>2. ~IsZipped(q)'
          BY <2>4
      <4>3. QED BY <4>1, <4>2 DEF IsZipped, Gz
    <3>2. QED BY <3>1
  <2>6. QED BY <2>1, <2>2, <2>3, <2>5 DEF OutIsWell
<1>6. stack' = <<>> /\ DOMAIN child' = {}
    BY <1>1 DEF Between
<1>7. todo' \in Seq(Range(todo')) /\ \A i \in 1 .. Len(todo') : IsPath(todo'[i])
    BY <1>1, PathsAssumption DEF IsPath
<1>8. \A p : Wanted(p)' => ToExtract(p)'
  <2>1. DOMAIN asked' = 1 .. Len(todo') /\ asked' = todo'
      BY <1>1, <1>7
  <2>2. QED BY <2>1 DEF Wanted, ToExtract
<1>9. QED BY <1>1, <1>2, <1>4, <1>5, <1>6, <1>7, <1>8 DEF Extracts

(* Every step keeps the invariant. *)
LEMMA NextTrip == IInv /\ StoreInv /\ TripInv /\ [Next]_vars => TripInv'
<1> SUFFICES ASSUME IInv, StoreInv, TripInv, [Next]_vars PROVE TripInv'
    OBVIOUS
<1>1. Types /\ ArchiveIsRight /\ phase \in {"store", "choose", "extract", "exit"}
    BY DEF StoreInv, TripInv, Types
<1>2. CASE phase = "store"
  <2>1. Storing /\ StoresAll
      BY <1>2 DEF StoreInv, TripInv
  <2>2. CASE ScanDirectory \/ EndScan \/ WaitInDirectory \/ EndWait \/ InsertName \/ ChildStep
    <3>1. ArchiveIsRight' /\ StoresAll'
        BY <1>1, <1>2, <2>1, <2>2, ScanWell, EndScanWell, WaitWell, EndWaitWell, InsertWell,
           ChildWell
    <3>2. phase' = "store"
        BY <1>2, <2>2 DEF ScanDirectory, EndScan, WaitInDirectory, EndWait, InsertName, ChildStep,
                          OpenOutput, Gzip, Gunzip, RemoveZipped, ChildUnchanged
    <3>3. QED BY <3>1, <3>2 DEF TripInv
  <2>3. CASE LeaveInserted
    <3>1. ArchiveIsRight' /\ (phase' = "store" => StoresAll')
        BY <1>1, <2>1, <2>3, LeaveWell
    <3>2. phase' \in {"store", "choose"}
        BY <1>2, <2>3 DEF LeaveInserted
    <3>3. QED BY <3>1, <3>2 DEF TripInv
  <2>4. CASE UNCHANGED vars
    <3>1. ArchiveIsRight'
        BY <1>1, <2>4 DEF vars, ArchiveIsRight, StoredIsRight, IsRight, Own, OwnKind,
                          Pending, PendingIn, ComesAs, ComesZipped
    <3>2. StoresAll'
      <4>1. /\ UNCHANGED <<source, failed, child, forks, stack>>
            /\ \A q, p, f, pid : WorkOf(q, p, f, pid) => WorkOf(q, p, f, pid)'
            /\ \A p : IsOwnFile(p)' <=> IsOwnFile(p)
            /\ Own' = Own /\ \A p : OwnKind(p)' = OwnKind(p)
          BY <2>4 DEF vars, WorkOf, Running, IsOwnFile, Own, OwnKind
      <4>2. ASSUME NEW f, NEW i, StoringWell(f, i) PROVE StoringWell(f, i)'
          BY <4>1, <4>2 DEF StoringWell, HasBeen
      <4>3. \A i \in 1 .. Len(stack') : StoringWell(stack[i], i)'
          BY <2>1, <4>1, <4>2 DEF StoresAll
      <4>4. \A pid \in DOMAIN child' : GzipsWell(pid)'
          BY <2>1, <4>1 DEF StoresAll, GzipsWell, Top
      <4>5. QED BY <4>3, <4>4 DEF StoresAll
    <3>3. QED BY <1>2, <2>4, <3>1, <3>2 DEF vars, TripInv
  <2>5. QED
      BY <1>2, <2>2, <2>3, <2>4
      DEF Next, ParentStep, Choose, ExtractName, EndNames, ExtractPath, WaitAtEnd, Exit
<1>3. CASE phase = "choose"
  <2>1. Between
      BY <1>3 DEF StoreInv
  <2>2. CASE \E request \in Requests, kinds \in InTheWay : Choose(request, kinds)
    <3>1. PICK request \in Requests, kinds \in InTheWay : Choose(request, kinds)
        BY <2>2
    <3>2. phase' = "extract"
        BY <3>1 DEF Choose
    <3>3. ArchiveIsRight' /\ Extracts'
        BY <1>1, <1>3, <2>1, <3>1, ChooseWell
    <3>4. QED BY <3>2, <3>3 DEF TripInv
  <2>3. CASE UNCHANGED vars
    <3>1. ArchiveIsRight'
        BY <1>1, <2>3 DEF vars, ArchiveIsRight, StoredIsRight, IsRight, Own, OwnKind,
                          Pending, PendingIn, ComesAs, ComesZipped
    <3>2. QED BY <1>3, <2>3, <3>1 DEF vars, TripInv
  <2>4. ~ChildStep /\ ~ParentStep
      BY <1>3, <2>1 DEF Between, ChildStep, ParentStep, ScanDirectory, EndScan, InsertName,
                        LeaveInserted, ExtractName, EndNames, ExtractPath, WaitInDirectory,
                        EndWait, WaitAtEnd, Exit
  <2>5. QED BY <2>2, <2>3, <2>4 DEF Next
<1>4. CASE phase \in {"extract", "exit"}
  <2>1. Extracts /\ ExtractsFrom
      BY <1>1, <1>4 DEF TripInv, Extracts, ExtractsFrom
  <2>2. phase = "exit" => stack = <<>>
      BY <2>1 DEF Extracts
  <2>3. phase = "extract" => phase' \in {"extract", "exit"}
      BY DEF Next, ParentStep, ChildStep, vars, Choose, ScanDirectory, EndScan, InsertName,
             LeaveInserted, ExtractName, EndNames, ExtractPath, WaitInDirectory, EndWait,
             WaitAtEnd, Exit, OpenOutput, Gzip, Gunzip, RemoveZipped, ChildUnchanged
  <2>4. phase = "exit" => phase' = "exit" /\ (ChildStep \/ UNCHANGED vars)
      BY <2>2 DEF Next, ParentStep, ChildStep, vars, Choose, ScanDirectory, EndScan, InsertName,
             LeaveInserted, ExtractName, EndNames, ExtractPath, WaitInDirectory, EndWait,
             WaitAtEnd, Exit, OpenOutput, Gzip, Gunzip, RemoveZipped, ChildUnchanged
  <2>5. ArchiveIsRight' /\ Extracts'
    <3>1. CASE ChildStep
        BY <1>1, <1>4, <2>1, <3>1, ChildExtracts
    <3>2. CASE phase = "extract" /\ (WaitInDirectory \/ EndWait \/ WaitAtEnd \/ Exit)
        BY <2>1, <3>2, WaitsExtract
    <3>3. CASE ExtractName \/ EndNames \/ ExtractPath
        BY <1>1, <2>1, <3>3, ExtractNameWell, EndNamesWell, ExtractPathWell
    <3>4. CASE UNCHANGED vars
      <4>1. ArchiveIsRight'
          BY <1>1, <3>4 DEF vars, ArchiveIsRight, StoredIsRight, IsRight, Own, OwnKind,
                            Pending, PendingIn, ComesAs, ComesZipped
      <4>2. Extracts'
          BY <2>1, <3>4 DEF vars, Extracts, OutIsWell, GunzipsWell, ExtractingWell, Coming, Arrived,
                            Gunzips, ToExtract, LeftIn, Wanted, Spoilt, Clash, ForksFor, IsZipped,
                            IsTemporary, Bytes
      <4>3. QED BY <4>1, <4>2
    <3>5. CASE phase = "extract"
        BY <3>1, <3>2, <3>3, <3>4, <3>5
        DEF Next, ParentStep, Choose, ScanDirectory, EndScan, InsertName, LeaveInserted
    <3>6. QED BY <1>4, <2>4, <3>1, <3>4, <3>5
  <2>6. phase' \in {"extract", "exit"}
      BY <1>4, <2>3, <2>4
  <2>7. QED BY <2>5, <2>6 DEF TripInv
<1>5. QED BY <1>1, <1>2, <1>3, <1>4

(* What is extracted is what was archived, whatever the directory, the paths asked
   for, the order in which the children work and what directories, files and links
   are in the way: but for what Spoilt excepts, that is what could not be written or
   replaced, compressed or read to its end, and names that differ by ".gz". *)
THEOREM ArchivedIsExtracted == Spec => []RoundTrip
<1>1. TripInv => RoundTrip
  <2> SUFFICES ASSUME TripInv, phase = "exit", \A pid \in DOMAIN child : child[pid].at = "zombie"
               PROVE  /\ \A p \in DOMAIN source : Wanted(p) /\ ~Spoilt(p) =>
                           p \in DOMAIN out /\ out[p] = source[p]
                      /\ DOMAIN out \subseteq DOMAIN source \cup WasInTheWay \cup skipped
      BY DEF RoundTrip
  <2>1. Extracts /\ ExtractsFrom /\ stack = <<>> /\ todo = <<>>
      BY DEF TripInv, Extracts, ExtractsFrom
  <2>2. ASSUME NEW p \in DOMAIN source, Wanted(p), ~Spoilt(p)
        PROVE  p \in DOMAIN out /\ out[p] = source[p]
    <3>1. p \in DOMAIN stored
        BY <2>1, <2>2, ArchiveFacts DEF Spoilt
    <3>2. ~ToExtract(p)
        BY <2>1 DEF ToExtract
    <3>3. Coming(p)
        BY <2>1, <2>2, <3>1, <3>2 DEF Extracts
    <3>4. Arrived(p)
        BY <3>3 DEF Coming, Gunzips
    <3>5. QED BY <3>4 DEF Arrived
  <2>3. DOMAIN out \subseteq DOMAIN source \cup WasInTheWay \cup skipped
    <3>1. \A q \in DOMAIN out : q \in DOMAIN source \cup WasInTheWay \cup skipped
        BY <2>1 DEF Extracts, OutIsWell, IsTemporary
    <3>2. QED BY <3>1
  <2>4. QED BY <2>2, <2>3
<1>2. QED BY <1>1, InitTrip, NextTrip, StoreInvariance, PTL DEF Spec
===============================================================================
