--------------------------- MODULE InductionLemmas ---------------------------
(***************************************************************************)
(* Induction over the natural numbers, in the form the proofs use it: a    *)
(* set of numbers that is not empty has a least element.  What is to be    *)
(* shown of all numbers is shown by looking at the least exception.        *)
(*                                                                         *)
(* The recursive functions of the models go over a sequence from its       *)
(* beginning, that is, over the numbers up to its length: the lemmas say   *)
(* that such a function exists, what its values are, and that it is the    *)
(* only one.                                                               *)
(***************************************************************************)
EXTENDS Integers, WellFoundedInduction, TLAPS

(* A set of natural numbers that is not empty has a least element. *)
LEMMA LeastNumber ==
    ASSUME NEW T, T \subseteq Nat, T # {}
    PROVE  \E m \in T : \A k \in T : m <= k
<1>1. PICK m \in T : \A k \in T : ~(<<k, m>> \in OpToRel(<, Nat))
    BY NatLessThanWellFounded, WFMin
<1>2. \A k \in T : ~(k < m)
    BY <1>1, m \in Nat DEF OpToRel
<1>3. \A k \in T : m <= k
    BY <1>2
<1>4. QED BY <1>3

(* What holds for 0, and for a number up to N if for the one before it, holds for all
   of them; "the numbers for which it holds" is the set H. *)
LEMMA UpTo ==
    ASSUME NEW N \in Nat, NEW H, 0 \in H, \A n \in 1 .. N : n - 1 \in H => n \in H
    PROVE  \A n \in 0 .. N : n \in H
<1> DEFINE T == {n \in 0 .. N : n \notin H}
<1>1. SUFFICES ASSUME T # {} PROVE FALSE
    OBVIOUS
<1>2. PICK m \in T : \A k \in T : m <= k
    BY <1>1, LeastNumber, T \subseteq Nat
<1>3. m \in 1 .. N
    BY <1>2
<1>4. m - 1 \notin T
    BY <1>2, <1>3
<1>5. QED BY <1>2, <1>3, <1>4

-------------------------------------------------------------------------------
(* A function from 0 .. N to S that starts at "base" and goes on by "step". *)
GoesOn(f, N, base, step) ==
    /\ f[0] = base
    /\ \A n \in 1 .. N : f[n] = step[<<n, f[n - 1]>>]

(* There is one. *)
LEMMA RecursionExists ==
    ASSUME NEW N \in Nat, NEW S, NEW base \in S, NEW step \in [(1 .. N) \X S -> S]
    PROVE  \E f \in [0 .. N -> S] : GoesOn(f, N, base, step)
<1> DEFINE H == {k \in 0 .. N : \E f \in [0 .. k -> S] : GoesOn(f, k, base, step)}
<1>1. 0 \in H
  <2> DEFINE f == [n \in 0 .. 0 |-> base]
  <2>1. f \in [0 .. 0 -> S] /\ GoesOn(f, 0, base, step)
      BY DEF GoesOn
  <2>2. QED BY <2>1
<1>2. ASSUME NEW n \in 1 .. N, n - 1 \in H
      PROVE  n \in H
  <2>1. PICK f \in [0 .. n - 1 -> S] : GoesOn(f, n - 1, base, step)
      BY <1>2
  <2> DEFINE g == [k \in 0 .. n |-> IF k = n THEN step[<<n, f[n - 1]>>] ELSE f[k]]
  <2>2. f[n - 1] \in S /\ step[<<n, f[n - 1]>>] \in S
      BY <2>1
  <2>3. g \in [0 .. n -> S]
      BY <2>1, <2>2
  <2>4. \A k \in 0 .. n : k # n => g[k] = f[k]
      OBVIOUS
  <2>5. g[n] = step[<<n, f[n - 1]>>] /\ g[n - 1] = f[n - 1] /\ g[0] = f[0]
      BY <2>4
  <2> HIDE DEF g
  <2>6. ASSUME NEW k \in 1 .. n PROVE g[k] = step[<<k, g[k - 1]>>]
    <3>1. CASE k = n
        BY <3>1, <2>5
    <3>2. CASE k # n
      <4>1. k \in 1 .. n - 1 /\ g[k] = f[k] /\ g[k - 1] = f[k - 1]
          BY <3>2, <2>4
      <4>2. QED BY <4>1, <2>1 DEF GoesOn
    <3>3. QED BY <3>1, <3>2
  <2>7. GoesOn(g, n, base, step)
      BY <2>1, <2>5, <2>6 DEF GoesOn
  <2>8. QED BY <2>3, <2>7
<1>3. N \in H
  <2> HIDE DEF H
  <2>1. \A n \in 0 .. N : n \in H
      BY <1>1, <1>2, UpTo
  <2>2. QED BY <2>1
<1>4. QED BY <1>3

(* There is no other. *)
LEMMA RecursionIsUnique ==
    ASSUME NEW N \in Nat, NEW base, NEW step, NEW f, NEW g,
           GoesOn(f, N, base, step), GoesOn(g, N, base, step)
    PROVE  \A n \in 0 .. N : f[n] = g[n]
<1> DEFINE H == {n \in 0 .. N : f[n] = g[n]}
<1>1. 0 \in H
    BY DEF GoesOn
<1>2. ASSUME NEW n \in 1 .. N, n - 1 \in H
      PROVE  n \in H
  <2>1. f[n - 1] = g[n - 1]
      BY <1>2
  <2>2. f[n] = step[<<n, f[n - 1]>>] /\ g[n] = step[<<n, g[n - 1]>>]
      BY DEF GoesOn
  <2>3. n \in 0 .. N
      OBVIOUS
  <2>4. QED BY <2>1, <2>2, <2>3
<1>3. QED
  <2> HIDE DEF H
  <2>1. \A n \in 0 .. N : n \in H
      BY <1>1, <1>2, UpTo
  <2>2. QED BY <2>1 DEF H

-------------------------------------------------------------------------------
(* The same for all natural numbers. *)
GoesOnForever(f, base, step) ==
    f[0] = base /\ \A n \in Nat \ {0} : f[n] = step[<<n, f[n - 1]>>]

(* There is such a function: each value is that of the function up to there. *)
LEMMA RecursionOnNat ==
    ASSUME NEW S, NEW base \in S, NEW step, step \in [(Nat \ {0}) \X S -> S]
    PROVE  \E f \in [Nat -> S] : GoesOnForever(f, base, step)
<1> DEFINE Upto(n, g) == g \in [0 .. n -> S] /\ GoesOn(g, n, base, step)
           upto(n) == CHOOSE g : Upto(n, g)
           f == [n \in Nat |-> upto(n)[n]]
<1>1. ASSUME NEW n \in Nat PROVE Upto(n, upto(n))
  <2> DEFINE part == [x \in (1 .. n) \X S |-> step[x]]
  <2>1. part \in [(1 .. n) \X S -> S]
      OBVIOUS
  <2>2. \A x \in (1 .. n) \X S : part[x] = step[x]
      OBVIOUS
  <2> HIDE DEF part
  <2>3. PICK g \in [0 .. n -> S] : GoesOn(g, n, base, part)
      BY <2>1, RecursionExists
  <2>4. GoesOn(g, n, base, step)
    <3>1. ASSUME NEW k \in 1 .. n PROVE g[k] = step[<<k, g[k - 1]>>]
      <4>1. k - 1 \in 0 .. n
          OBVIOUS
      <4>2. <<k, g[k - 1]>> \in (1 .. n) \X S
          BY <4>1
      <4>3. QED BY <2>2, <2>3, <4>2 DEF GoesOn
    <3>2. QED BY <2>3, <3>1 DEF GoesOn
  <2>5. QED BY <2>4
<1> HIDE DEF upto
<1>2. \A n \in Nat : f[n] = upto(n)[n] /\ f[n] \in S
    BY <1>1
<1>3. f[0] = base
    BY <1>1, <1>2 DEF GoesOn
<1>4. ASSUME NEW n \in Nat \ {0} PROVE f[n] = step[<<n, f[n - 1]>>]
  <2>1. n \in Nat /\ n - 1 \in Nat /\ n - 1 \in 0 .. n - 1 /\ n \in 1 .. n
      OBVIOUS
  <2> DEFINE m == n - 1
  <2>2. GoesOn(upto(n), m, base, step) /\ GoesOn(upto(m), m, base, step)
      BY <1>1, <2>1 DEF GoesOn
  <2>3. upto(n)[m] = upto(m)[m]
    <3> HIDE DEF m
    <3>1. m \in Nat /\ m \in 0 .. m
        BY <2>1 DEF m
    <3>2. QED BY <2>2, <3>1, RecursionIsUnique
  <2>4. upto(n)[n] = step[<<n, upto(n)[m]>>]
      BY <1>1, <2>1 DEF GoesOn
  <2>5. QED BY <1>2, <2>1, <2>3, <2>4
<1>5. f \in [Nat -> S]
    BY <1>2
<1>6. QED BY <1>3, <1>4, <1>5 DEF GoesOnForever
===============================================================================
