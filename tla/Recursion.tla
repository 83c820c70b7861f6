------------------------------ MODULE Recursion ------------------------------
(***************************************************************************)
(* Induction on the natural numbers and the functions it defines, stated   *)
(* with sets instead of predicates.  The proofs of the components use them *)
(* for the lists and the loops that are recursive functions in the model.  *)
(***************************************************************************)
EXTENDS Integers, TLAPS, WellFoundedInduction

LEMMA LeastNat ==
  ASSUME NEW T, T \subseteq Nat, T # {}
  PROVE  \E x \in T : \A y \in T : x <= y
<1>1. \E x \in T : \A y \in T : ~ (<<y, x>> \in OpToRel(<, Nat))
  BY NatLessThanWellFounded, WFMin
<1>2. PICK x \in T : \A y \in T : ~ (<<y, x>> \in OpToRel(<, Nat))
  BY <1>1
<1>3. \A y \in T : ~ (y < x)
  BY <1>2 DEF OpToRel
<1> QED BY <1>3

(* A set that has 0 and, with each number, the next one has all numbers.   *)
THEOREM NatInd ==
  ASSUME NEW S, 0 \in S, \A n \in Nat : n \in S => n + 1 \in S
  PROVE  Nat \subseteq S
<1> SUFFICES ASSUME Nat \ S # {} PROVE FALSE
  OBVIOUS
<1>1. PICK x \in Nat \ S : \A y \in Nat \ S : x <= y
  <2> DEFINE T == Nat \ S
  <2>1. T \subseteq Nat /\ T # {}
    OBVIOUS
  <2> HIDE DEF T
  <2>2. \E x \in T : \A y \in T : x <= y
    BY <2>1, LeastNat
  <2> QED BY <2>2 DEF T
<1>2. x - 1 \in Nat /\ x - 1 \notin Nat \ S
  BY <1>1
<1> QED BY <1>1, <1>2

(* The functions that start at v and go on by step, up to m.               *)
Beginnings(V, v, step, m) ==
  {g \in [0 .. m -> V] : g[0] = v /\ \A i \in 0 .. m - 1 : g[i + 1] = step[i][g[i]]}

LEMMA PrefixExists ==
  ASSUME NEW V, NEW v \in V, NEW step \in [Nat -> [V -> V]], NEW m \in Nat
  PROVE  Beginnings(V, v, step, m) # {}
<1> DEFINE S == {n \in Nat : Beginnings(V, v, step, n) # {}}
<1>1. 0 \in S
  <2>1. [i \in 0 .. 0 |-> v] \in Beginnings(V, v, step, 0)
    BY DEF Beginnings
  <2> QED BY <2>1
<1>2. ASSUME NEW n \in Nat, n \in S PROVE n + 1 \in S
  <2>1. PICK g : g \in Beginnings(V, v, step, n)
    BY <1>2
  <2>2. /\ g \in [0 .. n -> V] /\ g[0] = v
        /\ \A i \in 0 .. n - 1 : g[i + 1] = step[i][g[i]]
    BY <2>1 DEF Beginnings
  <2> DEFINE h == [i \in 0 .. n + 1 |-> IF i = n + 1 THEN step[n][g[n]] ELSE g[i]]
  <2>3. step[n][g[n]] \in V
    BY <2>2
  <2>4. h \in [0 .. n + 1 -> V]
    BY <2>2, <2>3
  <2>5. h[0] = v
    BY <2>2
  <2>6. ASSUME NEW i \in 0 .. n PROVE h[i + 1] = step[i][h[i]]
    <3>1. CASE i = n
      BY <3>1
    <3>2. CASE i # n
      <4>1. i \in 0 .. n - 1 /\ i + 1 \in 0 .. n + 1 /\ i + 1 # n + 1
        BY <3>2
      <4> QED BY <2>2, <4>1
    <3> QED BY <3>1, <3>2
  <2> HIDE DEF h
  <2>7. h \in Beginnings(V, v, step, n + 1)
    BY <2>4, <2>5, <2>6 DEF Beginnings
  <2> QED BY <2>7
<1>3. Nat \subseteq S
  <2> HIDE DEF S
  <2> QED BY <1>1, <1>2, NatInd
<1> QED BY <1>3

LEMMA PrefixUnique ==
  ASSUME NEW V, NEW v \in V, NEW step \in [Nat -> [V -> V]], NEW m \in Nat, NEW k \in Nat,
         NEW g \in Beginnings(V, v, step, m), NEW h \in Beginnings(V, v, step, k),
         NEW i \in Nat, i <= m, i <= k
  PROVE  g[i] = h[i]
<1> DEFINE S == {n \in Nat : n <= m /\ n <= k => g[n] = h[n]}
<1>1. 0 \in S
  BY DEF Beginnings
<1>2. ASSUME NEW n \in Nat, n \in S PROVE n + 1 \in S
  <2> SUFFICES ASSUME n + 1 <= m, n + 1 <= k PROVE g[n + 1] = h[n + 1]
    OBVIOUS
  <2>1. n \in 0 .. m - 1 /\ n \in 0 .. k - 1
    OBVIOUS
  <2>2. g[n + 1] = step[n][g[n]] /\ h[n + 1] = step[n][h[n]]
    BY <2>1 DEF Beginnings
  <2> QED BY <1>2, <2>2
<1>3. Nat \subseteq S
  <2> HIDE DEF S
  <2> QED BY <1>1, <1>2, NatInd
<1> QED BY <1>3

(* f starts at v and goes on by step.                                      *)
IsStep(V, step) == step \in [Nat -> [V -> V]]

Iterates(V, v, step, f) ==
  f \in [Nat -> V] /\ f[0] = v /\ \A n \in Nat : f[n + 1] = step[n][f[n]]

(* Iteration defines a function.                                           *)
THEOREM IterationExists ==
  ASSUME NEW V, NEW v \in V, NEW step, IsStep(V, step)
  PROVE  \E f : Iterates(V, v, step, f)
<1>0. step \in [Nat -> [V -> V]]
  BY DEF IsStep
<1> DEFINE pre(m) == CHOOSE g : g \in Beginnings(V, v, step, m)
           f == [n \in Nat |-> pre(n)[n]]
<1>1. ASSUME NEW m \in Nat PROVE pre(m) \in Beginnings(V, v, step, m)
  <2>1. \E g : g \in Beginnings(V, v, step, m)
    BY <1>0, PrefixExists
  <2> QED BY <2>1
<1> HIDE DEF pre
<1>2. ASSUME NEW n \in Nat PROVE f[n] \in V
  <2>1. pre(n) \in [0 .. n -> V]
    BY <1>1 DEF Beginnings
  <2> QED BY <2>1
<1>3. f[0] = v
  BY <1>1 DEF Beginnings
<1>4. ASSUME NEW n \in Nat PROVE f[n + 1] = step[n][f[n]]
  <2>1. pre(n + 1)[n + 1] = step[n][pre(n + 1)[n]]
    <3>1. n + 1 \in Nat /\ n \in 0 .. (n + 1) - 1
      OBVIOUS
    <3> QED BY <1>1, <3>1 DEF Beginnings
  <2>2. pre(n + 1)[n] = pre(n)[n]
    BY <1>0, <1>1, PrefixUnique
  <2> QED BY <2>1, <2>2
<1>5. f \in [Nat -> V]
  BY <1>2
<1> HIDE DEF f
<1>6. Iterates(V, v, step, f)
  BY <1>3, <1>4, <1>5 DEF Iterates
<1> QED BY <1>6
=============================================================================
