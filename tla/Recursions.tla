------------------------------ MODULE Recursions ------------------------------
(***************************************************************************)
(* Induction and recursion over the naturals, for the proofs about what a  *)
(* recursive function computes.  Stated with sets and functions in place   *)
(* of operators, so that a proof can cite them.                            *)
(***************************************************************************)
EXTENDS Integers, WellFoundedInduction, TLAPS

LEMMA NatMinimum ==
  ASSUME NEW S \in SUBSET Nat, S # {}
  PROVE  \E least \in S : \A n \in S : least <= n
<1>1. PICK least \in S : \A n \in S : <<n, least>> \notin OpToRel(<, Nat)
  BY NatLessThanWellFounded, WFMin, Zenon
<1>2. \A n \in S : ~(n < least)
  BY <1>1, Zenon DEF OpToRel
<1> QED BY <1>2

\* A set of naturals that has 0 and the successor of each of its members has all.
LEMMA NatClosure ==
  ASSUME NEW S, 0 \in S, \A n \in Nat : n \in S => n + 1 \in S
  PROVE  Nat \subseteq S
<1> SUFFICES ASSUME Nat \ S # {} PROVE FALSE
  OBVIOUS
<1>1. PICK least \in Nat \ S : \A n \in Nat \ S : least <= n
  BY NatMinimum
<1>2. least # 0
  OBVIOUS
<1>3. least - 1 \in Nat /\ least - 1 \in S
  BY <1>1, <1>2
<1> QED BY <1>3

\* The same up to a bound.
LEMMA UpTo ==
  ASSUME NEW m \in Nat, NEW S, 0 \in S, \A n \in 1 .. m : n - 1 \in S => n \in S
  PROVE  0 .. m \subseteq S
<1> DEFINE Up == {n \in Nat : n <= m => n \in S}
<1>1. 0 \in Up
  OBVIOUS
<1>2. ASSUME NEW n \in Nat, n \in Up PROVE n + 1 \in Up
  <2>1. CASE n + 1 <= m
    <3>1. n + 1 \in 1 .. m /\ (n + 1) - 1 \in S
      BY <1>2, <2>1
    <3>2. n + 1 \in S
      BY <3>1
    <3> QED BY <3>2
  <2>2. CASE ~(n + 1 <= m)
    BY <2>2
  <2> QED BY <2>1, <2>2
<1> HIDE DEF Up
<1>3. Nat \subseteq Up
  BY <1>1, <1>2, NatClosure
<1> QED BY <1>3 DEF Up

\* The function on 0 .. m that begins with a value and goes on with a step.
Runs(f, V, first, step, m) ==
  /\ f \in [0 .. m -> V]
  /\ f[0] = first
  /\ \A n \in 1 .. m : f[n] = step[n][f[n - 1]]

LEMMA PrimitiveRecursion ==
  ASSUME NEW V, NEW first \in V, NEW step \in [Nat -> [V -> V]], NEW m \in Nat
  PROVE  \E f : Runs(f, V, first, step, m)
<1> DEFINE Reached == {k \in Nat : \E f : Runs(f, V, first, step, k)}
<1>1. 0 \in Reached
  <2>1. Runs([n \in 0 .. 0 |-> first], V, first, step, 0)
    BY DEF Runs
  <2> QED BY <2>1
<1>2. ASSUME NEW k \in Nat, k \in Reached PROVE k + 1 \in Reached
  <2>1. PICK f : Runs(f, V, first, step, k)
    BY <1>2
  <2> DEFINE g == [n \in 0 .. k + 1 |-> IF n <= k THEN f[n] ELSE step[k + 1][f[k]]]
  <2>2. step[k + 1][f[k]] \in V
    BY <2>1 DEF Runs
  <2>3. g \in [0 .. k + 1 -> V] /\ g[0] = first
    BY <2>1, <2>2 DEF Runs
  <2>4. ASSUME NEW n \in 1 .. k + 1 PROVE g[n] = step[n][g[n - 1]]
    <3>1. CASE n <= k
      BY <2>1, <3>1 DEF Runs
    <3>2. CASE ~(n <= k)
      <4>1. n = k + 1 /\ n - 1 = k /\ k \in 0 .. k + 1
        BY <3>2
      <4> QED BY <4>1
    <3> QED BY <3>1, <3>2
  <2>5. Runs(g, V, first, step, k + 1)
    BY <2>3, <2>4 DEF Runs
  <2> HIDE DEF g
  <2> QED BY <2>5
<1>3. m \in Reached
  <2> HIDE DEF Reached
  <2> QED BY <1>1, <1>2, NatClosure
<1> QED BY <1>3
=============================================================================
