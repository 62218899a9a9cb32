-------------------------- MODULE InductionLemmas ---------------------------
(***************************************************************************)
(* Induction for the other proof modules, over sets instead of predicates: *)
(* the induction theorems of the library take an operator for what they    *)
(* prove, these take the set of numbers that have it.  A recursive         *)
(* function is one that some function satisfies (RecursionExists): the     *)
(* definition of f is a CHOOSE over the functions that solve f's equation. *)
(***************************************************************************)
EXTENDS Integers, WellFoundedInduction, TLAPS

\* A set of numbers has a smallest one.
LEMMA SmallestNat ==
  ASSUME NEW T \in SUBSET Nat, T # {}
  PROVE  \E n \in T : \A m \in T : n <= m
<1> DEFINE less == OpToRel(<, Nat)
<1>1. IsWellFoundedOn(less, Nat) BY NatLessThanWellFounded
<1>2. \A x, y \in Nat : x < y => <<x, y>> \in less BY DEF OpToRel
<1> HIDE DEF less
<1>3. PICK n \in T : \A m \in T : <<m, n>> \notin less BY <1>1, WFMin
<1>4. \A m \in T : ~(m < n) BY <1>2, <1>3
<1> QED BY <1>4

\* A bounded one has a largest.
LEMMA LargestNat ==
  ASSUME NEW T \in SUBSET Nat, T # {}, NEW k \in Nat, \A m \in T : m <= k
  PROVE  \E n \in T : \A m \in T : m <= n
<1> DEFINE up == {i \in Nat : \A m \in T : m <= i}
<1>1. up # {} /\ up \subseteq Nat OBVIOUS
<1>2. PICK n \in up : \A i \in up : n <= i BY <1>1, SmallestNat
<1>3. n \in T
  <2>1. CASE n = 0
    <3>1. PICK m \in T : TRUE OBVIOUS
    <3>2. m \in Nat /\ m <= 0 BY <1>2, <2>1
    <3> QED BY <3>1, <3>2, <2>1
  <2>2. CASE n # 0
    <3>1. n - 1 \in Nat /\ n - 1 \notin up BY <1>2, <2>2
    <3>2. PICK m \in T : ~(m <= n - 1) BY <3>1
    <3>3. m <= n /\ m \in Nat BY <1>2
    <3> QED BY <3>2, <3>3, <1>2
  <2> QED BY <2>1, <2>2
<1> QED BY <1>2, <1>3

\* What holds of 0 and is handed on by every number holds of all.
LEMMA NatInduct ==
  ASSUME NEW S, 0 \in S, \A n \in Nat : n \in S => n + 1 \in S
  PROVE  Nat \subseteq S
<1> SUFFICES ASSUME Nat \ S # {} PROVE FALSE OBVIOUS
<1>1. PICK n \in Nat \ S : \A m \in Nat \ S : n <= m BY SmallestNat
<1>2. n # 0 /\ n - 1 \in Nat /\ n - 1 < n BY <1>1
<1>3. n - 1 \in S BY <1>1, <1>2
<1>4. (n - 1) + 1 = n BY <1>1
<1> QED BY <1>1, <1>2, <1>3, <1>4

\* The same up to a bound.
LEMMA UpTo ==
  ASSUME NEW k \in Nat, NEW S, 0 \in S, \A n \in 0 .. k - 1 : n \in S => n + 1 \in S
  PROVE  0 .. k \subseteq S
<1> DEFINE T == {n \in Nat : n <= k => n \in S}
<1>1. 0 \in T OBVIOUS
<1>2. ASSUME NEW n \in Nat, n \in T PROVE n + 1 \in T
  <2>1. CASE n + 1 <= k
    <3>1. n \in 0 .. k - 1 /\ n \in S BY <1>2, <2>1
    <3> QED BY <3>1
  <2> QED BY <2>1
<1> HIDE DEF T
<1>3. Nat \subseteq T BY <1>1, <1>2, NatInduct
<1> QED BY <1>3 DEF T

\* step[i] maps V into V, and f takes base at 0 and goes on from there by step.
MapsInto(step, k, V) == \A i \in 1 .. k : \A v \in V : step[i][v] \in V
Iterates(f, base, step, k, V) ==
  /\ f \in [0 .. k -> V]
  /\ f[0] = base
  /\ \A i \in 1 .. k : f[i] = step[i][f[i - 1]]

\* Some function does.
LEMMA RecursionExists ==
  ASSUME NEW V, NEW base \in V, NEW k \in Nat, NEW step, MapsInto(step, k, V)
  PROVE  \E f : Iterates(f, base, step, k, V)
<1> USE DEF MapsInto
<1> DEFINE Solves(f, n) == /\ f \in [0 .. n -> V]
                           /\ f[0] = base
                           /\ \A i \in 1 .. n : f[i] = step[i][f[i - 1]]
           S == {n \in 0 .. k : \E f : Solves(f, n)}
<1>1. 0 \in S
  <2> DEFINE f == [i \in 0 .. 0 |-> base]
  <2>1. f \in [0 .. 0 -> V] /\ f[0] = base OBVIOUS
  <2>2. 1 .. 0 = {} OBVIOUS
  <2> HIDE DEF f
  <2>3. Solves(f, 0) BY <2>1, <2>2
  <2> HIDE DEF Solves
  <2> QED BY <2>3
<1>2. ASSUME NEW n \in 0 .. k - 1, n \in S PROVE n + 1 \in S
  <2>1. PICK f : Solves(f, n) BY <1>2
  <2> DEFINE v == step[n + 1][f[n]]
             g == [i \in 0 .. n + 1 |-> IF i <= n THEN f[i] ELSE v]
  <2>2. f[n] \in V BY <2>1
  <2>3. n + 1 \in 1 .. k OBVIOUS
  <2>4. v \in V BY <2>2, <2>3
  <2>5. \A i \in 0 .. n + 1 : i <= n => g[i] = f[i] /\ i \in 0 .. n OBVIOUS
  <2>6. g[n + 1] = v OBVIOUS
  <2>7. g \in [0 .. n + 1 -> V]
    <3>1. \A i \in 0 .. n + 1 : (IF i <= n THEN f[i] ELSE v) \in V BY <2>1, <2>4
    <3> QED BY <3>1
  <2> HIDE DEF g
  <2>8. ASSUME NEW i \in 1 .. n + 1 PROVE g[i] = step[i][g[i - 1]]
    <3>1. CASE i <= n BY <3>1, <2>1, <2>5
    <3>2. CASE i = n + 1
      <4>1. i - 1 = n /\ n \in 0 .. n + 1 BY <3>2
      <4>2. g[i - 1] = f[n] BY <4>1, <2>5
      <4> QED BY <4>2, <3>2, <2>6
    <3> QED BY <3>1, <3>2
  <2>9. g[0] = base BY <2>1, <2>5
  <2>10. Solves(g, n + 1) BY <2>7, <2>8, <2>9
  <2> HIDE DEF Solves
  <2> QED BY <2>3, <2>10
<1> HIDE DEF S
<1>3. 0 .. k \subseteq S BY <1>1, <1>2, UpTo
<1>4. k \in S BY <1>3
<1> QED BY <1>4 DEF S, Solves, Iterates

\* A function that goes on from base by step, as long as it is in V, stays in it.
LEMMA RecursionStays ==
  ASSUME NEW V, NEW base \in V, NEW k \in Nat, NEW step, MapsInto(step, k, V),
         NEW g, g = [n \in 0 .. k |-> g[n]], g[0] = base,
         \A n \in 1 .. k : g[n - 1] \in V => g[n] = step[n][g[n - 1]]
  PROVE  Iterates(g, base, step, k, V)
<1> DEFINE S == {n \in 0 .. k : g[n] \in V}
<1>1. 0 \in S OBVIOUS
<1>2. ASSUME NEW n \in 0 .. k - 1, n \in S PROVE n + 1 \in S
  <2>1. n + 1 \in 1 .. k /\ (n + 1) - 1 = n OBVIOUS
  <2>2. g[n] \in V BY <1>2
  <2>3. g[n + 1] = step[n + 1][g[n]] BY <2>1, <2>2
  <2>4. g[n + 1] \in V BY <2>1, <2>2, <2>3 DEF MapsInto
  <2> QED BY <2>1, <2>4
<1> HIDE DEF S
<1>3. 0 .. k \subseteq S BY <1>1, <1>2, UpTo
<1>4. \A n \in 0 .. k : g[n] \in V BY <1>3 DEF S
<1>5. \A n \in 1 .. k : n - 1 \in 0 .. k OBVIOUS
<1>6. \A n \in 1 .. k : g[n] = step[n][g[n - 1]] BY <1>4, <1>5
<1> QED BY <1>4, <1>6 DEF Iterates
=============================================================================
