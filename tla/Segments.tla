------------------------------ MODULE Segments ------------------------------
(***************************************************************************)
(* Induction over the natural numbers, in the form the provers can use (a  *)
(* set in place of a predicate), and what follows from it: the sets of     *)
(* indices that are initial segments, and the functions that are defined   *)
(* by recursion.  And what two sequences joined are.                       *)
(***************************************************************************)
EXTENDS Integers, Sequences, FiniteSetTheorems, WellFoundedInduction, TLAPS

\* A set of natural numbers that is not empty has a least element.
LEMMA LeastNatural ==
  ASSUME NEW T, T \subseteq Nat, T # {}
  PROVE  \E n \in T : \A m \in T : n <= m
<1> DEFINE R == {ss \in Nat \X Nat : ss[1] < ss[2]}
<1>1. IsWellFoundedOn(R, Nat)
  BY NatLessThanWellFounded DEF OpToRel
<1>2. PICK x \in T : \A y \in T : <<y, x>> \notin R
  BY <1>1, WFMin
<1>3. ASSUME NEW y \in T PROVE ~(y < x)
  <2>1. <<y, x>> \in Nat \X Nat
    OBVIOUS
  <2>2. <<y, x>> \notin R
    BY <1>2
  <2> QED
    BY <2>1, <2>2
<1> QED
  BY <1>3

\* A set that holds 0, and with a number its successor, holds every number.
LEMMA Induction ==
  ASSUME NEW S, 0 \in S, \A n \in Nat : n \in S => n + 1 \in S
  PROVE  Nat \subseteq S
<1> SUFFICES ASSUME Nat \ S # {} PROVE FALSE
  OBVIOUS
<1>1. PICK n \in Nat \ S : \A m \in Nat \ S : n <= m
  <2>1. Nat \ S \subseteq Nat
    OBVIOUS
  <2> QED
    BY <2>1, LeastNatural
<1>2. n - 1 \in Nat
  BY <1>1
<1>3. n - 1 \in S
  BY <1>1, <1>2
<1>4. (n - 1) + 1 \in S
  BY <1>2, <1>3
<1> QED
  BY <1>1, <1>2, <1>4

\* Indices that come with every smaller one are the numbers up to how many they are.
LEMMA Segment ==
  ASSUME NEW n \in Nat, NEW I \in SUBSET (1 .. n),
         \A i \in I, j \in 1 .. n : j <= i => j \in I
  PROVE  Cardinality(I) \in 0 .. n /\ I = 1 .. Cardinality(I)
<1>1. \E k \in 0 .. n : I = 1 .. k
  <2>1. CASE I = 1 .. n
    BY <2>1
  <2>2. CASE I # 1 .. n
    <3> DEFINE Out == (1 .. n) \ I
    <3>1. Out \subseteq Nat /\ Out # {}
      <4>1. 1 .. n \subseteq Nat
        OBVIOUS
      <4>2. Out \subseteq 1 .. n
        OBVIOUS
      <4>3. Out # {}
        BY <2>2
      <4> HIDE DEF Out
      <4> QED
        BY <4>1, <4>2, <4>3
    <3>2. PICK k \in Out : \A m \in Out : k <= m
      BY <3>1, LeastNatural
    <3>3. I = 1 .. (k - 1)
      <4>1. ASSUME NEW i \in I PROVE i \in 1 .. (k - 1)
        BY <3>2
      <4>2. ASSUME NEW i \in 1 .. (k - 1) PROVE i \in I
        BY <3>2
      <4> QED
        BY <4>1, <4>2
    <3> QED
      BY <3>2, <3>3
  <2> QED
    BY <2>1, <2>2
<1>2. PICK k \in 0 .. n : I = 1 .. k
  BY <1>1
<1>3. Cardinality(1 .. k) = k
  BY FS_Interval
<1> QED
  BY <1>2, <1>3

\* The functions of a step's number and of a value in X, for n steps; and the
\* values that arise when G is applied step by step, beginning with a.
Steps(n, X) == [(1 .. n) \X X -> X]
Solves(f, n, X, a, G) ==
  f \in [0 .. n -> X] /\ f[0] = a /\ \A i \in 1 .. n : f[i] = G[<<i, f[i - 1]>>]

\* A recursion of n steps has a solution.
LEMMA Recursion ==
  ASSUME NEW n \in Nat, NEW X, NEW a \in X, NEW G \in Steps(n, X)
  PROVE  \E f : Solves(f, n, X, a, G)
<1> DEFINE S == {k \in Nat : k <= n => \E f : Solves(f, k, X, a, G)}
<1>1. 0 \in S
  <2> DEFINE f0 == [i \in 0 .. 0 |-> a]
  <2>1. Solves(f0, 0, X, a, G)
    BY DEF Solves
  <2> QED
    BY <2>1
<1>2. ASSUME NEW k \in Nat, k \in S PROVE k + 1 \in S
  <2> SUFFICES ASSUME k + 1 <= n
               PROVE  \E f : Solves(f, k + 1, X, a, G)
    OBVIOUS
  <2>1. PICK f : Solves(f, k, X, a, G)
    BY <1>2
  <2>. USE DEF Solves
  <2> DEFINE g == [i \in 0 .. k + 1 |-> IF i = k + 1 THEN G[<<k + 1, f[k]>>] ELSE f[i]]
  <2>2. G[<<k + 1, f[k]>>] \in X
    <3>1. <<k + 1, f[k]>> \in (1 .. n) \X X
      BY <2>1
    <3> QED
      BY <3>1 DEF Steps
  <2>3. g \in [0 .. k + 1 -> X]
    BY <2>1, <2>2
  <2>4. g[0] = a
    BY <2>1
  <2>5. ASSUME NEW i \in 1 .. k + 1 PROVE g[i] = G[<<i, g[i - 1]>>]
    <3>1. g[i - 1] = f[i - 1]
      OBVIOUS
    <3>2. CASE i = k + 1
      <4>1. i - 1 = k /\ g[i] = G[<<k + 1, f[k]>>]
        BY <3>2
      <4> QED
        BY <3>1, <3>2, <4>1
    <3>3. CASE i # k + 1
      <4>1. i \in 1 .. k
        BY <3>3
      <4> QED
        BY <2>1, <3>1, <4>1
    <3> QED
      BY <3>2, <3>3
  <2>6. Solves(g, k + 1, X, a, G)
    BY <2>3, <2>4, <2>5
  <2> QED
    BY <2>6, Zenon
<1> HIDE DEF S
<1>3. n \in S
  BY <1>1, <1>2, Induction
<1> QED
  BY <1>3 DEF S

\* Two sequences joined, index by index.
LEMMA Joined ==
  ASSUME NEW P, NEW p \in Seq(P), NEW q \in Seq(P)
  PROVE  /\ p \o q \in Seq(P) /\ Len(p \o q) = Len(p) + Len(q)
         /\ DOMAIN (p \o q) = 1 .. Len(p) + Len(q)
         /\ \A i \in 1 .. Len(p) : (p \o q)[i] = p[i]
         /\ \A i \in 1 .. Len(q) : (p \o q)[Len(p) + i] = q[i]
<1>1. p \o q \in Seq(P) /\ Len(p \o q) = Len(p) + Len(q)
  OBVIOUS
<1>2. DOMAIN (p \o q) = 1 .. Len(p) + Len(q)
  BY <1>1
<1>3. \A i \in 1 .. Len(p) : (p \o q)[i] = p[i]
  OBVIOUS
<1>4. \A i \in 1 .. Len(q) : (p \o q)[Len(p) + i] = q[i]
  OBVIOUS
<1> QED
  BY <1>1, <1>2, <1>3, <1>4
=============================================================================
