------------------------------ MODULE Induction ------------------------------
(* Induction over the natural numbers and over finite sets, and recursion,  *)
(* stated about sets and functions instead of operators, so that the        *)
(* provers can use them.                                                    *)
EXTENDS Integers, FiniteSetTheorems, TLAPS

\* A nonempty set of natural numbers has a least element: the intervals that
\* end in its elements are finite sets, which inclusion orders well.
LEMMA NatMin ==
  ASSUME NEW S \in SUBSET Nat, S # {}
  PROVE  \E n \in S : \A m \in S : n <= m
<1> DEFINE T == {0 .. n : n \in S}
<1>1. T # {}
  OBVIOUS
<1>2. T \subseteq FiniteSubsetsOf(Nat)
  <2> SUFFICES ASSUME NEW n \in S PROVE 0 .. n \in FiniteSubsetsOf(Nat)
    OBVIOUS
  <2>1. IsFiniteSet(0 .. n)
    BY FS_Interval
  <2>2. QED
    BY <2>1 DEF FiniteSubsetsOf
<1>3. PICK x \in T : \A y \in T : ~ (<<y, x>> \in StrictSubsetOrdering(Nat))
  <2> HIDE DEF T
  <2>1. IsWellFoundedOn(StrictSubsetOrdering(Nat), FiniteSubsetsOf(Nat))
    BY FS_StrictSubsetOrderingWellFounded
  <2>2. QED
    BY <1>1, <1>2, <2>1, WFMin
<1>4. PICK n \in S : x = 0 .. n
  OBVIOUS
<1>5. ASSUME NEW m \in S, m < n PROVE FALSE
  <2>1. 0 .. m \in T
    OBVIOUS
  <2>2. 0 .. m \in SUBSET Nat /\ 0 .. n \in SUBSET Nat
    OBVIOUS
  <2>3. 0 .. m \subseteq 0 .. n /\ n \in 0 .. n /\ n \notin 0 .. m
    BY <1>5
  <2>4. <<0 .. m, 0 .. n>> \in StrictSubsetOrdering(Nat)
    BY <2>2, <2>3 DEF StrictSubsetOrdering
  <2>5. QED
    BY <1>3, <1>4, <2>1, <2>4
<1>6. QED
  BY <1>5

\* What holds of 0 and of the successor of each number it holds of holds of
\* all of them.
LEMMA NatSet ==
  ASSUME NEW S \in SUBSET Nat, 0 \in S, \A n \in S : n + 1 \in S
  PROVE  S = Nat
<1> SUFFICES ASSUME Nat \ S # {} PROVE FALSE
  OBVIOUS
<1>1. PICK n \in Nat \ S : \A m \in Nat \ S : n <= m
  BY NatMin
<1>2. n - 1 \in S
  BY <1>1
<1>3. QED
  BY <1>1, <1>2

\* A nonempty set of subsets of a finite set has a minimal element.
LEMMA SubsetMin ==
  ASSUME NEW U, IsFiniteSet(U), NEW T \in SUBSET SUBSET U, T # {}
  PROVE  \E x \in T : \A y \in T : y \subseteq x => y = x
<1>1. IsWellFoundedOn(StrictSubsetOrdering(U), FiniteSubsetsOf(U))
  BY FS_StrictSubsetOrderingWellFounded
<1>2. T \subseteq FiniteSubsetsOf(U)
  BY FS_FiniteSubsetsOfFinite
<1>3. PICK x \in T : \A y \in T : ~ (<<y, x>> \in StrictSubsetOrdering(U))
  BY <1>1, <1>2, WFMin
<1>4. \A y \in T : y \subseteq x => y = x
  BY <1>3 DEF StrictSubsetOrdering
<1>5. QED
  BY <1>4

\* f starts with s and goes on with g.
Recurs(f, s, g) == /\ f[0] = s
                   /\ \A n \in Nat \ {0} : f[n] = g[<<n, f[n - 1]>>]

\* A recursive definition whose steps stay in a set defines a function.
LEMMA NatRecursion ==
  ASSUME NEW S, NEW s \in S, NEW g \in [Nat \X S -> S]
  PROVE  \E f \in [Nat -> S] : Recurs(f, s, g)
<1> DEFINE Upto(n) == {h \in [0 .. n -> S] :
                         h[0] = s /\ \A i \in 1 .. n : h[i] = g[<<i, h[i - 1]>>]}
           D == {n \in Nat : Upto(n) # {}}
           f == [n \in Nat |-> (CHOOSE h : h \in Upto(n))[n]]
<1>1. D = Nat
  <2>1. 0 \in D
    <3>1. [i \in 0 .. 0 |-> s] \in Upto(0)
      OBVIOUS
    <3>2. QED
      BY <3>1
  <2>2. ASSUME NEW n \in D PROVE n + 1 \in D
    <3>1. n \in Nat /\ n + 1 \in Nat
      OBVIOUS
    <3>2. PICK h : h \in Upto(n)
      OBVIOUS
    <3>3. h \in [0 .. n -> S] /\ h[0] = s /\ \A i \in 1 .. n : h[i] = g[<<i, h[i - 1]>>]
      BY <3>2
    <3> DEFINE k == [i \in 0 .. n + 1 |-> IF i = n + 1 THEN g[<<n + 1, h[n]>>] ELSE h[i]]
    <3>4. g[<<n + 1, h[n]>>] \in S
      BY <3>1, <3>3
    <3>5. k \in [0 .. n + 1 -> S]
      BY <3>1, <3>3, <3>4
    <3>6. k[0] = s
      BY <3>1, <3>3
    <3>7. ASSUME NEW i \in 1 .. n + 1 PROVE k[i] = g[<<i, k[i - 1]>>]
      <4>1. i \in Int /\ i - 1 \in 0 .. n /\ i - 1 # n + 1 /\ k[i - 1] = h[i - 1]
        BY <3>1
      <4>2. CASE i = n + 1
        BY <3>1, <4>1, <4>2
      <4>3. CASE i # n + 1
        <5>1. i \in 1 .. n /\ k[i] = h[i]
          BY <3>1, <4>3
        <5>2. h[i] = g[<<i, h[i - 1]>>]
          BY <3>3, <5>1
        <5>3. QED
          BY <4>1, <5>1, <5>2
      <4>4. QED
        BY <4>2, <4>3
    <3>8. k \in Upto(n + 1)
      BY <3>5, <3>6, <3>7
    <3>9. QED
      BY <3>1, <3>8
  <2> HIDE DEF D
  <2>3. QED
    <3>1. D \subseteq Nat
      BY DEF D
    <3>2. QED
      BY <2>1, <2>2, <3>1, NatSet
<1>2. ASSUME NEW m \in Nat, NEW h \in Upto(m), NEW n \in Nat, NEW k \in Upto(n)
      PROVE  \A i \in Nat : i <= m /\ i <= n => h[i] = k[i]
  <2> DEFINE E == {i \in Nat : i <= m /\ i <= n => h[i] = k[i]}
  <2>1. 0 \in E
    OBVIOUS
  <2>2. ASSUME NEW i \in E PROVE i + 1 \in E
    <3>1. i \in Nat /\ (i <= m /\ i <= n => h[i] = k[i])
      OBVIOUS
    <3>2. SUFFICES ASSUME i + 1 <= m, i + 1 <= n PROVE h[i + 1] = k[i + 1]
      BY <3>1
    <3>3. i + 1 \in 1 .. m /\ i + 1 \in 1 .. n /\ (i + 1) - 1 = i
      BY <3>1, <3>2
    <3>4. h[i + 1] = g[<<i + 1, h[(i + 1) - 1]>>] /\ k[i + 1] = g[<<i + 1, k[(i + 1) - 1]>>]
      BY <3>3
    <3>5. QED
      BY <3>1, <3>2, <3>3, <3>4
  <2>3. E \subseteq Nat
    OBVIOUS
  <2>4. E = Nat
    <3> HIDE DEF E
    <3>1. QED
      BY <2>1, <2>2, <2>3, NatSet
  <2>5. QED
    BY <2>4
<1>3. ASSUME NEW n \in Nat PROVE \E h \in Upto(n) : f[n] = h[n]
  <2>1. Upto(n) # {}
    BY <1>1
  <2>2. (CHOOSE h : h \in Upto(n)) \in Upto(n)
    <3> HIDE DEF Upto
    <3>1. QED
      BY <2>1
  <2>3. QED
    BY <2>2
<1>4. f \in [Nat -> S]
  <2> SUFFICES ASSUME NEW n \in Nat PROVE f[n] \in S
    BY Zenon
  <2>1. PICK h \in Upto(n) : f[n] = h[n]
    BY <1>3
  <2>2. QED
    BY <2>1
<1>5. f[0] = s
  <2>1. PICK h \in Upto(0) : f[0] = h[0]
    BY <1>3
  <2>2. QED
    BY <2>1
<1>6. ASSUME NEW n \in Nat \ {0} PROVE f[n] = g[<<n, f[n - 1]>>]
  <2>1. n \in Nat /\ n - 1 \in Nat /\ n \in 1 .. n
    OBVIOUS
  <2>2. PICK h \in Upto(n) : f[n] = h[n]
    BY <1>3, <2>1
  <2>3. PICK k \in Upto(n - 1) : f[n - 1] = k[n - 1]
    BY <1>3, <2>1
  <2>4. h[n - 1] = k[n - 1]
    <3> HIDE DEF Upto
    <3>1. \A i \in Nat : i <= n /\ i <= n - 1 => h[i] = k[i]
      BY <1>2, <2>1
    <3>2. QED
      BY <2>1, <3>1
  <2>5. h[n] = g[<<n, h[n - 1]>>]
    BY <2>1
  <2>6. QED
    BY <2>2, <2>3, <2>4, <2>5
<1>7. QED
  <2> HIDE DEF f
  <2>1. QED
    BY <1>4, <1>5, <1>6 DEF Recurs
=============================================================================
