----------------------------- MODULE Induction ------------------------------
(***************************************************************************)
(* Induction over the naturals.  The induction theorems of the library     *)
(* take a predicate as a parameter; these take the set of the numbers that *)
(* have it.  They rest on the subsets of a set being well-founded.         *)
(***************************************************************************)
EXTENDS Integers, FiniteSetTheorems, WellFoundedInduction, TLAPS

\* A set of naturals has a smallest element.
LEMMA Smallest == ASSUME NEW S \in SUBSET Nat, S # {} 
                  PROVE  \E n \in S : \A m \in S : n <= m
<1> DEFINE Below == {0 .. n - 1 : n \in S}
<1>1. \A n \in S : 0 .. n - 1 \in SUBSET Nat /\ IsFiniteSet(0 .. n - 1)
  BY FS_Interval
<1>2. Below \subseteq FiniteSubsetsOf(Nat) /\ Below # {}
  BY <1>1, Zenon DEF FiniteSubsetsOf
<1>3. \E x \in Below : \A y \in Below : ~ (<<y, x>> \in StrictSubsetOrdering(Nat))
  BY <1>2, WFMin, FS_StrictSubsetOrderingWellFounded
<1>4. PICK n \in S : \A m \in S : ~ (<<0 .. m - 1, 0 .. n - 1>> \in StrictSubsetOrdering(Nat))
  BY <1>3
<1>5. ASSUME NEW m \in S, m < n PROVE FALSE
  <2>1. n - 1 \in 0 .. n - 1 /\ n - 1 \notin 0 .. m - 1 /\ 0 .. m - 1 \subseteq 0 .. n - 1
    BY <1>5
  <2>2. <<0 .. m - 1, 0 .. n - 1>> \in (SUBSET Nat) \X (SUBSET Nat)
    BY <1>1, Zenon
  <2>3. <<0 .. m - 1, 0 .. n - 1>> \in StrictSubsetOrdering(Nat)
    <3> DEFINE p == <<0 .. m - 1, 0 .. n - 1>>
    <3>1. p[1] = 0 .. m - 1 /\ p[2] = 0 .. n - 1
      OBVIOUS
    <3>2. p[1] \subseteq p[2] /\ p[1] # p[2]
      BY <2>1, <3>1
    <3> HIDE DEF p
    <3> QED BY <2>2, <3>2, Zenon DEF StrictSubsetOrdering, p
  <2> QED BY <2>3, <1>4
<1> QED BY <1>5

\* Induction over the naturals, with a set in place of a predicate.
LEMMA SetInduction == ASSUME NEW S, 0 \in S, \A n \in Nat : n \in S => n + 1 \in S
                      PROVE  Nat \subseteq S
<1> SUFFICES ASSUME Nat \ S # {} PROVE FALSE
  OBVIOUS
<1>1. PICK n \in Nat \ S : \A m \in Nat \ S : n <= m
  BY Smallest, Nat \ S \in SUBSET Nat, Zenon
<1>2. n # 0 /\ n - 1 \in Nat /\ n - 1 \in S
  BY <1>1
<1> QED BY <1>2

\* f[1] .. f[n] begin with a, and g takes each to the one behind it.
Iterates(f, a, g, n) == \A k \in 1 .. n : f[k] = IF k = 1 THEN a ELSE g[f[k - 1]]

\* The function that such a recursion defines exists.
LEMMA IterationExists ==
  ASSUME NEW S, NEW a \in S, NEW g \in [S -> S], NEW n \in Nat
  PROVE  \E f \in [1 .. n -> S] : Iterates(f, a, g, n)
<1> DEFINE Is(f, m) == \A k \in 1 .. m : f[k] = IF k = 1 THEN a ELSE g[f[k - 1]]
           N == {m \in Nat : \E f \in [1 .. m -> S] : Is(f, m)}
<1>1. 0 \in N
  <2> DEFINE f == [k \in 1 .. 0 |-> a]
  <2>1. f \in [1 .. 0 -> S] /\ Is(f, 0)
    OBVIOUS
  <2> QED BY <2>1
<1>2. ASSUME NEW m \in Nat, m \in N PROVE m + 1 \in N
  <2>1. PICK f \in [1 .. m -> S] : Is(f, m)
    BY <1>2
  <2> DEFINE last == IF m = 0 THEN a ELSE g[f[m]]
             h == [k \in 1 .. m + 1 |-> IF k = m + 1 THEN last ELSE f[k]]
  <2>2. last \in S
    <3>1. m # 0 => m \in 1 .. m
      OBVIOUS
    <3> QED BY <2>1, <3>1
  <2> HIDE DEF last
  <2>3. h \in [1 .. m + 1 -> S]
    <3>1. \A k \in 1 .. m + 1 : k # m + 1 => k \in 1 .. m
      OBVIOUS
    <3> QED BY <2>1, <2>2, <3>1
  <2>4. ASSUME NEW k \in 1 .. m + 1 PROVE h[k] = IF k = 1 THEN a ELSE g[h[k - 1]]
    <3>1. CASE k = m + 1
      <4>1. k # 1 => m # 0 /\ k - 1 = m /\ k - 1 \in 1 .. m + 1 /\ k - 1 # m + 1
        BY <3>1
      <4>2. k # 1 => h[k - 1] = f[m]
        BY <4>1
      <4>3. h[k] = last
        BY <3>1
      <4> QED BY <3>1, <4>1, <4>2, <4>3 DEF last
    <3>2. CASE k # m + 1
      <4>1. k \in 1 .. m /\ (k # 1 => k - 1 \in 1 .. m + 1 /\ k - 1 # m + 1)
        BY <3>2
      <4>2. f[k] = IF k = 1 THEN a ELSE g[f[k - 1]]
        BY <2>1, <4>1
      <4> QED BY <3>2, <4>1, <4>2
    <3> QED BY <3>1, <3>2
  <2> HIDE DEF h
  <2>5. Is(h, m + 1)
    BY <2>4
  <2> QED BY <2>3, <2>5
<1> HIDE DEF N
<1>3. Nat \subseteq N
  BY <1>1, <1>2, SetInduction
<1> QED BY <1>3 DEF N, Iterates

\* The same for a recursion from 0 whose step depends on where it is.
LEMMA RecursionExists ==
  ASSUME NEW S, NEW a \in S, NEW n \in Nat, NEW g \in [1 .. n -> [S -> S]]
  PROVE  \E f \in [0 .. n -> S] :
           f = [k \in 0 .. n |-> IF k = 0 THEN a ELSE g[k][f[k - 1]]]
<1> DEFINE Is(f, m) == \A k \in 0 .. m : f[k] = IF k = 0 THEN a ELSE g[k][f[k - 1]]
           N == {m \in Nat : m <= n => \E f \in [0 .. m -> S] : Is(f, m)}
<1>1. 0 \in N
  <2> DEFINE f == [k \in 0 .. 0 |-> a]
  <2>1. f \in [0 .. 0 -> S] /\ Is(f, 0)
    OBVIOUS
  <2> QED BY <2>1
<1>2. ASSUME NEW m \in Nat, m \in N PROVE m + 1 \in N
  <2> SUFFICES ASSUME m + 1 <= n PROVE \E f \in [0 .. m + 1 -> S] : Is(f, m + 1)
    OBVIOUS
  <2>1. PICK f \in [0 .. m -> S] : Is(f, m)
    BY <1>2
  <2> DEFINE last == g[m + 1][f[m]]
             h == [k \in 0 .. m + 1 |-> IF k = m + 1 THEN last ELSE f[k]]
  <2>2. last \in S
    <3>1. m + 1 \in 1 .. n /\ m \in 0 .. m
      OBVIOUS
    <3>2. f[m] \in S /\ g[m + 1] \in [S -> S]
      BY <2>1, <3>1
    <3> QED BY <3>2
  <2> HIDE DEF last
  <2>3. h \in [0 .. m + 1 -> S]
    <3>1. \A k \in 0 .. m + 1 : k # m + 1 => k \in 0 .. m
      OBVIOUS
    <3> QED BY <2>1, <2>2, <3>1
  <2>4. ASSUME NEW k \in 0 .. m + 1 PROVE h[k] = IF k = 0 THEN a ELSE g[k][h[k - 1]]
    <3>1. CASE k = m + 1
      <4>1. k # 0 /\ k - 1 = m /\ k - 1 \in 0 .. m + 1 /\ k - 1 # m + 1
        BY <3>1
      <4>2. h[k - 1] = f[m]
        BY <4>1
      <4>3. h[k] = last
        BY <3>1
      <4> QED BY <3>1, <4>1, <4>2, <4>3 DEF last
    <3>2. CASE k # m + 1
      <4>1. k \in 0 .. m /\ (k # 0 => k - 1 \in 0 .. m + 1 /\ k - 1 # m + 1)
        BY <3>2
      <4>2. f[k] = IF k = 0 THEN a ELSE g[k][f[k - 1]]
        BY <2>1, <4>1
      <4> QED BY <3>2, <4>1, <4>2
    <3> QED BY <3>1, <3>2
  <2> HIDE DEF h
  <2>5. Is(h, m + 1)
    BY <2>4
  <2> QED BY <2>3, <2>5
<1> HIDE DEF N
<1>3. n \in N
  BY <1>1, <1>2, SetInduction
<1>4. PICK f \in [0 .. n -> S] : Is(f, n)
  BY <1>3 DEF N
<1>5. f = [k \in 0 .. n |-> IF k = 0 THEN a ELSE g[k][f[k - 1]]]
  BY <1>4
<1> QED BY <1>4, <1>5
=============================================================================
