--------------------------- MODULE ThreadsProofs ----------------------------
(***************************************************************************)
(* Proofs about module Threads, for every number of slots, stacks, spawns  *)
(* and rounds: claims, affinity and the ring on at most two CPUs, then the *)
(* stacks, the types and the launch of the threads on one, and that the    *)
(* workers end before main does.                                           *)
(***************************************************************************)
EXTENDS Threads, Induction

-----------------------------------------------------------------------------
(***************************************************************************)
(* The walk of pick_next.                                                  *)
(***************************************************************************)
Follow(t) == IF t = Null THEN Null ELSE next[t]

IsWalk(f, cur, n) ==
  f = [k \in 1 .. n |-> IF k = 1 THEN Follow(cur) ELSE Follow(f[k - 1])]

LEMMA WalkSteps ==
  ASSUME next \in [Nodes -> Nodes \cup {Null}], NEW cur \in Nodes
  PROVE  /\ DOMAIN Walk(cur) = 1 .. MaxThreads + 1
         /\ Walk(cur)[1] = Follow(cur)
         /\ \A k \in 2 .. MaxThreads + 1 : Walk(cur)[k] = Follow(Walk(cur)[k - 1])
<1> DEFINE P == Nodes \cup {Null}
           g == [t \in P |-> Follow(t)]
<1>1. MaxThreads + 1 \in Nat /\ 1 \in 1 .. MaxThreads + 1
  BY ThreadsAssumption
<1>2. Follow(cur) \in P /\ g \in [P -> P]
  BY DEF Follow
<1>3. PICK f \in [1 .. MaxThreads + 1 -> P] : Iterates(f, Follow(cur), g, MaxThreads + 1)
  <2> HIDE DEF g, P
  <2> QED BY <1>1, <1>2, IterationExists
<1>4. \A k \in 1 .. MaxThreads + 1 : f[k] = IF k = 1 THEN Follow(cur) ELSE Follow(f[k - 1])
  <2>1. \A k \in 1 .. MaxThreads + 1 : k # 1 => k - 1 \in 1 .. MaxThreads + 1
    BY <1>1
  <2> QED BY <1>3, <2>1 DEF Iterates
<1>5. IsWalk(f, cur, MaxThreads + 1)
  BY <1>3, <1>4 DEF IsWalk
<1>6. IsWalk(Walk(cur), cur, MaxThreads + 1)
  <2>1. Walk(cur) = CHOOSE h : IsWalk(h, cur, MaxThreads + 1)
    BY DEF Walk, IsWalk, Follow
  <2> QED BY <1>5, <2>1
<1> QED BY <1>1, <1>6 DEF IsWalk

-----------------------------------------------------------------------------
(***************************************************************************)
(* The ring, without a walk: next is a permutation of the nodes that are   *)
(* on it, and they are one cycle, because what contains main and all that  *)
(* follows contains all of them.                                           *)
(***************************************************************************)
Closed(S) == Main \in S /\ \A p \in S : next[p] \in S

Ring ==
  /\ next \in [Nodes -> Nodes \cup {Null}]
  /\ next[Main] # Null
  /\ \A p \in Nodes : next[p] # Null => next[next[p]] # Null
  /\ \A p, q \in Nodes : next[p] = next[q] /\ next[p] # Null => p = q
  /\ \A t \in Nodes : next[t] # Null => \E p \in Nodes : next[p] = t
  /\ \A S \in SUBSET Nodes : Closed(S) => \A t \in Nodes : next[t] # Null => t \in S

LEMMA NodeFacts ==
  /\ Null \notin Nodes /\ Main \in Nodes /\ Main \notin Slots /\ Slots \subseteq Nodes
  /\ Nodes = {Main} \cup Slots
  /\ NCPU \in Nat \ {0} /\ MaxThreads \in Nat /\ MaxThreads >= NCPU
  /\ 0 \in CPUs
  /\ \A c \in CPUs \ {0} : c \in Slots
BY ThreadsAssumption DEF Nodes, Slots, Main, CPUs

\* From a node of the ring, the walk is on the ring all along and comes back to
\* that node; on its first way round it passes every other.
LEMMA RingRound ==
  ASSUME Ring, NEW q \in Nodes, next[q] # Null
  PROVE  /\ \A k \in DOMAIN Walk(q) : Walk(q)[k] \in Nodes /\ next[Walk(q)[k]] # Null
         /\ \E n \in DOMAIN Walk(q) :
              /\ Walk(q)[n] = q
              /\ \A j \in 1 .. n - 1 : Walk(q)[j] # q
              /\ \A t \in Nodes : next[t] # Null => \E k \in 1 .. n : Walk(q)[k] = t
<1> DEFINE W == Walk(q)
           I == 1 .. MaxThreads + 1
<1>0. /\ DOMAIN W = I /\ W[1] = next[q] /\ 1 \in I
      /\ \A k \in 2 .. MaxThreads + 1 : W[k] = Follow(W[k - 1])
      /\ MaxThreads \in Nat
  <2>1. next \in [Nodes -> Nodes \cup {Null}]
    BY DEF Ring
  <2>2. /\ DOMAIN W = I /\ W[1] = Follow(q)
        /\ \A k \in 2 .. MaxThreads + 1 : W[k] = Follow(W[k - 1])
    BY <2>1, WalkSteps, Zenon
  <2>3. Follow(q) = next[q] /\ MaxThreads \in Nat
    BY NodeFacts DEF Follow
  <2> HIDE DEF W
  <2> QED BY <2>2, <2>3
<1> HIDE DEF W
<1>1. \A k \in I : W[k] \in Nodes /\ next[W[k]] # Null
  <2> DEFINE S == {k \in Nat : k + 1 \in I => W[k + 1] \in Nodes /\ next[W[k + 1]] # Null}
  <2>1. 0 \in S
    BY <1>0, NodeFacts DEF Ring
  <2>2. ASSUME NEW k \in Nat, k \in S, k + 2 \in I
        PROVE  W[k + 2] \in Nodes /\ next[W[k + 2]] # Null
    <3>1. k + 1 \in I /\ k + 2 \in 2 .. MaxThreads + 1 /\ (k + 2) - 1 = k + 1
      BY <1>0, <2>2
    <3>2. W[k + 1] \in Nodes /\ next[W[k + 1]] # Null
      BY <2>2, <3>1
    <3>3. W[k + 2] = next[W[k + 1]]
      BY <1>0, <3>1, <3>2, NodeFacts DEF Follow
    <3> QED BY <3>2, <3>3 DEF Ring
  <2>3. \A k \in Nat : k \in S => k + 1 \in S
    BY <2>2
  <2> HIDE DEF S
  <2>4. Nat \subseteq S
    BY <2>1, <2>3, SetInduction
  <2> QED
    <3> SUFFICES ASSUME NEW k \in I PROVE W[k] \in Nodes /\ next[W[k]] # Null
      OBVIOUS
    <3>1. k - 1 \in Nat /\ (k - 1) + 1 = k
      OBVIOUS
    <3>2. k - 1 \in S
      BY <2>4, <3>1
    <3> QED BY <3>1, <3>2 DEF S
<1>2. \A k \in 2 .. MaxThreads + 1 : k - 1 \in I /\ k \in I /\ W[k] = next[W[k - 1]]
  <2> SUFFICES ASSUME NEW k \in 2 .. MaxThreads + 1
               PROVE  k - 1 \in I /\ k \in I /\ W[k] = next[W[k - 1]]
    OBVIOUS
  <2>1. k - 1 \in I /\ k \in I
    BY <1>0
  <2>2. W[k - 1] # Null
    BY <1>1, <2>1, NodeFacts
  <2> QED BY <1>0, <2>1, <2>2 DEF Follow
<1>3. \E k \in I : W[k] = q
  <2> SUFFICES ASSUME \A k \in I : W[k] # q PROVE FALSE
    OBVIOUS
  <2> DEFINE f == [k \in I |-> W[k]]
             S == { x \in I : \E y \in I : x < y /\ W[x] = W[y] }
             Others == Nodes \ {q}
  <2>2. f \in [I -> Others]
    BY <1>1
  <2>3. /\ IsFiniteSet(I) /\ Cardinality(I) = MaxThreads + 1
        /\ IsFiniteSet(Others) /\ Cardinality(Others) = MaxThreads
    <3>1. Nodes = 0 .. MaxThreads
      BY <1>0 DEF Nodes, Main, Slots
    <3>2. IsFiniteSet(Nodes) /\ Cardinality(Nodes) = MaxThreads + 1
      BY <1>0, <3>1, FS_Interval
    <3>3. IsFiniteSet(Others) /\ Cardinality(Others) = Cardinality(Nodes) - 1
      BY <3>2, FS_RemoveElement
    <3> QED BY <1>0, <3>2, <3>3, FS_Interval
  <2>4. \E x, y \in I : x # y /\ f[x] = f[y]
    <3>1. Cardinality(Others) < Cardinality(I)
      BY <1>0, <2>3
    <3> HIDE DEF f, I, Others
    <3> QED BY <2>2, <2>3, <3>1, FS_PigeonHole
  <2>5. S # {} /\ S \in SUBSET Nat
    <3>1. PICK x \in I, y \in I : x # y /\ W[x] = W[y]
      BY <2>4
    <3>2. x < y \/ y < x
      BY <3>1
    <3> QED BY <3>1, <3>2
  <2>6. PICK x \in S : \A m \in S : x <= m
    BY <2>5, Smallest
  <2>7. PICK y \in I : x < y /\ W[x] = W[y]
    BY <2>6
  <2>8. y \in 2 .. MaxThreads + 1
    BY <2>6, <2>7, <1>0
  <2>9. y - 1 \in I /\ W[y] = next[W[y - 1]] /\ W[y - 1] \in Nodes /\ W[y] # Null
    BY <1>1, <1>2, <2>8, NodeFacts
  <2>10. CASE x = 1
    <3>1. W[y - 1] = q
      BY <1>0, <2>7, <2>9, <2>10, NodeFacts DEF Ring
    <3> QED BY <2>9, <3>1
  <2>11. CASE x # 1
    <3>1. x \in 2 .. MaxThreads + 1 /\ x - 1 < y - 1
      BY <2>6, <2>7, <2>11, <1>0
    <3>2. x - 1 \in I /\ W[x] = next[W[x - 1]] /\ W[x - 1] \in Nodes
      BY <1>1, <1>2, <3>1
    <3>3. W[x - 1] = W[y - 1]
      BY <2>7, <2>9, <3>2 DEF Ring
    <3>4. x - 1 \in S
      BY <2>9, <3>1, <3>2, <3>3
    <3>5. x <= x - 1
      BY <2>6, <3>4
    <3> QED BY <3>1, <3>5
  <2> QED BY <2>10, <2>11
<1>4. PICK n \in I : W[n] = q /\ \A j \in 1 .. n - 1 : W[j] # q
  <2> DEFINE S == { k \in I : W[k] = q }
  <2>1. S # {} /\ S \in SUBSET Nat
    BY <1>3
  <2>2. PICK n \in S : \A m \in S : n <= m
    BY <2>1, Smallest
  <2>3. ASSUME NEW j \in 1 .. n - 1, W[j] = q PROVE FALSE
    <3>1. j \in S /\ j < n
      BY <1>0, <2>3
    <3> QED BY <2>2, <3>1
  <2> QED BY <2>2, <2>3
<1> DEFINE C == { W[k] : k \in 1 .. n }
<1>5. C \in SUBSET Nodes /\ q \in C /\ n \in 1 .. n /\ 1 \in 1 .. n
  <2>1. n \in 1 .. n /\ 1 \in 1 .. n /\ \A k \in 1 .. n : k \in I
    BY <1>0, <1>4
  <2> QED BY <1>1, <1>4, <2>1
<1>6. ASSUME NEW k \in 1 .. n PROVE next[W[k]] \in C
  <2>1. CASE k = n
    BY <1>0, <1>4, <1>5, <2>1
  <2>2. CASE k # n
    <3>1. k + 1 \in 2 .. MaxThreads + 1 /\ k + 1 \in 1 .. n /\ (k + 1) - 1 = k
      BY <1>0, <1>4, <2>2
    <3>2. W[k + 1] = next[W[k]]
      BY <1>2, <3>1
    <3> QED BY <3>1, <3>2
  <2> QED BY <2>1, <2>2
\* Nor is it entered from elsewhere.
<1>7. ASSUME NEW p \in Nodes, next[p] \in C PROVE p \in C
  <2>1. PICK k \in 1 .. n : next[p] = W[k]
    BY <1>7
  <2>2. k \in I
    BY <1>0, <1>4
  <2>3. W[k] # Null
    BY <1>1, <2>2, NodeFacts
  <2>4. CASE k = 1
    <3>1. next[p] = next[q]
      BY <1>0, <2>1, <2>4
    <3>2. p = q
      BY <2>1, <2>3, <3>1 DEF Ring
    <3> QED BY <1>5, <3>2
  <2>5. CASE k # 1
    <3>1. k \in 2 .. MaxThreads + 1 /\ k - 1 \in 1 .. n
      BY <1>0, <1>4, <2>5
    <3>2. k - 1 \in I /\ W[k] = next[W[k - 1]]
      BY <1>2, <3>1
    <3>3. p = W[k - 1]
      BY <1>1, <2>1, <2>3, <3>2 DEF Ring
    <3> QED BY <3>1, <3>3
  <2> QED BY <2>4, <2>5
<1>8. \A p \in C : next[p] \in C
  BY <1>6
<1>9. ASSUME NEW t \in Nodes, next[t] # Null PROVE t \in C
  <2> HIDE DEF C
  <2>1. Main \in C
    <3> SUFFICES ASSUME Main \notin C PROVE FALSE
      OBVIOUS
    <3> DEFINE D == { p \in Nodes : next[p] # Null /\ p \notin C }
    <3>1. \A p \in D : next[p] \in D
      <4> SUFFICES ASSUME NEW p \in Nodes, next[p] # Null, p \notin C
                   PROVE  next[p] \in D
        OBVIOUS
      <4>1. next[p] \in Nodes /\ next[next[p]] # Null
        BY DEF Ring
      <4>2. next[p] \notin C
        BY <1>7
      <4> QED BY <4>1, <4>2
    <3>2. Main \in D /\ D \in SUBSET Nodes
      BY NodeFacts DEF Ring
    <3>3. Closed(D)
      BY <3>1, <3>2 DEF Closed
    <3>4. q \in D
      <4> HIDE DEF D
      <4> QED BY <3>2, <3>3, Zenon DEF Ring
    <3> QED BY <1>5, <3>4
  <2>2. Closed(C)
    BY <1>8, <2>1 DEF Closed
  <2> QED BY <1>5, <1>9, <2>2, Zenon DEF Ring
<1>10. \A t \in Nodes : next[t] # Null => \E k \in 1 .. n : W[k] = t
  BY <1>9
<1> QED BY <1>0, <1>1, <1>4, <1>10 DEF W

\* As many steps as there are slots, and one, bring the walk from main back to
\* main, past every node of the ring and past no other.
LEMMA RingWalk ==
  ASSUME Ring
  PROVE  LET seen == { Walk(Main)[k] : k \in DOMAIN Walk(Main) }
         IN  Main \in seen /\ seen = { t \in Nodes : next[t] # Null }
<1> DEFINE W == Walk(Main)
           seen == { W[k] : k \in DOMAIN W }
<1>1. \A k \in DOMAIN W : W[k] \in Nodes /\ next[W[k]] # Null
  BY RingRound, NodeFacts DEF Ring
<1>2. ASSUME NEW t \in Nodes, next[t] # Null PROVE t \in seen
  <2>1. PICK n \in DOMAIN W : \E k \in 1 .. n : W[k] = t
    BY <1>2, RingRound, NodeFacts DEF Ring
  <2>2. DOMAIN W = 1 .. MaxThreads + 1 /\ MaxThreads \in Nat
    BY WalkSteps, NodeFacts DEF Ring
  <2>3. PICK k \in 1 .. n : W[k] = t
    BY <2>1
  <2>4. k \in DOMAIN W
    BY <2>2
  <2> QED BY <2>3, <2>4
<1>3. Main \in Nodes /\ next[Main] # Null
  BY NodeFacts DEF Ring
<1> HIDE DEF W
<1>4. Main \in seen /\ seen = { t \in Nodes : next[t] # Null }
  BY <1>1, <1>2, <1>3
<1> QED BY <1>4 DEF W

LEMMA RingInsert ==
  ASSUME Ring, NEW t \in Slots, next[t] = Null, enqueue_thread(t)
  PROVE  /\ Ring'
         /\ \A u \in Nodes : next'[u] # Null <=> u = t \/ next[u] # Null
<1>0. /\ next \in [Nodes -> Nodes \cup {Null}] /\ t \in Nodes /\ t # Main /\ next[Main] \in Nodes
      /\ Main \in Nodes /\ Null \notin Nodes /\ next[Main] # t
  BY NodeFacts DEF Ring
<1>1. /\ next'[t] = next[Main] /\ next'[Main] = t
      /\ \A u \in Nodes \ {t, Main} : next'[u] = next[u]
      /\ next' \in [Nodes -> Nodes \cup {Null}]
  BY <1>0 DEF enqueue_thread
<1>2. \A u \in Nodes : next'[u] # Null <=> u = t \/ next[u] # Null
  BY <1>0, <1>1
<1>3. \A p \in Nodes : next'[p] # Null => next'[next'[p]] # Null
  BY <1>0, <1>1, <1>2 DEF Ring
<1>4. \A p, q \in Nodes : next'[p] = next'[q] /\ next'[p] # Null => p = q
  <2>1. \A p \in Nodes : next[p] # t
    BY <1>0 DEF Ring
  <2> QED BY <1>0, <1>1, <2>1 DEF Ring
<1>5. ASSUME NEW u \in Nodes, next'[u] # Null PROVE \E p \in Nodes : next'[p] = u
  <2>1. CASE u = t
    BY <1>0, <1>1, <2>1
  <2>2. CASE u # t
    <3>1. PICK p \in Nodes : next[p] = u
      BY <1>2, <1>5, <2>2 DEF Ring
    <3>2. CASE p = Main
      BY <1>0, <1>1, <3>1, <3>2
    <3>3. CASE p # Main
      <4>1. p # t
        BY <1>0, <3>1
      <4> QED BY <1>1, <3>1, <3>3, <4>1
    <3> QED BY <3>2, <3>3
  <2> QED BY <2>1, <2>2
<1>6. ASSUME NEW S \in SUBSET Nodes, Closed(S)', NEW u \in Nodes, next'[u] # Null
      PROVE  u \in S
  <2>1. Main \in S /\ \A p \in S : next'[p] \in S
    BY <1>6 DEF Closed
  <2>2. t \in S
    BY <1>1, <2>1
  <2>3. \A p \in S \ {t} : next[p] \in S \ {t}
    <3> SUFFICES ASSUME NEW p \in S, p # t PROVE next[p] \in S /\ next[p] # t
      OBVIOUS
    <3>1. next[p] # t
      BY <1>0 DEF Ring
    <3>2. next[p] \in S
      BY <1>0, <1>1, <2>1, <2>2
    <3> QED BY <3>1, <3>2
  <2>4. Closed(S \ {t})
    BY <1>0, <2>1, <2>3 DEF Closed
  <2>5. next[u] # Null => u \in S \ {t}
    BY <2>4 DEF Ring
  <2> QED BY <1>2, <1>6, <2>2, <2>5
<1>7. next'[Main] # Null
  BY <1>0, <1>1
<1> QED BY <1>1, <1>2, <1>3, <1>4, <1>5, <1>6, <1>7 DEF Ring

LEMMA RingRemove ==
  ASSUME Ring, NEW t \in Slots, unlink_thread(t)
  PROVE  /\ Ring'
         /\ \A u \in Nodes : next'[u] # Null <=> u # t /\ next[u] # Null
<1>0. /\ next \in [Nodes -> Nodes \cup {Null}] /\ t \in Nodes /\ t # Main
      /\ Main \in Nodes /\ Null \notin Nodes /\ next[Main] # Null
  BY NodeFacts DEF Ring
<1>1. CASE next[t] = Null
  <2>1. \A p \in Nodes : next[p] # t
    BY <1>0, <1>1 DEF Ring
  <2>2. next' = next
    BY <2>1 DEF unlink_thread
  <2> QED BY <1>1, <2>2 DEF Ring, Closed
<1>2. CASE next[t] # Null
  <2>1. PICK q \in Nodes : next[q] = t
    BY <1>0, <1>2 DEF Ring
  <2>2. \A p \in Nodes : next[p] = t => p = q
    BY <1>0, <2>1 DEF Ring
  <2>3. q # t
    <3> SUFFICES ASSUME q = t PROVE FALSE
      OBVIOUS
    <3>1. \A p \in Nodes \ {t} : next[p] \in (Nodes \ {t}) \cup {Null}
      BY <1>0, <2>1, <2>2
    <3> DEFINE S == { p \in Nodes : next[p] # Null } \ {t}
    <3>2. \A p \in S : next[p] \in S
      BY <1>0, <3>1 DEF Ring
    <3>3. S \in SUBSET Nodes /\ Closed(S)
      BY <1>0, <3>2 DEF Closed
    <3>4. t \in S
      BY <1>0, <1>2, <3>3, Zenon DEF Ring
    <3> QED BY <3>4
  <2>4. /\ next' = [p \in Nodes |-> CASE p = t -> Null
                                      [] p # t /\ next[p] = t -> next[t]
                                      [] OTHER -> next[p]]
    BY <2>1 DEF unlink_thread
  <2>5. /\ next'[t] = Null /\ next'[q] = next[t]
        /\ \A p \in Nodes \ {t, q} : next'[p] = next[p]
        /\ next' \in [Nodes -> Nodes \cup {Null}]
    BY <1>0, <2>1, <2>2, <2>3, <2>4
  <2>6. \A u \in Nodes : next'[u] # Null <=> u # t /\ next[u] # Null
    BY <1>0, <1>2, <2>1, <2>5
  <2>7. next[t] # t
    BY <2>2, <2>3, <1>0
  <2>8. \A p \in Nodes : next'[p] # Null => next'[p] # t /\ next'[next'[p]] # Null
    BY <1>0, <2>2, <2>5, <2>6, <2>7 DEF Ring
  <2>9. \A p, s \in Nodes : next'[p] = next'[s] /\ next'[p] # Null => p = s
    BY <1>0, <1>2, <2>1, <2>5 DEF Ring
  <2>10. ASSUME NEW u \in Nodes, next'[u] # Null PROVE \E p \in Nodes : next'[p] = u
    <3>1. u # t /\ next[u] # Null
      BY <2>6, <2>10
    <3>2. PICK p \in Nodes : next[p] = u
      BY <3>1 DEF Ring
    <3>3. CASE p = t
      BY <2>5, <3>2, <3>3
    <3>4. CASE p # t
      <4>1. p # q
        BY <2>1, <3>1, <3>2
      <4> QED BY <2>5, <3>2, <3>4, <4>1
    <3> QED BY <3>3, <3>4
  <2>11. ASSUME NEW S \in SUBSET Nodes, Closed(S)', NEW u \in Nodes, next'[u] # Null
         PROVE  u \in S
    <3>1. Main \in S /\ \A p \in S : next'[p] \in S
      BY <2>11 DEF Closed
    <3>2. t \notin S
      BY <1>0, <2>5, <3>1
    <3>3. \A p \in S : next[p] \in S \cup {t}
      BY <2>1, <2>5, <3>1, <3>2
    <3>4. CASE q \in S
      <4>1. next[t] \in S
        BY <2>5, <3>1, <3>4
      <4>2. Closed(S \cup {t})
        BY <3>1, <3>3, <4>1 DEF Closed
      <4>3. S \cup {t} \in SUBSET Nodes
        BY <1>0
      <4>4. u \in S \cup {t}
        BY <2>6, <2>11, <4>2, <4>3 DEF Ring
      <4> QED BY <2>6, <2>11, <4>4
    <3>5. CASE q \notin S
      <4>1. \A p \in S : next[p] \in S
        BY <2>2, <3>3, <3>5
      <4>2. Closed(S)
        BY <3>1, <4>1 DEF Closed
      <4> QED BY <2>6, <2>11, <4>2 DEF Ring
    <3> QED BY <3>4, <3>5
  <2>12. next'[Main] # Null
    BY <1>0, <2>6
  <2> QED BY <2>5, <2>6, <2>8, <2>9, <2>10, <2>11, <2>12 DEF Ring
<1> QED BY <1>1, <1>2

-----------------------------------------------------------------------------
(***************************************************************************)
(* Who runs what, on any number of CPUs.  The invariant needs nothing of   *)
(* the shape of the ring: only that a thread which is on it and runs is    *)
(* not a free slot, and that nobody has touched the idle thread of a CPU   *)
(* that is still offline.                                                  *)
(***************************************************************************)
\* Where a sched_yield may return to.
Back == {"none", "checkpoint", "checkpoint2", "spawn", "work", "zombie", "ap_yield"}

Shape ==
  /\ next \in [Nodes -> Nodes \cup {Null}]
  /\ state \in [Nodes -> {"UNUSED", "RUNNABLE", "ZOMBIE"}]
  /\ affinity \in [Nodes -> {AnyCPU} \cup CPUs]
  /\ token \in [Nodes -> {-1} \cup CPUs]
  /\ current \in [CPUs -> Nodes \cup {Null}]
  /\ yieldFrom \in Nodes \cup {Null}
  /\ z \in [CPUs -> Nodes \cup {Null}]
  /\ pc \in [CPUs -> Labels \cup {"none"}]
  /\ ret \in [Nodes -> Back]

UsedInv == \A c \in CPUs : current[c] # Null /\ OnRing(current[c])
                             => state[current[c]] # "UNUSED"

SlotInv ==
  /\ pc[0] \in {"spawn_kmalloc", "spawn_fields"} => slot \in Slots /\ state[slot] = "UNUSED"
  /\ pc[0] = "spawn_enqueue" => slot \in Slots

ZInv == \A c \in CPUs : pc[c] \in {"reap_check", "reap_lock"} => z[c] \in Slots

OfflineInv == \A c \in CPUs :
  /\ current[c] = Null <=> pc[c] = "offline"
  /\ pc[c] = "offline" => /\ c # 0 /\ state[c] = "RUNNABLE" /\ affinity[c] = c
                          /\ yieldFrom # c /\ \A d \in CPUs : z[d] # c

OwnInv == /\ Shape /\ UsedInv /\ SlotInv /\ ZInv /\ OfflineInv
          /\ ClaimExclusive /\ AffinityRespected

\* The steps that touch nothing of this but the CPU's own program counter.
Plain == (Labels \cup {"none"}) \ {"offline", "spawn_kmalloc", "spawn_fields",
                                   "spawn_enqueue", "reap_check", "reap_lock"}

Quiet(c) ==
  /\ UNCHANGED <<next, state, affinity, token, current, yieldFrom, z, slot, spawned>>
  /\ ret' \in [Nodes -> Back]
  /\ pc[c] \notin {"offline", "spawn_kmalloc", "spawn_fields", "spawn_enqueue"}
  /\ pc[c] = "spawn" => spawned = Spawns
  /\ \E l \in Plain : pc' = [pc EXCEPT ![c] = l]

Loud(c) ==
  \/ yield_claim(c) \/ reap_read(c) \/ reap_null(c) \/ reap_check(c) \/ reap_unlink(c)
  \/ worker_exit(c)
  \/ c = 0 /\ (spawn_alloc_slot \/ spawn_kmalloc \/ spawn_fields \/ spawn_enqueue)
  \/ thread_ap_online(c)

LEMMA StepKinds ==
  ASSUME OwnInv, NEW c \in CPUs, Step(c)
  PROVE  Quiet(c) \/ Loud(c)
<1>0. /\ Back \subseteq Plain /\ After(Me(c)) \in Back
      /\ ret \in [Nodes -> Back]
  BY DEF Back, Plain, Labels, After, OwnInv, Shape
<1>1. ASSUME pc[c] # "offline" PROVE ret[Me(c)] \in Plain
  <2>1. current[c] \in Nodes
    BY <1>1 DEF OwnInv, Shape, OfflineInv
  <2> QED BY <1>0, <2>1 DEF Me
<1>2. ASSUME NEW back \in Back, CallYield(c, back)
      PROVE  ret' \in [Nodes -> Back] /\ \E l \in Plain : pc' = [pc EXCEPT ![c] = l]
  <2>1. "yield" \in Plain
    BY DEF Plain, Labels
  <2> QED BY <1>0, <1>2, <2>1 DEF CallYield, Goto
<1>3. CASE sched_yield(c)
  <2>1. CASE yield_check(c)
    <3>1. "pick" \in Plain
      BY DEF Plain, Labels
    <3> QED BY <1>0, <1>1, <2>1, <3>1 DEF yield_check, Quiet, At, Goto, slots, cpu, prog
  <2>2. CASE yield_alone(c)
    BY <1>0, <1>1, <2>2 DEF yield_alone, Quiet, At, Goto, slots, cpu, prog
  <2>3. CASE cpu_switch(c)
    <3>1. "tramp" \in Plain /\ "reap" \in Plain
      BY DEF Plain, Labels
    <3> QED BY <1>0, <2>3, <3>1 DEF cpu_switch, Quiet, At, Goto, slots, cpu, prog
  <2> QED BY <1>3, <2>1, <2>2, <2>3 DEF sched_yield, Loud
<1>4. CASE reap_unlock(c) \/ reap_kfree(c)
  <2>1. "reap_free" \in Plain
    BY DEF Plain, Labels
  <2> QED BY <1>0, <1>1, <1>4, <2>1 DEF reap_unlock, reap_kfree, Quiet, At, Goto, slots, cpu, prog
<1>5. CASE thread_fn(c)
  <2>1. {"disable", "enable", "work", "checkpoint", "zombie", "yield"} \subseteq Plain
        /\ "zombie" \in Back
    BY DEF Plain, Labels, Back
  <2>2. CASE thread_trampoline(c) \/ worker_critical_begin(c) \/ worker_critical_end(c)
    BY <1>0, <2>1, <2>2 DEF thread_trampoline, worker_critical_begin, worker_critical_end,
       Quiet, At, Goto, slots, cpu, prog
  <2>3. CASE worker_round(c)
    BY <1>0, <2>1, <2>3 DEF worker_round, Quiet, At, Goto, slots, cpu, prog
  <2>4. CASE zombie_loop(c)
    BY <1>2, <2>1, <2>4 DEF zombie_loop, Quiet, At, slots, cpu, prog
  <2> QED BY <1>5, <2>2, <2>3, <2>4 DEF thread_fn, Loud
<1>6. CASE sched_checkpoint(c)
  <2>1. "checkpoint2" \in Plain /\ "checkpoint2" \in Back
    BY DEF Plain, Labels, Back
  <2>2. CASE \E b \in Back : \/ CallYield(c, b)
                             \/ Goto(c, b) /\ UNCHANGED ret
    <3>1. ret' \in [Nodes -> Back] /\ \E l \in Plain : pc' = [pc EXCEPT ![c] = l]
      BY <1>0, <1>2, <2>2 DEF Goto
    <3> QED BY <1>6, <3>1 DEF sched_checkpoint, Quiet, At, slots, cpu
  <2> QED BY <1>0, <1>6, <2>1, <2>2 DEF sched_checkpoint
<1>7. CASE ap_loop_yield(c)
  <2>1. "checkpoint" \in Back
    BY DEF Back
  <2> QED BY <1>2, <1>7, <2>1 DEF ap_loop_yield, Quiet, At, slots, cpu
<1>8. CASE c = 0 /\ main_loop
  <2>1. "checkpoint" \in Back /\ "halt" \in Plain
    BY DEF Back, Plain, Labels
  <2>2. ret' \in [Nodes -> Back] /\ \E l \in Plain : pc' = [pc EXCEPT ![c] = l]
    <3>1. CASE left[Main] = 0
      BY <1>0, <1>8, <2>1, <3>1 DEF main_loop, Goto
    <3>2. CASE left[Main] # 0
      BY <1>2, <1>8, <2>1, <3>2 DEF main_loop
    <3> QED BY <3>1, <3>2
  <2> QED BY <1>8, <2>2 DEF main_loop, Quiet, At, slots, cpu
<1> QED BY <1>3, <1>4, <1>5, <1>6, <1>7, <1>8
    DEF Step, thread_reap_yield_from, thread_demo_run, Loud

LEMMA OwnQuiet == ASSUME OwnInv, NEW c \in CPUs, Quiet(c) PROVE OwnInv'
<1>0. OwnInv /\ 0 \in CPUs
  BY NodeFacts
<1>1. PICK l \in Plain : pc' = [pc EXCEPT ![c] = l]
  BY DEF Quiet
<1>2. /\ UNCHANGED <<next, state, affinity, token, current, yieldFrom, z, slot>>
      /\ ret' \in [Nodes -> Back] /\ pc[c] # "offline"
  BY DEF Quiet
<1>3. /\ pc'[c] = l /\ \A d \in CPUs : d # c => pc'[d] = pc[d]
      /\ pc' \in [CPUs -> Labels \cup {"none"}]
      /\ l \notin {"offline", "spawn_kmalloc", "spawn_fields", "spawn_enqueue",
                   "reap_check", "reap_lock"}
  BY <1>0, <1>1 DEF OwnInv, Shape, Plain
<1>4. Shape'
  BY <1>0, <1>2, <1>3 DEF OwnInv, Shape
<1>5. UsedInv' /\ ClaimExclusive' /\ AffinityRespected'
  BY <1>0, <1>2 DEF OwnInv, UsedInv, OnRing, ClaimExclusive, AffinityRespected
<1>6. SlotInv' /\ ZInv'
  BY <1>0, <1>2, <1>3 DEF OwnInv, SlotInv, ZInv
<1>7. OfflineInv'
  BY <1>0, <1>2, <1>3 DEF OwnInv, OfflineInv
<1> QED BY <1>4, <1>5, <1>6, <1>7 DEF OwnInv
\* A CPU whose thread runs is not offline, and the thread is its own.
LEMMA Running ==
  ASSUME OwnInv, NEW c \in CPUs, pc[c] # "offline"
  PROVE  /\ Me(c) \in Nodes /\ current[c] = Me(c)
         /\ token[Me(c)] = c /\ affinity[Me(c)] \in {AnyCPU, c}
         /\ \A d \in CPUs : pc[d] = "offline" => Me(c) # d /\ d # c
<1>1. current[c] \in Nodes /\ Null \notin Nodes
  BY NodeFacts DEF OwnInv, Shape, OfflineInv
<1>2. token[current[c]] = c /\ affinity[current[c]] \in {AnyCPU, c}
  BY <1>1 DEF OwnInv, ClaimExclusive, AffinityRespected
<1>3. ASSUME NEW d \in CPUs, pc[d] = "offline" PROVE current[c] # d
  <2>1. affinity[d] = d /\ d # c /\ d # AnyCPU
    BY <1>3 DEF OwnInv, OfflineInv, CPUs, AnyCPU
  <2> QED BY <1>2, <2>1
<1> QED BY <1>1, <1>2, <1>3 DEF Me

\* What pick_next finds, other than the thread that asks, can be claimed.
LEMMA PickRunnable ==
  ASSUME NEW c, NEW me, NEW t \in Nodes, t # me, pick_next(c, me, t)
  PROVE  Runnable(c, t)
<1>1. t # Null
  BY NodeFacts
<1> QED BY <1>1 DEF pick_next

LEMMA OwnClaim == ASSUME OwnInv, NEW c \in CPUs, yield_claim(c) PROVE OwnInv'
<1> DEFINE me == Me(c)
<1>0. /\ OwnInv /\ pc[c] = "pick" /\ yieldFrom' = me /\ pc' = [pc EXCEPT ![c] = "switch"]
      /\ UNCHANGED <<next, state, affinity, z, slot, ret>>
      /\ 0 \in CPUs /\ Null \notin Nodes
  BY NodeFacts DEF yield_claim, At, Goto, prog
<1>1. /\ me \in Nodes /\ current[c] = me /\ token[me] = c
      /\ \A d \in CPUs : pc[d] = "offline" => me # d /\ d # c
  BY <1>0, Running
<1>2. PICK t \in Nodes \ {me} : /\ pick_next(c, me, t) /\ claim(c, me, t)
                                /\ current' = [current EXCEPT ![c] = t]
  BY DEF yield_claim
<1>3. state[t] = "RUNNABLE" /\ affinity[t] \in {AnyCPU, c} /\ token[t] = -1
  BY <1>2, PickRunnable DEF Runnable
<1> HIDE DEF me
<1>4. /\ token' \in [Nodes -> {-1} \cup CPUs] /\ token'[t] = c
      /\ \A u \in Nodes : u # t /\ u # me => token'[u] = token[u]
  BY <1>0, <1>1, <1>2 DEF claim, OwnInv, Shape
<1>5. /\ current' \in [CPUs -> Nodes \cup {Null}] /\ current'[c] = t
      /\ \A d \in CPUs : d # c => current'[d] = current[d]
  BY <1>0, <1>2 DEF OwnInv, Shape
<1>6. /\ pc' \in [CPUs -> Labels \cup {"none"}] /\ pc'[c] = "switch"
      /\ \A d \in CPUs : d # c => pc'[d] = pc[d]
  BY <1>0 DEF OwnInv, Shape, Labels
<1>7. Shape'
  BY <1>0, <1>1, <1>4, <1>5, <1>6 DEF OwnInv, Shape
<1>8. ClaimExclusive'
  <2> SUFFICES ASSUME NEW d \in CPUs, current'[d] # Null PROVE token'[current'[d]] = d
    BY DEF ClaimExclusive
  <2>1. CASE d = c
    BY <1>4, <1>5, <2>1
  <2>2. CASE d # c
    <3>1. current[d] \in Nodes /\ token[current[d]] = d /\ current'[d] = current[d]
      BY <1>0, <1>5, <2>2 DEF OwnInv, Shape, ClaimExclusive
    <3>2. current[d] # t /\ current[d] # me
      BY <1>1, <1>3, <2>2, <3>1 DEF CPUs
    <3> QED BY <1>4, <3>1, <3>2
  <2> QED BY <2>1, <2>2
<1>9. AffinityRespected' /\ UsedInv'
  BY <1>0, <1>3, <1>5 DEF OwnInv, AffinityRespected, UsedInv, OnRing
<1>10. SlotInv' /\ ZInv'
  BY <1>0, <1>6 DEF OwnInv, SlotInv, ZInv
<1>11. OfflineInv'
  <2> SUFFICES ASSUME NEW d \in CPUs
               PROVE  /\ current'[d] = Null <=> pc'[d] = "offline"
                      /\ pc'[d] = "offline" =>
                           /\ d # 0 /\ state[d] = "RUNNABLE" /\ affinity[d] = d
                           /\ me # d /\ \A e \in CPUs : z[e] # d
    BY <1>0 DEF OfflineInv
  <2>1. CASE d = c
    BY <1>0, <1>2, <1>5, <1>6, <2>1
  <2>2. CASE d # c
    BY <1>0, <1>1, <1>5, <1>6, <2>2 DEF OwnInv, OfflineInv
  <2> QED BY <2>1, <2>2
<1> QED BY <1>7, <1>8, <1>9, <1>10, <1>11 DEF OwnInv
LEMMA OwnReap ==
  ASSUME OwnInv, Ring, NEW c \in CPUs,
         reap_read(c) \/ reap_null(c) \/ reap_check(c) \/ reap_unlink(c)
  PROVE  OwnInv'
<1>0. /\ OwnInv /\ 0 \in CPUs /\ Null \notin Nodes /\ Nodes = {Main} \cup Slots
      /\ pc[c] \in {"reap", "reap_null", "reap_check", "reap_lock"}
      /\ UNCHANGED <<affinity, token, current, ret, slot>>
  BY NodeFacts DEF reap_read, reap_null, reap_check, reap_unlink, At, slots, prog
<1>1. /\ Me(c) \in Nodes
      /\ \A d \in CPUs : pc[d] = "offline" => Me(c) # d /\ d # c
  BY <1>0, Running
<1>2. ret[Me(c)] \in Plain
  BY <1>0, <1>1 DEF OwnInv, Shape, Back, Plain, Labels
<1>3. PICK l \in (Labels \cup {"none"}) \ {"offline", "spawn_kmalloc", "spawn_fields", "spawn_enqueue"} :
        pc' = [pc EXCEPT ![c] = l]
  BY <1>2 DEF reap_read, reap_null, reap_check, reap_unlink, Goto, Plain, Labels
<1>4. /\ pc' \in [CPUs -> Labels \cup {"none"}] /\ pc'[c] = l
      /\ \A d \in CPUs : d # c => pc'[d] = pc[d]
  BY <1>0, <1>3 DEF OwnInv, Shape
<1>5. ClaimExclusive' /\ AffinityRespected'
  BY <1>0 DEF OwnInv, ClaimExclusive, AffinityRespected
<1>6. CASE reap_read(c)
  <2>1. /\ UNCHANGED <<next, state, yieldFrom>> /\ z' = [z EXCEPT ![c] = yieldFrom]
        /\ pc'[c] = "reap_null"
    BY <1>0, <1>6 DEF reap_read, slots, Goto, OwnInv, Shape
  <2>2. /\ z' \in [CPUs -> Nodes \cup {Null}] /\ z'[c] = yieldFrom
        /\ \A d \in CPUs : d # c => z'[d] = z[d]
    BY <1>0, <2>1 DEF OwnInv, Shape
  <2>3. Shape' /\ UsedInv' /\ SlotInv' /\ ZInv'
    BY <1>0, <1>4, <2>1, <2>2 DEF OwnInv, Shape, UsedInv, OnRing, SlotInv, ZInv
  <2>4. OfflineInv'
    BY <1>0, <1>3, <1>4, <2>1, <2>2 DEF OwnInv, OfflineInv
  <2> QED BY <1>5, <2>3, <2>4 DEF OwnInv
<1>7. CASE reap_null(c)
  <2>1. /\ UNCHANGED <<next, state, z>> /\ yieldFrom' = Null
        /\ z[c] \in {Null, Main} => pc'[c] \in Plain
    BY <1>0, <1>2, <1>7 DEF reap_null, slots, cpu, Goto, OwnInv, Shape
  <2>2. Shape' /\ UsedInv' /\ SlotInv'
    BY <1>0, <1>3, <1>4, <2>1 DEF OwnInv, Shape, UsedInv, OnRing, SlotInv
  <2>3. ZInv'
    BY <1>0, <1>4, <2>1 DEF OwnInv, Shape, ZInv, Plain
  <2>4. OfflineInv'
    <3>1. \A d \in CPUs : d # Null
      BY NodeFacts DEF Main
    <3>2. \A d \in CPUs : /\ current[d] = Null <=> pc'[d] = "offline"
                          /\ pc'[d] = "offline" => pc[d] = "offline"
      BY <1>0, <1>3, <1>4 DEF OwnInv, OfflineInv
    <3> QED BY <1>0, <2>1, <3>1, <3>2 DEF OwnInv, OfflineInv
  <2> QED BY <1>5, <2>2, <2>3, <2>4 DEF OwnInv
<1>8. CASE reap_check(c)
  <2>1. UNCHANGED <<next, state, z, yieldFrom>> /\ pc[c] = "reap_check"
    BY <1>0, <1>8 DEF reap_check, slots, At
  <2>2. Shape' /\ UsedInv' /\ SlotInv' /\ ZInv'
    BY <1>0, <1>3, <1>4, <2>1 DEF OwnInv, Shape, UsedInv, OnRing, SlotInv, ZInv
  <2>3. OfflineInv'
    BY <1>0, <1>3, <1>4, <2>1 DEF OwnInv, OfflineInv
  <2> QED BY <1>5, <2>2, <2>3 DEF OwnInv
<1>9. CASE reap_unlink(c)
  <2>1. /\ UNCHANGED <<z, yieldFrom>> /\ pc[c] = "reap_lock" /\ pc'[c] = "reap_stack"
        /\ unlink_thread(z[c]) /\ state' = [state EXCEPT ![z[c]] = "UNUSED"]
    BY <1>0, <1>9 DEF reap_unlink, At, Goto, cpu, OwnInv, Shape
  <2>2. z[c] \in Slots /\ z[c] \in Nodes
    BY <1>0, <2>1 DEF OwnInv, ZInv
  <2>3. /\ state' \in [Nodes -> {"UNUSED", "RUNNABLE", "ZOMBIE"}] /\ state'[z[c]] = "UNUSED"
        /\ \A t \in Nodes : t # z[c] => state'[t] = state[t]
    BY <1>0, <2>1, <2>2 DEF OwnInv, Shape
  <2>4. /\ next' \in [Nodes -> Nodes \cup {Null}]
        /\ \A t \in Nodes : next'[t] # Null => t # z[c] /\ next[t] # Null
    BY <2>1, <2>2, RingRemove DEF Ring
  <2>5. Shape' /\ SlotInv' /\ ZInv'
    BY <1>0, <1>3, <1>4, <2>1, <2>3, <2>4 DEF OwnInv, Shape, SlotInv, ZInv
  <2>6. UsedInv'
    BY <1>0, <2>3, <2>4 DEF OwnInv, Shape, UsedInv, OnRing
  <2>7. OfflineInv'
    BY <1>0, <1>3, <1>4, <2>1, <2>3, NodeFacts DEF OwnInv, OfflineInv
  <2> QED BY <1>5, <2>5, <2>6, <2>7 DEF OwnInv
<1> QED BY <1>6, <1>7, <1>8, <1>9
\* As long as the current threads are on the ring, none of them is a free slot.
LEMMA CurrentInUse ==
  ASSUME OwnInv, Defined, NEW c \in CPUs, current[c] # Null
  PROVE  state[current[c]] # "UNUSED"
BY DEF OwnInv, UsedInv, Defined

LEMMA OwnExit == ASSUME OwnInv, Defined, NEW c \in CPUs, worker_exit(c) PROVE OwnInv'
<1>0. /\ OwnInv /\ 0 \in CPUs /\ pc[c] = "work" /\ pc' = [pc EXCEPT ![c] = "zombie"]
      /\ state' = [state EXCEPT ![Me(c)] = "ZOMBIE"]
      /\ UNCHANGED <<next, affinity, token, current, yieldFrom, z, slot, ret>>
  BY NodeFacts DEF worker_exit, At, Goto, cpu, prog
<1>1. /\ Me(c) \in Nodes /\ current[c] = Me(c)
      /\ \A d \in CPUs : pc[d] = "offline" => Me(c) # d /\ d # c
  BY <1>0, Running
<1>2. /\ pc' \in [CPUs -> Labels \cup {"none"}] /\ pc'[c] = "zombie"
      /\ \A d \in CPUs : d # c => pc'[d] = pc[d]
  BY <1>0 DEF OwnInv, Shape, Labels
<1>3. /\ state' \in [Nodes -> {"UNUSED", "RUNNABLE", "ZOMBIE"}] /\ state'[Me(c)] = "ZOMBIE"
      /\ \A t \in Nodes : t # Me(c) => state'[t] = state[t]
  BY <1>0, <1>1 DEF OwnInv, Shape
<1>4. /\ Shape' /\ UsedInv' /\ ZInv' /\ ClaimExclusive' /\ AffinityRespected'
  BY <1>0, <1>2, <1>3
     DEF OwnInv, Shape, UsedInv, OnRing, ZInv, ClaimExclusive, AffinityRespected
<1>5. SlotInv'
  <2>1. state[Me(c)] # "UNUSED"
    BY <1>1, CurrentInUse, NodeFacts
  <2>2. \A t \in Slots : state[t] = "UNUSED" => state'[t] = "UNUSED"
    BY <1>3, <2>1, NodeFacts
  <2> QED BY <1>0, <1>2, <2>2 DEF OwnInv, SlotInv
<1>6. OfflineInv'
  <2>1. \A d \in CPUs : d \in Nodes
    BY NodeFacts DEF Main
  <2>2. \A d \in CPUs : /\ pc'[d] = "offline" => pc[d] = "offline"
                        /\ pc[d] = "offline" => pc'[d] = "offline" /\ state'[d] = state[d]
    BY <1>0, <1>1, <1>2, <1>3, <2>1
  <2> QED BY <1>0, <2>2 DEF OwnInv, OfflineInv
<1> QED BY <1>4, <1>5, <1>6 DEF OwnInv

LEMMA OwnOnline == ASSUME OwnInv, NEW c \in CPUs, thread_ap_online(c) PROVE OwnInv'
<1>0. /\ OwnInv /\ 0 \in CPUs /\ pc[c] = "offline" /\ pc' = [pc EXCEPT ![c] = "checkpoint"]
      /\ current' = [current EXCEPT ![c] = c] /\ token' = [token EXCEPT ![c] = c]
      /\ UNCHANGED <<next, state, affinity, yieldFrom, z, slot, ret>>
  BY NodeFacts DEF thread_ap_online, At, Goto, cpu, prog, Idle
<1>1. /\ c \in Slots /\ c \in Nodes /\ state[c] = "RUNNABLE" /\ affinity[c] = c
      /\ c # 0 /\ c # AnyCPU /\ current[c] = Null
  BY <1>0, NodeFacts DEF OwnInv, OfflineInv, AnyCPU, CPUs
<1>2. /\ pc' \in [CPUs -> Labels \cup {"none"}] /\ pc'[c] = "checkpoint"
      /\ \A d \in CPUs : d # c => pc'[d] = pc[d]
  BY <1>0 DEF OwnInv, Shape, Labels
<1>3. /\ token' \in [Nodes -> {-1} \cup CPUs] /\ token'[c] = c
      /\ \A t \in Nodes : t # c => token'[t] = token[t]
  BY <1>0, <1>1 DEF OwnInv, Shape
<1>4. /\ current' \in [CPUs -> Nodes \cup {Null}] /\ current'[c] = c
      /\ \A d \in CPUs : d # c => current'[d] = current[d]
  BY <1>0, <1>1 DEF OwnInv, Shape
<1>5. ClaimExclusive'
  <2> SUFFICES ASSUME NEW d \in CPUs, current'[d] # Null PROVE token'[current'[d]] = d
    BY DEF ClaimExclusive
  <2>1. CASE d = c
    BY <1>3, <1>4, <2>1
  <2>2. CASE d # c
    <3>1. /\ current[d] \in Nodes /\ token[current[d]] = d /\ current'[d] = current[d]
          /\ affinity[current[d]] \in {AnyCPU, d}
      BY <1>0, <1>4, <2>2 DEF OwnInv, Shape, ClaimExclusive, AffinityRespected
    <3>2. current[d] # c
      BY <1>1, <2>2, <3>1
    <3> QED BY <1>3, <3>1, <3>2
  <2> QED BY <2>1, <2>2
<1>6. Shape' /\ UsedInv' /\ SlotInv' /\ ZInv' /\ AffinityRespected'
  BY <1>0, <1>1, <1>2, <1>3, <1>4
     DEF OwnInv, Shape, UsedInv, OnRing, SlotInv, ZInv, AffinityRespected
<1>7. OfflineInv'
  <2> SUFFICES ASSUME NEW d \in CPUs
               PROVE  /\ current'[d] = Null <=> pc'[d] = "offline"
                      /\ pc'[d] = "offline" =>
                           /\ d # 0 /\ state[d] = "RUNNABLE" /\ affinity[d] = d
                           /\ yieldFrom # d /\ \A e \in CPUs : z[e] # d
    BY <1>0 DEF OfflineInv
  <2>1. CASE d = c
    BY <1>1, <1>2, <1>4, <2>1, NodeFacts
  <2>2. CASE d # c
    BY <1>0, <1>2, <1>4, <2>2 DEF OwnInv, OfflineInv
  <2> QED BY <2>1, <2>2
<1> QED BY <1>5, <1>6, <1>7 DEF OwnInv

LEMMA FreeSlot ==
  ASSUME Unused # {}
  PROVE  (CHOOSE t \in Unused : \A u \in Unused : t <= u) \in Unused
<1>1. Unused \in SUBSET Nat
  BY DEF Unused, Slots
<1>2. \E t \in Unused : \A u \in Unused : t <= u
  BY <1>1, Smallest, Zenon
<1> QED BY <1>2
LEMMA OwnSpawn ==
  ASSUME OwnInv, Defined,
         spawn_alloc_slot \/ spawn_kmalloc \/ spawn_fields \/ spawn_enqueue
  PROVE  OwnInv'
<1>0. /\ OwnInv /\ 0 \in CPUs /\ Slots \subseteq Nodes /\ Null \notin Nodes
      /\ pc[0] \in {"spawn", "spawn_kmalloc", "spawn_fields", "spawn_enqueue"}
      /\ UNCHANGED <<current, yieldFrom, z, ret>>
  BY NodeFacts DEF spawn_alloc_slot, spawn_kmalloc, spawn_fields, spawn_enqueue, At, cpu, prog
<1>1. PICK l \in {"spawn", "spawn_kmalloc", "spawn_fields", "spawn_enqueue"} :
        pc' = [pc EXCEPT ![0] = l]
  BY <1>0 DEF spawn_alloc_slot, spawn_kmalloc, spawn_fields, spawn_enqueue, Goto, OwnInv, Shape
<1>2. /\ pc' \in [CPUs -> Labels \cup {"none"}] /\ pc'[0] = l
      /\ \A d \in CPUs : d # 0 => pc'[d] = pc[d]
  BY <1>0, <1>1 DEF OwnInv, Shape, Labels
<1>3. ZInv'
  BY <1>0, <1>1, <1>2 DEF OwnInv, ZInv
<1>4. \A d \in CPUs : /\ pc'[d] = "offline" <=> pc[d] = "offline"
  BY <1>0, <1>1, <1>2
<1>5. CASE UNCHANGED <<next, state, affinity, token>> /\ SlotInv'
  <2>1. Shape' /\ UsedInv' /\ ClaimExclusive' /\ AffinityRespected'
    BY <1>0, <1>2, <1>5
       DEF OwnInv, Shape, UsedInv, OnRing, ClaimExclusive, AffinityRespected
  <2>2. OfflineInv'
    BY <1>0, <1>4, <1>5 DEF OwnInv, OfflineInv
  <2> QED BY <1>3, <1>5, <2>1, <2>2 DEF OwnInv
<1>6. CASE spawn_alloc_slot
  <2>1. UNCHANGED <<next, state, affinity, token>> /\ pc[0] = "spawn"
    BY <1>6 DEF spawn_alloc_slot, slots, At
  <2>2. CASE Unused = {}
    BY <1>0, <1>5, <1>6, <2>1, <2>2 DEF spawn_alloc_slot, SlotInv
  <2>3. CASE Unused # {}
    <3>1. slot' \in Unused
      BY <1>6, <2>3, FreeSlot DEF spawn_alloc_slot
    <3>2. slot' \in Slots /\ state'[slot'] = "UNUSED"
      BY <2>1, <3>1 DEF Unused
    <3> QED BY <1>5, <2>1, <3>2 DEF SlotInv
  <2> QED BY <2>2, <2>3
<1>7. CASE spawn_kmalloc
  <2>1. /\ UNCHANGED <<next, state, affinity, token, slot>> /\ pc[0] = "spawn_kmalloc"
        /\ pc'[0] # "spawn_enqueue"
    BY <1>0, <1>7 DEF spawn_kmalloc, prog, At, Goto, OwnInv, Shape
  <2>2. SlotInv'
    BY <1>0, <2>1 DEF OwnInv, SlotInv
  <2> QED BY <1>5, <2>1, <2>2
<1>8. CASE spawn_fields
  <2>1. /\ pc[0] = "spawn_fields" /\ UNCHANGED <<next, slot>> /\ pc'[0] = "spawn_enqueue"
        /\ state' = [state EXCEPT ![slot] = "RUNNABLE"]
        /\ affinity' = [affinity EXCEPT ![slot] = AnyCPU]
        /\ token' = [token EXCEPT ![slot] = -1]
    BY <1>0, <1>8 DEF spawn_fields, At, Goto, OwnInv, Shape
  <2>2. slot \in Slots /\ slot \in Nodes /\ state[slot] = "UNUSED"
    BY <1>0, <2>1 DEF OwnInv, SlotInv
  <2>3. \A c \in CPUs : current[c] # slot
    BY <1>0, <2>2, CurrentInUse
  <2>4. /\ state' \in [Nodes -> {"UNUSED", "RUNNABLE", "ZOMBIE"}]
        /\ \A t \in Nodes : t # slot => state'[t] = state[t]
    BY <1>0, <2>1, <2>2 DEF OwnInv, Shape
  <2>5. /\ affinity' \in [Nodes -> {AnyCPU} \cup CPUs]
        /\ \A t \in Nodes : t # slot => affinity'[t] = affinity[t]
    BY <1>0, <2>1, <2>2 DEF OwnInv, Shape
  <2>6. /\ token' \in [Nodes -> {-1} \cup CPUs]
        /\ \A t \in Nodes : t # slot => token'[t] = token[t]
    BY <1>0, <2>1, <2>2 DEF OwnInv, Shape
  <2>7. Shape' /\ SlotInv'
    BY <1>0, <1>2, <2>1, <2>2, <2>4, <2>5, <2>6 DEF OwnInv, Shape, SlotInv
  <2>8. UsedInv' /\ ClaimExclusive' /\ AffinityRespected'
    BY <1>0, <2>1, <2>3, <2>4, <2>5, <2>6
       DEF OwnInv, Shape, UsedInv, OnRing, ClaimExclusive, AffinityRespected
  <2>9. OfflineInv'
    <3>1. \A d \in CPUs : d \in Nodes
      BY NodeFacts DEF Main
    <3>2. \A d \in CPUs : pc[d] = "offline" =>
                            d # slot /\ state'[d] = state[d] /\ affinity'[d] = affinity[d]
      BY <1>0, <2>2, <2>4, <2>5, <3>1 DEF OwnInv, OfflineInv
    <3> QED BY <1>0, <1>4, <3>2 DEF OwnInv, OfflineInv
  <2> QED BY <1>3, <2>7, <2>8, <2>9 DEF OwnInv
<1>9. CASE spawn_enqueue
  <2>1. /\ pc[0] = "spawn_enqueue" /\ UNCHANGED <<state, affinity, token, slot>>
        /\ pc'[0] = "spawn" /\ enqueue_thread(slot)
    BY <1>0, <1>9 DEF spawn_enqueue, At, Goto, prog, OwnInv, Shape
  <2>2. slot \in Nodes /\ Main \in Nodes
    BY <1>0, <2>1, NodeFacts DEF OwnInv, SlotInv
  <2>3. next' \in [Nodes -> Nodes \cup {Null}]
    BY <1>0, <2>1, <2>2 DEF enqueue_thread, OwnInv, Shape
  <2>4. UsedInv'
    BY <1>0, <2>1, CurrentInUse DEF UsedInv
  <2>5. Shape' /\ SlotInv' /\ ClaimExclusive' /\ AffinityRespected'
    BY <1>0, <1>2, <2>1, <2>3
       DEF OwnInv, Shape, SlotInv, ClaimExclusive, AffinityRespected
  <2>6. OfflineInv'
    BY <1>0, <1>4, <2>1 DEF OwnInv, OfflineInv
  <2> QED BY <1>3, <2>4, <2>5, <2>6 DEF OwnInv
<1> QED BY <1>6, <1>7, <1>8, <1>9

LEMMA OwnStep ==
  ASSUME OwnInv, Defined, Ring, NEW c \in CPUs, Step(c)
  PROVE  OwnInv'
BY StepKinds, OwnQuiet, OwnClaim, OwnReap, OwnExit, OwnOnline, OwnSpawn DEF Loud
-----------------------------------------------------------------------------
(***************************************************************************)
(* The ring holds the threads in use.  This needs that no thread is reaped *)
(* while main makes it a new thread, which two CPUs cannot do: as long as  *)
(* main spawns, CPU 0 reaps nothing, and a zombie that one CPU has seen    *)
(* stays one.                                                              *)
(***************************************************************************)
Spawning == \/ spawned < Spawns
            \/ pc[0] \in {"spawn_kmalloc", "spawn_fields", "spawn_enqueue"}

InUse(t) == state[t] # "UNUSED" /\ ~ (At(0, "spawn_enqueue") /\ t = slot)

UseInv == \A t \in Slots : next[t] # Null <=> InUse(t)

SpawnInv ==
  /\ Spawning => pc[0] \in {"spawn", "spawn_kmalloc", "spawn_fields", "spawn_enqueue"}
  /\ pc[0] = "spawn_enqueue" => state[slot] = "RUNNABLE"

ReapInv == \A c \in CPUs : pc[c] = "reap_lock" => /\ state[z[c]] # "RUNNABLE"
                                                  /\ Spawning => state[z[c]] = "ZOMBIE"

RingInv == Ring /\ UseInv /\ SpawnInv /\ ReapInv

\* Outside thread_spawn a step does not change whether main still spawns.
LEMMA SpawningKept ==
  ASSUME OwnInv, SpawnInv, NEW c \in CPUs, NEW l,
         pc' = [pc EXCEPT ![c] = l], UNCHANGED <<spawned, slot>>,
         l \notin {"spawn_kmalloc", "spawn_fields", "spawn_enqueue"},
         c = 0 => ~ Spawning \/ (pc[0] = "spawn" /\ spawned = Spawns)
  PROVE  /\ Spawning' => Spawning /\ pc'[0] = pc[0] /\ c # 0
         /\ At(0, "spawn_enqueue")' <=> At(0, "spawn_enqueue")
         /\ At(0, "spawn_enqueue") => c # 0
         /\ pc'[c] = l /\ \A d \in CPUs : d # c => pc'[d] = pc[d]
<1>1. 0 \in CPUs /\ Spawns \in Nat
  BY NodeFacts, ThreadsAssumption
<1>2. pc'[c] = l /\ \A d \in CPUs : d # c => pc'[d] = pc[d]
  BY DEF OwnInv, Shape
<1>3. CASE c = 0
  <2>1. pc'[0] = l /\ ~ (spawned < Spawns) /\ pc[0] # "spawn_enqueue"
    BY <1>1, <1>2, <1>3 DEF Spawning
  <2> QED BY <1>1, <1>2, <1>3, <2>1 DEF Spawning, At
<1>4. CASE c # 0
  <2>1. pc'[0] = pc[0]
    BY <1>1, <1>2, <1>4
  <2> QED BY <1>2, <1>4, <2>1 DEF Spawning, At
<1> QED BY <1>3, <1>4

\* A step that leaves the ring and the states alone.
LEMMA RingKept ==
  ASSUME OwnInv, RingInv, NEW c \in CPUs, NEW l,
         pc' = [pc EXCEPT ![c] = l], UNCHANGED <<next, state, spawned, slot>>,
         l \notin {"spawn_kmalloc", "spawn_fields", "spawn_enqueue"},
         c = 0 => ~ Spawning \/ (pc[0] = "spawn" /\ spawned = Spawns),
         \A d \in CPUs : d # c => z'[d] = z[d],
         l = "reap_lock" => state[z'[c]] = "ZOMBIE"
  PROVE  RingInv'
<1>1. /\ Spawning' => Spawning /\ pc'[0] = pc[0] /\ c # 0
      /\ At(0, "spawn_enqueue")' <=> At(0, "spawn_enqueue")
      /\ pc'[c] = l /\ \A d \in CPUs : d # c => pc'[d] = pc[d]
  BY SpawningKept DEF RingInv
<1>2. Ring' /\ UseInv'
  BY <1>1 DEF RingInv, Ring, Closed, UseInv, InUse
<1>3. SpawnInv'
  BY <1>1 DEF RingInv, SpawnInv, At
<1>4. ReapInv'
  BY <1>1 DEF RingInv, ReapInv
<1> QED BY <1>2, <1>3, <1>4 DEF RingInv

LEMMA RingUnlink ==
  ASSUME NCPU <= 2, OwnInv, RingInv, NEW c \in CPUs, reap_unlink(c)
  PROVE  RingInv'
<1>0. /\ pc[c] = "reap_lock" /\ pc' = [pc EXCEPT ![c] = "reap_stack"]
      /\ UNCHANGED <<spawned, slot, z>> /\ unlink_thread(z[c])
      /\ state' = [state EXCEPT ![z[c]] = "UNUSED"]
  BY DEF reap_unlink, At, Goto, cpu, prog
<1>1. z[c] \in Slots /\ z[c] \in Nodes /\ Slots \subseteq Nodes
  BY <1>0, NodeFacts DEF OwnInv, ZInv
<1>2. c = 0 => ~ Spawning
  BY <1>0 DEF RingInv, SpawnInv
<1>3. /\ Spawning' => Spawning /\ pc'[0] = pc[0] /\ c # 0
      /\ At(0, "spawn_enqueue")' <=> At(0, "spawn_enqueue")
      /\ At(0, "spawn_enqueue") => c # 0
      /\ pc'[c] = "reap_stack" /\ \A d \in CPUs : d # c => pc'[d] = pc[d]
  BY <1>0, <1>2, SpawningKept DEF RingInv
<1>4. /\ state'[z[c]] = "UNUSED" /\ \A t \in Nodes : t # z[c] => state'[t] = state[t]
  BY <1>0, <1>1 DEF OwnInv, Shape
<1>5. Ring' /\ \A u \in Nodes : next'[u] # Null <=> u # z[c] /\ next[u] # Null
  BY <1>0, <1>1, RingRemove DEF RingInv
<1>6. UseInv'
  BY <1>0, <1>1, <1>3, <1>4, <1>5 DEF RingInv, UseInv, InUse
<1>7. At(0, "spawn_enqueue") => slot \in Slots /\ slot # z[c]
  <2>1. At(0, "spawn_enqueue") => Spawning /\ state[slot] = "RUNNABLE" /\ slot \in Slots
    BY DEF At, Spawning, RingInv, SpawnInv, OwnInv, SlotInv
  <2> QED BY <1>0, <2>1 DEF RingInv, ReapInv
<1>8. SpawnInv'
  <2>1. At(0, "spawn_enqueue") => state'[slot] = "RUNNABLE"
    BY <1>1, <1>4, <1>7 DEF RingInv, SpawnInv, At
  <2> QED BY <1>0, <1>3, <2>1 DEF RingInv, SpawnInv, At
<1>9. ReapInv'
  <2> SUFFICES ASSUME NEW d \in CPUs, pc'[d] = "reap_lock"
               PROVE  state'[z[d]] # "RUNNABLE" /\ (Spawning' => state'[z[d]] = "ZOMBIE")
    BY <1>0 DEF ReapInv
  <2>1. d # c /\ pc[d] = "reap_lock" /\ z[d] \in Nodes
    BY <1>1, <1>3 DEF OwnInv, ZInv
  <2>2. state[z[d]] # "RUNNABLE"
    BY <2>1 DEF RingInv, ReapInv
  <2>3. ~ Spawning'
    <3> SUFFICES ASSUME Spawning' PROVE FALSE
      OBVIOUS
    <3>1. c # 0 /\ d # 0
      BY <1>3, <2>1 DEF RingInv, SpawnInv
    <3> QED BY <2>1, <3>1, NodeFacts DEF CPUs
  <2> QED BY <1>4, <2>1, <2>2, <2>3
<1> QED BY <1>5, <1>6, <1>8, <1>9 DEF RingInv
LEMMA RingExit ==
  ASSUME OwnInv, RingInv, Defined, NEW c \in CPUs, worker_exit(c)
  PROVE  RingInv'
<1>0. /\ pc[c] = "work" /\ pc' = [pc EXCEPT ![c] = "zombie"]
      /\ UNCHANGED <<next, spawned, slot, z>>
      /\ state' = [state EXCEPT ![Me(c)] = "ZOMBIE"]
  BY DEF worker_exit, At, Goto, cpu, prog
<1>1. Me(c) \in Nodes /\ current[c] = Me(c) /\ state[Me(c)] # "UNUSED" /\ next[Me(c)] # Null
  BY <1>0, Running, CurrentInUse, NodeFacts DEF Defined, OnRing
<1>2. c = 0 => ~ Spawning
  BY <1>0 DEF RingInv, SpawnInv
<1>3. /\ Spawning' => Spawning /\ pc'[0] = pc[0] /\ c # 0
      /\ At(0, "spawn_enqueue")' <=> At(0, "spawn_enqueue")
      /\ pc'[c] = "zombie" /\ \A d \in CPUs : d # c => pc'[d] = pc[d]
  BY <1>0, <1>2, SpawningKept DEF RingInv
<1>4. /\ state'[Me(c)] = "ZOMBIE" /\ \A t \in Nodes : t # Me(c) => state'[t] = state[t]
  BY <1>0, <1>1 DEF OwnInv, Shape
<1>5. At(0, "spawn_enqueue") => slot \in Slots /\ Me(c) # slot
  BY <1>1 DEF OwnInv, SlotInv, RingInv, UseInv, InUse, At
<1>6. Ring'
  BY <1>0 DEF RingInv, Ring, Closed
<1>7. UseInv'
  BY <1>0, <1>1, <1>3, <1>4, NodeFacts DEF RingInv, UseInv, InUse
<1>8. SpawnInv'
  <2>1. At(0, "spawn_enqueue") => state'[slot] = "RUNNABLE"
    BY <1>4, <1>5, NodeFacts DEF RingInv, SpawnInv, At
  <2> QED BY <1>0, <1>3, <2>1 DEF RingInv, SpawnInv, At
<1>9. ReapInv'
  <2> SUFFICES ASSUME NEW d \in CPUs, pc'[d] = "reap_lock"
               PROVE  state'[z[d]] # "RUNNABLE" /\ (Spawning' => state'[z[d]] = "ZOMBIE")
    BY <1>0 DEF ReapInv
  <2>1. pc[d] = "reap_lock" /\ z[d] \in Nodes
    BY <1>3, NodeFacts DEF OwnInv, ZInv
  <2> QED BY <1>3, <1>4, <2>1 DEF RingInv, ReapInv
<1> QED BY <1>6, <1>7, <1>8, <1>9 DEF RingInv

LEMMA RingSpawn ==
  ASSUME OwnInv, RingInv,
         spawn_alloc_slot \/ spawn_kmalloc \/ spawn_fields \/ spawn_enqueue
  PROVE  RingInv'
<1>0. /\ 0 \in CPUs /\ Slots \subseteq Nodes /\ UNCHANGED z /\ Spawning
      /\ pc[0] \in {"spawn", "spawn_kmalloc", "spawn_fields", "spawn_enqueue"}
  BY NodeFacts DEF spawn_alloc_slot, spawn_kmalloc, spawn_fields, spawn_enqueue, At, cpu, Spawning
<1>1. PICK l \in {"spawn", "spawn_kmalloc", "spawn_fields", "spawn_enqueue"} :
        pc' = [pc EXCEPT ![0] = l]
  BY <1>0 DEF spawn_alloc_slot, spawn_kmalloc, spawn_fields, spawn_enqueue, Goto, OwnInv, Shape
<1>2. pc'[0] = l /\ \A d \in CPUs : d # 0 => pc'[d] = pc[d]
  BY <1>0, <1>1 DEF OwnInv, Shape
<1>3. \A d \in CPUs : pc'[d] = "reap_lock" => pc[d] = "reap_lock"
  BY <1>1, <1>2
<1>4. CASE UNCHANGED <<next, state>> /\ pc[0] # "spawn_enqueue" /\ pc'[0] # "spawn_enqueue"
  <2>1. Ring' /\ UseInv'
    BY <1>4 DEF RingInv, Ring, Closed, UseInv, InUse, At
  <2>2. SpawnInv'
    BY <1>1, <1>2, <1>4 DEF SpawnInv
  <2>3. ReapInv'
    BY <1>0, <1>3, <1>4 DEF RingInv, ReapInv
  <2> QED BY <2>1, <2>2, <2>3 DEF RingInv
<1>5. CASE spawn_alloc_slot \/ spawn_kmalloc
  <2>1. UNCHANGED <<next, state>> /\ pc[0] # "spawn_enqueue"
    BY <1>5 DEF spawn_alloc_slot, spawn_kmalloc, slots, At
  <2>2. pc'[0] # "spawn_enqueue"
    BY <1>0, <1>5 DEF spawn_alloc_slot, spawn_kmalloc, At, Goto, OwnInv, Shape
  <2> QED BY <1>4, <2>1, <2>2
<1>6. CASE spawn_fields
  <2>1. /\ pc[0] = "spawn_fields" /\ pc'[0] = "spawn_enqueue" /\ UNCHANGED <<next, slot>>
        /\ state' = [state EXCEPT ![slot] = "RUNNABLE"]
    BY <1>0, <1>6 DEF spawn_fields, At, Goto, OwnInv, Shape
  <2>2. slot \in Slots /\ slot \in Nodes /\ state[slot] = "UNUSED" /\ next[slot] = Null
    BY <1>0, <2>1 DEF OwnInv, SlotInv, RingInv, UseInv, InUse
  <2>3. state'[slot] = "RUNNABLE" /\ \A t \in Nodes : t # slot => state'[t] = state[t]
    BY <2>1, <2>2 DEF OwnInv, Shape
  <2>4. Ring'
    BY <2>1 DEF RingInv, Ring, Closed
  <2>5. UseInv'
    BY <1>0, <2>1, <2>2, <2>3 DEF RingInv, UseInv, InUse, At
  <2>6. SpawnInv'
    BY <2>1, <2>3 DEF SpawnInv
  <2>7. ReapInv'
    <3> SUFFICES ASSUME NEW d \in CPUs, pc'[d] = "reap_lock"
                 PROVE  state'[z[d]] # "RUNNABLE" /\ (Spawning' => state'[z[d]] = "ZOMBIE")
      BY <1>0 DEF ReapInv
    <3>1. z[d] \in Nodes /\ state[z[d]] = "ZOMBIE"
      BY <1>0, <1>3 DEF OwnInv, ZInv, RingInv, ReapInv
    <3> QED BY <2>2, <2>3, <3>1
  <2> QED BY <2>4, <2>5, <2>6, <2>7 DEF RingInv
<1>7. CASE spawn_enqueue
  <2>1. /\ pc[0] = "spawn_enqueue" /\ pc'[0] = "spawn" /\ UNCHANGED <<state, slot>>
        /\ enqueue_thread(slot)
    BY <1>0, <1>7 DEF spawn_enqueue, At, Goto, prog, OwnInv, Shape
  <2>2. slot \in Slots /\ state[slot] = "RUNNABLE" /\ next[slot] = Null
    BY <2>1 DEF OwnInv, SlotInv, RingInv, SpawnInv, UseInv, InUse, At
  <2>3. Ring' /\ \A u \in Nodes : next'[u] # Null <=> u = slot \/ next[u] # Null
    BY <2>1, <2>2, RingInsert DEF RingInv
  <2>4. UseInv'
    BY <1>0, <2>1, <2>2, <2>3 DEF RingInv, UseInv, InUse, At
  <2>5. SpawnInv'
    BY <2>1 DEF SpawnInv
  <2>6. ReapInv'
    BY <1>0, <1>3, <2>1 DEF RingInv, ReapInv
  <2> QED BY <2>3, <2>4, <2>5, <2>6 DEF RingInv
<1> QED BY <1>5, <1>6, <1>7
LEMMA RingStep ==
  ASSUME NCPU <= 2, OwnInv, RingInv, Defined, NEW c \in CPUs, Step(c)
  PROVE  RingInv'
<1>1. CASE Quiet(c)
  <2>1. PICK l \in Plain : pc' = [pc EXCEPT ![c] = l]
    BY <1>1 DEF Quiet
  <2>2. l \notin {"spawn_kmalloc", "spawn_fields", "spawn_enqueue", "reap_lock"}
    BY DEF Plain
  <2>3. c = 0 => ~ Spawning \/ (pc[0] = "spawn" /\ spawned = Spawns)
    BY <1>1 DEF Quiet, RingInv, SpawnInv
  <2>4. UNCHANGED <<next, state, spawned, slot, z>>
    BY <1>1 DEF Quiet
  <2> QED BY <2>1, <2>2, <2>3, <2>4, RingKept
<1>2. CASE yield_claim(c) \/ reap_read(c) \/ reap_null(c) \/ reap_check(c) \/ thread_ap_online(c)
  <2>1. /\ UNCHANGED <<next, state, spawned, slot>>
        /\ pc[c] \in {"pick", "reap", "reap_null", "reap_check", "offline"}
        /\ \A d \in CPUs : d # c => z'[d] = z[d]
    BY <1>2 DEF yield_claim, reap_read, reap_null, reap_check, thread_ap_online,
                slots, cpu, prog, At, OwnInv, Shape
  <2>2. c = 0 => ~ Spawning
    BY <2>1 DEF RingInv, SpawnInv
  <2>3. pc[c] # "offline" => ret[Me(c)] \in Plain
    <3>1. pc[c] # "offline" => Me(c) \in Nodes
      BY Running
    <3> QED BY <3>1 DEF OwnInv, Shape, Back, Plain, Labels
  <2>4. \E l \in {"switch", "reap_null", "checkpoint", "reap_check", "reap_lock"} \cup Plain :
             /\ pc' = [pc EXCEPT ![c] = l]
             /\ l = "reap_lock" => state[z'[c]] = "ZOMBIE"
    <3>1. CASE yield_claim(c)
      <4>1. pc' = [pc EXCEPT ![c] = "switch"]
        BY <3>1 DEF yield_claim, Goto
      <4>2. "switch" # "reap_lock" /\ "switch" \in {"switch", "reap_null", "checkpoint", "reap_check", "reap_lock"} \cup Plain
        OBVIOUS
      <4> QED BY <4>1, <4>2, Zenon
    <3>2. CASE reap_read(c)
      <4>1. pc' = [pc EXCEPT ![c] = "reap_null"]
        BY <3>2 DEF reap_read, Goto
      <4>2. "reap_null" # "reap_lock" /\ "reap_null" \in {"switch", "reap_null", "checkpoint", "reap_check", "reap_lock"} \cup Plain
        OBVIOUS
      <4> QED BY <4>1, <4>2, Zenon
    <3>3. CASE reap_null(c)
      <4>1. \/ pc' = [pc EXCEPT ![c] = "reap_check"]
            \/ pc' = [pc EXCEPT ![c] = ret[Me(c)]] /\ ret[Me(c)] \in Plain
        BY <2>3, <3>3 DEF reap_null, Goto, At
      <4>2. ret[Me(c)] \in Plain => ret[Me(c)] # "reap_lock"
        BY DEF Plain
      <4> QED BY <4>1, <4>2
    <3>4. CASE reap_check(c)
      BY <2>3, <3>4 DEF reap_check, Goto, At, Plain
    <3>5. CASE thread_ap_online(c)
      <4>1. pc' = [pc EXCEPT ![c] = "checkpoint"]
        BY <3>5 DEF thread_ap_online, Goto
      <4>2. "checkpoint" # "reap_lock" /\ "checkpoint" \in {"switch", "reap_null", "checkpoint", "reap_check", "reap_lock"} \cup Plain
        OBVIOUS
      <4> QED BY <4>1, <4>2, Zenon
    <3> QED BY <1>2, <3>1, <3>2, <3>3, <3>4, <3>5
  <2>5. \A l \in {"switch", "reap_null", "checkpoint", "reap_check", "reap_lock"} \cup Plain :
             l \notin {"spawn_kmalloc", "spawn_fields", "spawn_enqueue"}
    BY DEF Plain
  <2> QED BY <2>1, <2>2, <2>4, <2>5, RingKept
<1> QED BY <1>1, <1>2, StepKinds, RingUnlink, RingExit, RingSpawn DEF Loud

-----------------------------------------------------------------------------
ThreadsInv == OwnInv /\ RingInv

LEMMA ThreadsInit == ASSUME NCPU <= 2, Init PROVE ThreadsInv
<1>0. /\ NCPU \in {1, 2} /\ CPUs = 0 .. NCPU - 1 /\ Main = 0
      /\ IdleSlots = IF NCPU = 1 THEN {} ELSE {1}
      /\ Null \notin Nodes /\ Main \in Nodes /\ 0 \in CPUs
      /\ \A c \in CPUs \ {0} : c \in Slots /\ c = 1
      /\ CPUs \subseteq Nodes /\ 0 \notin Slots /\ Slots \subseteq Nodes
  BY NodeFacts DEF CPUs, Main, IdleSlots, Idle
<1>1. Shape
  BY <1>0 DEF Init, Shape, Back, Labels, AnyCPU
<1>2. /\ UsedInv /\ SlotInv /\ ZInv /\ ClaimExclusive /\ AffinityRespected
  BY <1>0 DEF Init, UsedInv, SlotInv, ZInv, ClaimExclusive, AffinityRespected
<1>3. OfflineInv
  BY <1>0 DEF Init, OfflineInv
<1>4. Ring
  <2>1. /\ next \in [Nodes -> Nodes \cup {Null}]
        /\ \A t \in Nodes : next[t] = IF t = 0 THEN NCPU - 1
                                      ELSE IF NCPU = 2 /\ t = 1 THEN 0 ELSE Null
        /\ NCPU = 2 => 1 \in Nodes
    BY <1>0 DEF Init
  <2> QED BY <1>0, <2>1 DEF Ring, Closed
<1>5. UseInv
  <2> SUFFICES ASSUME NEW t \in Slots PROVE next[t] # Null <=> InUse(t)
    BY DEF UseInv
  <2>1. pc[0] = "spawn" /\ t # Main /\ t \in Nodes
    BY <1>0 DEF Init
  <2>2. state[t] # "UNUSED" <=> t \in IdleSlots
    BY <2>1 DEF Init
  <2>3. next[t] # Null <=> t \in IdleSlots
    BY <1>0, <2>1 DEF Init
  <2> QED BY <2>1, <2>2, <2>3 DEF InUse, At
<1>6. SpawnInv /\ ReapInv
  BY <1>0 DEF Init, SpawnInv, ReapInv
<1> QED BY <1>1, <1>2, <1>3, <1>4, <1>5, <1>6 DEF ThreadsInv, OwnInv, RingInv

LEMMA ThreadsStep == ASSUME NCPU <= 2, ThreadsInv, [Next]_vars PROVE ThreadsInv'
<1>1. CASE Next
  BY <1>1, OwnStep, RingStep DEF Next, ThreadsInv, RingInv
<1>2. CASE UNCHANGED vars
  BY <1>2 DEF vars, slots, cpu, prog, ThreadsInv, OwnInv, Shape, UsedInv, OnRing, SlotInv,
     ZInv, OfflineInv, ClaimExclusive, AffinityRespected, RingInv, Ring, Closed, UseInv,
     InUse, At, SpawnInv, Spawning, ReapInv
<1> QED BY <1>1, <1>2

LEMMA ThreadsInvariant == ASSUME NCPU <= 2 PROVE Spec => []ThreadsInv
<1>1. Init => ThreadsInv
  BY ThreadsInit
<1>2. ThreadsInv /\ [Next]_vars => ThreadsInv'
  BY ThreadsStep
<1> QED BY <1>1, <1>2, PTL DEF Spec

\* A thread that a CPU has claimed through sched_token is that CPU's until it
\* lets go of it: no other CPU runs it, however the accesses that the lock
\* does not cover interleave.
THEOREM ClaimSafe == ASSUME NCPU <= 2 PROVE Spec => []ClaimExclusive
<1>1. ThreadsInv => ClaimExclusive
  BY DEF ThreadsInv, OwnInv
<1> QED BY <1>1, ThreadsInvariant, PTL

\* No CPU runs a thread that is bound to another one.
THEOREM AffinitySafe == ASSUME NCPU <= 2 PROVE Spec => []AffinityRespected
<1>1. ThreadsInv => AffinityRespected
  BY DEF ThreadsInv, OwnInv
<1> QED BY <1>1, ThreadsInvariant, PTL

LEMMA WalksRing == ThreadsInv => RingIntact
<1> SUFFICES ASSUME ThreadsInv PROVE RingIntact
  OBVIOUS
<1> DEFINE seen == { Walk(Main)[k] : k \in DOMAIN Walk(Main) }
<1>1. Main \in seen /\ seen = { t \in Nodes : next[t] # Null }
  BY RingWalk DEF ThreadsInv, RingInv
<1> HIDE DEF seen
<1>2. \A t \in Slots : t \in seen <=> InUse(t)
  BY <1>1, NodeFacts DEF ThreadsInv, RingInv, UseInv
<1> QED BY <1>1, <1>2 DEF RingIntact, InUse, seen

LEMMA ReachesAll == ThreadsInv => NobodyMissed
<1>1. ASSUME Ring, NEW me \in Nodes, next[me] # Null, NEW c
      PROVE  IF \E t \in Nodes \ {me} : OnRing(t) /\ Runnable(c, t)
             THEN \E t \in Nodes \ {me} : pick_next(c, me, t)
             ELSE pick_next(c, me, me)
  <2> DEFINE W == Walk(me)
             stop(u) == u \in {me, Null} \/ Runnable(c, u)
  <2>1. \A k \in DOMAIN W : W[k] \in Nodes /\ OnRing(W[k]) /\ W[k] # Null
    BY <1>1, RingRound, NodeFacts DEF OnRing
  <2>2. PICK n \in DOMAIN W :
          /\ W[n] = me
          /\ \A j \in 1 .. n - 1 : W[j] # me
          /\ \A t \in Nodes : OnRing(t) => \E k \in 1 .. n : W[k] = t
    BY <1>1, RingRound DEF OnRing
  <2>3. n \in Nat /\ \A k \in 1 .. n : k \in Nat /\ k \in DOMAIN W
    <3>1. DOMAIN W = 1 .. MaxThreads + 1 /\ MaxThreads \in Nat
      BY <1>1, WalkSteps, NodeFacts, Zenon DEF Ring
    <3> QED BY <3>1, <2>2
  <2>4. \A t : pick_next(c, me, t) <=> \E k \in DOMAIN W :
            /\ W[k] = t /\ stop(t)
            /\ \A j \in 1 .. k - 1 : ~ stop(W[j])
    BY DEF pick_next
  <2> HIDE DEF W
  <2>5. CASE \E t \in Nodes \ {me} : OnRing(t) /\ Runnable(c, t)
    <3>1. PICK t \in Nodes \ {me} : OnRing(t) /\ Runnable(c, t)
      BY <2>5
    <3>2. PICK i \in 1 .. n : W[i] = t
      BY <2>2, <3>1
    <3> DEFINE S == { k \in 1 .. n : stop(W[k]) }
    <3>3. i \in S /\ S \in SUBSET Nat
      BY <2>3, <3>1, <3>2
    <3>4. PICK k \in S : \A m \in S : k <= m
      <4> HIDE DEF S
      <4> QED BY <3>3, Smallest
    <3>5. k <= i /\ i # n /\ k \in 1 .. n - 1
      BY <2>2, <2>3, <3>1, <3>2, <3>3, <3>4
    <3>6. \A j \in 1 .. k - 1 : ~ stop(W[j])
      <4> SUFFICES ASSUME NEW j \in 1 .. k - 1, stop(W[j]) PROVE FALSE
        OBVIOUS
      <4>1. j \in S /\ j < k
        BY <2>3, <3>4
      <4> QED BY <2>3, <3>4, <4>1
    <3>7. W[k] \in Nodes \ {me} /\ pick_next(c, me, W[k])
      BY <2>1, <2>2, <2>3, <2>4, <3>4, <3>5, <3>6
    <3> QED BY <2>5, <3>7
  <2>6. CASE ~ \E t \in Nodes \ {me} : OnRing(t) /\ Runnable(c, t)
    <3>1. \A j \in 1 .. n - 1 : ~ stop(W[j])
      <4> SUFFICES ASSUME NEW j \in 1 .. n - 1 PROVE ~ stop(W[j])
        OBVIOUS
      <4>1. j \in DOMAIN W /\ W[j] # me
        BY <2>2, <2>3
      <4> QED BY <2>1, <2>6, <4>1
    <3> QED BY <2>2, <2>4, <2>6, <3>1
  <2> QED BY <2>5, <2>6
<1>2. ThreadsInv => NobodyMissed
  <2> SUFFICES ASSUME ThreadsInv, NEW c \in CPUs, Defined, At(c, "pick")
               PROVE  IF \E t \in Nodes \ {Me(c)} : OnRing(t) /\ Runnable(c, t)
                      THEN \E t \in Nodes \ {Me(c)} : pick_next(c, Me(c), t)
                      ELSE pick_next(c, Me(c), Me(c))
    BY DEF NobodyMissed
  <2>1. Me(c) \in Nodes /\ current[c] = Me(c)
    BY Running DEF ThreadsInv, At
  <2>2. next[Me(c)] # Null
    BY <2>1, NodeFacts DEF Defined, OnRing
  <2> QED BY <1>1, <2>1, <2>2 DEF ThreadsInv, RingInv
<1> QED BY <1>2

\* The ring closes at main and holds exactly the threads in use, whatever was
\* enqueued, unlinked and reused, for any number of slots and spawns.
THEOREM RingSafe == ASSUME NCPU <= 2 PROVE Spec => []RingIntact
BY WalksRing, ThreadsInvariant, PTL

\* Whoever yields is given another thread as long as one on the ring can be
\* claimed, wherever the two are, and itself otherwise: pick_next.
THEOREM EveryoneReached == ASSUME NCPU <= 2 PROVE Spec => []NobodyMissed
BY ReachesAll, ThreadsInvariant, PTL
-----------------------------------------------------------------------------
(***************************************************************************)
(* One CPU: every thread in use has a stack of its own, the CPU is on the  *)
(* stack of the thread that runs, and every stack is in one place.  The    *)
(* thread that runs is the one that was claimed, except between the claim  *)
(* and cpu_switch.                                                         *)
(***************************************************************************)
Elems(f) == { f[i] : i \in DOMAIN f }
Distinct(f) == \A i, j \in DOMAIN f : f[i] = f[j] => i = j

LEMMA Push ==
  ASSUME NEW S, NEW f \in Seq(S), NEW s \in S, Distinct(f), s \notin Elems(f)
  PROVE  /\ << s >> \o f \in Seq(S)
         /\ Elems(<< s >> \o f) = Elems(f) \cup {s}
         /\ Distinct(<< s >> \o f)
<1> DEFINE g == << s >> \o f
<1>1. /\ g \in Seq(S) /\ DOMAIN g = 1 .. Len(f) + 1 /\ DOMAIN f = 1 .. Len(f)
      /\ Len(f) \in Nat
      /\ \A i \in 1 .. Len(f) + 1 : g[i] = IF i = 1 THEN s ELSE f[i - 1]
  OBVIOUS
<1> HIDE DEF g
<1>2. g[1] = s /\ \A i \in DOMAIN f : i + 1 \in DOMAIN g /\ g[i + 1] = f[i]
  BY <1>1
<1>3. \A i \in DOMAIN g : i # 1 => i - 1 \in DOMAIN f /\ g[i] = f[i - 1]
  BY <1>1
<1>4. Elems(g) = Elems(f) \cup {s}
  <2>1. ASSUME NEW i \in DOMAIN g PROVE g[i] \in Elems(f) \cup {s}
    BY <1>2, <1>3 DEF Elems
  <2>2. 1 \in DOMAIN g
    BY <1>1
  <2>3. s \in Elems(g)
    BY <1>2, <2>2 DEF Elems
  <2>4. ASSUME NEW i \in DOMAIN f PROVE f[i] \in Elems(g)
    BY <1>2 DEF Elems
  <2>5. Elems(g) \subseteq Elems(f) \cup {s}
    BY <2>1 DEF Elems
  <2>6. Elems(f) \subseteq Elems(g)
    BY <2>4 DEF Elems
  <2> QED BY <2>3, <2>5, <2>6
<1>5. Distinct(g)
  <2> SUFFICES ASSUME NEW i \in DOMAIN g, NEW j \in DOMAIN g, g[i] = g[j] PROVE i = j
    BY DEF Distinct
  <2>1. i \in Nat /\ j \in Nat
    BY <1>1
  <2>2. CASE i = 1 \/ j = 1
    BY <1>2, <1>3, <2>2 DEF Elems
  <2>3. CASE i # 1 /\ j # 1
    BY <1>3, <2>1, <2>3 DEF Distinct
  <2> QED BY <2>2, <2>3
<1> QED BY <1>1, <1>4, <1>5 DEF g

LEMMA Pop ==
  ASSUME NEW S, NEW f \in Seq(S), f # << >>, Distinct(f)
  PROVE  /\ Head(f) \in S /\ Head(f) \in Elems(f) /\ Tail(f) \in Seq(S)
         /\ Elems(Tail(f)) = Elems(f) \ {Head(f)}
         /\ Distinct(Tail(f))
<1> DEFINE g == Tail(f)
<1>1. /\ g \in Seq(S) /\ DOMAIN g = 1 .. Len(f) - 1 /\ DOMAIN f = 1 .. Len(f)
      /\ Len(f) \in Nat \ {0} /\ Head(f) = f[1] /\ Head(f) \in S
      /\ \A i \in 1 .. Len(f) - 1 : g[i] = f[i + 1]
  OBVIOUS
<1> HIDE DEF g
<1>2. \A i \in DOMAIN g : i + 1 \in DOMAIN f /\ g[i] = f[i + 1] /\ i + 1 # 1 /\ i \in Nat
  BY <1>1
<1>3. \A i \in DOMAIN f : i # 1 => i - 1 \in DOMAIN g /\ g[i - 1] = f[i]
  BY <1>1
<1>4. 1 \in DOMAIN f
  BY <1>1
<1>5. Elems(g) = Elems(f) \ {Head(f)}
  <2>1. Elems(g) \subseteq Elems(f) \ {Head(f)}
    BY <1>1, <1>2, <1>4 DEF Elems, Distinct
  <2>2. Elems(f) \ {Head(f)} \subseteq Elems(g)
    BY <1>1, <1>3 DEF Elems
  <2> QED BY <2>1, <2>2
<1>6. Distinct(g)
  BY <1>2 DEF Distinct
<1> QED BY <1>1, <1>4, <1>5, <1>6 DEF g, Elems

\* The thread whose stack the CPU is on.
Runs == IF pc[0] = "switch" THEN old[0] ELSE current[0]

Home(t) == IF t = Main THEN Boot(0) ELSE kstack[t]

StackTypes ==
  /\ kstack \in [Nodes -> Stacks \cup {Null}]
  /\ esp \in [Nodes -> [on : AllStacks \cup {Null}, fresh : BOOLEAN]]
  /\ free \in Seq(Stacks) /\ bump \in 0 .. NStacks
  /\ stack \in [CPUs -> AllStacks \cup {Null}]
  /\ old \in [CPUs -> Nodes \cup {Null}]
  /\ new \in [CPUs -> Nodes \cup {Null}]
  /\ stk \in [CPUs -> Stacks \cup {Null}]

\* Who runs, and on which stack each of the others will go on.
RunInv ==
  /\ pc[0] = "switch" => old[0] \in Nodes \ {current[0]} /\ new[0] = current[0]
  /\ \A t \in {Main, Runs, current[0]} : state[t] # "UNUSED"
  /\ stack[0] = Home(Runs)
  /\ \A t \in Nodes \ {Runs} : state[t] # "UNUSED" => esp[t].on = Home(t)

\* thread_reap_yield_from takes a thread that does not run, and its stack.
ZombieInv ==
  /\ yieldFrom # current[0]
  /\ pc[0] \in {"reap_null", "reap_check", "reap_lock", "reap_stack"} => z[0] # current[0]
  /\ pc[0] \in {"reap_lock", "reap_stack"} => z[0] \in Slots /\ stk[0] = kstack[z[0]]
  /\ pc[0] \in {"reap_lock", "reap_stack", "reap_free"} => stk[0] \in Stacks
  /\ pc[0] = "reap_stack" => state[z[0]] = "UNUSED"

\* Only main is in thread_demo_run.
MainLabels == {"spawn", "spawn_kmalloc", "spawn_fields", "spawn_enqueue", "halt"}

CallerInv == /\ pc[0] \in MainLabels => current[0] = Main
             /\ \A t \in Slots : ret[t] # "spawn"

\* A slot has a stack while it is in use, and a little longer at both ends.
Held(t) == \/ state[t] # "UNUSED"
           \/ pc[0] = "reap_stack" /\ t = z[0]
           \/ pc[0] = "spawn_fields" /\ t = slot

Freeing(s) == pc[0] = "reap_free" /\ stk[0] = s

PlaceInv ==
  /\ \A t \in Slots : Held(t) <=> kstack[t] # Null
  /\ \A t, u \in Slots : kstack[t] = kstack[u] /\ kstack[t] # Null => t = u
  /\ Distinct(free)
  /\ \A t \in Slots : kstack[t] \notin Elems(free) /\ ~ Freeing(kstack[t])
  /\ \A s \in Elems(free) : ~ Freeing(s)
  /\ \A s \in Stacks : s <= bump <=> \/ \E t \in Slots : kstack[t] = s
                                     \/ s \in Elems(free)
                                     \/ Freeing(s)

UniInv == StackTypes /\ RunInv /\ ZombieInv /\ CallerInv /\ PlaceInv

LEMMA OneFacts ==
  ASSUME NCPU = 1
  PROVE  /\ CPUs = {0} /\ Boot(0) = NStacks + 1 /\ AllStacks = 1 .. NStacks + 1
         /\ Null \notin AllStacks /\ Null \notin Stacks /\ Null \notin Nodes
         /\ Stacks \subseteq AllStacks /\ Boot(0) \in AllStacks /\ Boot(0) \notin Stacks
<1>1. CPUs = {0} /\ NStacks \in Nat
  BY ThreadsAssumption DEF CPUs
<1>2. { Boot(c) : c \in CPUs } = {NStacks + 1}
  BY <1>1 DEF Boot
<1> QED BY <1>1, <1>2, ThreadsAssumption, NodeFacts DEF AllStacks, Stacks, Boot

\* What the steps below know of the thread that was claimed.
LEMMA OneRuns ==
  ASSUME NCPU = 1, OwnInv, UniInv
  PROVE  /\ current[0] \in Nodes /\ Runs \in Nodes /\ pc[0] # "offline"
         /\ state[Runs] # "UNUSED" /\ state[current[0]] # "UNUSED"
<1>1. 0 \in CPUs /\ current[0] \in Nodes \cup {Null} /\ (current[0] = Null <=> pc[0] = "offline")
      /\ pc[0] # "offline"
  BY NodeFacts DEF OwnInv, Shape, OfflineInv
<1> QED BY <1>1 DEF UniInv, RunInv, Runs

\* On one CPU nothing is ever undefined.
LEMMA OneDefined ==
  ASSUME NCPU = 1, ThreadsInv, UniInv
  PROVE  Defined
<1>0. OwnInv /\ UseInv /\ Ring
  BY DEF ThreadsInv, RingInv
<1>1. OneCPUPerStack
  BY OneFacts DEF OneCPUPerStack
<1>2. NoCPUOnFreeStack
  <2>1. stack[0] = Home(Runs) /\ Runs \in Nodes /\ state[Runs] # "UNUSED"
    BY <1>0, OneRuns DEF UniInv, RunInv
  <2>2. FreeStacks = Elems(free) /\ Elems(free) \subseteq Stacks
    BY DEF FreeStacks, Elems, UniInv, StackTypes
  <2>3. CASE Runs = Main
    BY <2>1, <2>2, <2>3, OneFacts DEF Home, NoCPUOnFreeStack
  <2>4. CASE Runs # Main
    <3>1. Runs \in Slots
      BY <2>1, <2>4, NodeFacts
    <3>2. kstack[Runs] # Null /\ kstack[Runs] \notin Elems(free)
      BY <2>1, <3>1 DEF UniInv, PlaceInv, Held
    <3> QED BY <2>1, <2>2, <2>4, <3>2, OneFacts DEF Home, NoCPUOnFreeStack
  <2> QED BY <2>3, <2>4
<1>3. \A c \in CPUs : current[c] # Null => OnRing(current[c])
  <2>1. current[0] \in Nodes /\ state[current[0]] # "UNUSED"
    BY <1>0, OneRuns
  <2>2. CASE current[0] = Main
    BY <1>0, <2>2, OneFacts DEF Ring, OnRing
  <2>3. CASE current[0] # Main
    <3>1. current[0] \in Slots /\ pc[0] # "spawn_enqueue"
      BY <2>1, <2>3, NodeFacts DEF UniInv, CallerInv, MainLabels
    <3> QED BY <1>0, <2>1, <3>1, OneFacts DEF UseInv, InUse, At, OnRing
  <2> QED BY <2>2, <2>3
<1> QED BY <1>1, <1>2, <1>3 DEF Defined

\* A step that moves no stack and switches to no thread.
Fixed == {"switch", "reap_stack", "reap_free", "spawn_fields"}

LEMMA StacksKept ==
  ASSUME NCPU = 1, OwnInv, UniInv,
         UNCHANGED <<kstack, esp, current, free, bump, stack, old, new>>,
         pc[0] \notin Fixed, pc'[0] \notin Fixed,
         \A t \in Nodes : state'[t] = "UNUSED" <=> state[t] = "UNUSED",
         stk' \in [CPUs -> Stacks \cup {Null}]
  PROVE  StackTypes' /\ RunInv' /\ PlaceInv'
<1>1. StackTypes'
  BY DEF UniInv, StackTypes
<1>2. /\ Runs = current[0] /\ Runs' = Runs /\ pc[0] # "switch" /\ pc'[0] # "switch"
      /\ Runs \in Nodes /\ Main \in Nodes
  BY OneRuns, NodeFacts DEF Runs, Fixed
<1>3. RunInv'
  BY <1>2 DEF UniInv, RunInv, Home
<1>4. /\ \A t \in Slots : Held(t)' <=> Held(t)
      /\ \A s : ~ Freeing(s)' /\ ~ Freeing(s)
  BY NodeFacts DEF Held, Freeing, Fixed
<1>5. PlaceInv'
  <2>1. Elems(free)' = Elems(free) /\ Distinct(free)'
    BY DEF UniInv, PlaceInv, Distinct, Elems
  <2> QED BY <1>4, <2>1 DEF UniInv, PlaceInv
<1> QED BY <1>1, <1>3, <1>5

\* A step that moves nothing but the program counter, and returns to main's
\* loop as main only.
Calm ==
  /\ UNCHANGED <<state, kstack, esp, current, yieldFrom, free, bump, stack, old, new,
                 z, stk, slot>>
  /\ pc[0] \notin Fixed \cup {"reap", "reap_null", "reap_check", "reap_lock"}
  /\ \E l \in Back \cup {"yield", "pick", "disable", "enable", "halt"} :
       pc' = [pc EXCEPT ![0] = l] /\ (l \in {"spawn", "halt"} => current[0] = Main)
  /\ \A t \in Slots : ret'[t] # "spawn"

Stirring ==
  \/ yield_claim(0) \/ cpu_switch(0) \/ thread_reap_yield_from(0) \/ worker_exit(0)
  \/ spawn_alloc_slot \/ spawn_kmalloc \/ spawn_fields \/ spawn_enqueue

\* Where the claimed thread returns to.
LEMMA Returns ==
  ASSUME NCPU = 1, OwnInv, UniInv
  PROVE  ret[Me(0)] \in Back /\ (ret[Me(0)] = "spawn" => current[0] = Main)
<1>1. current[0] \in Nodes
  BY OneRuns
<1> QED BY <1>1, NodeFacts DEF Me, OwnInv, Shape, UniInv, CallerInv

LEMMA CallYields ==
  ASSUME NCPU = 1, OwnInv, UniInv, NEW back, CallYield(0, back),
         back = "spawn" => current[0] = Main
  PROVE  /\ pc' = [pc EXCEPT ![0] = "yield"]
         /\ \A t \in Slots : ret'[t] # "spawn"
<1>1. current[0] \in Nodes /\ ret \in [Nodes -> Back]
  BY OneRuns DEF OwnInv, Shape
<1>2. ret' = [ret EXCEPT ![current[0]] = back] /\ pc' = [pc EXCEPT ![0] = "yield"]
  BY DEF CallYield, Goto, Me
<1>3. \A t \in Slots : ret'[t] = IF t = current[0] THEN back ELSE ret[t]
  BY <1>1, <1>2, NodeFacts
<1> QED BY <1>2, <1>3, NodeFacts DEF UniInv, CallerInv

LEMMA CalmSteps ==
  ASSUME NCPU = 1, OwnInv, UniInv, Step(0)
  PROVE  Calm \/ Stirring
<1>0. /\ current[0] \in Nodes /\ pc[0] # "offline"
      /\ After(Me(0)) \in Back /\ (After(Me(0)) = "spawn" => current[0] = Main)
      /\ \A t \in Slots : ret[t] # "spawn"
  <2>1. /\ current[0] \in Nodes /\ pc[0] # "offline"
        /\ \A t \in Slots : ret[t] # "spawn"
    BY OneRuns DEF UniInv, CallerInv
  <2>2. After(Me(0)) \in Back /\ (After(Me(0)) = "spawn" => current[0] = Main)
    BY DEF After, Me, Back
  <2> QED BY <2>1, <2>2
<1>1. ret[Me(0)] \in Back /\ (ret[Me(0)] = "spawn" => current[0] = Main)
  BY Returns
<1> DEFINE Calms(l) == pc' = [pc EXCEPT ![0] = l] /\ (l \in {"spawn", "halt"} => current[0] = Main)
           Ls == Back \cup {"yield", "pick", "disable", "enable", "halt"}
<1>2. ASSUME NEW back \in Back, CallYield(0, back), back = "spawn" => current[0] = Main
      PROVE  (\E l \in Ls : Calms(l)) /\ \A t \in Slots : ret'[t] # "spawn"
  BY <1>2, CallYields
<1>3. CASE yield_check(0) \/ yield_alone(0)
  <2>1. \E l \in Ls : Calms(l)
    <3>1. \/ pc' = [pc EXCEPT ![0] = ret[Me(0)]]
          \/ pc' = [pc EXCEPT ![0] = "pick"]
      BY <1>3 DEF yield_check, yield_alone, Goto
    <3>2. "halt" \notin Back
      BY DEF Back
    <3> QED BY <1>1, <3>1, <3>2
  <2> HIDE DEF Calms, Ls
  <2> QED BY <1>0, <1>3, <2>1
      DEF yield_check, yield_alone, Calm, At, Fixed, slots, heap, cpu, prog, Calms, Ls
<1>4. CASE \/ thread_trampoline(0) \/ worker_critical_begin(0)
           \/ worker_critical_end(0) \/ worker_round(0)
  <2>1. \E l \in Ls : Calms(l)
    <3>1. \E l \in {"disable", "work", "enable", "checkpoint"} : pc' = [pc EXCEPT ![0] = l]
      BY <1>4 DEF thread_trampoline, worker_critical_begin, worker_critical_end, worker_round, Goto
    <3> QED BY <3>1 DEF Back
  <2> HIDE DEF Calms, Ls
  <2> QED BY <1>0, <1>4, <2>1
      DEF thread_trampoline, worker_critical_begin, worker_critical_end, worker_round, Calm, At,
          Fixed, slots, heap, cpu, prog, Calms, Ls
<1>5. CASE zombie_loop(0) \/ ap_loop_yield(0)
  <2>1. (\E l \in Ls : Calms(l)) /\ \A t \in Slots : ret'[t] # "spawn"
    <3>1. "zombie" \in Back /\ "checkpoint" \in Back
      BY DEF Back
    <3> QED BY <1>2, <1>5, <3>1 DEF zombie_loop, ap_loop_yield
  <2> HIDE DEF Calms, Ls
  <2> QED BY <1>5, <2>1 DEF zombie_loop, ap_loop_yield, Calm, At, Fixed, slots, heap, cpu, Calms, Ls
<1>6. CASE sched_checkpoint(0)
  <2>1. (\E l \in Ls : Calms(l)) /\ \A t \in Slots : ret'[t] # "spawn"
    <3>1. \E b \in Back : /\ CallYield(0, b) \/ (Goto(0, b) /\ UNCHANGED ret)
                          /\ b = "spawn" => current[0] = Main
      <4>1. "checkpoint2" \in Back /\ "checkpoint2" # "spawn"
        BY DEF Back
      <4> QED BY <1>0, <1>6, <4>1 DEF sched_checkpoint
    <3>2. "halt" \notin Back
      BY DEF Back
    <3> QED BY <1>0, <1>2, <3>1, <3>2 DEF Goto
  <2> HIDE DEF Calms, Ls
  <2> QED BY <1>6, <2>1 DEF sched_checkpoint, Calm, At, Fixed, slots, heap, cpu, Calms, Ls
<1>7. CASE main_loop
  <2>1. (\E l \in Ls : Calms(l)) /\ \A t \in Slots : ret'[t] # "spawn"
    <3>1. "checkpoint" \in Back /\ Me(0) = Main
      BY <1>7 DEF Back, main_loop
    <3>2. CASE left[Main] = 0
      BY <1>0, <1>7, <3>1, <3>2 DEF main_loop, Goto, Me
    <3>3. CASE left[Main] # 0
      BY <1>2, <1>7, <3>1, <3>3 DEF main_loop
    <3> QED BY <3>2, <3>3
  <2> HIDE DEF Calms, Ls
  <2> QED BY <1>7, <2>1 DEF main_loop, Calm, At, Fixed, slots, heap, cpu, Calms, Ls
<1>8. CASE thread_ap_online(0)
  BY <1>0, <1>8 DEF thread_ap_online, At
<1> QED BY <1>3, <1>4, <1>5, <1>6, <1>7, <1>8
    DEF Step, sched_yield, thread_fn, thread_demo_run, Stirring

LEMMA OneCalm == ASSUME NCPU = 1, OwnInv, UniInv, Calm PROVE UniInv'
<1>1. PICK l \in Back \cup {"yield", "pick", "disable", "enable", "halt"} :
        pc' = [pc EXCEPT ![0] = l] /\ (l \in {"spawn", "halt"} => current[0] = Main)
  BY DEF Calm
<1>2. /\ pc'[0] = l
      /\ pc'[0] \notin Fixed \cup {"reap_null", "reap_check", "reap_lock", "spawn_kmalloc",
                                   "spawn_enqueue"}
  BY <1>1, NodeFacts DEF OwnInv, Shape, Back, Fixed
<1>3. StackTypes' /\ RunInv' /\ PlaceInv'
  BY <1>2, StacksKept DEF Calm, UniInv, StackTypes
<1>4. ZombieInv'
  BY <1>2 DEF Calm, Fixed, UniInv, ZombieInv
<1>5. CallerInv'
  BY <1>1, <1>2 DEF Calm, Fixed, CallerInv, MainLabels
<1> QED BY <1>3, <1>4, <1>5 DEF UniInv

\* A step that leaves the stacks where they are.
LEMMA PlacesKept ==
  ASSUME NCPU = 1, UniInv, UNCHANGED <<state, kstack, free, bump>>,
         pc[0] \notin {"reap_stack", "reap_free", "spawn_fields"},
         pc'[0] \notin {"reap_stack", "reap_free", "spawn_fields"}
  PROVE  PlaceInv'
<1>1. /\ \A t \in Slots : Held(t)' <=> Held(t)
      /\ \A s : ~ Freeing(s)' /\ ~ Freeing(s)
  BY DEF Held, Freeing
<1>2. Elems(free)' = Elems(free) /\ Distinct(free)'
  BY DEF UniInv, PlaceInv, Distinct, Elems
<1> QED BY <1>1, <1>2 DEF UniInv, PlaceInv

LEMMA OneClaim == ASSUME NCPU = 1, OwnInv, UniInv, yield_claim(0) PROVE UniInv'
<1> DEFINE me == current[0]
<1>0. /\ pc[0] = "pick" /\ yieldFrom' = me /\ pc' = [pc EXCEPT ![0] = "switch"]
      /\ old' = [old EXCEPT ![0] = me]
      /\ UNCHANGED <<state, kstack, esp, free, bump, stack, z, stk, ret>>
      /\ 0 \in CPUs /\ me \in Nodes /\ Runs = me /\ pc[0] # "switch"
  BY NodeFacts, OneRuns DEF yield_claim, At, Goto, Me, heap, prog, Runs
<1>1. PICK t \in Nodes \ {me} : /\ pick_next(0, me, t)
                                /\ current' = [current EXCEPT ![0] = t]
                                /\ new' = [new EXCEPT ![0] = t]
  BY DEF yield_claim, Me
<1>2. state[t] = "RUNNABLE"
  BY <1>1, PickRunnable DEF Runnable
<1> HIDE DEF me
<1>3. /\ pc'[0] = "switch" /\ current'[0] = t /\ new'[0] = t /\ old'[0] = me
      /\ old' \in [CPUs -> Nodes \cup {Null}] /\ new' \in [CPUs -> Nodes \cup {Null}]
  BY <1>0, <1>1 DEF OwnInv, Shape, UniInv, StackTypes
<1>4. StackTypes'
  BY <1>0, <1>3 DEF UniInv, StackTypes
<1>5. Runs' = me
  BY <1>3 DEF Runs
<1>6. RunInv'
  <2>1. /\ \A u \in {Main, me} : state[u] # "UNUSED"
        /\ stack[0] = Home(me)
        /\ \A u \in Nodes \ {me} : state[u] # "UNUSED" => esp[u].on = Home(u)
    BY <1>0 DEF UniInv, RunInv
  <2>2. \A u : Home(u)' = Home(u)
    BY <1>0 DEF Home
  <2> QED BY <1>0, <1>1, <1>2, <1>3, <1>5, <2>1, <2>2 DEF RunInv
<1>7. ZombieInv' /\ CallerInv'
  BY <1>0, <1>1, <1>3 DEF ZombieInv, UniInv, CallerInv, MainLabels
<1>8. PlaceInv'
  BY <1>0, <1>3, PlacesKept
<1> QED BY <1>4, <1>6, <1>7, <1>8 DEF UniInv

LEMMA OneSwitch == ASSUME NCPU = 1, OwnInv, UniInv, cpu_switch(0) PROVE UniInv'
<1> DEFINE me == old[0]
           t == current[0]
<1>0. /\ pc[0] = "switch"
      /\ esp' = [esp EXCEPT ![me] = [on |-> stack[0], fresh |-> FALSE]]
      /\ UNCHANGED <<state, kstack, current, yieldFrom, free, bump, old, new, z, stk, ret>>
      /\ 0 \in CPUs /\ Runs = me /\ t \in Nodes /\ me \in Nodes /\ me # t /\ new[0] = t
  BY NodeFacts, OneRuns DEF cpu_switch, At, heap, cpu, prog, UniInv, RunInv, Runs
<1>1. stack' = [stack EXCEPT ![0] = esp[t].on]
  BY <1>0 DEF cpu_switch
<1>2. pc'[0] \in {"tramp", "reap"}
  BY <1>0 DEF cpu_switch, Goto, OwnInv, Shape
<1>3. /\ \A u \in {Main, me, t} : state[u] # "UNUSED"
      /\ stack[0] = Home(me)
      /\ \A u \in Nodes \ {me} : state[u] # "UNUSED" => esp[u].on = Home(u)
      /\ stack[0] \in AllStacks \cup {Null}
      /\ esp[t].on \in AllStacks \cup {Null}
  BY <1>0 DEF UniInv, RunInv, StackTypes
<1>4. Runs' = t
  BY <1>0, <1>2 DEF Runs
<1> HIDE DEF me, t
<1>5. esp'[me].on = stack[0] /\ \A u \in Nodes : u # me => esp'[u] = esp[u]
  BY <1>0 DEF UniInv, StackTypes
<1>6. stack'[0] = Home(t)
  BY <1>0, <1>1, <1>3 DEF UniInv, StackTypes
<1>7. StackTypes'
  <2>1. [on |-> stack[0], fresh |-> FALSE] \in [on : AllStacks \cup {Null}, fresh : BOOLEAN]
    BY <1>3
  <2> QED BY <1>0, <1>1, <1>3, <2>1 DEF UniInv, StackTypes
<1>8. RunInv'
  <2>1. \A u : Home(u)' = Home(u)
    BY <1>0 DEF Home
  <2>2. \A u \in Nodes \ {t} : state[u] # "UNUSED" => esp'[u].on = Home(u)
    BY <1>3, <1>5
  <2>3. current'[0] = t /\ pc'[0] # "switch"
    BY <1>0, <1>2 DEF t
  <2> QED BY <1>0, <1>3, <1>4, <1>6, <2>1, <2>2, <2>3 DEF RunInv
<1>9. ZombieInv' /\ CallerInv'
  BY <1>0, <1>2 DEF ZombieInv, UniInv, CallerInv, MainLabels
<1>10. PlaceInv'
  BY <1>0, <1>2, PlacesKept
<1> QED BY <1>7, <1>8, <1>9, <1>10 DEF UniInv

LEMMA OneReap ==
  ASSUME NCPU = 1, OwnInv, UniInv, reap_read(0) \/ reap_null(0) \/ reap_check(0)
  PROVE  UniInv'
<1>0. /\ 0 \in CPUs /\ current[0] \in Nodes /\ Null \notin Nodes /\ Nodes = {Main} \cup Slots
      /\ UNCHANGED <<state, kstack, esp, current, free, bump, stack, old, new, ret>>
      /\ pc[0] \in {"reap", "reap_null", "reap_check"}
  BY NodeFacts, OneRuns DEF reap_read, reap_null, reap_check, At, slots, heap, cpu, prog
<1>1. PICK l \in Back \cup {"reap_null", "reap_check", "reap_lock"} :
        pc' = [pc EXCEPT ![0] = l] /\ (l = "spawn" => current[0] = Main)
  <2>1. ret[Me(0)] \in Back /\ (ret[Me(0)] = "spawn" => current[0] = Main)
    BY Returns
  <2> QED BY <2>1 DEF reap_read, reap_null, reap_check, Goto
<1>2. pc'[0] = l /\ pc'[0] \notin Fixed /\ pc[0] \notin Fixed
  BY <1>0, <1>1 DEF OwnInv, Shape, Back, Fixed
<1>3. CallerInv'
  BY <1>0, <1>1, <1>2 DEF UniInv, CallerInv, MainLabels, Back
<1>4. CASE reap_read(0)
  <2>1. /\ z' = [z EXCEPT ![0] = yieldFrom] /\ UNCHANGED <<yieldFrom, stk>>
        /\ pc'[0] = "reap_null"
    BY <1>0, <1>4 DEF reap_read, Goto, OwnInv, Shape
  <2>2. StackTypes' /\ RunInv' /\ PlaceInv'
    BY <1>0, <1>2, <2>1, StacksKept DEF UniInv, StackTypes
  <2>3. z'[0] = yieldFrom
    BY <1>0, <2>1 DEF OwnInv, Shape
  <2>4. ZombieInv'
    BY <1>0, <2>1, <2>3 DEF UniInv, ZombieInv
  <2> QED BY <1>3, <2>2, <2>4 DEF UniInv
<1>5. CASE reap_null(0)
  <2>1. /\ yieldFrom' = Null /\ UNCHANGED <<z, stk>> /\ pc[0] = "reap_null"
        /\ l \in Back \cup {"reap_check"}
    <3>1. pc' = [pc EXCEPT ![0] = ret[Me(0)]] \/ pc' = [pc EXCEPT ![0] = "reap_check"]
      BY <1>5 DEF reap_null, Goto
    <3>2. pc'[0] \in Back \cup {"reap_check"}
      BY <1>0, <3>1, Returns DEF OwnInv, Shape
    <3> QED BY <1>2, <1>5, <3>2 DEF reap_null, At, cpu
  <2>2. StackTypes' /\ RunInv' /\ PlaceInv'
    BY <1>0, <1>2, <2>1, StacksKept DEF UniInv, StackTypes
  <2>3. ZombieInv'
    BY <1>0, <1>2, <2>1 DEF UniInv, ZombieInv, Back
  <2> QED BY <1>3, <2>2, <2>3 DEF UniInv
<1>6. CASE reap_check(0)
  <2>1. UNCHANGED <<yieldFrom, z>> /\ pc[0] = "reap_check"
    BY <1>6 DEF reap_check, At
  <2>2. z[0] \in Slots /\ z[0] \in Nodes
    BY <1>0, <2>1 DEF OwnInv, ZInv
  <2>3. \/ /\ stk' = [stk EXCEPT ![0] = kstack[z[0]]] /\ kstack[z[0]] # Null
           /\ pc'[0] = "reap_lock"
        \/ /\ stk' = stk /\ pc'[0] \in Back
    <3>1. \/ /\ stk' = [stk EXCEPT ![0] = kstack[z[0]]] /\ kstack[z[0]] # Null
             /\ pc' = [pc EXCEPT ![0] = "reap_lock"]
          \/ /\ stk' = stk /\ pc' = [pc EXCEPT ![0] = ret[Me(0)]]
      BY <1>6 DEF reap_check, Goto
    <3> QED BY <1>0, <3>1, Returns DEF OwnInv, Shape
  <2>4. kstack[z[0]] \in Stacks \cup {Null}
    BY <2>2 DEF UniInv, StackTypes
  <2>5. stk' \in [CPUs -> Stacks \cup {Null}]
    BY <1>0, <2>3, <2>4 DEF UniInv, StackTypes
  <2>6. StackTypes' /\ RunInv' /\ PlaceInv'
    BY <1>0, <1>2, <2>5, StacksKept
  <2>7. ZombieInv'
    <3>1. z[0] # current[0] /\ yieldFrom # current[0]
      BY <2>1 DEF UniInv, ZombieInv
    <3>2. CASE /\ stk' = [stk EXCEPT ![0] = kstack[z[0]]] /\ kstack[z[0]] # Null
               /\ pc'[0] = "reap_lock"
      <4>1. stk'[0] = kstack[z[0]] /\ stk'[0] \in Stacks
        BY <1>0, <2>4, <3>2 DEF UniInv, StackTypes
      <4> QED BY <1>0, <2>1, <2>2, <3>1, <3>2, <4>1 DEF ZombieInv
    <3>3. CASE pc'[0] \in Back
      BY <1>0, <2>1, <3>1, <3>3 DEF ZombieInv, Back
    <3> QED BY <2>3, <3>2, <3>3
  <2> QED BY <1>3, <2>6, <2>7 DEF UniInv
<1> QED BY <1>4, <1>5, <1>6

LEMMA OneUnlink == ASSUME NCPU = 1, OwnInv, UniInv, reap_unlink(0) PROVE UniInv'
<1>0. /\ 0 \in CPUs /\ current[0] \in Nodes /\ Nodes = {Main} \cup Slots /\ Main \notin Slots
      /\ UNCHANGED <<kstack, esp, current, free, bump, stack, old, new, ret, yieldFrom, z, stk>>
      /\ pc[0] = "reap_lock" /\ state' = [state EXCEPT ![z[0]] = "UNUSED"]
      /\ Runs = current[0] /\ Null \notin Stacks
  BY NodeFacts, OneRuns, OneFacts DEF reap_unlink, At, heap, cpu, prog, Runs
<1>1. pc'[0] = "reap_stack"
  BY <1>0 DEF reap_unlink, Goto, OwnInv, Shape
<1>2. /\ z[0] \in Slots /\ z[0] # current[0] /\ stk[0] = kstack[z[0]] /\ stk[0] \in Stacks
      /\ yieldFrom # current[0]
  BY <1>0 DEF UniInv, ZombieInv
<1>3. state'[z[0]] = "UNUSED" /\ \A t \in Nodes : t # z[0] => state'[t] = state[t]
  BY <1>0, <1>2 DEF OwnInv, Shape
<1>4. StackTypes' /\ ZombieInv' /\ CallerInv'
  BY <1>0, <1>1, <1>2, <1>3 DEF UniInv, StackTypes, ZombieInv, CallerInv, MainLabels
<1>5. RunInv'
  <2>1. Runs' = Runs /\ \A t : Home(t)' = Home(t)
    BY <1>0, <1>1 DEF Runs, Home
  <2> QED BY <1>0, <1>1, <1>2, <1>3, <2>1 DEF UniInv, RunInv
<1>6. PlaceInv'
  <2>1. Held(z[0])' /\ kstack[z[0]] # Null
    BY <1>0, <1>1, <1>2 DEF Held
  <2>2. \A t \in Slots : t # z[0] => (Held(t)' <=> Held(t))
    BY <1>0, <1>1, <1>3 DEF Held
  <2>3. \A s : ~ Freeing(s)' /\ ~ Freeing(s)
    BY <1>0, <1>1 DEF Freeing
  <2>4. Elems(free)' = Elems(free) /\ Distinct(free)'
    BY <1>0 DEF UniInv, PlaceInv, Distinct, Elems
  <2> QED BY <1>0, <2>1, <2>2, <2>3, <2>4 DEF UniInv, PlaceInv
<1> QED BY <1>4, <1>5, <1>6 DEF UniInv

LEMMA OneUnlock == ASSUME NCPU = 1, OwnInv, UniInv, reap_unlock(0) PROVE UniInv'
<1>0. /\ 0 \in CPUs /\ current[0] \in Nodes /\ Nodes = {Main} \cup Slots /\ Main \notin Slots
      /\ UNCHANGED <<state, esp, current, free, bump, stack, old, new, ret, yieldFrom, z, stk>>
      /\ pc[0] = "reap_stack" /\ kstack' = [kstack EXCEPT ![z[0]] = Null]
      /\ Runs = current[0] /\ Null \notin Stacks
  BY NodeFacts, OneRuns, OneFacts DEF reap_unlock, At, heap, cpu, prog, Runs
<1>1. pc'[0] = "reap_free"
  BY <1>0 DEF reap_unlock, Goto, OwnInv, Shape
<1>2. /\ z[0] \in Slots /\ z[0] # current[0] /\ stk[0] = kstack[z[0]] /\ stk[0] \in Stacks
      /\ yieldFrom # current[0] /\ state[z[0]] = "UNUSED"
  BY <1>0 DEF UniInv, ZombieInv
<1>3. kstack'[z[0]] = Null /\ \A t \in Nodes : t # z[0] => kstack'[t] = kstack[t]
  BY <1>0, <1>2 DEF UniInv, StackTypes
<1>4. StackTypes' /\ ZombieInv' /\ CallerInv'
  BY <1>0, <1>1, <1>2 DEF UniInv, StackTypes, ZombieInv, CallerInv, MainLabels
<1>5. RunInv'
  <2>1. Runs' = Runs /\ \A t \in Nodes : t # z[0] => Home(t)' = Home(t)
    BY <1>0, <1>1, <1>3 DEF Runs, Home
  <2> QED BY <1>0, <1>1, <1>2, <2>1 DEF UniInv, RunInv
<1>6. PlaceInv'
  <2>1. \A t \in Slots : Held(t)' <=> t # z[0] /\ Held(t)
    BY <1>0, <1>1, <1>2 DEF Held
  <2>2. \A s : ~ Freeing(s) /\ (Freeing(s)' <=> s = kstack[z[0]])
    BY <1>0, <1>1, <1>2 DEF Freeing
  <2>3. Elems(free)' = Elems(free) /\ Distinct(free)'
    BY <1>0 DEF UniInv, PlaceInv, Distinct, Elems
  <2>4. \A t \in Slots : Held(t)' <=> kstack'[t] # Null
    BY <1>0, <1>3, <2>1 DEF UniInv, PlaceInv
  <2>5. \A t, u \in Slots : kstack'[t] = kstack'[u] /\ kstack'[t] # Null => t = u
    BY <1>0, <1>3 DEF UniInv, PlaceInv
  <2>6. \A t \in Slots : kstack'[t] \notin Elems(free)' /\ ~ Freeing(kstack[t])'
    <3> SUFFICES ASSUME NEW t \in Slots
                 PROVE  kstack'[t] \notin Elems(free) /\ kstack'[t] # kstack[z[0]]
      BY <1>0, <1>1, <1>2, <2>3 DEF Freeing
    <3>1. CASE t = z[0]
      <4>1. Elems(free) \subseteq Stacks
        BY DEF Elems, UniInv, StackTypes
      <4> QED BY <1>0, <1>2, <1>3, <3>1, <4>1
    <3>2. CASE t # z[0]
      BY <1>0, <1>2, <1>3, <3>2 DEF UniInv, PlaceInv
    <3> QED BY <3>1, <3>2
  <2>7. \A s \in Elems(free)' : ~ Freeing(s)'
    BY <1>2, <2>2, <2>3 DEF UniInv, PlaceInv
  <2>8. \A s \in Stacks : s <= bump' <=> \/ \E t \in Slots : kstack'[t] = s
                                         \/ s \in Elems(free)'
                                         \/ Freeing(s)'
    <3> SUFFICES ASSUME NEW s \in Stacks
                 PROVE  s <= bump <=> \/ \E t \in Slots : kstack'[t] = s
                                      \/ s \in Elems(free)
                                      \/ s = kstack[z[0]]
      BY <1>0, <2>2, <2>3
    <3>1. s <= bump <=> (\E t \in Slots : kstack[t] = s) \/ s \in Elems(free)
      BY <2>2 DEF UniInv, PlaceInv
    <3>2. (\E t \in Slots : kstack[t] = s) <=> (\E t \in Slots : kstack'[t] = s) \/ s = kstack[z[0]]
      BY <1>0, <1>2, <1>3
    <3> QED BY <3>1, <3>2
  <2> QED BY <2>3, <2>4, <2>5, <2>6, <2>7, <2>8 DEF PlaceInv
<1> QED BY <1>4, <1>5, <1>6 DEF UniInv

LEMMA OneKfree == ASSUME NCPU = 1, OwnInv, UniInv, reap_kfree(0) PROVE UniInv'
<1>0. /\ 0 \in CPUs /\ current[0] \in Nodes /\ Nodes = {Main} \cup Slots /\ Main \notin Slots
      /\ UNCHANGED <<state, kstack, esp, current, bump, stack, old, new, ret, yieldFrom, z>>
      /\ pc[0] = "reap_free" /\ free' = << stk[0] >> \o free
      /\ stk' = [stk EXCEPT ![0] = Null] /\ pc' = [pc EXCEPT ![0] = ret[Me(0)]]
      /\ Runs = current[0] /\ Null \notin Stacks
  BY NodeFacts, OneRuns, OneFacts DEF reap_kfree, At, Goto, slots, prog, Runs
<1>1. pc'[0] \in Back /\ (pc'[0] = "spawn" => current[0] = Main)
  BY <1>0, Returns DEF OwnInv, Shape
<1>2. stk[0] \in Stacks /\ yieldFrom # current[0]
  BY <1>0 DEF UniInv, ZombieInv
<1>3. /\ \A s : Freeing(s) <=> s = stk[0]
      /\ \A s : ~ Freeing(s)'
  BY <1>0, <1>1 DEF Freeing, Back
<1>4. stk[0] \notin Elems(free)
  BY <1>3 DEF UniInv, PlaceInv
<1>5. free' \in Seq(Stacks) /\ Elems(free') = Elems(free) \cup {stk[0]} /\ Distinct(free')
  BY <1>0, <1>2, <1>4, Push DEF UniInv, StackTypes, PlaceInv
<1>6. StackTypes'
  BY <1>0, <1>5 DEF UniInv, StackTypes
<1>7. ZombieInv' /\ CallerInv'
  BY <1>0, <1>1, <1>2 DEF UniInv, ZombieInv, CallerInv, MainLabels, Back
<1>8. RunInv'
  <2>1. Runs' = Runs /\ pc'[0] # "switch" /\ \A t : Home(t)' = Home(t)
    BY <1>0, <1>1 DEF Runs, Home, Back
  <2> QED BY <1>0, <2>1 DEF UniInv, RunInv
<1>9. PlaceInv'
  <2>1. \A t \in Slots : Held(t)' <=> Held(t)
    BY <1>0, <1>1 DEF Held, Back
  <2>2. \A t \in Slots : kstack[t] \notin Elems(free')
    BY <1>3, <1>5 DEF UniInv, PlaceInv
  <2>3. \A s \in Stacks : s <= bump <=> (\E t \in Slots : kstack[t] = s) \/ s \in Elems(free')
    BY <1>3, <1>5 DEF UniInv, PlaceInv
  <2>4. /\ \A t \in Slots : Held(t) <=> kstack[t] # Null
        /\ \A t, u \in Slots : kstack[t] = kstack[u] /\ kstack[t] # Null => t = u
    BY DEF UniInv, PlaceInv
  <2> QED BY <1>0, <1>3, <1>5, <2>1, <2>2, <2>3, <2>4 DEF PlaceInv
<1> QED BY <1>6, <1>7, <1>8, <1>9 DEF UniInv

LEMMA OneExit ==
  ASSUME NCPU = 1, OwnInv, UniInv,
         worker_exit(0) \/ spawn_alloc_slot \/ spawn_enqueue
  PROVE  UniInv'
<1>0. /\ 0 \in CPUs /\ current[0] \in Nodes /\ state[current[0]] # "UNUSED" /\ Me(0) = current[0]
      /\ UNCHANGED <<kstack, esp, current, free, bump, stack, old, new, ret, yieldFrom, z, stk>>
      /\ pc[0] \in {"work", "spawn", "spawn_enqueue"}
      /\ stk' \in [CPUs -> Stacks \cup {Null}]
  BY NodeFacts, OneRuns DEF worker_exit, spawn_alloc_slot, spawn_enqueue, At, slots, heap, cpu,
     prog, Me, UniInv, StackTypes
<1>1. /\ pc'[0] \in {"zombie", "spawn", "spawn_kmalloc"}
      /\ pc'[0] # "zombie" => pc[0] \in {"spawn", "spawn_enqueue"}
  BY <1>0 DEF worker_exit, spawn_alloc_slot, spawn_enqueue, At, Goto, OwnInv, Shape
<1>2. \A t \in Nodes : state'[t] = "UNUSED" <=> state[t] = "UNUSED"
  BY <1>0 DEF worker_exit, spawn_alloc_slot, spawn_enqueue, slots, OwnInv, Shape
<1>3. StackTypes' /\ RunInv' /\ PlaceInv'
  BY <1>0, <1>1, <1>2, StacksKept DEF Fixed
<1>4. ZombieInv' /\ CallerInv'
  BY <1>0, <1>1 DEF UniInv, ZombieInv, CallerInv, MainLabels
<1> QED BY <1>3, <1>4 DEF UniInv

LEMMA OneKmalloc == ASSUME NCPU = 1, OwnInv, UniInv, spawn_kmalloc PROVE UniInv'
<1>0. /\ 0 \in CPUs /\ current[0] = Main /\ Nodes = {Main} \cup Slots /\ Main \notin Slots
      /\ UNCHANGED <<state, esp, current, stack, old, new, ret, yieldFrom, z, stk, slot>>
      /\ pc[0] = "spawn_kmalloc" /\ Runs = Main /\ Null \notin Stacks /\ NStacks \in Nat
      /\ slot \in Slots /\ state[slot] = "UNUSED"
  BY NodeFacts, OneFacts, ThreadsAssumption
     DEF spawn_kmalloc, At, cpu, prog, Runs, UniInv, CallerInv, MainLabels, OwnInv, SlotInv
<1>1. kstack[slot] = Null /\ \A s : ~ Freeing(s)
  BY <1>0 DEF UniInv, PlaceInv, Held, Freeing
<1>2. pc'[0] \in {"spawn_fields", "spawn"} /\ \A s : ~ Freeing(s)'
  BY <1>0 DEF spawn_kmalloc, Goto, OwnInv, Shape, Freeing
<1>3. ZombieInv' /\ CallerInv'
  BY <1>0, <1>2 DEF UniInv, ZombieInv, CallerInv, MainLabels
<1>4. ASSUME kstack' \in [Nodes -> Stacks \cup {Null}],
             \A t \in Nodes : t # slot => kstack'[t] = kstack[t]
      PROVE  RunInv'
  <2>1. Runs' = Runs /\ \A t \in Nodes : t # slot => Home(t)' = Home(t)
    BY <1>0, <1>2, <1>4 DEF Runs, Home
  <2> QED BY <1>0, <1>2, <2>1 DEF UniInv, RunInv
<1>5. ASSUME NEW s \in Stacks, s \notin Elems(free'), \A t \in Slots : kstack[t] # s,
             kstack' = [kstack EXCEPT ![slot] = s], pc'[0] = "spawn_fields",
             free' \in Seq(Stacks), Distinct(free'), bump' \in 0 .. NStacks,
             Elems(free') \subseteq Elems(free) \/ Elems(free') = {},
             \A u \in Stacks : u <= bump' <=> \/ \E t \in Slots : kstack[t] = u
                                             \/ u \in Elems(free') \cup {s}
      PROVE  UniInv'
  <2>1. /\ kstack' \in [Nodes -> Stacks \cup {Null}] /\ kstack'[slot] = s
        /\ \A t \in Nodes : t # slot => kstack'[t] = kstack[t]
    BY <1>0, <1>5 DEF UniInv, StackTypes
  <2>2. StackTypes'
    BY <1>0, <1>5, <2>1 DEF UniInv, StackTypes
  <2>3. \A t \in Slots : Held(t)' <=> Held(t) \/ t = slot
    BY <1>0, <1>5 DEF Held
  <2>4. \A t \in Slots : Held(t)' <=> kstack'[t] # Null
    BY <1>0, <1>5, <2>1, <2>3 DEF UniInv, PlaceInv
  <2>5. \A t, u \in Slots : kstack'[t] = kstack'[u] /\ kstack'[t] # Null => t = u
    BY <1>0, <1>5, <2>1 DEF UniInv, PlaceInv
  <2>6. \A t \in Slots : kstack'[t] \notin Elems(free')
    <3>1. \A t \in Slots : kstack[t] \notin Elems(free')
      BY <1>5 DEF UniInv, PlaceInv
    <3> QED BY <1>0, <1>5, <2>1, <3>1
  <2>7. \A u \in Stacks : u <= bump' <=> (\E t \in Slots : kstack'[t] = u) \/ u \in Elems(free')
    <3> SUFFICES ASSUME NEW u \in Stacks
                 PROVE  (\E t \in Slots : kstack'[t] = u) <=> (\E t \in Slots : kstack[t] = u) \/ u = s
      BY <1>5
    <3> QED BY <1>0, <1>1, <2>1
  <2>8. PlaceInv'
    BY <1>2, <1>5, <2>4, <2>5, <2>6, <2>7 DEF PlaceInv
  <2> QED BY <1>3, <1>4, <2>1, <2>2, <2>8 DEF UniInv
<1>6. /\ free \in Seq(Stacks) /\ Distinct(free) /\ Elems(free) \subseteq Stacks
      /\ bump \in 0 .. NStacks
      /\ \A t \in Slots : kstack[t] \notin Elems(free)
      /\ \A u \in Stacks : u <= bump <=> (\E t \in Slots : kstack[t] = u) \/ u \in Elems(free)
  BY <1>1 DEF UniInv, StackTypes, PlaceInv, Elems
<1>7. CASE free # << >> /\ pc'[0] = "spawn_fields"
  <2>1. /\ kstack' = [kstack EXCEPT ![slot] = Head(free)] /\ free' = Tail(free)
        /\ bump' = bump
    BY <1>7 DEF spawn_kmalloc, heap
  <2> DEFINE s == Head(free)
  <2>2. /\ s \in Stacks /\ s \in Elems(free) /\ free' \in Seq(Stacks)
        /\ Elems(free') = Elems(free) \ {s} /\ Distinct(free')
    BY <1>6, <1>7, <2>1, Pop
  <2>3. \A t \in Slots : kstack[t] # s
    BY <1>6, <2>2
  <2>4. \A u \in Stacks : u <= bump' <=> \/ \E t \in Slots : kstack[t] = u
                                         \/ u \in Elems(free') \cup {s}
    BY <1>6, <2>1, <2>2
  <2>5. kstack' = [kstack EXCEPT ![slot] = s] /\ s \notin Elems(free')
    BY <2>1, <2>2
  <2> HIDE DEF s
  <2> QED BY <1>5, <1>6, <1>7, <2>1, <2>2, <2>3, <2>4, <2>5
<1>8. CASE free = << >> /\ bump < NStacks /\ pc'[0] = "spawn_fields"
  <2> DEFINE s == bump + 1
  <2>1. kstack' = [kstack EXCEPT ![slot] = s] /\ free' = free /\ bump' = s
    <3>1. bump # NStacks
      BY <1>0, <1>6, <1>8
    <3> QED BY <1>8, <3>1 DEF spawn_kmalloc, heap
  <2>2. s \in Stacks /\ s \in 0 .. NStacks /\ ~ (s <= bump)
    BY <1>0, <1>6, <1>8 DEF Stacks
  <2>3. s \notin Elems(free) /\ \A t \in Slots : kstack[t] # s
    BY <1>6, <2>2
  <2>4. \A u \in Stacks : u <= s <=> u <= bump \/ u = s
    BY <1>6 DEF Stacks
  <2>5. \A u \in Stacks : u <= bump' <=> \/ \E t \in Slots : kstack[t] = u
                                         \/ u \in Elems(free') \cup {s}
    BY <1>6, <2>1, <2>4
  <2> HIDE DEF s
  <2> QED BY <1>5, <1>6, <1>8, <2>1, <2>2, <2>3, <2>5
<1>9. CASE kstack' = [kstack EXCEPT ![slot] = Null] /\ UNCHANGED <<free, bump>> /\ pc'[0] = "spawn"
  <2>1. kstack' = kstack
    BY <1>0, <1>1, <1>9 DEF UniInv, StackTypes
  <2>2. StackTypes' /\ RunInv' /\ PlaceInv'
    BY <1>0, <1>9, <2>1, StacksKept DEF Fixed, UniInv, StackTypes
  <2> QED BY <1>3, <2>2 DEF UniInv
<1>10. \/ free # << >> /\ pc' = [pc EXCEPT ![0] = "spawn_fields"]
       \/ free = << >> /\ bump < NStacks /\ pc' = [pc EXCEPT ![0] = "spawn_fields"]
       \/ /\ kstack' = [kstack EXCEPT ![slot] = Null] /\ UNCHANGED <<free, bump>>
          /\ pc' = [pc EXCEPT ![0] = "spawn"]
  BY DEF spawn_kmalloc, Goto, heap
<1> QED BY <1>0, <1>7, <1>8, <1>9, <1>10 DEF OwnInv, Shape

LEMMA OneFields == ASSUME NCPU = 1, OwnInv, UniInv, spawn_fields PROVE UniInv'
<1>0. /\ 0 \in CPUs /\ current[0] = Main /\ Nodes = {Main} \cup Slots /\ Main \notin Slots
      /\ UNCHANGED <<kstack, current, free, bump, stack, old, new, ret, yieldFrom, z, stk, slot>>
      /\ pc[0] = "spawn_fields" /\ Runs = Main /\ slot \in Slots
      /\ state' = [state EXCEPT ![slot] = "RUNNABLE"]
      /\ esp' = [esp EXCEPT ![slot] = [on |-> kstack[slot], fresh |-> TRUE]]
  BY NodeFacts, OneFacts
     DEF spawn_fields, At, heap, cpu, Runs, UniInv, CallerInv, MainLabels, OwnInv, SlotInv
<1>1. pc'[0] = "spawn_enqueue"
  BY <1>0 DEF spawn_fields, Goto, OwnInv, Shape
<1>2. /\ state'[slot] = "RUNNABLE" /\ \A t \in Nodes : t # slot => state'[t] = state[t]
      /\ esp'[slot].on = kstack[slot] /\ \A t \in Nodes : t # slot => esp'[t] = esp[t]
  BY <1>0 DEF OwnInv, Shape, UniInv, StackTypes
<1>3. StackTypes'
  <2>1. [on |-> kstack[slot], fresh |-> TRUE] \in [on : AllStacks \cup {Null}, fresh : BOOLEAN]
    BY <1>0, OneFacts DEF UniInv, StackTypes
  <2> QED BY <1>0, <2>1 DEF UniInv, StackTypes
<1>4. ZombieInv' /\ CallerInv'
  BY <1>0, <1>1 DEF UniInv, ZombieInv, CallerInv, MainLabels
<1>5. RunInv'
  <2>1. Runs' = Runs /\ \A t : Home(t)' = Home(t)
    BY <1>0, <1>1 DEF Runs, Home
  <2>2. Home(slot) = kstack[slot]
    BY <1>0 DEF Home
  <2> QED BY <1>0, <1>1, <1>2, <2>1, <2>2 DEF UniInv, RunInv
<1>6. PlaceInv'
  <2>1. \A t \in Slots : Held(t)' <=> Held(t)
    BY <1>0, <1>1, <1>2 DEF Held
  <2>2. \A s : ~ Freeing(s)' /\ ~ Freeing(s)
    BY <1>0, <1>1 DEF Freeing
  <2>3. Elems(free)' = Elems(free) /\ Distinct(free)'
    BY <1>0 DEF UniInv, PlaceInv, Distinct, Elems
  <2> QED BY <1>0, <2>1, <2>2, <2>3 DEF UniInv, PlaceInv
<1> QED BY <1>3, <1>4, <1>5, <1>6 DEF UniInv

LEMMA OneStep == ASSUME NCPU = 1, OwnInv, UniInv, Step(0) PROVE UniInv'
BY CalmSteps, OneCalm, OneClaim, OneSwitch, OneReap, OneUnlink, OneUnlock, OneKfree, OneExit,
   OneKmalloc, OneFields DEF Stirring, thread_reap_yield_from

LEMMA OneInit == ASSUME NCPU = 1, Init PROVE UniInv
<1>0. /\ CPUs = {0} /\ IdleSlots = {} /\ pc[0] = "spawn" /\ current[0] = Main
      /\ Main \in Nodes /\ Null \notin Nodes /\ bump = 0 /\ free = << >> /\ NStacks \in Nat
      /\ stack[0] = Boot(0) /\ Boot(0) \in AllStacks /\ Null \notin AllStacks
      /\ Nodes = {Main} \cup Slots /\ Main \notin Slots
  BY OneFacts, NodeFacts, ThreadsAssumption DEF Init, IdleSlots
<1>1. Runs = Main
  BY <1>0 DEF Runs
<1>2. StackTypes
  BY <1>0 DEF Init, StackTypes
<1>3. RunInv
  BY <1>0, <1>1 DEF Init, RunInv, Home
<1>4. ZombieInv /\ CallerInv
  BY <1>0 DEF Init, ZombieInv, CallerInv
<1>5. PlaceInv
  <2>1. Elems(free) = {} /\ Distinct(free)
    BY <1>0 DEF Elems, Distinct
  <2>2. \A t \in Slots : kstack[t] = Null /\ state[t] = "UNUSED"
    BY <1>0 DEF Init
  <2>3. \A t \in Slots : ~ Held(t)
    BY <1>0, <2>2 DEF Held
  <2>4. \A s : ~ Freeing(s)
    BY <1>0 DEF Freeing
  <2>5. \A s \in Stacks : ~ (s <= bump) /\ s # Null
    BY <1>0, OneFacts DEF Stacks
  <2> QED BY <2>1, <2>2, <2>3, <2>4, <2>5 DEF PlaceInv
<1> QED BY <1>2, <1>3, <1>4, <1>5 DEF UniInv

-----------------------------------------------------------------------------
(***************************************************************************)
(* One CPU: what else the kernel that contains these threads needs to know *)
(* of them.  The types of the rest of the state; that a thread which is    *)
(* switched to again has called sched_yield before; that a runnable thread *)
(* which is not claimed has no token; and what main has spawned when it    *)
(* begins its loop.                                                        *)
(***************************************************************************)
FieldTypes ==
  /\ fn \in [Nodes -> {"none", "ap_idle_fn", "worker_a", "worker_b"}]
  /\ lock \in CPUs \cup {Null}
  /\ depth \in Nat
  /\ slot \in Slots \cup {Null}
  /\ spawned \in 0 .. Spawns
  /\ left \in [Nodes -> Nat]

LEMMA FieldInit == Init => FieldTypes
<1> SUFFICES ASSUME Init PROVE FieldTypes
  OBVIOUS
<1>1. 0 \in 0 .. Spawns /\ MainRounds \in Nat
  BY ThreadsAssumption
<1> QED BY <1>1 DEF Init, FieldTypes

LEMMA FieldStep ==
  ASSUME NCPU = 1, OwnInv, UniInv, FieldTypes, Step(0)
  PROVE  FieldTypes'
<1>0. /\ 0 \in CPUs /\ Me(0) \in Nodes /\ Main \in Nodes /\ Slots \subseteq Nodes
      /\ Rounds \in Nat /\ Spawns \in Nat
      /\ pc[0] \in {"spawn_kmalloc", "spawn_fields"} => slot \in Slots
  BY NodeFacts, OneRuns, ThreadsAssumption DEF Me, OwnInv, SlotInv
<1>1. CASE sched_yield(0)
  BY <1>1 DEF sched_yield, yield_check, yield_alone, yield_claim, cpu_switch, FieldTypes, slots,
     prog
<1>2. CASE thread_reap_yield_from(0)
  BY <1>0, <1>2 DEF thread_reap_yield_from, reap_read, reap_null, reap_check, reap_unlink,
     reap_unlock, reap_kfree, FieldTypes, slots, prog
<1>3. CASE spawn_alloc_slot
  <2>1. spawned' \in 0 .. Spawns
    BY <1>0, <1>3 DEF spawn_alloc_slot, FieldTypes
  <2>2. slot' \in Slots \cup {Null}
    <3>1. CASE Unused = {}
      BY <1>3, <3>1 DEF spawn_alloc_slot, FieldTypes
    <3>2. CASE Unused # {}
      <4>1. slot' \in Slots
        BY <1>3, <3>2, FreeSlot DEF spawn_alloc_slot, Unused
      <4> QED BY <4>1
    <3> QED BY <3>1, <3>2
  <2> QED BY <1>3, <2>1, <2>2 DEF spawn_alloc_slot, FieldTypes, slots
<1>4. CASE spawn_kmalloc \/ spawn_enqueue
  BY <1>4 DEF spawn_kmalloc, spawn_enqueue, FieldTypes, prog
<1>5. CASE spawn_fields
  <2>1. fn' = [fn EXCEPT ![slot] = IF spawned = 1 THEN "worker_a" ELSE "worker_b"]
        /\ left' = [left EXCEPT ![slot] = Rounds] /\ UNCHANGED <<lock, depth, slot, spawned>>
    BY <1>5 DEF spawn_fields
  <2> QED BY <1>0, <2>1 DEF FieldTypes
<1>6. CASE main_loop
  BY <1>0, <1>6 DEF main_loop, FieldTypes, slots, heap
<1>7. CASE thread_fn(0)
  <2>1. CASE worker_critical_begin(0) \/ worker_critical_end(0)
    BY <2>1 DEF worker_critical_begin, worker_critical_end, FieldTypes, slots, prog
  <2>2. CASE worker_round(0)
    BY <1>0, <2>2 DEF worker_round, FieldTypes, slots
  <2>3. CASE thread_trampoline(0) \/ worker_exit(0) \/ zombie_loop(0)
    BY <2>3 DEF thread_trampoline, worker_exit, zombie_loop, FieldTypes, slots, prog
  <2> QED BY <1>7, <2>1, <2>2, <2>3 DEF thread_fn
<1>8. CASE sched_checkpoint(0) \/ thread_ap_online(0) \/ ap_loop_yield(0)
  BY <1>8 DEF sched_checkpoint, thread_ap_online, ap_loop_yield, FieldTypes, slots, prog
<1> QED BY <1>1, <1>2, <1>3, <1>4, <1>5, <1>6, <1>7, <1>8 DEF Step, thread_demo_run

\* Between a call of sched_yield and its return.
Yielding == {"yield", "pick", "switch", "reap", "reap_null", "reap_check", "reap_lock",
             "reap_stack", "reap_free"}

ReturnInv ==
  /\ pc[0] # "none"
  /\ pc[0] \in Yielding => ret[Runs] # "none"
  /\ \A t \in Nodes \ {Runs} : state[t] # "UNUSED" => esp[t].fresh \/ ret[t] # "none"

LEMMA ReturnInit == ASSUME NCPU = 1, Init PROVE ReturnInv
<1>1. IdleSlots = {} /\ pc[0] = "spawn" /\ current[0] = Main /\ NCPU = 1
  BY OneFacts, NodeFacts DEF Init, IdleSlots
<1>2. Runs = Main
  BY <1>1 DEF Runs
<1> QED BY <1>1, <1>2 DEF Init, ReturnInv, Yielding


LEMMA ReturnStep ==
  ASSUME NCPU = 1, OwnInv, UniInv, ReturnInv, Step(0)
  PROVE  ReturnInv'
<1> DEFINE me == Runs
<1>0. /\ 0 \in CPUs /\ current[0] \in Nodes /\ me \in Nodes /\ Me(0) = current[0]
      /\ pc[0] # "switch" => me = current[0]
      /\ pc[0] \in Yielding => ret[me] # "none"
      /\ \A t \in Nodes \ {me} : state[t] # "UNUSED" => esp[t].fresh \/ ret[t] # "none"
      /\ pc \in [CPUs -> Labels \cup {"none"}] /\ ret \in [Nodes -> Back]
      /\ state \in [Nodes -> {"UNUSED", "RUNNABLE", "ZOMBIE"}]
      /\ pc[0] # "offline"
  BY NodeFacts, OneRuns DEF Me, Runs, ReturnInv, OwnInv, Shape
<1>1. ASSUME pc[0] # "switch", pc'[0] \notin {"switch", "none"}, UNCHANGED <<current, esp>>,
             \A t \in Nodes : state[t] = "UNUSED" => state'[t] = "UNUSED",
             \/ ret' = ret /\ (pc'[0] \in Yielding => ret[me] # "none")
             \/ \E back : back # "none" /\ ret' = [ret EXCEPT ![me] = back]
      PROVE  ReturnInv'
  <2>1. Runs' = me
    BY <1>0, <1>1 DEF Runs
  <2> HIDE DEF me
  <2>2. \A t \in Nodes \ {me} : ret'[t] = ret[t]
    BY <1>0, <1>1
  <2>3. pc'[0] \in Yielding => ret'[me] # "none"
    BY <1>0, <1>1
  <2> QED BY <1>0, <1>1, <2>1, <2>2, <2>3 DEF ReturnInv
<1>2. CASE yield_check(0) \/ yield_alone(0)
  <2>1. pc[0] \in {"yield", "pick"} /\ UNCHANGED <<current, esp, state, ret>>
        /\ \/ pc' = [pc EXCEPT ![0] = ret[me]]
           \/ pc' = [pc EXCEPT ![0] = "pick"]
    BY <1>0, <1>2 DEF yield_check, yield_alone, At, Goto, slots, prog
  <2>2. ret[me] # "none" /\ ret[me] \in Back
    BY <1>0, <2>1 DEF Yielding
  <2>3. pc'[0] \notin {"switch", "none"}
    BY <1>0, <2>1, <2>2 DEF Back
  <2> QED BY <1>1, <2>1, <2>2, <2>3
<1>3. CASE yield_claim(0)
  <2>1. /\ pc[0] = "pick" /\ pc'[0] = "switch" /\ old'[0] = me /\ UNCHANGED <<state, esp, ret>>
    BY <1>0, <1>3 DEF yield_claim, At, Goto, prog, UniInv, StackTypes
  <2>2. Runs' = me
    BY <2>1 DEF Runs
  <2> HIDE DEF me
  <2> QED BY <1>0, <2>1, <2>2 DEF ReturnInv, Yielding
<1>4. CASE cpu_switch(0)
  <2> DEFINE t == current[0]
  <2>1. /\ pc[0] = "switch" /\ new[0] = t /\ old[0] = me /\ me # t
        /\ UNCHANGED <<state, ret, current>>
    BY <1>4 DEF cpu_switch, At, prog, UniInv, RunInv, Runs
  <2>0. esp \in [Nodes -> [on : AllStacks \cup {Null}, fresh : BOOLEAN]] /\ state[t] # "UNUSED"
    BY OneRuns DEF UniInv, StackTypes
  <2>2. pc'[0] = IF esp[t].fresh THEN "tramp" ELSE "reap"
    <3>1. pc' = [pc EXCEPT ![0] = IF esp[new[0]].fresh THEN "tramp" ELSE "reap"]
      BY <1>4 DEF cpu_switch, Goto
    <3>2. pc'[0] = IF esp[new[0]].fresh THEN "tramp" ELSE "reap"
      BY <1>0, <3>1
    <3> QED BY <2>1, <3>2
  <2>3. Runs' = t
    BY <2>1, <2>2 DEF Runs
  <2>4. \A u \in Nodes \ {me} : esp'[u] = esp[u]
    BY <1>4, <2>1 DEF cpu_switch
  <2>5. ret[me] # "none"
    BY <1>0, <2>1 DEF Yielding
  <2>6. pc'[0] \in Yielding => ret[t] # "none"
    BY <1>0, <2>0, <2>1, <2>2 DEF Yielding
  <2> HIDE DEF me, t
  <2>7. \A u \in Nodes \ {t} : state[u] # "UNUSED" => esp'[u].fresh \/ ret[u] # "none"
    BY <1>0, <2>0, <2>4, <2>5
  <2>8. pc'[0] # "none"
    BY <2>2
  <2> QED BY <2>1, <2>3, <2>6, <2>7, <2>8 DEF ReturnInv
<1>5. CASE thread_reap_yield_from(0)
  <2>1. /\ pc[0] \in Yielding \ {"switch"}
        /\ UNCHANGED <<current, esp, ret>>
        /\ \/ pc' = [pc EXCEPT ![0] = ret[me]]
           \/ \E l \in Yielding \ {"switch"} : pc' = [pc EXCEPT ![0] = l]
    BY <1>0, <1>5 DEF thread_reap_yield_from, reap_read, reap_null, reap_check, reap_unlink,
       reap_unlock, reap_kfree, At, Goto, slots, prog, Yielding
  <2>2. ret[me] # "none" /\ ret[me] \in Back
    BY <1>0, <2>1
  <2>3. pc'[0] \notin {"switch", "none"}
    BY <1>0, <2>1, <2>2 DEF Back, Yielding
  <2>4. \A t \in Nodes : state[t] = "UNUSED" => state'[t] = "UNUSED"
    BY <1>0, <1>5 DEF thread_reap_yield_from, reap_read, reap_null, reap_check, reap_unlink,
       reap_unlock, reap_kfree, slots
  <2> HIDE DEF me
  <2> QED BY <1>1, <2>1, <2>2, <2>3, <2>4
<1>6. ASSUME NEW back \in Back \ {"none"}, CallYield(0, back), pc[0] # "switch",
             UNCHANGED <<current, esp, state>>
      PROVE  ReturnInv'
  <2>1. pc'[0] = "yield" /\ ret' = [ret EXCEPT ![me] = back]
    BY <1>0, <1>6 DEF CallYield, Goto
  <2> HIDE DEF me
  <2> QED BY <1>1, <1>6, <2>1
<1>7. ASSUME NEW l \in {"disable", "work", "enable", "checkpoint", "checkpoint2", "zombie", "halt",
                        "spawn", "spawn_kmalloc", "spawn_fields", "ap_yield"},
             pc' = [pc EXCEPT ![0] = l], pc[0] # "switch",
             UNCHANGED <<current, esp, ret>>,
             \A t \in Nodes : state[t] = "UNUSED" => state'[t] = "UNUSED"
      PROVE  ReturnInv'
  <2>1. pc'[0] = l
    BY <1>0, <1>7
  <2> HIDE DEF me
  <2> QED BY <1>1, <1>7, <2>1 DEF Yielding
<1>8. CASE thread_fn(0)
  <2>1. CASE zombie_loop(0)
    BY <1>6, <2>1 DEF zombie_loop, At, slots, Back
  <2>2. CASE worker_exit(0)
    <3>1. \A t \in Nodes : state[t] = "UNUSED" => state'[t] = "UNUSED"
      BY <1>0, <2>2, OneRuns DEF worker_exit
    <3> QED BY <1>7, <2>2, <3>1 DEF worker_exit, At, Goto, prog
  <2>3. CASE \/ thread_trampoline(0) \/ worker_critical_begin(0)
             \/ worker_critical_end(0) \/ worker_round(0)
    <3>1. \E l \in {"disable", "work", "enable", "checkpoint"} : pc' = [pc EXCEPT ![0] = l]
      BY <2>3 DEF thread_trampoline, worker_critical_begin, worker_critical_end, worker_round, Goto
    <3>2. pc[0] # "switch" /\ UNCHANGED <<current, esp, ret, state>>
      BY <2>3 DEF thread_trampoline, worker_critical_begin, worker_critical_end, worker_round, At,
         slots, prog
    <3> QED BY <1>7, <3>1, <3>2
  <2> QED BY <1>8, <2>1, <2>2, <2>3 DEF thread_fn
<1>9. CASE sched_checkpoint(0) \/ ap_loop_yield(0)
  <2>1. After(Me(0)) \in Back \ {"none"} /\ After(Me(0)) \in {"spawn", "work", "ap_yield"}
    BY DEF After, Back
  <2>2. pc[0] # "switch" /\ UNCHANGED <<current, esp, state>>
    BY <1>9 DEF sched_checkpoint, ap_loop_yield, At, slots
  <2>3. \/ \E b \in Back \ {"none"} : CallYield(0, b)
        \/ /\ ret' = ret
           /\ \E l \in {"checkpoint2", "spawn", "work", "ap_yield"} : pc' = [pc EXCEPT ![0] = l]
    <3>1. "checkpoint2" \in Back \ {"none"} /\ "checkpoint" \in Back \ {"none"}
      BY DEF Back
    <3> QED BY <1>9, <2>1, <3>1 DEF sched_checkpoint, ap_loop_yield, Goto
  <2> QED BY <1>6, <1>7, <2>2, <2>3
<1>10. CASE main_loop
  <2>1. pc[0] # "switch" /\ UNCHANGED <<current, esp, state>>
    BY <1>10 DEF main_loop, At, slots
  <2>2. \/ CallYield(0, "checkpoint")
        \/ ret' = ret /\ pc' = [pc EXCEPT ![0] = "halt"]
    BY <1>10 DEF main_loop, Goto
  <2>3. "checkpoint" \in Back \ {"none"}
    BY DEF Back
  <2> QED BY <1>6, <1>7, <2>1, <2>2, <2>3
<1>11. CASE spawn_alloc_slot \/ spawn_kmalloc \/ spawn_enqueue
  <2>1. pc[0] # "switch" /\ UNCHANGED <<current, esp, state, ret>>
    BY <1>11 DEF spawn_alloc_slot, spawn_kmalloc, spawn_enqueue, At, slots, prog
  <2>2. \E l \in {"spawn", "spawn_kmalloc", "spawn_fields"} : pc' = [pc EXCEPT ![0] = l]
    <3>1. CASE spawn_alloc_slot /\ Unused = {}
      <4>1. pc[0] = "spawn" /\ pc' = pc
        BY <3>1 DEF spawn_alloc_slot, At
      <4> QED BY <1>0, <4>1
    <3>2. CASE (spawn_alloc_slot /\ Unused # {}) \/ spawn_kmalloc \/ spawn_enqueue
      BY <3>2 DEF spawn_alloc_slot, spawn_kmalloc, spawn_enqueue, Goto
    <3> QED BY <1>11, <3>1, <3>2
  <2> QED BY <1>7, <2>1, <2>2
<1>12. CASE spawn_fields
  <2>1. /\ pc[0] = "spawn_fields" /\ pc'[0] = "spawn_enqueue" /\ UNCHANGED <<current, ret>>
        /\ slot \in Slots /\ slot \in Nodes
    BY <1>0, <1>12, NodeFacts DEF spawn_fields, At, Goto, OwnInv, SlotInv
  <2>2. /\ esp'[slot].fresh /\ \A t \in Nodes : t # slot => esp'[t] = esp[t] /\ state'[t] = state[t]
    BY <1>0, <1>12, <2>1 DEF spawn_fields, UniInv, StackTypes
  <2>3. Runs' = me
    BY <1>0, <2>1 DEF Runs
  <2> HIDE DEF me
  <2> QED BY <1>0, <2>1, <2>2, <2>3 DEF ReturnInv, Yielding
<1>13. CASE thread_ap_online(0)
  BY <1>0, <1>13 DEF thread_ap_online, At
<1> QED BY <1>2, <1>3, <1>4, <1>5, <1>8, <1>9, <1>10, <1>11, <1>12, <1>13
    DEF Step, sched_yield, thread_demo_run

\* A runnable thread that is not claimed has no token, so that a yield may find it.
TokenInv == \A t \in Nodes : state[t] = "RUNNABLE" /\ token[t] # -1 => t = current[0]

LEMMA TokenInit == ASSUME NCPU = 1, Init PROVE TokenInv
BY NodeFacts DEF Init, TokenInv

LEMMA TokenStep ==
  ASSUME NCPU = 1, OwnInv, UniInv, TokenInv, Step(0)
  PROVE  TokenInv'
<1>0. /\ 0 \in CPUs /\ current[0] \in Nodes /\ Me(0) = current[0] /\ pc[0] # "offline"
      /\ state \in [Nodes -> {"UNUSED", "RUNNABLE", "ZOMBIE"}]
      /\ token \in [Nodes -> {-1} \cup CPUs] /\ current \in [CPUs -> Nodes \cup {Null}]
  BY NodeFacts, OneRuns DEF Me, OwnInv, Shape
<1>1. CASE Quiet(0)
  BY <1>1 DEF Quiet, TokenInv
<1>2. CASE yield_claim(0)
  <2>1. PICK t \in Nodes \ {current[0]} : /\ claim(0, current[0], t)
                                          /\ current' = [current EXCEPT ![0] = t]
    BY <1>0, <1>2 DEF yield_claim
  <2>2. state' = state /\ current'[0] = t
    BY <1>0, <1>2, <2>1 DEF yield_claim
  <2>3. \A u \in Nodes \ {t} : token'[u] = IF u = current[0] /\ state[u] = "RUNNABLE"
                                           THEN -1 ELSE token[u]
    BY <1>0, <2>1 DEF claim
  <2> QED BY <2>2, <2>3 DEF TokenInv
<1>3. CASE \/ reap_read(0) \/ reap_null(0) \/ reap_check(0)
           \/ spawn_alloc_slot \/ spawn_kmalloc \/ spawn_enqueue
  BY <1>3 DEF reap_read, reap_null, reap_check, spawn_alloc_slot, spawn_kmalloc, spawn_enqueue,
              slots, TokenInv
<1>4. CASE reap_unlink(0) \/ worker_exit(0)
  <2>1. /\ UNCHANGED <<token, current>>
        /\ \A t \in Nodes : state'[t] = "RUNNABLE" => state[t] = "RUNNABLE"
    BY <1>0, <1>4 DEF reap_unlink, worker_exit
  <2> QED BY <2>1 DEF TokenInv
<1>5. CASE spawn_fields
  <2>1. slot \in Nodes /\ current' = current
    BY <1>5, NodeFacts DEF spawn_fields, At, OwnInv, SlotInv
  <2>2. /\ token'[slot] = -1
        /\ \A t \in Nodes : t # slot => token'[t] = token[t] /\ state'[t] = state[t]
    BY <1>0, <1>5, <2>1 DEF spawn_fields
  <2> QED BY <2>1, <2>2 DEF TokenInv
<1>6. CASE thread_ap_online(0)
  BY <1>0, <1>6 DEF thread_ap_online, At
<1> QED BY <1>0, <1>1, <1>2, <1>3, <1>4, <1>5, <1>6, StepKinds DEF Loud

\* Main is in thread_demo_run and has not begun its loop.
Fresh == left[Main] = MainRounds /\ pc[0] # "halt"

\* The calls of thread_spawn that have come back, and the slots they have filled.
Tried == IF pc[0] = "spawn_kmalloc" THEN spawned - 1 ELSE spawned
Made == IF pc[0] = "spawn_fields" THEN bump - 1 ELSE bump

\* thread_spawn fills the slots in order, until the calls, the stacks or the slots
\* are used up; only then does main begin its loop.
Filling ==
  /\ free = << >>
  /\ bump <= Tried /\ bump <= NStacks /\ bump <= MaxThreads
  /\ bump \in {Tried, NStacks, MaxThreads}
  /\ \A t \in Slots : state[t] = IF t <= Made THEN "RUNNABLE" ELSE "UNUSED"
  /\ pc[0] = "spawn_kmalloc" => slot = bump + 1
  /\ pc[0] = "spawn_fields" => slot = bump

LaunchInv ==
  /\ left[Main] \in 0 .. MainRounds
  /\ left[Main] = MainRounds => pc[0] \in MainLabels
  /\ Spawning => left[Main] = MainRounds
  /\ Fresh => Filling

LEMMA LaunchInit == ASSUME NCPU = 1, Init PROVE LaunchInv
<1>1. /\ IdleSlots = {} /\ pc[0] = "spawn" /\ bump = 0 /\ spawned = 0 /\ free = << >>
      /\ left[Main] = MainRounds /\ MainRounds \in Nat /\ NStacks \in Nat /\ MaxThreads \in Nat
  BY OneFacts, NodeFacts, ThreadsAssumption DEF Init, IdleSlots
<1>2. \A t \in Slots : state[t] = "UNUSED" /\ ~ (t <= 0)
  BY <1>1, NodeFacts DEF Init, Slots
<1>3. Filling
  BY <1>1, <1>2 DEF Filling, Tried, Made
<1> QED BY <1>1, <1>3 DEF LaunchInv, MainLabels

SpawnStep == spawn_alloc_slot \/ spawn_kmalloc \/ spawn_fields \/ spawn_enqueue

\* It is main_loop that ends the launch.
LEMMA LaunchStep ==
  ASSUME NCPU = 1, OwnInv, UniInv, FieldTypes, LaunchInv, Step(0)
  PROVE  /\ LaunchInv'
         /\ SpawnStep => Fresh /\ Fresh'
         /\ ~ SpawnStep => ~ Fresh' /\ (Fresh => main_loop)
<1>0. /\ 0 \in CPUs /\ current[0] \in Nodes /\ Me(0) = current[0] /\ pc[0] # "offline"
      /\ pc \in [CPUs -> Labels \cup {"none"}]
      /\ state \in [Nodes -> {"UNUSED", "RUNNABLE", "ZOMBIE"}]
      /\ left \in [Nodes -> Nat] /\ Main \in Nodes /\ Slots = 1 .. MaxThreads
      /\ Slots \subseteq Nodes /\ Main \notin Slots
      /\ spawned \in 0 .. Spawns /\ Spawns \in Nat /\ bump \in 0 .. NStacks
      /\ NStacks \in Nat /\ MaxThreads \in Nat /\ MainRounds \in Nat
  BY NodeFacts, OneRuns, ThreadsAssumption
     DEF Me, OwnInv, Shape, UniInv, StackTypes, FieldTypes, Slots
<1>1. ASSUME SpawnStep PROVE LaunchInv' /\ Fresh /\ Fresh'
  <2>0. /\ Spawning /\ Fresh /\ left[Main] = MainRounds /\ Filling /\ left'[Main] = left[Main]
        /\ pc[0] \in MainLabels
    <3>1. Spawning /\ pc[0] # "halt"
      BY <1>1 DEF SpawnStep, spawn_alloc_slot, spawn_kmalloc, spawn_fields, spawn_enqueue, At,
                  Spawning
    <3>2. left'[Main] = left[Main]
      <4>1. CASE spawn_fields
        <5>1. slot # Main
          BY <1>0, <4>1 DEF spawn_fields, At, OwnInv, SlotInv
        <5> QED BY <1>0, <4>1, <5>1 DEF spawn_fields
      <4> QED BY <1>1, <4>1 DEF SpawnStep, spawn_alloc_slot, spawn_kmalloc, spawn_enqueue, prog
    <3>3. pc[0] \in MainLabels
      BY <1>1 DEF SpawnStep, spawn_alloc_slot, spawn_kmalloc, spawn_fields, spawn_enqueue, At,
                  MainLabels
    <3> QED BY <3>1, <3>2, <3>3 DEF LaunchInv, Fresh
  <2>1. ASSUME pc'[0] \in MainLabels \ {"halt"}, Filling'
        PROVE  LaunchInv' /\ Fresh /\ Fresh'
    BY <1>0, <2>0, <2>1 DEF LaunchInv, Fresh
  <2>2. CASE spawn_alloc_slot
    <3>1. /\ pc[0] = "spawn" /\ spawned < Spawns /\ spawned' = spawned + 1
          /\ UNCHANGED <<free, bump, state>>
      BY <2>2 DEF spawn_alloc_slot, At, heap, slots
    <3>2. /\ Tried = spawned /\ Made = bump
      BY <3>1 DEF Tried, Made
    <3>3. CASE Unused = {}
      <4>1. pc'[0] = "spawn"
        BY <2>2, <3>1, <3>3 DEF spawn_alloc_slot
      <4>2. bump = MaxThreads
        <5>1. CASE bump < MaxThreads
          <6>1. bump + 1 \in Slots /\ ~ (bump + 1 <= bump)
            BY <1>0, <5>1
          <6>2. state[bump + 1] = "UNUSED"
            BY <2>0, <3>2, <6>1 DEF Filling
          <6> QED BY <3>3, <6>1, <6>2 DEF Unused
        <5> QED BY <1>0, <2>0, <5>1 DEF Filling
      <4>3. Tried' = spawned + 1 /\ Made' = bump
        BY <3>1, <4>1 DEF Tried, Made
      <4>4. Filling'
        <5>1. bump <= spawned /\ bump <= NStacks /\ bump <= spawned + 1
          BY <1>0, <2>0, <3>2 DEF Filling
        <5> QED BY <2>0, <3>1, <3>2, <4>1, <4>2, <4>3, <5>1 DEF Filling
      <4> QED BY <2>1, <4>1, <4>4 DEF MainLabels
    <3>4. CASE Unused # {}
      <4>1. slot' \in Unused /\ \A u \in Unused : slot' <= u
        <5>1. slot' = CHOOSE t \in Unused : \A u \in Unused : t <= u
          BY <2>2, <3>4 DEF spawn_alloc_slot
        <5>2. Unused \in SUBSET Nat
          BY <1>0 DEF Unused
        <5>3. \E t \in Unused : \A u \in Unused : t <= u
          BY <3>4, <5>2, Smallest, Zenon
        <5> QED BY <5>1, <5>3
      <4>2. pc'[0] = "spawn_kmalloc"
        BY <1>0, <2>2, <3>4 DEF spawn_alloc_slot, Goto
      <4>3. slot' = bump + 1
        <5>1. slot' \in Slots /\ state[slot'] = "UNUSED"
          BY <4>1 DEF Unused
        <5>2. ~ (slot' <= bump)
          BY <2>0, <3>2, <5>1 DEF Filling
        <5>3. bump + 1 \in Slots /\ ~ (bump + 1 <= bump)
          BY <1>0, <5>1, <5>2
        <5>4. state[bump + 1] = "UNUSED"
          BY <2>0, <3>2, <5>3 DEF Filling
        <5>5. slot' <= bump + 1
          BY <4>1, <5>3, <5>4 DEF Unused
        <5> QED BY <1>0, <5>1, <5>2, <5>5
      <4>4. Tried' = spawned /\ Made' = bump
        BY <1>0, <3>1, <4>2 DEF Tried, Made
      <4>5. Filling'
        BY <2>0, <3>1, <3>2, <4>2, <4>3, <4>4 DEF Filling
      <4> QED BY <2>1, <4>2, <4>5 DEF MainLabels
    <3> QED BY <3>3, <3>4
  <2>3. CASE spawn_kmalloc
    <3>1. /\ pc[0] = "spawn_kmalloc" /\ UNCHANGED <<state, spawned, slot>> /\ slot \in Slots
      BY <2>3 DEF spawn_kmalloc, At, prog, OwnInv, SlotInv
    <3>2. /\ Tried = spawned - 1 /\ Made = bump /\ slot = bump + 1 /\ free = << >>
      BY <2>0, <3>1 DEF Tried, Made, Filling
    <3>3. CASE bump < NStacks
      <4>1. bump' = bump + 1 /\ free' = free /\ pc'[0] = "spawn_fields"
        <5>1. bump # NStacks
          BY <1>0, <3>3
        <5> QED BY <1>0, <2>3, <3>2, <3>3, <5>1 DEF spawn_kmalloc, Goto
      <4>2. Tried' = spawned /\ Made' = bump
        BY <1>0, <3>1, <4>1 DEF Tried, Made
      <4>3. /\ bump + 1 <= spawned /\ bump + 1 <= NStacks /\ bump + 1 <= MaxThreads
            /\ bump + 1 \in {spawned, NStacks, MaxThreads}
        <5>1. bump <= spawned - 1 /\ bump \in {spawned - 1, NStacks, MaxThreads}
          BY <2>0, <3>2 DEF Filling
        <5> QED BY <1>0, <3>1, <3>2, <3>3, <5>1
      <4>4. Filling'
        BY <2>0, <3>1, <3>2, <4>1, <4>2, <4>3 DEF Filling
      <4> QED BY <2>1, <4>1, <4>4 DEF MainLabels
    <3>4. CASE ~ (bump < NStacks)
      <4>1. UNCHANGED <<bump, free>> /\ pc'[0] = "spawn"
        BY <1>0, <2>3, <3>2, <3>4 DEF spawn_kmalloc, Goto, heap
      <4>2. Tried' = spawned /\ Made' = bump
        BY <3>1, <4>1 DEF Tried, Made
      <4>3. bump = NStacks /\ bump <= spawned
        <5>1. bump <= spawned - 1
          BY <2>0, <3>2 DEF Filling
        <5> QED BY <1>0, <3>4, <5>1
      <4>4. Filling'
        <5>1. bump <= MaxThreads
          BY <2>0 DEF Filling
        <5> QED BY <1>0, <2>0, <3>1, <3>2, <4>1, <4>2, <4>3, <5>1 DEF Filling
      <4> QED BY <2>1, <4>1, <4>4 DEF MainLabels
    <3> QED BY <3>3, <3>4
  <2>4. CASE spawn_fields
    <3>1. /\ pc[0] = "spawn_fields" /\ UNCHANGED <<spawned, slot, free, bump>> /\ slot \in Slots
          /\ pc'[0] = "spawn_enqueue" /\ state' = [state EXCEPT ![slot] = "RUNNABLE"]
      BY <1>0, <2>4 DEF spawn_fields, At, Goto, heap, OwnInv, SlotInv
    <3>2. Tried = spawned /\ Tried' = spawned /\ Made = bump - 1 /\ Made' = bump /\ slot = bump
      BY <2>0, <3>1 DEF Tried, Made, Filling
    <3>3. \A t \in Slots : state'[t] = IF t <= bump THEN "RUNNABLE" ELSE "UNUSED"
      <4> SUFFICES ASSUME NEW t \in Slots
                   PROVE  state'[t] = IF t <= bump THEN "RUNNABLE" ELSE "UNUSED"
        OBVIOUS
      <4>1. state[t] = IF t <= bump - 1 THEN "RUNNABLE" ELSE "UNUSED"
        BY <2>0, <3>2 DEF Filling
      <4>2. t <= bump <=> t <= bump - 1 \/ t = bump
        BY <1>0
      <4>3. state'[t] = IF t = bump THEN "RUNNABLE" ELSE state[t]
        BY <1>0, <3>1, <3>2
      <4> QED BY <4>1, <4>2, <4>3
    <3>4. Filling'
      BY <2>0, <3>1, <3>2, <3>3 DEF Filling
    <3> QED BY <2>1, <3>1, <3>4 DEF MainLabels
  <2>5. CASE spawn_enqueue
    <3>1. /\ pc[0] = "spawn_enqueue" /\ UNCHANGED <<spawned, free, bump, state>>
          /\ pc'[0] = "spawn"
      BY <1>0, <2>5 DEF spawn_enqueue, At, Goto, heap, prog
    <3>2. Tried' = Tried /\ Made' = Made
      BY <3>1 DEF Tried, Made
    <3>3. Filling'
      BY <2>0, <3>1, <3>2 DEF Filling
    <3> QED BY <2>1, <3>1, <3>3 DEF MainLabels
  <2> QED BY <1>1, <2>2, <2>3, <2>4, <2>5 DEF SpawnStep
<1>2. ASSUME left'[Main] \in 0 .. MainRounds, left'[Main] < MainRounds, ~ Spawning'
      PROVE  LaunchInv' /\ ~ Fresh'
  BY <1>0, <1>2 DEF LaunchInv, Fresh
<1>3. ASSUME main_loop PROVE LaunchInv' /\ ~ Fresh'
  <2>1. /\ pc[0] = "spawn" /\ spawned = Spawns /\ spawned' = spawned
    BY <1>3 DEF main_loop, At
  <2>2. CASE left[Main] = 0
    <3>1. pc'[0] = "halt" /\ left' = left
      BY <1>0, <1>3, <2>2 DEF main_loop, Goto
    <3>2. ~ Spawning' /\ ~ Fresh'
      BY <1>0, <2>1, <3>1 DEF Spawning, Fresh
    <3> QED BY <3>1, <3>2 DEF LaunchInv, MainLabels
  <2>3. CASE left[Main] # 0
    <3>1. pc'[0] = "yield" /\ left'[Main] = left[Main] - 1
      BY <1>0, <1>3, <2>3 DEF main_loop, CallYield, Goto
    <3>2. ~ Spawning'
      BY <1>0, <2>1, <3>1 DEF Spawning
    <3>3. left'[Main] \in 0 .. MainRounds /\ left'[Main] < MainRounds
      BY <1>0, <2>3, <3>1 DEF LaunchInv
    <3> QED BY <1>2, <3>2, <3>3
  <2> QED BY <2>2, <2>3
<1>4. ASSUME sched_yield(0) \/ thread_reap_yield_from(0) \/ thread_fn(0) \/ sched_checkpoint(0)
             \/ ap_loop_yield(0)
      PROVE  LaunchInv' /\ ~ Fresh /\ ~ Fresh'
  <2>1. pc[0] \notin MainLabels /\ UNCHANGED spawned
    BY <1>4 DEF sched_yield, yield_check, yield_alone, yield_claim, cpu_switch,
       thread_reap_yield_from, reap_read, reap_null, reap_check, reap_unlink, reap_unlock,
       reap_kfree, thread_fn, thread_trampoline, worker_critical_begin, worker_critical_end,
       worker_round, worker_exit, zombie_loop, sched_checkpoint, ap_loop_yield, At, MainLabels, prog
  <2>2. left[Main] \in 0 .. MainRounds /\ left[Main] < MainRounds /\ ~ Spawning /\ ~ Fresh
    BY <1>0, <2>1 DEF LaunchInv, Fresh
  <2>3. pc'[0] \notin {"spawn_kmalloc", "spawn_fields", "spawn_enqueue"}
    <3>1. CASE Calm
      BY <1>0, <3>1 DEF Calm, Back
    <3>2. CASE yield_claim(0) \/ cpu_switch(0)
      BY <1>0, <3>2 DEF yield_claim, cpu_switch, Goto
    <3>3. CASE thread_reap_yield_from(0)
      BY <1>0, <3>3, Returns
         DEF thread_reap_yield_from, reap_read, reap_null, reap_check, reap_unlink, reap_unlock,
             reap_kfree, Goto, Back
    <3>4. CASE worker_exit(0)
      BY <1>0, <3>4 DEF worker_exit, Goto
    <3>5. CASE \/ spawn_alloc_slot \/ spawn_kmalloc \/ spawn_fields \/ spawn_enqueue
      BY <2>1, <3>5 DEF spawn_alloc_slot, spawn_kmalloc, spawn_fields, spawn_enqueue, At, MainLabels
    <3> QED BY <3>1, <3>2, <3>3, <3>4, <3>5, CalmSteps DEF Stirring
  <2>4. left'[Main] <= left[Main] /\ left'[Main] \in Nat
    <3>1. CASE worker_round(0)
      <4>1. left' = [left EXCEPT ![current[0]] = @ - 1] /\ left[current[0]] > 0
        BY <1>0, <3>1 DEF worker_round
      <4> QED BY <1>0, <4>1
    <3>2. CASE ~ worker_round(0)
      <4>1. left' = left
        BY <1>4, <3>2 DEF sched_yield, yield_check, yield_alone, yield_claim, cpu_switch,
           thread_reap_yield_from, reap_read, reap_null, reap_check, reap_unlink, reap_unlock,
           reap_kfree, thread_fn, thread_trampoline, worker_critical_begin, worker_critical_end,
           worker_exit, zombie_loop, sched_checkpoint, ap_loop_yield, prog
      <4> QED BY <1>0, <4>1
    <3> QED BY <3>1, <3>2
  <2>5. ~ Spawning'
    BY <2>1, <2>2, <2>3 DEF Spawning
  <2> QED BY <1>0, <1>2, <2>2, <2>4, <2>5
<1>5. CASE thread_ap_online(0)
  BY <1>0, <1>5 DEF thread_ap_online, At
<1>6. \/ SpawnStep \/ main_loop \/ thread_ap_online(0)
      \/ sched_yield(0) \/ thread_reap_yield_from(0) \/ thread_fn(0) \/ sched_checkpoint(0)
      \/ ap_loop_yield(0)
  BY DEF Step, thread_demo_run, SpawnStep
<1>7. CASE SpawnStep
  BY <1>1, <1>7
<1>8. CASE ~ SpawnStep
  BY <1>3, <1>4, <1>5, <1>6, <1>8
<1> QED BY <1>7, <1>8

MoreInv == FieldTypes /\ ReturnInv /\ TokenInv /\ LaunchInv

LEMMA MoreInit == ASSUME NCPU = 1, Init PROVE MoreInv
BY FieldInit, ReturnInit, TokenInit, LaunchInit DEF MoreInv

LEMMA MoreStep == ASSUME NCPU = 1, OwnInv, UniInv, MoreInv, Step(0) PROVE MoreInv'
BY FieldStep, ReturnStep, TokenStep, LaunchStep DEF MoreInv

LEMMA MoreKept == ASSUME MoreInv, UNCHANGED vars PROVE MoreInv'
<1>1. UNCHANGED <<slots, current, yieldFrom, lock, heap, depth, pc, stack, cpu, prog>>
  BY DEF vars
<1>2. FieldTypes' /\ TokenInv'
  BY <1>1 DEF slots, heap, cpu, prog, MoreInv, FieldTypes, TokenInv
<1>3. ReturnInv'
  BY <1>1 DEF slots, heap, cpu, prog, MoreInv, ReturnInv, Runs
<1>4. LaunchInv'
  BY <1>1 DEF slots, heap, cpu, prog, MoreInv, LaunchInv, Fresh, Filling, Tried, Made, Spawning
<1> QED BY <1>2, <1>3, <1>4 DEF MoreInv

OneInv == ThreadsInv /\ UniInv /\ MoreInv

LEMMA OneNext ==
  ASSUME NCPU = 1, OneInv, [\E c \in CPUs : Step(c)]_vars
  PROVE  OneInv'
<1>0. OwnInv /\ UniInv /\ MoreInv /\ ThreadsInv
  BY DEF OneInv, ThreadsInv
<1>1. CASE Step(0)
  <2>1. ThreadsInv'
    BY <1>0, <1>1, OneDefined, OwnStep, RingStep, OneFacts DEF ThreadsInv, RingInv
  <2>2. UniInv' /\ MoreInv'
    BY <1>0, <1>1, OneStep, MoreStep
  <2> QED BY <2>1, <2>2 DEF OneInv
<1>2. CASE UNCHANGED vars
  <2>1. ThreadsInv'
    BY <1>0, <1>2, ThreadsStep
  <2>2. UniInv'
    BY <1>0, <1>2 DEF vars, slots, heap, cpu, prog, UniInv, StackTypes, RunInv, Runs, Home,
       ZombieInv, CallerInv, PlaceInv, Held, Freeing, Elems, Distinct
  <2>3. MoreInv'
    BY <1>0, <1>2, MoreKept
  <2> QED BY <2>1, <2>2, <2>3 DEF OneInv
<1> QED BY <1>1, <1>2, OneFacts

LEMMA OneInvariant == ASSUME NCPU = 1 PROVE OpenSpec => []OneInv
<1>1. Init => OneInv
  BY ThreadsInit, OneInit, MoreInit DEF OneInv
<1> QED BY <1>1, OneNext, PTL DEF OpenSpec

LEMMA OneParts ==
  ASSUME OneInv
  PROVE  ThreadsInv /\ UniInv /\ MoreInv /\ OwnInv /\ RingInv
BY DEF OneInv, ThreadsInv

\* On one processor the code never does anything undefined: the specification
\* without the guard of Next allows the same behaviours.
THEOREM NeverUndefined == ASSUME NCPU = 1 PROVE OpenSpec => []Defined
<1>1. OneInv => Defined
  BY OneDefined, OneParts
<1> QED BY <1>1, OneInvariant, PTL

\* On one processor no thread ever runs on a stack that was freed, however
\* spawns, switches and reaps follow each other and stacks are used again.
THEOREM StacksSafe == ASSUME NCPU = 1 PROVE OpenSpec => []StackSafe
<1>1. OneInv => StackSafe
  BY OneDefined, OneParts DEF Defined, StackSafe
<1> QED BY <1>1, OneInvariant, PTL

\* No stack is lost and none is in two places, from kmalloc to the kfree of the
\* thread that runs after the zombie.
THEOREM StacksKnown == ASSUME NCPU = 1 PROVE OpenSpec => []StacksAccounted
<1>1. OneInv => StacksAccounted
  <2> SUFFICES ASSUME OneInv, NEW s \in 1 .. bump
               PROVE  Cardinality({ t \in Slots : kstack[t] = s })
                      + Cardinality({ c \in CPUs : At(c, "reap_free") /\ stk[c] = s })
                      + Cardinality({ i \in DOMAIN free : free[i] = s }) = 1
    BY DEF StacksAccounted
  <2> DEFINE B == { t \in Slots : kstack[t] = s }
             F == { c \in CPUs : At(c, "reap_free") /\ stk[c] = s }
             L == { i \in DOMAIN free : free[i] = s }
  <2>0. UniInv
    BY OneParts
  <2>1. s \in Stacks /\ s # Null /\ s <= bump
    BY <2>0, OneFacts, ThreadsAssumption DEF UniInv, StackTypes, Stacks
  <2>2. F = IF Freeing(s) THEN {0} ELSE {}
    BY OneFacts DEF At, Freeing
  <2>3. /\ \A t, u \in B : t = u
        /\ \A i, j \in L : i = j
    BY <2>0, <2>1 DEF UniInv, PlaceInv, Distinct
  <2>4. /\ B # {} <=> \E t \in Slots : kstack[t] = s
        /\ L # {} <=> s \in Elems(free)
        /\ F # {} <=> Freeing(s)
    BY <2>2 DEF Elems
  <2>5. /\ B # {} \/ L # {} \/ F # {}
        /\ B # {} => L = {} /\ F = {}
        /\ L # {} => F = {}
    BY <2>0, <2>1, <2>4 DEF UniInv, PlaceInv
  <2>6. ASSUME NEW X, \A x, y \in X : x = y
        PROVE  Cardinality(X) = IF X = {} THEN 0 ELSE 1
    <3>1. X = {} \/ \E x \in X : X = {x}
      BY <2>6
    <3> QED BY <3>1, FS_EmptySet, FS_Singleton
  <2>7. /\ Cardinality(B) = IF B = {} THEN 0 ELSE 1
        /\ Cardinality(F) = IF F = {} THEN 0 ELSE 1
        /\ Cardinality(L) = IF L = {} THEN 0 ELSE 1
    <3>1. \A x, y \in F : x = y
      BY <2>2
    <3> HIDE DEF B, F, L
    <3> QED BY <2>3, <2>6, <3>1
  <2> HIDE DEF B, F, L
  <2>8. Cardinality(B) + Cardinality(F) + Cardinality(L) = 1
    BY <2>5, <2>7
  <2> QED BY <2>8 DEF B, F, L
<1> QED BY <1>1, OneInvariant, PTL

\* On one processor the state has its type without the guard of Next; that a
\* CPU never returns from a sched_yield that was not called is part of it.
THEOREM OneTyped == ASSUME NCPU = 1 PROVE OpenSpec => []TypeOK
<1>1. OneInv => TypeOK
  <2> SUFFICES ASSUME OneInv PROVE TypeOK
    OBVIOUS
  <2>1. Shape /\ StackTypes /\ FieldTypes /\ pc[0] # "none" /\ CPUs = {0}
    BY OneParts, OneFacts DEF OwnInv, UniInv, MoreInv, ReturnInv
  <2>2. pc \in [CPUs -> Labels]
    BY <2>1 DEF Shape
  <2>3. ret \in [Nodes -> Labels \cup {"none"}]
    <3>1. Back \subseteq Labels \cup {"none"}
      BY DEF Back, Labels
    <3> QED BY <2>1, <3>1 DEF Shape
  <2> QED BY <2>1, <2>2, <2>3 DEF Shape, StackTypes, FieldTypes, TypeOK
<1> QED BY <1>1, OneInvariant, PTL

\* On one processor a thread is passed over only if it does not run at all: a
\* yield switches to a runnable thread whenever another one is runnable.
Finds ==
  pc[0] = "pick" =>
    LET others == { t \in Nodes \ {current[0]} : state[t] = "RUNNABLE" } IN
    IF others = {} THEN pick_next(0, current[0], current[0])
                   ELSE \E t \in others : pick_next(0, current[0], t)

LEMMA OneFinds == ASSUME NCPU = 1, OneInv PROVE Finds
<1> SUFFICES ASSUME pc[0] = "pick" PROVE Finds
  BY DEF Finds
<1>0. /\ OwnInv /\ UniInv /\ MoreInv /\ ThreadsInv /\ Ring /\ UseInv /\ Defined
      /\ CPUs = {0} /\ Nodes = {Main} \cup Slots /\ Null \notin Nodes
      /\ Me(0) = current[0]
  BY OneParts, OneDefined, OneFacts, NodeFacts DEF RingInv, Me
<1>1. ASSUME NEW t \in Nodes \ {current[0]}, state[t] = "RUNNABLE"
      PROVE  OnRing(t) /\ Runnable(0, t)
  <2>1. OnRing(t)
    <3>1. CASE t = Main
      BY <1>0, <3>1 DEF Ring, OnRing
    <3>2. CASE t \in Slots
      BY <1>1, <3>2, <1>0 DEF UseInv, InUse, At, OnRing
    <3> QED BY <1>0, <3>1, <3>2
  <2>2. affinity[t] \in {AnyCPU, 0}
    BY <1>0 DEF OwnInv, Shape
  <2>3. token[t] = -1
    BY <1>0, <1>1 DEF MoreInv, TokenInv
  <2> QED BY <1>1, <2>1, <2>2, <2>3 DEF Runnable
<1>2. IF \E t \in Nodes \ {Me(0)} : OnRing(t) /\ Runnable(0, t)
      THEN \E t \in Nodes \ {Me(0)} : pick_next(0, Me(0), t)
      ELSE pick_next(0, Me(0), Me(0))
  <2>1. NobodyMissed
    BY <1>0, ReachesAll
  <2>2. 0 \in CPUs /\ At(0, "pick")
    BY <1>0 DEF At
  <2> QED BY <1>0, <2>1, <2>2 DEF NobodyMissed
<1>3. \A t \in Nodes \ {Me(0)} : pick_next(0, Me(0), t) => state[t] = "RUNNABLE"
  BY PickRunnable DEF Runnable
<1> QED BY <1>0, <1>1, <1>2, <1>3 DEF Finds, Runnable

\* What a program that contains these threads, on one processor, may rely on.
Reliable == /\ TypeOK /\ Defined /\ StackSafe /\ StacksAccounted
            /\ ClaimExclusive /\ RingIntact /\ NobodyMissed

\* On one processor the threads keep all of these promises at once, without the
\* guard Defined: what x86_64's kernel builds on.
THEOREM OneSafe == ASSUME NCPU = 1 PROVE OpenSpec => []Reliable
<1>1. OneInv => ClaimExclusive /\ RingIntact /\ NobodyMissed
  BY OneParts, WalksRing, ReachesAll DEF OwnInv
<1> QED BY <1>1, OneInvariant, OneTyped, NeverUndefined, StacksSafe, StacksKnown, PTL DEF Reliable

\* When a stack is owned, and a step that touches neither what threads have nor
\* the stack that is being freed leaves the owners alone.
OwnedSpelled == \A s : s \in Owned <=> /\ s \in Stacks
                                       /\ (\E t \in Slots : kstack[t] = s) \/ Freeing(s)

LEMMA OwnedIs == ASSUME NCPU = 1 PROVE OwnedSpelled
BY OneFacts DEF Owned, OwnedSpelled, At, Freeing

LEMMA OwnedNext == ASSUME NCPU = 1 PROVE OwnedSpelled /\ OwnedSpelled'
BY OwnedIs, PTL

LEMMA OwnedKept ==
  ASSUME NCPU = 1, kstack' = kstack, \A s : Freeing(s)' <=> Freeing(s)
  PROVE  Owned' = Owned
BY OwnedNext DEF OwnedSpelled

LEMMA PoolStep ==
  ASSUME NCPU = 1, OwnInv, UniInv, Step(0)
  PROVE  SP!PNext \/ UNCHANGED <<free, bump, Owned>>
<1>0. CASE Calm
  <2>1. \A s : ~ Freeing(s) /\ ~ Freeing(s)'
    <3>1. PICK l \in Back \cup {"yield", "pick", "disable", "enable", "halt"} :
            pc' = [pc EXCEPT ![0] = l]
      BY <1>0 DEF Calm
    <3>2. pc'[0] # "reap_free"
      BY <3>1, OneFacts DEF Back, OwnInv, Shape
    <3> QED BY <1>0, <3>2 DEF Calm, Fixed, Freeing
  <2> QED BY <1>0, <2>1, OwnedKept DEF Calm
<1>1. CASE \/ yield_claim(0) \/ cpu_switch(0) \/ worker_exit(0)
           \/ spawn_alloc_slot \/ spawn_fields \/ spawn_enqueue
           \/ reap_read(0) \/ reap_null(0) \/ reap_check(0) \/ reap_unlink(0)
  <2>1. UNCHANGED <<kstack, free, bump>>
    BY <1>1 DEF yield_claim, cpu_switch, worker_exit, spawn_alloc_slot, spawn_fields, spawn_enqueue,
       reap_read, reap_null, reap_check, reap_unlink, slots, heap
  <2>2. pc[0] # "reap_free" /\ pc'[0] # "reap_free"
    <3>1. ret[Me(0)] # "reap_free" /\ 0 \in CPUs /\ pc \in [CPUs -> Labels \cup {"none"}]
      BY Returns, OneFacts DEF Back, OwnInv, Shape
    <3>2. CASE yield_claim(0) \/ cpu_switch(0) \/ worker_exit(0)
      <4>1. /\ pc[0] # "reap_free"
            /\ \E l \in {"switch", "tramp", "reap", "zombie"} : pc' = [pc EXCEPT ![0] = l]
        <5>1. CASE yield_claim(0)
          BY <5>1 DEF yield_claim, At, Goto
        <5>2. CASE cpu_switch(0)
          BY <5>2 DEF cpu_switch, At, Goto
        <5>3. CASE worker_exit(0)
          BY <5>3 DEF worker_exit, At, Goto
        <5> QED BY <3>2, <5>1, <5>2, <5>3
      <4> QED BY <3>1, <4>1
    <3>3. CASE spawn_alloc_slot \/ spawn_fields \/ spawn_enqueue
      BY <3>1, <3>3 DEF spawn_alloc_slot, spawn_fields, spawn_enqueue, At, Goto
    <3>4. CASE reap_read(0) \/ reap_null(0) \/ reap_check(0) \/ reap_unlink(0)
      BY <3>1, <3>4 DEF reap_read, reap_null, reap_check, reap_unlink, At, Goto
    <3> QED BY <1>1, <3>2, <3>3, <3>4
  <2>3. \A s : ~ Freeing(s) /\ ~ Freeing(s)'
    BY <2>2 DEF Freeing
  <2> QED BY <2>1, <2>3, OwnedKept
<1>2. CASE reap_unlock(0)
  <2>1. /\ z[0] \in Slots /\ stk[0] = kstack[z[0]] /\ pc[0] = "reap_stack" /\ pc'[0] = "reap_free"
        /\ kstack' = [kstack EXCEPT ![z[0]] = Null] /\ kstack \in [Nodes -> Stacks \cup {Null}]
        /\ UNCHANGED <<free, bump, stk>> /\ Slots \subseteq Nodes
    BY <1>2, OneFacts DEF reap_unlock, At, Goto, heap, cpu, UniInv, ZombieInv, StackTypes, OwnInv,
       Shape, Nodes
  <2>2. \A s : ~ Freeing(s) /\ (Freeing(s)' <=> s = kstack[z[0]])
    BY <2>1 DEF Freeing
  <2>3. \A s \in Stacks : ((\E t \in Slots : kstack'[t] = s) \/ s = kstack[z[0]])
                             <=> \E t \in Slots : kstack[t] = s
    BY <2>1, OneFacts
  <2>4. \A s : (s \in Owned') <=> (s \in Owned)
    BY <2>2, <2>3, OwnedNext DEF OwnedSpelled
  <2>5. Owned' = Owned
    BY <2>4
  <2> QED BY <2>1, <2>5
<1>3. CASE reap_kfree(0)
  <2>1. /\ UNCHANGED <<kstack, bump>> /\ free' = << stk[0] >> \o free
        /\ pc[0] = "reap_free" /\ pc'[0] # "reap_free" /\ stk[0] \in Stacks
    <3>1. ret[Me(0)] # "reap_free"
      BY Returns DEF Back
    <3> QED BY <1>3, <3>1, OneFacts DEF reap_kfree, At, Goto, slots, UniInv, ZombieInv, OwnInv, Shape
  <2>2. \A s : (Freeing(s) <=> s = stk[0]) /\ ~ Freeing(s)'
    BY <2>1 DEF Freeing
  <2>3. \A t \in Slots : kstack[t] # stk[0]
    BY <2>2 DEF UniInv, PlaceInv
  <2>4. stk[0] \in Owned /\ Owned' = Owned \ {stk[0]}
    BY <2>1, <2>2, <2>3, OwnedNext, OneFacts DEF OwnedSpelled
  <2> QED BY <2>1, <2>4 DEF SP!PNext, SP!Give
<1>4. CASE spawn_kmalloc
  <2>1. /\ kstack[slot] = Null /\ slot \in Slots /\ pc[0] = "spawn_kmalloc"
        /\ pc'[0] # "reap_free" /\ kstack \in [Nodes -> Stacks \cup {Null}]
        /\ Slots \subseteq Nodes
    BY <1>4, OneFacts DEF spawn_kmalloc, At, Goto, UniInv, PlaceInv, Held, StackTypes, OwnInv,
       Shape, SlotInv, Nodes
  <2>2. \A s : ~ Freeing(s) /\ ~ Freeing(s)'
    BY <2>1 DEF Freeing
  <2>3. ASSUME NEW s \in Stacks, kstack' = [kstack EXCEPT ![slot] = s]
        PROVE  Owned' = Owned \cup {s}
    <3>1. \A u : u # Null => ((\E t \in Slots : kstack'[t] = u)
                              <=> (\E t \in Slots : kstack[t] = u) \/ u = s)
      BY <2>1, <2>3
    <3> QED BY <2>2, <2>3, <3>1, OwnedNext, OneFacts DEF OwnedSpelled
  <2>4. CASE free # << >> /\ kstack' = [kstack EXCEPT ![slot] = Head(free)] /\ free' = Tail(free)
             /\ UNCHANGED bump
    <3>1. Head(free) \in Stacks
      BY <2>4, Pop DEF UniInv, StackTypes, PlaceInv
    <3> QED BY <2>3, <2>4, <3>1 DEF SP!PNext, SP!Take
  <2>5. CASE free = << >> /\ bump < NStacks /\ kstack' = [kstack EXCEPT ![slot] = bump + 1]
             /\ bump' = bump + 1 /\ UNCHANGED free
    <3>1. bump + 1 \in Stacks
      BY <2>5, ThreadsAssumption DEF UniInv, StackTypes, Stacks
    <3> QED BY <2>3, <2>5, <3>1 DEF SP!PNext, SP!Take
  <2>6. CASE kstack' = [kstack EXCEPT ![slot] = Null] /\ UNCHANGED <<free, bump>>
    <3>1. kstack' = kstack
      BY <2>1, <2>6
    <3> QED BY <2>2, <2>6, <3>1, OwnedKept
  <2> QED BY <1>4, <2>4, <2>5, <2>6 DEF spawn_kmalloc, heap
<1> QED BY CalmSteps, <1>0, <1>1, <1>2, <1>3, <1>4 DEF Stirring, thread_reap_yield_from

\* On one processor thread.c keeps to the rules of module StackPool: it takes what
\* the heap has next and gives back each stack once, after no slot has it, so that
\* the heap is called the way module Heap takes for granted.
THEOREM OneStackPool == ASSUME NCPU = 1 PROVE OpenSpec => ImplementsStackPool
<1>1. Init => SP!PInit
  <2> SUFFICES ASSUME Init PROVE SP!PInit
    OBVIOUS
  <2>1. free = << >> /\ bump = 0
    BY DEF Init
  <2>2. \A t \in Slots : kstack[t] = Null
    BY ThreadsAssumption DEF Init, IdleSlots, CPUs, Nodes
  <2>3. \A s : ~ Freeing(s)
    BY OneFacts DEF Init, Freeing
  <2>4. Owned = {}
    BY <2>2, <2>3, OwnedIs, OneFacts DEF OwnedSpelled
  <2> QED BY <2>1, <2>4 DEF SP!PInit
<1>2. OneInv /\ [\E c \in CPUs : Step(c)]_vars => [SP!PNext]_<<free, bump, Owned>>
  <2> SUFFICES ASSUME OneInv, [\E c \in CPUs : Step(c)]_vars
               PROVE  SP!PNext \/ UNCHANGED <<free, bump, Owned>>
    OBVIOUS
  <2>1. CASE Step(0)
    BY <2>1, PoolStep, OneParts
  <2>2. CASE UNCHANGED vars
    <3>1. UNCHANGED <<kstack, free, bump, stk, pc>>
      BY <2>2 DEF vars, slots, heap, cpu
    <3> QED BY <3>1, OwnedKept DEF Freeing
  <2> QED BY <2>1, <2>2, OneFacts
<1> QED BY <1>1, <1>2, OneInvariant, PTL DEF OpenSpec, ImplementsStackPool, SP!PSpec

-----------------------------------------------------------------------------
(***************************************************************************)
(* One CPU: how many times a thread still has to be switched to.  A worker *)
(* yields at most twice a round; whenever main has yielded in its loop and *)
(* is back, every thread that could run has been switched to at least once *)
(* in between, because the walks of pick_next have gone round the ring.    *)
(***************************************************************************)
Late(t) == ret[t] = "checkpoint2"

\* The turns behind the one it has now that a thread at label l may take before its
\* next round; a thread that waits for its turn is in the middle of sched_yield.
Level(l, late) ==
  IF l \in {"yield", "pick"} THEN IF late THEN 2 ELSE 1
  ELSE IF l \in Yielding THEN IF late THEN 1 ELSE 0
  ELSE IF l = "checkpoint" THEN 2
  ELSE IF l = "checkpoint2" THEN 1 ELSE 0

Yields(t) == Level(IF t = current[0] THEN pc[0] ELSE "pick", Late(t))

Turns(t) == 2 * left[t] + Yields(t)

\* What a thread may need once main has gone round its loop this often.
Budget == 2 * Rounds + 1 + left[Main] - MainRounds

\* Main has called the sched_yield of its loop and is not back.
Pending == ret[Main] = "checkpoint" /\ (current[0] # Main \/ pc[0] \in {"yield", "pick"})

\* The stretch of the ring from main to the thread that runs: the walks since
\* main yielded have passed it.
Arc(D) == {Main, current[0]} \subseteq D /\ \A p \in D \ {current[0]} : next[p] \in D

InTime(D) ==
  \A t \in Slots : state[t] = "RUNNABLE" =>
                     Turns(t) <= IF t \in D THEN Budget ELSE Budget + 1

RoundInv == IF Pending THEN \E D \in SUBSET Nodes : Arc(D) /\ InTime(D) ELSE InTime(Nodes)

\* Main and the workers do not get into each other's code, no yield of main is
\* refused, and main halts at the end of its loop only.
CourseInv ==
  /\ pc[0] \in {"tramp", "disable", "enable", "work", "zombie"} => current[0] # Main
  /\ pc[0] # "ap_yield"
  /\ pc[0] = "halt" => left[Main] = 0
  /\ pc[0] = "zombie" => state[current[0]] # "RUNNABLE"
  /\ depth = IF pc[0] = "enable" THEN 1 ELSE 0
  /\ ~ esp[Main].fresh /\ ret[Main] \in {"none", "checkpoint", "checkpoint2", "spawn"}
  /\ \A t \in Nodes : fn[t] # "ap_idle_fn"
  /\ \A t \in Slots : /\ ret[t] \in {"none", "checkpoint2", "work", "zombie"}
                      /\ ret[t] = "zombie" => state[t] # "RUNNABLE"
  /\ Fresh => \A t \in Slots : ret[t] = "none"

LEMMA TurnTypes ==
  ASSUME OneInv
  PROVE  /\ \A t \in Nodes : left[t] \in Nat /\ Yields(t) \in {0, 1, 2} /\ Turns(t) \in Nat
         /\ Budget \in Int /\ Rounds \in Nat /\ MainRounds \in Nat
<1>1. /\ left \in [Nodes -> Nat] /\ Rounds \in Nat /\ MainRounds \in Nat /\ Main \in Nodes
  BY ThreadsAssumption, NodeFacts DEF OneInv, MoreInv, FieldTypes
<1>2. ASSUME NEW t \in Nodes PROVE left[t] \in Nat /\ Yields(t) \in {0, 1, 2} /\ Turns(t) \in Nat
  <2>1. Yields(t) \in {0, 1, 2}
    BY DEF Yields, Level
  <2> QED BY <1>1, <2>1 DEF Turns
<1>3. Budget \in Int
  BY <1>1 DEF Budget
<1> QED BY <1>1, <1>2, <1>3

TurnsTyped == (\A t \in Nodes : Turns(t) \in Nat) /\ Budget \in Int

LEMMA TurnsNext == OneInv' => TurnsTyped'
<1>1. OneInv => TurnsTyped
  BY TurnTypes DEF TurnsTyped
<1> QED BY <1>1, PTL

\* A step that lets nobody in and gives nobody more turns.
Settled ==
  /\ UNCHANGED <<next, current>> /\ left'[Main] = left[Main]
  /\ \A t \in Slots : state'[t] = "RUNNABLE" => state[t] = "RUNNABLE" /\ Turns(t)' <= Turns(t)
  /\ Pending' <=> Pending

LEMMA RoundSettled ==
  ASSUME OneInv, OneInv', RoundInv, Settled
  PROVE  RoundInv'
<1>1. /\ \A t \in Slots : Turns(t) \in Nat /\ Turns(t)' \in Nat
      /\ Budget \in Int /\ Budget' = Budget
  <2>1. \A t \in Slots : Turns(t) \in Nat /\ Turns(t)' \in Nat
    BY TurnTypes, TurnsNext, NodeFacts DEF TurnsTyped
  <2>2. Budget \in Int /\ Budget' = Budget
    BY TurnTypes DEF Settled, Budget
  <2> QED BY <2>1, <2>2
<1>2. ASSUME NEW D, InTime(D) PROVE InTime(D)'
  <2> SUFFICES ASSUME NEW t \in Slots, state'[t] = "RUNNABLE"
               PROVE  Turns(t)' <= IF t \in D THEN Budget' ELSE Budget' + 1
    BY DEF InTime
  <2>1. Turns(t)' <= Turns(t) /\ Turns(t) <= IF t \in D THEN Budget ELSE Budget + 1
    BY <1>2 DEF InTime, Settled
  <2> QED BY <1>1, <2>1
<1>3. \A D : Arc(D) => Arc(D)'
  BY DEF Arc, Settled
<1> QED BY <1>2, <1>3 DEF RoundInv, Settled

\* What a step of the thread that runs leaves alone while it goes on.
Onward ==
  /\ UNCHANGED <<current, fn>> /\ ~ esp'[Main].fresh /\ ~ Fresh' /\ left'[Main] = left[Main]
  /\ \A t \in Slots : state'[t] = "RUNNABLE" => state[t] = "RUNNABLE"
  /\ \A t \in Nodes \ {current[0]} : ret'[t] = ret[t] /\ left'[t] = left[t]

LEMMA CourseKept ==
  ASSUME NCPU = 1, OneInv, CourseInv, Onward,
         NEW me, me = current[0],
         \/ ret'[me] = ret[me]
         \/ me = Main /\ ret'[me] \in {"checkpoint", "checkpoint2", "spawn"}
         \/ me # Main /\ ret'[me] \in {"checkpoint2", "work"}
         \/ me # Main /\ ret'[me] = "zombie" /\ state[me] # "RUNNABLE",
         pc'[0] \in {"tramp", "disable", "enable", "work", "zombie"} => me # Main,
         pc'[0] \notin {"ap_yield", "halt"},
         pc'[0] = "zombie" => state'[me] # "RUNNABLE",
         depth' = IF pc'[0] = "enable" THEN 1 ELSE 0
  PROVE  CourseInv'
<1>1. /\ me \in Nodes /\ Nodes = {Main} \cup Slots /\ Main \notin Slots
  BY NodeFacts, OneRuns, OneParts
<1>2. ret'[Main] \in {"none", "checkpoint", "checkpoint2", "spawn"}
  <2>1. CASE me = Main
    BY <2>1 DEF CourseInv
  <2>2. CASE me # Main
    BY <1>1, <2>2 DEF CourseInv, Onward
  <2> QED BY <2>1, <2>2
<1>3. ASSUME NEW t \in Slots
      PROVE  /\ ret'[t] \in {"none", "checkpoint2", "work", "zombie"}
             /\ ret'[t] = "zombie" => state'[t] # "RUNNABLE"
  <2>1. CASE t = me
    BY <1>1, <2>1 DEF CourseInv, Onward
  <2>2. CASE t # me
    BY <1>1, <2>2 DEF CourseInv, Onward
  <2> QED BY <2>1, <2>2
<1>4. pc'[0] = "zombie" => state'[current'[0]] # "RUNNABLE"
  BY DEF Onward
<1>5. pc'[0] \in {"tramp", "disable", "enable", "work", "zombie"} => current'[0] # Main
  BY DEF Onward
<1> QED BY <1>2, <1>3, <1>4, <1>5 DEF CourseInv, Onward

LEMMA RoundKept ==
  ASSUME NCPU = 1, OneInv, OneInv', CourseInv, RoundInv, Onward, next' = next,
         NEW me, me = current[0],
         me # Main /\ state'[me] = "RUNNABLE" => Turns(me)' <= Turns(me),
         me = Main => (Pending' <=> Pending)
  PROVE  RoundInv'
<1>1. me \in Nodes /\ Nodes = {Main} \cup Slots /\ Main \notin Slots
  BY NodeFacts, OneRuns, OneParts
<1>2. Pending' <=> Pending
  <2>1. CASE me # Main
    BY <1>1, <2>1 DEF Pending, Onward
  <2> QED BY <2>1
<1>3. ASSUME NEW t \in Slots, state'[t] = "RUNNABLE"
      PROVE  state[t] = "RUNNABLE" /\ Turns(t)' <= Turns(t)
  <2>1. state[t] = "RUNNABLE"
    BY <1>3 DEF Onward
  <2>2. CASE t = me
    BY <1>1, <1>3, <2>1, <2>2
  <2>3. CASE t # me
    <3>1. /\ t # current[0] /\ t # current'[0] /\ t \in Nodes
          /\ ret'[t] = ret[t] /\ left'[t] = left[t]
      BY <1>1, <2>3 DEF Onward
    <3>2. Yields(t)' = Yields(t)
      BY <3>1 DEF Yields, Late
    <3>3. Turns(t)' = Turns(t)
      BY <3>1, <3>2 DEF Turns
    <3>4. Turns(t) \in Nat
      BY <3>1, TurnTypes
    <3> QED BY <2>1, <3>3, <3>4
  <2> QED BY <2>2, <2>3
<1>4. Settled
  BY <1>2, <1>3 DEF Settled, Onward
<1> QED BY <1>4, RoundSettled

\* The thread that runs goes on to label l.
LEMMA GoesOn ==
  ASSUME NCPU = 1, OneInv, OneInv', CourseInv, RoundInv,
         NEW l, pc' = [pc EXCEPT ![0] = l], NEW me, me = current[0],
         UNCHANGED <<state, current, fn, ret, left, next>>, ~ esp'[Main].fresh, ~ Fresh',
         l \in {"tramp", "disable", "enable", "work", "zombie"} => me # Main,
         l \notin {"ap_yield", "halt"},
         l = "zombie" => state[me] # "RUNNABLE",
         depth' = IF l = "enable" THEN 1 ELSE 0,
         me # Main /\ state[me] = "RUNNABLE" => Level(l, Late(me)) <= Level(pc[0], Late(me)),
         me = Main => (l \in {"yield", "pick"} <=> pc[0] \in {"yield", "pick"})
  PROVE  CourseInv' /\ RoundInv'
<1>1. /\ pc'[0] = l /\ me \in Nodes /\ left[me] \in Nat
  BY OneParts, OneRuns, NodeFacts, TurnTypes DEF OwnInv, Shape
<1>2. Onward
  BY DEF Onward
<1>3. CourseInv'
  BY <1>1, <1>2, CourseKept
<1>4. me # Main /\ state'[me] = "RUNNABLE" => Turns(me)' <= Turns(me)
  <2> SUFFICES ASSUME me # Main, state[me] = "RUNNABLE" PROVE Turns(me)' <= Turns(me)
    OBVIOUS
  <2>1. Yields(me)' = Level(l, Late(me)) /\ Yields(me) = Level(pc[0], Late(me))
    BY <1>1 DEF Yields, Late
  <2>2. Yields(me)' <= Yields(me)
    BY <2>1
  <2>3. Yields(me) \in {0, 1, 2} /\ Yields(me)' \in {0, 1, 2}
    BY DEF Yields, Level
  <2>4. Turns(me)' = 2 * left[me] + Yields(me)' /\ Turns(me) = 2 * left[me] + Yields(me)
    BY DEF Turns
  <2> QED BY <1>1, <2>2, <2>3, <2>4
<1>5. me = Main => (Pending' <=> Pending)
  BY <1>1 DEF Pending
<1> QED BY <1>2, <1>3, <1>4, <1>5, RoundKept

\* The thread that runs calls sched_yield.
LEMMA Calls ==
  ASSUME NCPU = 1, OneInv, OneInv', CourseInv, RoundInv,
         NEW back, CallYield(0, back), NEW me, me = current[0],
         UNCHANGED <<state, current, fn, left, next, depth>>, ~ esp'[Main].fresh, ~ Fresh',
         pc[0] \notin {"yield", "pick", "enable"},
         \/ me = Main /\ back \in {"checkpoint2", "spawn"}
         \/ me # Main /\ back \in {"checkpoint2", "work"}
         \/ me # Main /\ back = "zombie" /\ state[me] # "RUNNABLE",
         me # Main /\ state[me] = "RUNNABLE"
           => Level("yield", back = "checkpoint2") <= Level(pc[0], Late(me))
  PROVE  CourseInv' /\ RoundInv'
<1>1. /\ me \in Nodes /\ left[me] \in Nat /\ pc'[0] = "yield" /\ ret'[me] = back
      /\ \A t \in Nodes \ {me} : ret'[t] = ret[t]
  BY OneParts, OneRuns, NodeFacts, TurnTypes DEF OwnInv, Shape, CallYield, Goto, Me
<1>2. Onward
  BY <1>1 DEF Onward
<1>3. depth' = IF pc'[0] = "enable" THEN 1 ELSE 0
  BY <1>1 DEF CourseInv
<1>4. CourseInv'
  BY <1>1, <1>2, <1>3, CourseKept
<1>5. me # Main /\ state'[me] = "RUNNABLE" => Turns(me)' <= Turns(me)
  <2> SUFFICES ASSUME me # Main, state[me] = "RUNNABLE" PROVE Turns(me)' <= Turns(me)
    OBVIOUS
  <2>1. Yields(me)' = Level("yield", back = "checkpoint2") /\ Yields(me) = Level(pc[0], Late(me))
    BY <1>1 DEF Yields, Late
  <2>2. Yields(me)' <= Yields(me)
    BY <2>1
  <2>3. Yields(me) \in {0, 1, 2} /\ Yields(me)' \in {0, 1, 2}
    BY DEF Yields, Level
  <2>4. Turns(me)' = 2 * left[me] + Yields(me)' /\ Turns(me) = 2 * left[me] + Yields(me)
    BY DEF Turns
  <2> QED BY <1>1, <2>2, <2>3, <2>4
<1>6. me = Main => (Pending' <=> Pending)
  BY <1>1 DEF Pending
<1> QED BY <1>2, <1>4, <1>5, <1>6, RoundKept

\* What the steps below have in common.
Stage == NCPU = 1 /\ OneInv /\ OneInv' /\ CourseInv /\ RoundInv

LEMMA StageFacts ==
  ASSUME Stage
  PROVE  /\ NCPU = 1 /\ OneInv /\ OneInv' /\ CourseInv /\ RoundInv
         /\ current[0] \in Nodes /\ Me(0) = current[0] /\ Nodes = {Main} \cup Slots /\ Main \notin Slots
         /\ pc[0] # "offline" /\ ~ esp[Main].fresh /\ ret[current[0]] \in Back
         /\ depth = IF pc[0] = "enable" THEN 1 ELSE 0
         /\ OwnInv /\ UniInv /\ pc \in [CPUs -> Labels \cup {"none"}] /\ 0 \in CPUs
BY OneParts, OneRuns, NodeFacts DEF Stage, Me, CourseInv, OwnInv, Shape

\* A sched_yield that comes back, alone or when the thread was claimed again.
LEMMA ComesBack ==
  ASSUME Stage, pc' = [pc EXCEPT ![0] = ret[current[0]]],
         UNCHANGED <<state, current, fn, ret, left, next, esp, depth>>, ~ Fresh',
         pc[0] \in Yielding \ {"yield"}, pc[0] = "pick" => current[0] # Main
  PROVE  CourseInv' /\ RoundInv'
<1> DEFINE me == current[0]
           l == ret[me]
<1>0. /\ NCPU = 1 /\ OneInv /\ OneInv' /\ CourseInv /\ RoundInv /\ me \in Nodes
      /\ Nodes = {Main} \cup Slots /\ ~ esp'[Main].fresh
      /\ depth' = 0
  BY StageFacts DEF Yielding
<1>1. CASE me = Main
  <2>1. l \in {"none", "checkpoint", "checkpoint2", "spawn"}
    BY <1>1 DEF Stage, CourseInv
  <2> HIDE DEF l, me
  <2> QED BY <1>0, <1>1, <2>1, GoesOn DEF me, l, Yielding
<1>2. CASE me # Main
  <2>1. l \in {"none", "checkpoint2", "work", "zombie"} /\ (l = "zombie" => state[me] # "RUNNABLE")
    BY <1>0, <1>2 DEF Stage, CourseInv
  <2>2. l # "zombie" => Level(l, Late(me)) <= Level(pc[0], Late(me))
    BY <2>1 DEF Level, Late, Yielding
  <2> QED BY <1>0, <1>2, <2>1, <2>2, GoesOn
<1> QED BY <1>1, <1>2

\* pick_next finds one thread.
LEMMA PickOnce ==
  ASSUME next \in [Nodes -> Nodes \cup {Null}], NEW c, NEW me \in Nodes,
         NEW t, NEW u, pick_next(c, me, t), pick_next(c, me, u)
  PROVE  t = u
<1> DEFINE W == Walk(me)
           stop(v) == v \in {me, Null} \/ Runnable(c, v)
<1>1. DOMAIN W = 1 .. MaxThreads + 1 /\ MaxThreads \in Nat
  BY WalkSteps, NodeFacts
<1>2. PICK i \in DOMAIN W : W[i] = t /\ stop(W[i]) /\ \A j \in 1 .. i - 1 : ~ stop(W[j])
  BY DEF pick_next
<1>3. PICK k \in DOMAIN W : W[k] = u /\ stop(W[k]) /\ \A j \in 1 .. k - 1 : ~ stop(W[j])
  BY DEF pick_next
<1> HIDE DEF W, stop
<1>4. ~ (i < k) /\ ~ (k < i)
  BY <1>1, <1>2, <1>3
<1>5. i = k
  BY <1>1, <1>4
<1> QED BY <1>2, <1>3, <1>5

\* A yield that switches to nobody.
LEMMA TurnStays ==
  ASSUME Stage, yield_check(0) \/ yield_alone(0), ~ Fresh'
  PROVE  CourseInv' /\ RoundInv'
<1> DEFINE me == current[0]
<1>0. /\ NCPU = 1 /\ OneInv /\ OneInv' /\ CourseInv /\ RoundInv /\ me \in Nodes
      /\ Nodes = {Main} \cup Slots /\ ~ esp[Main].fresh /\ Me(0) = me
      /\ depth = IF pc[0] = "enable" THEN 1 ELSE 0
      /\ UNCHANGED <<state, current, fn, ret, left, next, esp, depth>>
  BY StageFacts DEF yield_check, yield_alone, slots, prog
<1>1. CASE yield_check(0)
  <2>1. pc[0] = "yield" /\ pc' = [pc EXCEPT ![0] = "pick"] /\ depth = 0
    BY <1>0, <1>1 DEF yield_check, At, Goto
  <2>2. ASSUME NEW l, l = "pick", pc' = [pc EXCEPT ![0] = l] PROVE CourseInv' /\ RoundInv'
    <3>1. Level(l, Late(me)) = Level(pc[0], Late(me)) /\ Level(pc[0], Late(me)) \in {1, 2}
      BY <2>1, <2>2 DEF Level
    <3>2. Level(l, Late(me)) <= Level(pc[0], Late(me))
      BY <3>1
    <3>3. me = current[0]
      OBVIOUS
    <3>4. UNCHANGED <<state, current, fn, ret, left, next>> /\ ~ esp'[Main].fresh
      BY <1>0
    <3>5. /\ l \notin {"tramp", "disable", "enable", "work", "zombie"}
          /\ l \notin {"ap_yield", "halt"} /\ l # "zombie"
          /\ depth' = IF l = "enable" THEN 1 ELSE 0
          /\ l \in {"yield", "pick"} <=> pc[0] \in {"yield", "pick"}
      BY <1>0, <2>1, <2>2
    <3> HIDE DEF me
    <3> QED BY <1>0, <2>2, <3>2, <3>3, <3>4, <3>5, GoesOn
  <2> QED BY <2>1, <2>2
<1>2. CASE yield_alone(0)
  <2>1. pc[0] = "pick" /\ pc' = [pc EXCEPT ![0] = ret[me]] /\ pick_next(0, me, me) /\ depth = 0
    BY <1>0, <1>2 DEF yield_alone, At, Goto
  <2>2. CASE me # Main
    BY <1>0, <2>1, <2>2, ComesBack DEF Yielding
  <2>3. CASE me = Main
    <3>1. ret[me] \in {"none", "checkpoint", "checkpoint2", "spawn"}
      BY <1>0, <2>3 DEF CourseInv
    <3>2. pc'[0] = ret[me]
      BY <2>1, StageFacts
    <3>3. Onward
      BY <1>0 DEF Onward
    <3>4. CourseInv'
      BY <1>0, <2>1, <2>3, <3>1, <3>2, <3>3, CourseKept
    <3>5. \A t \in Slots : state[t] # "RUNNABLE"
      <4> SUFFICES ASSUME NEW t \in Slots, state[t] = "RUNNABLE" PROVE FALSE
        OBVIOUS
      <4>1. PICK u \in Nodes \ {me} : pick_next(0, me, u)
        <5>1. t \in Nodes \ {me}
          BY <2>3, NodeFacts
        <5> QED BY <1>0, <2>1, <5>1, OneFinds DEF Finds
      <4> QED BY <1>0, <2>1, <4>1, PickOnce, StageFacts DEF OwnInv, Shape
    <3>6. InTime(Nodes)'
      BY <1>0, <3>5 DEF InTime
    <3>7. ~ Pending'
      BY <1>0, <2>3, <3>1, <3>2 DEF Pending
    <3> QED BY <3>4, <3>6, <3>7 DEF RoundInv
  <2> QED BY <2>2, <2>3
<1> QED BY <1>1, <1>2

\* cpu_switch, and the reaping but for the removal of a zombie from the ring.
LEMMA TurnSwitches ==
  ASSUME Stage, ~ Fresh',
         \/ cpu_switch(0) \/ reap_read(0) \/ reap_null(0) \/ reap_check(0)
         \/ reap_unlock(0) \/ reap_kfree(0)
  PROVE  CourseInv' /\ RoundInv'
<1> DEFINE me == current[0]
<1>0. /\ NCPU = 1 /\ OneInv /\ OneInv' /\ CourseInv /\ RoundInv /\ me \in Nodes
      /\ Nodes = {Main} \cup Slots /\ ~ esp[Main].fresh /\ Me(0) = me
      /\ depth = IF pc[0] = "enable" THEN 1 ELSE 0
      /\ UNCHANGED <<state, current, fn, ret, left, next, depth>>
      /\ pc[0] \in Yielding \ {"yield", "pick"} /\ depth = 0
  <2>1. /\ UNCHANGED <<state, current, fn, ret, left, next, depth>>
        /\ pc[0] \in Yielding \ {"yield", "pick"}
    BY DEF cpu_switch, reap_read, reap_null, reap_check, reap_unlock, reap_kfree,
           slots, prog, At, Yielding
  <2> QED BY <2>1, StageFacts DEF Yielding
<1>1. ASSUME NEW l \in Yielding \ {"yield", "pick"}, pc' = [pc EXCEPT ![0] = l], ~ esp'[Main].fresh
      PROVE  CourseInv' /\ RoundInv'
  <2>1. Level(l, Late(me)) = Level(pc[0], Late(me)) /\ Level(pc[0], Late(me)) \in {0, 1}
    BY <1>0, <1>1 DEF Level
  <2>2. Level(l, Late(me)) <= Level(pc[0], Late(me))
    BY <2>1
  <2> HIDE DEF me
  <2> QED BY <1>0, <1>1, <2>2, GoesOn DEF me, Yielding
<1>2. CASE cpu_switch(0)
  <2>1. /\ esp' = [esp EXCEPT ![old[0]] = [on |-> stack[0], fresh |-> FALSE]]
        /\ new[0] = me /\ pc' = [pc EXCEPT ![0] = IF esp[me].fresh THEN "tramp" ELSE "reap"]
    BY <1>2, StageFacts DEF cpu_switch, Goto, At, UniInv, RunInv
  <2>2. ~ esp'[Main].fresh
    <3>1. esp \in [Nodes -> [on : AllStacks \cup {Null}, fresh : BOOLEAN]] /\ Main \in Nodes
      BY StageFacts, NodeFacts DEF UniInv, StackTypes
    <3> QED BY <1>0, <2>1, <3>1
  <2>3. CASE esp[me].fresh
    <3>1. me # Main /\ pc' = [pc EXCEPT ![0] = "tramp"]
      BY <1>0, <2>1, <2>3
    <3>2. ASSUME NEW l, l = "tramp", pc' = [pc EXCEPT ![0] = l] PROVE CourseInv' /\ RoundInv'
      <4>1. Level(l, Late(me)) = 0 /\ Level(pc[0], Late(me)) \in {0, 1, 2}
        BY <3>2 DEF Level, Yielding
      <4>2. Level(l, Late(me)) <= Level(pc[0], Late(me))
        BY <4>1
      <4>3. me = current[0]
        OBVIOUS
      <4>4. UNCHANGED <<state, current, fn, ret, left, next>>
        BY <1>0
      <4>5. /\ l \notin {"ap_yield", "halt"} /\ l # "zombie"
            /\ depth' = IF l = "enable" THEN 1 ELSE 0
        BY <1>0, <3>2
      <4> HIDE DEF me
      <4> QED BY <1>0, <2>2, <3>1, <3>2, <4>2, <4>3, <4>4, <4>5, GoesOn
    <3> QED BY <3>1, <3>2
  <2>4. CASE ~ esp[me].fresh
    BY <1>1, <2>1, <2>2, <2>4 DEF Yielding
  <2> QED BY <2>3, <2>4
<1>3. CASE reap_read(0) \/ reap_null(0) \/ reap_check(0) \/ reap_unlock(0) \/ reap_kfree(0)
  <2>1. /\ esp' = esp
        /\ \/ pc' = [pc EXCEPT ![0] = ret[me]]
           \/ \E l \in Yielding \ {"yield", "pick"} : pc' = [pc EXCEPT ![0] = l]
    BY <1>0, <1>3 DEF reap_read, reap_null, reap_check, reap_unlock, reap_kfree, slots, Goto, Yielding
  <2>2. CASE pc' = [pc EXCEPT ![0] = ret[me]]
    BY <1>0, <2>1, <2>2, ComesBack
  <2> QED BY <1>0, <1>1, <2>1, <2>2
<1> QED BY <1>2, <1>3

\* The programs of the workers.
LEMMA TurnWorks ==
  ASSUME Stage, ~ Fresh', thread_fn(0)
  PROVE  CourseInv' /\ RoundInv'
<1>. PICK me : me = current[0]
  OBVIOUS
<1>0. /\ NCPU = 1 /\ OneInv /\ OneInv' /\ CourseInv /\ RoundInv /\ me \in Nodes
      /\ Nodes = {Main} \cup Slots /\ Main \notin Slots
      /\ ~ esp[Main].fresh /\ Me(0) = me /\ me = current[0]
      /\ depth = IF pc[0] = "enable" THEN 1 ELSE 0
  BY StageFacts
<1>1. pc[0] \in {"tramp", "disable", "enable", "work", "zombie"} /\ me # Main
  <2>1. pc[0] \in {"tramp", "disable", "enable", "work", "zombie"}
    BY DEF thread_fn, thread_trampoline, worker_critical_begin, worker_critical_end, worker_round,
           worker_exit, zombie_loop, At
  <2> QED BY <1>0, <2>1 DEF CourseInv
<1>2. ASSUME NEW l \in {"disable", "enable", "work"}, pc' = [pc EXCEPT ![0] = l],
             UNCHANGED <<state, current, fn, ret, left, next, esp>>,
             depth' = IF l = "enable" THEN 1 ELSE 0
      PROVE  CourseInv' /\ RoundInv'
  <2>1. Level(l, Late(me)) = 0 /\ Level(pc[0], Late(me)) = 0
    BY <1>1, <1>2 DEF Level, Yielding
  <2>2. Level(l, Late(me)) <= Level(pc[0], Late(me))
    BY <2>1
  <2>3. l \notin {"ap_yield", "halt", "zombie"} /\ ~ esp'[Main].fresh
    BY <1>0, <1>2
  <2> QED BY <1>0, <1>1, <1>2, <2>2, <2>3, GoesOn
<1>3. CASE thread_trampoline(0)
  <2>1. /\ UNCHANGED <<state, current, fn, ret, left, next, esp, depth>> /\ depth = 0
        /\ \E l \in {"disable", "work"} : pc' = [pc EXCEPT ![0] = l]
    BY <1>0, <1>3 DEF thread_trampoline, slots, prog, Goto, At
  <2> QED BY <1>2, <2>1
<1>4. CASE worker_critical_begin(0)
  <2>1. /\ UNCHANGED <<state, current, fn, ret, left, next, esp>> /\ depth' = depth + 1
        /\ pc' = [pc EXCEPT ![0] = "enable"] /\ pc[0] = "disable"
    BY <1>4 DEF worker_critical_begin, slots, prog, Goto, At
  <2>2. depth' = 1
    BY <1>0, <2>1
  <2> QED BY <1>2, <2>1, <2>2
<1>5. CASE worker_critical_end(0)
  <2>1. /\ UNCHANGED <<state, current, fn, ret, left, next, esp>>
        /\ depth' = (IF depth > 0 THEN depth - 1 ELSE depth)
        /\ pc' = [pc EXCEPT ![0] = "work"] /\ pc[0] = "enable"
    BY <1>5 DEF worker_critical_end, slots, prog, Goto, At
  <2>2. depth' = 0
    BY <1>0, <2>1
  <2> QED BY <1>2, <2>1, <2>2
<1>6. CASE worker_round(0)
  <2>1. /\ UNCHANGED <<state, current, fn, ret, next, esp, depth>>
        /\ pc[0] = "work" /\ left[me] > 0 /\ left' = [left EXCEPT ![me] = @ - 1]
        /\ pc' = [pc EXCEPT ![0] = "checkpoint"]
    BY <1>0, <1>6 DEF worker_round, slots, Goto, At
  <2>2. left \in [Nodes -> Nat] /\ pc'[0] = "checkpoint"
    BY <2>1, StageFacts DEF OneInv, MoreInv, FieldTypes
  <2>3. Onward
    BY <1>0, <1>1, <2>1, <2>2 DEF Onward
  <2>4. CourseInv'
    BY <1>0, <1>1, <2>1, <2>2, <2>3, CourseKept
  <2>5. Turns(me)' <= Turns(me)
    <3>1. Yields(me) = 0 /\ Yields(me)' = 2
      BY <1>0, <2>1, <2>2 DEF Yields, Level, Yielding
    <3>2. left[me] \in Nat /\ left'[me] = left[me] - 1
      BY <1>0, <2>1, <2>2
    <3> QED BY <3>1, <3>2 DEF Turns
  <2> QED BY <1>0, <1>1, <2>1, <2>3, <2>4, <2>5, RoundKept
<1>7. CASE worker_exit(0)
  <2>1. /\ UNCHANGED <<current, fn, ret, left, next, esp, depth>>
        /\ pc[0] = "work" /\ state' = [state EXCEPT ![me] = "ZOMBIE"]
        /\ pc' = [pc EXCEPT ![0] = "zombie"]
    BY <1>0, <1>7 DEF worker_exit, prog, Goto, At
  <2>2. state \in [Nodes -> {"UNUSED", "RUNNABLE", "ZOMBIE"}] /\ pc'[0] = "zombie"
    BY <2>1, StageFacts DEF OwnInv, Shape
  <2>3. state'[me] = "ZOMBIE" /\ \A t \in Nodes \ {me} : state'[t] = state[t]
    BY <1>0, <2>1, <2>2
  <2>4. Onward
    BY <1>0, <1>1, <2>1, <2>3 DEF Onward
  <2>5. CourseInv'
    BY <1>0, <1>1, <2>1, <2>2, <2>3, <2>4, CourseKept
  <2> QED BY <1>0, <1>1, <2>1, <2>3, <2>4, <2>5, RoundKept
<1>8. CASE zombie_loop(0)
  <2>1. /\ UNCHANGED <<state, current, fn, left, next, esp, depth>>
        /\ pc[0] = "zombie" /\ CallYield(0, "zombie")
    BY <1>8 DEF zombie_loop, slots, At
  <2>2. state[me] # "RUNNABLE"
    BY <1>0, <2>1 DEF CourseInv
  <2> QED BY <1>0, <1>1, <2>1, <2>2, Calls
<1> QED BY <1>3, <1>4, <1>5, <1>6, <1>7, <1>8 DEF thread_fn

\* A checkpoint, which may call sched_yield at two places.
LEMMA TurnChecks ==
  ASSUME Stage, ~ Fresh', sched_checkpoint(0)
  PROVE  CourseInv' /\ RoundInv'
<1>. PICK me : me = current[0]
  OBVIOUS
<1>0. /\ NCPU = 1 /\ OneInv /\ OneInv' /\ CourseInv /\ RoundInv /\ me \in Nodes
      /\ Nodes = {Main} \cup Slots /\ Main \notin Slots
      /\ ~ esp[Main].fresh /\ Me(0) = me /\ me = current[0]
      /\ depth = IF pc[0] = "enable" THEN 1 ELSE 0
      /\ UNCHANGED <<state, current, fn, left, next, esp, depth>>
      /\ pc[0] \in {"checkpoint", "checkpoint2"} /\ depth = 0
  <2>1. /\ UNCHANGED <<state, current, fn, left, next, esp, depth>>
        /\ pc[0] \in {"checkpoint", "checkpoint2"}
    BY DEF sched_checkpoint, slots, At
  <2> QED BY <2>1, StageFacts
<1>1. CASE pc[0] = "checkpoint"
  <2>1. \/ CallYield(0, "checkpoint2")
        \/ pc' = [pc EXCEPT ![0] = "checkpoint2"] /\ UNCHANGED ret
    BY <1>1 DEF sched_checkpoint, At, Goto
  <2>2. /\ Level("yield", "checkpoint2" = "checkpoint2") <= Level(pc[0], Late(me))
        /\ Level("checkpoint2", Late(me)) <= Level(pc[0], Late(me))
    BY <1>1 DEF Level, Yielding
  <2>3. CASE CallYield(0, "checkpoint2")
    BY <1>0, <1>1, <2>2, <2>3, Calls
  <2>4. ASSUME NEW l, l = "checkpoint2", pc' = [pc EXCEPT ![0] = l], UNCHANGED ret
        PROVE  CourseInv' /\ RoundInv'
    <3>1. /\ l \notin {"ap_yield", "halt", "zombie", "enable", "tramp", "disable", "work"}
          /\ l \in {"yield", "pick"} <=> pc[0] \in {"yield", "pick"}
          /\ Level(l, Late(me)) <= Level(pc[0], Late(me))
      BY <1>1, <2>2, <2>4
    <3> QED BY <1>0, <2>4, <3>1, GoesOn
  <2> QED BY <2>1, <2>3, <2>4
<1>2. CASE pc[0] = "checkpoint2"
  <2>1. PICK l \in {"spawn", "work"} :
          /\ CallYield(0, l) \/ (pc' = [pc EXCEPT ![0] = l] /\ UNCHANGED ret)
          /\ l = "spawn" <=> me = Main
    <3>1. CallYield(0, After(me)) \/ (pc' = [pc EXCEPT ![0] = After(me)] /\ UNCHANGED ret)
      BY <1>0, <1>2 DEF sched_checkpoint, At, Goto
    <3>2. CASE me = Main
      <4>1. After(me) = "spawn"
        BY <1>0, <3>2 DEF After, CourseInv
      <4> QED BY <3>1, <3>2, <4>1
    <3>3. CASE me # Main
      <4>1. fn[me] # "ap_idle_fn"
        BY <1>0, <3>3 DEF CourseInv
      <4>2. After(me) = "work"
        BY <3>3, <4>1 DEF After
      <4> QED BY <3>1, <3>3, <4>2
    <3> QED BY <3>2, <3>3
  <2>2. /\ Level("yield", l = "checkpoint2") <= Level(pc[0], Late(me))
        /\ Level(l, Late(me)) <= Level(pc[0], Late(me))
    BY <1>2 DEF Level, Yielding
  <2>3. CASE CallYield(0, l)
    BY <1>0, <1>2, <2>1, <2>2, <2>3, Calls
  <2>4. CASE pc' = [pc EXCEPT ![0] = l] /\ UNCHANGED ret
    <3>1. /\ l \notin {"ap_yield", "halt", "zombie", "enable"}
          /\ l \in {"yield", "pick"} <=> pc[0] \in {"yield", "pick"}
          /\ l \in {"tramp", "disable", "enable", "work", "zombie"} => me # Main
      BY <1>2, <2>1
    <3> QED BY <1>0, <2>2, <2>4, <3>1, GoesOn
  <2> QED BY <2>1, <2>3, <2>4
<1> QED BY <1>0, <1>1, <1>2

\* Main spawns: no thread but main has run yet.
LEMMA TurnSpawns ==
  ASSUME Stage, SpawnStep, Fresh, Fresh'
  PROVE  CourseInv' /\ RoundInv'
<1>0. /\ NCPU = 1 /\ OneInv /\ OneInv' /\ CourseInv /\ RoundInv /\ Nodes = {Main} \cup Slots
      /\ Main \notin Slots /\ ~ esp[Main].fresh /\ Me(0) = current[0] /\ 0 \in CPUs
      /\ depth = IF pc[0] = "enable" THEN 1 ELSE 0
      /\ pc \in [CPUs -> Labels \cup {"none"}]
  BY StageFacts
<1>1. /\ pc[0] \in MainLabels /\ current[0] = Main /\ UNCHANGED <<current, ret, depth>>
      /\ pc'[0] \in MainLabels /\ depth = 0
  <2>1. /\ pc[0] \in MainLabels /\ pc[0] # "enable" /\ UNCHANGED <<current, ret, depth>>
        /\ \E l \in MainLabels : pc' = [pc EXCEPT ![0] = l]
    <3>1. pc' = [pc EXCEPT ![0] = pc[0]] \/ pc' # pc
      BY <1>0
    <3> QED BY <3>1 DEF SpawnStep, spawn_alloc_slot, spawn_kmalloc, spawn_fields, spawn_enqueue,
               At, Goto, MainLabels, prog
  <2>2. current[0] = Main
    BY <2>1, StageFacts DEF UniInv, CallerInv
  <2> QED BY <1>0, <2>1, <2>2
<1>2. ~ Pending /\ ~ Pending' /\ \A t \in Slots : ret[t] = "none"
  BY <1>0, <1>1 DEF Pending, MainLabels, CourseInv
<1>3. /\ \A t \in Slots : Yields(t) = 1 /\ Yields(t)' = 1
      /\ left[Main] = MainRounds /\ left'[Main] = MainRounds
  BY <1>0, <1>1, <1>2 DEF Yields, Level, Late, Fresh
<1>4. CASE spawn_fields
  <2>1. /\ slot \in Slots /\ state' = [state EXCEPT ![slot] = "RUNNABLE"]
        /\ fn' = [fn EXCEPT ![slot] = IF spawned = 1 THEN "worker_a" ELSE "worker_b"]
        /\ esp' = [esp EXCEPT ![slot] = [on |-> kstack[slot], fresh |-> TRUE]]
        /\ left' = [left EXCEPT ![slot] = Rounds]
    BY <1>4, StageFacts DEF spawn_fields, At, OwnInv, SlotInv
  <2>2. /\ state \in [Nodes -> {"UNUSED", "RUNNABLE", "ZOMBIE"}]
        /\ fn \in [Nodes -> {"none", "ap_idle_fn", "worker_a", "worker_b"}]
        /\ left \in [Nodes -> Nat]
        /\ esp \in [Nodes -> [on : AllStacks \cup {Null}, fresh : BOOLEAN]]
    BY StageFacts DEF OwnInv, Shape, OneInv, MoreInv, FieldTypes, UniInv, StackTypes
  <2>3. \A t \in Nodes : fn'[t] # "ap_idle_fn"
    BY <1>0, <2>1, <2>2 DEF CourseInv
  <2>4. ~ esp'[Main].fresh
    BY <1>0, <2>1, <2>2
  <2>5. CourseInv'
    BY <1>0, <1>1, <1>2, <2>3, <2>4, <1>3 DEF CourseInv, MainLabels, Fresh
  <2>6. ASSUME NEW t \in Slots, state'[t] = "RUNNABLE" PROVE Turns(t)' <= Budget'
    <3>1. Rounds \in Nat /\ MainRounds \in Nat /\ left[t] \in Nat
      BY <1>0, <2>2, ThreadsAssumption
    <3>2. Budget' = 2 * Rounds + 1 /\ Budget = 2 * Rounds + 1
      BY <1>3, <3>1 DEF Budget
    <3>3. CASE t = slot
      <4>1. left'[t] = Rounds
        BY <1>0, <2>1, <2>2, <3>3
      <4> QED BY <1>3, <3>1, <3>2, <4>1 DEF Turns
    <3>4. CASE t # slot
      <4>1. left'[t] = left[t] /\ state[t] = "RUNNABLE"
        BY <1>0, <2>1, <2>2, <2>6, <3>4
      <4>2. Turns(t) <= Budget
        BY <1>0, <1>2, <4>1 DEF RoundInv, InTime
      <4>3. Turns(t)' = Turns(t)
        BY <1>3, <4>1 DEF Turns
      <4> QED BY <3>2, <4>2, <4>3
    <3> QED BY <3>3, <3>4
  <2>7. InTime(Nodes)'
    BY <1>0, <2>6 DEF InTime
  <2> QED BY <1>2, <2>5, <2>7 DEF RoundInv
<1>5. CASE ~ spawn_fields
  <2>1. UNCHANGED <<state, fn, esp, left>>
    BY <1>5 DEF SpawnStep, spawn_alloc_slot, spawn_kmalloc, spawn_enqueue, slots, prog
  <2>2. CourseInv'
    BY <1>0, <1>1, <1>2, <2>1 DEF CourseInv, MainLabels, Fresh
  <2>3. \A t \in Slots : Turns(t)' = Turns(t)
    BY <1>3, <2>1 DEF Turns
  <2>4. Budget' = Budget
    BY <2>1 DEF Budget
  <2>5. InTime(Nodes)'
    BY <1>0, <1>2, <2>1, <2>3, <2>4 DEF RoundInv, InTime
  <2> QED BY <1>2, <2>2, <2>5 DEF RoundInv
<1> QED BY <1>4, <1>5

\* The loop of thread_demo_run: a round of main begins, or its last has ended.
LEMMA TurnLoops ==
  ASSUME Stage, main_loop, ~ Fresh'
  PROVE  CourseInv' /\ RoundInv'
<1>0. /\ NCPU = 1 /\ OneInv /\ OneInv' /\ CourseInv /\ RoundInv /\ Nodes = {Main} \cup Slots
      /\ Main \notin Slots /\ ~ esp[Main].fresh /\ Me(0) = Main /\ 0 \in CPUs
      /\ pc \in [CPUs -> Labels \cup {"none"}]
      /\ current[0] = Main /\ current' = current /\ pc[0] = "spawn"
      /\ UNCHANGED <<next, state, fn, esp, depth>> /\ depth = 0
      /\ ret \in [Nodes -> Back] /\ left \in [Nodes -> Nat]
  BY StageFacts DEF main_loop, At, Me, slots, OwnInv, Shape, OneInv, MoreInv, FieldTypes
<1>1. ~ Pending
  BY <1>0 DEF Pending
<1>2. CASE left[Main] = 0
  <2>1. pc'[0] = "halt" /\ UNCHANGED <<ret, left>>
    BY <1>0, <1>2 DEF main_loop, Goto
  <2>2. CourseInv'
    BY <1>0, <1>2, <2>1 DEF CourseInv
  <2>3. ~ Pending'
    BY <1>0, <2>1 DEF Pending
  <2>4. \A t \in Slots : Yields(t)' = Yields(t)
    BY <1>0, <2>1 DEF Yields, Late
  <2>5. (\A t \in Slots : Turns(t)' = Turns(t)) /\ Budget' = Budget
    BY <2>1, <2>4 DEF Turns, Budget
  <2>6. InTime(Nodes)'
    BY <1>0, <1>1, <2>5 DEF InTime, RoundInv
  <2> QED BY <2>2, <2>3, <2>6 DEF RoundInv
<1>3. CASE left[Main] # 0
  <2>1. /\ pc'[0] = "yield" /\ ret' = [ret EXCEPT ![Main] = "checkpoint"]
        /\ left' = [left EXCEPT ![Main] = @ - 1]
    BY <1>0, <1>3 DEF main_loop, CallYield, Goto
  <2>2. /\ ret'[Main] = "checkpoint" /\ left'[Main] = left[Main] - 1
        /\ \A t \in Slots : ret'[t] = ret[t] /\ left'[t] = left[t]
    BY <1>0, <2>1
  <2>3. CourseInv'
    BY <1>0, <2>1, <2>2 DEF CourseInv
  <2>4. Pending'
    BY <1>0, <2>1, <2>2 DEF Pending
  <2>5. \A t \in Slots : Yields(t)' = Yields(t)
    BY <1>0, <2>2 DEF Yields, Late
  <2>6. \A t \in Slots : Turns(t)' = Turns(t)
    BY <2>2, <2>5 DEF Turns
  <2>7. Budget' + 1 = Budget
    <3>1. left[Main] \in Nat /\ Rounds \in Nat /\ MainRounds \in Nat
      BY <1>0, ThreadsAssumption
    <3> QED BY <2>2, <3>1 DEF Budget
  <2>8. InTime({Main})'
    <3>1. \A t \in Slots : t \notin {Main} /\ (state[t] = "RUNNABLE" => Turns(t) <= Budget)
      BY <1>0, <1>1 DEF RoundInv, InTime
    <3> QED BY <1>0, <2>6, <2>7, <3>1 DEF InTime
  <2>9. Arc({Main})' /\ {Main} \in SUBSET Nodes
    BY <1>0 DEF Arc
  <2> QED BY <2>3, <2>4, <2>8, <2>9 DEF RoundInv
<1> QED BY <1>2, <1>3

\* A zombie leaves the ring: whoever pointed at it points at the next one.
LEMMA TurnUnlinks ==
  ASSUME Stage, reap_unlink(0), ~ Fresh'
  PROVE  CourseInv' /\ RoundInv'
<1>. PICK me : me = current[0]
  OBVIOUS
<1>. PICK d : d = z[0]
  OBVIOUS
<1>0. /\ NCPU = 1 /\ OneInv /\ OneInv' /\ CourseInv /\ RoundInv /\ me \in Nodes
      /\ Nodes = {Main} \cup Slots /\ Main \notin Slots /\ ~ esp[Main].fresh
      /\ pc[0] = "reap_lock" /\ depth = 0 /\ pc'[0] = "reap_stack"
      /\ UNCHANGED <<current, fn, ret, left, esp, depth>>
      /\ next \in [Nodes -> Nodes \cup {Null}] /\ Null \notin Nodes
      /\ state \in [Nodes -> {"UNUSED", "RUNNABLE", "ZOMBIE"}]
  <2>1. pc[0] = "reap_lock" /\ UNCHANGED <<current, fn, ret, left, esp, depth>>
        /\ pc' = [pc EXCEPT ![0] = "reap_stack"]
    BY DEF reap_unlink, At, Goto, prog
  <2> QED BY <2>1, StageFacts, NodeFacts DEF OwnInv, Shape
<1>1. d \in Slots /\ d # me /\ state[d] # "RUNNABLE"
  BY <1>0, StageFacts, OneParts DEF UniInv, ZombieInv, RingInv, ReapInv
<1>2. /\ state' = [state EXCEPT ![d] = "UNUSED"]
      /\ unlink_thread(d)
  BY DEF reap_unlink
<1>3. /\ state'[d] = "UNUSED"
      /\ \A t \in Nodes \ {d} : state'[t] = state[t]
  BY <1>0, <1>1, <1>2
<1>4. Onward
  BY <1>0, <1>3 DEF Onward
<1>5. CourseInv'
  BY <1>0, <1>1, <1>3, <1>4, CourseKept
<1>6. /\ Pending' <=> Pending
      /\ \A t \in Slots : Turns(t)' = Turns(t)
      /\ Budget' = Budget
  <2>1. \A t \in Slots : Yields(t)' = Yields(t)
    BY <1>0 DEF Yields, Late, Level, Yielding
  <2> QED BY <1>0, <2>1 DEF Pending, Turns, Budget
<1>7. ASSUME NEW D, InTime(D), NEW E, D \ {d} = E \ {d} PROVE InTime(E)'
  BY <1>3, <1>6, <1>7, NodeFacts DEF InTime
<1>8. CASE Pending
  <2>1. PICK D \in SUBSET Nodes : Arc(D) /\ InTime(D)
    BY <1>0, <1>8 DEF RoundInv
  <2>2. InTime(D \ {d})'
    BY <1>7, <2>1
  <2>3. Arc(D \ {d})'
    <3>1. {Main, current[0]} \subseteq D \ {d}
      BY <1>0, <1>1, <2>1 DEF Arc
    <3>2. ASSUME NEW p \in (D \ {d}) \ {current[0]} PROVE next'[p] \in D \ {d}
      <4>1. p \in Nodes /\ p # d /\ next[p] \in D
        BY <2>1 DEF Arc
      <4>2. CASE next' = next
        <5>1. next[p] # d
          BY <1>0, <1>2, <4>1, <4>2 DEF unlink_thread
        <5> QED BY <4>1, <4>2, <5>1
      <4>3. CASE next' # next
        <5>1. next' = [q \in Nodes |-> CASE q = d -> Null
                                         [] q # d /\ next[q] = d -> next[d]
                                         [] OTHER -> next[q]]
          BY <1>2, <4>3 DEF unlink_thread
        <5>2. CASE next[p] = d
          <6>1. next'[p] = next[d]
            BY <4>1, <5>1, <5>2
          <6>2. d \in D \ {current[0]}
            BY <1>1, <4>1, <5>2
          <6>3. next[d] \in D
            BY <2>1, <6>2 DEF Arc
          <6>4. next[d] # d
            BY <1>0, <1>1, <4>1, <5>2, StageFacts, OneParts DEF RingInv, Ring
          <6> QED BY <6>1, <6>3, <6>4
        <5>3. CASE next[p] # d
          BY <4>1, <5>1, <5>3
        <5> QED BY <5>2, <5>3
      <4> QED BY <4>2, <4>3
    <3> QED BY <1>0, <3>1, <3>2 DEF Arc
  <2> QED BY <1>5, <1>6, <1>8, <2>2, <2>3 DEF RoundInv
<1>9. CASE ~ Pending
  <2>1. InTime(Nodes)'
    BY <1>0, <1>7, <1>9 DEF RoundInv
  <2> QED BY <1>5, <1>6, <1>9, <2>1 DEF RoundInv
<1> QED BY <1>8, <1>9

\* What pick_next passes on its way to the thread it finds cannot be claimed.
LEMMA PickPath ==
  ASSUME next \in [Nodes -> Nodes \cup {Null}], NEW me \in Nodes,
         NEW t \in Nodes, t # me, pick_next(0, me, t)
  PROVE  \E K \in SUBSET Nodes : /\ next[me] \in K /\ t \in K
                                 /\ \A u \in K \ {t} : next[u] \in K /\ ~ Runnable(0, u)
<1> DEFINE W == Walk(me)
           stop(v) == v \in {me, Null} \/ Runnable(0, v)
<1>1. /\ DOMAIN W = 1 .. MaxThreads + 1 /\ MaxThreads \in Nat /\ Null \notin Nodes
      /\ W[1] = next[me] /\ \A k \in 2 .. MaxThreads + 1 : W[k] = Follow(W[k - 1])
  BY WalkSteps, NodeFacts DEF Follow
<1>2. PICK n \in DOMAIN W : W[n] = t /\ \A j \in 1 .. n - 1 : ~ stop(W[j])
  BY DEF pick_next
<1>3. \A j \in 1 .. n - 1 : W[j] # Null /\ ~ Runnable(0, W[j])
  BY <1>2
<1> HIDE DEF W, stop
<1> DEFINE K == { W[j] : j \in 1 .. n }
<1>4. n \in Nat /\ 1 \in 1 .. n /\ n \in 1 .. n /\ n <= MaxThreads + 1
  BY <1>1, <1>2
<1>5. ASSUME NEW j \in 1 .. n - 1 PROVE j \in 1 .. n /\ j + 1 \in 1 .. n /\ W[j + 1] = next[W[j]]
  <2>1. j \in 1 .. n /\ j + 1 \in 1 .. n /\ j + 1 \in 2 .. MaxThreads + 1 /\ (j + 1) - 1 = j
    BY <1>1, <1>4
  <2>2. W[j + 1] = Follow(W[j])
    BY <1>1, <2>1
  <2> QED BY <1>3, <2>1, <2>2 DEF Follow
<1>6. ASSUME NEW u \in K, u # t PROVE next[u] \in K /\ ~ Runnable(0, u) /\ u # Null
  <2>1. PICK j \in 1 .. n : u = W[j]
    OBVIOUS
  <2>2. j # n
    BY <1>2, <1>6, <2>1
  <2>3. j \in 1 .. n - 1
    BY <1>4, <2>2
  <2> QED BY <1>3, <1>5, <2>1, <2>3
<1>7. next[me] \in K /\ t \in K
  BY <1>1, <1>2, <1>4
<1>8. \A u \in K : u # Null
  BY <1>1, <1>6
<1> HIDE DEF K
<1>9. ASSUME NEW u \in Nodes, next[u] \in K PROVE next[u] \in K \cap Nodes
  BY <1>8, <1>9
<1>10. K \cap Nodes \in SUBSET Nodes
  OBVIOUS
<1> QED BY <1>6, <1>7, <1>9, <1>10

\* A switch: the walk adds what it passed to the stretch that had its turn, and when
\* it is back at main that is the whole ring.
LEMMA TurnClaims ==
  ASSUME Stage, yield_claim(0), ~ Fresh'
  PROVE  CourseInv' /\ RoundInv'
<1>. PICK me : me = current[0]
  OBVIOUS
<1>0. /\ NCPU = 1 /\ OneInv /\ OneInv' /\ CourseInv /\ RoundInv /\ me \in Nodes
      /\ Nodes = {Main} \cup Slots /\ Main \notin Slots /\ ~ esp[Main].fresh /\ Me(0) = me
      /\ pc[0] = "pick" /\ depth = 0 /\ pc'[0] = "switch"
      /\ UNCHANGED <<next, state, fn, ret, left, esp, depth>>
      /\ next \in [Nodes -> Nodes \cup {Null}] /\ Null \notin Nodes
      /\ current \in [CPUs -> Nodes \cup {Null}]
  <2>1. /\ pc[0] = "pick" /\ UNCHANGED <<next, state, fn, ret, left, esp, depth>>
        /\ pc' = [pc EXCEPT ![0] = "switch"]
    BY DEF yield_claim, At, Goto, prog
  <2> QED BY <2>1, StageFacts, NodeFacts DEF OwnInv, Shape
<1>1. PICK t \in Nodes \ {me} : pick_next(0, me, t) /\ current' = [current EXCEPT ![0] = t]
  BY <1>0 DEF yield_claim
<1>2. current'[0] = t
  BY <1>0, <1>1, NodeFacts
<1>3. CourseInv'
  BY <1>0 DEF CourseInv
<1>4. /\ Budget' = Budget /\ Budget \in Int
      /\ \A u \in Slots : Turns(u) \in Nat
      /\ \A u \in Slots \ {t} : Turns(u)' = Turns(u)
      /\ t \in Slots => Turns(t)' = Turns(t) - 1
  <2>1. Budget' = Budget /\ Budget \in Int
    BY <1>0, TurnTypes DEF Budget
  <2>2. ASSUME NEW u \in Slots PROVE Turns(u) \in Nat /\ left[u] \in Nat
    BY <1>0, TurnTypes
  <2>3. ASSUME NEW u \in Slots \ {t} PROVE Turns(u)' = Turns(u)
    <3>1. Yields(u)' = Yields(u)
      BY <1>0, <1>2 DEF Yields, Late
    <3> QED BY <1>0, <3>1 DEF Turns
  <2>4. ASSUME t \in Slots PROVE Turns(t)' = Turns(t) - 1
    <3>1. /\ Yields(t) = (IF Late(t) THEN 2 ELSE 1)
          /\ Yields(t)' = (IF Late(t) THEN 1 ELSE 0)
      BY <1>0, <1>1, <1>2 DEF Yields, Level, Late, Yielding
    <3>2. Yields(t)' = Yields(t) - 1 /\ Yields(t) \in {1, 2}
      BY <3>1
    <3>3. Turns(t) = 2 * left[t] + Yields(t) /\ Turns(t)' = 2 * left[t] + Yields(t)'
      BY <1>0 DEF Turns
    <3> QED BY <2>2, <2>4, <3>2, <3>3
  <2> QED BY <2>1, <2>2, <2>3, <2>4
<1>5. CASE ~ Pending
  <2>1. ~ Pending'
    BY <1>0, <1>5 DEF Pending
  <2>2. InTime(Nodes)'
    <3> SUFFICES ASSUME NEW u \in Slots, state[u] = "RUNNABLE" PROVE Turns(u)' <= Budget
      BY <1>0, <1>4 DEF InTime
    <3>1. Turns(u) <= Budget
      BY <1>0, <1>5 DEF RoundInv, InTime
    <3>2. Turns(u)' <= Turns(u)
      BY <1>4
    <3> QED BY <1>4, <3>1
  <2> QED BY <1>3, <2>1, <2>2 DEF RoundInv
<1>6. CASE Pending
  <2>1. PICK D \in SUBSET Nodes : Arc(D) /\ InTime(D)
    BY <1>0, <1>6 DEF RoundInv
  <2>2. PICK K \in SUBSET Nodes : /\ next[me] \in K /\ t \in K
                                 /\ \A u \in K \ {t} : next[u] \in K /\ ~ Runnable(0, u)
    <3>1. next \in [Nodes -> Nodes \cup {Null}] /\ me \in Nodes
      BY <1>0
    <3> QED BY <1>1, <3>1, PickPath
  <2>3. Main \in D \cup K /\ me \in D /\ \A p \in (D \cup K) \ {t} : next[p] \in D \cup K
    BY <2>1, <2>2 DEF Arc
  <2>4. ASSUME NEW u \in K \ {t}, state[u] = "RUNNABLE" PROVE u \in D
    <3>1. u \in Nodes /\ affinity[u] \in {AnyCPU, 0}
      BY <1>0, <2>2, OneFacts, StageFacts DEF OwnInv, Shape
    <3>2. token[u] # -1
      BY <2>2, <2>4, <3>1 DEF Runnable
    <3>3. u = current[0]
      BY <1>0, <2>4, <3>1, <3>2 DEF OneInv, MoreInv, TokenInv
    <3> QED BY <2>3, <3>3
  <2>5. ASSUME NEW u \in Slots, state[u] = "RUNNABLE"
        PROVE  Turns(u)' <= IF u \in D \cup K THEN Budget ELSE Budget + 1
    <3>1. Turns(u) <= IF u \in D THEN Budget ELSE Budget + 1
      BY <2>1, <2>5 DEF InTime
    <3>2. CASE u = t
      BY <1>4, <2>2, <3>1, <3>2
    <3>3. CASE u # t
      <4>1. u \in D \cup K <=> u \in D
        BY <2>4, <2>5, <3>3
      <4> QED BY <1>4, <3>1, <3>3, <4>1
    <3> QED BY <3>2, <3>3
  <2>6. CASE t # Main
    <3>1. Pending'
      BY <1>0, <1>2, <1>6, <2>6 DEF Pending
    <3>2. Arc(D \cup K)'
      BY <1>0, <1>2, <2>2, <2>3 DEF Arc
    <3>3. InTime(D \cup K)'
      BY <1>0, <1>4, <2>5 DEF InTime
    <3> QED BY <1>3, <3>1, <3>2, <3>3 DEF RoundInv
  <2>7. CASE t = Main
    <3>1. ~ Pending'
      BY <1>0, <1>2, <2>7 DEF Pending
    <3>2. next[Main] \in D \cup K
      BY <1>1, <2>1, <2>7 DEF Arc
    <3>3. Closed(D \cup K) /\ D \cup K \in SUBSET Nodes
      BY <2>3, <2>7, <3>2 DEF Closed
    <3>4. ASSUME NEW u \in Slots, state[u] = "RUNNABLE" PROVE u \in D \cup K
      <4>1. next[u] # Null
        BY <1>0, <3>4, OneParts DEF RingInv, UseInv, InUse, At
      <4>2. Ring /\ u \in Nodes
        BY <1>0, OneParts DEF RingInv
      <4> QED BY <3>3, <4>1, <4>2 DEF Ring
    <3>5. InTime(Nodes)'
      BY <1>0, <1>4, <2>5, <3>4 DEF InTime
    <3> QED BY <1>3, <3>1, <3>5 DEF RoundInv
  <2> QED BY <2>6, <2>7
<1> QED BY <1>5, <1>6

WorkInv == CourseInv /\ RoundInv

LEMMA WorkInit == ASSUME NCPU = 1, OneInv, Init PROVE WorkInv
<1>1. /\ IdleSlots = {} /\ pc[0] = "spawn" /\ current[0] = Main /\ depth = 0
      /\ Nodes = {Main} \cup Slots /\ Main \notin Slots
      /\ \A t \in Nodes : fn[t] = "none" /\ ret[t] = "none" /\ ~ esp[t].fresh
      /\ \A t \in Slots : state[t] = "UNUSED"
  BY OneFacts, NodeFacts DEF Init, IdleSlots
<1>2. CourseInv
  BY <1>1 DEF CourseInv
<1>3. ~ Pending /\ InTime(Nodes)
  BY <1>1 DEF Pending, InTime
<1> QED BY <1>2, <1>3 DEF WorkInv, RoundInv

LEMMA WorkStep ==
  ASSUME NCPU = 1, OneInv, OneInv', WorkInv, Step(0)
  PROVE  WorkInv'
<1>0. Stage /\ OwnInv /\ UniInv /\ FieldTypes /\ LaunchInv
  BY OneParts DEF Stage, WorkInv, MoreInv
<1>1. CASE SpawnStep
  BY <1>0, <1>1, LaunchStep, TurnSpawns DEF WorkInv
<1>2. CASE ~ SpawnStep
  <2>1. ~ Fresh'
    BY <1>0, <1>2, LaunchStep
  <2>2. pc[0] \notin {"offline", "ap_yield"}
    BY <1>0, StageFacts DEF CourseInv
  <2>3. ~ thread_ap_online(0) /\ ~ ap_loop_yield(0)
    BY <2>2 DEF thread_ap_online, ap_loop_yield, At
  <2>4. CASE sched_yield(0)
    BY <1>0, <2>1, <2>4, TurnStays, TurnSwitches, TurnClaims DEF sched_yield, WorkInv
  <2>5. CASE thread_reap_yield_from(0)
    BY <1>0, <2>1, <2>5, TurnSwitches, TurnUnlinks DEF thread_reap_yield_from, WorkInv
  <2>6. CASE thread_fn(0) \/ sched_checkpoint(0)
    BY <1>0, <2>1, <2>6, TurnWorks, TurnChecks DEF WorkInv
  <2>7. CASE main_loop
    BY <1>0, <2>1, <2>7, TurnLoops DEF WorkInv
  <2> QED BY <1>2, <2>3, <2>4, <2>5, <2>6, <2>7 DEF Step, thread_demo_run, SpawnStep
<1> QED BY <1>1, <1>2

LEMMA WorkKept == ASSUME WorkInv, UNCHANGED vars PROVE WorkInv'
<1>1. UNCHANGED <<slots, current, yieldFrom, lock, heap, depth, pc, stack, cpu, prog>>
  BY DEF vars
<1>2. CourseInv'
  BY <1>1 DEF slots, prog, WorkInv, CourseInv, Fresh
<1>3. /\ Pending' <=> Pending
      /\ \A D : (Arc(D)' <=> Arc(D))
      /\ Budget' = Budget /\ UNCHANGED state
  BY <1>1 DEF slots, prog, Pending, Arc, Budget
<1>4. \A t : Yields(t)' = Yields(t)
  BY <1>1 DEF prog, Yields, Late
<1>5. \A t : Turns(t)' = Turns(t)
  BY <1>1, <1>4 DEF prog, Turns
<1>6. \A D : (InTime(D)' <=> InTime(D))
  BY <1>3, <1>5 DEF InTime
<1> QED BY <1>2, <1>3, <1>6 DEF WorkInv, RoundInv

LEMMA WorkNext ==
  ASSUME NCPU = 1, OneInv, WorkInv, [\E c \in CPUs : Step(c)]_vars
  PROVE  OneInv' /\ WorkInv'
<1>1. OneInv'
  BY OneNext
<1>2. CASE Step(0)
  BY <1>1, <1>2, WorkStep
<1>3. CASE UNCHANGED vars
  BY <1>1, <1>3, WorkKept
<1> QED BY <1>2, <1>3, OneFacts

LEMMA WorkInvariant == ASSUME NCPU = 1 PROVE OpenSpec => [](OneInv /\ WorkInv)
<1>1. Init => OneInv /\ WorkInv
  BY ThreadsInit, OneInit, MoreInit, WorkInit DEF OneInv
<1> QED BY <1>1, WorkNext, PTL DEF OpenSpec

\* On one processor, when main goes back to its idle loop, no worker can still run:
\* main's loop in thread_demo_run has more than two rounds for each of a worker's,
\* which is as often as a worker yields; with just two for each it is not so.
THEOREM OneWorkersDone ==
  ASSUME NCPU = 1, MainRounds > 2 * Rounds
  PROVE  OpenSpec => []WorkersDone
<1>1. OneInv /\ WorkInv => WorkersDone
  <2> SUFFICES ASSUME OneInv, WorkInv, pc[0] = "halt", NEW t \in Slots, state[t] = "RUNNABLE"
               PROVE  FALSE
    BY DEF WorkersDone, At
  <2>1. left[Main] = 0 /\ ~ Pending /\ current[0] = Main /\ t # Main /\ t \in Nodes
    BY OneParts, NodeFacts DEF WorkInv, CourseInv, Pending, UniInv, CallerInv, MainLabels
  <2>2. Turns(t) <= Budget
    BY <2>1 DEF WorkInv, RoundInv, InTime
  <2>3. Yields(t) \in {1, 2}
    BY <2>1 DEF Yields, Level
  <2>4. /\ left[t] \in Nat /\ Rounds \in Nat /\ MainRounds \in Nat
        /\ Turns(t) \in Nat /\ Budget \in Int
    BY <2>1, TurnTypes
  <2>5. Turns(t) >= 1
    BY <2>3, <2>4 DEF Turns
  <2>6. Budget <= 0
    BY <2>1, <2>4 DEF Budget
  <2> QED BY <2>2, <2>4, <2>5, <2>6
<1> QED BY <1>1, WorkInvariant, PTL
=============================================================================
