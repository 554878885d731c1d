----------------------------- MODULE HeapProofs -----------------------------
(***************************************************************************)
(* Proofs about module Heap, for every size of the arena and every set of  *)
(* requests: the blocks tile what was carved from the arena, the free list *)
(* ends, and the heap implements the allocator of module Allocator.  For   *)
(* callers that all ask for one size it implements module StackPool.       *)
(***************************************************************************)
EXTENDS Heap, Induction, Sequences

-----------------------------------------------------------------------------
(***************************************************************************)
(* The free list, without a walk: the smallest set that has the head and,  *)
(* with a block, what its link points to.                                  *)
(***************************************************************************)
\* Places of a header that has room for a link behind it.
Heads == { b \in Places : b + 1 \in Places }

Closed(m, head, S) == /\ head \in S \cup {Null}
                      /\ \A b \in S : m[b + 1] \in S \cup {Null}

Listed == { b \in Heads : \A S \in SUBSET Heads : Closed(mem, freelist, S) => b \in S }

Blocks == Listed \cup LiveBlocks

Typed == /\ mem \in [Places -> Nat \cup {Null, Junk}]
         /\ freelist \in Places \cup {Null}
         /\ off \in 0 .. Granules
         /\ live \in SUBSET [at : Places, size : Requests]
         /\ IsFiniteSet(live)

\* No two links lead to one block and none leads back to the head, so the list
\* has no cycle.
List == /\ Closed(mem, freelist, Listed)
        /\ \A b, c \in Listed : mem[b + 1] = mem[c + 1] /\ mem[b + 1] # Null => b = c
        /\ \A b \in Listed : mem[b + 1] = freelist => freelist = Null

Sized == \A b \in Blocks : mem[b] \in Nat /\ mem[b] >= 2 /\ b + mem[b] <= off

Apart == \A b, c \in Blocks : b < c => b + mem[b] <= c

Cover == \A p \in 0 .. off - 1 : \E b \in Blocks : p \in Block(b)

Held == /\ \A x \in live : /\ x.at >= 1 /\ x.size > 0
                           /\ mem[x.at - 1] >= Need(x.size)
                           /\ x.at - 1 \notin Listed
        /\ \A x, y \in live : x.at = y.at => x = y

HeapInv == Typed /\ List /\ Sized /\ Apart /\ Cover /\ Held

-----------------------------------------------------------------------------
LEMMA HeapFacts ==
  /\ Granules \in Nat \ {0} /\ Align \in Nat \ {0} /\ Requests \subseteq Nat
  /\ Null \notin Nat /\ Junk \notin Nat /\ Null # Junk
  /\ Places = 0 .. Granules - 1 /\ Places \subseteq Nat
  /\ Heads \subseteq Places /\ Null \notin Places /\ Null \notin Heads
BY HeapAssumption DEF Places, Heads

\* A region has a granule less than its block: the header.
LEMMA NeedIs ==
  ASSUME NEW n \in Nat
  PROVE  /\ Need(n) = ((n + Align - 1) \div Align) + 1
         /\ Need(n) \in Nat
         /\ n > 0 => Need(n) >= 2
<1>1. Align \in Nat \ {0}
  BY HeapFacts
<1> DEFINE m == n + Align - 1
           q == m \div Align
<1>2. m \in Nat
  BY <1>1
<1>3. Align + n + Align - 1 = m + Align
  BY <1>1
<1> HIDE DEF m
<1>4. (m + Align) \div Align = (m \div Align) + 1
  BY <1>1, <1>2, SMTT(30)
<1>5. q \in Nat
  BY <1>1, <1>2
<1>6. n > 0 => q >= 1
  <2>1. n > 0 => m >= Align
    BY <1>1 DEF m
  <2>2. m >= Align => (m \div Align) >= 1
    BY <1>1, <1>2, SMTT(30)
  <2> QED BY <2>1, <2>2
<1>7. Need(n) = q + 1
  BY <1>3, <1>4 DEF Need
<1> HIDE DEF q
<1>8. Need(n) \in Nat /\ (n > 0 => Need(n) >= 2)
  BY <1>5, <1>6, <1>7
<1> QED BY <1>7, <1>8 DEF q, m

\* A set that is closed and least is what the list holds.
LEMMA ListedLeast ==
  /\ Listed \in SUBSET Heads
  /\ \A T \in SUBSET Heads : Closed(mem, freelist, T) => Listed \subseteq T
BY DEF Listed

LEMMA ListedNext ==
  ASSUME NEW S \in SUBSET Heads, Closed(mem', freelist', S),
         \A T \in SUBSET Heads : Closed(mem', freelist', T) => S \subseteq T
  PROVE  Listed' = S
<1>1. Listed' = { b \in Heads : \A T \in SUBSET Heads : Closed(mem', freelist', T) => b \in T }
  BY DEF Listed
<1> QED BY <1>1

\* A step that leaves the links of the list alone.
LEMMA ListKept ==
  ASSUME List, freelist' = freelist, \A b \in Listed : mem'[b + 1] = mem[b + 1]
  PROVE  Listed' = Listed /\ List'
<1>1. Closed(mem, freelist, Listed) /\ Listed \in SUBSET Heads
  BY ListedLeast DEF List
<1>2. Closed(mem', freelist', Listed)
  BY <1>1 DEF Closed
<1>3. ASSUME NEW T \in SUBSET Heads, Closed(mem', freelist', T) PROVE Listed \subseteq T
  <2>1. T \cap Listed \in SUBSET Heads /\ Closed(mem, freelist, T \cap Listed)
    BY <1>1, <1>3 DEF Closed
  <2> QED BY <2>1, ListedLeast
<1>4. Listed' = Listed
  BY <1>1, <1>2, <1>3, ListedNext
<1> QED BY <1>2, <1>4 DEF List

\* kfree puts a block in front.
LEMMA ListPush ==
  ASSUME List, NEW b \in Heads \ Listed, freelist' = b, mem'[b + 1] = freelist,
         \A c \in Listed : mem'[c + 1] = mem[c + 1]
  PROVE  Listed' = Listed \cup {b} /\ List'
<1>0. Null \notin Heads
  BY HeapFacts
<1>1. Closed(mem, freelist, Listed) /\ Listed \in SUBSET Heads
  BY ListedLeast DEF List
<1> DEFINE S == Listed \cup {b}
<1>2. Closed(mem', freelist', S)
  BY <1>1 DEF Closed
<1>3. ASSUME NEW T \in SUBSET Heads, Closed(mem', freelist', T) PROVE S \subseteq T
  <2>1. T \cap Listed \in SUBSET Heads /\ Closed(mem, freelist, T \cap Listed) /\ b \in T
    BY <1>0, <1>1, <1>3 DEF Closed
  <2> QED BY <2>1, ListedLeast
<1>4. Listed' = S
  <2> HIDE DEF S
  <2>1. S \in SUBSET Heads
    BY <1>1 DEF S
  <2> QED BY <1>2, <1>3, <2>1, ListedNext
<1>5. \A c, d \in S : mem'[c + 1] = mem'[d + 1] /\ mem'[c + 1] # Null => c = d
  BY <1>1 DEF List
<1>6. \A c \in S : mem'[c + 1] # freelist'
  BY <1>0, <1>1 DEF Closed
<1> QED BY <1>2, <1>4, <1>5, <1>6 DEF List

\* kmalloc takes a block out: the one the head points to, or the one the link
\* of another points to.
LEMMA ListTake ==
  ASSUME List, NEW b \in Listed,
         \/ freelist = b /\ freelist' = mem[b + 1] /\ UNCHANGED mem
         \/ /\ freelist' = freelist
            /\ \E a \in Listed : /\ mem[a + 1] = b /\ mem'[a + 1] = mem[b + 1]
                                 /\ \A c \in Listed \ {a} : mem'[c + 1] = mem[c + 1]
  PROVE  Listed' = Listed \ {b} /\ List'
<1>0. Null \notin Heads
  BY HeapFacts
<1>1. Closed(mem, freelist, Listed) /\ Listed \in SUBSET Heads /\ b # Null
  BY <1>0, ListedLeast DEF List
<1> DEFINE S == Listed \ {b}
<1>2. mem[b + 1] # b
  <2> SUFFICES ASSUME mem[b + 1] = b PROVE FALSE
    OBVIOUS
  <2>1. freelist # b /\ \A c \in S : mem[c + 1] # b
    BY <1>1 DEF List
  <2>2. Closed(mem, freelist, S) /\ S \in SUBSET Heads
    BY <1>1, <2>1 DEF Closed
  <2> QED BY <2>2, ListedLeast
<1>4. Closed(mem', freelist', S)
  <2>1. CASE freelist = b /\ freelist' = mem[b + 1] /\ UNCHANGED mem
    BY <1>1, <1>2, <2>1 DEF Closed, List
  <2>2. CASE \E a \in Listed : /\ mem[a + 1] = b /\ mem'[a + 1] = mem[b + 1]
                               /\ \A c \in Listed \ {a} : mem'[c + 1] = mem[c + 1]
             /\ freelist' = freelist
    BY <1>1, <1>2, <2>2 DEF Closed, List
  <2> QED BY <2>1, <2>2
<1>5. ASSUME NEW T \in SUBSET Heads, Closed(mem', freelist', T) PROVE S \subseteq T
  <2> DEFINE V == T \cap Listed
             U == V \cup {b}
  <2>0. U \in SUBSET Heads /\ V \in SUBSET Heads
    BY <1>1
  <2>1. CASE freelist = b /\ freelist' = mem[b + 1] /\ UNCHANGED mem
    <3>1. Closed(mem, freelist, U)
      BY <1>1, <1>5, <2>1 DEF Closed
    <3> QED BY <2>0, <3>1, ListedLeast
  <2>2. ASSUME freelist' = freelist, NEW a \in Listed, mem[a + 1] = b, mem'[a + 1] = mem[b + 1],
               \A c \in Listed \ {a} : mem'[c + 1] = mem[c + 1]
        PROVE  S \subseteq T
    <3>1. CASE a \in T
      <4>1. Closed(mem, freelist, U)
        BY <1>1, <1>5, <2>2, <3>1 DEF Closed
      <4> QED BY <2>0, <4>1, ListedLeast
    <3>2. CASE a \notin T
      <4>1. Closed(mem, freelist, V)
        BY <1>1, <1>5, <2>2, <3>2 DEF Closed
      <4> QED BY <2>0, <4>1, ListedLeast
    <3> QED BY <3>1, <3>2
  <2> QED BY <2>1, <2>2
<1>6. Listed' = S
  <2> HIDE DEF S
  <2>1. S \in SUBSET Heads
    BY <1>1 DEF S
  <2> QED BY <1>4, <1>5, <2>1, ListedNext
<1>7. \A c, d \in S : mem'[c + 1] = mem'[d + 1] /\ mem'[c + 1] # Null => c = d
  BY <1>1 DEF List
<1>8. \A c \in S : mem'[c + 1] = freelist' => freelist' = Null
  BY <1>1 DEF List
<1> QED BY <1>4, <1>6, <1>7, <1>8 DEF List

-----------------------------------------------------------------------------
(***************************************************************************)
(* The walk of kmalloc.                                                    *)
(***************************************************************************)
Follow(b) == IF b \in Places THEN mem[b + 1] ELSE Null

IsWalk(f) == f = [k \in 1 .. Granules + 1 |-> IF k = 1 THEN freelist
                                              ELSE IF f[k - 1] \in Places
                                                   THEN mem[f[k - 1] + 1] ELSE Null]

LEMMA WalkSteps ==
  ASSUME List
  PROVE  /\ DOMAIN Walk = 1 .. Granules + 1 /\ Walk[1] = freelist
         /\ \A k \in 2 .. Granules + 1 : Walk[k] = Follow(Walk[k - 1])
         /\ \A k \in 1 .. Granules + 1 : Walk[k] \in Listed \cup {Null}
<1> DEFINE P == Listed \cup {Null}
           g == [b \in P |-> Follow(b)]
           I == 1 .. Granules + 1
<1>1. /\ Granules + 1 \in Nat /\ 1 \in I /\ Null \notin Places /\ Listed \subseteq Places
      /\ Closed(mem, freelist, Listed)
  BY HeapFacts, ListedLeast DEF List
<1>2. freelist \in P /\ g \in [P -> P]
  BY <1>1 DEF Follow, Closed
<1>3. PICK f \in [1 .. Granules + 1 -> P] : Iterates(f, freelist, g, Granules + 1)
  <2> HIDE DEF g, P
  <2> QED BY <1>1, <1>2, IterationExists
<1>4. \A k \in I : f[k] = IF k = 1 THEN freelist ELSE Follow(f[k - 1])
  <2>1. \A k \in I : k # 1 => k - 1 \in I
    BY <1>1
  <2> QED BY <1>3, <2>1 DEF Iterates
<1>5. IsWalk(f)
  BY <1>3, <1>4 DEF IsWalk, Follow
<1>6. IsWalk(Walk)
  <2>1. Walk = CHOOSE h : IsWalk(h)
    BY DEF Walk, IsWalk
  <2> QED BY <1>5, <2>1
<1> DEFINE W == Walk
<1>7. /\ DOMAIN W = I /\ W[1] = freelist
      /\ \A k \in 2 .. Granules + 1 : W[k] = Follow(W[k - 1])
  BY <1>1, <1>6 DEF IsWalk, Follow
<1> HIDE DEF W
<1>8. \A k \in I : W[k] \in P
  <2> DEFINE S == {k \in Nat : k + 1 \in I => W[k + 1] \in P}
  <2>1. 0 \in S
    BY <1>2, <1>7
  <2>2. ASSUME NEW k \in Nat, k \in S, k + 2 \in I PROVE W[k + 2] \in P
    <3>1. k + 1 \in I /\ k + 2 \in 2 .. Granules + 1 /\ (k + 2) - 1 = k + 1
      BY <1>1, <2>2
    <3>2. W[k + 1] \in P /\ W[k + 2] = Follow(W[k + 1])
      BY <1>7, <2>2, <3>1
    <3>3. Follow(W[k + 1]) \in P
      BY <1>1, <3>2 DEF Follow, Closed
    <3> QED BY <3>2, <3>3
  <2>3. \A k \in Nat : k \in S => k + 1 \in S
    BY <2>2
  <2> HIDE DEF S
  <2>4. Nat \subseteq S
    BY <2>1, <2>3, SetInduction
  <2> QED
    <3> SUFFICES ASSUME NEW k \in I PROVE W[k] \in P
      OBVIOUS
    <3>1. k - 1 \in Nat /\ (k - 1) + 1 = k
      OBVIOUS
    <3>2. k - 1 \in S
      BY <2>4, <3>1
    <3> QED BY <3>1, <3>2 DEF S
<1> QED BY <1>7, <1>8 DEF W

\* The walk meets every block of the list and no other, and ends within as many
\* steps as there are granules, because it meets no block twice.
LEMMA WalkMeets ==
  ASSUME List
  PROVE  FreeBlocks = Listed /\ Walk[Granules + 1] = Null
<1> DEFINE W == Walk
           I == 1 .. Granules + 1
<1>1. /\ DOMAIN W = I /\ W[1] = freelist
      /\ \A k \in 2 .. Granules + 1 : W[k] = Follow(W[k - 1])
      /\ \A k \in I : W[k] \in Listed \cup {Null}
  BY WalkSteps
<1>2. /\ Granules \in Nat \ {0} /\ Null \notin Places /\ Listed \subseteq Places
      /\ Places = 0 .. Granules - 1 /\ Closed(mem, freelist, Listed)
      /\ Listed \in SUBSET Heads
  BY HeapFacts, ListedLeast DEF List
<1> HIDE DEF W
<1>3. \E k \in I : W[k] = Null
  <2> SUFFICES ASSUME \A k \in I : W[k] # Null PROVE FALSE
    OBVIOUS
  <2> DEFINE f == [k \in I |-> W[k]]
             S == { x \in I : \E y \in I : x < y /\ W[x] = W[y] }
  <2>1. f \in [I -> Places] /\ \A k \in I : W[k] \in Listed /\ W[k] \in Places
    BY <1>1, <1>2
  <2>2. /\ IsFiniteSet(I) /\ Cardinality(I) = Granules + 1
        /\ IsFiniteSet(Places) /\ Cardinality(Places) = Granules
    BY <1>2, FS_Interval
  <2>3. \E x, y \in I : x # y /\ f[x] = f[y]
    <3>1. Cardinality(Places) < Cardinality(I)
      BY <1>2, <2>2
    <3> HIDE DEF f, I
    <3> QED BY <2>1, <2>2, <3>1, FS_PigeonHole
  <2>4. S # {} /\ S \in SUBSET Nat
    <3>1. PICK x \in I, y \in I : x # y /\ W[x] = W[y]
      BY <2>3
    <3>2. x < y \/ y < x
      BY <3>1
    <3> QED BY <3>1, <3>2
  <2>5. PICK x \in S : \A m \in S : x <= m
    BY <2>4, Smallest
  <2>6. PICK y \in I : x < y /\ W[x] = W[y]
    BY <2>5
  <2>7. y \in 2 .. Granules + 1 /\ y - 1 \in I
    BY <1>2, <2>5, <2>6
  <2>8. W[y] = mem[W[y - 1] + 1] /\ W[y] # Null /\ W[y - 1] \in Listed
    BY <1>1, <2>1, <2>7 DEF Follow
  <2>9. CASE x = 1
    BY <1>1, <2>6, <2>8, <2>9 DEF List
  <2>10. CASE x # 1
    <3>1. x \in 2 .. Granules + 1 /\ x - 1 \in I /\ x - 1 < y - 1
      BY <1>2, <2>5, <2>6, <2>10
    <3>2. W[x] = mem[W[x - 1] + 1] /\ W[x - 1] \in Listed
      BY <1>1, <2>1, <3>1 DEF Follow
    <3>3. W[x - 1] = W[y - 1]
      BY <2>6, <2>8, <3>2 DEF List
    <3>4. x - 1 \in S
      BY <2>7, <3>1, <3>3
    <3>5. x <= x - 1
      BY <2>5, <3>4
    <3> QED BY <3>1, <3>5
  <2> QED BY <2>9, <2>10
<1>4. PICK n \in I : W[n] = Null
  BY <1>3
<1>5. \A k \in I : k >= n => W[k] = Null
  <2> DEFINE S == {k \in Nat : n + k \in I => W[n + k] = Null}
  <2>1. 0 \in S
    BY <1>4
  <2>2. ASSUME NEW k \in Nat, k \in S, n + (k + 1) \in I PROVE W[n + (k + 1)] = Null
    <3>1. n + k \in I /\ n + (k + 1) \in 2 .. Granules + 1 /\ (n + (k + 1)) - 1 = n + k
      BY <1>2, <1>4, <2>2
    <3>2. W[n + k] = Null /\ W[n + (k + 1)] = Follow(W[n + k])
      BY <1>1, <2>2, <3>1
    <3> QED BY <1>2, <3>2 DEF Follow
  <2>3. \A k \in Nat : k \in S => k + 1 \in S
    BY <2>2
  <2> HIDE DEF S
  <2>4. Nat \subseteq S
    BY <2>1, <2>3, SetInduction
  <2> SUFFICES ASSUME NEW k \in I, k >= n PROVE W[k] = Null
    OBVIOUS
  <2>5. k - n \in Nat /\ n + (k - n) = k
    BY <1>4
  <2>6. k - n \in S
    BY <2>4, <2>5
  <2> QED BY <2>5, <2>6 DEF S
<1>6. W[Granules + 1] = Null
  BY <1>2, <1>4, <1>5
<1> DEFINE F == { W[k] : k \in I } \cap Places
<1>7. F \subseteq Listed
  BY <1>1, <1>2
<1>8. Closed(mem, freelist, F)
  <2>1. freelist \in F \cup {Null}
    <3>1. 1 \in I /\ freelist \in Places \cup {Null}
      BY <1>2 DEF Closed
    <3> QED BY <1>1, <3>1
  <2>2. ASSUME NEW b \in F PROVE mem[b + 1] \in F \cup {Null}
    <3>1. PICK k \in I : b = W[k]
      OBVIOUS
    <3>2. k # Granules + 1
      BY <1>2, <1>6, <3>1
    <3>3. k + 1 \in 2 .. Granules + 1 /\ k + 1 \in I /\ (k + 1) - 1 = k
      BY <1>2, <3>2
    <3>4. W[k + 1] = mem[b + 1]
      BY <1>1, <3>1, <3>3 DEF Follow
    <3>5. W[k + 1] \in Places \cup {Null}
      BY <1>1, <1>2, <3>3
    <3> QED BY <3>3, <3>4, <3>5
  <2> QED BY <2>1, <2>2 DEF Closed
<1>9. F = Listed
  <2> HIDE DEF F
  <2>1. F \in SUBSET Heads
    BY <1>2, <1>7
  <2> QED BY <1>7, <1>8, <2>1, ListedLeast
<1>10. FreeBlocks = F
  BY <1>1 DEF FreeBlocks, W
<1> QED BY <1>6, <1>9, <1>10 DEF W

-----------------------------------------------------------------------------
(***************************************************************************)
(* The steps.                                                              *)
(***************************************************************************)
LEMMA BlockFacts ==
  ASSUME HeapInv
  PROVE  /\ Blocks \subseteq Heads /\ Blocks \subseteq Nat
         /\ \A b \in Blocks : b + 1 \in Places /\ b + 1 < off
         /\ off \in Nat /\ off <= Granules
         /\ \A x \in live : x.at \in Nat /\ x.at >= 1 /\ x.size \in Nat /\ x.size > 0
                            /\ x.at - 1 \in LiveBlocks /\ x.at - 1 \in Blocks
                            /\ x.at - 1 \notin Listed /\ (x.at - 1) + 1 = x.at
<1>1. /\ Granules \in Nat /\ off \in 0 .. Granules /\ Listed \subseteq Places
      /\ Places = 0 .. Granules - 1 /\ Places \subseteq Nat /\ Requests \subseteq Nat
  BY HeapFacts, ListedLeast DEF HeapInv, Typed
<1>2. \A x \in live : x.at \in Places /\ x.size \in Requests
  BY DEF HeapInv, Typed
<1>3. \A x \in live : x.at \in Nat /\ x.at >= 1 /\ x.size \in Nat /\ x.size > 0
                      /\ x.at - 1 \in LiveBlocks /\ x.at - 1 \in Blocks
                      /\ x.at - 1 \notin Listed /\ (x.at - 1) + 1 = x.at
  <2> SUFFICES ASSUME NEW x \in live
               PROVE  /\ x.at \in Nat /\ x.at >= 1 /\ x.size \in Nat /\ x.size > 0
                      /\ x.at - 1 \in LiveBlocks /\ x.at - 1 \in Blocks
                      /\ x.at - 1 \notin Listed /\ (x.at - 1) + 1 = x.at
    OBVIOUS
  <2>1. x.at \in Nat /\ x.size \in Nat
    BY <1>1, <1>2
  <2>2. x.at >= 1 /\ x.size > 0 /\ x.at - 1 \notin Listed
    BY DEF HeapInv, Held
  <2>3. x.at - 1 \in LiveBlocks
    BY DEF LiveBlocks
  <2> QED BY <2>1, <2>2, <2>3 DEF Blocks
<1>4. LiveBlocks \subseteq Nat
  BY <1>3 DEF LiveBlocks
<1>5. Blocks \subseteq Nat
  BY <1>1, <1>4 DEF Blocks
<1>6. ASSUME NEW b \in Blocks PROVE b + 1 \in Places /\ b + 1 < off /\ b \in Heads
  <2>1. mem[b] \in Nat /\ mem[b] >= 2 /\ b + mem[b] <= off /\ b \in Nat
    BY <1>5 DEF HeapInv, Sized
  <2> QED BY <1>1, <2>1 DEF Heads
<1> QED BY <1>1, <1>3, <1>5, <1>6

\* Behind the header of a block there is no header, and no link of another.
LEMMA Inside ==
  ASSUME HeapInv, NEW b \in Blocks, NEW p \in Block(b), p # b
  PROVE  p \notin Blocks /\ \A c \in Listed : c # b => p # c + 1
<1>1. /\ Blocks \subseteq Nat /\ Listed \subseteq Blocks
      /\ \A c \in Blocks : mem[c] \in Nat /\ mem[c] >= 2
  BY BlockFacts DEF Blocks, HeapInv, Sized
<1>2. p \in Nat /\ b < p /\ p < b + mem[b]
  BY <1>1 DEF Block
<1>3. \A c \in Blocks : (c < b => c + mem[c] <= b) /\ (b < c => b + mem[b] <= c)
  BY DEF HeapInv, Apart
<1>4. p \notin Blocks
  BY <1>1, <1>2, <1>3
<1>5. ASSUME NEW c \in Listed, c # b PROVE p # c + 1
  <2>1. c < b \/ b < c
    BY <1>1, <1>5
  <2> QED BY <1>1, <1>2, <1>3, <2>1
<1> QED BY <1>4, <1>5

\* A step that changes neither the blocks nor a header.
LEMMA TileKept ==
  ASSUME HeapInv, Blocks' = Blocks, off' = off, \A b \in Blocks : mem'[b] = mem[b]
  PROVE  Sized' /\ Apart' /\ Cover'
<1>1. Sized'
  BY DEF HeapInv, Sized
<1>2. Apart'
  BY DEF HeapInv, Apart
<1>3. Cover'
  <2> SUFFICES ASSUME NEW p \in 0 .. off - 1
               PROVE  \E b \in Blocks : p \in b .. b + mem'[b] - 1
    BY DEF Cover, Block
  <2>1. PICK b \in Blocks : p \in b .. b + mem[b] - 1
    BY DEF HeapInv, Cover, Block
  <2> QED BY <2>1
<1> QED BY <1>1, <1>2, <1>3

LEMMA ListStep ==
  ASSUME HeapInv, NEW n \in Requests, kmalloc_list(n)
  PROVE  /\ HeapInv'
         /\ \E b \in Listed : /\ live' = live \cup {[at |-> b + 1, size |-> n]}
                              /\ mem[b] >= Need(n) /\ n \in Nat /\ n > 0
         /\ Blocks' = Blocks /\ \A d \in Blocks : mem'[d] = mem[d]
<1>1. PICK k \in 1 .. Granules :
        /\ Fits(k, n)
        /\ IF k = 1
           THEN /\ freelist' = mem[Walk[1] + 1]
                /\ UNCHANGED mem
           ELSE /\ mem' = [mem EXCEPT ![Walk[k - 1] + 1] = mem[Walk[k] + 1]]
                /\ UNCHANGED freelist
        /\ live' = live \cup {[at |-> Walk[k] + 1, size |-> n]}
  BY DEF kmalloc_list
<1>2. off' = off /\ n \in Nat /\ n > 0
  BY HeapFacts DEF kmalloc_list, Served
<1>3. /\ \A j \in 2 .. Granules + 1 : Walk[j] = Follow(Walk[j - 1])
      /\ \A j \in 1 .. Granules + 1 : Walk[j] \in Listed \cup {Null}
      /\ Walk[1] = freelist /\ Granules \in Nat /\ Null \notin Places
      /\ List /\ Listed \subseteq Blocks
  BY WalkSteps, HeapFacts DEF HeapInv, Blocks
<1> DEFINE b == Walk[k]
           x == [at |-> b + 1, size |-> n]
<1>4. b \in Listed /\ mem[b] >= Need(n) /\ b + 1 \in Places /\ b \in Nat
  BY <1>1, <1>3, BlockFacts DEF Fits
<1>5. \/ freelist = b /\ freelist' = mem[b + 1] /\ UNCHANGED mem
      \/ /\ freelist' = freelist
         /\ \E a \in Listed : mem[a + 1] = b /\ mem' = [mem EXCEPT ![a + 1] = mem[b + 1]]
  <2>1. CASE k = 1
    BY <1>1, <1>3, <2>1
  <2>2. CASE k # 1
    <3>1. k - 1 \in 1 .. k - 1 /\ k \in 2 .. Granules + 1 /\ k - 1 \in 1 .. Granules + 1
      BY <1>3, <2>2
    <3>2. Walk[k - 1] \in Places /\ Walk[k - 1] \in Listed
      BY <1>1, <1>3, <3>1 DEF Fits
    <3>3. b = mem[Walk[k - 1] + 1]
      BY <1>3, <3>1, <3>2 DEF Follow
    <3> QED BY <1>1, <2>2, <3>2, <3>3
  <2> QED BY <2>1, <2>2
<1> HIDE DEF b
<1>6. /\ mem' \in [Places -> Nat \cup {Null, Junk}]
      /\ \A d \in Blocks : mem'[d] = mem[d]
      /\ \/ freelist = b /\ freelist' = mem[b + 1] /\ UNCHANGED mem
         \/ /\ freelist' = freelist
            /\ \E a \in Listed : /\ mem[a + 1] = b /\ mem'[a + 1] = mem[b + 1]
                                 /\ \A c \in Listed \ {a} : mem'[c + 1] = mem[c + 1]
  <2>1. CASE freelist = b /\ freelist' = mem[b + 1] /\ UNCHANGED mem
    BY <2>1 DEF HeapInv, Typed
  <2>2. ASSUME freelist' = freelist, NEW a \in Listed, mem[a + 1] = b,
               mem' = [mem EXCEPT ![a + 1] = mem[b + 1]]
        PROVE  /\ mem' \in [Places -> Nat \cup {Null, Junk}]
               /\ \A d \in Blocks : mem'[d] = mem[d]
               /\ mem'[a + 1] = mem[b + 1] /\ \A c \in Listed \ {a} : mem'[c + 1] = mem[c + 1]
    <3>1. a + 1 \in Places /\ mem \in [Places -> Nat \cup {Null, Junk}]
          /\ \A d \in Blocks : d \in Nat /\ d \in Places /\ d + 1 \in Places
      BY <1>3, BlockFacts, HeapFacts DEF HeapInv, Typed
    <3>2. a + 1 \in Block(a) /\ a \in Nat /\ a + 1 # a
      BY <1>3, BlockFacts DEF HeapInv, Sized, Block
    <3>3. a + 1 \notin Blocks
      BY <1>3, <3>2, Inside
    <3>4. \A c \in Listed \ {a} : c + 1 # a + 1
      BY <1>3, <3>1, <3>2
    <3>5. mem[b + 1] \in Nat \cup {Null, Junk}
      BY <1>4, <3>1
    <3> QED BY <1>3, <2>2, <3>1, <3>3, <3>4, <3>5
  <2> QED BY <1>5, <2>1, <2>2
<1>7. Listed' = Listed \ {b} /\ List'
  <2> QED BY <1>3, <1>4, <1>6, ListTake
<1>8. /\ b \notin LiveBlocks /\ LiveBlocks' = LiveBlocks \cup {b} /\ Blocks' = Blocks
  <2>1. b \notin LiveBlocks
    BY <1>4, BlockFacts DEF LiveBlocks
  <2>2. live' = live \cup {x} /\ x.at - 1 = b
    BY <1>1, <1>4 DEF b
  <2>3. LiveBlocks' = LiveBlocks \cup {b}
    BY <2>2 DEF LiveBlocks
  <2> QED BY <1>3, <1>4, <1>7, <2>1, <2>3 DEF Blocks
<1>9. Sized' /\ Apart' /\ Cover'
  BY <1>2, <1>6, <1>8, TileKept
<1>10. live' = live \cup {x} /\ x.at = b + 1 /\ x.size = n /\ x \in [at : Places, size : Requests]
  BY <1>1, <1>4 DEF b
<1>11. Typed'
  <2>1. freelist' \in Places \cup {Null}
    BY <1>7, HeapFacts, ListedLeast DEF List, Closed
  <2> QED BY <1>2, <1>6, <1>10, <2>1, FS_AddElement DEF HeapInv, Typed
<1>12. Held'
  <2>1. /\ b \notin Listed' /\ Listed' \subseteq Listed /\ mem'[b] >= Need(n)
        /\ \A y \in live : mem'[y.at - 1] = mem[y.at - 1]
        /\ \A y \in live : y.at \in Nat /\ y.at # b + 1
    BY <1>3, <1>4, <1>6, <1>7, BlockFacts
  <2>2. x.at >= 1 /\ x.at - 1 = b
    BY <1>4, <1>10
  <2> HIDE DEF x
  <2>3. ASSUME NEW y \in live'
        PROVE  /\ y.at >= 1 /\ y.size > 0
               /\ mem'[y.at - 1] >= Need(y.size) /\ y.at - 1 \notin Listed'
    BY <1>2, <1>10, <2>1, <2>2, <2>3 DEF HeapInv, Held
  <2>4. ASSUME NEW y \in live', NEW z \in live', y.at = z.at PROVE y = z
    BY <1>10, <2>1, <2>4 DEF HeapInv, Held
  <2> QED BY <2>3, <2>4 DEF Held
<1> QED BY <1>2, <1>4, <1>6, <1>7, <1>8, <1>9, <1>10, <1>11, <1>12 DEF HeapInv

LEMMA BumpStep ==
  ASSUME HeapInv, NEW n \in Requests, kmalloc_bump(n)
  PROVE  /\ HeapInv' /\ Blocks' = Blocks \cup {off}
         /\ live' = live \cup {[at |-> off + 1, size |-> n]} /\ n \in Nat /\ n > 0
<1> DEFINE x == [at |-> off + 1, size |-> n]
<1>1. /\ n \in Nat /\ n > 0 /\ freelist' = freelist
      /\ mem' = [mem EXCEPT ![off] = Need(n)] /\ off' = off + Need(n)
      /\ live' = live \cup {x} /\ Granules - off >= Need(n)
  BY HeapFacts DEF kmalloc_bump, Served
<1>2. Need(n) \in Nat /\ Need(n) >= 2
  BY <1>1, NeedIs
<1>3. /\ Granules \in Nat /\ off \in Nat /\ Places = 0 .. Granules - 1
      /\ \A b \in Blocks : b \in Nat /\ b + 1 \in Places /\ b + 1 < off /\ b \in Places
      /\ mem \in [Places -> Nat \cup {Null, Junk}] /\ Listed \subseteq Blocks
  BY BlockFacts, HeapFacts DEF HeapInv, Typed, Blocks
<1>4. off \in Places /\ off + 1 \in Places
  BY <1>1, <1>2, <1>3
<1>5. /\ mem' \in [Places -> Nat \cup {Null, Junk}] /\ mem'[off] = Need(n)
      /\ \A b \in Blocks : mem'[b] = mem[b] /\ mem'[b + 1] = mem[b + 1]
  BY <1>1, <1>2, <1>3, <1>4
<1>6. Listed' = Listed /\ List'
  BY <1>1, <1>3, <1>5, ListKept DEF HeapInv
<1>7. x.at = off + 1 /\ x.size = n /\ x \in [at : Places, size : Requests] /\ x.at - 1 = off
  BY <1>3, <1>4
<1> HIDE DEF x
<1>8. Blocks' = Blocks \cup {off}
  <2>1. LiveBlocks' = LiveBlocks \cup {off}
    BY <1>1, <1>7 DEF LiveBlocks
  <2> QED BY <1>6, <2>1 DEF Blocks
<1>9. Typed'
  <2>1. off' \in 0 .. Granules
    BY <1>1, <1>2, <1>3
  <2> QED BY <1>1, <1>5, <1>7, <2>1, FS_AddElement DEF HeapInv, Typed
<1>10. Sized'
  BY <1>1, <1>2, <1>3, <1>5, <1>8 DEF HeapInv, Sized
<1>11. Apart'
  BY <1>3, <1>5, <1>8 DEF HeapInv, Sized, Apart
<1>12. Cover'
  <2> SUFFICES ASSUME NEW p \in 0 .. off' - 1
               PROVE  \E b \in Blocks' : p \in b .. b + mem'[b] - 1
    BY DEF Cover, Block
  <2>0. p \in 0 .. off + Need(n) - 1
    <3>1. off' = off + Need(n) /\ off \in Nat /\ Need(n) \in Nat
      BY <1>1, <1>2, <1>3
    <3> QED BY <3>1
  <2>1. CASE p < off
    <3>1. PICK b \in Blocks : p \in b .. b + mem[b] - 1
      BY <1>3, <2>0, <2>1 DEF HeapInv, Cover, Block
    <3>2. b \in Blocks' /\ mem'[b] = mem[b]
      BY <1>5, <1>8
    <3> QED BY <3>1, <3>2
  <2>2. CASE p >= off
    <3>1. p \in off .. off + mem'[off] - 1 /\ off \in Blocks'
      BY <1>2, <1>3, <1>5, <1>8, <2>0, <2>2
    <3> QED BY <3>1
  <2> QED BY <1>2, <1>3, <2>0, <2>1, <2>2
<1>13. Held'
  <2>1. /\ off \notin Listed /\ \A y \in live : mem'[y.at - 1] = mem[y.at - 1]
        /\ \A y \in live : y.at \in Nat /\ y.at # off + 1
    <3>1. ASSUME NEW y \in live
          PROVE  mem'[y.at - 1] = mem[y.at - 1] /\ y.at \in Nat /\ y.at # off + 1
      BY <1>3, <1>5, BlockFacts
    <3> QED BY <1>3, <3>1
  <2>2. ASSUME NEW y \in live'
        PROVE  /\ y.at >= 1 /\ y.size > 0
               /\ mem'[y.at - 1] >= Need(y.size) /\ y.at - 1 \notin Listed'
    BY <1>1, <1>2, <1>3, <1>5, <1>6, <1>7, <2>1, <2>2 DEF HeapInv, Held
  <2>3. ASSUME NEW y \in live', NEW z \in live', y.at = z.at PROVE y = z
    BY <1>1, <1>7, <2>1, <2>3 DEF HeapInv, Held
  <2> QED BY <2>2, <2>3 DEF Held
<1> QED BY <1>1, <1>6, <1>8, <1>9, <1>10, <1>11, <1>12, <1>13 DEF HeapInv, x

LEMMA FreeStep ==
  ASSUME HeapInv, NEW x \in live, kfree(x)
  PROVE  /\ HeapInv' /\ Blocks' = Blocks /\ mem'[x.at] = freelist
         /\ \A d \in Blocks : mem'[d] = mem[d]
         /\ \A c \in Listed : mem'[c + 1] = mem[c + 1]
<1> DEFINE b == x.at - 1
<1>1. /\ b \in Blocks /\ b \in LiveBlocks /\ b \notin Listed /\ b \in Heads /\ b + 1 = x.at
      /\ b \in Nat /\ b + 1 \in Places /\ Listed \subseteq Blocks /\ Blocks \subseteq Nat
      /\ Blocks \subseteq Places /\ Heads \subseteq Places
      /\ mem \in [Places -> Nat \cup {Null, Junk}]
  BY BlockFacts, HeapFacts DEF HeapInv, Typed, Blocks
<1> HIDE DEF b
<1>2. /\ mem' = [mem EXCEPT ![b + 1] = freelist] /\ freelist' = b
      /\ live' = live \ {x} /\ off' = off
  BY <1>1 DEF kfree, b
<1>3. b + 1 \in Block(b) /\ b + 1 # b
  BY <1>1 DEF HeapInv, Sized, Block
<1>4. b + 1 \notin Blocks
  BY <1>1, <1>3, Inside
<1>5. /\ mem' \in [Places -> Nat \cup {Null, Junk}] /\ mem'[b + 1] = freelist
      /\ \A d \in Blocks : mem'[d] = mem[d]
      /\ \A c \in Listed : mem'[c + 1] = mem[c + 1]
  <2>1. freelist \in Nat \cup {Null, Junk}
    BY HeapFacts DEF HeapInv, Typed
  <2>2. \A c \in Listed : c + 1 # b + 1 /\ c + 1 \in Places
    BY <1>1, BlockFacts
  <2> QED BY <1>1, <1>2, <1>4, <2>1, <2>2
<1>6. Listed' = Listed \cup {b} /\ List'
  BY <1>1, <1>2, <1>5, ListPush DEF HeapInv
<1>7. \A y \in live \ {x} : y.at \in Nat /\ y.at - 1 # b
  BY <1>1, BlockFacts DEF HeapInv, Held
<1>8. Blocks' = Blocks
  <2>1. LiveBlocks' = LiveBlocks \ {b}
    BY <1>2, <1>7 DEF LiveBlocks, b
  <2> QED BY <1>1, <1>6, <2>1 DEF Blocks
<1>9. Sized' /\ Apart' /\ Cover'
  BY <1>2, <1>5, <1>8, TileKept
<1>10. Typed'
  BY <1>1, <1>2, <1>5, FS_RemoveElement DEF HeapInv, Typed
<1>11. Held'
  <2>1. \A y \in live : mem'[y.at - 1] = mem[y.at - 1]
    BY <1>5, BlockFacts
  <2> QED BY <1>2, <1>6, <1>7, <2>1 DEF HeapInv, Held
<1> QED BY <1>1, <1>5, <1>6, <1>8, <1>9, <1>10, <1>11 DEF HeapInv

\* What a caller holds is its block without the header.
LEMMA RegionInside ==
  ASSUME HeapInv, NEW x \in live
  PROVE  /\ Region(x) \subseteq Block(x.at - 1) \ {x.at - 1}
         /\ Cardinality(Region(x)) = Need(x.size) - 1
         /\ Need(x.size) \in Nat /\ Need(x.size) >= 2
<1>1. x.at \in Nat /\ x.at >= 1 /\ x.size \in Nat /\ x.size > 0 /\ x.at - 1 \in Blocks
  BY BlockFacts
<1> DEFINE r == (x.size + Align - 1) \div Align
<1>2. Need(x.size) = r + 1 /\ Need(x.size) \in Nat /\ Need(x.size) >= 2
  BY <1>1, NeedIs
<1>3. mem[x.at - 1] >= Need(x.size) /\ mem[x.at - 1] \in Nat
  BY <1>1 DEF HeapInv, Held, Sized
<1>4. Region(x) = x.at .. x.at + r - 1
  BY DEF Region
<1>5. Need(x.size) - 1 \in Nat /\ Region(x) = x.at .. x.at + (Need(x.size) - 1) - 1
  <2> HIDE DEF r
  <2>1. r \in Int
    <3>1. x.size + Align - 1 \in Int /\ Align \in Nat \ {0}
      BY <1>1, HeapFacts
    <3> QED BY <3>1 DEF r
  <2> QED BY <1>2, <1>4, <2>1
<1> DEFINE q == Need(x.size)
           a == x.at
           k == mem[x.at - 1]
<1>6. /\ a \in Nat /\ a >= 1 /\ q \in Nat /\ q >= 2 /\ k \in Nat /\ k >= q
      /\ Region(x) = a .. a + (q - 1) - 1 /\ Block(a - 1) = a - 1 .. a - 1 + k - 1
  BY <1>1, <1>2, <1>3, <1>5 DEF Block
<1> HIDE DEF q, a, k, r
<1>7. Region(x) \subseteq Block(a - 1) \ {a - 1}
  BY <1>6
<1>8. Cardinality(Region(x)) = q - 1
  <2>1. a <= a + (q - 1) - 1 /\ a + (q - 1) - 1 \in Int /\ a \in Int
    BY <1>6
  <2>2. Cardinality(Region(x)) = ((a + (q - 1) - 1) - a) + 1
    BY <1>6, <2>1, FS_Interval
  <2>3. ((a + (q - 1) - 1) - a) + 1 = q - 1
    BY <1>6
  <2> QED BY <2>2, <2>3
<1> QED BY <1>2, <1>7, <1>8 DEF a, q

LEMMA UseStep ==
  ASSUME HeapInv, NEW x \in live, use(x)
  PROVE  /\ HeapInv' /\ Listed' = Listed /\ Blocks' = Blocks
         /\ \A d \in Blocks : mem'[d] = mem[d]
         /\ \A c \in Listed : mem'[c + 1] = mem[c + 1]
<1> DEFINE b == x.at - 1
<1>1. /\ b \in Blocks /\ b \notin Listed /\ Listed \subseteq Blocks /\ Blocks \subseteq Places
      /\ mem \in [Places -> Nat \cup {Null, Junk}] /\ x.at \in Nat
      /\ \A c \in Listed : c + 1 \in Places
  BY BlockFacts, HeapFacts DEF HeapInv, Typed, Blocks
<1>2. PICK p \in {x.at, x.at + Cardinality(Region(x)) - 1} : mem' = [mem EXCEPT ![p] = Junk]
  BY DEF use
<1>3. freelist' = freelist /\ off' = off /\ live' = live
  BY DEF use
<1>4. p \in Block(b) /\ p # b
  <2>1. /\ Cardinality(Region(x)) = Need(x.size) - 1
        /\ Need(x.size) \in Nat /\ Need(x.size) >= 2
    BY RegionInside
  <2>2. mem[b] \in Nat /\ mem[b] >= Need(x.size) /\ b \in Nat /\ x.at = b + 1
    BY <1>1, BlockFacts DEF HeapInv, Held, Sized
  <2>3. p = b + 1 \/ p = b + 1 + (Need(x.size) - 1) - 1
    BY <1>2, <2>1, <2>2
  <2> HIDE DEF b
  <2> QED BY <2>1, <2>2, <2>3 DEF Block
<1> HIDE DEF b
<1>5. p \notin Blocks /\ \A c \in Listed : p # c + 1
  BY <1>1, <1>4, Inside
<1>6. /\ mem' \in [Places -> Nat \cup {Null, Junk}] /\ \A d \in Blocks : mem'[d] = mem[d]
      /\ \A c \in Listed : mem'[c + 1] = mem[c + 1]
  BY <1>1, <1>2, <1>5
<1>7. Listed' = Listed /\ List'
  BY <1>3, <1>6, ListKept DEF HeapInv
<1>8. Blocks' = Blocks
  BY <1>3, <1>7 DEF Blocks, LiveBlocks
<1>9. Sized' /\ Apart' /\ Cover'
  BY <1>3, <1>6, <1>8, TileKept
<1>10. Typed'
  BY <1>3, <1>6 DEF HeapInv, Typed
<1>11. Held'
  <2>1. \A y \in live : mem'[y.at - 1] = mem[y.at - 1]
    BY <1>6, BlockFacts
  <2> QED BY <1>3, <1>7, <2>1 DEF HeapInv, Held
<1> QED BY <1>6, <1>7, <1>8, <1>9, <1>10, <1>11 DEF HeapInv

-----------------------------------------------------------------------------
LEMMA HeapInit == Init => HeapInv
<1> SUFFICES ASSUME Init PROVE HeapInv
  OBVIOUS
<1>1. /\ mem = [p \in Places |-> 0] /\ freelist = Null /\ off = 0 /\ live = {}
      /\ Granules \in Nat \ {0}
  BY HeapFacts DEF Init
<1>2. Listed = {}
  <2>1. Closed(mem, freelist, {}) /\ {} \in SUBSET Heads
    BY <1>1 DEF Closed
  <2> QED BY <2>1 DEF Listed
<1>3. List
  BY <1>1, <1>2 DEF List, Closed
<1>4. Blocks = {}
  BY <1>1, <1>2 DEF Blocks, LiveBlocks
<1>5. Typed
  BY <1>1, FS_EmptySet DEF Typed
<1>6. Cover
  BY <1>1 DEF Cover
<1> QED BY <1>1, <1>3, <1>4, <1>5, <1>6 DEF HeapInv, Sized, Apart, Held

LEMMA HeapStep == HeapInv /\ [Next]_vars => HeapInv'
<1> SUFFICES ASSUME HeapInv, [Next]_vars PROVE HeapInv'
  OBVIOUS
<1>1. ASSUME NEW n \in Requests, kmalloc_list(n) PROVE HeapInv'
  BY <1>1, ListStep
<1>2. ASSUME NEW n \in Requests, kmalloc_bump(n) PROVE HeapInv'
  BY <1>2, BumpStep
<1>3. ASSUME NEW x \in live, kfree(x) PROVE HeapInv'
  BY <1>3, FreeStep
<1>4. ASSUME NEW x \in live, use(x) PROVE HeapInv'
  BY <1>4, UseStep
<1>5. CASE UNCHANGED vars
  <2>1. /\ mem' = mem /\ freelist' = freelist /\ off' = off /\ live' = live
    BY <1>5 DEF vars
  <2>2. List /\ \A b \in Listed : mem'[b + 1] = mem[b + 1]
    BY <2>1 DEF HeapInv
  <2>3. Listed' = Listed /\ List'
    BY <2>1, <2>2, ListKept
  <2>4. Blocks' = Blocks
    BY <2>1, <2>3 DEF Blocks, LiveBlocks
  <2>5. Sized' /\ Apart' /\ Cover'
    BY <2>1, <2>4, TileKept
  <2>6. Typed' /\ Held'
    BY <2>1, <2>3 DEF HeapInv, Typed, Held
  <2> QED BY <2>3, <2>5, <2>6 DEF HeapInv
<1> QED BY <1>1, <1>2, <1>3, <1>4, <1>5 DEF Next

LEMMA HeapInvariant == Spec => []HeapInv
BY HeapInit, HeapStep, PTL DEF Spec

-----------------------------------------------------------------------------
\* The arena holds sizes, links and what callers wrote, nothing else, and every
\* caller holds a place of the arena.
THEOREM HeapTypes == Spec => []TypeOK
<1>1. HeapInv => TypeOK
  BY HeapFacts DEF HeapInv, Typed, TypeOK
<1> QED BY <1>1, HeapInvariant, PTL

\* kmalloc's walk of the free list ends and follows links only, although the
\* links lie where callers write their data.
THEOREM ListSafe == Spec => []ListEnds
<1>1. HeapInv => ListEnds
  <2> SUFFICES ASSUME HeapInv PROVE ListEnds
    OBVIOUS
  <2>1. List
    BY DEF HeapInv
  <2>2. Walk[Granules + 1] = Null
    BY <2>1, WalkMeets
  <2>3. /\ DOMAIN Walk = 1 .. Granules + 1
        /\ \A k \in 1 .. Granules + 1 : Walk[k] \in Listed \cup {Null}
    BY <2>1, WalkSteps
  <2>4. Junk \notin Listed \cup {Null}
    BY HeapFacts, ListedLeast
  <2> QED BY <2>2, <2>3, <2>4 DEF ListEnds
<1> QED BY <1>1, HeapInvariant, PTL

\* Every granule that was carved from the arena belongs to exactly one block,
\* which is on the free list or held by exactly one caller; kmalloc and kfree
\* lose none and overlap none, whatever the order of the calls.
THEOREM TilesArena == Spec => []BlocksTile
<1>1. HeapInv => BlocksTile
  <2> SUFFICES ASSUME HeapInv PROVE BlocksTile
    OBVIOUS
  <2>1. FreeBlocks = Listed
    BY WalkMeets DEF HeapInv
  <2>2. FreeBlocks \cap LiveBlocks = {}
    BY <2>1, BlockFacts DEF LiveBlocks
  <2>3. Cardinality(LiveBlocks) = Cardinality(live)
    <3> DEFINE f == [x \in live |-> x.at - 1]
    <3>1. \A x, y \in live : x.at - 1 = y.at - 1 => x = y
      BY BlockFacts DEF HeapInv, Held
    <3>2. f \in Bijection(live, LiveBlocks)
      <4>1. f \in [live -> LiveBlocks]
        BY DEF LiveBlocks
      <4>2. \A x, y \in live : f[x] = f[y] => x = y
        BY <3>1
      <4>3. \A b \in LiveBlocks : \E x \in live : f[x] = b
        BY DEF LiveBlocks
      <4> HIDE DEF f
      <4> QED BY <4>1, <4>2, <4>3 DEF Bijection, Injection, Surjection, IsInjective
    <3>3. IsFiniteSet(live)
      BY DEF HeapInv, Typed
    <3> HIDE DEF f
    <3> QED BY <3>2, <3>3, FS_Bijection DEF ExistsBijection
  <2>4. \A b \in Blocks : mem[b] \in Nat /\ mem[b] > 0
    BY DEF HeapInv, Sized
  <2>5. ASSUME NEW p \in 0 .. off - 1
        PROVE  Cardinality({ b \in Blocks : p \in Block(b) }) = 1
    <3>1. PICK b \in Blocks : p \in Block(b)
      BY DEF HeapInv, Cover
    <3>2. ASSUME NEW c \in Blocks, p \in Block(c) PROVE c = b
      BY <3>1, <3>2, BlockFacts DEF HeapInv, Sized, Apart, Block
    <3>3. { c \in Blocks : p \in Block(c) } = {b}
      BY <3>1, <3>2
    <3> QED BY <3>3, FS_Singleton
  <2> QED BY <2>1, <2>2, <2>3, <2>4, <2>5 DEF BlocksTile, Blocks
<1> QED BY <1>1, HeapInvariant, PTL

\* What callers hold lies in the arena, apart from what the others hold.
HeldApart == \A x, y \in live : /\ Region(x) \subseteq Places
                                /\ x # y => Region(x) \cap Region(y) = {}

LEMMA RegionsApart == HeapInv => HeldApart
<1> SUFFICES ASSUME HeapInv, NEW x \in live, NEW y \in live
             PROVE  /\ Region(x) \subseteq Places
                    /\ x # y => Region(x) \cap Region(y) = {}
  BY DEF HeldApart
<1> DEFINE b == x.at - 1
           c == y.at - 1
<1>1. /\ Region(x) \subseteq b .. b + mem[b] - 1 /\ Region(y) \subseteq c .. c + mem[c] - 1
  BY RegionInside DEF Block
<1>2. b \in Blocks /\ c \in Blocks /\ b \in Nat /\ c \in Nat /\ (x # y => b # c)
  BY BlockFacts DEF HeapInv, Held
<1> HIDE DEF b, c
<1>3. /\ mem[b] \in Nat /\ mem[c] \in Nat /\ b + mem[b] <= off /\ off \in Nat /\ off <= Granules
      /\ Places = 0 .. Granules - 1 /\ Granules \in Nat
  BY <1>2, BlockFacts, HeapFacts DEF HeapInv, Sized
<1>4. (b < c => b + mem[b] <= c) /\ (c < b => c + mem[c] <= b)
  BY <1>2 DEF HeapInv, Apart
<1>5. Region(x) \subseteq Places
  BY <1>1, <1>2, <1>3
<1>6. ASSUME x # y, NEW p, p \in Region(x), p \in Region(y) PROVE FALSE
  <2> DEFINE i == mem[b]
             j == mem[c]
  <2>1. /\ p \in b .. b + i - 1 /\ p \in c .. c + j - 1
        /\ b \in Nat /\ c \in Nat /\ b # c /\ i \in Nat /\ j \in Nat
        /\ (b < c => b + i <= c) /\ (c < b => c + j <= b)
    BY <1>1, <1>2, <1>3, <1>4, <1>6
  <2> HIDE DEF i, j
  <2> QED BY <2>1
<1> QED BY <1>5, <1>6

LEMMA RegionsApartNext == HeapInv' => HeldApart'
BY RegionsApart, PTL

\* The heap gives out regions of the arena of the size asked for, none of them
\* overlapping another that is still held: it implements module Allocator.
THEOREM HeapIsAllocator == Spec => ImplementsAllocator
<1>1. Init => AL!AInit
  BY DEF Init, AL!AInit
<1>2. ASSUME HeapInv', NEW n \in Requests, NEW b \in Nat, b + 1 \in Places,
             \A y \in live : y.at # b + 1,
             live' = live \cup {[at |-> b + 1, size |-> n]}
      PROVE  AL!ANext
  <2> DEFINE x == [at |-> b + 1, size |-> n]
  <2>1. x \in live' /\ x.at = b + 1 /\ live' = live \cup {x}
    BY <1>2
  <2> HIDE DEF x
  <2>2. Region(x) \subseteq Places /\ \A y \in live : Region(x) \cap Region(y) = {}
    <3>1. \A y \in live : y \in live' /\ y # x
      BY <1>2, <2>1
    <3> QED BY <1>2, <2>1, <3>1, RegionsApartNext DEF HeldApart
  <2>3. Region(x) \subseteq 0 .. Granules - 1 /\ b + 1 \in 0 .. Granules - 1
    BY <1>2, <2>2 DEF Places
  <2>4. AL!Grant(n)
    BY <2>1, <2>2, <2>3 DEF AL!Grant, AL!Region, Region, x
  <2> QED BY <2>4 DEF AL!ANext
<1>3. HeapInv /\ HeapInv' /\ [Next]_vars => [AL!ANext]_live
  <2> SUFFICES ASSUME HeapInv, HeapInv', [Next]_vars PROVE AL!ANext \/ live' = live
    OBVIOUS
  <2>1. ASSUME NEW n \in Requests, kmalloc_list(n) PROVE AL!ANext
    <3>1. PICK b \in Listed : live' = live \cup {[at |-> b + 1, size |-> n]}
      BY <2>1, ListStep
    <3>2. b \in Nat /\ b + 1 \in Places /\ \A y \in live : y.at # b + 1
      <4>1. b \in Blocks
        BY DEF Blocks
      <4>2. ASSUME NEW y \in live PROVE y.at # b + 1
        BY <4>1, BlockFacts
      <4> QED BY <4>1, <4>2, BlockFacts
    <3> QED BY <1>2, <3>1, <3>2
  <2>2. ASSUME NEW n \in Requests, kmalloc_bump(n) PROVE AL!ANext
    <3>1. live' = live \cup {[at |-> off + 1, size |-> n]} /\ Blocks' = Blocks \cup {off}
      BY <2>2, BumpStep
    <3>2. off \in Nat /\ \A y \in live : y.at # off + 1
      <4>1. ASSUME NEW y \in live PROVE y.at # off + 1
        BY BlockFacts
      <4> QED BY <4>1, BlockFacts
    <3>3. off + 1 \in Places
      <4>1. Granules - off >= Need(n) /\ n \in Nat /\ n > 0
        BY <2>2, HeapFacts DEF kmalloc_bump, Served
      <4>2. Need(n) >= 2 /\ Need(n) \in Nat
        BY <4>1, NeedIs
      <4> QED BY <3>2, <4>1, <4>2, HeapFacts
    <3> QED BY <1>2, <3>1, <3>2, <3>3
  <2>3. ASSUME NEW x \in live, kfree(x) PROVE AL!ANext
    BY <2>3 DEF kfree, AL!ANext, AL!Release
  <2>4. ASSUME NEW x \in live, use(x) PROVE live' = live
    BY <2>4 DEF use
  <2> QED BY <2>1, <2>2, <2>3, <2>4 DEF Next, vars
<1> QED BY <1>1, <1>3, HeapInvariant, PTL DEF Spec, ImplementsAllocator, AL!ASpec

-----------------------------------------------------------------------------
(***************************************************************************)
(* Callers that all ask for one size.                                      *)
(***************************************************************************)
One == CHOOSE n \in Requests : TRUE
Num(b) == b \div Need(One) + 1

\* How many blocks the list has.
Length == CHOOSE k \in 0 .. Granules :
            \A j \in 1 .. Granules + 1 : Walk[j] = Null <=> k < j

Numbers == [k \in 1 .. Length |-> Num(Walk[k])]

SP == INSTANCE StackPool WITH Size <- Granules \div Need(One),
                              free <- Numbers,
                              bump <- off \div Need(One),
                              held <- { Num(x.at - 1) : x \in live }

WalkIs ==
  /\ DOMAIN Walk = 1 .. Granules + 1 /\ Walk[1] = freelist
  /\ \A k \in 2 .. Granules + 1 : Walk[k] = Follow(Walk[k - 1])
  /\ \A k \in 1 .. Granules + 1 : Walk[k] \in Listed \cup {Null}
  /\ Length \in 0 .. Granules
  /\ \A k \in 1 .. Granules + 1 : Walk[k] = Null <=> Length < k

LEMMA WalkKnown == List => WalkIs
<1> SUFFICES ASSUME List PROVE WalkIs
  OBVIOUS
<1> DEFINE W == Walk
           I == 1 .. Granules + 1
           Ends(k) == \A j \in I : W[j] = Null <=> k < j
<1>1. /\ DOMAIN W = I /\ W[1] = freelist
      /\ \A k \in 2 .. Granules + 1 : W[k] = Follow(W[k - 1])
      /\ \A k \in I : W[k] \in Listed \cup {Null}
      /\ W[Granules + 1] = Null /\ Granules \in Nat /\ Null \notin Places
  BY WalkSteps, WalkMeets, HeapFacts
<1> HIDE DEF W
<1>2. \E k \in 0 .. Granules : Ends(k)
  <2> DEFINE S == {j \in I : W[j] = Null}
  <2>1. S # {} /\ S \in SUBSET Nat
    BY <1>1
  <2>2. PICK n \in S : \A j \in S : n <= j
    BY <2>1, Smallest
  <2>3. \A k \in Nat : n + k \in I => W[n + k] = Null
    <3> DEFINE T == {k \in Nat : n + k \in I => W[n + k] = Null}
    <3>1. 0 \in T
      BY <2>2
    <3>2. ASSUME NEW k \in Nat, k \in T, n + (k + 1) \in I PROVE W[n + (k + 1)] = Null
      <4>1. n + k \in I /\ n + (k + 1) \in 2 .. Granules + 1 /\ (n + (k + 1)) - 1 = n + k
        BY <1>1, <2>2, <3>2
      <4>2. W[n + k] = Null /\ W[n + (k + 1)] = Follow(W[n + k])
        BY <1>1, <3>2, <4>1
      <4> QED BY <1>1, <4>2 DEF Follow
    <3>3. \A k \in Nat : k \in T => k + 1 \in T
      BY <3>2
    <3> HIDE DEF T
    <3>4. Nat \subseteq T
      BY <3>1, <3>3, SetInduction
    <3> QED BY <3>4 DEF T
  <2>4. n - 1 \in 0 .. Granules
    BY <1>1, <2>2
  <2>5. ASSUME NEW j \in I PROVE W[j] = Null <=> n - 1 < j
    <3>1. CASE j < n
      BY <1>1, <2>2, <3>1
    <3>2. CASE j >= n
      <4>1. j - n \in Nat /\ n + (j - n) = j
        BY <2>2, <3>2
      <4>2. W[j] = Null
        BY <2>3, <4>1
      <4> QED BY <2>2, <3>2, <4>2
    <3> QED BY <2>2, <3>1, <3>2
  <2> QED BY <2>4, <2>5
<1>3. Length \in 0 .. Granules /\ Ends(Length)
  <2>1. Length = CHOOSE k \in 0 .. Granules : Ends(k)
    BY DEF Length, W
  <2> HIDE DEF Ends
  <2> QED BY <1>2, <2>1
<1> QED BY <1>1, <1>3 DEF W, WalkIs

LEMMA WalkKnownNext == List' => WalkIs'
BY WalkKnown, PTL

\* Two walks that go the same way, the first of them d blocks ahead.
LEMMA Alike ==
  ASSUME NEW V, NEW W, NEW n \in Nat, NEW d \in {0, 1}, V[1 + d] = W[1],
         \A k \in 2 .. n : V[(k - 1) + d] = W[k - 1] => V[k + d] = W[k]
  PROVE  \A k \in 1 .. n : V[k + d] = W[k]
<1> DEFINE S == {k \in Nat : k + 1 \in 1 .. n => V[(k + 1) + d] = W[k + 1]}
<1>1. 0 \in S
  OBVIOUS
<1>2. ASSUME NEW k \in Nat, k \in S, (k + 1) + 1 \in 1 .. n
      PROVE  V[((k + 1) + 1) + d] = W[(k + 1) + 1]
  <2> DEFINE i == (k + 1) + 1
  <2>1. i \in 2 .. n /\ i - 1 = k + 1 /\ k + 1 \in 1 .. n
    BY <1>2
  <2>2. V[(i - 1) + d] = W[i - 1]
    BY <1>2, <2>1
  <2> QED BY <2>1, <2>2
<1>3. \A k \in Nat : k \in S => k + 1 \in S
  BY <1>2
<1> HIDE DEF S
<1>4. Nat \subseteq S
  BY <1>1, <1>3, SetInduction
<1> SUFFICES ASSUME NEW k \in 1 .. n PROVE V[k + d] = W[k]
  OBVIOUS
<1>5. k - 1 \in Nat /\ (k - 1) + 1 = k
  OBVIOUS
<1>6. k - 1 \in S
  BY <1>4, <1>5
<1> QED BY <1>5, <1>6 DEF S

LEMMA Longer ==
  ASSUME NEW n \in Nat, NEW l \in 0 .. n, NEW m \in 0 .. n, ~ (l < 1),
         \A k \in 1 .. n : m < k <=> l < k + 1
  PROVE  l = m + 1
<1>1. l \in 1 .. n /\ (m + 1 < l => m + 1 \in 1 .. n)
  OBVIOUS
<1> QED BY <1>1

\* A step that leaves the list alone.
LEMMA WalkKept ==
  ASSUME List, List', Listed' = Listed, freelist' = freelist,
         \A b \in Listed : mem'[b + 1] = mem[b + 1]
  PROVE  Length' = Length /\ \A k \in 1 .. Granules + 1 : Walk'[k] = Walk[k]
<1> DEFINE W == Walk
           V == Walk'
           I == 1 .. Granules + 1
<1>1. WalkIs /\ WalkIs'
  BY WalkKnown, WalkKnownNext
<1>2. /\ W[1] = freelist /\ V[1] = freelist /\ Granules \in Nat
      /\ \A k \in 2 .. Granules + 1 : W[k] = Follow(W[k - 1])
      /\ \A k \in 2 .. Granules + 1 : V[k] = IF V[k - 1] \in Places THEN mem'[V[k - 1] + 1] ELSE Null
      /\ \A k \in I : W[k] \in Listed \cup {Null}
      /\ Length \in 0 .. Granules /\ Length' \in 0 .. Granules
      /\ \A k \in I : W[k] = Null <=> Length < k
      /\ \A k \in I : V[k] = Null <=> Length' < k
  BY <1>1, HeapFacts DEF WalkIs, Follow
<1> HIDE DEF W, V
<1>3. ASSUME NEW k \in 2 .. Granules + 1, V[(k - 1) + 0] = W[k - 1] PROVE V[k + 0] = W[k]
  <2>1. V[k - 1] = W[k - 1] /\ k - 1 \in I /\ W[k - 1] \in Listed \cup {Null} /\ k + 0 = k
    BY <1>2, <1>3
  <2> QED BY <1>2, <2>1, HeapFacts DEF Follow
<1>4. \A k \in I : V[k] = W[k]
  <2>1. V[1 + 0] = W[1] /\ Granules + 1 \in Nat
    BY <1>2
  <2>2. \A k \in I : V[k + 0] = W[k]
    BY <1>3, <2>1, Alike
  <2> QED BY <2>2
<1>5. Length' = Length
  <2> DEFINE m == Length
             l == Length'
  <2>1. m \in 0 .. Granules /\ l \in 0 .. Granules /\ \A k \in I : m < k <=> l < k
    BY <1>2, <1>4
  <2> HIDE DEF m, l
  <2>2. m + 1 \in I /\ l + 1 \in I
    BY <1>2, <2>1
  <2>3. m = l
    BY <2>1, <2>2
  <2> QED BY <2>3 DEF m, l
<1> QED BY <1>4, <1>5 DEF V, W

\* A step that pushes a block: the new walk is a block ahead of the old one.
LEMMA WalkPushed ==
  ASSUME List, List', NEW b \in Places, freelist' = b, mem'[b + 1] = freelist,
         \A c \in Listed : mem'[c + 1] = mem[c + 1]
  PROVE  /\ Length' = Length + 1 /\ Walk'[1] = b
         /\ \A k \in 1 .. Granules : Walk'[k + 1] = Walk[k]
<1> DEFINE W == Walk
           V == Walk'
           I == 1 .. Granules + 1
<1>1. WalkIs /\ WalkIs'
  BY WalkKnown, WalkKnownNext
<1>2. /\ W[1] = freelist /\ V[1] = b /\ Granules \in Nat \ {0} /\ b # Null
      /\ \A k \in 2 .. Granules + 1 : W[k] = Follow(W[k - 1])
      /\ \A k \in 2 .. Granules + 1 : V[k] = IF V[k - 1] \in Places THEN mem'[V[k - 1] + 1] ELSE Null
      /\ \A k \in I : W[k] \in Listed \cup {Null}
      /\ Length \in 0 .. Granules /\ Length' \in 0 .. Granules
      /\ \A k \in I : W[k] = Null <=> Length < k
      /\ \A k \in I : V[k] = Null <=> Length' < k
  BY <1>1, HeapFacts DEF WalkIs, Follow
<1> HIDE DEF W, V
<1>3. ASSUME NEW k \in 2 .. Granules, V[(k - 1) + 1] = W[k - 1] PROVE V[k + 1] = W[k]
  <2>1. /\ V[k] = W[k - 1] /\ k - 1 \in I /\ W[k - 1] \in Listed \cup {Null}
        /\ k + 1 \in 2 .. Granules + 1 /\ (k + 1) - 1 = k /\ k \in 2 .. Granules + 1
    BY <1>2, <1>3
  <2>2. V[k + 1] = IF V[k] \in Places THEN mem'[V[k] + 1] ELSE Null
    BY <1>2, <2>1
  <2>3. W[k] = IF W[k - 1] \in Places THEN mem[W[k - 1] + 1] ELSE Null
    BY <1>2, <2>1 DEF Follow
  <2>4. W[k - 1] \in Places => W[k - 1] \in Listed
    BY <2>1, HeapFacts
  <2> QED BY <2>1, <2>2, <2>3, <2>4
<1>4. \A k \in 1 .. Granules : V[k + 1] = W[k]
  <2>1. V[1 + 1] = W[1] /\ Granules \in Nat
    <3>1. 2 \in 2 .. Granules + 1
      BY <1>2
    <3>2. V[2] = IF V[1] \in Places THEN mem'[V[1] + 1] ELSE Null
      BY <1>2, <3>1
    <3> QED BY <1>2, <3>2
  <2> QED BY <1>3, <2>1, Alike
<1>5. Length' = Length + 1
  <2> DEFINE m == Length
             l == Length'
  <2>1. /\ m \in 0 .. Granules /\ l \in 0 .. Granules /\ ~ (l < 1)
        /\ \A k \in 1 .. Granules : m < k <=> l < k + 1
    <3>1. 1 \in I /\ \A k \in 1 .. Granules : k \in I /\ k + 1 \in I
      BY <1>2
    <3> QED BY <1>2, <1>4, <3>1
  <2> HIDE DEF m, l
  <2>2. l = m + 1
    BY <1>2, <2>1, Longer
  <2> QED BY <2>2 DEF m, l
<1> QED BY <1>2, <1>4, <1>5 DEF V, W

\* A step that takes the first block: the old walk is a block ahead of the new one.
LEMMA WalkPopped ==
  ASSUME List, List', NEW b \in Places, freelist = b, freelist' = mem[b + 1], mem' = mem
  PROVE  /\ Length = Length' + 1 /\ Walk[1] = b
         /\ \A k \in 1 .. Granules : Walk[k + 1] = Walk'[k]
<1> DEFINE W == Walk'
           V == Walk
           I == 1 .. Granules + 1
<1>1. WalkIs /\ WalkIs'
  BY WalkKnown, WalkKnownNext
<1>2. /\ W[1] = mem[b + 1] /\ V[1] = b /\ Granules \in Nat \ {0} /\ b # Null
      /\ \A k \in 2 .. Granules + 1 : W[k] = Follow(W[k - 1])
      /\ \A k \in 2 .. Granules + 1 : V[k] = Follow(V[k - 1])
      /\ Length \in 0 .. Granules /\ Length' \in 0 .. Granules
      /\ \A k \in I : V[k] = Null <=> Length < k
      /\ \A k \in I : W[k] = Null <=> Length' < k
  BY <1>1, HeapFacts DEF WalkIs, Follow
<1> HIDE DEF W, V
<1>3. ASSUME NEW k \in 2 .. Granules, V[(k - 1) + 1] = W[k - 1] PROVE V[k + 1] = W[k]
  <2>1. /\ V[k] = W[k - 1] /\ k + 1 \in 2 .. Granules + 1 /\ (k + 1) - 1 = k
        /\ k \in 2 .. Granules + 1
    BY <1>2, <1>3
  <2> QED BY <1>2, <2>1
<1>4. \A k \in 1 .. Granules : V[k + 1] = W[k]
  <2>1. V[1 + 1] = W[1] /\ Granules \in Nat
    <3>1. 2 \in 2 .. Granules + 1
      BY <1>2
    <3>2. V[2] = Follow(V[1])
      BY <1>2, <3>1
    <3> QED BY <1>2, <3>2 DEF Follow
  <2> QED BY <1>3, <2>1, Alike
<1>5. Length = Length' + 1
  <2> DEFINE m == Length'
             l == Length
  <2>1. /\ m \in 0 .. Granules /\ l \in 0 .. Granules /\ ~ (l < 1)
        /\ \A k \in 1 .. Granules : m < k <=> l < k + 1
    <3>1. 1 \in I /\ \A k \in 1 .. Granules : k \in I /\ k + 1 \in I
      BY <1>2
    <3> QED BY <1>2, <1>4, <3>1
  <2> HIDE DEF m, l
  <2>2. l = m + 1
    BY <1>2, <2>1, Longer
  <2> QED BY <2>2 DEF m, l
<1> QED BY <1>2, <1>4, <1>5 DEF V, W

LEMMA SameSequence ==
  ASSUME NEW F \in Seq(Nat), NEW G \in Seq(Nat), Len(F) = Len(G),
         \A k \in 1 .. Len(G) : F[k] = G[k]
  PROVE  F = G
<1>1. F = [k \in 1 .. Len(F) |-> F[k]] /\ G = [k \in 1 .. Len(G) |-> G[k]]
  OBVIOUS
<1> QED BY <1>1

\* A sequence and the same with one more in front.
LEMMA Front ==
  ASSUME NEW F \in Seq(Nat), NEW G \in Seq(Nat), Len(F) = Len(G) + 1,
         \A k \in 1 .. Len(G) : F[k + 1] = G[k]
  PROVE  F = << F[1] >> \o G /\ F # << >> /\ Head(F) = F[1] /\ Tail(F) = G
<1>1. F # << >> /\ Head(F) = F[1]
  OBVIOUS
<1>2. Tail(F) = G
  <2>1. /\ Tail(F) \in Seq(Nat) /\ Len(Tail(F)) = Len(G)
        /\ \A k \in 1 .. Len(G) : Tail(F)[k] = F[k + 1]
    OBVIOUS
  <2> DEFINE T == Tail(F)
  <2>2. T \in Seq(Nat) /\ Len(T) = Len(G) /\ \A k \in 1 .. Len(G) : T[k] = G[k]
    BY <2>1
  <2> HIDE DEF T
  <2>3. T = G
    BY <2>2, SameSequence
  <2> QED BY <2>3 DEF T
<1>3. F = << F[1] >> \o G
  <2> DEFINE T == << F[1] >> \o G
  <2>1. /\ T \in Seq(Nat) /\ Len(T) = Len(G) + 1
        /\ T[1] = F[1] /\ \A k \in 1 .. Len(G) : T[k + 1] = G[k]
    OBVIOUS
  <2> HIDE DEF T
  <2>2. \A k \in 1 .. Len(F) : T[k] = F[k]
    <3>1. ASSUME NEW k \in 1 .. Len(F), k # 1 PROVE T[k] = F[k]
      <4>1. k - 1 \in 1 .. Len(G) /\ (k - 1) + 1 = k
        BY <3>1
      <4>2. T[(k - 1) + 1] = G[k - 1] /\ F[(k - 1) + 1] = G[k - 1]
        BY <2>1, <4>1
      <4> QED BY <4>1, <4>2
    <3> QED BY <2>1, <3>1
  <2>3. T = F
    <3>1. Len(T) = Len(F)
      BY <2>1
    <3> QED BY <2>1, <2>2, <3>1, SameSequence
  <2> QED BY <2>3 DEF T
<1> QED BY <1>1, <1>2, <1>3

LEMMA Divides ==
  ASSUME NEW q \in Nat \ {0}, NEW a \in Nat, NEW b \in Nat
  PROVE  /\ a \div q \in Nat /\ (a + q) \div q = (a \div q) + 1
         /\ a <= b => (a \div q) <= (b \div q)
<1>1. a \div q \in Nat
  OBVIOUS
<1>2. (a + q) \div q = (a \div q) + 1
  BY SMTT(30)
<1>3. a <= b => (a \div q) <= (b \div q)
  BY SMTT(30)
<1> QED BY <1>1, <1>2, <1>3

\* Every block has the one size.
Single == \A b \in Blocks : mem[b] = Need(One)

PoolInv == HeapInv /\ Single

LEMMA OneIs ==
  ASSUME NEW s \in Nat \ {0}, Requests = {s}
  PROVE  One = s /\ Need(One) \in Nat /\ Need(One) >= 2
<1>1. One = s
  BY DEF One
<1> QED BY <1>1, NeedIs

\* kmalloc takes the first block of the list.
LEMMA TakesFirst ==
  ASSUME PoolInv, One \in Nat, Need(One) \in Nat, kmalloc_list(One)
  PROVE  /\ freelist \in Listed /\ freelist' = mem[freelist + 1] /\ mem' = mem /\ off' = off
         /\ live' = live \cup {[at |-> freelist + 1, size |-> One]}
<1>1. WalkIs /\ Granules \in Nat /\ Null \notin Places /\ \A b \in Listed : mem[b] = Need(One)
  BY WalkKnown, HeapFacts DEF PoolInv, HeapInv, Single, Blocks
<1>2. PICK k \in 1 .. Granules :
        /\ Fits(k, One)
        /\ IF k = 1
           THEN /\ freelist' = mem[Walk[1] + 1]
                /\ UNCHANGED mem
           ELSE /\ mem' = [mem EXCEPT ![Walk[k - 1] + 1] = mem[Walk[k] + 1]]
                /\ UNCHANGED freelist
        /\ live' = live \cup {[at |-> Walk[k] + 1, size |-> One]}
  BY DEF kmalloc_list
<1>3. k = 1
  <2> SUFFICES ASSUME k # 1 PROVE FALSE
    OBVIOUS
  <2>1. 1 \in 1 .. k - 1 /\ 1 \in 1 .. Granules + 1
    BY <1>1, <1>2
  <2>2. Walk[1] \in Places /\ mem[Walk[1]] < Need(One)
    BY <1>2, <2>1 DEF Fits
  <2>3. Walk[1] \in Listed
    BY <1>1, <2>1, <2>2 DEF WalkIs
  <2> QED BY <1>1, <2>2, <2>3
<1>4. Walk[1] = freelist /\ freelist \in Listed
  <2>1. 1 \in 1 .. Granules + 1 /\ Walk[1] \in Places
    BY <1>1, <1>2, <1>3 DEF Fits
  <2> QED BY <1>1, <2>1 DEF WalkIs
<1> QED BY <1>2, <1>3, <1>4 DEF kmalloc_list

\* Blocks that callers hold have numbers of their own.
LEMMA NumsDiffer ==
  ASSUME PoolInv, Need(One) \in Nat, Need(One) >= 2, NEW b \in Blocks, NEW c \in Blocks, b # c
  PROVE  Num(b) # Num(c)
<1> DEFINE q == Need(One)
<1>1. /\ b \in Nat /\ c \in Nat /\ mem[b] = q /\ mem[c] = q
      /\ (b < c => b + mem[b] <= c) /\ (c < b => c + mem[c] <= b)
  BY BlockFacts DEF PoolInv, HeapInv, Single, Apart
<1>2. q \in Nat \ {0}
  OBVIOUS
<1> HIDE DEF q
<1>3. ASSUME NEW d \in Nat, NEW e \in Nat, d + q <= e PROVE (d \div q) + 1 <= (e \div q)
  <2>1. d + q \in Nat
    BY <1>2
  <2>2. ((d + q) \div q) <= (e \div q)
    BY <1>2, <1>3, <2>1, Divides
  <2>3. (d + q) \div q = (d \div q) + 1
    BY <1>2, Divides
  <2> QED BY <2>2, <2>3
<1>4. b \div q \in Nat /\ c \div q \in Nat
  BY <1>1, <1>2, Divides
<1>5. (b \div q) # (c \div q)
  BY <1>1, <1>3, <1>4
<1> QED BY <1>4, <1>5 DEF Num, q

NumberTypes == Length \in Nat /\ Numbers \in Seq(Nat) /\ Len(Numbers) = Length

LEMMA NumbersTyped ==
  ASSUME HeapInv, Need(One) \in Nat, Need(One) >= 2
  PROVE  NumberTypes
<1>1. WalkIs
  BY WalkKnown DEF HeapInv
<1>2. /\ Length \in 0 .. Granules /\ Granules \in Nat /\ Null \notin Places
      /\ \A k \in 1 .. Granules + 1 : Walk[k] \in Listed \cup {Null}
      /\ \A k \in 1 .. Granules + 1 : Walk[k] = Null <=> Length < k
      /\ Listed \subseteq Nat
  BY <1>1, HeapFacts, ListedLeast DEF WalkIs
<1>3. ASSUME NEW k \in 1 .. Length PROVE Num(Walk[k]) \in Nat
  <2>1. k \in 1 .. Granules + 1 /\ ~ (Length < k)
    BY <1>2
  <2>2. Walk[k] \in Nat
    BY <1>2, <2>1
  <2> DEFINE b == Walk[k]
             q == Need(One)
  <2>3. b \in Nat /\ q \in Nat \ {0}
    BY <2>2
  <2> HIDE DEF b, q
  <2>4. b \div q \in Nat
    BY <2>3, Divides
  <2>5. (b \div q) + 1 \in Nat
    BY <2>4
  <2> QED BY <2>5 DEF Num, b, q
<1> DEFINE F == Numbers
<1>4. F = [k \in 1 .. Length |-> Num(Walk[k])] /\ Length \in Nat
  BY <1>2 DEF Numbers
<1> HIDE DEF F
<1>5. F \in Seq(Nat) /\ Len(F) = Length
  BY <1>3, <1>4
<1> QED BY <1>4, <1>5 DEF F, NumberTypes

LEMMA NumbersTypedNext ==
  ASSUME Need(One) \in Nat, Need(One) >= 2
  PROVE  HeapInv' => NumberTypes'
<1>1. HeapInv => NumberTypes
  BY NumbersTyped
<1> QED BY <1>1, PTL

\* F numbers the first m + 1 blocks of V, and G the first m of W; V has b in front.
OneMore(V, W, F, G, m, b) ==
  /\ F \in Seq(Nat) /\ G \in Seq(Nat) /\ Len(F) = m + 1 /\ Len(G) = m /\ m \in 0 .. Granules
  /\ \A k \in 1 .. m + 1 : F[k] = Num(V[k])
  /\ \A k \in 1 .. m : G[k] = Num(W[k])
  /\ V[1] = b /\ \A k \in 1 .. Granules : V[k + 1] = W[k]

LEMMA NumbersShift ==
  ASSUME NEW V, NEW W, NEW F, NEW G, NEW m, NEW b, OneMore(V, W, F, G, m, b)
  PROVE  F = << Num(b) >> \o G /\ F # << >> /\ Head(F) = Num(b) /\ Tail(F) = G
<1>1. 1 \in 1 .. m + 1 /\ \A k \in 1 .. m : k + 1 \in 1 .. m + 1 /\ k \in 1 .. Granules
  BY HeapFacts DEF OneMore
<1>2. F[1] = Num(b) /\ \A k \in 1 .. m : F[k + 1] = G[k]
  BY <1>1 DEF OneMore
<1>3. /\ F \in Seq(Nat) /\ G \in Seq(Nat)
      /\ Len(F) = Len(G) + 1 /\ \A k \in 1 .. Len(G) : F[k + 1] = G[k]
  BY <1>2 DEF OneMore
<1>4. F = << F[1] >> \o G /\ F # << >> /\ Head(F) = F[1] /\ Tail(F) = G
  BY <1>3, Front
<1> QED BY <1>2, <1>4

Hands == { Num(x.at - 1) : x \in live }

LEMMA HandsMore ==
  ASSUME NEW b \in Nat, NEW n, live' = live \cup {[at |-> b + 1, size |-> n]}
  PROVE  Hands' = Hands \cup {Num(b)}
<1> DEFINE x == [at |-> b + 1, size |-> n]
           f(y) == Num(y.at - 1)
<1>1. x.at - 1 = b
  OBVIOUS
<1>2. live' = live \cup {x} /\ f(x) = Num(b)
  BY <1>1
<1>3. Hands = { f(y) : y \in live } /\ Hands' = { f(y) : y \in live' }
  BY Zenon DEF Hands, Num, Need
<1> HIDE DEF x, f
<1> QED BY <1>2, <1>3

LEMMA PoolGive ==
  ASSUME PoolInv, Need(One) \in Nat, Need(One) >= 2, NEW x \in live, kfree(x)
  PROVE  PoolInv' /\ SP!PNext
<1> DEFINE b == x.at - 1
<1>1. /\ HeapInv' /\ Blocks' = Blocks /\ mem'[x.at] = freelist
      /\ \A d \in Blocks : mem'[d] = mem[d]
      /\ \A c \in Listed : mem'[c + 1] = mem[c + 1]
  BY FreeStep DEF PoolInv
<1>2. /\ b \in Blocks /\ b + 1 = x.at /\ b \in Places
      /\ freelist' = b /\ off' = off /\ live' = live \ {x}
  BY BlockFacts, HeapFacts DEF PoolInv, kfree
<1>3. PoolInv'
  BY <1>1 DEF PoolInv, Single
<1>4. /\ Length' = Length + 1 /\ Walk'[1] = b
      /\ \A k \in 1 .. Granules : Walk'[k + 1] = Walk[k]
  BY <1>1, <1>2, WalkPushed DEF PoolInv, HeapInv
<1>5. /\ NumberTypes /\ NumberTypes' /\ Length \in 0 .. Granules /\ Length' \in 0 .. Granules
  BY <1>1, NumbersTyped, NumbersTypedNext, WalkKnown, WalkKnownNext DEF PoolInv, HeapInv, WalkIs
<1>6. Numbers' = << Num(b) >> \o Numbers
  <2> DEFINE F == Numbers'
             G == Numbers
             V == Walk'
             W == Walk
             m == Length
  <2>1. F = [k \in 1 .. Length' |-> Num(V[k])] /\ G = [k \in 1 .. Length |-> Num(W[k])]
    BY DEF Numbers, Num, Need
  <2>2. OneMore(V, W, F, G, m, b)
    BY <1>4, <1>5, <2>1 DEF NumberTypes, OneMore
  <2> HIDE DEF F, G, V, W, m, b
  <2>3. F = << Num(b) >> \o G
    BY <2>2, NumbersShift
  <2> QED BY <2>3 DEF F, G
<1> HIDE DEF b
<1>9. Num(b) \in Hands /\ Hands' = Hands \ {Num(b)}
  <2>1. Hands' = { Num(y.at - 1) : y \in live \ {x} }
    <3>1. live' = live \ {x}
      BY <1>2
    <3> QED BY <3>1, Zenon DEF Hands, Num, Need
  <2>2. \A y \in live \ {x} : Num(y.at - 1) # Num(b)
    <3>1. \A y \in live \ {x} : y.at - 1 \in Blocks /\ y.at - 1 # b
      BY BlockFacts DEF PoolInv, HeapInv, Held, b
    <3> QED BY <1>2, <3>1, NumsDiffer
  <2>3. Num(x.at - 1) = Num(b)
    BY DEF b
  <2> DEFINE f(y) == Num(y.at - 1)
  <2>4. /\ Hands' = { f(y) : y \in live \ {x} } /\ Hands = { f(y) : y \in live }
        /\ \A y \in live \ {x} : f(y) # Num(b)
        /\ f(x) = Num(b)
    BY <2>1, <2>2, <2>3 DEF Hands
  <2> HIDE DEF f
  <2> QED BY <2>4
<1>10. off' \div Need(One) = off \div Need(One)
  BY <1>2
<1>11. SP!Give(Num(b))
  BY <1>6, <1>9, <1>10 DEF SP!Give, Hands, Need
<1> QED BY <1>3, <1>9, <1>11 DEF SP!PNext, Hands

LEMMA PoolTake ==
  ASSUME PoolInv, One \in Nat, Need(One) \in Nat, Need(One) >= 2, One \in Requests,
         kmalloc_list(One)
  PROVE  PoolInv' /\ SP!PNext
<1> DEFINE b == freelist
<1>1. /\ b \in Listed /\ freelist' = mem[b + 1] /\ mem' = mem /\ off' = off
      /\ live' = live \cup {[at |-> b + 1, size |-> One]}
  BY TakesFirst
<1>2. HeapInv' /\ Blocks' = Blocks
  BY ListStep DEF PoolInv
<1>3. PoolInv'
  BY <1>1, <1>2 DEF PoolInv, Single
<1>4. b \in Places /\ b \in Nat
  BY <1>1, ListedLeast, HeapFacts
<1>5. /\ Length = Length' + 1 /\ Walk[1] = b
      /\ \A k \in 1 .. Granules : Walk[k + 1] = Walk'[k]
  BY <1>1, <1>2, <1>4, WalkPopped DEF PoolInv, HeapInv
<1>6. /\ NumberTypes /\ NumberTypes' /\ Length \in 0 .. Granules /\ Length' \in 0 .. Granules
  BY <1>2, NumbersTyped, NumbersTypedNext, WalkKnown, WalkKnownNext DEF PoolInv, HeapInv, WalkIs
<1>7. Numbers # << >> /\ Head(Numbers) = Num(b) /\ Tail(Numbers) = Numbers'
  <2> DEFINE F == Numbers
             G == Numbers'
             V == Walk
             W == Walk'
             m == Length'
  <2>1. F = [k \in 1 .. Length |-> Num(V[k])] /\ G = [k \in 1 .. Length' |-> Num(W[k])]
    BY DEF Numbers, Num, Need
  <2>2. OneMore(V, W, F, G, m, b)
    BY <1>5, <1>6, <2>1 DEF NumberTypes, OneMore
  <2> HIDE DEF F, G, V, W, m, b
  <2>3. F # << >> /\ Head(F) = Num(b) /\ Tail(F) = G
    BY <2>2, NumbersShift
  <2> QED BY <2>3 DEF F, G
<1> HIDE DEF b
<1>8. Hands' = Hands \cup {Num(b)}
  BY <1>1, <1>4, HandsMore
<1>9. off' \div Need(One) = off \div Need(One)
  BY <1>1
<1>10. SP!Take
  BY <1>7, <1>8, <1>9 DEF SP!Take, Hands, Need
<1> QED BY <1>3, <1>10 DEF SP!PNext

LEMMA FirstFits ==
  ASSUME PoolInv, Need(One) \in Nat, ~ \E k \in 1 .. Granules : Fits(k, One)
  PROVE  freelist = Null
<1> SUFFICES ASSUME freelist # Null PROVE FALSE
  OBVIOUS
<1>1. 1 \in 1 .. Granules /\ 1 \in 1 .. Granules + 1
  BY HeapFacts
<1>2. Walk[1] = freelist /\ Walk[1] \in Listed
  BY <1>1, WalkKnown DEF PoolInv, HeapInv, WalkIs
<1>3. Walk[1] \in Places /\ mem[Walk[1]] = Need(One)
  BY <1>2, HeapFacts, ListedLeast DEF PoolInv, Single, Blocks
<1>4. Fits(1, One)
  BY <1>3 DEF Fits
<1> QED BY <1>1, <1>4

LEMMA EmptyList ==
  ASSUME Need(One) \in Nat, Need(One) >= 2, HeapInv, freelist = Null
  PROVE  Numbers = << >>
<1>1. WalkIs /\ NumberTypes
  BY WalkKnown, NumbersTyped DEF HeapInv
<1>2. Length = 0
  <2>1. 1 \in 1 .. Granules + 1 /\ Walk[1] = Null
    BY <1>1, HeapFacts DEF WalkIs
  <2> QED BY <1>1, <2>1, HeapFacts DEF WalkIs
<1> DEFINE F == Numbers
<1>3. F \in Seq(Nat) /\ Len(F) = 0
  BY <1>1, <1>2 DEF NumberTypes
<1> HIDE DEF F
<1>4. F = << >>
  BY <1>3
<1> QED BY <1>4 DEF F

EmptyIs == freelist = Null => Numbers = << >>

LEMMA EmptyListNext ==
  ASSUME Need(One) \in Nat, Need(One) >= 2
  PROVE  HeapInv' => EmptyIs'
<1>1. HeapInv => EmptyIs
  BY EmptyList DEF EmptyIs
<1> QED BY <1>1, PTL

LEMMA PoolBump ==
  ASSUME PoolInv, One \in Nat, Need(One) \in Nat, Need(One) >= 2, One \in Requests,
         kmalloc_bump(One)
  PROVE  PoolInv' /\ SP!PNext
<1> DEFINE q == Need(One)
<1>1. /\ HeapInv' /\ Blocks' = Blocks \cup {off}
      /\ live' = live \cup {[at |-> off + 1, size |-> One]}
  BY BumpStep DEF PoolInv
<1>2. /\ freelist' = freelist /\ mem' = [mem EXCEPT ![off] = q] /\ off' = off + q
      /\ Granules - off >= q /\ ~ \E k \in 1 .. Granules : Fits(k, One)
  BY DEF kmalloc_bump
<1>3. /\ off \in Nat /\ off \in Places /\ Granules \in Nat \ {0} /\ q \in Nat \ {0}
      /\ off + q \in Nat /\ off + q <= Granules
      /\ mem \in [Places -> Nat \cup {Null, Junk}] /\ Null \notin Places
      /\ \A b \in Blocks : b \in Nat /\ b + 1 < off /\ b \in Places
  <2>1. /\ off \in Nat /\ off <= Granules /\ Granules \in Nat \ {0} /\ Places = 0 .. Granules - 1
        /\ Null \notin Places /\ \A b \in Blocks : b \in Nat /\ b + 1 < off
    BY BlockFacts, HeapFacts DEF PoolInv
  <2>2. mem \in [Places -> Nat \cup {Null, Junk}]
    BY DEF PoolInv, HeapInv, Typed
  <2>3. q \in Nat \ {0}
    OBVIOUS
  <2> HIDE DEF q
  <2> QED BY <1>2, <2>1, <2>2, <2>3
<1>4. Single'
  <2>1. mem'[off] = q /\ \A b \in Blocks : mem'[b] = mem[b]
    BY <1>2, <1>3
  <2> QED BY <1>1, <2>1 DEF PoolInv, Single, Need
<1>5. WalkIs /\ WalkIs' /\ List /\ List'
  BY <1>1, WalkKnown, WalkKnownNext DEF PoolInv, HeapInv
<1>6. freelist = Null
  BY <1>2, FirstFits
<1>8. Numbers = << >> /\ Numbers' = << >>
  BY <1>1, <1>2, <1>6, EmptyList, EmptyListNext DEF PoolInv, EmptyIs
<1> HIDE DEF q
<1>9. /\ off' \div q = (off \div q) + 1 /\ off \div q \in Nat /\ Granules \div q \in Nat
      /\ (off \div q) + 1 <= Granules \div q
  <2>1. /\ off \div q \in Nat /\ (off + q) \div q = (off \div q) + 1
        /\ Granules \div q \in Nat
    BY <1>3, Divides
  <2>2. ((off + q) \div q) <= (Granules \div q)
    BY <1>3, Divides
  <2> QED BY <1>2, <2>1, <2>2
<1>10. Hands' = Hands \cup {(off \div q) + 1}
  <2>1. Num(off) = (off \div q) + 1
    BY DEF Num, q
  <2> QED BY <1>1, <1>3, <2>1, HandsMore
<1>11. SP!Take
  <2> DEFINE c == off \div q
             d == Granules \div q
             e == off' \div q
  <2>1. c < d /\ e = c + 1
    <3> HIDE DEF c, d, e
    <3>1. e = c + 1 /\ c \in Nat /\ d \in Nat /\ c + 1 <= d
      BY <1>9 DEF c, d, e
    <3> QED BY <3>1
  <2>2. Hands' = Hands \cup {c + 1}
    BY <1>10
  <2> QED BY <1>8, <2>1, <2>2 DEF SP!Take, Hands, Need, q
<1> QED BY <1>1, <1>4, <1>11 DEF SP!PNext, PoolInv

PoolVars == <<Numbers, off \div Need(One), Hands>>

LEMMA PoolKept ==
  ASSUME PoolInv, HeapInv', Listed' = Listed, Blocks' = Blocks, off' = off, live' = live,
         freelist' = freelist, \A d \in Blocks : mem'[d] = mem[d],
         \A c \in Listed : mem'[c + 1] = mem[c + 1], Need(One) \in Nat, Need(One) >= 2
  PROVE  PoolInv' /\ UNCHANGED PoolVars
<1>1. PoolInv'
  BY DEF PoolInv, Single
<1>2. Length' = Length /\ \A k \in 1 .. Granules + 1 : Walk'[k] = Walk[k]
  BY WalkKept DEF PoolInv, HeapInv
<1>3. Length \in 0 .. Granules /\ Granules \in Nat
  BY WalkKnown, HeapFacts DEF PoolInv, HeapInv, WalkIs
<1>4. Numbers' = Numbers
  <2> DEFINE V == Walk'
             W == Walk
             m == Length
             l == Length'
  <2>1. Numbers' = [k \in 1 .. l |-> Num(V[k])] /\ Numbers = [k \in 1 .. m |-> Num(W[k])]
    BY DEF Numbers, Num, Need
  <2>2. l = m /\ m \in 0 .. Granules /\ \A k \in 1 .. Granules + 1 : V[k] = W[k]
    BY <1>2, <1>3
  <2> HIDE DEF V, W, m, l
  <2>3. \A k \in 1 .. m : V[k] = W[k]
    BY <1>3, <2>2
  <2> HIDE DEF Num
  <2> QED BY <2>1, <2>2, <2>3
<1>5. Hands' = Hands
  BY Zenon DEF Hands, Num, Need
<1> QED BY <1>1, <1>4, <1>5 DEF PoolVars, Need

LEMMA PoolStart ==
  ASSUME NEW s \in Nat \ {0}, Requests = {s}
  PROVE  Init => PoolInv /\ SP!PInit
<1>0. One = s /\ One \in Nat /\ Need(One) \in Nat /\ Need(One) >= 2 /\ One \in Requests
  BY OneIs
<1> SUFFICES ASSUME Init PROVE PoolInv /\ SP!PInit
  OBVIOUS
<1>1. HeapInv
  BY HeapInit
<1>2. freelist = Null /\ off = 0 /\ live = {} /\ Granules \in Nat /\ Null \notin Places
  BY HeapFacts DEF Init
<1>5. Numbers = << >>
  BY <1>0, <1>1, <1>2, EmptyList
<1>6. off \div Need(One) = 0
  <2> DEFINE q == Need(One)
  <2>1. q \in Nat \ {0} /\ off = 0
    BY <1>0, <1>2
  <2> HIDE DEF q
  <2>2. off \div q = 0
    BY <2>1
  <2> QED BY <2>2 DEF q
<1>7. Hands = {}
  BY <1>2 DEF Hands
<1>8. Blocks = {}
  <2>1. \A b \in Blocks : b \in Nat /\ b + 1 < off
    BY <1>1, BlockFacts
  <2> QED BY <1>2, <2>1
<1> QED BY <1>1, <1>5, <1>6, <1>7, <1>8 DEF PoolInv, Single, SP!PInit, Hands

LEMMA PoolStep ==
  ASSUME NEW s \in Nat \ {0}, Requests = {s}
  PROVE  PoolInv /\ [Next]_vars => PoolInv' /\ [SP!PNext]_PoolVars
<1>0. One = s /\ One \in Nat /\ Need(One) \in Nat /\ Need(One) >= 2 /\ One \in Requests
  BY OneIs
<1> SUFFICES ASSUME PoolInv, [Next]_vars
             PROVE  PoolInv' /\ (SP!PNext \/ UNCHANGED PoolVars)
  OBVIOUS
<1>1. ASSUME NEW n \in Requests, kmalloc_list(n) \/ kmalloc_bump(n)
      PROVE  PoolInv' /\ SP!PNext
  <2>1. n = One
    BY <1>0
  <2> QED BY <1>0, <1>1, <2>1, PoolTake, PoolBump
<1>2. ASSUME NEW x \in live, kfree(x) PROVE PoolInv' /\ SP!PNext
  BY <1>0, <1>2, PoolGive
<1>3. ASSUME NEW x \in live, use(x) PROVE PoolInv' /\ UNCHANGED PoolVars
  <2>1. /\ HeapInv' /\ Listed' = Listed /\ Blocks' = Blocks
        /\ \A d \in Blocks : mem'[d] = mem[d]
        /\ \A c \in Listed : mem'[c + 1] = mem[c + 1]
    BY <1>3, UseStep DEF PoolInv
  <2>2. off' = off /\ live' = live /\ freelist' = freelist
    BY <1>3 DEF use
  <2> QED BY <1>0, <2>1, <2>2, PoolKept
<1>4. CASE UNCHANGED vars
  <2>1. mem' = mem /\ off' = off /\ live' = live /\ freelist' = freelist
    BY <1>4 DEF vars
  <2>2. HeapInv'
    BY <1>4, HeapStep DEF PoolInv
  <2>3. Listed' = Listed
    BY <2>1, ListKept DEF PoolInv, HeapInv
  <2>4. Blocks' = Blocks
    BY <2>1, <2>3 DEF Blocks, LiveBlocks
  <2> QED BY <1>0, <2>1, <2>2, <2>3, <2>4, PoolKept
<1> QED BY <1>1, <1>2, <1>3, <1>4 DEF Next

LEMMA PoolStays == ASSUME NEW s \in Nat \ {0}, Requests = {s} PROVE Spec => []PoolInv
BY PoolStart, PoolStep, PTL DEF Spec

\* While all callers ask for the same size, the blocks the heap hands out are those
\* of module StackPool, in the same order: the last that was freed first, and what
\* was never handed out only when the list is empty.  That is what Threads takes
\* the heap for.
THEOREM HeapIsStackPool ==
  ASSUME NEW s \in Nat \ {0}, Requests = {s}
  PROVE  Spec => SP!PSpec
BY PoolStart, PoolStep, PTL DEF Spec, SP!PSpec, PoolVars, Hands

\* What was carved from the arena is whole blocks.
Whole == \E m \in Nat : off = m * Need(One)

\* kmalloc finds neither a block on the list nor room behind the last one.
Refused == /\ ~ \E k \in 1 .. Granules : Fits(k, One)
           /\ Granules - off < Need(One)

Spent == Refused => Numbers = << >> /\ off \div Need(One) = Granules \div Need(One)

LEMMA Multiple ==
  ASSUME NEW q \in Nat \ {0}, NEW r \in Nat, r < q
  PROVE  \A m \in Nat : (m * q + r) \div q = m
<1> DEFINE S == {m \in Nat : (m * q + r) \div q = m}
<1>1. 0 \in S
  BY SMT
<1>2. ASSUME NEW m \in Nat, m \in S PROVE m + 1 \in S
  <2> DEFINE a == m * q + r
  <2>1. a \in Nat /\ (m + 1) * q + r = a + q
    BY SMT
  <2>2. (a + q) \div q = (a \div q) + 1
    <3> HIDE DEF a
    <3> QED BY <2>1, Divides
  <2> QED BY <1>2, <2>1, <2>2
<1> HIDE DEF S
<1>3. Nat \subseteq S
  BY <1>1, <1>2, SetInduction
<1> QED BY <1>3 DEF S

\* As long as all callers ask for the same size, kmalloc refuses only when all
\* the stacks of the pool are held.
THEOREM RefusedWhenSpent ==
  ASSUME NEW s \in Nat \ {0}, Requests = {s}
  PROVE  Spec => []Spent
<1>0. One = s /\ One \in Nat /\ Need(One) \in Nat \ {0} /\ Need(One) >= 2
  BY OneIs
<1>1. Init => Whole
  <2> SUFFICES ASSUME Init PROVE \E m \in Nat : off = m * Need(One)
    BY DEF Whole
  <2>1. off = 0 * Need(One)
    BY <1>0 DEF Init
  <2> QED BY <2>1
<1>2. Whole /\ [Next]_vars => Whole'
  <2> SUFFICES ASSUME Whole, [Next]_vars PROVE Whole'
    OBVIOUS
  <2>1. off' = off \/ off' = off + Need(One)
    <3>1. ASSUME NEW n \in Requests, kmalloc_bump(n) PROVE off' = off + Need(One)
      BY <1>0, <3>1 DEF kmalloc_bump
    <3> QED BY <3>1 DEF Next, kmalloc_list, kfree, use, vars
  <2>2. PICK m \in Nat : off = m * Need(One)
    BY DEF Whole
  <2> DEFINE q == Need(One)
  <2>3. off = m * q /\ (off' = off \/ off' = off + q) /\ q \in Nat
    BY <1>0, <2>1, <2>2
  <2> HIDE DEF q
  <2>4. \E k \in Nat : off' = k * q
    <3>1. (m + 1) * q = m * q + q
      BY <2>3
    <3>2. CASE off' = off
      BY <2>3, <3>2
    <3>3. CASE off' = off + q
      <4>1. off' = (m + 1) * q /\ m + 1 \in Nat
        BY <2>3, <3>1, <3>3
      <4> HIDE <2>3, <3>1, <3>3
      <4> QED BY <4>1
    <3> QED BY <2>3, <3>2, <3>3
  <2> QED BY <2>4 DEF Whole, Need, q
<1>3. HeapInv /\ Single /\ Whole => Spent
  <2> SUFFICES ASSUME HeapInv, Single, Whole, Refused
               PROVE  Numbers = << >> /\ off \div Need(One) = Granules \div Need(One)
    BY DEF Spent
  <2>1. freelist = Null
    BY <1>0, FirstFits DEF Refused, PoolInv
  <2>2. Numbers = << >>
    BY <1>0, <2>1, EmptyList
  <2>3. off \div Need(One) = Granules \div Need(One)
    <3> DEFINE q == Need(One)
               r == Granules - off
    <3>1. PICK m \in Nat : off = m * q
      BY DEF Whole
    <3>2. q \in Nat \ {0} /\ r \in Nat /\ r < q /\ Granules = off + r /\ off = off + 0
      BY <1>0, BlockFacts, HeapFacts DEF Refused
    <3> HIDE DEF q, r
    <3>3. (m * q + 0) \div q = m /\ (m * q + r) \div q = m
      BY <3>2, Multiple
    <3> QED BY <3>1, <3>2, <3>3 DEF q
  <2> QED BY <2>2, <2>3
<1>4. Spec => []PoolInv
  BY PoolStays, PTL
<1> QED BY <1>1, <1>2, <1>3, <1>4, PTL DEF Spec, PoolInv
=============================================================================
