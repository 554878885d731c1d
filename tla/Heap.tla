-------------------------------- MODULE Heap --------------------------------
(***************************************************************************)
(* kernel/heap.c: first fit over a free list that is threaded through the  *)
(* freed blocks themselves, and a bump pointer for what the list cannot    *)
(* serve.  mem is the arena, one word per granule of HEAP_HDR_ALIGN bytes: *)
(* the granule at the start of a block holds heap_hdr.total, the one after *)
(* it the link while the block is free, and the caller's data while it is  *)
(* not.  Callers free what they were given, once; they write their data    *)
(* over the whole of it.                                                   *)
(***************************************************************************)
EXTENDS Naturals, FiniteSets

CONSTANTS Granules,   \* VERVE_HEAP_SIZE / HEAP_HDR_ALIGN
          Align,      \* HEAP_HDR_ALIGN; HEAP_HDR_USER_OFFSET is one granule
          Requests,   \* sizes in bytes that callers ask for
          Null,       \* the NULL pointer
          Junk        \* a word written by a caller

Places == 0 .. Granules - 1

ASSUME HeapAssumption ==
  /\ Granules \in Nat \ {0}
  /\ Align \in Nat \ {0}
  /\ Requests \subseteq Nat
  /\ Null \notin Nat /\ Junk \notin Nat /\ Null # Junk

VARIABLES mem,        \* g_heap
          freelist,   \* g_freelist
          off,        \* g_heap_off, in granules
          live        \* history: the regions callers hold, [at, size]

vars == <<mem, freelist, off, live>>

\* Wrong on purpose: no room for the header.
Need_without_header(n) == (n + Align - 1) \div Align

\* HEAP_HDR_USER_OFFSET + size, aligned up, in granules
Need(n) == (Align + n + Align - 1) \div Align

\* The blocks a walk of the free list meets, Null behind the last.
Walk == LET b[k \in 1 .. Granules + 1] ==
              IF k = 1 THEN freelist
              ELSE IF b[k - 1] \in Places THEN mem[b[k - 1] + 1] ELSE Null
        IN b

\* Wrong on purpose: the first block is taken, whatever its size.
Fits_any(k, n) == k = 1 /\ Walk[1] \in Places

\* The walk stops at its k-th block, the first that is large enough.
Fits(k, n) ==
  /\ Walk[k] \in Places /\ mem[Walk[k]] >= Need(n)
  /\ \A j \in 1 .. k - 1 : Walk[j] \in Places /\ mem[Walk[j]] < Need(n)

Served(n) == 0 < n /\ n <= Granules * Align /\ Need(n) <= Granules

\* *plink = nb, where plink is g_freelist or the link of the block before
kmalloc_list(n) ==
  /\ Served(n)
  /\ \E k \in 1 .. Granules :
       /\ Fits(k, n)
       /\ IF k = 1
          THEN /\ freelist' = mem[Walk[1] + 1]
               /\ UNCHANGED mem
          ELSE /\ mem' = [mem EXCEPT ![Walk[k - 1] + 1] = mem[Walk[k] + 1]]
               /\ UNCHANGED freelist
       /\ live' = live \cup {[at |-> Walk[k] + 1, size |-> n]}
  /\ UNCHANGED off

\* Wrong on purpose: the end of the arena is not checked.
kmalloc_bump_unchecked(n) ==
  /\ Served(n)
  /\ ~ \E k \in 1 .. Granules : Fits(k, n)
  /\ mem' = [mem EXCEPT ![off] = Need(n)]
  /\ off' = off + Need(n)
  /\ live' = live \cup {[at |-> off + 1, size |-> n]}
  /\ UNCHANGED freelist

kmalloc_bump(n) ==
  /\ Served(n)
  /\ ~ \E k \in 1 .. Granules : Fits(k, n)
  /\ Granules - off >= Need(n)
  /\ mem' = [mem EXCEPT ![off] = Need(n)]
  /\ off' = off + Need(n)
  /\ live' = live \cup {[at |-> off + 1, size |-> n]}
  /\ UNCHANGED freelist

\* Wrong on purpose: the freed block is not linked to the list.
kfree_unlinked(x) ==
  /\ x \in live
  /\ freelist' = x.at - 1
  /\ live' = live \ {x}
  /\ UNCHANGED <<mem, off>>

kfree(x) ==
  /\ x \in live
  /\ mem' = [mem EXCEPT ![x.at] = freelist]
  /\ freelist' = x.at - 1
  /\ live' = live \ {x}
  /\ UNCHANGED off

\* The caller fills the first or the last granule of its region.
Region(x) == x.at .. x.at + ((x.size + Align - 1) \div Align) - 1

use(x) ==
  /\ x \in live
  /\ \E p \in {x.at, x.at + Cardinality(Region(x)) - 1} :
       mem' = [mem EXCEPT ![p] = Junk]
  /\ UNCHANGED <<freelist, off, live>>

\* heap_init; the arena is in BSS
Init == /\ mem = [p \in Places |-> 0]
        /\ freelist = Null
        /\ off = 0
        /\ live = {}

Next == \/ \E n \in Requests : kmalloc_list(n) \/ kmalloc_bump(n)
        \/ \E x \in live : kfree(x) \/ use(x)

Spec == Init /\ [][Next]_vars
-----------------------------------------------------------------------------
FreeBlocks == { Walk[k] : k \in DOMAIN Walk } \cap Places
LiveBlocks == { x.at - 1 : x \in live }
Block(b) == b .. b + mem[b] - 1

TypeOK == /\ mem \in [Places -> Nat \cup {Null, Junk}]
          /\ freelist \in Places \cup {Null}
          /\ off \in 0 .. Granules
          /\ \A x \in live : x.at \in Places /\ x.size \in Requests

\* The blocks in use and the blocks on the list tile what was carved from the
\* arena: none overlaps another, none is lost, no header is overwritten.
BlocksTile ==
  /\ FreeBlocks \cap LiveBlocks = {}
  /\ Cardinality(LiveBlocks) = Cardinality(live)
  /\ \A b \in FreeBlocks \cup LiveBlocks : mem[b] \in Nat /\ mem[b] > 0
  /\ \A p \in 0 .. off - 1 :
       Cardinality({ b \in FreeBlocks \cup LiveBlocks : p \in Block(b) }) = 1

\* The list ends, although callers write where its links were.
ListEnds == Walk[Granules + 1] = Null /\ \A k \in DOMAIN Walk : Walk[k] # Junk

\* The heap is an allocator of disjoint regions.
AL == INSTANCE Allocator
ImplementsAllocator == AL!ASpec
=============================================================================
