----------------------------- MODULE Allocator ------------------------------
(***************************************************************************)
(* What kmalloc and kfree of kernel/heap.c promise their callers: a region *)
(* of the arena of at least the size asked for, that overlaps no region    *)
(* still in use; or no region at all.  Only the owner gives a region back. *)
(* Sizes are in bytes, places in granules of HEAP_HDR_ALIGN bytes.         *)
(***************************************************************************)
EXTENDS Naturals

CONSTANTS Granules,   \* granules of the arena, 0 .. Granules - 1
          Align,      \* bytes in a granule
          Requests    \* sizes that callers ask for

VARIABLE live         \* the regions in use: [at, size]

Region(x) == x.at .. x.at + ((x.size + Align - 1) \div Align) - 1

AInit == live = {}

Grant(n) == \E a \in 0 .. Granules - 1 :
              LET x == [at |-> a, size |-> n] IN
              /\ Region(x) \subseteq 0 .. Granules - 1
              /\ \A y \in live : Region(x) \cap Region(y) = {}
              /\ live' = live \cup {x}

Release(x) == live' = live \ {x}

ANext == \/ \E n \in Requests : Grant(n)
         \/ \E x \in live : Release(x)

ASpec == AInit /\ [][ANext]_live
=============================================================================
