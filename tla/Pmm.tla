-------------------------------- MODULE Pmm ---------------------------------
(***************************************************************************)
(* kernel/pmm.c: the physical frame bitmap.  pmm_init builds it from the   *)
(* boot loader's memory map: all used, then what the map calls available   *)
(* is freed, then what the kernel itself occupies is marked used again.    *)
(* The order matters, because the ranges overlap, and so does rounding,    *)
(* because they need not begin or end at a frame.                          *)
(*                                                                         *)
(* Ranges are pairs <<begin, end>> of byte addresses, end excluded.  The   *)
(* bitmap is the set of the frame numbers whose bit is 1.                  *)
(***************************************************************************)
EXTENDS Naturals, FiniteSets

CONSTANTS FrameSize,   \* bytes in a frame
          Layouts      \* memory maps the boot loader may describe

\* A layout says which ranges are available, where the kernel image and the
\* Multiboot2 information lie.  Some available range ends last.
ASSUME PmmAssumption ==
  /\ FrameSize \in Nat \ {0}
  /\ \A l \in Layouts : \E x \in l.avail : /\ x[2] \in Nat \ {0}
                                           /\ \A y \in l.avail : y \in Nat \X (0 .. x[2])

VARIABLES layout,   \* what the boot loader described
          used,     \* bitmap: frames whose bit is 1
          count,    \* frame_count; 0 before pmm_init
          owned     \* history: frames handed out and not given back

vars == <<layout, used, count, owned>>

\* frames_mark_used and frames_mark_free both round outwards.
Frames(range) == IF range[1] >= range[2] THEN {}
                 ELSE range[1] \div FrameSize .. (range[2] - 1) \div FrameSize

AlignUp(a) == ((a + FrameSize - 1) \div FrameSize) * FrameSize

\* frame_count: up to the last byte of any available range
FrameCount(l) ==
  LET last == CHOOSE e \in { x[2] : x \in l.avail } : \A x \in l.avail : x[2] <= e
  IN (last - 1) \div FrameSize + 1

\* The bitmap lies on the first frame behind the kernel image.
BitmapRange(l) == LET base == AlignUp(l.kernel[2])
                  IN <<base, base + (FrameCount(l) + 7) \div 8>>

Reserved(l) == Frames(l.kernel) \cup Frames(l.info) \cup Frames(BitmapRange(l)) \cup {0}

\* Wrong on purpose: the available ranges are freed last.
InitialBitmap_frees_last(l) ==
  (0 .. FrameCount(l) - 1) \ UNION { Frames(a) : a \in l.avail }

\* Wrong on purpose: the bits are 0 before the available ranges are freed.
InitialBitmap_unfilled(l) == Reserved(l) \cap (0 .. FrameCount(l) - 1)

InitialBitmap(l) ==
  LET all == 0 .. FrameCount(l) - 1
      freed == UNION { Frames(a) : a \in l.avail }
  IN (all \ freed) \cup (Reserved(l) \cap all)

\* The bitmap is filled with ones before the boot information is walked again.
BitmapOverInfo(l) ==
  BitmapRange(l)[1] < l.info[2] /\ l.info[1] < BitmapRange(l)[2]

\* A tag made of ones is rejected, and then the call fails.
pmm_init ==
  /\ count = 0
  /\ ~ BitmapOverInfo(layout)
  /\ count' = FrameCount(layout)
  /\ used' = InitialBitmap(layout)
  /\ UNCHANGED <<layout, owned>>

Free == { f \in 1 .. count - 1 : f \notin used }

\* Wrong on purpose: the bit of the frame is not set.
pmm_alloc_frame_unmarked(f) ==
  /\ count > 0
  /\ \/ /\ f \in Free /\ \A g \in Free : f <= g
        /\ owned' = owned \cup {f}
     \/ f = 0 /\ Free = {} /\ UNCHANGED owned
  /\ UNCHANGED <<layout, used, count>>

\* The call returns frame f: the lowest free one, or 0 when none is left.
pmm_alloc_frame(f) ==
  /\ count > 0
  /\ \/ /\ f \in Free /\ \A g \in Free : f <= g
        /\ used' = used \cup {f}
        /\ owned' = owned \cup {f}
     \/ f = 0 /\ Free = {} /\ UNCHANGED <<used, owned>>
  /\ UNCHANGED <<layout, count>>

\* Wrong on purpose: frame 0 and unaligned addresses are not refused.
pmm_free_frame_unchecked(phys) ==
  /\ count > 0
  /\ used' = used \ {phys \div FrameSize}
  /\ owned' = IF phys % FrameSize = 0 THEN owned \ {phys \div FrameSize} ELSE owned
  /\ UNCHANGED <<layout, count>>

\* The caller gives back what it was given, which may be the 0 of a failure.
pmm_free_frame(phys) ==
  LET f == phys \div FrameSize IN
  /\ count > 0
  /\ used' = IF phys % FrameSize # 0 \/ f = 0 \/ f >= count THEN used ELSE used \ {f}
  /\ owned' = IF phys % FrameSize = 0 THEN owned \ {f} ELSE owned
  /\ UNCHANGED <<layout, count>>

Init == /\ layout \in Layouts
        /\ used = {}
        /\ count = 0
        /\ owned = {}

\* Callers give back frames they own, or the 0 that a failed call returned.
Next == \/ pmm_init
        \/ \E f \in 0 .. count : pmm_alloc_frame(f)
        \/ \E f \in owned \cup {0} : pmm_free_frame(f * FrameSize)

Spec == Init /\ [][Next]_vars
-----------------------------------------------------------------------------
TypeOK == /\ layout \in Layouts
          /\ count \in {0, FrameCount(layout)}
          /\ used \subseteq 0 .. FrameCount(layout) - 1
          /\ owned \subseteq used

\* No frame that holds a byte of the kernel image, of the boot information or
\* of the bitmap is ever handed out, nor frame 0.
NoReservedFrame == owned \cap Reserved(layout) = {}

\* A frame that is handed out has at least one byte of available memory: the
\* ranges are rounded outwards, and no further.
HoldsRam ==
  \A f \in owned : \E x \in layout.avail :
    x[1] < (f + 1) * FrameSize /\ f * FrameSize < x[2]

\* The bitmap never drifts: apart from the frames handed out it is what
\* pmm_init built, whatever addresses were given back.
NothingLost == count > 0 => used \ owned = InitialBitmap(layout)
=============================================================================
