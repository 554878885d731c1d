----------------------------- MODULE PmmProofs ------------------------------
(***************************************************************************)
(* The frame bitmap keeps what it promises for every memory map, however   *)
(* the ranges overlap and wherever they begin and end.                     *)
(*                                                                         *)
(* NoReservedFrame is not inductive.  It follows from the fact that the    *)
(* bitmap pmm_init built and the frames handed out since partition the     *)
(* bitmap of any later time (Split), and that the built bitmap has every   *)
(* reserved frame the bitmap covers.                                       *)
(***************************************************************************)
EXTENDS Pmm, TLAPS

Split == /\ count = 0 => used = {} /\ owned = {}
         /\ count > 0 => /\ used = InitialBitmap(layout) \cup owned
                         /\ InitialBitmap(layout) \cap owned = {}

IInv == TypeOK /\ Split

\* The number of frames is a number above 0, so that 0 says "not built yet".
LEMMA FrameCountPositive ==
  ASSUME NEW l \in Layouts
  PROVE  FrameCount(l) \in Nat \ {0}
<1> DEFINE Ends == { x[2] : x \in l.avail }
           IsLast(e) == \A x \in l.avail : x[2] <= e
           last == CHOOSE e \in Ends : IsLast(e)
<1>1. PICK x \in l.avail : x[2] \in Nat \ {0} /\ \A y \in l.avail : y \in Nat \X (0 .. x[2])
  BY PmmAssumption DEF PmmAssumption
<1>2. x[2] \in Ends /\ IsLast(x[2])
  BY <1>1
<1>3. last \in Ends /\ IsLast(last)
  <2> HIDE DEF Ends, IsLast
  <2> QED BY <1>2
<1>4. last \in Nat \ {0}
  <2>1. PICK y \in l.avail : last = y[2]
    BY <1>3
  <2>2. x[2] <= last /\ last <= x[2]
    BY <1>1, <1>3, <2>1
  <2>3. last \in Nat
    BY <1>1, <2>1
  <2> QED BY <1>1, <2>2, <2>3
<1>5. (last - 1) \div FrameSize \in Nat
  <2> HIDE DEF last
  <2> QED BY <1>4, PmmAssumption DEF PmmAssumption
<1>6. FrameCount(l) = (last - 1) \div FrameSize + 1
  BY DEF FrameCount
<1> QED BY <1>5, <1>6

\* The built bitmap has one bit for each frame, and the bits of the reserved.
LEMMA BitmapCovers ==
  ASSUME NEW l \in Layouts
  PROVE  /\ InitialBitmap(l) \subseteq 0 .. FrameCount(l) - 1
         /\ Reserved(l) \cap (0 .. FrameCount(l) - 1) \subseteq InitialBitmap(l)
BY DEF InitialBitmap

\* The address of a frame gives its number back.
LEMMA FrameOfAddress ==
  ASSUME NEW f \in Nat
  PROVE  (f * FrameSize) \div FrameSize = f /\ (f * FrameSize) % FrameSize = 0
BY PmmAssumption, SMTT(30) DEF PmmAssumption

\* Every call keeps the bitmap typed and split.
LEMMA PmmStep == IInv /\ [Next]_vars => IInv'
<1> SUFFICES ASSUME IInv, [Next]_vars PROVE IInv'
  OBVIOUS
<1> USE DEF IInv
<1>0. layout \in Layouts /\ FrameCount(layout) \in Nat \ {0}
  BY FrameCountPositive DEF TypeOK
<1>1. CASE pmm_init
  <2>1. InitialBitmap(layout) \subseteq 0 .. FrameCount(layout) - 1
    BY <1>0, BitmapCovers
  <2>2. owned = {}
    BY <1>1 DEF pmm_init, Split
  <2>3. layout' = layout /\ count' = FrameCount(layout)
        /\ used' = InitialBitmap(layout) /\ owned' = {}
    BY <1>1, <2>2 DEF pmm_init
  <2> QED BY <1>0, <2>1, <2>3 DEF TypeOK, Split
<1>2. ASSUME NEW f \in 0 .. count, pmm_alloc_frame(f) PROVE IInv'
  <2>1. count > 0 /\ count = FrameCount(layout)
    BY <1>2, <1>0 DEF pmm_alloc_frame, TypeOK
  <2>2. CASE used' = used \cup {f} /\ owned' = owned \cup {f} /\ f \in Free
    <3>1. f \in 0 .. FrameCount(layout) - 1 /\ f \notin used
      BY <2>1, <2>2, <1>0 DEF Free
    <3>2. layout' = layout /\ count' = count
      BY <1>2 DEF pmm_alloc_frame
    <3>3. TypeOK'
      BY <2>2, <3>1, <3>2 DEF TypeOK
    <3>4. Split'
      BY <2>1, <2>2, <3>1, <3>2, <1>0 DEF Split
    <3> QED BY <3>3, <3>4
  <2>3. CASE UNCHANGED <<used, owned>>
    BY <1>2, <2>3 DEF pmm_alloc_frame, TypeOK, Split
  <2> QED BY <1>2, <2>2, <2>3 DEF pmm_alloc_frame
<1>3. ASSUME NEW f \in owned \cup {0}, pmm_free_frame(f * FrameSize) PROVE IInv'
  <2>1. count > 0 /\ count = FrameCount(layout)
    BY <1>3, <1>0 DEF pmm_free_frame, TypeOK
  <2>2. f \in Nat /\ f < count
    BY <2>1, <1>0 DEF TypeOK
  <2> DEFINE phys == f * FrameSize
  <2>3. phys \div FrameSize = f /\ phys % FrameSize = 0
    BY <2>2, FrameOfAddress
  <2>4. /\ layout' = layout /\ count' = count
        /\ used' = IF f = 0 THEN used ELSE used \ {f}
        /\ owned' = owned \ {f}
    <3>1. pmm_free_frame(phys)
      BY <1>3
    <3>2. ~ (f >= count)
      BY <1>0, <2>1, <2>2
    <3> HIDE DEF phys
    <3> QED BY <2>3, <3>1, <3>2, Zenon DEF pmm_free_frame
  <2>5. CASE f = 0
    <3>1. 0 \in InitialBitmap(layout)
      BY <1>0, BitmapCovers DEF Reserved
    <3>2. owned' = owned
      BY <2>1, <2>4, <2>5, <3>1, <1>0 DEF Split
    <3> QED BY <2>4, <2>5, <3>2 DEF TypeOK, Split
  <2>6. CASE f # 0
    <3>1. f \in owned
      BY <2>6
    <3>2. f \notin InitialBitmap(layout)
      BY <2>1, <1>0, <3>1 DEF Split
    <3>3. TypeOK'
      BY <2>4, <2>6 DEF TypeOK
    <3>4. Split'
      BY <2>1, <2>4, <2>6, <3>2, <1>0 DEF Split
    <3> QED BY <3>3, <3>4
  <2> QED BY <2>5, <2>6
<1>4. CASE UNCHANGED vars
  BY <1>4 DEF vars, TypeOK, Split
<1> QED BY <1>1, <1>2, <1>3, <1>4 DEF Next

\* The typed state and the split hold always.
LEMMA Inductive == Spec => []IInv
<1>1. Init => IInv
  BY DEF Init, IInv, TypeOK, Split
<1> QED BY <1>1, PmmStep, PTL DEF Spec

\* Type correctness of the bitmap for every memory map.
THEOREM PmmTypeCorrect == Spec => []TypeOK
BY Inductive, PTL DEF IInv

\* For every memory map, pmm_alloc_frame never hands out a frame with a byte
\* of the kernel image, of the boot information or of the bitmap itself.
THEOREM ReservedSafe == Spec => []NoReservedFrame
<1>1. IInv => NoReservedFrame
  <2> SUFFICES ASSUME IInv PROVE NoReservedFrame
    OBVIOUS
  <2>0. layout \in Layouts /\ FrameCount(layout) \in Nat \ {0}
    BY FrameCountPositive DEF IInv, TypeOK
  <2>1. CASE count = 0
    BY <2>1 DEF IInv, Split, NoReservedFrame
  <2>2. CASE count # 0
    <3>1. count > 0
      BY <2>0, <2>2 DEF IInv, TypeOK
    <3>2. InitialBitmap(layout) \cap owned = {}
      BY <3>1 DEF IInv, Split
    <3>3. owned \subseteq 0 .. FrameCount(layout) - 1
      BY DEF IInv, TypeOK
    <3> QED BY <2>0, <3>2, <3>3, BitmapCovers DEF NoReservedFrame
  <2> QED BY <2>1, <2>2
<1> QED BY <1>1, Inductive, PTL

\* The frames that frames_mark_free frees for a range hold a byte of it.
LEMMA RoundedOutwards ==
  ASSUME NEW x \in Nat \X Nat, NEW f \in Frames(x)
  PROVE  x[1] < (f + 1) * FrameSize /\ f * FrameSize < x[2]
<1> DEFINE D == FrameSize
           lo == x[1] \div D
           hi == (x[2] - 1) \div D
<1>1. D \in Nat \ {0} /\ x[1] \in Nat /\ x[2] \in Nat
  BY PmmAssumption DEF PmmAssumption
<1>2. x[1] < x[2] /\ f \in lo .. hi
  BY DEF Frames
<1>3. ASSUME NEW a \in Nat
      PROVE  a \div D \in Nat /\ (a \div D) * D <= a /\ a < (a \div D + 1) * D
  <2> HIDE DEF D
  <2> QED BY <1>1, SMTT(30)
<1>4. lo \in Nat /\ hi \in Nat /\ f \in Nat /\ lo <= f /\ f <= hi
  <2>1. x[2] - 1 \in Nat
    BY <1>1, <1>2
  <2>2. lo \in Nat /\ hi \in Nat
    BY <1>1, <1>3, <2>1
  <2> HIDE DEF lo, hi
  <2> QED BY <1>2, <2>2
<1>5. x[1] < (lo + 1) * D /\ hi * D <= x[2] - 1
  <2>1. x[2] - 1 \in Nat
    BY <1>1, <1>2
  <2> QED BY <1>1, <1>3, <2>1
<1>6. (lo + 1) * D <= (f + 1) * D /\ f * D <= hi * D
  <2> HIDE DEF D, lo, hi
  <2> QED BY <1>1, <1>4, SMTT(30)
<1>7. (lo + 1) * D \in Nat /\ (f + 1) * D \in Nat /\ f * D \in Nat /\ hi * D \in Nat
  <2> HIDE DEF D, lo, hi
  <2> QED BY <1>1, <1>4, SMTT(30)
<1>8. x[1] < (f + 1) * D /\ f * D < x[2]
  <2> HIDE DEF D, lo, hi
  <2> QED BY <1>1, <1>5, <1>6, <1>7
<1> QED BY <1>8

\* For every memory map, a frame that is handed out has a byte of available
\* memory: only its rest may lie outside.
THEOREM RamOnly == Spec => []HoldsRam
<1>1. IInv => HoldsRam
  <2> SUFFICES ASSUME IInv, NEW f \in owned
               PROVE  \E x \in layout.avail :
                        x[1] < (f + 1) * FrameSize /\ f * FrameSize < x[2]
    BY DEF HoldsRam
  <2>1. layout \in Layouts /\ FrameCount(layout) \in Nat \ {0}
    BY FrameCountPositive DEF IInv, TypeOK
  <2>2. count > 0
    BY <2>1 DEF IInv, TypeOK, Split
  <2>3. f \in 0 .. FrameCount(layout) - 1 /\ f \notin InitialBitmap(layout)
    BY <2>2 DEF IInv, TypeOK, Split
  <2>4. f \in UNION { Frames(x) : x \in layout.avail }
    BY <2>3 DEF InitialBitmap
  <2>5. PICK x \in layout.avail : f \in Frames(x)
    BY <2>4
  <2>6. x \in Nat \X Nat
    BY <2>1, PmmAssumption DEF PmmAssumption
  <2> QED BY <2>5, <2>6, RoundedOutwards
<1> QED BY <1>1, Inductive, PTL

\* The bitmap never drifts: whatever is allocated and given back, and in
\* whatever order, the rest of it stays as pmm_init built it.
THEOREM BitmapExact == Spec => []NothingLost
<1>1. IInv => NothingLost
  BY DEF IInv, Split, NothingLost
<1> QED BY <1>1, Inductive, PTL
=============================================================================
