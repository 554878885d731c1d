--------------------------- MODULE UserSpaceProofs ---------------------------
(***************************************************************************)
(* Proofs about module UserSpace, for every memory map, every MADT, every  *)
(* place of the device page tables, every file, every program and every    *)
(* sequence of system calls: frames have one use each and none is lost,    *)
(* what brk and the loader map stays mapped, the kernel touches mapped     *)
(* pages only, descriptors deliver their files, the processors that are    *)
(* started have idle threads, and the LAPIC is reached.                    *)
(*                                                                         *)
(* None of that is inductive by itself.  That a new frame is not in use    *)
(* yet follows from the split of the bitmap (PmmProofs) and from every use *)
(* being of a frame that was handed out; that a variable which receives a  *)
(* frame held none before, and an entry none, follows from where           *)
(* kernel_main is.  What the kernel knows of the processors is inductive   *)
(* only together with the table it comes from (HwOk), and the way to the   *)
(* LAPIC only together with the slot it has (DeviceInv).                   *)
(***************************************************************************)
EXTENDS UserSpace, PmmProofs, SequenceTheorems, FiniteSetTheorems, Induction

-----------------------------------------------------------------------------
\* Before probe, before the clone of the directory, and so on: what comes later
\* has not been taken yet.
BeforeProbe == {"start", "vfs", "vfs read", "vfs close", "paging", "acpi", "lapic",
                "apic map", "idle threads", "ioapic", "smp", "aps", "sipi", "probe"}
BeforePd    == BeforeProbe \cup {"free", "again", "clone"}
BeforeCode  == BeforePd \cup {"code"}
BeforeStk   == BeforeCode \cup {"stack"}
BeforePt    == BeforeStk \cup {"text"}

Untaken == /\ pc \in BeforeProbe \cup {"again"} => probe = 0
           /\ pc \in BeforePd => pd = 0
           /\ pc \in BeforeCode => code = 0
           /\ pc \in BeforeStk => stk = 0
           /\ pc \in BeforePt => pt = 0

\* The uses that have a frame.
Taken == { u \in AllocatedUses : u[3] # 0 }

FrameInv == /\ \A u \in Taken : u[3] \in owned
            /\ \A u, v \in Taken : u[3] = v[3] => u = v
            /\ ~ enomem => owned \subseteq { u[3] : u \in Taken }

Unmapped(p) == pte[p].flags = {}
MappedRWU(p) == pte[p].flags = RWU

\* Up to where the heap is mapped, and behind which nothing is unless a call
\* failed half way.
HeapTop == IF pc = "brk" THEN va ELSE brk

PteInv ==
  /\ pte \in [UserPages -> [frame : Nat, flags : {{}, RWU}]]
  /\ pc \in BeforePt => \A p \in UserPages : Unmapped(p)
  /\ pc = "map_stack" => \A p \in UserPages \ {TextPage} : Unmapped(p)
  /\ pc = "map_stack" => MappedRWU(TextPage)
  /\ pc \in {"code", "stack", "text", "map_stack"} => brk = HeapPage

LoaderInv ==
  /\ pc \in {"code", "stack", "text", "map_stack"} => prog \in FlatLens \cup {0}
  /\ pc \in {"extra text", "flat"} =>
       /\ prog \in FlatLens
       /\ va \in StackPage .. TextPage + TextPages
       /\ \A p \in {StackPage} \cup (TextPage .. va - 1) : MappedRWU(p)
       /\ \A p \in UserPages : p >= va /\ p # StackPage => Unmapped(p)
       /\ va = StackPage => pte[StackPage].frame = stk

BrkInv ==
  /\ pc \in {"user", "brk"} =>
       /\ brk \in HeapPage .. CapPage - 1
       /\ \A p \in HeapPage .. HeapTop - 1 : MappedRWU(p)
       /\ ~ enomem => \A p \in HeapTop .. CapPage - 1 : Unmapped(p)
  /\ pc = "brk" => goal \in HeapPage .. CapPage - 1 /\ va \in brk .. goal

\* An open descriptor stands where its file's bytes have been delivered.
FileInv ==
  /\ ufd \in [UfdSlots -> [used : BOOLEAN, file : Files, pos : Nat]]
  /\ delivered \in [UfdSlots -> Seq(Nat)]
  /\ \A s \in UfdSlots : /\ ufd[s].pos <= FileLen[ufd[s].file]
                         /\ ufd[s].used => /\ Len(delivered[s]) = ufd[s].pos
                                           /\ \A i \in DOMAIN delivered[s] : delivered[s][i] = i - 1
  /\ pc \in {"start", "vfs"} => \A s \in UfdSlots : ~ ufd[s].used

UserInv == IInv /\ Untaken /\ FrameInv /\ PteInv /\ LoaderInv /\ BrkInv
           /\ FileInv /\ CopyInBounds

-----------------------------------------------------------------------------
LEMMA UserFacts ==
  /\ TextPage \in Nat /\ CapPage \in Nat /\ ReadMax \in Nat /\ WriteMax \in Nat
  /\ HeapPage = TextPage + 2 /\ StackPage = TextPage + 1 /\ HeapPage < CapPage
  /\ StackPage # TextPage
  /\ TextPage \in UserPages /\ StackPage \in UserPages
  /\ UserPages = TextPage .. CapPage - 1
  /\ Fds \in Nat \ {0} /\ FileLen \in [Files -> Nat] /\ TestFile \in Files /\ TestBuf \in Nat
  /\ FrameSize \in Nat \ {0} /\ FlatLens \subseteq Nat \ {0}
BY UserSpaceAssumption, PmmAssumption DEF HeapPage, StackPage, UserPages

\* A flat program has a page and ends below the cap.
LEMMA TextFits ==
  prog \in FlatLens =>
    /\ TextPages \in Nat /\ TextPages >= 1 /\ TextPage + TextPages <= CapPage
    /\ prog <= FrameSize => TextPages = 1
<1> SUFFICES ASSUME prog \in FlatLens
             PROVE  /\ TextPages \in Nat /\ TextPages >= 1 /\ TextPage + TextPages <= CapPage
                    /\ prog <= FrameSize => TextPages = 1
  OBVIOUS
<1> DEFINE D == FrameSize
           n == CapPage - TextPage
           t == (prog + D - 1) \div D
<1>1. D \in Nat \ {0} /\ n \in Nat /\ prog \in 1 .. n * D
  BY UserFacts, UserSpaceAssumption
<1> HIDE DEF D, n
<1>2. t \in Nat /\ t * D <= prog + D - 1 /\ prog + D - 1 < (t + 1) * D
  BY <1>1, SMTT(30)
<1>3. t >= 1
  <2>1. t = 0 => (t + 1) * D = D
    BY <1>1
  <2> QED BY <1>1, <1>2, <2>1
<1>4. t <= n
  <2>1. t >= n + 1 => t * D >= (n + 1) * D
    BY <1>1, <1>2, SMTT(30)
  <2>2. (n + 1) * D = (n * D) + D /\ n * D \in Nat /\ t * D \in Nat
    BY <1>1, <1>2, SMTT(30)
  <2> QED BY <1>1, <1>2, <2>1, <2>2
<1>5. prog <= D => t = 1
  <2>1. t >= 2 => t * D >= 2 * D
    BY <1>1, <1>2, SMTT(30)
  <2>2. t * D \in Nat
    BY <1>1, <1>2, SMTT(30)
  <2> QED BY <1>1, <1>2, <1>3, <2>1, <2>2
<1> HIDE DEF t
<1>6. TextPages = t /\ CapPage \in Nat /\ TextPage \in Nat
  BY UserFacts DEF TextPages, t, D
<1> QED BY <1>2, <1>3, <1>4, <1>5, <1>6 DEF n, D

\* A frame that pmm_alloc_frame returns was not handed out before.
LEMMA Allocated ==
  ASSUME IInv, NEW f \in 0 .. count, pmm_alloc_frame(f)
  PROVE  /\ f \in Nat /\ [Next]_vars
         /\ f = 0 => owned' = owned
         /\ f # 0 => f \notin owned /\ owned' = owned \cup {f}
<1>1. count \in Nat /\ owned \subseteq used
  BY FrameCountPositive DEF IInv, TypeOK
<1> QED BY <1>1 DEF pmm_alloc_frame, Free, Next

LEMMA FreedFrame ==
  ASSUME IInv, probe \in owned \cup {0}, pmm_free_frame(probe * FrameSize)
  PROVE  [Next]_vars /\ owned' = owned \ {probe}
<1>1. [Next]_vars
  BY DEF Next
<1>2. probe \in Nat
  BY FrameCountPositive DEF IInv, TypeOK
<1> DEFINE phys == probe * FrameSize
<1>3. phys \div FrameSize = probe /\ phys % FrameSize = 0
  BY <1>2, FrameOfAddress
<1>4. pmm_free_frame(phys)
  OBVIOUS
<1> HIDE DEF phys
<1>5. owned' = owned \ {probe}
  BY <1>3, <1>4, Zenon DEF pmm_free_frame
<1> QED BY <1>1, <1>5

-----------------------------------------------------------------------------
(***************************************************************************)
(* The uses of frames, part by part.                                       *)
(***************************************************************************)
One(tag, place, f) == IF f = 0 THEN {} ELSE { <<tag, place, f>> }
ApUses(A) == { u \in { <<"ap", a[1], a[2]>> : a \in A } : u[3] # 0 }
PageUses(P) ==
  { u \in { <<"page", p, P[p].frame>> : p \in { q \in UserPages : "present" \in P[q].flags } } :
      u[3] # 0 }
Fixed(a, b, c, d, e) ==
  One("probe", 0, a) \cup One("pd", 0, b) \cup One("pt", 0, c)
  \cup One("page", TextPage, d) \cup One("page", StackPage, e)

LEMMA TakenIs == Taken = ApUses(aps) \cup PageUses(pte) \cup Fixed(probe, pd, pt, code, stk)
BY DEF Taken, AllocatedUses, Mapped, ApUses, PageUses, Fixed, One

LEMMA TakenNext == Taken' = ApUses(aps') \cup PageUses(pte') \cup Fixed(probe', pd', pt', code', stk')
BY DEF Taken, AllocatedUses, Mapped, ApUses, PageUses, Fixed, One

\* An entry that is written takes the place of what was there.
LEMMA PageWritten ==
  ASSUME pte \in [UserPages -> [frame : Nat, flags : {{}, RWU}]],
         NEW p \in UserPages, NEW f \in Nat,
         pte' = [pte EXCEPT ![p] = [frame |-> f, flags |-> RWU]]
  PROVE  /\ PageUses(pte') = (PageUses(pte) \ { <<"page", p, pte[p].frame>> }) \cup One("page", p, f)
         /\ pte[p].flags = {} => <<"page", p, pte[p].frame>> \notin PageUses(pte)
         /\ pte' \in [UserPages -> [frame : Nat, flags : {{}, RWU}]]
<1>1. /\ pte' \in [UserPages -> [frame : Nat, flags : {{}, RWU}]]
      /\ pte'[p].frame = f /\ pte'[p].flags = RWU /\ "present" \in RWU
      /\ \A q \in UserPages \ {p} : pte'[q] = pte[q]
  BY DEF RWU
<1>2. ASSUME NEW u \in PageUses(pte')
      PROVE  u \in (PageUses(pte) \ { <<"page", p, pte[p].frame>> }) \cup One("page", p, f)
  <2>1. PICK q \in UserPages : u = <<"page", q, pte'[q].frame>> /\ "present" \in pte'[q].flags /\ u[3] # 0
    BY DEF PageUses
  <2>2. CASE q = p
    BY <1>1, <2>1, <2>2 DEF One
  <2>3. CASE q # p
    <3>1. u = <<"page", q, pte[q].frame>> /\ "present" \in pte[q].flags
      BY <1>1, <2>1, <2>3
    <3>2. u \in PageUses(pte)
      BY <2>1, <3>1 DEF PageUses
    <3> QED BY <2>3, <3>1, <3>2
  <2> QED BY <2>2, <2>3
<1>3. ASSUME NEW u \in PageUses(pte), u # <<"page", p, pte[p].frame>> PROVE u \in PageUses(pte')
  <2>1. PICK q \in UserPages : u = <<"page", q, pte[q].frame>> /\ "present" \in pte[q].flags /\ u[3] # 0
    BY DEF PageUses
  <2>2. q # p
    BY <1>3, <2>1
  <2>3. u = <<"page", q, pte'[q].frame>> /\ "present" \in pte'[q].flags
    BY <1>1, <2>1, <2>2
  <2> QED BY <2>1, <2>3 DEF PageUses
<1>4. ASSUME NEW u \in One("page", p, f) PROVE u \in PageUses(pte')
  <2>1. u = <<"page", p, pte'[p].frame>> /\ u[3] # 0
    BY <1>1 DEF One
  <2> QED BY <1>1, <2>1 DEF PageUses
<1>5. ASSUME pte[p].flags = {}, <<"page", p, pte[p].frame>> \in PageUses(pte) PROVE FALSE
  BY <1>5 DEF PageUses
<1> QED BY <1>1, <1>2, <1>3, <1>4, <1>5

\* A frame that is put to a new use, or to none because there was no frame.
LEMMA FrameGranted ==
  ASSUME IInv, FrameInv, NEW f \in 0 .. count, pmm_alloc_frame(f), NEW u, u[3] = f,
         f # 0 => Taken' \subseteq Taken \cup {u} /\ (~ enomem' => Taken \cup {u} \subseteq Taken'),
         f = 0 => Taken' \subseteq Taken /\ (~ enomem' => Taken \subseteq Taken'),
         enomem => enomem'
  PROVE  FrameInv'
<1>1. /\ f = 0 => owned' = owned
      /\ f # 0 => f \notin owned /\ owned' = owned \cup {f}
  BY Allocated
<1>2. \A v \in Taken' : v[3] \in owned'
  BY <1>1 DEF FrameInv
<1>3. ASSUME NEW v \in Taken', NEW w \in Taken', v[3] = w[3] PROVE v = w
  BY <1>1, <1>3 DEF FrameInv
<1>4. ASSUME ~ enomem', NEW g \in owned' PROVE \E v \in Taken' : v[3] = g
  <2>1. g \in owned => \E v \in Taken : v[3] = g
    BY <1>4 DEF FrameInv
  <2> QED BY <1>1, <1>4, <2>1
<1> QED BY <1>2, <1>3, <1>4 DEF FrameInv

LEMMA FramesKept ==
  ASSUME FrameInv, owned' = owned, Taken' = Taken, enomem => enomem'
  PROVE  FrameInv'
BY DEF FrameInv

-----------------------------------------------------------------------------
(***************************************************************************)
(* The steps that take or give a frame, and the others.                    *)
(***************************************************************************)
Takes == \/ smp_stack \/ main_probe \/ verve_proc_init_singleton \/ user_frames \/ map_text
         \/ exec_flat_page \/ brk_page

space == <<aps, probe, pd, code, stk, pt, pte>>

\* pmm_init apart, a step that takes no frame leaves the frames alone; the only
\* one that changes an entry writes the frame of the stack into its page.
LEMMA Others ==
  ASSUME UNext
  PROVE  \/ Takes
         \/ map_stack
         \/ [Next]_vars /\ UNCHANGED <<owned, space, enomem>>
<1>1. CASE main_memory
  BY <1>1 DEF main_memory, pmm_init, space, proc, heap, vars, Next
<1>2. CASE verve_vfs_selftest \/ main_paging \/ main_acpi \/ lapic_bsp_early_init
           \/ main_number_cpus \/ ioapic_init_from_acpi
           \/ smp_install_trampoline \/ smp_start_ap \/ smp_done
  BY <1>2 DEF verve_vfs_selftest, main_paging, main_acpi, lapic_bsp_early_init,
    main_number_cpus, ioapic_init_from_acpi, smp_install_trampoline, smp_start_ap, smp_done,
    space, proc, heap, vars
<1>3. CASE exec_flat_copy \/ brk_done
  BY <1>3 DEF exec_flat_copy, brk_done, space, proc, heap, vars
<1>4. CASE syscall_invoke
  <2>1. UNCHANGED <<vars, aps, probe, proc, enomem>>
    BY <1>4 DEF syscall_invoke, sys_brk, sys_write, verve_vfs_open_u, verve_vfs_read_u,
      verve_vfs_close_u, sys_exit, heap
  <2> QED BY <2>1 DEF space, proc, vars
<1> QED BY <1>1, <1>2, <1>3, <1>4
     DEF UNext, Takes, verve_exec_flat_run, verve_user_bringup_smoke

\* The frame allocator sees calls that module Pmm allows.
LEMMA CallsPmm ==
  ASSUME IInv, probe \in owned \cup {0}, [UNext]_uvars
  PROVE  [Next]_vars
<1>1. ASSUME NEW f \in 0 .. count, pmm_alloc_frame(f) PROVE [Next]_vars
  BY <1>1, Allocated
<1>2. CASE smp_stack
  <2>1. UNCHANGED vars \/ \E f \in 0 .. count : pmm_alloc_frame(f)
    <3>1. count \in Nat
      BY FrameCountPositive DEF IInv, TypeOK
    <3> QED BY <1>2, <3>1 DEF smp_stack
  <2> QED BY <1>1, <2>1
<1>3. CASE main_probe
  <2>1. pmm_free_frame(probe * FrameSize) \/ \E f \in 0 .. count : pmm_alloc_frame(f)
    BY <1>3 DEF main_probe
  <2> QED BY <1>1, <2>1, FreedFrame
<1>4. CASE verve_proc_init_singleton \/ user_frames \/ map_text \/ exec_flat_page \/ brk_page
  <2>1. \E f \in 0 .. count : pmm_alloc_frame(f)
    BY <1>4 DEF verve_proc_init_singleton, user_frames, map_text, exec_flat_page, brk_page
  <2> QED BY <1>1, <2>1
<1>5. CASE map_stack
  BY <1>5 DEF map_stack
<1>6. CASE UNCHANGED uvars
  BY <1>6 DEF uvars
<1> QED BY <1>2, <1>3, <1>4, <1>5, <1>6, Others DEF Takes

LEMMA UntakenStep ==
  ASSUME Untaken, [UNext]_uvars
  PROVE  Untaken'
<1> USE DEF BeforePt, BeforeStk, BeforeCode, BeforePd, BeforeProbe
<1>1. CASE main_memory \/ verve_vfs_selftest \/ main_paging \/ main_acpi \/ lapic_bsp_early_init
           \/ main_number_cpus \/ ioapic_init_from_acpi
           \/ smp_install_trampoline \/ smp_stack \/ smp_start_ap \/ smp_done
  <2>1. /\ UNCHANGED <<probe, pd, code, stk, pt>>
        /\ pc \in BeforeProbe \ {"probe"} /\ pc' \in BeforeProbe \cup {"halted"}
    BY <1>1 DEF main_memory, verve_vfs_selftest, main_paging, main_acpi, lapic_bsp_early_init,
      main_number_cpus, ioapic_init_from_acpi, smp_install_trampoline, smp_stack, smp_start_ap,
      smp_done, proc
  <2> QED BY <2>1 DEF Untaken
<1>2. CASE main_probe
  BY <1>2 DEF main_probe, Untaken, proc
<1>3. CASE verve_proc_init_singleton
  BY <1>3 DEF verve_proc_init_singleton, Untaken
<1>4. CASE user_frames
  BY <1>4 DEF user_frames, Untaken
<1>5. CASE map_text
  BY <1>5 DEF map_text, Untaken
<1>6. CASE map_stack \/ exec_flat_page \/ exec_flat_copy \/ brk_page \/ brk_done
  <2>1. /\ UNCHANGED <<probe, pd, code, stk, pt>>
        /\ pc' \in {"user", "extra text", "flat", "brk", "halted"}
    BY <1>6 DEF map_stack, exec_flat_page, exec_flat_copy, brk_page, brk_done, proc
  <2> QED BY <2>1 DEF Untaken
<1>7. CASE syscall_invoke
  <2>1. UNCHANGED <<probe, proc>> /\ pc' \in {"user", "brk", "halted"}
    BY <1>7 DEF syscall_invoke, sys_brk, sys_write, verve_vfs_open_u, verve_vfs_read_u,
      verve_vfs_close_u, sys_exit
  <2> QED BY <2>1 DEF Untaken, proc
<1>8. CASE UNCHANGED uvars
  BY <1>8 DEF uvars, proc, Untaken
<1> QED BY <1>1, <1>2, <1>3, <1>4, <1>5, <1>6, <1>7, <1>8
     DEF UNext, verve_exec_flat_run, verve_user_bringup_smoke

\* A page of the loader or of brk is mapped for the first time, or has a frame
\* that is used for something else as well; otherwise a call has failed before.
LEMMA PageTaken ==
  ASSUME IInv, FrameInv, PteInv, NEW f \in 0 .. count, pmm_alloc_frame(f), f # 0,
         NEW p \in UserPages,
         pte' = [pte EXCEPT ![p] = [frame |-> f, flags |-> RWU]],
         UNCHANGED <<aps, probe, pd, code, stk, pt, enomem>>,
         \/ enomem
         \/ Unmapped(p)
         \/ p = StackPage /\ pte[p].frame = stk
  PROVE  FrameInv'
<1> DEFINE u == <<"page", p, f>>
           gone == <<"page", p, pte[p].frame>>
           R == ApUses(aps) \cup Fixed(probe, pd, pt, code, stk)
<1>1. f \in Nat
  BY Allocated
<1>2. /\ PageUses(pte') = (PageUses(pte) \ {gone}) \cup {u}
      /\ Unmapped(p) => gone \notin PageUses(pte)
  <2>1. pte \in [UserPages -> [frame : Nat, flags : {{}, RWU}]]
    BY DEF PteInv
  <2>2. PageUses(pte') = (PageUses(pte) \ {gone}) \cup One("page", p, f)
    BY <1>1, <2>1, PageWritten
  <2>3. pte[p].flags = {} => gone \notin PageUses(pte)
    BY <1>1, <2>1, PageWritten
  <2> QED BY <2>2, <2>3 DEF One, Unmapped
<1>3. Taken' = R \cup PageUses(pte') /\ Taken = R \cup PageUses(pte)
  BY TakenIs, TakenNext
<1>4. p = StackPage /\ pte[p].frame = stk => gone \in R \/ gone \notin PageUses(pte)
  BY DEF Fixed, One, PageUses
<1> HIDE DEF R, u, gone
<1>5. Taken' \subseteq Taken \cup {u} /\ (~ enomem => Taken \cup {u} \subseteq Taken')
  BY <1>2, <1>3, <1>4
<1>6. u[3] = f
  BY DEF u
<1>7. enomem' = enomem
  OBVIOUS
<1> QED BY <1>5, <1>6, <1>7, FrameGranted

LEMMA FramesAreNumbers ==
  ASSUME IInv, FrameInv
  PROVE  code \in Nat /\ stk \in Nat /\ probe \in owned \cup {0} /\ 0 \notin owned
<1>1. owned \subseteq Nat /\ 0 \in Nat
  BY FrameCountPositive DEF IInv, TypeOK
<1>2. Fixed(probe, pd, pt, code, stk) \subseteq Taken
  BY TakenIs
<1>3. ASSUME NEW tag, NEW p, NEW f, f # 0, <<tag, p, f>> \in Taken PROVE f \in owned
  <2> DEFINE u == <<tag, p, f>>
  <2>1. u \in Taken /\ u[3] = f
    BY <1>3
  <2> HIDE DEF u
  <2> QED BY <2>1 DEF FrameInv
<1>4. /\ code # 0 => <<"page", TextPage, code>> \in Taken
      /\ stk # 0 => <<"page", StackPage, stk>> \in Taken
      /\ probe # 0 => <<"probe", 0, probe>> \in Taken
  BY <1>2 DEF Fixed, One
<1>5. code \in owned \cup {0} /\ stk \in owned \cup {0} /\ probe \in owned \cup {0}
  BY <1>3, <1>4
<1>6. 0 \notin owned
  BY BitmapCovers, FrameCountPositive DEF IInv, TypeOK, Split, Reserved
<1> QED BY <1>1, <1>5, <1>6

\* The two entries that are written after their frames were taken.
LEMMA PageOfFixed ==
  ASSUME IInv, FrameInv, PteInv, NEW p, NEW f,
         \/ p = TextPage /\ f = code
         \/ p = StackPage /\ f = stk,
         Unmapped(p), pte' = [pte EXCEPT ![p] = [frame |-> f, flags |-> RWU]]
  PROVE  /\ PageUses(pte') = PageUses(pte) \cup One("page", p, f)
         /\ One("page", p, f) \subseteq Fixed(probe, pd, pt, code, stk)
         /\ f \in Nat /\ p \in UserPages
<1>1. p \in UserPages
  BY UserFacts
<1>2. One("page", p, f) \subseteq Fixed(probe, pd, pt, code, stk)
  BY DEF Fixed
<1>3. f \in Nat
  BY FramesAreNumbers
<1>4. pte \in [UserPages -> [frame : Nat, flags : {{}, RWU}]]
  BY DEF PteInv
<1>5. /\ PageUses(pte') = (PageUses(pte) \ { <<"page", p, pte[p].frame>> }) \cup One("page", p, f)
      /\ pte[p].flags = {} => <<"page", p, pte[p].frame>> \notin PageUses(pte)
  BY <1>1, <1>3, <1>4, PageWritten
<1> QED BY <1>1, <1>2, <1>3, <1>5 DEF Unmapped

LEMMA FrameStep ==
  ASSUME UserInv, [UNext]_uvars
  PROVE  FrameInv'
<1>0. IInv /\ FrameInv /\ Untaken /\ PteInv /\ LoaderInv /\ BrkInv
  BY DEF UserInv
<1> DEFINE Rest == ApUses(aps) \cup PageUses(pte)
<1>1. ASSUME NEW f \in 0 .. count, pmm_alloc_frame(f), NEW u, u[3] = f, enomem' = enomem,
             Taken' = IF f = 0 THEN Taken ELSE Taken \cup {u}
      PROVE  FrameInv'
  BY <1>0, <1>1, FrameGranted
<1>2. ASSUME UNCHANGED <<space, owned, enomem>> PROVE FrameInv'
  <2>1. Taken' = Taken
    BY <1>2, TakenIs, TakenNext DEF space
  <2> QED BY <1>0, <1>2, <2>1, FramesKept
<1>3. CASE smp_stack
  <2>1. UNCHANGED <<probe, pd, pt, code, stk, pte, enomem>>
    BY <1>3 DEF smp_stack, proc, heap
  <2>2. CASE UNCHANGED aps /\ (UNCHANGED vars \/ pmm_alloc_frame(0))
    <3>1. UNCHANGED owned
      BY <2>2 DEF vars, pmm_alloc_frame, Free
    <3> QED BY <1>2, <2>1, <2>2, <3>1 DEF space
  <2>3. CASE \E f \in 1 .. count :
               pmm_alloc_frame(f) /\ aps' = aps \cup {<<hw.cpus[next], f>>}
    <3>1. PICK f \in 1 .. count :
                 pmm_alloc_frame(f) /\ aps' = aps \cup {<<hw.cpus[next], f>>}
      BY <2>3
    <3>0. f \in 0 .. count /\ f # 0
      BY <1>0, FrameCountPositive DEF IInv, TypeOK
    <3> DEFINE id == hw.cpus[next]
               u == <<"ap", id, f>>
    <3>2. ApUses(aps') = ApUses(aps) \cup {u}
      <4> HIDE DEF id
      <4>1. aps' = aps \cup {<<id, f>>}
        BY <3>1 DEF id
      <4>2. \A a \in aps : <<"ap", a[1], a[2]>> \in { <<"ap", c[1], c[2]>> : c \in aps' }
        BY <4>1
      <4>3. u \in { <<"ap", c[1], c[2]>> : c \in aps' }
        <5>1. <<id, f>> \in aps'
          BY <4>1
        <5>2. u = <<"ap", <<id, f>>[1], <<id, f>>[2]>>
          BY DEF id
        <5> QED BY <5>1, <5>2
      <4>4. \A a \in aps' : <<"ap", a[1], a[2]>> \in { <<"ap", c[1], c[2]>> : c \in aps } \cup {u}
        BY <4>1 DEF id
      <4>5. { <<"ap", c[1], c[2]>> : c \in aps' } = { <<"ap", c[1], c[2]>> : c \in aps } \cup {u}
        BY <4>2, <4>3, <4>4
      <4>6. u[3] = f
        OBVIOUS
      <4> HIDE DEF u
      <4> QED BY <3>0, <4>5, <4>6 DEF ApUses
    <3>4. u[3] = f /\ enomem' = enomem
      BY <2>1
    <3> HIDE DEF u
    <3>5. Taken' = IF f = 0 THEN Taken ELSE Taken \cup {u}
      BY <2>1, <3>0, <3>2, TakenIs, TakenNext
    <3> QED BY <1>1, <3>0, <3>1, <3>4, <3>5
  <2> QED BY <1>3, <2>2, <2>3 DEF smp_stack
<1>4. CASE main_probe
  <2>1. UNCHANGED <<aps, pd, pt, code, stk, pte, enomem>>
    BY <1>4 DEF main_probe, proc, heap
  <2>2. ASSUME probe = 0, NEW f \in 0 .. count, pmm_alloc_frame(f), probe' = f PROVE FrameInv'
    <3> DEFINE u == <<"probe", 0, f>>
    <3>1. Fixed(f, pd, pt, code, stk) =
            Fixed(0, pd, pt, code, stk) \cup IF f = 0 THEN {} ELSE {u}
      BY DEF Fixed, One
    <3>2. u[3] = f /\ enomem' = enomem
      BY <2>1
    <3> HIDE DEF u
    <3>3. Taken' = IF f = 0 THEN Taken ELSE Taken \cup {u}
      BY <2>1, <2>2, <3>1, TakenIs, TakenNext
    <3> QED BY <1>1, <2>2, <3>2, <3>3
  <2>3. CASE pmm_free_frame(probe * FrameSize) /\ probe' = 0
    <3> DEFINE u == <<"probe", 0, probe>>
    <3>1. probe = 0 \/ u \in Taken
      BY TakenIs DEF Fixed, One
    <3>2. probe \in owned \cup {0} /\ 0 \notin owned
      BY <1>0, FramesAreNumbers
    <3>3. owned' = owned \ {probe}
      BY <1>0, <2>3, <3>2, FreedFrame
    <3>4. CASE probe = 0
      BY <1>2, <2>1, <2>3, <3>2, <3>3, <3>4 DEF space
    <3>5. CASE probe # 0
      <4>1. Fixed(probe, pd, pt, code, stk) = Fixed(0, pd, pt, code, stk) \cup {u}
            /\ u \notin Fixed(0, pd, pt, code, stk)
        BY <3>5 DEF Fixed, One
      <4>2. u \notin ApUses(aps) /\ u \notin PageUses(pte)
        BY DEF ApUses, PageUses
      <4>3. u[3] = probe
        OBVIOUS
      <4> HIDE DEF u
      <4>4. Taken' = Taken \ {u}
        BY <2>1, <2>3, <4>1, <4>2, TakenIs, TakenNext
      <4> QED BY <1>0, <2>1, <3>1, <3>3, <3>5, <4>3, <4>4 DEF FrameInv
    <3> QED BY <3>4, <3>5
  <2> QED BY <1>0, <1>4, <2>2, <2>3 DEF main_probe, Untaken, BeforeProbe
<1>5. CASE verve_proc_init_singleton
  <2>1. UNCHANGED <<aps, probe, pt, code, stk, pte, enomem>> /\ pd = 0
    BY <1>0, <1>5 DEF verve_proc_init_singleton, Untaken, BeforePd
  <2>2. PICK f \in 0 .. count : pmm_alloc_frame(f) /\ pd' = f
    BY <1>5 DEF verve_proc_init_singleton
  <2> DEFINE u == <<"pd", 0, f>>
  <2>3. Fixed(probe, f, pt, code, stk) =
          Fixed(probe, 0, pt, code, stk) \cup IF f = 0 THEN {} ELSE {u}
    BY DEF Fixed, One
  <2>4. u[3] = f /\ enomem' = enomem
    BY <2>1
  <2> HIDE DEF u
  <2>5. Taken' = IF f = 0 THEN Taken ELSE Taken \cup {u}
    BY <2>1, <2>2, <2>3, TakenIs, TakenNext
  <2> QED BY <1>1, <2>2, <2>4, <2>5
<1>6. CASE user_frames
  <2>1. UNCHANGED <<aps, probe, pd, pt, pte, enomem>>
    BY <1>6 DEF user_frames, heap
  <2>2. ASSUME code = 0, UNCHANGED stk, NEW f \in 0 .. count, pmm_alloc_frame(f), code' = f
        PROVE  FrameInv'
    <3> DEFINE u == <<"page", TextPage, f>>
    <3>1. Fixed(probe, pd, pt, f, stk) =
            Fixed(probe, pd, pt, 0, stk) \cup IF f = 0 THEN {} ELSE {u}
      BY DEF Fixed, One
    <3>2. u[3] = f /\ enomem' = enomem
      BY <2>1
    <3> HIDE DEF u
    <3>3. Taken' = IF f = 0 THEN Taken ELSE Taken \cup {u}
      BY <2>1, <2>2, <3>1, TakenIs, TakenNext
    <3> QED BY <1>1, <2>2, <3>2, <3>3
  <2>3. ASSUME stk = 0, UNCHANGED code, NEW f \in 0 .. count, pmm_alloc_frame(f), stk' = f
        PROVE  FrameInv'
    <3> DEFINE u == <<"page", StackPage, f>>
    <3>1. Fixed(probe, pd, pt, code, f) =
            Fixed(probe, pd, pt, code, 0) \cup IF f = 0 THEN {} ELSE {u}
      BY DEF Fixed, One
    <3>2. u[3] = f /\ enomem' = enomem
      BY <2>1
    <3> HIDE DEF u
    <3>3. Taken' = IF f = 0 THEN Taken ELSE Taken \cup {u}
      BY <2>1, <2>3, <3>1, TakenIs, TakenNext
    <3> QED BY <1>1, <2>3, <3>2, <3>3
  <2>4. (pc = "code" => code = 0) /\ (pc = "stack" => stk = 0)
    BY <1>0 DEF Untaken, BeforeCode, BeforeStk
  <2> QED BY <1>6, <2>2, <2>3, <2>4 DEF user_frames
<1>7. CASE map_text
  <2>1. UNCHANGED <<aps, probe, pd, code, stk, enomem>> /\ pt = 0 /\ Unmapped(TextPage)
    BY <1>0, <1>7, UserFacts DEF map_text, heap, Untaken, PteInv, BeforePt
  <2>2. PICK f \in 0 .. count : pmm_alloc_frame(f) /\ pt' = f
    BY <1>7 DEF map_text
  <2> DEFINE u == <<"pt", 0, f>>
  <2>3. Fixed(probe, pd, f, code, stk) =
          Fixed(probe, pd, 0, code, stk) \cup IF f = 0 THEN {} ELSE {u}
    BY DEF Fixed, One
  <2>4. u[3] = f /\ enomem' = enomem
    BY <2>1
  <2> HIDE DEF u
  <2>5. PageUses(pte') \cup Fixed(probe, pd, 0, code, stk) =
          PageUses(pte) \cup Fixed(probe, pd, 0, code, stk)
    <3>1. CASE f = 0
      BY <1>7, <2>2, <3>1 DEF map_text
    <3>2. CASE f # 0
      <4>1. pte' = [pte EXCEPT ![TextPage] = [frame |-> code, flags |-> RWU]]
        BY <1>7, <2>2, <3>2 DEF map_text
      <4>2. /\ PageUses(pte') = PageUses(pte) \cup One("page", TextPage, code)
            /\ One("page", TextPage, code) \subseteq Fixed(probe, pd, pt, code, stk)
        BY <1>0, <2>1, <4>1, PageOfFixed
      <4> QED BY <2>1, <4>2
    <3> QED BY <3>1, <3>2
  <2>6. Taken' = IF f = 0 THEN Taken ELSE Taken \cup {u}
    BY <2>1, <2>2, <2>3, <2>5, TakenIs, TakenNext
  <2> QED BY <1>1, <2>2, <2>4, <2>6
<1>8. CASE map_stack
  <2>1. UNCHANGED <<aps, probe, pd, code, stk, pt, enomem, owned>>
    BY <1>8 DEF map_stack, vars
  <2>2. Unmapped(StackPage)
    <3>1. pc = "map_stack"
      BY <1>8 DEF map_stack
    <3>2. StackPage \in UserPages \ {TextPage}
      BY UserFacts
    <3> QED BY <1>0, <3>1, <3>2 DEF PteInv
  <2>3. pte' = [pte EXCEPT ![StackPage] = [frame |-> stk, flags |-> RWU]]
    BY <1>8 DEF map_stack
  <2>4. PageUses(pte') \cup Fixed(probe, pd, pt, code, stk) =
          PageUses(pte) \cup Fixed(probe, pd, pt, code, stk)
    BY <1>0, <2>2, <2>3, PageOfFixed
  <2>5. Taken' = Taken
    BY <2>1, <2>4, TakenIs, TakenNext
  <2> QED BY <1>0, <2>1, <2>5, FramesKept
<1>9. CASE exec_flat_page
  <2>1. UNCHANGED <<aps, probe, pd, code, stk, pt, enomem>>
    BY <1>9 DEF exec_flat_page
  <2>2. va \in UserPages /\ (Unmapped(va) \/ (va = StackPage /\ pte[va].frame = stk))
    <3>1. pc = "extra text" /\ va < TextPage + TextPages
      BY <1>9 DEF exec_flat_page
    <3>2. /\ prog \in FlatLens /\ va \in StackPage .. TextPage + TextPages
          /\ va = StackPage => pte[StackPage].frame = stk
          /\ \A p \in UserPages : p >= va /\ p # StackPage => Unmapped(p)
      BY <1>0, <3>1 DEF LoaderInv
    <3>3. TextPages \in Nat /\ TextPage + TextPages <= CapPage
      BY <3>2, TextFits
    <3>4. va \in UserPages
      <4>1. va \in Nat /\ va >= TextPage + 1
        BY <3>2, UserFacts
      <4>2. TextPage \in Nat /\ CapPage \in Nat /\ UserPages = TextPage .. CapPage - 1
        BY UserFacts
      <4>3. va < CapPage
        <5>1. va < TextPage + TextPages
          BY <3>1
        <5>2. TextPages \in Nat /\ TextPage + TextPages <= CapPage
          BY <3>3
        <5> QED BY <4>1, <4>2, <5>1, <5>2
      <4> QED BY <4>1, <4>2, <4>3
    <3>5. va # StackPage => Unmapped(va)
      BY <3>2, <3>4, UserFacts
    <3> QED BY <3>2, <3>4, <3>5
  <2>3. PICK f \in 0 .. count :
               /\ pmm_alloc_frame(f)
               /\ IF f = 0 THEN UNCHANGED pte
                  ELSE pte' = [pte EXCEPT ![va] = [frame |-> f, flags |-> RWU]]
    BY <1>9 DEF exec_flat_page
  <2>4. CASE f = 0
    BY <1>0, <1>2, <2>1, <2>3, <2>4, Allocated DEF space
  <2>5. CASE f # 0
    BY <1>0, <2>1, <2>2, <2>3, <2>5, PageTaken
  <2> QED BY <2>4, <2>5
<1>10. CASE brk_page
  <2>1. UNCHANGED <<aps, probe, pd, code, stk, pt>>
    BY <1>10 DEF brk_page
  <2>2. va \in UserPages /\ (enomem \/ Unmapped(va))
    BY <1>0, <1>10, UserFacts DEF brk_page, BrkInv, HeapTop
  <2>3. PICK f \in 0 .. count :
               /\ pmm_alloc_frame(f)
               /\ IF f = 0 THEN enomem' = TRUE /\ UNCHANGED pte
                  ELSE /\ pte' = [pte EXCEPT ![va] = [frame |-> f, flags |-> RWU]]
                       /\ UNCHANGED enomem
    BY <1>10 DEF brk_page
  <2>4. CASE f = 0
    <3>1. Taken' = Taken
      BY <2>1, <2>3, <2>4, TakenIs, TakenNext
    <3>2. owned' = owned
      BY <1>0, <2>3, <2>4, Allocated
    <3> QED BY <1>0, <2>3, <2>4, <3>1, <3>2, FramesKept
  <2>5. CASE f # 0
    BY <1>0, <2>1, <2>2, <2>3, <2>5, PageTaken
  <2> QED BY <2>4, <2>5
<1>11. CASE UNCHANGED uvars
  BY <1>2, <1>11 DEF uvars, vars, proc, heap, space
<1> QED BY <1>2, <1>3, <1>4, <1>5, <1>6, <1>7, <1>8, <1>9, <1>10, <1>11, Others DEF Takes

-----------------------------------------------------------------------------
(***************************************************************************)
(* What the kernel touches for a call is mapped.                           *)
(***************************************************************************)
LEMMA MinOfTwo ==
  ASSUME NEW a \in Int, NEW b \in Int
  PROVE  Min({a, b}) = IF a <= b THEN a ELSE b
<1> DEFINE m == IF a <= b THEN a ELSE b
           Least(x) == \A y \in {a, b} : x <= y
<1>1. m \in {a, b} /\ Least(m)
  OBVIOUS
<1>2. \A x \in {a, b} : Least(x) => x = m
  OBVIOUS
<1>3. Min({a, b}) = CHOOSE x \in {a, b} : Least(x)
  BY DEF Min
<1> HIDE DEF m, Least
<1>4. Min({a, b}) = m
  BY <1>1, <1>2, <1>3
<1> QED BY <1>4 DEF m

\* paging_user_range_ok looks at every page of the range: its sum does not wrap
\* unless it says no.
LEMMA RangeMapped ==
  ASSUME NEW a \in 0 .. AddrSize - 1, NEW n \in 0 .. AddrSize - 1, NEW w \in BOOLEAN,
         paging_user_range_ok(a, n, w), NEW k \in 0 .. n
  PROVE  PagesAt(a, k) \subseteq Mapped
<1> SUFFICES ASSUME NEW i \in 0 .. k - 1
             PROVE  ((a + i) % AddrSize) \div FrameSize \in Mapped
  BY DEF PagesAt
<1> DEFINE A == AddrSize
           end == (a + n) % A
<1>1. A \in Nat \ {0} /\ a \in 0 .. A - 1 /\ n \in 0 .. A - 1 /\ n > 0 /\ i < n /\ i \in Nat
      /\ FrameSize \in Nat \ {0}
  <2>1. AddrSize \in Nat
    BY BootInfoAssumption
  <2> QED BY <2>1, UserFacts
<1>2. end > a /\ \A p \in a \div FrameSize .. (end - 1) \div FrameSize : PageOk(p, w)
  BY <1>1 DEF paging_user_range_ok
<1> HIDE DEF A
<1>3. end = a + n
  <2>1. CASE a + n < A
    BY <1>1, <2>1, SMTT(30)
  <2>2. CASE a + n >= A
    <3>1. a + n - A \in 0 .. A - 1 /\ a + n = (a + n - A) + A
      BY <1>1, <2>2
    <3>2. end = a + n - A
      BY <1>1, <3>1, SMTT(30)
    <3> QED BY <1>1, <1>2, <3>2
  <2> QED BY <1>1, <2>1, <2>2
<1>4. (a + i) % A = a + i
  <2>1. end < A
    BY <1>1, SMTT(30)
  <2>2. a + i \in 0 .. A - 1
    <3> HIDE DEF end
    <3> QED BY <1>1, <1>3, <2>1
  <2> QED BY <1>1, <2>2, SMTT(30)
<1> HIDE DEF end
<1>5. (a + i) \div FrameSize \in a \div FrameSize .. (end - 1) \div FrameSize
  <2>1. a <= a + i /\ a + i <= end - 1 /\ a \in Nat /\ a + i \in Nat /\ end - 1 \in Nat
    BY <1>1, <1>3
  <2>2. \A x, y \in Nat : x <= y => x \div FrameSize <= y \div FrameSize /\ x \div FrameSize \in Int
    BY <1>1, SMTT(30)
  <2>3. (end - 1) \div FrameSize \in Int
    BY <1>1, <2>1
  <2> QED BY <2>1, <2>2, <2>3
<1> QED BY <1>2, <1>4, <1>5 DEF PageOk, Mapped, A

\* The path of an open, which is looked at byte by byte.
LEMMA PathMapped ==
  ASSUME NEW a \in 0 .. AddrSize - 1, NEW n \in 0 .. AddrSize - 1, copy_user_path(a, n)
  PROVE  PagesAt(a, n) \subseteq Mapped
<1> SUFFICES ASSUME NEW i \in 0 .. n - 1
             PROVE  ((a + i) % AddrSize) \div FrameSize \in Mapped
  BY DEF PagesAt
<1> DEFINE b == (a + i) % AddrSize
<1>1. AddrSize \in Nat /\ AddrSize > 1 /\ a + i \in Nat
  <2>1. AddrSize \in Nat
    BY BootInfoAssumption
  <2> QED BY <2>1
<1>2. b \in 0 .. AddrSize - 1 /\ (b + 0) % AddrSize = b
  BY <1>1, SMTT(30)
<1>3. paging_user_range_ok(b, 1, FALSE)
  BY DEF copy_user_path
<1> HIDE DEF b
<1>4. 1 \in 0 .. AddrSize - 1 /\ 1 \in 0 .. 1 /\ FALSE \in BOOLEAN
  BY <1>1
<1>5. PagesAt(b, 1) \subseteq Mapped
  BY <1>2, <1>3, <1>4, RangeMapped
<1>6. 0 \in 0 .. 1 - 1
  OBVIOUS
<1>7. ((b + 0) % AddrSize) \div FrameSize \in PagesAt(b, 1)
  BY <1>6 DEF PagesAt
<1> QED BY <1>2, <1>5, <1>7 DEF b

\* A read touches no more than was asked for.
LEMMA WantIs ==
  ASSUME FileInv, NEW s \in UfdSlots, NEW n \in Nat
  PROVE  /\ Want(s, n) \in Nat /\ Want(s, n) <= n
         /\ ufd[s].pos \in Nat /\ FileLen[ufd[s].file] \in Nat
         /\ ufd[s].pos + Want(s, n) <= FileLen[ufd[s].file]
<1> DEFINE size == FileLen[ufd[s].file]
           pos == ufd[s].pos
<1>1. size \in Nat /\ pos \in Nat /\ pos <= size
  BY UserFacts DEF FileInv
<1>2. Want(s, n) = Min({size - pos, n})
  BY DEF Want
<1> HIDE DEF size, pos
<1>3. Want(s, n) = IF size - pos <= n THEN size - pos ELSE n
  BY <1>1, <1>2, MinOfTwo
<1> QED BY <1>1, <1>3 DEF size, pos

-----------------------------------------------------------------------------
(***************************************************************************)
(* The pages that the loader and brk map.                                  *)
(***************************************************************************)
PageInv == PteInv /\ LoaderInv /\ BrkInv /\ CopyInBounds

LEMMA EntryWritten ==
  ASSUME PteInv, CopyInBounds, NEW p \in UserPages, NEW f \in Nat, touched' = touched,
         pte' = [pte EXCEPT ![p] = [frame |-> f, flags |-> RWU]]
  PROVE  /\ pte' \in [UserPages -> [frame : Nat, flags : {{}, RWU}]]
         /\ pte'[p].flags = RWU /\ pte'[p].frame = f
         /\ \A q \in UserPages \ {p} : pte'[q] = pte[q]
         /\ CopyInBounds'
<1>1. pte \in [UserPages -> [frame : Nat, flags : {{}, RWU}]]
  BY DEF PteInv
<1>2. /\ pte' \in [UserPages -> [frame : Nat, flags : {{}, RWU}]]
      /\ pte'[p] = [frame |-> f, flags |-> RWU]
      /\ \A q \in UserPages \ {p} : pte'[q] = pte[q]
  BY <1>1
<1>3. "present" \in RWU
  BY DEF RWU
<1>4. Mapped \subseteq Mapped'
  BY <1>2, <1>3 DEF Mapped
<1> QED BY <1>2, <1>4 DEF CopyInBounds

LEMMA BootPages ==
  ASSUME PageInv, pc \in BeforePd, pc' \in BeforePd \cup {"halted"}, UNCHANGED <<pte, touched>>
  PROVE  PageInv'
<1>1. /\ pc \in BeforePt /\ pc' \in BeforePt \cup {"halted"}
      /\ pc' \notin {"code", "stack", "text", "map_stack", "extra text", "flat", "user", "brk"}
  BY DEF BeforePt, BeforeStk, BeforeCode, BeforePd, BeforeProbe
<1>2. CopyInBounds'
  BY DEF PageInv, CopyInBounds, Mapped
<1> QED BY <1>1, <1>2 DEF PageInv, PteInv, LoaderInv, BrkInv, Unmapped

\* The frames and the first two pages of the process.
LEMMA BringUpPages ==
  ASSUME UserInv, PageInv,
         verve_proc_init_singleton \/ user_frames \/ map_text \/ map_stack
  PROVE  PageInv'
<1> USE DEF BeforePt, BeforeStk, BeforeCode, BeforePd, BeforeProbe
<1>1. CASE verve_proc_init_singleton
  <2>1. /\ pc = "clone" /\ pc' \in {"code", "halted"} /\ brk' = HeapPage
        /\ prog' \in FlatLens \cup {0} /\ UNCHANGED <<pte, touched>>
    BY <1>1 DEF verve_proc_init_singleton, files
  <2>2. CopyInBounds'
    BY <2>1 DEF PageInv, CopyInBounds, Mapped
  <2> QED BY <2>1, <2>2 DEF PageInv, PteInv, LoaderInv, BrkInv, Unmapped
<1>2. CASE user_frames
  <2>1. /\ pc \in {"code", "stack"} /\ pc' \in {"stack", "text", "halted"}
        /\ UNCHANGED <<pte, brk, prog, touched>>
    BY <1>2 DEF user_frames, heap, files
  <2>2. CopyInBounds'
    BY <2>1 DEF PageInv, CopyInBounds, Mapped
  <2> QED BY <2>1, <2>2 DEF PageInv, PteInv, LoaderInv, BrkInv, Unmapped
<1>3. CASE map_text
  <2>1. pc = "text" /\ UNCHANGED <<brk, prog, touched>>
    BY <1>3 DEF map_text, heap, files
  <2>2. CASE pc' = "halted" /\ UNCHANGED pte
    <3>1. CopyInBounds'
      BY <2>1, <2>2 DEF PageInv, CopyInBounds, Mapped
    <3> QED BY <2>2, <3>1 DEF PageInv, PteInv, LoaderInv, BrkInv
  <2>3. CASE /\ pte' = [pte EXCEPT ![TextPage] = [frame |-> code, flags |-> RWU]]
             /\ pc' = "map_stack"
    <3>1. TextPage \in UserPages /\ code \in Nat
      BY FramesAreNumbers, UserFacts DEF UserInv
    <3>2. /\ pte' \in [UserPages -> [frame : Nat, flags : {{}, RWU}]]
          /\ pte'[TextPage].flags = RWU
          /\ \A q \in UserPages \ {TextPage} : pte'[q] = pte[q]
          /\ CopyInBounds'
      BY <2>1, <2>3, <3>1, EntryWritten DEF PageInv
    <3> QED BY <2>1, <2>3, <3>2 DEF PageInv, PteInv, LoaderInv, BrkInv, Unmapped, MappedRWU
  <2> QED BY <1>3, <2>2, <2>3 DEF map_text
<1>4. CASE map_stack
  <2>1. /\ pc = "map_stack" /\ UNCHANGED <<brk, prog, touched, stk>>
        /\ pte' = [pte EXCEPT ![StackPage] = [frame |-> stk, flags |-> RWU]]
    BY <1>4 DEF map_stack, files
  <2>2. StackPage \in UserPages /\ stk \in Nat
    BY FramesAreNumbers, UserFacts DEF UserInv
  <2>3. /\ pte' \in [UserPages -> [frame : Nat, flags : {{}, RWU}]]
        /\ pte'[StackPage].flags = RWU /\ pte'[StackPage].frame = stk
        /\ \A q \in UserPages \ {StackPage} : pte'[q] = pte[q]
        /\ CopyInBounds'
    BY <2>1, <2>2, EntryWritten DEF PageInv
  <2>4. /\ \A q \in UserPages \ {TextPage, StackPage} : pte'[q].flags = {}
        /\ pte'[TextPage].flags = RWU
        /\ brk = HeapPage /\ prog \in FlatLens \cup {0}
    <3>1. /\ \A q \in UserPages \ {TextPage} : pte[q].flags = {}
          /\ pte[TextPage].flags = RWU
          /\ brk = HeapPage /\ prog \in FlatLens \cup {0}
      BY <2>1, UserFacts DEF PageInv, PteInv, LoaderInv, Unmapped, MappedRWU
    <3>2. TextPage # StackPage /\ TextPage \in UserPages
      BY UserFacts
    <3> QED BY <2>3, <3>1, <3>2
  <2>5. CASE prog = 0 /\ pc' = "user"
    <3>1. BrkInv'
      BY <2>1, <2>4, <2>5, UserFacts DEF BrkInv, HeapTop, Unmapped, MappedRWU
    <3> QED BY <2>3, <2>5, <3>1 DEF PageInv, PteInv, LoaderInv
  <2>6. CASE prog # 0 /\ pc' = "extra text" /\ va' = TextPage + 1
    <3>1. prog \in FlatLens /\ TextPages \in Nat /\ TextPages >= 1
      BY <2>4, <2>6, TextFits
    <3>2. va' = StackPage /\ StackPage \in Nat /\ StackPage = TextPage + 1 /\ TextPage \in Nat
      <4>1. va' = TextPage + 1
        BY <2>6
      <4>2. StackPage \in Nat /\ StackPage = TextPage + 1 /\ TextPage \in Nat
        BY UserFacts
      <4> QED BY <4>1, <4>2
    <3>3. TextPages' = TextPages
      BY <2>1 DEF TextPages
    <3>4. va' \in StackPage .. TextPage + TextPages
      BY <3>1, <3>2
    <3>5. \A p \in {StackPage} \cup (TextPage .. va' - 1) : pte'[p].flags = RWU
      <4>1. \A p \in TextPage .. va' - 1 : p = TextPage
        BY <3>2
      <4> QED BY <2>3, <2>4, <4>1
    <3>6. \A p \in UserPages : p >= va' /\ p # StackPage => pte'[p].flags = {}
      <4>1. ~ (TextPage >= va')
        BY <3>2
      <4> QED BY <2>4, <4>1
    <3>7. prog' \in FlatLens /\ stk' = stk
      BY <2>1, <3>1
    <3>8. LoaderInv'
      BY <2>3, <2>6, <3>3, <3>4, <3>5, <3>6, <3>7 DEF LoaderInv, Unmapped, MappedRWU
    <3> QED BY <2>3, <2>6, <3>8 DEF PageInv, PteInv, BrkInv
  <2> QED BY <1>4, <2>5, <2>6 DEF map_stack
<1> QED BY <1>1, <1>2, <1>3, <1>4

\* The further pages of a flat program, and its bytes.
LEMMA LoaderPages ==
  ASSUME UserInv, PageInv, exec_flat_page \/ exec_flat_copy
  PROVE  PageInv'
<1>1. pc = "extra text" /\ UNCHANGED <<brk, prog, stk>>
  BY DEF exec_flat_page, exec_flat_copy, proc, heap
<1>2. /\ prog \in FlatLens /\ va \in StackPage .. TextPage + TextPages
      /\ \A p \in {StackPage} \cup (TextPage .. va - 1) : MappedRWU(p)
      /\ \A p \in UserPages : p >= va /\ p # StackPage => Unmapped(p)
      /\ va = StackPage => pte[StackPage].frame = stk
  BY <1>1 DEF PageInv, LoaderInv
<1>3. /\ TextPages \in Nat /\ TextPage + TextPages <= CapPage
      /\ TextPage \in Nat /\ StackPage = TextPage + 1 /\ CapPage \in Nat
      /\ UserPages = TextPage .. CapPage - 1
  BY <1>2, TextFits, UserFacts
<1>4. TextPages' = TextPages
  BY <1>1 DEF TextPages
<1>5. pte \in [UserPages -> [frame : Nat, flags : {{}, RWU}]]
  BY DEF PageInv, PteInv
<1>6. ASSUME pc' = "halted", UNCHANGED <<pte, touched>> PROVE PageInv'
  <2>1. CopyInBounds'
    BY <1>6 DEF PageInv, CopyInBounds, Mapped
  <2> QED BY <1>5, <1>6, <2>1
       DEF PageInv, PteInv, LoaderInv, BrkInv, BeforePt, BeforeStk, BeforeCode, BeforePd, BeforeProbe
<1>7. ASSUME va < TextPage + TextPages, NEW f \in Nat,
             pte' = [pte EXCEPT ![va] = [frame |-> f, flags |-> RWU]],
             va' = va + 1, UNCHANGED <<pc, touched>>
      PROVE  PageInv'
  <2>1. va \in UserPages /\ va \in Nat /\ va >= TextPage + 1
    BY <1>2, <1>3, <1>7
  <2>2. /\ pte' \in [UserPages -> [frame : Nat, flags : {{}, RWU}]]
        /\ pte'[va].flags = RWU
        /\ \A q \in UserPages \ {va} : pte'[q] = pte[q]
        /\ CopyInBounds'
    BY <1>7, <2>1, EntryWritten DEF PageInv
  <2>3. va' \in StackPage .. TextPage + TextPages /\ va' # StackPage
    BY <1>2, <1>3, <1>7, <2>1
  <2>4. \A p \in {StackPage} \cup (TextPage .. va' - 1) : p \in UserPages /\ pte'[p].flags = RWU
    <3>1. \A p \in TextPage .. va' - 1 : p = va \/ p \in TextPage .. va - 1
      BY <1>3, <1>7, <2>1
    <3>2. StackPage \in UserPages /\ \A p \in TextPage .. va - 1 : p \in UserPages
      BY <1>2, <1>3, <1>7, <2>1, UserFacts
    <3> QED BY <1>2, <2>1, <2>2, <3>1, <3>2 DEF MappedRWU
  <2>5. \A p \in UserPages : p >= va' /\ p # StackPage => pte'[p].flags = {}
    <3>1. \A p \in UserPages : p >= va' => p >= va /\ p # va
      BY <1>3, <1>7, <2>1
    <3> QED BY <1>2, <2>2, <3>1 DEF Unmapped
  <2>6. LoaderInv'
    BY <1>1, <1>2, <1>4, <1>7, <2>3, <2>4, <2>5 DEF LoaderInv, Unmapped, MappedRWU
  <2> QED BY <1>1, <1>7, <2>2, <2>6
       DEF PageInv, PteInv, BrkInv, BeforePt, BeforeStk, BeforeCode, BeforePd, BeforeProbe
<1>8. CASE exec_flat_page
  <2>1. va < TextPage + TextPages /\ UNCHANGED touched
    BY <1>8 DEF exec_flat_page, files
  <2>2. PICK f \in 0 .. count :
               /\ pmm_alloc_frame(f)
               /\ \/ pc' = "halted" /\ UNCHANGED pte
                  \/ /\ pte' = [pte EXCEPT ![va] = [frame |-> f, flags |-> RWU]]
                     /\ va' = va + 1 /\ UNCHANGED pc
    BY <1>8 DEF exec_flat_page
  <2>3. f \in Nat
    BY <2>2, Allocated DEF UserInv
  <2> QED BY <1>6, <1>7, <2>1, <2>2, <2>3
<1>9. CASE exec_flat_copy
  <2>1. /\ va >= TextPage + TextPages /\ touched' = TextPage .. TextPage + TextPages - 1
        /\ pc' = "flat" /\ UNCHANGED <<pte, va>>
    BY <1>9 DEF exec_flat_copy, proc, heap
  <2>2. \A p \in TextPage .. TextPage + TextPages - 1 : p \in UserPages /\ p \in TextPage .. va - 1
    BY <1>2, <1>3, <2>1
  <2>3. CopyInBounds'
    <3>1. "present" \in RWU
      BY DEF RWU
    <3> QED BY <1>2, <2>1, <2>2, <3>1 DEF CopyInBounds, Mapped, MappedRWU
  <2>4. LoaderInv'
    BY <1>1, <1>2, <1>4, <2>1 DEF LoaderInv, Unmapped, MappedRWU
  <2> QED BY <1>5, <2>1, <2>3, <2>4
       DEF PageInv, PteInv, BrkInv, BeforePt, BeforeStk, BeforeCode, BeforePd, BeforeProbe
<1> QED BY <1>8, <1>9

\* The heap.
LEMMA BrkPages ==
  ASSUME UserInv, PageInv, (\E page \in UserPages : sys_brk(page)) \/ brk_page \/ brk_done
  PROVE  PageInv'
<1>1. /\ pc \in {"user", "brk"} /\ pc' \in {"user", "brk"} /\ UNCHANGED touched
      /\ pc = "user" => \E page \in UserPages : sys_brk(page)
  BY DEF sys_brk, brk_page, brk_done, files
<1>2. /\ brk \in HeapPage .. CapPage - 1
      /\ \A p \in HeapPage .. HeapTop - 1 : pte[p].flags = RWU
      /\ ~ enomem => \A p \in HeapTop .. CapPage - 1 : pte[p].flags = {}
      /\ pc = "brk" => goal \in HeapPage .. CapPage - 1 /\ va \in brk .. goal
  BY <1>1 DEF PageInv, BrkInv, Unmapped, MappedRWU
<1>3. pte \in [UserPages -> [frame : Nat, flags : {{}, RWU}]]
  BY DEF PageInv, PteInv
<1>4. /\ TextPage \in Nat /\ HeapPage = TextPage + 2 /\ HeapPage \in Nat /\ CapPage \in Nat
      /\ UserPages = TextPage .. CapPage - 1
  BY UserFacts
\* What the invariant says of a state in which a call runs or none does.
<1>5. ASSUME NEW top, top = HeapTop', pte' \in [UserPages -> [frame : Nat, flags : {{}, RWU}]],
             CopyInBounds', brk' \in HeapPage .. CapPage - 1,
             \A p \in HeapPage .. top - 1 : pte'[p].flags = RWU,
             ~ enomem' => \A p \in top .. CapPage - 1 : pte'[p].flags = {},
             pc' = "brk" => goal' \in HeapPage .. CapPage - 1 /\ va' \in brk' .. goal'
      PROVE  PageInv'
  <2>1. BrkInv'
    BY <1>5 DEF BrkInv, Unmapped, MappedRWU
  <2>2. pc' \notin BeforePt \cup {"map_stack", "extra text", "flat", "code", "stack", "text"}
    BY <1>1 DEF BeforePt, BeforeStk, BeforeCode, BeforePd, BeforeProbe
  <2> QED BY <1>5, <2>1, <2>2 DEF PageInv, PteInv, LoaderInv
<1>6. ASSUME UNCHANGED pte PROVE CopyInBounds'
  BY <1>1, <1>6 DEF PageInv, CopyInBounds, Mapped
<1>7. ASSUME NEW page \in UserPages, sys_brk(page) PROVE PageInv'
  <2>1. /\ pc = "user" /\ pc' = "brk" /\ va' = brk /\ goal' = page
        /\ UNCHANGED <<pte, brk, enomem>>
    BY <1>7 DEF sys_brk, proc
  <2>2. HeapPage <= page /\ page < CapPage /\ page > brk
    BY <1>7 DEF sys_brk
  <2>3. HeapTop = brk /\ HeapTop' = brk
    BY <2>1 DEF HeapTop
  <2>4. goal' \in HeapPage .. CapPage - 1 /\ va' \in brk' .. goal' /\ brk' \in HeapPage .. CapPage - 1
    <3>1. page \in HeapPage .. CapPage - 1 /\ brk \in brk .. page
      BY <1>2, <1>4, <2>2
    <3> QED BY <1>2, <2>1, <3>1
  <2>5. CopyInBounds'
    BY <1>6, <2>1
  <2> QED BY <1>2, <1>3, <1>5, <2>1, <2>3, <2>4, <2>5
<1>8. CASE brk_done
  <2>1. pc = "brk" /\ va = goal /\ brk' = goal /\ pc' = "user" /\ UNCHANGED <<pte, enomem>>
    BY <1>8 DEF brk_done, proc
  <2>2. HeapTop = goal /\ HeapTop' = goal
    BY <2>1 DEF HeapTop
  <2>3. CopyInBounds'
    BY <1>6, <2>1
  <2> QED BY <1>2, <1>3, <1>5, <2>1, <2>2, <2>3
<1>9. CASE brk_page
  <2>1. pc = "brk" /\ va < goal /\ UNCHANGED <<brk, goal>>
    BY <1>9 DEF brk_page
  <2>2. HeapTop = va /\ va \in brk .. goal /\ goal \in HeapPage .. CapPage - 1
    BY <1>2, <2>1 DEF HeapTop
  <2>3. va \in UserPages /\ va \in HeapPage .. CapPage - 1
    BY <1>2, <1>4, <2>1, <2>2
  <2>4. PICK f \in 0 .. count :
               /\ pmm_alloc_frame(f)
               /\ IF f = 0
                  THEN /\ enomem' = TRUE /\ pc' = "user"
                       /\ UNCHANGED <<pte, va>>
                  ELSE /\ pte' = [pte EXCEPT ![va] = [frame |-> f, flags |-> RWU]]
                       /\ va' = va + 1
                       /\ UNCHANGED <<enomem, pc>>
    BY <1>9 DEF brk_page
  <2>5. CASE f = 0
    <3>1. HeapTop' = brk /\ enomem' = TRUE /\ pte' = pte /\ pc' = "user"
      BY <2>1, <2>4, <2>5 DEF HeapTop
    <3>2. \A p \in HeapPage .. brk - 1 : p \in HeapPage .. HeapTop - 1
      BY <1>2, <1>4, <2>2
    <3>3. CopyInBounds'
      BY <1>6, <3>1
    <3> QED BY <1>2, <1>3, <1>5, <2>1, <3>1, <3>2, <3>3
  <2>6. CASE f # 0
    <3>1. /\ pte' = [pte EXCEPT ![va] = [frame |-> f, flags |-> RWU]]
          /\ va' = va + 1 /\ UNCHANGED <<enomem, pc>>
      BY <2>4, <2>6
    <3>2. f \in Nat
      BY <2>4, Allocated DEF UserInv
    <3>3. /\ pte' \in [UserPages -> [frame : Nat, flags : {{}, RWU}]]
          /\ pte'[va].flags = RWU
          /\ \A q \in UserPages \ {va} : pte'[q] = pte[q]
          /\ CopyInBounds'
      BY <1>1, <2>3, <3>1, <3>2, EntryWritten DEF PageInv
    <3>4. HeapTop' = va + 1
      BY <2>1, <3>1 DEF HeapTop
    <3>5. \A p \in HeapPage .. (va + 1) - 1 : pte'[p].flags = RWU
      <4>1. \A p \in HeapPage .. (va + 1) - 1 :
              p = va \/ (p \in HeapPage .. va - 1 /\ p \in UserPages \ {va})
        BY <1>4, <2>3
      <4> QED BY <1>2, <2>2, <3>3, <4>1
    <3>6. ~ enomem' => \A p \in va + 1 .. CapPage - 1 : pte'[p].flags = {}
      <4>1. \A p \in va + 1 .. CapPage - 1 : p \in va .. CapPage - 1 /\ p \in UserPages \ {va}
        BY <1>4, <2>3
      <4> QED BY <1>2, <2>2, <3>1, <3>3, <4>1
    <3>7. goal' \in HeapPage .. CapPage - 1 /\ va' \in brk' .. goal'
      <4>1. va' \in brk .. goal
        BY <1>2, <1>4, <2>1, <2>2, <3>1
      <4> QED BY <2>1, <2>2, <4>1
    <3>8. brk' \in HeapPage .. CapPage - 1
      BY <1>2, <2>1
    <3> QED BY <1>5, <3>3, <3>4, <3>5, <3>6, <3>7, <3>8
  <2> QED BY <2>5, <2>6
<1> QED BY <1>7, <1>8, <1>9

\* The other calls change no entry; what they touch was looked at.
LEMMA CallPages ==
  ASSUME UserInv, PageInv, syscall_invoke
  PROVE  PageInv'
<1>1. ASSUME UNCHANGED <<pc, va, brk, goal, prog, stk, enomem, pte>>, touched' \subseteq Mapped
      PROVE  PageInv'
  <2>1. CopyInBounds'
    BY <1>1 DEF CopyInBounds, Mapped
  <2>2. TextPages' = TextPages /\ HeapTop' = HeapTop
    BY <1>1 DEF TextPages, HeapTop
  <2> QED BY <1>1, <2>1, <2>2 DEF PageInv, PteInv, LoaderInv, BrkInv, Unmapped, MappedRWU
<1>2. touched \subseteq Mapped /\ FileInv
  BY DEF PageInv, CopyInBounds, UserInv
<1>3. ASSUME NEW a \in Pointers, NEW n \in Lengths
      PROVE  a \in 0 .. AddrSize - 1 /\ n \in 0 .. AddrSize - 1 /\ n \in Nat
  BY UserSpaceAssumption
<1>4. ASSUME NEW a \in Pointers, NEW n \in Lengths, sys_write(a, n) PROVE PageInv'
  <2>1. n \in 0 .. n /\ FALSE \in BOOLEAN
    BY <1>3
  <2>2. PagesAt(a, n) \subseteq Mapped
    BY <1>3, <1>4, <2>1, RangeMapped DEF sys_write
  <2> QED BY <1>1, <1>4, <2>2 DEF sys_write, proc, heap
<1>5. ASSUME NEW a \in Pointers, NEW n \in Lengths, NEW file \in Files, verve_vfs_open_u(a, n, file)
      PROVE  PageInv'
  <2>1. PagesAt(a, n) \subseteq Mapped
    BY <1>3, <1>5, PathMapped DEF verve_vfs_open_u
  <2> QED BY <1>1, <1>5, <2>1 DEF verve_vfs_open_u, proc, heap
<1>6. ASSUME NEW a \in Pointers, NEW len \in Lengths, NEW s \in UfdSlots, verve_vfs_read_u(s, a, len)
      PROVE  PageInv'
  <2> DEFINE n == Min({len, ReadMax})
  <2>1. n \in 0 .. AddrSize - 1 /\ n \in Nat
    <3>1. len \in 0 .. AddrSize - 1 /\ len \in Int /\ ReadMax \in Nat /\ ReadMax \in Int
          /\ AddrSize \in Nat
      BY <1>3, UserFacts, BootInfoAssumption
    <3>2. n = IF len <= ReadMax THEN len ELSE ReadMax
      BY <3>1, MinOfTwo
    <3> HIDE DEF n
    <3> QED BY <3>1, <3>2
  <2>2. paging_user_range_ok(a, n, TRUE) /\ touched' = PagesAt(a, Want(s, n))
        /\ UNCHANGED <<pc, va, brk, goal, prog, stk, enomem, pte>>
    BY <1>6 DEF verve_vfs_read_u, proc, heap
  <2> HIDE DEF n
  <2>3. Want(s, n) \in Nat /\ Want(s, n) <= n
    BY <1>2, <2>1, WantIs
  <2>4. Want(s, n) \in 0 .. n
    BY <2>1, <2>3
  <2>5. PagesAt(a, Want(s, n)) \subseteq Mapped
    BY <1>3, <2>1, <2>2, <2>4, RangeMapped
  <2> QED BY <1>1, <2>2, <2>5
<1>7. ASSUME NEW s \in UfdSlots, verve_vfs_close_u(s) PROVE PageInv'
  BY <1>1, <1>2, <1>7 DEF verve_vfs_close_u, proc, heap
<1>8. CASE sys_exit
  <2>1. pc' = "halted" /\ UNCHANGED <<pte, touched>>
    BY <1>8 DEF sys_exit, proc, files
  <2>2. CopyInBounds'
    BY <1>2, <2>1 DEF CopyInBounds, Mapped
  <2> QED BY <2>1, <2>2
       DEF PageInv, PteInv, LoaderInv, BrkInv, BeforePt, BeforeStk, BeforeCode, BeforePd, BeforeProbe
<1>9. ASSUME NEW page \in UserPages, sys_brk(page) PROVE PageInv'
  BY <1>9, BrkPages
<1> QED BY <1>4, <1>5, <1>6, <1>7, <1>8, <1>9 DEF syscall_invoke

LEMMA PageStep ==
  ASSUME UserInv, [UNext]_uvars
  PROVE  PageInv'
<1>0. PageInv
  BY DEF UserInv, PageInv
<1>1. CASE main_memory \/ verve_vfs_selftest \/ main_paging \/ main_acpi \/ lapic_bsp_early_init
           \/ main_number_cpus \/ ioapic_init_from_acpi \/ smp_install_trampoline
           \/ smp_stack \/ smp_start_ap \/ smp_done \/ main_probe
  <2>1. /\ UNCHANGED <<pte, touched>>
        /\ pc \in BeforePd /\ pc' \in BeforePd \cup {"halted"}
    BY <1>1 DEF main_memory, verve_vfs_selftest, main_paging, main_acpi, lapic_bsp_early_init,
      main_number_cpus, ioapic_init_from_acpi, smp_install_trampoline, smp_stack, smp_start_ap,
      smp_done, main_probe, proc, files, BeforePd, BeforeProbe
  <2> QED BY <1>0, <2>1, BootPages
<1>2. CASE verve_user_bringup_smoke
  BY <1>0, <1>2, BringUpPages DEF verve_user_bringup_smoke
<1>3. CASE exec_flat_page \/ exec_flat_copy
  BY <1>0, <1>3, LoaderPages
<1>4. CASE syscall_invoke
  BY <1>0, <1>4, CallPages
<1>5. CASE brk_page \/ brk_done
  BY <1>0, <1>5, BrkPages
<1>6. CASE UNCHANGED uvars
  <2>1. UNCHANGED <<pc, va, brk, goal, prog, stk, enomem, pte, touched>>
    BY <1>6 DEF uvars, proc, heap, files
  <2>2. TextPages' = TextPages /\ HeapTop' = HeapTop /\ Mapped' = Mapped
    BY <2>1 DEF TextPages, HeapTop, Mapped
  <2> QED BY <1>0, <2>1, <2>2
       DEF PageInv, PteInv, LoaderInv, BrkInv, CopyInBounds, Unmapped, MappedRWU
<1> QED BY <1>1, <1>2, <1>3, <1>4, <1>5, <1>6 DEF UNext, verve_exec_flat_run

-----------------------------------------------------------------------------
(***************************************************************************)
(* Descriptors.                                                            *)
(***************************************************************************)
SlotInv(s) ==
  /\ ufd[s].pos <= FileLen[ufd[s].file]
  /\ ufd[s].used => /\ Len(delivered[s]) = ufd[s].pos
                    /\ \A i \in DOMAIN delivered[s] : delivered[s][i] = i - 1

\* A step that changes one descriptor.
LEMMA SlotChanged ==
  ASSUME FileInv, NEW s \in UfdSlots, NEW r \in [used : BOOLEAN, file : Files, pos : Nat],
         NEW d \in Seq(Nat),
         ufd' = [ufd EXCEPT ![s] = r], delivered' = [delivered EXCEPT ![s] = d],
         r.pos <= FileLen[r.file],
         r.used => Len(d) = r.pos /\ \A i \in 1 .. Len(d) : d[i] = i - 1,
         pc' \notin {"start", "vfs"}
  PROVE  FileInv'
<1>1. /\ ufd \in [UfdSlots -> [used : BOOLEAN, file : Files, pos : Nat]]
      /\ delivered \in [UfdSlots -> Seq(Nat)]
      /\ \A t \in UfdSlots : SlotInv(t)
  BY DEF FileInv, SlotInv
<1>2. /\ ufd' \in [UfdSlots -> [used : BOOLEAN, file : Files, pos : Nat]]
      /\ delivered' \in [UfdSlots -> Seq(Nat)]
      /\ ufd'[s] = r /\ delivered'[s] = d
      /\ \A t \in UfdSlots \ {s} : ufd'[t] = ufd[t] /\ delivered'[t] = delivered[t]
  BY <1>1
<1>3. DOMAIN d = 1 .. Len(d)
  OBVIOUS
<1>4. SlotInv(s)'
  BY <1>2, <1>3 DEF SlotInv
<1>5. \A t \in UfdSlots \ {s} : SlotInv(t)'
  BY <1>1, <1>2 DEF SlotInv
<1> QED BY <1>2, <1>4, <1>5 DEF FileInv, SlotInv

LEMMA FilesKept ==
  ASSUME FileInv, UNCHANGED <<ufd, delivered>>, pc' \in {"start", "vfs"} => pc \in {"start", "vfs"}
  PROVE  FileInv'
BY DEF FileInv

\* A slot that is taken is free.
LEMMA FirstFree ==
  ASSUME UfdFree # {}
  PROVE  Min(UfdFree) \in UfdFree
<1>1. UfdFree \in SUBSET Nat
  BY UserFacts DEF UfdFree, UfdSlots
<1>2. \E x \in UfdFree : \A y \in UfdFree : x <= y
  BY <1>1, Smallest
<1> QED BY <1>2 DEF Min

LEMMA FileOpened ==
  ASSUME FileInv, UfdFree # {}, NEW file \in Files, ufd_alloc(file), pc' \notin {"start", "vfs"}
  PROVE  FileInv'
<1> DEFINE s == Min(UfdFree)
           r == [used |-> TRUE, file |-> file, pos |-> 0]
<1>1. s \in UfdSlots
  BY FirstFree DEF UfdFree
<1>2. r \in [used : BOOLEAN, file : Files, pos : Nat] /\ r.pos = 0 /\ r.file = file
  OBVIOUS
<1>3. << >> \in Seq(Nat) /\ Len(<< >>) = 0 /\ \A i \in 1 .. Len(<< >>) : << >>[i] = i - 1
  OBVIOUS
<1>4. ufd' = [ufd EXCEPT ![s] = r] /\ delivered' = [delivered EXCEPT ![s] = << >>]
  BY DEF ufd_alloc
<1>5. r.pos <= FileLen[r.file]
  <2>1. FileLen[file] \in Nat
    BY UserFacts
  <2> QED BY <1>2, <2>1
<1> HIDE DEF s, r
<1> QED BY <1>1, <1>2, <1>3, <1>4, <1>5, SlotChanged

LEMMA FileRead ==
  ASSUME FileInv, NEW s \in UfdSlots, ufd[s].used, NEW n \in Nat, advance(s, n),
         pc' \notin {"start", "vfs"}
  PROVE  FileInv'
<1> DEFINE w == Want(s, n)
           at == ufd[s].pos
           old == delivered[s]
           more == [i \in 1 .. w |-> at + i - 1]
           d == old \o more
           r == [ufd[s] EXCEPT !.pos = @ + w]
<1>1. /\ w \in Nat /\ at \in Nat
      /\ at + w <= FileLen[ufd[s].file]
  BY WantIs
<1>2. /\ ufd \in [UfdSlots -> [used : BOOLEAN, file : Files, pos : Nat]]
      /\ old \in Seq(Nat) /\ Len(old) = at
      /\ \A i \in DOMAIN old : old[i] = i - 1
  BY DEF FileInv
<1>3. ufd' = [ufd EXCEPT ![s] = r] /\ delivered' = [delivered EXCEPT ![s] = d]
  BY <1>2 DEF advance, FileInv
<1>4. /\ r \in [used : BOOLEAN, file : Files, pos : Nat]
      /\ r.pos = at + w /\ r.file = ufd[s].file
  <2>1. ufd[s] \in [used : BOOLEAN, file : Files, pos : Nat]
    BY <1>2
  <2>2. r = [ufd[s] EXCEPT !.pos = at + w] /\ at + w \in Nat
    BY <1>1
  <2> HIDE DEF w, at, r
  <2> QED BY <2>1, <2>2
<1> HIDE DEF w, at, old
<1>5. more \in Seq(Nat) /\ Len(more) = w /\ \A i \in 1 .. w : more[i] = at + i - 1
  <2>1. more \in [1 .. w -> Nat]
    BY <1>1
  <2>2. more \in Seq(Nat)
    BY <1>1, <2>1, SeqDef
  <2>3. \A i \in 1 .. w : more[i] = at + i - 1
    OBVIOUS
  <2>4. Len(more) = w
    BY <1>1, <2>1, <2>2, LenProperties
  <2> QED BY <2>2, <2>3, <2>4
<1> HIDE DEF more, r
<1>6. /\ d \in Seq(Nat) /\ Len(d) = at + w
      /\ \A i \in 1 .. at + w : d[i] = IF i <= at THEN old[i] ELSE more[i - at]
  <2>1. old \in Seq(Nat) /\ more \in Seq(Nat) /\ Len(old) = at /\ Len(more) = w
    BY <1>2, <1>5
  <2>2. /\ d \in Seq(Nat) /\ Len(d) = Len(old) + Len(more)
        /\ \A i \in 1 .. Len(old) + Len(more) :
             d[i] = IF i <= Len(old) THEN old[i] ELSE more[i - Len(old)]
    BY <2>1, ConcatProperties, Zenon
  <2> QED BY <2>1, <2>2
<1> HIDE DEF d
<1>7. \A i \in 1 .. Len(d) : d[i] = i - 1
  <2> SUFFICES ASSUME NEW i \in 1 .. at + w PROVE d[i] = i - 1
    BY <1>6
  <2>1. CASE i <= at
    <3>1. i \in DOMAIN old
      BY <1>1, <1>2, <2>1
    <3> QED BY <1>1, <1>2, <1>6, <2>1, <3>1
  <2>2. CASE i > at
    <3>1. i - at \in 1 .. w
      BY <1>1, <2>2
    <3>2. more[i - at] = at + (i - at) - 1
      BY <1>5, <3>1
    <3> QED BY <1>1, <1>6, <2>2, <3>2
  <2> QED BY <1>1, <2>1, <2>2
<1>8. r.pos <= FileLen[r.file]
  BY <1>1, <1>4
<1> QED BY <1>3, <1>4, <1>6, <1>7, <1>8, SlotChanged

LEMMA FileClosed ==
  ASSUME FileInv, NEW s \in UfdSlots, ufd' = [ufd EXCEPT ![s].used = FALSE], UNCHANGED delivered,
         pc' \notin {"start", "vfs"}
  PROVE  FileInv'
<1> DEFINE r == [ufd[s] EXCEPT !.used = FALSE]
<1>1. /\ ufd \in [UfdSlots -> [used : BOOLEAN, file : Files, pos : Nat]]
      /\ delivered \in [UfdSlots -> Seq(Nat)]
      /\ ufd[s].pos <= FileLen[ufd[s].file]
  BY DEF FileInv
<1>2. /\ r \in [used : BOOLEAN, file : Files, pos : Nat]
      /\ r.pos = ufd[s].pos /\ r.file = ufd[s].file /\ ~ r.used
  BY <1>1
<1>3. ufd' = [ufd EXCEPT ![s] = r] /\ delivered' = [delivered EXCEPT ![s] = delivered[s]]
  BY <1>1
<1>4. delivered[s] \in Seq(Nat)
  BY <1>1
<1> HIDE DEF r
<1>5. r.pos <= FileLen[r.file]
  BY <1>1, <1>2
<1> QED BY <1>2, <1>3, <1>4, <1>5, SlotChanged

LEMMA FileStep ==
  ASSUME FileInv, [UNext]_uvars
  PROVE  FileInv'
<1>1. CASE main_memory \/ main_paging \/ main_acpi \/ lapic_bsp_early_init
           \/ main_number_cpus \/ ioapic_init_from_acpi \/ smp_install_trampoline
           \/ smp_stack \/ smp_start_ap \/ smp_done \/ main_probe
           \/ verve_user_bringup_smoke \/ exec_flat_page \/ brk_page
  <2>1. UNCHANGED files /\ (pc' \in {"start", "vfs"} => pc \in {"start", "vfs"})
    BY <1>1 DEF main_memory, main_paging, main_acpi, lapic_bsp_early_init, main_number_cpus,
      ioapic_init_from_acpi, smp_install_trampoline, smp_stack, smp_start_ap, smp_done,
      main_probe, verve_user_bringup_smoke,
      verve_proc_init_singleton, user_frames, map_text, map_stack, exec_flat_page, brk_page
  <2> QED BY <2>1, FilesKept DEF files
<1>2. CASE exec_flat_copy \/ brk_done \/ sys_exit \/ UNCHANGED uvars
           \/ (\E page \in UserPages : sys_brk(page))
           \/ (\E a \in Pointers, n \in Lengths : sys_write(a, n))
  <2>1. UNCHANGED <<ufd, delivered>> /\ (pc' \in {"start", "vfs"} => pc \in {"start", "vfs"})
    BY <1>2 DEF exec_flat_copy, brk_done, sys_exit, uvars, sys_brk, sys_write, files
  <2> QED BY <2>1, FilesKept
<1>3. CASE verve_vfs_selftest
  <2>1. CASE pc = "vfs" /\ pc' = "vfs read" /\ ufd_alloc(TestFile)
    <3>1. UfdFree # {}
      <4>1. 0 \in UfdSlots
        BY UserFacts DEF UfdSlots
      <4> QED BY <2>1, <4>1 DEF FileInv, UfdFree
    <3> QED BY <2>1, <3>1, FileOpened, UserFacts
  <2>2. CASE /\ pc' = "vfs read" \/ pc' = "vfs close"
             /\ \E s \in UfdSlots \ UfdFree : advance(s, TestBuf)
    BY <2>2, FileRead, UserFacts DEF UfdFree
  <2>3. CASE /\ pc' = "paging" /\ UNCHANGED delivered
             /\ \E s \in UfdSlots \ UfdFree : ufd' = [ufd EXCEPT ![s].used = FALSE]
    BY <2>3, FileClosed
  <2> QED BY <1>3, <2>1, <2>2, <2>3 DEF verve_vfs_selftest
<1>4. ASSUME NEW a \in Pointers, NEW n \in Lengths, NEW file \in Files, verve_vfs_open_u(a, n, file)
      PROVE  FileInv'
  BY <1>4, FileOpened DEF verve_vfs_open_u
<1>5. ASSUME NEW a \in Pointers, NEW len \in Lengths, NEW s \in UfdSlots, verve_vfs_read_u(s, a, len)
      PROVE  FileInv'
  <2> DEFINE n == Min({len, ReadMax})
  <2>1. n \in Nat
    <3>1. len \in 0 .. AddrSize - 1 /\ ReadMax \in Nat /\ AddrSize \in Nat
      BY UserFacts, UserSpaceAssumption, BootInfoAssumption
    <3>2. len \in Nat /\ len \in Int /\ ReadMax \in Int
      BY <3>1
    <3>3. n = IF len <= ReadMax THEN len ELSE ReadMax
      BY <3>2, MinOfTwo
    <3> HIDE DEF n
    <3> QED BY <3>1, <3>2, <3>3
  <2>2. pc = "user" /\ pc' = pc /\ ufd[s].used /\ advance(s, n)
    BY <1>5 DEF verve_vfs_read_u
  <2> HIDE DEF n
  <2> QED BY <2>1, <2>2, FileRead
<1>6. ASSUME NEW s \in UfdSlots, verve_vfs_close_u(s) PROVE FileInv'
  BY <1>6, FileClosed DEF verve_vfs_close_u
<1> QED BY <1>1, <1>2, <1>3, <1>4, <1>5, <1>6 DEF UNext, verve_exec_flat_run, syscall_invoke

-----------------------------------------------------------------------------
LEMMA UserInit == UInit => UserInv
<1> SUFFICES ASSUME UInit PROVE UserInv
  OBVIOUS
<1>1. pc = "start"
  BY DEF UInit
<1>2. IInv
  BY DEF UInit, Init, IInv, TypeOK, Split
<1>3. Untaken
  BY DEF UInit, Untaken, BeforePd, BeforeCode, BeforeStk, BeforePt, BeforeProbe
<1>4. \A p \in UserPages : pte[p].flags = {} /\ pte[p].frame = 0
  BY DEF UInit, NoEntry
<1>5. FrameInv
  <2>1. owned = {}
    BY DEF UInit, Init
  <2>2. Taken = {}
    <3>1. ApUses(aps) = {} /\ PageUses(pte) = {}
      BY <1>4 DEF UInit, ApUses, PageUses
    <3>2. Fixed(probe, pd, pt, code, stk) = {}
      BY DEF UInit, Fixed, One
    <3> QED BY <3>1, <3>2, TakenIs
  <2> QED BY <2>1, <2>2 DEF FrameInv
<1>6. PteInv
  <2>1. pte \in [UserPages -> [frame : Nat, flags : {{}, RWU}]]
    BY DEF UInit, NoEntry
  <2> QED BY <1>1, <1>4, <2>1 DEF PteInv, Unmapped
<1>7. LoaderInv /\ BrkInv
  BY <1>1 DEF LoaderInv, BrkInv
<1>8. FileInv
  <2> DEFINE r == [used |-> FALSE, file |-> CHOOSE f \in Files : TRUE, pos |-> 0]
  <2>1. (CHOOSE f \in Files : TRUE) \in Files
    BY UserFacts
  <2>2. r \in [used : BOOLEAN, file : Files, pos : Nat] /\ ~ r.used /\ r.pos = 0 /\ r.file \in Files
    BY <2>1
  <2>3. ufd = [s \in UfdSlots |-> r] /\ delivered = [s \in UfdSlots |-> << >>]
    BY DEF UInit
  <2> HIDE DEF r
  <2>4. FileLen[r.file] \in Nat
    BY <2>2, UserFacts
  <2>5. << >> \in Seq(Nat)
    OBVIOUS
  <2> QED BY <2>2, <2>3, <2>4, <2>5 DEF FileInv
<1>9. CopyInBounds
  BY DEF UInit, CopyInBounds
<1> QED BY <1>2, <1>3, <1>5, <1>6, <1>7, <1>8, <1>9 DEF UserInv

LEMMA UserNext == UserInv /\ [UNext]_uvars => UserInv'
<1> SUFFICES ASSUME UserInv, [UNext]_uvars PROVE UserInv'
  OBVIOUS
<1>1. IInv'
  BY FramesAreNumbers, CallsPmm, PmmStep DEF UserInv
<1>2. Untaken' /\ FileInv'
  BY UntakenStep, FileStep DEF UserInv
<1>3. FrameInv'
  BY FrameStep
<1>4. PageInv'
  BY PageStep
<1> QED BY <1>1, <1>2, <1>3, <1>4 DEF UserInv, PageInv

LEMMA UserInvariant == USpec => []UserInv
BY UserInit, UserNext, PTL DEF USpec

-----------------------------------------------------------------------------
\* The kernel runs the frame allocator as module Pmm says.
LEMMA RunsPmm == USpec => Spec
<1>1. UInit => Init
  BY DEF UInit
<1>2. UserInv /\ [UNext]_uvars => [Next]_vars
  BY FramesAreNumbers, CallsPmm DEF UserInv
<1> QED BY <1>1, <1>2, UserInvariant, PTL DEF USpec, Spec

\* A frame below a reserved one, or one of the kernel's image, never becomes a
\* page table, a stack or a page of the process.
THEOREM UserReserved == USpec => []NoReservedFrame
BY RunsPmm, ReservedSafe, PTL

\* Whatever the kernel takes has memory behind it.
THEOREM UserRam == USpec => []HoldsRam
BY RunsPmm, RamOnly, PTL

\* Neither the boot, nor the loader, nor a call of brk that fails half way
\* breaks the bitmap.
THEOREM UserExact == USpec => []NothingLost
BY RunsPmm, BitmapExact, PTL

-----------------------------------------------------------------------------
(***************************************************************************)
(* Up to the probe nothing is given back, so the stacks are the lowest of  *)
(* the frames pmm_init left free, one for each processor that is started.  *)
(* A stack at or behind the trampoline leaves none free below it.          *)
(***************************************************************************)
LowInv ==
  pc \in BeforeProbe =>
    /\ IsFiniteSet(aps) /\ IsFiniteSet(owned) /\ Cardinality(owned) = Cardinality(aps)
    /\ \A a \in aps : a[2] \in owned
    /\ \A f \in owned : \A g \in 1 .. f - 1 : g \in InitialBitmap(layout) \cup owned

LEMMA LowInit == UInit => LowInv
BY FS_EmptySet DEF UInit, Init, LowInv

LEMMA StackTaken ==
  ASSUME IInv, LowInv, pc \in BeforeProbe,
         NEW f \in 1 .. count, pmm_alloc_frame(f), NEW id, aps' = aps \cup {<<id, f>>}
  PROVE  LowInv'
<1>1. count \in Nat /\ owned \subseteq used /\ 0 \in Nat /\ layout' = layout
  BY FrameCountPositive DEF IInv, TypeOK, pmm_alloc_frame
<1>2. f \in Free /\ (\A g \in Free : f <= g) /\ owned' = owned \cup {f} /\ f \notin owned
  BY <1>1 DEF pmm_alloc_frame, Free
<1> DEFINE a == <<id, f>>
<1>3. a[2] = f
  OBVIOUS
<1>4. aps' = aps \cup {a}
  OBVIOUS
<1> HIDE DEF a
<1>5. a \notin aps
  BY <1>2, <1>3 DEF LowInv
<1>6. /\ IsFiniteSet(aps') /\ Cardinality(aps') = Cardinality(aps) + 1
      /\ IsFiniteSet(owned') /\ Cardinality(owned') = Cardinality(owned) + 1
  <2>1. IsFiniteSet(aps) /\ IsFiniteSet(owned)
    BY DEF LowInv
  <2> QED BY <1>2, <1>4, <1>5, <2>1, FS_AddElement
<1>7. \A c \in aps' : c[2] \in owned'
  BY <1>2, <1>3, <1>4 DEF LowInv
<1>8. ASSUME NEW h \in owned', NEW g \in 1 .. h - 1
      PROVE  g \in InitialBitmap(layout) \cup owned'
  <2>1. CASE h \in owned
    BY <1>2, <2>1 DEF LowInv
  <2>2. CASE h = f
    <3>1. g \in 1 .. count - 1 /\ ~ (f <= g)
      BY <1>1, <2>2
    <3>2. g \in used
      BY <1>2, <3>1 DEF Free
    <3>3. used = InitialBitmap(layout) \cup owned
      BY <1>1, <3>1 DEF IInv, Split
    <3> QED BY <1>2, <3>2, <3>3
  <2> QED BY <1>2, <2>1, <2>2
<1>9. InitialBitmap(layout)' = InitialBitmap(layout)
  BY <1>1
<1> QED BY <1>6, <1>7, <1>8, <1>9 DEF LowInv

LEMMA LowStep ==
  ASSUME IInv, LowInv, [UNext]_uvars
  PROVE  LowInv'
<1> USE DEF BeforeProbe
<1>1. ASSUME UNCHANGED <<layout, owned, aps>>, pc' \in BeforeProbe => pc \in BeforeProbe
      PROVE  LowInv'
  BY <1>1 DEF LowInv
<1>2. CASE main_memory
  BY <1>1, <1>2 DEF main_memory, pmm_init, vars
<1>3. CASE verve_vfs_selftest \/ main_paging \/ main_acpi \/ lapic_bsp_early_init
           \/ main_number_cpus \/ ioapic_init_from_acpi
           \/ smp_install_trampoline \/ smp_start_ap \/ smp_done
  BY <1>1, <1>3 DEF verve_vfs_selftest, main_paging, main_acpi, lapic_bsp_early_init,
    main_number_cpus, ioapic_init_from_acpi, smp_install_trampoline, smp_start_ap, smp_done, vars
<1>4. CASE smp_stack
  <2>1. pc = "aps" /\ pc' \in BeforeProbe
    BY <1>4 DEF smp_stack
  <2>2. CASE UNCHANGED aps /\ (UNCHANGED vars \/ pmm_alloc_frame(0))
    <3>1. UNCHANGED <<layout, owned>>
      BY <2>2 DEF vars, pmm_alloc_frame, Free
    <3> QED BY <1>1, <2>1, <2>2, <3>1
  <2>3. CASE \E f \in 1 .. count : pmm_alloc_frame(f) /\ aps' = aps \cup {<<hw.cpus[next], f>>}
    BY <2>1, <2>3, StackTaken
  <2> QED BY <1>4, <2>2, <2>3 DEF smp_stack
<1>5. CASE \/ main_probe \/ verve_exec_flat_run \/ syscall_invoke \/ brk_page \/ brk_done
  <2>1. pc' \notin BeforeProbe
    BY <1>5 DEF main_probe, verve_exec_flat_run, verve_user_bringup_smoke,
      verve_proc_init_singleton, user_frames, map_text, map_stack, exec_flat_page, exec_flat_copy,
      brk_page, brk_done, syscall_invoke, sys_brk, sys_write, verve_vfs_open_u, verve_vfs_read_u,
      verve_vfs_close_u, sys_exit
  <2> QED BY <2>1 DEF LowInv
<1>6. CASE UNCHANGED uvars
  BY <1>1, <1>6 DEF uvars, vars
<1> QED BY <1>2, <1>3, <1>4, <1>5, <1>6 DEF UNext

LEMMA UserLow == USpec => []LowInv
<1>1. UserInv /\ LowInv /\ [UNext]_uvars => LowInv'
  BY LowStep DEF UserInv
<1> QED BY <1>1, LowInit, UserInvariant, PTL DEF USpec

\* If the frames below the trampoline suffice, the stacks are among them.
LEMMA StacksBelow ==
  ASSUME IInv, LowInv, pc \in BeforeProbe, ~ Crowded, NEW f \in owned
  PROVE  f < Tramp
<1>1. /\ Tramp \in Nat \ {0} /\ FrameCount(layout) \in Nat
      /\ f \in Nat /\ f < FrameCount(layout)
  BY FrameCountPositive, UserSpaceAssumption DEF IInv, TypeOK
<1> SUFFICES ASSUME f >= Tramp PROVE FALSE
  BY <1>1
<1> DEFINE S == BelowTramp \cup {f}
<1>2. BelowTramp \subseteq owned /\ f \notin BelowTramp
  BY <1>1 DEF LowInv, BelowTramp
<1>3. IsFiniteSet(owned) /\ Cardinality(owned) = Cardinality(aps)
  BY DEF LowInv
<1>4. IsFiniteSet(BelowTramp) /\ Cardinality(BelowTramp) \in Nat
  BY <1>2, <1>3, FS_Subset, FS_CardinalityType
<1>5. IsFiniteSet(S) /\ Cardinality(S) = Cardinality(BelowTramp) + 1
  BY <1>2, <1>4, FS_AddElement
<1>6. S \in SUBSET owned
  BY <1>2
<1> HIDE DEF S
<1>7. Cardinality(S) <= Cardinality(owned)
  BY <1>3, <1>6, FS_Subset
<1>8. Cardinality(owned) \in Nat
  BY <1>3, FS_CardinalityType
<1> QED BY <1>3, <1>4, <1>5, <1>7, <1>8 DEF Crowded

\* Frames are taken one at a time, at a dozen places, and held in variables, in
\* page table entries and by processors, and smp_init uses two that it never
\* took: none ever has two uses, unless there are more processors to start than
\* free frames below the trampoline.
THEOREM FramesOnceUsed == USpec => []FramesExclusive
<1>1. UserInv /\ LowInv => FramesExclusive
  <2> SUFFICES ASSUME UserInv, LowInv, NEW u \in Uses, NEW v \in Uses,
                      u[3] = v[3], u[3] # 0, u # v
               PROVE  Crowded /\ {u[1], v[1]} \cap {"trampoline", "mailbox"} # {}
    BY DEF FramesExclusive
  <2>0. IInv /\ FrameInv
    BY DEF UserInv
  <2>1. Tramp \in Nat /\ Mail \in Nat /\ Tramp < Mail
    BY UserSpaceAssumption
  <2>2. ASSUME NEW w \in LowUses
        PROVE  /\ pc \in BeforeProbe
               /\ w[1] \in {"trampoline", "mailbox"} /\ w[3] \in {Tramp, Mail}
               /\ w \in { <<"trampoline", 0, Tramp>>, <<"mailbox", 0, Mail>> }
    <3>1. /\ w \in { <<"trampoline", 0, Tramp>>, <<"mailbox", 0, Mail>> }
          /\ pc \in {"aps", "sipi"}
      BY Zenon DEF LowUses
    <3>2. w = <<"trampoline", 0, Tramp>> \/ w = <<"mailbox", 0, Mail>>
      BY <3>1
    <3>3. w[1] \in {"trampoline", "mailbox"} /\ w[3] \in {Tramp, Mail}
      BY <3>2
    <3> QED BY <3>1, <3>3 DEF BeforeProbe
  <2>3. ASSUME NEW w \in AllocatedUses, w[3] # 0, pc \in BeforeProbe, ~ Crowded
        PROVE  w[3] < Tramp
    <3>1. w[3] \in owned
      BY <2>0, <2>3 DEF FrameInv, Taken
    <3> QED BY <2>0, <2>3, <3>1, StacksBelow
  <2>4. u \in LowUses \/ v \in LowUses
    BY <2>0 DEF Uses, FrameInv, Taken
  <2>5. ~ (u \in LowUses /\ v \in LowUses)
    <3>1. ASSUME u \in LowUses, v \in LowUses PROVE FALSE
      <4>1. /\ u \in { <<"trampoline", 0, Tramp>>, <<"mailbox", 0, Mail>> }
            /\ v \in { <<"trampoline", 0, Tramp>>, <<"mailbox", 0, Mail>> }
        BY <2>2, <3>1
      <4> QED BY <2>1, <4>1
    <3> QED BY <3>1
  <2>6. ASSUME NEW w \in LowUses, NEW x \in AllocatedUses, w[3] = x[3], x[3] # 0
        PROVE  Crowded /\ w[1] \in {"trampoline", "mailbox"}
    <3>1. pc \in BeforeProbe /\ w[1] \in {"trampoline", "mailbox"} /\ w[3] \in {Tramp, Mail}
      BY <2>2, <2>6
    <3>2. ~ (w[3] < Tramp)
      BY <2>1, <3>1
    <3>3. Crowded
      BY <2>3, <2>6, <3>1, <3>2
    <3> QED BY <3>1, <3>3
  <2> QED BY <2>4, <2>5, <2>6 DEF Uses
<1> QED BY <1>1, UserInvariant, UserLow, PTL

\* Unless brk ran out of memory, each frame that is not free can be found in a
\* variable, in an entry or with a processor.
THEOREM FramesKnown == USpec => []FramesAccounted
<1>1. UserInv => FramesAccounted
  <2> SUFFICES ASSUME UserInv, ~ enomem PROVE owned = Held
    BY DEF FramesAccounted
  <2>1. Held = { u[3] : u \in Taken }
    BY DEF Held, Taken
  <2>2. FrameInv
    BY DEF UserInv
  <2>3. owned \subseteq { u[3] : u \in Taken } /\ \A u \in Taken : u[3] \in owned
    BY <2>2 DEF FrameInv
  <2> QED BY <2>1, <2>3
<1> QED BY <1>1, UserInvariant, PTL

\* Up to the break the heap is mapped and can be written, also when a call
\* failed and the next one maps the same pages again.
THEOREM HeapIsBacked == USpec => []HeapBacked
<1>1. BrkInv => HeapBacked
  BY DEF BrkInv, HeapBacked, HeapTop, MappedRWU
<1> QED BY <1>1, UserInvariant, PTL DEF UserInv

\* A program of one page runs on the stack that was taken for it.
THEOREM StackIsKept == USpec => []StackKept
<1>1. UserInv => StackKept
  <2> SUFFICES ASSUME UserInv, pc = "flat", prog <= FrameSize PROVE pte[StackPage].frame = stk
    BY DEF StackKept
  <2>1. /\ prog \in FlatLens /\ va \in StackPage .. TextPage + TextPages
        /\ va = StackPage => pte[StackPage].frame = stk
    BY DEF UserInv, LoaderInv
  <2>2. TextPages = 1
    BY <2>1, TextFits
  <2>3. TextPage \in Nat /\ StackPage = TextPage + 1
    BY UserFacts
  <2> QED BY <2>1, <2>2, <2>3
<1> QED BY <1>1, UserInvariant, PTL

\* The kernel touches mapped pages only, whatever address and length a program
\* passes, sums that wrap around included.
THEOREM CopiesInBounds == USpec => []CopyInBounds
BY UserInvariant, PTL DEF UserInv

\* Bytes come out of a descriptor in order, once, and none beyond the end of its
\* file, however reads, opens and closes of the other slots come between.
THEOREM FilesInOrder == USpec => []DeliveredInOrder
<1>1. FileInv => DeliveredInOrder
  BY DEF FileInv, DeliveredInOrder
<1> QED BY <1>1, UserInvariant, PTL DEF UserInv

-----------------------------------------------------------------------------
(***************************************************************************)
(* What acpi_hw_init makes of a MADT.                                      *)
(***************************************************************************)
IsTable(m) ==
  /\ m \in Seq(ToSet(m))
  /\ \A i \in Enabled(m) : m[i].id \in Ids
  /\ \A i, j \in Enabled(m) : m[i].id = m[j].id => i = j
  /\ \A i \in Enabled(m) : (\A j \in Enabled(m) : i <= j) => m[i].id = Bsp
  /\ \A i \in IoApics(m) : m[i].page \in Nat \ {0}

\* The place of an enabled processor among them.
EnabledTo(m, i) == { j \in Enabled(m) : j <= i }
Place(m, i) == Cardinality(EnabledTo(m, i))

Reading == [cpus : Seq(Ids), ioapic : Nat]

\* r is what n entries of m give.
ReadSo(m, n, r) ==
  /\ Len(r.cpus) = IF Place(m, n) <= MaxCpus THEN Place(m, n) ELSE MaxCpus
  /\ \A i \in EnabledTo(m, n) : Place(m, i) <= MaxCpus => r.cpus[Place(m, i)] = m[i].id
  /\ \A k \in 1 .. Len(r.cpus) : \E i \in EnabledTo(m, n) : Place(m, i) = k /\ r.cpus[k] = m[i].id
  /\ IF r.ioapic = 0 THEN \A i \in IoApics(m) : i > n
     ELSE \E i \in IoApics(m) : /\ i <= n /\ r.ioapic = m[i].page
                                /\ \A j \in IoApics(m) : i <= j

LEMMA TableFacts ==
  ASSUME NEW m, IsTable(m)
  PROVE  Len(m) \in Nat /\ DOMAIN m = 1 .. Len(m) /\ Enabled(m) \subseteq 1 .. Len(m)
         /\ IoApics(m) \subseteq 1 .. Len(m)
<1>1. m \in Seq(ToSet(m))
  BY DEF IsTable
<1>2. Len(m) \in Nat /\ DOMAIN m = 1 .. Len(m)
  BY <1>1, LenProperties
<1> QED BY <1>2 DEF Enabled, IoApics

LEMMA Places ==
  ASSUME NEW m, IsTable(m), NEW n \in Nat
  PROVE  /\ Place(m, n) \in Nat
         /\ EnabledTo(m, 0) = {} /\ Place(m, 0) = 0
         /\ n + 1 \in Enabled(m) => /\ Place(m, n + 1) = Place(m, n) + 1
                                    /\ EnabledTo(m, n + 1) = EnabledTo(m, n) \cup {n + 1}
         /\ n + 1 \notin Enabled(m) => EnabledTo(m, n + 1) = EnabledTo(m, n)
<1>1. Enabled(m) \subseteq 1 .. Len(m) /\ Len(m) \in Nat
  BY TableFacts
<1>2. \A i : IsFiniteSet(EnabledTo(m, i))
  <2>1. \A i : EnabledTo(m, i) \subseteq 1 .. Len(m)
    BY <1>1 DEF EnabledTo
  <2>2. IsFiniteSet(1 .. Len(m))
    BY <1>1, FS_Interval
  <2> QED BY <2>1, <2>2, FS_Subset
<1>3. Place(m, n) \in Nat
  BY <1>2, FS_CardinalityType DEF Place
<1>4. EnabledTo(m, 0) = {}
  BY <1>1 DEF EnabledTo
<1>5. Place(m, 0) = 0
  BY <1>4, FS_EmptySet DEF Place
<1>6. n + 1 \in Enabled(m) =>
        EnabledTo(m, n + 1) = EnabledTo(m, n) \cup {n + 1} /\ n + 1 \notin EnabledTo(m, n)
  BY <1>1 DEF EnabledTo
<1>7. n + 1 \in Enabled(m) => Place(m, n + 1) = Place(m, n) + 1
  BY <1>2, <1>6, FS_AddElement DEF Place
<1>8. n + 1 \notin Enabled(m) => EnabledTo(m, n + 1) = EnabledTo(m, n)
  BY <1>1 DEF EnabledTo
<1> QED BY <1>3, <1>4, <1>5, <1>6, <1>7, <1>8

\* Places grow with the entries.
LEMMA PlacesGrow ==
  ASSUME NEW m, IsTable(m), NEW n \in Nat, NEW i \in Enabled(m), i <= n
  PROVE  /\ Place(m, i) \in Nat /\ 1 <= Place(m, i) /\ Place(m, i) <= Place(m, n)
<1>1. Enabled(m) \subseteq 1 .. Len(m) /\ Len(m) \in Nat
  BY TableFacts
<1>2. EnabledTo(m, i) \subseteq EnabledTo(m, n) /\ {i} \subseteq EnabledTo(m, i)
  BY <1>1 DEF EnabledTo
<1>3. IsFiniteSet(EnabledTo(m, n)) /\ IsFiniteSet(EnabledTo(m, i))
  <2>1. \A k : EnabledTo(m, k) \subseteq 1 .. Len(m)
    BY <1>1 DEF EnabledTo
  <2>2. IsFiniteSet(1 .. Len(m))
    BY <1>1, FS_Interval
  <2> QED BY <2>1, <2>2, FS_Subset
<1>4. /\ Cardinality(EnabledTo(m, i)) \in Nat
      /\ Cardinality(EnabledTo(m, i)) <= Cardinality(EnabledTo(m, n))
  BY <1>2, <1>3, FS_Subset, FS_CardinalityType
<1>5. Cardinality(EnabledTo(m, i)) # 0
  BY <1>2, <1>3, FS_EmptySet
<1> QED BY <1>4, <1>5 DEF Place

LEMMA EntryRead ==
  ASSUME NEW m, IsTable(m), NEW n \in Nat, n + 1 \in DOMAIN m, NEW r \in Reading
  PROVE  MadtEntry(r, m[n + 1]) \in Reading
<1> DEFINE e == m[n + 1]
<1>1. e.type = "lapic" /\ e.enabled => e.id \in Ids
  BY DEF IsTable, Enabled
<1>2. e.type = "ioapic" => e.page \in Nat
  BY DEF IsTable, IoApics
<1> HIDE DEF e
<1>3. r.cpus \in Seq(Ids) /\ r.ioapic \in Nat
  BY DEF Reading
<1>4. e.id \in Ids => Append(r.cpus, e.id) \in Seq(Ids)
  BY <1>3
<1>5. CASE e.type = "lapic" /\ e.enabled /\ Len(r.cpus) < MaxCpus
  <2>1. MadtEntry(r, e) = [r EXCEPT !.cpus = Append(@, e.id)]
    BY <1>5 DEF MadtEntry
  <2> QED BY <1>1, <1>4, <1>5, <2>1 DEF Reading, e
<1>6. CASE ~ (e.type = "lapic" /\ e.enabled /\ Len(r.cpus) < MaxCpus)
  <2>1. MadtEntry(r, e) = IF e.type = "ioapic" /\ r.ioapic = 0 THEN [r EXCEPT !.ioapic = e.page] ELSE r
    BY <1>6 DEF MadtEntry
  <2> QED BY <1>2, <2>1 DEF Reading, e
<1> QED BY <1>5, <1>6

LEMMA EntrySo ==
  ASSUME NEW m, IsTable(m), NEW n \in Nat, n + 1 \in DOMAIN m, NEW r \in Reading, ReadSo(m, n, r)
  PROVE  ReadSo(m, n + 1, MadtEntry(r, m[n + 1]))
<1> DEFINE e == m[n + 1]
           q == MadtEntry(r, e)
           at == Place(m, n)
<1>1. /\ r.cpus \in Seq(Ids) /\ r.ioapic \in Nat /\ at \in Nat /\ MaxCpus \in Nat
      /\ Len(r.cpus) \in Nat
  BY Places, BootInfoAssumption DEF Reading
<1>2. Len(m) \in Nat /\ DOMAIN m = 1 .. Len(m) /\ Enabled(m) \subseteq 1 .. Len(m)
      /\ IoApics(m) \subseteq 1 .. Len(m)
  BY TableFacts
<1>3. n + 1 \in Enabled(m) <=> e.type = "lapic" /\ e.enabled
  BY DEF Enabled
<1>4. n + 1 \in IoApics(m) <=> e.type = "ioapic"
  BY DEF IoApics
<1>5. /\ Len(r.cpus) = IF at <= MaxCpus THEN at ELSE MaxCpus
      /\ \A i \in EnabledTo(m, n) : Place(m, i) <= MaxCpus => r.cpus[Place(m, i)] = m[i].id
      /\ \A k \in 1 .. Len(r.cpus) : \E i \in EnabledTo(m, n) : Place(m, i) = k /\ r.cpus[k] = m[i].id
      /\ IF r.ioapic = 0 THEN \A i \in IoApics(m) : i > n
         ELSE \E i \in IoApics(m) : i <= n /\ r.ioapic = m[i].page /\ \A j \in IoApics(m) : i <= j
  BY DEF ReadSo
<1>6. CASE n + 1 \in Enabled(m) /\ Len(r.cpus) < MaxCpus
  <2>1. q = [r EXCEPT !.cpus = Append(@, e.id)]
    BY <1>3, <1>6 DEF MadtEntry
  <2>2. q.cpus = Append(r.cpus, e.id) /\ q.ioapic = r.ioapic
    BY <2>1 DEF Reading
  <2>3. e.id \in Ids /\ n + 1 \notin IoApics(m)
    BY <1>3, <1>4, <1>6 DEF IsTable
  <2>4. Place(m, n + 1) = at + 1 /\ EnabledTo(m, n + 1) = EnabledTo(m, n) \cup {n + 1}
    BY <1>6, Places
  <2> HIDE DEF q, at, e
  <2>5. at < MaxCpus /\ Len(r.cpus) = at
    BY <1>1, <1>5, <1>6
  <2>6. /\ Len(q.cpus) = at + 1 /\ q.cpus[at + 1] = e.id
        /\ \A k \in 1 .. at : q.cpus[k] = r.cpus[k]
    BY <1>1, <2>2, <2>3, <2>5
  <2>7. \A i \in EnabledTo(m, n) : Place(m, i) \in 1 .. at
    <3>1. \A i \in EnabledTo(m, n) : i \in Enabled(m) /\ i <= n
      BY DEF EnabledTo
    <3> QED BY <1>1, <3>1, PlacesGrow DEF at
  <2>8. ASSUME NEW i \in EnabledTo(m, n + 1), Place(m, i) <= MaxCpus
        PROVE  q.cpus[Place(m, i)] = m[i].id
    BY <1>5, <2>4, <2>6, <2>7, <2>8 DEF e
  <2>9. ASSUME NEW k \in 1 .. Len(q.cpus)
        PROVE  \E i \in EnabledTo(m, n + 1) : Place(m, i) = k /\ q.cpus[k] = m[i].id
    <3>1. CASE k = at + 1
      BY <2>4, <2>6, <3>1 DEF e
    <3>2. CASE k # at + 1
      <4>1. k \in 1 .. at
        BY <1>1, <2>6, <3>2
      <4> QED BY <1>5, <2>4, <2>5, <2>6, <4>1
    <3> QED BY <3>1, <3>2
  <2>10. IF q.ioapic = 0 THEN \A i \in IoApics(m) : i > n + 1
         ELSE \E i \in IoApics(m) : i <= n + 1 /\ q.ioapic = m[i].page /\ \A j \in IoApics(m) : i <= j
    <3>1. \A i \in IoApics(m) : i > n => i > n + 1
      BY <1>2, <2>3
    <3>2. \A i \in IoApics(m) : i <= n => i <= n + 1
      BY <1>2
    <3> QED BY <1>5, <2>2, <3>1, <3>2
  <2> QED BY <1>1, <2>4, <2>5, <2>6, <2>8, <2>9, <2>10 DEF ReadSo, q, e
<1>7. CASE ~ (n + 1 \in Enabled(m) /\ Len(r.cpus) < MaxCpus)
  <2>1. q = IF n + 1 \in IoApics(m) /\ r.ioapic = 0 THEN [r EXCEPT !.ioapic = e.page] ELSE r
    BY <1>3, <1>4, <1>7 DEF MadtEntry
  <2>2. q.cpus = r.cpus
    BY <2>1 DEF Reading
  <2>3. n + 1 \in IoApics(m) /\ r.ioapic = 0 => q.ioapic = e.page
    BY <2>1 DEF Reading
  <2>4. ~ (n + 1 \in IoApics(m) /\ r.ioapic = 0) => q.ioapic = r.ioapic
    BY <2>1
  <2>5. n + 1 \in IoApics(m) => e.page \in Nat \ {0}
    BY DEF IsTable
  <2> HIDE DEF q, at, e
  <2>6. IF q.ioapic = 0 THEN \A i \in IoApics(m) : i > n + 1
        ELSE \E i \in IoApics(m) : i <= n + 1 /\ q.ioapic = m[i].page /\ \A j \in IoApics(m) : i <= j
    <3>1. \A i \in IoApics(m) : i > n /\ i # n + 1 => i > n + 1
      BY <1>2
    <3>2. \A i \in IoApics(m) : i <= n => i <= n + 1
      BY <1>2
    <3>3. CASE n + 1 \in IoApics(m) /\ r.ioapic = 0
      <4>1. q.ioapic # 0 /\ q.ioapic = m[n + 1].page
        BY <2>3, <2>5, <3>3 DEF e
      <4>2. \A j \in IoApics(m) : n + 1 <= j
        BY <1>2, <1>5, <3>3
      <4> QED BY <3>3, <4>1, <4>2
    <3>4. CASE ~ (n + 1 \in IoApics(m) /\ r.ioapic = 0)
      BY <1>5, <2>4, <3>1, <3>2, <3>4
    <3> QED BY <3>3, <3>4
  <2>7. CASE n + 1 \notin Enabled(m)
    <3>1. EnabledTo(m, n + 1) = EnabledTo(m, n) /\ Place(m, n + 1) = at
      BY <2>7, Places DEF Place, at
    <3> QED BY <1>5, <2>2, <2>6, <3>1 DEF ReadSo, q, e
  <2>8. CASE n + 1 \in Enabled(m)
    <3>1. Place(m, n + 1) = at + 1 /\ EnabledTo(m, n + 1) = EnabledTo(m, n) \cup {n + 1}
      BY <2>8, Places DEF at
    <3>2. at >= MaxCpus /\ Len(r.cpus) = MaxCpus
      BY <1>1, <1>5, <1>7, <2>8
    <3>3. ~ (Place(m, n + 1) <= MaxCpus)
      BY <1>1, <3>1, <3>2
    <3>4. \A i \in EnabledTo(m, n + 1) : Place(m, i) <= MaxCpus => q.cpus[Place(m, i)] = m[i].id
      BY <1>5, <2>2, <3>1, <3>3
    <3>5. \A k \in 1 .. Len(q.cpus) : \E i \in EnabledTo(m, n + 1) : Place(m, i) = k /\ q.cpus[k] = m[i].id
      BY <1>5, <2>2, <3>1
    <3> QED BY <2>2, <2>6, <3>2, <3>3, <3>4, <3>5 DEF ReadSo, q, e
  <2> QED BY <2>7, <2>8
<1> QED BY <1>6, <1>7

EntriesRead(m, n) == 
  LET read[i \in 0 .. n] == IF i = 0 THEN [cpus |-> << >>, ioapic |-> 0]
                            ELSE MadtEntry(read[i - 1], m[i])
  IN read[n]

LEMMA MadtRead ==
  ASSUME NEW m, IsTable(m), NEW n \in 0 .. Len(m)
  PROVE  EntriesRead(m, n) \in Reading /\ ReadSo(m, n, EntriesRead(m, n))
<1> DEFINE a == [cpus |-> << >>, ioapic |-> 0]
           g == [i \in 1 .. n |-> [r \in Reading |-> MadtEntry(r, m[i])]]
           Is(f) == f = [i \in 0 .. n |-> IF i = 0 THEN a ELSE MadtEntry(f[i - 1], m[i])]
<1>1. n \in Nat /\ \A i \in 1 .. n : i - 1 \in Nat /\ (i - 1) + 1 \in DOMAIN m /\ (i - 1) + 1 = i
  BY TableFacts
<1>2. a \in Reading /\ ReadSo(m, 0, a)
  <2>1. a \in Reading /\ a.cpus = << >> /\ a.ioapic = 0
    BY DEF Reading
  <2>2. Place(m, 0) = 0 /\ EnabledTo(m, 0) = {} /\ 0 <= MaxCpus
    BY Places, BootInfoAssumption
  <2>3. \A i \in IoApics(m) : i > 0
    BY TableFacts
  <2> HIDE DEF a
  <2>4. Len(<< >>) = 0 /\ 1 .. 0 = {}
    OBVIOUS
  <2> QED BY <2>1, <2>2, <2>3, <2>4 DEF ReadSo
<1>3. g \in [1 .. n -> [Reading -> Reading]]
  <2>1. \A i \in 1 .. n : \A r \in Reading : MadtEntry(r, m[(i - 1) + 1]) \in Reading
    BY <1>1, EntryRead
  <2>2. \A i \in 1 .. n : \A r \in Reading : MadtEntry(r, m[i]) \in Reading
    BY <1>1, <2>1
  <2> QED BY <2>2
<1>4. \E f \in [0 .. n -> Reading] : Is(f)
  <2>1. PICK f \in [0 .. n -> Reading] :
               f = [k \in 0 .. n |-> IF k = 0 THEN a ELSE g[k][f[k - 1]]]
    <3> HIDE DEF a, g
    <3> QED BY <1>1, <1>2, <1>3, RecursionExists
  <2>2. \A k \in 0 .. n : k # 0 => k \in 1 .. n /\ k - 1 \in 0 .. n
    BY <1>1
  <2>3. \A k \in 0 .. n : k # 0 => g[k][f[k - 1]] = MadtEntry(f[k - 1], m[k])
    BY <2>1, <2>2
  <2>4. \A k \in 0 .. n : f[k] = IF k = 0 THEN a ELSE MadtEntry(f[k - 1], m[k])
    <3> HIDE DEF a, g
    <3> QED BY <2>1, <2>3
  <2>5. Is(f)
    <3> HIDE DEF a, g
    <3> QED BY <2>1, <2>4
  <2> QED BY <2>5
<1> DEFINE read == CHOOSE f : Is(f)
<1>5. Is(read)
  BY <1>4
<1>6. EntriesRead(m, n) = read[n]
  BY DEF EntriesRead
<1> HIDE DEF a, read
<1>7. read[0] = a /\ \A i \in 1 .. n : read[i] = MadtEntry(read[i - 1], m[i])
  <2>1. \A i \in 0 .. n : read[i] = IF i = 0 THEN a ELSE MadtEntry(read[i - 1], m[i])
    BY <1>5
  <2>2. 0 \in 0 .. n /\ \A i \in 1 .. n : i \in 0 .. n /\ i # 0
    BY <1>1
  <2> QED BY <2>1, <2>2
<1> HIDE DEF Is
<1> DEFINE N == { i \in Nat : i <= n => read[i] \in Reading /\ ReadSo(m, i, read[i]) }
<1>8. 0 \in N
  BY <1>2, <1>7
<1>9. ASSUME NEW i \in Nat, i \in N PROVE i + 1 \in N
  <2> SUFFICES ASSUME i + 1 <= n
               PROVE  read[i + 1] \in Reading /\ ReadSo(m, i + 1, read[i + 1])
    OBVIOUS
  <2>1. read[i] \in Reading /\ ReadSo(m, i, read[i])
    BY <1>1, <1>9
  <2>2. i + 1 \in 1 .. n /\ (i + 1) - 1 = i
    BY <1>1
  <2>3. i + 1 \in DOMAIN m
    BY <1>1, <2>2
  <2>4. read[i + 1] = MadtEntry(read[i], m[i + 1])
    BY <1>7, <2>2
  <2> QED BY <2>1, <2>3, <2>4, EntryRead, EntrySo
<1> HIDE DEF N
<1>10. n \in N
  BY <1>1, <1>8, <1>9, SetInduction
<1> QED BY <1>1, <1>6, <1>10 DEF N

\* What the kernel knows comes from one table, or it knows no processor.
FromTable(h, m) ==
  /\ Broken(m) = {}
  /\ Len(h.cpus) = Min({Cardinality(Enabled(m)), MaxCpus})
  /\ \A i \in Enabled(m) : Place(m, i) <= MaxCpus => h.cpus[Place(m, i)] = m[i].id
  /\ h.ioapic = IF IoApics(m) = {} THEN 0 ELSE m[Min(IoApics(m))].page

HwOk(h) ==
  /\ h \in [cpus : Seq(Ids), ioapic : Nat, inited : BOOLEAN]
  /\ Len(h.cpus) <= MaxCpus
  /\ \A k \in DOMAIN h.cpus : h.cpus[k] = Bsp <=> k = 1
  /\ IF h.inited THEN \E a \in DOMAIN info.tables : IsMadt(a) /\ FromTable(h, table(a).body)
     ELSE h.cpus = << >>

LEMMA Collected ==
  ASSUME info \in Infos, NEW a, IsMadt(a), NEW s, HwOk(s), ~ s.inited
  PROVE  HwOk(madt_collect(s, table(a).body))
<1> DEFINE m == table(a).body
           ends == Broken(m) \cup {Len(m) + 1}
           n == Min(ends) - 1
           r == EntriesRead(m, n)
           h == madt_collect(s, m)
<1>1. IsTable(m) /\ a \in DOMAIN info.tables
  BY FirmwareAssumption DEF IsMadt, tbl_ok, IsTable, table
<1> HIDE DEF m
<1>2. Len(m) \in Nat /\ DOMAIN m = 1 .. Len(m) /\ Enabled(m) \subseteq 1 .. Len(m)
      /\ IoApics(m) \subseteq 1 .. Len(m)
  BY <1>1, TableFacts
<1>3. n \in 0 .. Len(m) /\ (Broken(m) = {} => n = Len(m))
  <2>1. ends \in SUBSET Nat /\ ends # {} /\ \A x \in ends : x \in 1 .. Len(m) + 1
    BY <1>2 DEF Broken
  <2>2. \E x \in ends : \A y \in ends : x <= y
    BY <2>1, Smallest
  <2>3. Min(ends) \in ends
    BY <2>2 DEF Min
  <2>4. Broken(m) = {} => Min(ends) = Len(m) + 1
    BY <2>3
  <2>5. Min(ends) \in 1 .. Len(m) + 1
    BY <2>1, <2>3
  <2> DEFINE first == Min(ends)
  <2>6. first \in 1 .. Len(m) + 1 /\ n = first - 1 /\ (Broken(m) = {} => first = Len(m) + 1)
    BY <2>4, <2>5
  <2> HIDE DEF ends, first, n
  <2> QED BY <1>2, <2>6
<1>4. r \in Reading /\ ReadSo(m, n, r)
  BY <1>1, <1>3, MadtRead
<1>5. h = [cpus |-> IF Broken(m) = {} THEN r.cpus ELSE s.cpus,
           ioapic |-> r.ioapic, inited |-> Broken(m) = {}]
  BY DEF madt_collect, EntriesRead
<1> HIDE DEF h, r, n
<1>6. h.cpus = (IF Broken(m) = {} THEN r.cpus ELSE s.cpus) /\ h.ioapic = r.ioapic
      /\ h.inited = (Broken(m) = {})
  BY <1>5
<1>7. s.cpus = << >> /\ s.cpus \in Seq(Ids)
  BY DEF HwOk
<1>8. h \in [cpus : Seq(Ids), ioapic : Nat, inited : BOOLEAN]
  BY <1>4, <1>5, <1>7 DEF Reading
<1>9. ASSUME Broken(m) # {} PROVE HwOk(h)
  <2>1. h.inited = FALSE /\ h.cpus = << >>
    BY <1>6, <1>7, <1>9
  <2>2. Len(<< >>) <= MaxCpus
    <3>1. Len(<< >>) = 0 /\ 0 <= MaxCpus
      BY BootInfoAssumption
    <3> QED BY <3>1
  <2>3. \A k \in DOMAIN h.cpus : h.cpus[k] = Bsp <=> k = 1
    <3>1. DOMAIN << >> = {}
      OBVIOUS
    <3> QED BY <2>1, <3>1
  <2> QED BY <1>8, <2>1, <2>2, <2>3 DEF HwOk
<1>10. ASSUME Broken(m) = {} PROVE HwOk(h)
  <2>1. n = Len(m) /\ h.inited /\ h.cpus = r.cpus /\ h.ioapic = r.ioapic
    BY <1>3, <1>6, <1>10
  <2>2. EnabledTo(m, n) = Enabled(m) /\ Place(m, n) = Cardinality(Enabled(m))
    <3>1. n = Len(m)
      BY <2>1
    <3>2. EnabledTo(m, n) = Enabled(m)
      BY <1>2, <3>1 DEF EnabledTo
    <3> QED BY <3>2 DEF Place
  <2>3. MaxCpus \in Nat \ {0} /\ Place(m, n) \in Nat
    BY <1>1, <1>2, <2>1, Places, BootInfoAssumption
  <2>4. Len(h.cpus) = IF Place(m, n) <= MaxCpus THEN Place(m, n) ELSE MaxCpus
    BY <1>4, <2>1 DEF ReadSo
  <2>5. \A i \in Enabled(m) : Place(m, i) <= MaxCpus => h.cpus[Place(m, i)] = m[i].id
    BY <1>4, <2>1, <2>2 DEF ReadSo
  <2>6. \A k \in 1 .. Len(h.cpus) : \E i \in Enabled(m) : Place(m, i) = k /\ h.cpus[k] = m[i].id
    BY <1>4, <2>1, <2>2 DEF ReadSo
  <2>7. h.ioapic = IF IoApics(m) = {} THEN 0 ELSE m[Min(IoApics(m))].page
    <3>1. CASE IoApics(m) = {}
      BY <1>4, <2>1, <3>1 DEF ReadSo
    <3>2. CASE IoApics(m) # {}
      <4>1. h.ioapic # 0
        <5>1. \A i \in IoApics(m) : ~ (i > n)
          BY <1>2, <2>1
        <5> QED BY <1>4, <2>1, <3>2, <5>1 DEF ReadSo
      <4>2. PICK i \in IoApics(m) : h.ioapic = m[i].page /\ \A j \in IoApics(m) : i <= j
        BY <1>4, <2>1, <4>1 DEF ReadSo
      <4>3. \A j \in IoApics(m) : (\A x \in IoApics(m) : j <= x) => j = i
        BY <1>2, <4>2
      <4>4. Min(IoApics(m)) = i
        BY <4>2, <4>3 DEF Min
      <4> QED BY <3>2, <4>2, <4>4
    <3> QED BY <3>1, <3>2
  <2>8. Min({Cardinality(Enabled(m)), MaxCpus}) = Len(h.cpus)
    BY <2>2, <2>3, <2>4, MinOfTwo
  <2>9. FromTable(h, m)
    BY <1>10, <2>5, <2>7, <2>8 DEF FromTable
  <2>10. Len(h.cpus) <= MaxCpus /\ Len(h.cpus) \in Nat
    BY <2>3, <2>4
  <2>11. ASSUME NEW i \in Enabled(m), Place(m, i) = 1 PROVE m[i].id = Bsp
    <3>1. ASSUME NEW j \in Enabled(m), ~ (i <= j) PROVE FALSE
      <4>1. {i, j} \subseteq EnabledTo(m, i) /\ i # j
        BY <1>2, <3>1 DEF EnabledTo
      <4>2. IsFiniteSet(EnabledTo(m, i))
        <5>1. EnabledTo(m, i) \subseteq 1 .. Len(m) /\ IsFiniteSet(1 .. Len(m))
          BY <1>2, FS_Interval DEF EnabledTo
        <5> QED BY <5>1, FS_Subset
      <4>3. Cardinality({i, j}) = 2 /\ Cardinality({i, j}) <= Cardinality(EnabledTo(m, i))
        <5>1. Cardinality({j}) = 1 /\ IsFiniteSet({j})
          BY FS_Singleton
        <5>2. Cardinality({j} \cup {i}) = 1 + 1
          BY <4>1, <5>1, FS_AddElement
        <5>3. {j} \cup {i} = {i, j}
          OBVIOUS
        <5>4. Cardinality({i, j}) <= Cardinality(EnabledTo(m, i))
          BY <4>1, <4>2, FS_Subset
        <5> QED BY <5>2, <5>3, <5>4
      <4> QED BY <2>11, <4>3 DEF Place
    <3>2. \A j \in Enabled(m) : i <= j
      BY <3>1
    <3> QED BY <1>1, <3>2 DEF IsTable
  <2>12. ASSUME NEW k \in DOMAIN h.cpus PROVE h.cpus[k] = Bsp <=> k = 1
    <3>1. h.cpus \in Seq(Ids)
      BY <1>8
    <3>2. DOMAIN h.cpus = 1 .. Len(h.cpus)
      BY <3>1, LenProperties
    <3>3. 1 \in 1 .. Len(h.cpus) /\ k \in 1 .. Len(h.cpus)
      BY <2>10, <3>2
    <3>4. PICK i \in Enabled(m) : Place(m, i) = k /\ h.cpus[k] = m[i].id
      BY <2>6, <3>3
    <3>5. PICK i1 \in Enabled(m) : Place(m, i1) = 1 /\ h.cpus[1] = m[i1].id
      BY <2>6, <3>3
    <3>6. m[i1].id = Bsp /\ (m[i].id = Bsp => i = i1)
      BY <1>1, <2>11, <3>5 DEF IsTable
    <3> QED BY <3>4, <3>5, <3>6
  <2>13. \E b \in DOMAIN info.tables : IsMadt(b) /\ FromTable(h, table(b).body)
    BY <1>1, <2>9 DEF m
  <2>14. h.inited
    BY <2>1
  <2> QED BY <1>8, <2>10, <2>12, <2>13, <2>14 DEF HwOk
<1> QED BY <1>9, <1>10 DEF h, m

LEMMA RootScanned ==
  ASSUME info \in Infos, NEW s, HwOk(s), ~ s.inited, NEW xsdt, NEW root
  PROVE  HwOk(scan_root(s, xsdt, root))
<1> DEFINE M == Madts(root, xsdt)
           body == table(root).body
           a == body[Min(M)]
<1>1. CASE ~ (tbl_ok(root) /\ M # {})
  <2>1. scan_root(s, xsdt, root) = s
    BY <1>1 DEF scan_root
  <2> QED BY <2>1
<1>2. CASE tbl_ok(root) /\ M # {}
  <2>1. scan_root(s, xsdt, root) = madt_collect(s, table(a).body)
    BY <1>2 DEF scan_root
  <2>2. IsMadt(a)
    <3>1. M \in SUBSET Nat
      <4>1. body \in Seq(ToSet(body))
        BY <1>2, FirmwareAssumption DEF tbl_ok, table
      <4>2. DOMAIN body = 1 .. Len(body) /\ Len(body) \in Nat
        BY <4>1, LenProperties
      <4> QED BY <4>2 DEF Madts, PointedAt
    <3>2. \E x \in M : \A y \in M : x <= y
      BY <1>2, <3>1, Smallest
    <3>3. Min(M) \in M
      BY <3>2 DEF Min
    <3> QED BY <3>3 DEF Madts
  <2> HIDE DEF a
  <2>3. HwOk(madt_collect(s, table(a).body))
    BY <2>2, Collected
  <2> QED BY <2>1, <2>3
<1> QED BY <1>1, <1>2

LEMMA TableRead ==
  ASSUME info \in Infos, HwOk(hw), ~ hw.inited, acpi_hw_init
  PROVE  HwOk(hw)'
<1> DEFINE p == Head(Rsdp)
           x == IF UsesXsdt(p) THEN scan_root(hw, TRUE, p.xsdt) ELSE hw
<1>1. HwOk(x)
  BY RootScanned
<1>2. HwOk(AcpiScan(p))
  <2>1. AcpiScan(p) = IF ~ x.inited /\ p.rsdt # 0 THEN scan_root(x, FALSE, p.rsdt) ELSE x
    BY DEF AcpiScan
  <2> HIDE DEF x
  <2> QED BY <1>1, <2>1, RootScanned
<1>3. HwOk(hw')
  BY <1>2 DEF acpi_hw_init
<1>4. info' = info
  BY DEF acpi_hw_init
<1> QED BY <1>3, <1>4 DEF HwOk, IsMadt, tbl_ok, table

-----------------------------------------------------------------------------
(***************************************************************************)
(* Processors, their numbers and their idle threads.                       *)
(***************************************************************************)
BeforeScan    == {"start", "vfs", "vfs read", "vfs close", "paging", "acpi"}
BeforeLapic   == BeforeScan \cup {"lapic"}
BeforeNumbers == BeforeLapic \cup {"apic map"}
BeforeAps     == BeforeNumbers \cup {"idle threads", "ioapic"}
WithIdles     == {"ioapic", "smp", "aps", "sipi"}
WithNumbers   == {"idle threads"} \cup WithIdles

At(id) == { i \in DOMAIN CpuList : CpuList[i] = id }
Numbered == logical = [id \in Ids |-> IF At(id) = {} THEN NoIndex ELSE Max(At(id)) - 1]
Idling == idles = 1 .. Len(CpuList) - 1

CpuInv ==
  /\ info \in Infos /\ HwOk(hw)
  /\ pc \in BeforeScan => ~ hw.inited
  /\ logical \in [Ids -> {NoIndex} \cup (0 .. MaxCpus - 1)]
  /\ idles \subseteq 1 .. MaxCpus - 1
  /\ pc \in BeforeAps => aps = {}
  /\ pc \in WithNumbers \/ aps # {} => Numbered
  /\ pc \in WithIdles \/ aps # {} => Idling
  /\ \A a \in aps : /\ a = <<a[1], a[2]>> /\ a[2] # 0
                    /\ \E k \in DOMAIN hw.cpus : k # 1 /\ a[1] = hw.cpus[k]

LEMMA Largest ==
  ASSUME NEW n \in Nat, NEW S \in SUBSET (1 .. n), S # {}
  PROVE  Max(S) \in S /\ \A x \in S : x <= Max(S)
<1> DEFINE R == { n - x : x \in S }
<1>1. R \in SUBSET Nat /\ R # {}
  <2>1. \A x \in S : x \in 1 .. n /\ n - x \in Nat
    OBVIOUS
  <2>2. PICK x \in S : TRUE
    OBVIOUS
  <2> QED BY <2>1, <2>2
<1>2. PICK y \in R : \A z \in R : y <= z
  BY <1>1, Smallest
<1>3. PICK x \in S : y = n - x
  BY <1>2
<1>4. \A z \in S : x >= z
  <2> SUFFICES ASSUME NEW z \in S PROVE x >= z
    OBVIOUS
  <2>1. n - z \in R
    OBVIOUS
  <2>2. n - x <= n - z
    BY <1>2, <1>3, <2>1
  <2> QED BY <2>2
<1>5. \E w \in S : \A z \in S : w >= z
  BY <1>4
<1>6. Max(S) \in S /\ \A z \in S : Max(S) >= z
  BY <1>5 DEF Max
<1> QED BY <1>6

\* The list has the boot processor first, and nowhere else.
LEMMA ListOfCpus ==
  ASSUME HwOk(hw)
  PROVE  /\ Len(CpuList) \in 1 .. MaxCpus /\ DOMAIN CpuList = 1 .. Len(CpuList)
         /\ \A k \in DOMAIN CpuList : CpuList[k] \in Ids /\ (CpuList[k] = Bsp <=> k = 1)
         /\ hw.cpus # << >> => CpuList = hw.cpus
<1>1. MaxCpus \in Nat \ {0} /\ Bsp \in Ids
  BY BootInfoAssumption
<1>2. /\ hw.cpus \in Seq(Ids) /\ Len(hw.cpus) <= MaxCpus
      /\ \A k \in DOMAIN hw.cpus : hw.cpus[k] = Bsp <=> k = 1
  BY DEF HwOk
<1>3. CASE hw.cpus = << >>
  <2>1. CpuList = <<Bsp>>
    BY <1>3 DEF CpuList
  <2>2. Len(<<Bsp>>) = 1 /\ DOMAIN <<Bsp>> = 1 .. 1 /\ <<Bsp>>[1] = Bsp
    OBVIOUS
  <2> QED BY <1>1, <1>3, <2>1, <2>2
<1>4. CASE hw.cpus # << >>
  <2>1. CpuList = hw.cpus
    BY <1>4 DEF CpuList
  <2>2. DOMAIN hw.cpus = 1 .. Len(hw.cpus) /\ Len(hw.cpus) \in Nat /\ Len(hw.cpus) # 0
    BY <1>2, <1>4
  <2>3. \A k \in DOMAIN hw.cpus : hw.cpus[k] \in Ids
    BY <1>2
  <2> QED BY <1>1, <1>2, <2>1, <2>2, <2>3
<1> QED BY <1>3, <1>4

LEMMA CpusNumbered ==
  ASSUME HwOk(hw), smp_bootstrap_apic_map
  PROVE  logical' \in [Ids -> {NoIndex} \cup (0 .. MaxCpus - 1)] /\ Numbered'
<1>1. logical' = [id \in Ids |-> IF At(id) = {} THEN NoIndex ELSE Max(At(id)) - 1]
  BY DEF smp_bootstrap_apic_map, At
<1>2. ASSUME NEW id \in Ids, At(id) # {} PROVE Max(At(id)) - 1 \in 0 .. MaxCpus - 1
  <2>1. At(id) \in SUBSET (1 .. Len(CpuList)) /\ Len(CpuList) \in Nat /\ Len(CpuList) <= MaxCpus
        /\ MaxCpus \in Nat
    BY ListOfCpus, BootInfoAssumption DEF At
  <2>2. Max(At(id)) \in 1 .. Len(CpuList)
    BY <1>2, <2>1, Largest
  <2> QED BY <2>1, <2>2
<1>3. UNCHANGED hw
  BY DEF smp_bootstrap_apic_map
<1>4. Numbered'
  BY <1>1, <1>3 DEF Numbered, At, CpuList
<1> QED BY <1>1, <1>2, <1>4

LEMMA CpuStep ==
  ASSUME CpuInv, [UNext]_uvars
  PROVE  CpuInv'
<1> USE DEF BeforeScan, BeforeLapic, BeforeNumbers, BeforeAps, WithIdles, WithNumbers
\* Most steps leave all of that alone.
<1>1. ASSUME UNCHANGED <<bootinfo, aps>>,
             pc' \in BeforeScan => pc \in BeforeScan,
             pc' \in BeforeAps => pc \in BeforeAps,
             pc' \in WithNumbers => pc \in WithNumbers,
             pc' \in WithIdles => pc \in WithIdles
      PROVE  CpuInv'
  <2>1. UNCHANGED <<info, hw, logical, idles>>
    BY <1>1 DEF bootinfo
  <2>2. HwOk(hw)'
    BY <2>1 DEF CpuInv, HwOk, IsMadt, tbl_ok, table
  <2>3. Numbered' = Numbered /\ Idling' = Idling
    BY <2>1 DEF Numbered, Idling, At, CpuList
  <2> QED BY <1>1, <2>1, <2>2, <2>3 DEF CpuInv
<1>2. CASE main_memory \/ verve_vfs_selftest \/ main_paging \/ lapic_bsp_early_init
           \/ ioapic_init_from_acpi \/ smp_install_trampoline \/ smp_start_ap \/ smp_done
  BY <1>1, <1>2 DEF main_memory, verve_vfs_selftest, main_paging, lapic_bsp_early_init,
    ioapic_init_from_acpi, smp_install_trampoline, smp_start_ap, smp_done
<1>3. CASE main_probe \/ verve_exec_flat_run \/ brk_page \/ brk_done
  <2>1. /\ UNCHANGED <<bootinfo, aps>>
        /\ pc' \notin BeforeAps \cup WithIdles
    BY <1>3 DEF main_probe, verve_exec_flat_run, verve_user_bringup_smoke,
      verve_proc_init_singleton, user_frames, map_text, map_stack, exec_flat_page, exec_flat_copy,
      brk_page, brk_done
  <2> QED BY <1>1, <2>1
<1>4. CASE syscall_invoke
  <2>1. /\ UNCHANGED <<bootinfo, aps>>
        /\ pc' \in {"user", "brk", "halted"}
    BY <1>4 DEF syscall_invoke, sys_brk, sys_write, verve_vfs_open_u, verve_vfs_read_u,
      verve_vfs_close_u, sys_exit
  <2> QED BY <1>1, <2>1
<1>5. CASE UNCHANGED uvars
  BY <1>1, <1>5 DEF uvars
<1>6. CASE main_acpi
  <2>1. pc = "acpi" /\ UNCHANGED aps /\ aps = {} /\ ~ hw.inited
    BY <1>6 DEF main_acpi, CpuInv
  <2>2. CASE acpi_hw_init /\ pc' = "lapic"
    <3>1. HwOk(hw)'
      BY <2>1, <2>2, TableRead DEF CpuInv
    <3> QED BY <2>1, <2>2, <3>1 DEF CpuInv, acpi_hw_init
  <2>3. CASE pc' = "halted" /\ UNCHANGED bootinfo
    BY <1>1, <2>1, <2>3
  <2> QED BY <1>6, <2>2, <2>3 DEF main_acpi
<1>7. CASE main_number_cpus
  <2>1. UNCHANGED aps /\ aps = {}
    BY <1>7 DEF main_number_cpus, CpuInv
  <2>2. CASE pc = "apic map" /\ smp_bootstrap_apic_map /\ pc' = "idle threads"
    <3>1. logical' \in [Ids -> {NoIndex} \cup (0 .. MaxCpus - 1)] /\ Numbered'
      BY <2>2, CpusNumbered DEF CpuInv
    <3>2. UNCHANGED <<info, hw, idles>>
      BY <2>2 DEF smp_bootstrap_apic_map
    <3>3. HwOk(hw)'
      BY <3>2 DEF CpuInv, HwOk, IsMadt, tbl_ok, table
    <3> QED BY <2>1, <2>2, <3>1, <3>2, <3>3 DEF CpuInv
  <2>3. CASE pc = "idle threads" /\ thread_subsystem_early_init /\ pc' = "ioapic"
    <3>1. UNCHANGED <<info, hw, logical>> /\ idles' = 1 .. Len(CpuList) - 1
      BY <2>3 DEF thread_subsystem_early_init
    <3>2. HwOk(hw)'
      BY <3>1 DEF CpuInv, HwOk, IsMadt, tbl_ok, table
    <3>3. Numbered' /\ Idling'
      <4>1. CpuList' = CpuList
        BY <3>1 DEF CpuList
      <4>2. Numbered
        BY <2>3 DEF CpuInv
      <4>3. Numbered'
        BY <3>1, <4>1, <4>2 DEF Numbered, At
      <4> QED BY <3>1, <4>1, <4>3 DEF Idling
    <3>4. idles' \subseteq 1 .. MaxCpus - 1
      <4>1. Len(CpuList) \in 1 .. MaxCpus /\ MaxCpus \in Nat
        BY ListOfCpus, BootInfoAssumption DEF CpuInv
      <4> QED BY <3>1, <4>1
    <3> QED BY <2>1, <2>3, <3>1, <3>2, <3>3, <3>4 DEF CpuInv
  <2> QED BY <1>7, <2>2, <2>3 DEF main_number_cpus
<1>8. CASE smp_stack
  <2>1. pc = "aps" /\ pc' \in {"aps", "sipi"} /\ UNCHANGED bootinfo /\ next \in DOMAIN hw.cpus
    BY <1>8 DEF smp_stack
  <2>2. CASE UNCHANGED aps
    BY <1>1, <2>1, <2>2
  <2>3. CASE hw.cpus[next] # Bsp /\ \E f \in 1 .. count : aps' = aps \cup {<<hw.cpus[next], f>>}
    <3>1. PICK f \in 1 .. count : aps' = aps \cup {<<hw.cpus[next], f>>}
      BY <2>3
    <3>2. UNCHANGED <<info, hw, logical, idles>>
      BY <2>1 DEF bootinfo
    <3>3. HwOk(hw)' /\ Numbered' = Numbered /\ Idling' = Idling
      <4>1. HwOk(hw)'
        BY <3>2 DEF CpuInv, HwOk, IsMadt, tbl_ok, table
      <4>2. Numbered' = Numbered /\ Idling' = Idling
        BY <3>2 DEF Numbered, Idling, At, CpuList
      <4> QED BY <4>1, <4>2
    <3>4. next # 1
      BY <2>1, <2>3 DEF CpuInv, HwOk
    <3>5. ASSUME NEW a \in aps'
          PROVE  /\ a = <<a[1], a[2]>> /\ a[2] # 0
                 /\ \E k \in DOMAIN hw.cpus : k # 1 /\ a[1] = hw.cpus[k]
      <4>1. CASE a \in aps
        BY <4>1 DEF CpuInv
      <4>2. CASE a = <<hw.cpus[next], f>>
        <5>1. f # 0
          BY <3>1
        <5> QED BY <2>1, <3>4, <4>2, <5>1
      <4> QED BY <3>1, <4>1, <4>2
    <3> QED BY <2>1, <3>2, <3>3, <3>5 DEF CpuInv
  <2> QED BY <1>8, <2>2, <2>3 DEF smp_stack
<1> QED BY <1>2, <1>3, <1>4, <1>5, <1>6, <1>7, <1>8 DEF UNext

-----------------------------------------------------------------------------
(***************************************************************************)
(* Device pages.  The LAPIC's is the first that is mapped, so it has slot  *)
(* 0; the I/O APIC's goes to the same table, at another index, or to a     *)
(* slot that lies behind.                                                  *)
(***************************************************************************)
Cloned == {"code", "stack", "text", "map_stack", "extra text", "flat", "user", "brk"}

MemTop == base + MmioSlots * (Entries + 2)

DeviceInv ==
  /\ base \in Nat /\ mem \in [0 .. MemTop - 1 -> Nat]
  /\ pc \in BeforeLapic => boot_pd = << >> /\ \A a \in DOMAIN mem : mem[a] = 0
  /\ pc \in {"apic map", "idle threads", "ioapic"} =>
       boot_pd = [d \in {Dir(Lapic)} |-> Tbl(0) \div Entries] /\ mem[Used(0)] = 1
  /\ pc \notin BeforeLapic \cup {"halted"} => Reaches(boot_pd, Lapic)
  /\ pc \in Cloned => dir = boot_pd

LEMMA PageNumbers ==
  ASSUME NEW page \in Nat
  PROVE  /\ Dir(page) \in Nat /\ Index(page) \in 0 .. Entries - 1 /\ Pte(page) \in Nat
         /\ \A q \in Nat : Dir(q) = Dir(page) /\ Index(q) = Index(page) => q = page
<1> DEFINE E == Entries
<1>1. E \in Nat \ {0}
  BY MmioAssumption
<1> HIDE DEF E
<1>2. page \div E \in Nat
  BY <1>1, SMTT(30)
<1>3. page % E \in 0 .. E - 1
  BY <1>1, SMTT(30)
<1>4. ASSUME NEW q \in Nat, q \div E = page \div E, q % E = page % E PROVE q = page
  BY <1>1, <1>4, SMTT(30)
<1>5. Pte(page) \in Nat
  BY DEF Pte
<1> QED BY <1>2, <1>3, <1>4, <1>5 DEF Dir, Index, E

LEMMA SlotBounds ==
  ASSUME base \in Nat, NEW i \in Slots
  PROVE  /\ Used(i) \in Nat /\ PdIdx(i) = Used(i) + 1 /\ Tbl(i) = Used(i) + 2
         /\ Used(0) = base
         /\ i # 0 => Used(i) >= base + Entries + 2
         /\ MemTop \in Nat /\ Tbl(i) + Entries <= MemTop
<1> DEFINE w == Entries + 2
<1>1. Entries \in Nat \ {0} /\ MmioSlots \in Nat \ {0} /\ i \in 0 .. MmioSlots - 1 /\ w \in Nat
  BY MmioAssumption DEF Slots
<1>2. w = Entries + 2
  OBVIOUS
<1> HIDE DEF w
<1>3. /\ i * w \in Nat /\ 0 * w = 0 /\ (i # 0 => i * w >= w) /\ i * w + w <= MmioSlots * w
  BY <1>1, SMTT(30)
<1>4. Used(i) = base + i * w /\ Used(0) = base + 0 * w
  BY DEF Used, w
<1>5. MemTop = base + MmioSlots * w
  BY DEF MemTop, w
<1>6. PdIdx(i) = Used(i) + 1 /\ Tbl(i) = Used(i) + 2
  BY DEF PdIdx, Tbl
<1>7. MmioSlots * w \in Nat
  BY <1>1, <1>3, SMTT(30)
<1> QED BY <1>1, <1>2, <1>3, <1>4, <1>5, <1>6, <1>7

\* What map_in_slot leaves of the words.
LEMMA SlotTaken ==
  ASSUME DeviceInv, NEW page \in Nat, map_in_slot(page)
  PROVE  \E i \in Unused :
           /\ \A j \in Unused : i <= j
           /\ mem' \in [0 .. MemTop - 1 -> Nat]
           /\ mem'[Used(i)] = 1
           /\ \A a \in DOMAIN mem : a < Used(i) \/ a >= Tbl(i) + Entries => mem'[a] = mem[a]
           /\ boot_pd' = [d \in DOMAIN boot_pd \cup {Dir(page)} |->
                            IF d = Dir(page) THEN Tbl(i) \div Entries ELSE boot_pd[d]]
<1>1. PICK i \in Unused :
         /\ \A j \in Unused : i <= j
         /\ mem' = [a \in DOMAIN mem |->
                      CASE a = Used(i) -> 1
                        [] a = PdIdx(i) -> Dir(page)
                        [] a = Tbl(i) + Index(page) -> Pte(page)
                        [] a \in Tbl(i) .. Tbl(i) + Entries - 1
                             /\ a # Tbl(i) + Index(page) -> 0
                        [] OTHER -> mem[a]]
         /\ boot_pd' = [d \in DOMAIN boot_pd \cup {Dir(page)} |->
                          IF d = Dir(page) THEN Tbl(i) \div Entries ELSE boot_pd[d]]
  BY DEF map_in_slot
<1> DEFINE u == Used(i)
<1>2. /\ u \in Nat /\ PdIdx(i) = u + 1 /\ Tbl(i) = u + 2
      /\ Tbl(i) + Entries <= MemTop /\ base \in Nat /\ Entries \in Nat \ {0} /\ MemTop \in Nat
  BY SlotBounds, MmioAssumption DEF DeviceInv, Unused
<1>3. DOMAIN mem = 0 .. MemTop - 1 /\ \A a \in 0 .. MemTop - 1 : mem[a] \in Nat
  BY DEF DeviceInv
<1>4. Dir(page) \in Nat /\ Index(page) \in 0 .. Entries - 1 /\ Pte(page) \in Nat
  BY PageNumbers
<1>5. \A a \in 0 .. MemTop - 1 : a \in Nat
  BY <1>2
<1> HIDE DEF u
<1>6. DOMAIN mem' = 0 .. MemTop - 1
  BY <1>1, <1>3
<1>7. ASSUME NEW a \in 0 .. MemTop - 1 PROVE mem'[a] \in Nat
  <2>1. mem'[a] \in {1, Dir(page), Pte(page), 0, mem[a]}
    BY <1>1, <1>3
  <2> QED BY <1>3, <1>4, <2>1
<1>8. mem'[u] = 1
  <2>1. u \in 0 .. MemTop - 1
    BY <1>2
  <2>2. u # PdIdx(i) /\ u # Tbl(i) + Index(page) /\ u \notin Tbl(i) .. Tbl(i) + Entries - 1
    BY <1>2, <1>4
  <2> QED BY <1>1, <1>3, <2>1, <2>2 DEF u
<1>9. ASSUME NEW a \in 0 .. MemTop - 1, a < u \/ a >= Tbl(i) + Entries PROVE mem'[a] = mem[a]
  <2>1. a # u /\ a # PdIdx(i) /\ a # Tbl(i) + Index(page) /\ a \notin Tbl(i) .. Tbl(i) + Entries - 1
    BY <1>2, <1>4, <1>5, <1>9
  <2> QED BY <1>1, <1>3, <2>1 DEF u
<1>10. mem' = [a \in 0 .. MemTop - 1 |-> mem'[a]]
  BY <1>1, <1>3
<1>11. mem' \in [0 .. MemTop - 1 -> Nat]
  BY <1>7, <1>10
<1> QED BY <1>1, <1>3, <1>8, <1>9, <1>11 DEF u

LEMMA LapicMapped ==
  ASSUME DeviceInv, pc = "lapic", paging_map_identity_page(Lapic)
  PROVE  /\ base' = base
         /\ mem' \in [0 .. MemTop - 1 -> Nat]
         /\ boot_pd' = [d \in {Dir(Lapic)} |-> Tbl(0) \div Entries] /\ mem'[Used(0)] = 1
<1>1. /\ boot_pd = << >> /\ \A a \in DOMAIN mem : mem[a] = 0
      /\ base \in Nat /\ mem \in [0 .. MemTop - 1 -> Nat]
  BY DEF DeviceInv, BeforeLapic
<1>2. Lapic \in Nat /\ 0 \in Slots
  BY UserSpaceAssumption, MmioAssumption DEF Slots
<1>3. 0 \in Unused
  <2>1. Used(0) \in 0 .. MemTop - 1
    <3>1. Used(0) \in Nat /\ Tbl(0) = Used(0) + 2 /\ Tbl(0) + Entries <= MemTop
          /\ Entries \in Nat \ {0} /\ MemTop \in Nat
      BY <1>1, <1>2, SlotBounds, MmioAssumption
    <3> QED BY <3>1
  <2> QED BY <1>1, <1>2, <2>1 DEF Unused
<1>4. DOMAIN boot_pd = {}
  BY <1>1
<1>5. map_in_slot(Lapic)
  BY <1>3, <1>4 DEF paging_map_identity_page, map_in_table, map_refused
<1>6. PICK i \in Unused :
           /\ \A j \in Unused : i <= j
           /\ mem' \in [0 .. MemTop - 1 -> Nat]
           /\ mem'[Used(i)] = 1
           /\ boot_pd' = [d \in DOMAIN boot_pd \cup {Dir(Lapic)} |->
                            IF d = Dir(Lapic) THEN Tbl(i) \div Entries ELSE boot_pd[d]]
  BY <1>2, <1>5, SlotTaken
<1>7. i = 0
  BY <1>3, <1>6, MmioAssumption DEF Unused, Slots
<1>8. base' = base
  BY <1>5 DEF map_in_slot
<1> QED BY <1>4, <1>6, <1>7, <1>8

LEMMA IoapicMapped ==
  ASSUME DeviceInv, pc = "ioapic", NEW page \in Nat, paging_map_identity_page(page)
  PROVE  /\ base' = base
         /\ mem' \in [0 .. MemTop - 1 -> Nat]
         /\ Reaches(boot_pd, Lapic)'
<1> DEFINE word == boot_pd[Dir(Lapic)] * Entries + Index(Lapic)
<1>1. /\ boot_pd = [d \in {Dir(Lapic)} |-> Tbl(0) \div Entries] /\ mem[Used(0)] = 1
      /\ base \in Nat /\ mem \in [0 .. MemTop - 1 -> Nat]
      /\ mem[word] = Pte(Lapic)
  BY DEF DeviceInv, BeforeLapic, BeforeScan, Reaches
<1>2. Lapic \in Nat /\ 0 \in Slots /\ Entries \in Nat \ {0}
  BY <1>1, UserSpaceAssumption, MmioAssumption DEF Slots
<1>3. /\ Dir(page) \in Nat /\ Index(page) \in 0 .. Entries - 1 /\ Pte(page) \in Nat
      /\ Index(Lapic) \in 0 .. Entries - 1
      /\ Dir(Lapic) = Dir(page) /\ Index(Lapic) = Index(page) => Lapic = page
  BY <1>2, PageNumbers
<1>4. Used(0) = base /\ Tbl(0) = base + 2 /\ Tbl(0) + Entries <= MemTop /\ MemTop \in Nat
  BY <1>1, <1>2, SlotBounds
<1>5. boot_pd[Dir(Lapic)] = Tbl(0) \div Entries /\ DOMAIN boot_pd = {Dir(Lapic)}
  BY <1>1
<1> DEFINE q == Tbl(0) \div Entries
<1>6. q \in Nat /\ q * Entries \in Nat /\ q * Entries <= Tbl(0)
  <2>1. Tbl(0) \in Nat
    BY <1>1, <1>4
  <2> HIDE DEF q
  <2>2. q = Tbl(0) \div Entries
    BY DEF q
  <2> QED BY <1>2, <2>1, <2>2, SMTT(30)
<1>7. word = q * Entries + Index(Lapic)
  BY <1>5
<1> HIDE DEF q, word
<1>8. word \in 0 .. MemTop - 1 /\ word < Tbl(0) + Entries
  <2> DEFINE n == q * Entries
  <2>1. n \in Nat /\ n <= Tbl(0) /\ word = n + Index(Lapic)
    BY <1>6, <1>7
  <2> HIDE DEF n
  <2>2. Index(Lapic) \in 0 .. Entries - 1 /\ Entries \in Nat \ {0}
    BY <1>2, <1>3
  <2>3. Tbl(0) \in Nat /\ Tbl(0) + Entries <= MemTop /\ MemTop \in Nat
    BY <1>1, <1>4
  <2> QED BY <2>1, <2>2, <2>3
<1>9. CASE map_in_table(page)
  <2>1. /\ Dir(page) = Dir(Lapic) /\ UNCHANGED <<base, boot_pd>>
        /\ mem' = [mem EXCEPT ![q * Entries + Index(page)] = Pte(page)]
    BY <1>5, <1>9 DEF map_in_table, q
  <2>2. mem' \in [0 .. MemTop - 1 -> Nat]
    BY <1>1, <1>3, <2>1
  <2>3. mem'[word] = Pte(Lapic)
    <3>1. CASE page = Lapic
      BY <1>1, <1>7, <1>8, <2>1, <3>1
    <3>2. CASE page # Lapic
      <4>1. q * Entries + Index(page) # word
        BY <1>3, <1>6, <1>7, <2>1, <3>2
      <4> QED BY <1>1, <1>8, <2>1, <4>1
    <3> QED BY <3>1, <3>2
  <2> QED BY <1>5, <2>1, <2>2, <2>3 DEF Reaches, word, Dir, Index, Pte
<1>10. CASE map_in_slot(page)
  <2>1. PICK i \in Unused :
           /\ mem' \in [0 .. MemTop - 1 -> Nat]
           /\ \A a \in DOMAIN mem : a < Used(i) \/ a >= Tbl(i) + Entries => mem'[a] = mem[a]
           /\ boot_pd' = [d \in DOMAIN boot_pd \cup {Dir(page)} |->
                            IF d = Dir(page) THEN Tbl(i) \div Entries ELSE boot_pd[d]]
    BY <1>10, SlotTaken
  <2>2. i \in Slots /\ i # 0
    BY <1>1 DEF Unused
  <2>3. Used(i) \in Nat /\ Used(i) >= base + Entries + 2
    BY <1>1, <2>2, SlotBounds
  <2>4. word < Used(i)
    BY <1>1, <1>2, <1>4, <1>8, <2>3
  <2>5. mem'[word] = Pte(Lapic)
    BY <1>1, <1>8, <2>1, <2>4
  <2>6. base' = base /\ Dir(page) # Dir(Lapic)
    BY <1>5, <1>10 DEF map_in_slot
  <2>7. Dir(Lapic) \in DOMAIN boot_pd' /\ boot_pd'[Dir(Lapic)] = boot_pd[Dir(Lapic)]
    BY <1>5, <2>1, <2>6
  <2>8. Reaches(boot_pd, Lapic)'
    BY <2>5, <2>7 DEF Reaches, word, Dir, Index, Pte
  <2> QED BY <2>1, <2>6, <2>8
<1>11. CASE map_refused(page)
  <2>1. UNCHANGED <<base, mem, boot_pd>>
    BY <1>11 DEF map_refused, mmio
  <2> QED BY <1>1, <1>5, <2>1 DEF Reaches, word, Dir, Index, Pte
<1> QED BY <1>9, <1>10, <1>11 DEF paging_map_identity_page

LEMMA DeviceStep ==
  ASSUME CpuInv, DeviceInv, [UNext]_uvars
  PROVE  DeviceInv'
<1> USE DEF BeforeScan, BeforeLapic, Cloned
<1>0. UNCHANGED base => Used(0)' = Used(0) /\ Tbl(0)' = Tbl(0) /\ MemTop' = MemTop
  BY DEF Used, Tbl, MemTop
\* Most steps leave the pages alone.
<1>1. ASSUME UNCHANGED <<base, mem, boot_pd, dir>>,
             pc' \in BeforeLapic => pc \in BeforeLapic,
             pc' \in {"apic map", "idle threads", "ioapic"} => pc \in {"apic map", "idle threads", "ioapic"},
             pc' # "halted" => pc # "halted" /\ (pc \in BeforeLapic => pc' \in BeforeLapic),
             pc' \in Cloned => pc \in Cloned
      PROVE  DeviceInv'
  <2>1. Reaches(boot_pd, Lapic)' = Reaches(boot_pd, Lapic)
    BY <1>1 DEF Reaches, Dir, Index, Pte
  <2>2. Used(0)' = Used(0) /\ Tbl(0)' = Tbl(0) /\ MemTop' = MemTop
    BY <1>0, <1>1
  <2> QED BY <1>1, <2>1, <2>2 DEF DeviceInv, Dir
<1>2. CASE main_memory \/ verve_vfs_selftest \/ main_paging \/ main_acpi
           \/ main_number_cpus \/ smp_install_trampoline \/ smp_stack \/ smp_start_ap \/ smp_done
  BY <1>1, <1>2 DEF main_memory, verve_vfs_selftest, main_paging, main_acpi,
    main_number_cpus, smp_install_trampoline, smp_stack, smp_start_ap, smp_done, mmio, proc
<1>3. CASE main_probe \/ user_frames \/ map_text \/ map_stack
           \/ exec_flat_page \/ exec_flat_copy \/ brk_page \/ brk_done
  BY <1>1, <1>3 DEF main_probe, user_frames, map_text, map_stack,
      exec_flat_page, exec_flat_copy, brk_page, brk_done, mmio, proc
<1>4. CASE syscall_invoke
  <2>1. /\ UNCHANGED <<mmio, proc>>
        /\ pc \in {"user", "flat"} /\ pc' \in {"user", "brk", "halted"}
    BY <1>4 DEF syscall_invoke, sys_brk, sys_write, verve_vfs_open_u, verve_vfs_read_u,
      verve_vfs_close_u, sys_exit
  <2>2. UNCHANGED <<base, mem, boot_pd, dir>>
    BY <2>1 DEF mmio, proc
  <2> QED BY <1>1, <2>1, <2>2
<1>5. CASE UNCHANGED uvars
  BY <1>1, <1>5 DEF uvars, mmio, proc
<1>6. CASE lapic_bsp_early_init
  <2>1. /\ pc = "lapic" /\ paging_map_identity_page(Lapic)
        /\ pc' = IF Reaches(boot_pd, Lapic)' THEN "apic map" ELSE "halted"
    BY <1>6 DEF lapic_bsp_early_init
  <2>2. /\ base' = base
        /\ mem' \in [0 .. MemTop - 1 -> Nat]
        /\ boot_pd' = [d \in {Dir(Lapic)} |-> Tbl(0) \div Entries] /\ mem'[Used(0)] = 1
    BY <2>1, LapicMapped
  <2>3. Used(0)' = Used(0) /\ Tbl(0)' = Tbl(0) /\ MemTop' = MemTop
    BY <1>0, <2>2
  <2> QED BY <2>1, <2>2, <2>3 DEF DeviceInv, Dir
<1>7. CASE ioapic_init_from_acpi
  <2>1. CASE pc' = "smp" /\ UNCHANGED mmio
    <3>1. pc = "ioapic" /\ UNCHANGED <<base, mem, boot_pd>>
      BY <1>7, <2>1 DEF ioapic_init_from_acpi, mmio
    <3>2. Reaches(boot_pd, Lapic)'
      BY <3>1 DEF DeviceInv, Reaches, Dir, Index, Pte
    <3> QED BY <1>0, <2>1, <3>1, <3>2 DEF DeviceInv
  <2>2. CASE paging_map_identity_page(hw.ioapic) /\ pc' \in {"smp", "halted"}
    <3>1. pc = "ioapic" /\ hw.ioapic \in Nat
      BY <1>7 DEF ioapic_init_from_acpi, CpuInv, HwOk
    <3>2. /\ base' = base
          /\ mem' \in [0 .. MemTop - 1 -> Nat]
          /\ Reaches(boot_pd, Lapic)'
      BY <2>2, <3>1, IoapicMapped
    <3> QED BY <1>0, <2>2, <3>1, <3>2 DEF DeviceInv
  <2> QED BY <1>7, <2>1, <2>2 DEF ioapic_init_from_acpi
<1>8. CASE verve_proc_init_singleton
  <2>1. /\ pc = "clone" /\ UNCHANGED mmio
        /\ \/ pc' = "halted"
           \/ pc' = "code" /\ dir' = boot_pd
    BY <1>8 DEF verve_proc_init_singleton
  <2>2. UNCHANGED <<base, mem, boot_pd>>
    BY <2>1 DEF mmio
  <2>3. Reaches(boot_pd, Lapic)'
    BY <2>1, <2>2 DEF DeviceInv, Reaches, Dir, Index, Pte
  <2> QED BY <1>0, <2>1, <2>2, <2>3 DEF DeviceInv
<1> QED BY <1>2, <1>3, <1>4, <1>5, <1>6, <1>7, <1>8
     DEF UNext, verve_exec_flat_run, verve_user_bringup_smoke

-----------------------------------------------------------------------------
(***************************************************************************)
(* The loops that map pages stay below the cap, and an entry that is       *)
(* written has a frame.                                                    *)
(***************************************************************************)
EntryOk(p) == pte[p] = NoEntry \/ (pte[p].flags = RWU /\ pte[p].frame # 0)

WordInv ==
  /\ brk \in {0} \cup (HeapPage .. CapPage - 1) /\ goal \in {0} \cup (HeapPage .. CapPage - 1)
  /\ va \in {0} \cup (StackPage .. CapPage) /\ prog \in {0} \cup FlatLens
  /\ pc = "text" => code # 0
  /\ pc \in {"text", "map_stack"} => stk # 0
  /\ \A p \in UserPages : EntryOk(p)

LEMMA WordStep ==
  ASSUME UserInv, WordInv, [UNext]_uvars
  PROVE  WordInv'
<1>0. /\ TextPage \in Nat /\ StackPage = TextPage + 1 /\ HeapPage = TextPage + 2 /\ CapPage \in Nat
      /\ HeapPage < CapPage /\ UserPages = TextPage .. CapPage - 1
      /\ TextPage \in UserPages /\ StackPage \in UserPages
  BY UserFacts
\* Most steps leave the words and the entries alone.
<1>1. ASSUME UNCHANGED <<brk, goal, va, prog, pte>>, pc' \notin {"text", "map_stack"} PROVE WordInv'
  BY <1>1 DEF WordInv, EntryOk
\* Steps that write one entry.
<1>2. ASSUME NEW q \in UserPages, NEW f, f # 0, pte' = [pte EXCEPT ![q] = [frame |-> f, flags |-> RWU]]
      PROVE  (\A p \in UserPages : EntryOk(p))'
  <2>1. pte \in [UserPages -> [frame : Nat, flags : {{}, RWU}]]
    BY DEF UserInv, PteInv
  <2>2. pte'[q] = [frame |-> f, flags |-> RWU] /\ \A p \in UserPages \ {q} : pte'[p] = pte[p]
    BY <1>2, <2>1
  <2> QED BY <1>2, <2>2 DEF WordInv, EntryOk
<1>3. CASE main_memory \/ verve_vfs_selftest \/ main_paging \/ main_acpi \/ lapic_bsp_early_init
           \/ main_number_cpus \/ ioapic_init_from_acpi \/ smp_install_trampoline
           \/ smp_stack \/ smp_start_ap \/ smp_done \/ main_probe
  BY <1>1, <1>3 DEF main_memory, verve_vfs_selftest, main_paging, main_acpi, lapic_bsp_early_init,
    main_number_cpus, ioapic_init_from_acpi, smp_install_trampoline, smp_stack, smp_start_ap,
    smp_done, main_probe, proc, heap
<1>4. CASE exec_flat_copy \/ UNCHANGED uvars
  <2>1. UNCHANGED <<brk, goal, va, prog, pte, code, stk>> /\ (pc' = pc \/ pc' = "flat")
    BY <1>4 DEF exec_flat_copy, uvars, proc, heap
  <2> QED BY <2>1 DEF WordInv, EntryOk
<1>5. CASE verve_proc_init_singleton
  <2>1. /\ brk' = HeapPage /\ prog' \in FlatLens \cup {0} /\ pc' \notin {"text", "map_stack"}
        /\ UNCHANGED <<goal, va, pte>>
    BY <1>5 DEF verve_proc_init_singleton
  <2>2. HeapPage \in HeapPage .. CapPage - 1
    BY <1>0
  <2> QED BY <2>1, <2>2 DEF WordInv, EntryOk
<1>6. CASE user_frames
  <2>1. UNCHANGED <<brk, goal, va, prog, pte>>
    BY <1>6 DEF user_frames, heap
  <2>2. pc' \notin {"text", "map_stack"} \/ (pc' = "text" /\ code' # 0 /\ stk' # 0)
    BY <1>6 DEF user_frames
  <2> QED BY <2>1, <2>2 DEF WordInv, EntryOk
<1>7. CASE map_text
  <2>1. pc = "text" /\ UNCHANGED <<brk, goal, va, prog, stk>> /\ code # 0 /\ stk # 0
    BY <1>7 DEF map_text, heap, WordInv
  <2>2. CASE pc' = "halted" /\ UNCHANGED pte
    BY <1>1, <2>1, <2>2
  <2>3. CASE pc' = "map_stack" /\ pte' = [pte EXCEPT ![TextPage] = [frame |-> code, flags |-> RWU]]
    <3>1. (\A p \in UserPages : EntryOk(p))'
      BY <1>0, <1>2, <2>1, <2>3
    <3> QED BY <2>1, <2>3, <3>1 DEF WordInv
  <2> QED BY <1>7, <2>2, <2>3 DEF map_text
<1>8. CASE map_stack
  <2>1. /\ pte' = [pte EXCEPT ![StackPage] = [frame |-> stk, flags |-> RWU]]
        /\ stk # 0 /\ UNCHANGED <<brk, goal, prog>>
        /\ pc' \in {"user", "extra text"} /\ (va' = va \/ va' = TextPage + 1)
    BY <1>8 DEF map_stack, WordInv
  <2>2. (\A p \in UserPages : EntryOk(p))'
    BY <1>0, <1>2, <2>1
  <2>3. va' \in {0} \cup (StackPage .. CapPage)
    <3>1. TextPage + 1 \in StackPage .. CapPage
      BY <1>0
    <3>2. va \in {0} \cup (StackPage .. CapPage)
      BY DEF WordInv
    <3>3. va' = va \/ va' = TextPage + 1
      BY <2>1
    <3> QED BY <3>1, <3>2, <3>3
  <2> QED BY <2>1, <2>2, <2>3 DEF WordInv
<1>9. CASE exec_flat_page
  <2>1. /\ pc = "extra text" /\ va < TextPage + TextPages /\ UNCHANGED <<brk, goal, prog>>
    BY <1>9 DEF exec_flat_page
  <2>2. prog \in FlatLens /\ va \in StackPage .. TextPage + TextPages
    BY <2>1 DEF UserInv, LoaderInv
  <2>3. TextPages \in Nat /\ TextPage + TextPages <= CapPage
    BY <2>2, TextFits
  <2>4. va \in UserPages /\ va + 1 \in StackPage .. CapPage
    <3> DEFINE end == TextPage + TextPages
    <3>1. end \in Nat /\ end <= CapPage
      BY <1>0, <2>3
    <3>2. va \in StackPage .. end /\ va < end
      BY <2>1, <2>2
    <3> HIDE DEF end
    <3> QED BY <1>0, <3>1, <3>2
  <2>5. CASE pc' = "halted" /\ UNCHANGED <<pte, va>>
    BY <1>1, <2>1, <2>5
  <2>6. CASE \E f \in 0 .. count : /\ f # 0 /\ pte' = [pte EXCEPT ![va] = [frame |-> f, flags |-> RWU]]
                                   /\ va' = va + 1 /\ UNCHANGED pc
    <3>1. (\A p \in UserPages : EntryOk(p))'
      BY <1>2, <2>4, <2>6
    <3> QED BY <2>1, <2>4, <2>6, <3>1 DEF WordInv
  <2> QED BY <1>9, <2>5, <2>6 DEF exec_flat_page
<1>10. ASSUME NEW page \in UserPages, sys_brk(page) PROVE WordInv'
  <2>1. /\ pc = "user" /\ pc' = "brk" /\ va' = brk /\ goal' = page
        /\ HeapPage <= page /\ page < CapPage /\ UNCHANGED <<brk, prog, pte>>
    BY <1>10 DEF sys_brk, proc
  <2>2. brk \in HeapPage .. CapPage - 1
    BY <2>1 DEF UserInv, BrkInv
  <2>3. va' \in {0} \cup (StackPage .. CapPage) /\ goal' \in HeapPage .. CapPage - 1
    BY <1>0, <2>1, <2>2
  <2> QED BY <2>1, <2>2, <2>3 DEF WordInv, EntryOk
<1>11. CASE brk_page
  <2>1. pc = "brk" /\ va < goal /\ UNCHANGED <<brk, goal, prog>>
    BY <1>11 DEF brk_page
  <2>2. goal \in HeapPage .. CapPage - 1 /\ va \in brk .. goal /\ brk \in HeapPage .. CapPage - 1
    BY <2>1 DEF UserInv, BrkInv
  <2>3. va \in UserPages /\ va + 1 \in StackPage .. CapPage
    BY <1>0, <2>1, <2>2
  <2>4. CASE pc' = "user" /\ UNCHANGED <<pte, va>>
    BY <1>1, <2>1, <2>4
  <2>5. CASE \E f \in 0 .. count : /\ f # 0 /\ pte' = [pte EXCEPT ![va] = [frame |-> f, flags |-> RWU]]
                                   /\ va' = va + 1 /\ UNCHANGED pc
    <3>1. (\A p \in UserPages : EntryOk(p))'
      BY <1>2, <2>3, <2>5
    <3> QED BY <2>1, <2>3, <2>5, <3>1 DEF WordInv
  <2> QED BY <1>11, <2>4, <2>5 DEF brk_page
<1>12. CASE brk_done
  BY <1>12 DEF brk_done, proc, WordInv, EntryOk
<1>13. CASE syscall_invoke
  <2>1. CASE \E page \in UserPages : sys_brk(page)
    BY <1>10, <2>1
  <2>2. ASSUME ~ \E page \in UserPages : sys_brk(page) PROVE WordInv'
    <3>1. UNCHANGED <<proc, heap>> /\ pc \in {"user", "flat"} /\ pc' \in {"user", "halted"}
      BY <1>13, <2>2 DEF syscall_invoke, sys_write, verve_vfs_open_u, verve_vfs_read_u,
        verve_vfs_close_u, sys_exit
    <3> QED BY <1>1, <3>1 DEF proc, heap
  <2> QED BY <2>1, <2>2
<1> QED BY <1>3, <1>4, <1>5, <1>6, <1>7, <1>8, <1>9, <1>11, <1>12, <1>13
     DEF UNext, verve_exec_flat_run, verve_user_bringup_smoke

-----------------------------------------------------------------------------
FullInv == UserInv /\ CpuInv /\ DeviceInv /\ WordInv

LEMMA FullInit == UInit => FullInv
<1> SUFFICES ASSUME UInit PROVE FullInv
  OBVIOUS
<1>1. pc = "start" /\ aps = {} /\ boot_pd = << >> /\ code = 0 /\ stk = 0
  BY DEF UInit, MmioInit
<1>2. UserInv
  BY UserInit
<1>3. CpuInv
  <2>1. /\ info \in Infos /\ hw = [cpus |-> << >>, ioapic |-> 0, inited |-> FALSE]
        /\ logical = [id \in Ids |-> NoIndex] /\ idles = {}
    BY DEF UInit, BootInfoInit
  <2>2. << >> \in Seq(Ids) /\ Len(<< >>) = 0 /\ DOMAIN << >> = {}
    OBVIOUS
  <2>3. hw \in [cpus : Seq(Ids), ioapic : Nat, inited : BOOLEAN]
    BY <2>1, <2>2
  <2>4. HwOk(hw)
    BY <2>1, <2>2, <2>3, BootInfoAssumption DEF HwOk
  <2> QED BY <1>1, <2>1, <2>4 DEF CpuInv, WithIdles, WithNumbers
<1>4. DeviceInv
  <2>1. base \in Nat /\ mem = [a \in 0 .. MemTop - 1 |-> 0]
    BY MmioAssumption DEF UInit, MmioInit, MemTop
  <2> QED BY <1>1, <2>1 DEF DeviceInv, BeforeLapic, BeforeScan, Cloned
<1>5. WordInv
  BY <1>1, UserFacts DEF UInit, WordInv, EntryOk
<1> QED BY <1>2, <1>3, <1>4, <1>5 DEF FullInv

LEMMA FullNext == FullInv /\ [UNext]_uvars => FullInv'
<1>1. UserInv /\ [UNext]_uvars => UserInv'
  BY UserNext
<1>2. CpuInv /\ [UNext]_uvars => CpuInv'
  BY CpuStep
<1>3. CpuInv /\ DeviceInv /\ [UNext]_uvars => DeviceInv'
  BY DeviceStep
<1>4. UserInv /\ WordInv /\ [UNext]_uvars => WordInv'
  BY WordStep
<1> QED BY <1>1, <1>2, <1>3, <1>4 DEF FullInv

LEMMA FullInvariant == USpec => []FullInv
BY FullInit, FullNext, PTL DEF USpec

\* Every variable keeps its type: frames are frames that were handed out, pages
\* lie below the cap, processors have numbers below the limit.
THEOREM UserTyped == USpec => []UTypeOK
<1>1. FullInv => UTypeOK
  <2> SUFFICES ASSUME FullInv PROVE UTypeOK
    OBVIOUS
  <2>1. UserInv /\ CpuInv /\ DeviceInv /\ WordInv
    BY DEF FullInv
  <2>2. \A u \in AllocatedUses : u[3] # 0 => u[3] \in owned
    BY <2>1 DEF UserInv, FrameInv, Taken
  <2>3. TypeOK
    BY <2>1 DEF UserInv, IInv
  <2>4. aps \subseteq Ids \X owned
    <3> SUFFICES ASSUME NEW a \in aps PROVE a \in Ids \X owned
      OBVIOUS
    <3>1. PICK k \in DOMAIN hw.cpus : a[1] = hw.cpus[k]
      BY <2>1 DEF CpuInv
    <3>2. hw.cpus \in Seq(Ids)
      BY <2>1 DEF CpuInv, HwOk
    <3>3. a[1] \in Ids
      BY <3>1, <3>2
    <3>4. a = <<a[1], a[2]>> /\ a[2] # 0
      BY <2>1 DEF CpuInv
    <3> DEFINE u == <<"ap", a[1], a[2]>>
    <3>5. u \in AllocatedUses /\ u[3] = a[2]
      BY DEF AllocatedUses
    <3> HIDE DEF u
    <3>6. a[2] \in owned
      BY <2>2, <3>4, <3>5
    <3> QED BY <3>3, <3>4, <3>6
  <2>5. idles \subseteq 1 .. MaxCpus - 1
    BY <2>1 DEF CpuInv
  <2>6. \A id \in Ids : smp_cpu_index(id) \in 0 .. MaxCpus - 1
    <3> SUFFICES ASSUME NEW id \in Ids PROVE smp_cpu_index(id) \in 0 .. MaxCpus - 1
      OBVIOUS
    <3>1. logical[id] \in {NoIndex} \cup (0 .. MaxCpus - 1)
      BY <2>1 DEF CpuInv
    <3>2. 0 \in 0 .. MaxCpus - 1
      BY BootInfoAssumption
    <3> QED BY <3>1, <3>2 DEF smp_cpu_index
  <2>7. {probe, pd, code, stk, pt} \subseteq owned \cup {0}
    <3>1. ASSUME NEW tag, NEW place, NEW f, <<tag, place, f>> \in AllocatedUses
          PROVE  f \in owned \cup {0}
      <4> DEFINE u == <<tag, place, f>>
      <4>1. u \in AllocatedUses /\ u[3] = f
        BY <3>1
      <4> HIDE DEF u
      <4> QED BY <2>2, <4>1
    <3>2. { <<"probe", 0, probe>>, <<"pd", 0, pd>>, <<"pt", 0, pt>>,
            <<"page", TextPage, code>>, <<"page", StackPage, stk>> } \subseteq AllocatedUses
      BY DEF AllocatedUses
    <3> QED BY <3>1, <3>2
  <2>8. \A p \in UserPages : pte[p] = NoEntry \/ pte[p].frame \in owned
    <3> SUFFICES ASSUME NEW p \in UserPages, pte[p].flags = RWU, pte[p].frame # 0
                 PROVE  pte[p].frame \in owned
      BY <2>1 DEF WordInv, EntryOk
    <3>1. p \in Mapped
      BY DEF Mapped, RWU
    <3> DEFINE u == <<"page", p, pte[p].frame>>
    <3>2. u \in AllocatedUses /\ u[3] = pte[p].frame
      BY <3>1 DEF AllocatedUses
    <3> HIDE DEF u
    <3> QED BY <2>2, <3>2
  <2>9. \A a \in DOMAIN mem : mem[a] \in Nat
    BY <2>1 DEF DeviceInv
  <2>10. /\ {brk, goal} \subseteq {0} \cup (HeapPage .. CapPage - 1)
         /\ va \in {0} \cup (StackPage .. CapPage) /\ prog \in {0} \cup FlatLens
    BY <2>1 DEF WordInv
  <2>11. \A s \in UfdSlots : ufd[s].file \in Files /\ ufd[s].pos \in 0 .. FileLen[ufd[s].file]
    <3> SUFFICES ASSUME NEW s \in UfdSlots
                 PROVE  ufd[s].file \in Files /\ ufd[s].pos \in 0 .. FileLen[ufd[s].file]
      OBVIOUS
    <3>1. ufd[s] \in [used : BOOLEAN, file : Files, pos : Nat] /\ ufd[s].pos <= FileLen[ufd[s].file]
      BY <2>1 DEF UserInv, FileInv
    <3>2. FileLen[ufd[s].file] \in Nat
      BY <3>1, UserFacts
    <3> QED BY <3>1, <3>2
  <2> QED BY <2>3, <2>4, <2>5, <2>6, <2>7, <2>8, <2>9, <2>10, <2>11 DEF UTypeOK
<1> QED BY <1>1, FullInvariant, PTL

\* Whatever tables the firmware has, and however many of them are broken, what
\* acpi_hw_init leaves is what one whole MADT says.
THEOREM MadtTrusted == USpec => []TablesWhole
<1>1. HwOk(hw) => TablesWhole
  BY DEF HwOk, FromTable, Place, EnabledTo, TablesWhole
<1> QED BY <1>1, FullInvariant, PTL DEF FullInv, CpuInv

\* The walks that number the processors, make the idle threads and start the
\* processors agree, for every table.
THEOREM ProcessorsAdopted == USpec => []ApsAdopted
<1>1. CpuInv => ApsAdopted
  <2> SUFFICES ASSUME CpuInv PROVE ApsAdopted
    OBVIOUS
  <2> SUFFICES ASSUME aps # {}
               PROVE  /\ smp_cpu_index(Bsp) = 0
                      /\ \A a, b \in aps :
                           /\ smp_cpu_index(a[1]) \in idles
                           /\ smp_cpu_index(a[1]) = smp_cpu_index(b[1]) => a[1] = b[1]
    BY DEF ApsAdopted
  <2>1. HwOk(hw) /\ Numbered /\ Idling
    BY DEF CpuInv
  <2>2. hw.cpus # << >>
    <3>1. PICK a \in aps : TRUE
      OBVIOUS
    <3>2. PICK k \in DOMAIN hw.cpus : a[1] = hw.cpus[k]
      BY DEF CpuInv
    <3>3. DOMAIN << >> = {}
      OBVIOUS
    <3> QED BY <3>2, <3>3
  <2>3. /\ CpuList = hw.cpus /\ Len(CpuList) \in 1 .. MaxCpus /\ DOMAIN CpuList = 1 .. Len(CpuList)
        /\ \A k \in DOMAIN CpuList : CpuList[k] \in Ids /\ (CpuList[k] = Bsp <=> k = 1)
    BY <2>1, <2>2, ListOfCpus
  <2>4. MaxCpus \in Nat \ {0} /\ Bsp \in Ids /\ NoIndex \notin 0 .. MaxCpus
    BY BootInfoAssumption
  \* The number of a processor is its last place in the list, less one.
  <2>5. ASSUME NEW k \in DOMAIN CpuList
        PROVE  LET n == smp_cpu_index(CpuList[k]) IN
               n + 1 \in DOMAIN CpuList /\ CpuList[n + 1] = CpuList[k] /\ n \in Nat
    <3> DEFINE id == CpuList[k]
               last == Max(At(id))
    <3>1. id \in Ids /\ At(id) # {} /\ At(id) \in SUBSET (1 .. Len(CpuList)) /\ Len(CpuList) \in Nat
      BY <2>3 DEF At
    <3>2. last \in At(id)
      <4> HIDE DEF id
      <4> QED BY <3>1, Largest
    <3>3. last \in 1 .. Len(CpuList) /\ CpuList[last] = id
      BY <2>3, <3>2 DEF At
    <3>4. logical[id] = last - 1
      BY <2>1, <3>1 DEF Numbered
    <3> HIDE DEF id, last
    <3>5. last - 1 \in 0 .. MaxCpus /\ last - 1 \in Nat /\ (last - 1) + 1 = last
      BY <2>3, <2>4, <3>3
    <3>6. smp_cpu_index(id) = last - 1
      BY <2>4, <3>4, <3>5 DEF smp_cpu_index
    <3> QED BY <2>3, <3>3, <3>5, <3>6 DEF id
  <2>6. smp_cpu_index(Bsp) = 0
    <3>1. 1 \in DOMAIN CpuList /\ CpuList[1] = Bsp
      BY <2>3
    <3> DEFINE n == smp_cpu_index(CpuList[1])
    <3>2. n + 1 \in DOMAIN CpuList /\ CpuList[n + 1] = CpuList[1] /\ n \in Nat
      BY <2>5, <3>1
    <3> HIDE DEF n
    <3>3. n + 1 = 1
      BY <2>3, <3>1, <3>2
    <3>4. n = 0
      BY <3>2, <3>3
    <3> QED BY <3>1, <3>4 DEF n
  <2>7. ASSUME NEW a \in aps
        PROVE  LET n == smp_cpu_index(a[1]) IN n \in idles /\ CpuList[n + 1] = a[1]
    <3>1. PICK k \in DOMAIN CpuList : k # 1 /\ a[1] = CpuList[k]
      BY <2>3 DEF CpuInv
    <3> DEFINE n == smp_cpu_index(CpuList[k])
    <3>2. n + 1 \in DOMAIN CpuList /\ CpuList[n + 1] = CpuList[k] /\ n \in Nat
      BY <2>5
    <3> HIDE DEF n
    <3>3. n + 1 # 1
      BY <2>3, <3>1, <3>2
    <3>4. n \in 1 .. Len(CpuList) - 1
      BY <2>3, <3>2, <3>3
    <3> QED BY <2>1, <3>1, <3>2, <3>4 DEF Idling, n
  <2> QED BY <2>6, <2>7
<1> QED BY <1>1, FullInvariant, PTL DEF FullInv

\* Wherever the build puts the page tables of the devices, the LAPIC is reached
\* from its first access on, through the directory of the kernel and through
\* the clone the process has.
THEOREM LapicReached == USpec => []EoiReaches
<1>1. DeviceInv => EoiReaches
  <2> SUFFICES ASSUME DeviceInv, pc \notin BeforeLapic \cup {"halted"}
               PROVE  Reaches(IF pc \in {"user", "brk", "flat"} THEN dir ELSE boot_pd, Lapic)
    BY DEF EoiReaches, BeforeLapic, BeforeScan
  <2>1. Reaches(boot_pd, Lapic) /\ (pc \in {"user", "brk", "flat"} => dir = boot_pd)
    BY DEF DeviceInv, Cloned
  <2> QED BY <2>1
<1> QED BY <1>1, FullInvariant, PTL DEF FullInv
=============================================================================
