---------------------------- MODULE Amd64Proofs -----------------------------
(***************************************************************************)
(* Proofs about module Amd64, for every machine, every size of page and    *)
(* directory and all constants of the scheduler and the threads: the       *)
(* memory the port maps, what modules Sched and Threads promise carried    *)
(* over to the kernel that contains both, and that the two stay in step.   *)
(***************************************************************************)
EXTENDS Amd64, SchedProofs

LEMMA AmdConstants ==
  /\ LargePage \in Nat \ {0} /\ PdEntries \in Nat \ {0} /\ MaxPd \in Nat \ {0}
  /\ Lapic \in Nat /\ CPUs = {0}
  /\ \A m \in Machines : m.end \in Nat
BY Amd64Assumption DEF CPUs

-----------------------------------------------------------------------------
(***************************************************************************)
(* The identity map.                                                       *)
(***************************************************************************)
\* Page n2m is the first that is not mapped, and it is behind the last byte.
LEMMA PageBelow ==
  ASSUME NEW b \in Nat \ {0}, NEW span \in Nat, NEW a \in Nat, a < span
  PROVE  a \div b \in Nat /\ a \div b < CeilDiv(span, b)
<1>1. /\ a \div b \in Nat /\ (a % b) \in 0 .. b - 1
      /\ a = b * (a \div b) + (a % b)
  OBVIOUS
<1>2. span + b - 1 \in Nat
  OBVIOUS
<1> DEFINE s == span + b - 1
           q == s \div b
           p == a \div b
<1>3. /\ q \in Nat /\ (s % b) \in 0 .. b - 1 /\ s = b * q + (s % b)
  BY <1>2
<1>4. b * q >= span
  BY <1>3
<1>5. b * p < b * q
  BY <1>1, <1>4, <1>3
<1> HIDE DEF q, p
<1>6. p < q
  <2>1. p \in Nat /\ q \in Nat
    BY <1>1, <1>3 DEF p
  <2>2. CASE q <= p
    <3>1. b * q <= b * p
      BY <2>1, <2>2
    <3> QED BY <1>5, <3>1, <2>1
  <2> QED BY <2>1, <2>2
<1> QED BY <1>1, <1>6 DEF q, p, CeilDiv

\* The tables are those of a map of the bytes below map_end.
Mapped ==
  LET n2m == CeilDiv(map_end, LargePage)
      n_pd == CeilDiv(n2m, PdEntries) IN
  /\ map_end <= MaxPd * PdEntries * LargePage
  /\ boot_pdpt = 0 .. n_pd - 1
  /\ boot_pd = [i \in 0 .. MaxPd - 1 |->
                  { j \in 0 .. PdEntries - 1 : i < n_pd /\ i * PdEntries + j < n2m }]

\* The tables are written once, before CR3 is loaded.
MapInv ==
  /\ machine \in Machines
  /\ boot \notin {"paging", "refused"} => Mapped

\* The directories that are there hold every page of a map that fits.
LEMMA DirectoriesFit ==
  ASSUME NEW span \in Nat, span <= MaxPd * PdEntries * LargePage
  PROVE  /\ CeilDiv(span, LargePage) \in Nat
         /\ CeilDiv(span, LargePage) <= MaxPd * PdEntries
         /\ CeilDiv(CeilDiv(span, LargePage), PdEntries) \in Nat
         /\ CeilDiv(CeilDiv(span, LargePage), PdEntries) <= MaxPd
<1>1. ASSUME NEW b \in Nat \ {0}, NEW n \in Nat, NEW m \in Nat, n <= m * b
      PROVE  CeilDiv(n, b) \in Nat /\ CeilDiv(n, b) <= m
  <2> DEFINE q == (n + b - 1) \div b
  <2>1. /\ q \in Nat /\ ((n + b - 1) % b) \in 0 .. b - 1
        /\ n + b - 1 = b * q + ((n + b - 1) % b)
    OBVIOUS
  <2>2. b * q < m * b + b
    BY <2>1, <1>1
  <2>3. m * b \in Nat /\ m * b + b = b * (m + 1)
    OBVIOUS
  <2> HIDE DEF q
  <2>4. q < m + 1
    <3>1. CASE q >= m + 1
      <4>1. b * q >= b * (m + 1)
        BY <2>1, <3>1
      <4> QED BY <2>1, <2>2, <2>3, <4>1
    <3> QED BY <2>1, <3>1
  <2> QED BY <2>1, <2>4 DEF CeilDiv, q
<1>2. MaxPd * PdEntries \in Nat
  BY AmdConstants
<1>3. CeilDiv(span, LargePage) \in Nat /\ CeilDiv(span, LargePage) <= MaxPd * PdEntries
  BY <1>1, <1>2, AmdConstants
<1>4. /\ CeilDiv(CeilDiv(span, LargePage), PdEntries) \in Nat
      /\ CeilDiv(CeilDiv(span, LargePage), PdEntries) <= MaxPd
  BY <1>1, <1>3, AmdConstants
<1> QED BY <1>3, <1>4

\* The processor's walk finds every byte below map_end in those tables.
LEMMA WalkSucceeds ==
  ASSUME machine \in Machines, Mapped, NEW a \in Nat, a < map_end
  PROVE  Reaches(a)
<1> DEFINE n2m == CeilDiv(map_end, LargePage)
           n_pd == CeilDiv(n2m, PdEntries)
           page == a \div LargePage
<1>1. /\ map_end \in Nat
      /\ map_end <= MaxPd * PdEntries * LargePage
  BY AmdConstants DEF map_end, Mapped
<1>2. n2m \in Nat /\ n_pd \in Nat /\ n_pd <= MaxPd
  BY <1>1, DirectoriesFit
<1>3. page \in Nat /\ page < n2m
  BY <1>1, PageBelow, AmdConstants
<1> HIDE DEF n2m, page
<1>4. page \div PdEntries \in Nat /\ page \div PdEntries < n_pd
  BY <1>2, <1>3, PageBelow, AmdConstants
<1>5. /\ (page % PdEntries) \in 0 .. PdEntries - 1
      /\ (page \div PdEntries) * PdEntries + (page % PdEntries) = page
  BY <1>3, AmdConstants
<1> HIDE DEF n_pd
<1>6. page \div PdEntries \in 0 .. n_pd - 1 /\ page \div PdEntries \in 0 .. MaxPd - 1
  BY <1>2, <1>4, AmdConstants
<1>7. /\ boot_pdpt = 0 .. n_pd - 1
      /\ boot_pd = [i \in 0 .. MaxPd - 1 |->
                      { j \in 0 .. PdEntries - 1 : i < n_pd /\ i * PdEntries + j < n2m }]
  BY DEF Mapped, n2m, n_pd
<1>8. page % PdEntries \in boot_pd[page \div PdEntries]
  BY <1>3, <1>4, <1>5, <1>6, <1>7
<1> QED BY <1>6, <1>7, <1>8 DEF Reaches, page

LEMMA MapStep == MapInv /\ [ANext]_avars => MapInv'
<1> SUFFICES ASSUME MapInv, [ANext]_avars PROVE MapInv'
  OBVIOUS
<1>1. CASE main_paging
  <2>1. machine' = machine /\ machine \in Machines
    BY <1>1 DEF main_paging, MapInv
  <2>2. CASE boot' = "refused"
    BY <2>1, <2>2 DEF MapInv
  <2>3. CASE boot' # "refused"
    <3>1. map_end <= MaxPd * PdEntries * LargePage /\ paging_amd64_identity_init(map_end)
      BY <1>1, <2>3 DEF main_paging
    <3>2. map_end' = map_end
      BY <2>1 DEF map_end
    <3> QED BY <2>1, <3>1, <3>2 DEF MapInv, Mapped, paging_amd64_identity_init
  <2> QED BY <2>2, <2>3
<1>2. CASE UNCHANGED tables /\ (boot' \in {"paging", "refused"} \/ boot \notin {"paging", "refused"})
  <2>1. machine' = machine /\ (Mapped <=> Mapped')
    BY <1>2 DEF tables, Mapped, map_end
  <2> QED BY <1>2, <2>1 DEF MapInv
<1>3. CASE kernel_main_amd64 /\ ~ main_paging
  BY <1>2, <1>3 DEF kernel_main_amd64, main_pmm, idt_init, lapic_bsp_early_init, main_pic,
       main_timer, main_ticks_seen, sched_clear_resched, main_end
<1>4. CASE thread_demo_run
  BY <1>2, <1>4 DEF thread_demo_run, kernel
<1>5. CASE verve_irq_dispatch
  BY <1>2, <1>5 DEF verve_irq_dispatch, Accepts
<1>6. CASE UNCHANGED avars
  <2>1. UNCHANGED tables /\ boot' = boot
    BY <1>6 DEF avars, kernel
  <2> QED BY <1>2, <2>1 DEF MapInv
<1> QED BY <1>1, <1>3, <1>4, <1>5, <1>6 DEF ANext, Code

\* From the reload of CR3 on the kernel reaches every byte of RAM and the local
\* APIC, wherever in a page or in a directory the memory of the machine ends.
THEOREM RamAndLapicMapped == ASpec => []MemoryMapped
<1>1. AInit => MapInv
  BY DEF AInit, MapInv
<1>2. MapInv => MemoryMapped
  <2> SUFFICES ASSUME MapInv, boot \notin {"paging", "refused"},
                      NEW a \in 0 .. machine.end - 1 \cup {Lapic}
               PROVE  Reaches(a)
    BY DEF MemoryMapped
  <2>1. a \in Nat /\ a < map_end
    BY AmdConstants DEF MapInv, map_end
  <2> QED BY <2>1, WalkSucceeds DEF MapInv
<1> QED BY <1>1, <1>2, MapStep, PTL DEF ASpec
-----------------------------------------------------------------------------
(***************************************************************************)
(* The scheduler inside the kernel.  Every step of the kernel is a step of *)
(* Sched, or leaves its state alone, except for the sched_clear_resched of *)
(* kernel_main_amd64, which no thread of Sched makes.                      *)
(***************************************************************************)
Booting == {"paging", "pmm", "idt", "lapic", "pic", "timer", "ticks", "clear"}

\* Until the demo starts, main is the only thread, and no entry is drained: the
\* quanta whose request sched_clear_resched forgets are in the ring.
BootInv ==
  boot \in Booting =>
    /\ on[0] = 0 /\ pc[0] = "run"
    /\ 0 \in owed => ~ Empty(0)

KernelInv == TypeOK /\ DrainInv /\ QuantaAccounted /\ QuantumInv /\ BootInv

LEMMA DemoSteps == thread_demo_run => [Next]_vars /\ boot = "demo" /\ boot' = boot
<1> SUFFICES ASSUME thread_demo_run PROVE [Next]_vars /\ boot = "demo" /\ boot' = boot
  OBVIOUS
<1>0. Program(0) \/ Checkpoint(0) \/ Yield(0) => [Next]_vars
  <2>1. 0 \in CPUs
    BY AmdConstants
  <2> QED BY <2>1 DEF Next, ThreadStep
<1>1. boot = "demo" /\ boot' = boot
  BY DEF thread_demo_run, kernel
<1>2. CASE thread_spawn
  BY <1>1, <1>2 DEF thread_spawn
<1>3. CASE main_loop
  <2>1. Program(0)
    BY <1>3 DEF main_loop, Program
  <2> QED BY <1>0, <1>1, <2>1
<1>4. CASE thread_trampoline
  <2>1. UNCHANGED vars \/ Program(0)
    BY <1>4 DEF thread_trampoline, worker_round, worker_critical, Program
  <2> QED BY <1>0, <1>1, <2>1
<1>5. CASE sched_process_deferred
  <2>1. Checkpoint(0)
    BY <1>5 DEF sched_process_deferred, Checkpoint
  <2> QED BY <1>0, <1>1, <2>1
<1>6. CASE sched_checkpoint
  <2>1. Checkpoint(0)
    BY <1>6 DEF sched_checkpoint, Checkpoint
  <2> QED BY <1>0, <1>1, <2>1
<1>7. CASE sched_yield
  <2>1. ASSUME switch_to(0, current[0]) PROVE \E u \in Threads : switch_to(0, u)
    <3>1. current[0] \in Threads
      BY <2>1 DEF switch_to, Eligible
    <3> QED BY <2>1, <3>1
  <2>2. UNCHANGED vars \/ Yield(0)
    BY <1>7, <2>1 DEF sched_yield, Yield
  <2> QED BY <1>0, <1>1, <2>2
<1> QED BY <1>1, <1>2, <1>3, <1>4, <1>5, <1>6, <1>7 DEF thread_demo_run

LEMMA KernelSteps ==
  ASSUME [ANext]_avars
  PROVE  \/ sched_clear_resched
         \/ [Next]_vars /\ boot = "demo" /\ boot' = boot
         \/ sched_timer_tick(0) /\ boot' = boot
         \/ UNCHANGED vars /\ (boot' \in Booting => boot \in Booting)
<1>1. CASE kernel_main_amd64 /\ ~ sched_clear_resched
  BY <1>1 DEF kernel_main_amd64, main_paging, main_pmm, idt_init, lapic_bsp_early_init,
              main_pic, main_timer, main_ticks_seen, main_end, Booting
<1>2. CASE thread_demo_run
  BY <1>2, DemoSteps
<1>3. CASE verve_irq_dispatch
  BY <1>3 DEF verve_irq_dispatch, timer_tick, Booting
<1>4. CASE UNCHANGED avars
  BY <1>4 DEF avars, kernel
<1> QED BY <1>1, <1>2, <1>3, <1>4 DEF ANext, Code

LEMMA KernelInit == AInit => KernelInv
<1> SUFFICES ASSUME AInit PROVE KernelInv
  OBVIOUS
<1>1. Init
  BY DEF AInit, sched_init
<1>2. TypeOK /\ DrainInv /\ QuantaAccounted /\ QuantumInv
  BY <1>1, TypeInit, DrainInit, QuantumInit
<1>3. BootInv
  BY <1>1, AmdConstants, SchedAssumption, BootCPU DEF Init, BootInv
<1> QED BY <1>2, <1>3 DEF KernelInv

LEMMA KernelStep == KernelInv /\ [ANext]_avars => KernelInv'
<1> SUFFICES ASSUME KernelInv, [ANext]_avars PROVE KernelInv'
  OBVIOUS
<1>0. /\ TypeOK /\ DrainInv /\ QuantaAccounted /\ QuantumInv /\ BootInv
      /\ CritInv /\ ClearInv /\ NoLostQuantum
      /\ NCPU = 1 /\ CPUs = {0} /\ 0 \in CPUs
  BY Amd64Assumption, AmdConstants DEF KernelInv, QuantumInv
<1>1. ASSUME [Next]_vars PROVE TypeOK' /\ DrainInv' /\ QuantaAccounted' /\ QuantumInv'
  BY <1>0, <1>1, TypeStep, DrainStep, QuantumStep
<1>2. CASE sched_clear_resched
  <2>1. /\ UNCHANGED <<tick, ring, w, r, overflow, depth, ctlvars, pc, ret, locals, history>>
        /\ need' = [need EXCEPT ![0] = 0] /\ boot = "clear" /\ boot' = "demo"
    BY <1>2 DEF sched_clear_resched
  <2>2. on[0] = 0 /\ pc[0] = "run" /\ (0 \in owed => ~ Empty(0))
    BY <1>0, <2>1 DEF BootInv, Booting
  <2>3. TypeOK'
    BY <1>0, <2>1 DEF TypeOK, ctlvars, locals, history
  <2>4. DrainInv' /\ QuantaAccounted'
    BY <1>0, <2>1 DEF DrainInv, QuantaAccounted, RingLen, Empty, ctlvars, locals, history
  <2>5. CritInv'
    BY <1>0, <2>1 DEF CritInv, ctlvars
  <2>6. ClearInv' /\ NoLostQuantum'
    BY <1>0, <2>1, <2>2 DEF ClearInv, NoLostQuantum, Empty, TypeOK, ctlvars, history
  <2>7. BootInv'
    BY <2>1 DEF BootInv, Booting
  <2> QED BY <2>3, <2>4, <2>5, <2>6, <2>7 DEF KernelInv, QuantumInv
<1>3. CASE [Next]_vars /\ boot = "demo" /\ boot' = boot
  BY <1>1, <1>3 DEF KernelInv, BootInv, Booting
<1>4. CASE sched_timer_tick(0) /\ boot' = boot
  <2>1. [Next]_vars
    BY <1>0, <1>4 DEF Next
  <2>2. /\ ~ Empty(0) => ~ Empty(0)'
        /\ 0 \in owed' => 0 \in owed \/ ~ Empty(0)'
    BY <1>0, <1>4, TickFillsRing
  <2>3. on' = on /\ pc' = pc
    BY <1>4 DEF sched_timer_tick, ctlvars
  <2>4. BootInv'
    BY <1>0, <1>4, <2>2, <2>3 DEF BootInv
  <2> QED BY <1>1, <2>1, <2>4 DEF KernelInv
<1>5. CASE UNCHANGED vars /\ (boot' \in Booting => boot \in Booting)
  <2>1. BootInv'
    BY <1>0, <1>5 DEF BootInv, Empty, vars, ringvars, ctlvars, history
  <2> QED BY <1>1, <1>5, <2>1 DEF KernelInv
<1> QED BY <1>2, <1>3, <1>4, <1>5, KernelSteps

LEMMA KernelInvariant == ASpec => []KernelInv
BY KernelInit, KernelStep, PTL DEF ASpec

\* Inside the whole kernel, whose main clears need_resched on its own and whose
\* checkpoints yield to the threads that thread_amd64.c finds, every quantum is
\* in the ring, drained, counted or reported.
THEOREM AmdQuantaSafe == ASpec => []QuantaAccounted
<1>1. KernelInv => QuantaAccounted
  BY DEF KernelInv
<1> QED BY <1>1, KernelInvariant, PTL

\* No quantum that expired while main waited for the first ticks, nor a later
\* one, is forgotten before the kernel has tried to switch.
THEOREM AmdQuantumSafe == ASpec => []NoLostQuantum
<1>1. KernelInv => NoLostQuantum
  BY DEF KernelInv, QuantumInv
<1> QED BY <1>1, KernelInvariant, PTL

\* The ring of sched_amd64.c is the same bounded queue.
THEOREM AmdRingIsQueue == ASpec => ImplementsDeferQueue
<1>1. AInit => DQ!QInit
  BY RefineInit DEF AInit, sched_init
<1>2. KernelInv /\ KernelInv' /\ [ANext]_avars => [DQ!QNext]_DQ!qvars
  <2> SUFFICES ASSUME KernelInv, KernelInv', [ANext]_avars PROVE [DQ!QNext]_DQ!qvars
    OBVIOUS
  <2>1. TypeOK /\ TypeOK' /\ DrainInv
    BY DEF KernelInv
  <2>2. CASE [Next]_vars
    BY <2>1, <2>2, RefineStep
  <2>3. CASE sched_clear_resched
    BY <2>3, RefineStutter DEF sched_clear_resched
  <2> QED BY <2>2, <2>3, KernelSteps, AmdConstants DEF Next
<1> QED BY <1>1, <1>2, KernelInvariant, PTL DEF ASpec, ImplementsDeferQueue, DQ!QSpec
-----------------------------------------------------------------------------
(***************************************************************************)
(* The threads inside the kernel: every step is a step of Threads on one   *)
(* processor, without the guard of its Next, or leaves its state alone.    *)
(***************************************************************************)
LEMMA ThreadsConstants == T!ThreadsAssumption
<1>1. NCPU = 1 /\ NStacks \in Nat /\ NStacks >= 1 /\ Rounds \in Nat
  BY Amd64Assumption, SchedAssumption
<1> QED BY <1>1, Amd64Assumption DEF T!ThreadsAssumption

LEMMA ThreadSteps == thread_demo_run => [T!Step(0)]_(T!vars)
<1> SUFFICES ASSUME thread_demo_run PROVE [T!Step(0)]_(T!vars)
  OBVIOUS
<1>0. UNCHANGED tvars => UNCHANGED T!vars
  BY DEF tvars, T!vars, T!slots, T!heap, T!cpu, T!prog
<1>1. T!thread_demo_run => T!Step(0)
  BY DEF T!Step
<1>2. T!thread_fn(0) => T!Step(0)
  BY DEF T!Step
<1>3. T!sched_yield(0) \/ T!thread_reap_yield_from(0) \/ T!sched_checkpoint(0) => T!Step(0)
  BY DEF T!Step
<1>4. CASE thread_spawn \/ main_loop
  <2>1. T!thread_demo_run
    BY <1>4 DEF thread_spawn, thread_alloc_slot, setup_initial_stack, enqueue_thread, main_loop,
                T!thread_demo_run
  <2> QED BY <1>1, <2>1
<1>5. CASE thread_trampoline
  <2>1. T!thread_fn(0)
    BY <1>5 DEF thread_trampoline, worker_critical, worker_round, T!thread_fn
  <2> QED BY <1>2, <2>1
<1>6. CASE sched_process_deferred
  BY <1>0, <1>6 DEF sched_process_deferred
<1>7. CASE sched_checkpoint
  BY <1>0, <1>3, <1>7 DEF sched_checkpoint
<1>8. CASE sched_yield
  <2>1. T!sched_yield(0) \/ T!thread_reap_yield_from(0)
    BY <1>8 DEF sched_yield, cpu_switch, thread_reap_yield_from, T!sched_yield
  <2> QED BY <1>3, <2>1
<1> QED BY <1>4, <1>5, <1>6, <1>7, <1>8 DEF thread_demo_run

\* The threads of the kernel are those of Threads on one processor: what the
\* scheduler, the timer and main's clearing of need_resched decide is one of the
\* choices that Threads leaves open, and nothing else moves a thread or a stack.
THEOREM RunsThreads == ASpec => T!OpenSpec
<1>1. AInit => T!Init
  BY DEF AInit, thread_subsystem_early_init
<1>2. [ANext]_avars => [\E c \in T!CPUs : T!Step(c)]_(T!vars)
  <2> SUFFICES ASSUME [ANext]_avars PROVE [\E c \in T!CPUs : T!Step(c)]_(T!vars)
    OBVIOUS
  <2>1. UNCHANGED tvars => UNCHANGED T!vars
    BY DEF tvars, T!vars, T!slots, T!heap, T!cpu, T!prog
  <2>2. 0 \in T!CPUs
    BY Amd64Assumption DEF T!CPUs
  <2>3. CASE kernel_main_amd64
    BY <2>1, <2>3 DEF kernel_main_amd64, main_paging, main_pmm, idt_init, lapic_bsp_early_init,
                      main_pic, main_timer, main_ticks_seen, sched_clear_resched, main_end
  <2>4. CASE thread_demo_run
    BY <2>2, <2>4, ThreadSteps
  <2>5. CASE verve_irq_dispatch \/ UNCHANGED avars
    BY <2>1, <2>5 DEF verve_irq_dispatch, avars
  <2> QED BY <2>3, <2>4, <2>5 DEF ANext, Code
<1> QED BY <1>1, <1>2, PTL DEF ASpec, T!OpenSpec
-----------------------------------------------------------------------------
(***************************************************************************)
(* What module ThreadsProofs proves of Threads on one processor, for the   *)
(* threads inside the kernel.  TP is Threads once more, with its theorems; *)
(* its definitions are those of T, word for word.                          *)
(***************************************************************************)
TP == INSTANCE ThreadsProofs WITH pc <- tpc, ret <- tret, left <- tleft

LEMMA SameVars == T!vars' = T!vars <=> TP!vars' = TP!vars
BY DEF T!vars, TP!vars, T!slots, TP!slots, T!heap, TP!heap, T!cpu, TP!cpu, T!prog, TP!prog

LEMMA SameInit == T!Init <=> TP!Init
BY DEF T!Init, TP!Init, T!Nodes, TP!Nodes, T!Main, TP!Main, T!Slots, TP!Slots, T!Idle, TP!Idle,
       T!IdleSlots, TP!IdleSlots, T!CPUs, TP!CPUs, T!AnyCPU, TP!AnyCPU, T!Boot, TP!Boot

LEMMA SameWalk == ASSUME NEW u PROVE T!Walk(u) = TP!Walk(u)
BY DEF T!Walk, TP!Walk

LEMMA SamePick ==
  ASSUME NEW c, NEW t, NEW u
  PROVE  T!pick_next(c, t, u) <=> TP!pick_next(c, t, u)
BY SameWalk DEF T!pick_next, TP!pick_next, T!Runnable, TP!Runnable, T!AnyCPU, TP!AnyCPU

LEMMA SameYield == T!sched_yield(0) <=> TP!sched_yield(0)
BY SamePick
   DEF T!sched_yield, TP!sched_yield, T!yield_check, TP!yield_check,
       T!yield_alone, TP!yield_alone, T!yield_claim, TP!yield_claim,
       T!cpu_switch, TP!cpu_switch, T!claim, TP!claim, T!Nodes, TP!Nodes,
       T!Main, TP!Main, T!Slots, TP!Slots, T!At, TP!At, T!Goto, TP!Goto, T!Me, TP!Me,
       T!slots, TP!slots, T!heap, TP!heap, T!cpu, TP!cpu, T!prog, TP!prog

LEMMA SameReap == T!thread_reap_yield_from(0) <=> TP!thread_reap_yield_from(0)
BY DEF T!thread_reap_yield_from, TP!thread_reap_yield_from, T!reap_read, TP!reap_read,
       T!reap_null, TP!reap_null, T!reap_check, TP!reap_check, T!reap_unlink, TP!reap_unlink,
       T!reap_unlock, TP!reap_unlock, T!reap_kfree, TP!reap_kfree,
       T!unlink_thread, TP!unlink_thread, T!Nodes, TP!Nodes, T!Main, TP!Main,
       T!Slots, TP!Slots, T!At, TP!At, T!Goto, TP!Goto, T!Me, TP!Me,
       T!slots, TP!slots, T!heap, TP!heap, T!cpu, TP!cpu, T!prog, TP!prog

LEMMA SameFn == T!thread_fn(0) <=> TP!thread_fn(0)
BY DEF T!thread_fn, TP!thread_fn, T!thread_trampoline, TP!thread_trampoline,
       T!worker_critical_begin, TP!worker_critical_begin,
       T!worker_critical_end, TP!worker_critical_end, T!worker_round, TP!worker_round,
       T!worker_exit, TP!worker_exit, T!zombie_loop, TP!zombie_loop,
       T!CallYield, TP!CallYield, T!At, TP!At, T!Goto, TP!Goto, T!Me, TP!Me,
       T!slots, TP!slots, T!heap, TP!heap, T!cpu, TP!cpu, T!prog, TP!prog

LEMMA SameDemo == T!thread_demo_run <=> TP!thread_demo_run
BY DEF T!thread_demo_run, TP!thread_demo_run, T!spawn_alloc_slot, TP!spawn_alloc_slot,
       T!spawn_kmalloc, TP!spawn_kmalloc, T!spawn_fields, TP!spawn_fields,
       T!spawn_enqueue, TP!spawn_enqueue, T!main_loop, TP!main_loop, T!Unused, TP!Unused,
       T!enqueue_thread, TP!enqueue_thread, T!AnyCPU, TP!AnyCPU, T!Main, TP!Main,
       T!Slots, TP!Slots, T!CallYield, TP!CallYield, T!At, TP!At, T!Goto, TP!Goto, T!Me, TP!Me,
       T!slots, TP!slots, T!heap, TP!heap, T!cpu, TP!cpu, T!prog, TP!prog

LEMMA SameCheckpoint == T!sched_checkpoint(0) <=> TP!sched_checkpoint(0)
BY DEF T!sched_checkpoint, TP!sched_checkpoint, T!After, TP!After, T!CallYield, TP!CallYield,
       T!Main, TP!Main, T!At, TP!At, T!Goto, TP!Goto, T!Me, TP!Me,
       T!slots, TP!slots, T!heap, TP!heap, T!cpu, TP!cpu, T!prog, TP!prog

LEMMA SameIdle ==
  T!thread_ap_online(0) \/ T!ap_loop_yield(0) <=> TP!thread_ap_online(0) \/ TP!ap_loop_yield(0)
BY DEF T!thread_ap_online, TP!thread_ap_online, T!ap_loop_yield, TP!ap_loop_yield,
       T!Idle, TP!Idle, T!CallYield, TP!CallYield, T!At, TP!At, T!Goto, TP!Goto, T!Me, TP!Me,
       T!slots, TP!slots, T!heap, TP!heap, T!cpu, TP!cpu, T!prog, TP!prog

LEMMA SameSteps == [\E c \in T!CPUs : T!Step(c)]_(T!vars) => [\E c \in TP!CPUs : TP!Step(c)]_(TP!vars)
<1>1. T!Step(0) <=> TP!Step(0)
  BY SameYield, SameReap, SameFn, SameDemo, SameCheckpoint, SameIdle DEF T!Step, TP!Step
<1>2. T!CPUs = {0} /\ TP!CPUs = {0}
  BY Amd64Assumption DEF T!CPUs, TP!CPUs
<1>3. (\E c \in T!CPUs : T!Step(c)) => \E c \in TP!CPUs : TP!Step(c)
  BY <1>1, <1>2
<1> QED BY <1>3, SameVars

\* The assumption of ThreadsProofs, for TP.
LEMMA SameConstants ==
  /\ NCPU \in Nat \ {0}
  /\ MaxThreads \in Nat /\ MaxThreads >= NCPU
  /\ NStacks \in Nat /\ NStacks >= NCPU
  /\ Spawns \in Nat /\ MainRounds \in Nat /\ Rounds \in Nat
  /\ Null \notin Nat
  /\ NCPU = 1
BY ThreadsConstants, Amd64Assumption DEF T!ThreadsAssumption

LEMMA RunsSame == ASpec => TP!OpenSpec
BY RunsThreads, SameInit, SameSteps, PTL DEF T!OpenSpec, TP!OpenSpec

LEMMA KernelReliable == ASpec => []TP!Reliable
<1>1. TP!OpenSpec => []TP!Reliable
  BY SameConstants, TP!OneSafe
<1> QED BY <1>1, RunsSame, PTL

\* No step of the kernel, the timer interrupt between two of them included, runs
\* on a stack that was freed: a worker's goes back when another thread runs.
THEOREM AmdStacksSafe == ASpec => []StackSafe
<1>1. TP!Reliable => StackSafe
  BY DEF TP!Reliable, StackSafe, T!StackSafe, TP!StackSafe, T!OneCPUPerStack, TP!OneCPUPerStack,
         T!NoCPUOnFreeStack, TP!NoCPUOnFreeStack, T!FreeStacks, TP!FreeStacks, T!CPUs, TP!CPUs
<1> QED BY <1>1, KernelReliable, PTL

\* The thread the kernel runs is the one that holds the processor's token.
THEOREM AmdClaimSafe == ASpec => []ClaimExclusive
<1>1. TP!Reliable => ClaimExclusive
  BY DEF TP!Reliable, ClaimExclusive, T!ClaimExclusive, TP!ClaimExclusive, T!CPUs, TP!CPUs
<1> QED BY <1>1, KernelReliable, PTL

\* The ring of thread_amd64.c holds the threads in use and closes at main, also
\* while main spawns and the timer asks for a switch.
THEOREM AmdRingSafe == ASpec => []RingIntact
<1>1. TP!Reliable => RingIntact
  BY SameWalk DEF TP!Reliable, RingIntact, T!RingIntact, TP!RingIntact, T!Main, TP!Main,
                  T!Slots, TP!Slots, T!At, TP!At
<1> QED BY <1>1, KernelReliable, PTL

\* No stack is lost and none is in two places, whatever the timer interrupts.
THEOREM AmdStacksKnown == ASpec => []StacksAccounted
<1>1. ASSUME NEW S PROVE T!Cardinality(S) = TP!Cardinality(S)
  BY DEF T!Cardinality, TP!Cardinality
<1>2. TP!Reliable => StacksAccounted
  BY <1>1 DEF TP!Reliable, StacksAccounted, T!StacksAccounted, TP!StacksAccounted,
              T!Slots, TP!Slots, T!CPUs, TP!CPUs, T!At, TP!At
<1> QED BY <1>2, KernelReliable, PTL

\* The kernel asks its heap for stacks of one size and gives back only what it was
\* given, each stack once, whatever the timer interrupts.
THEOREM AmdStackPool == ASpec => ImplementsStackPool
<1>1. TP!OpenSpec => TP!ImplementsStackPool
  BY SameConstants, TP!OneStackPool
<1>2. TP!Owned = T!Owned
  BY DEF T!Owned, TP!Owned, T!Stacks, TP!Stacks, T!Slots, TP!Slots, T!CPUs, TP!CPUs, T!At, TP!At
<1>3. TP!SP!PInit => T!SP!PInit
  BY <1>2 DEF T!SP!PInit, TP!SP!PInit
<1>4. [TP!SP!PNext]_<<free, bump, TP!Owned>> => [T!SP!PNext]_<<free, bump, T!Owned>>
  <2>1. TP!Owned = T!Owned /\ TP!Owned' = T!Owned'
    BY <1>2 DEF T!Owned, TP!Owned, T!Stacks, TP!Stacks, T!Slots, TP!Slots, T!CPUs, TP!CPUs,
                T!At, TP!At
  <2>2. TP!SP!PNext => T!SP!PNext
    BY <2>1 DEF T!SP!PNext, TP!SP!PNext, T!SP!Take, TP!SP!Take, T!SP!Give, TP!SP!Give
  <2> QED BY <2>1, <2>2
<1>5. TP!ImplementsStackPool => ImplementsStackPool
  BY <1>3, <1>4, PTL DEF ImplementsStackPool, T!ImplementsStackPool, TP!ImplementsStackPool,
                         T!SP!PSpec, TP!SP!PSpec
<1> QED BY <1>1, <1>5, RunsSame, PTL

\* When the kernel leaves the demo no worker can still run, whenever the timer asks
\* for a switch and whichever checkpoint heeds it: main's loop has more than two
\* rounds for each of a worker's, in thread_amd64.c 48 for 6.
THEOREM AmdWorkersDone == ASSUME MainRounds > 2 * Rounds PROVE ASpec => []WorkersDone
<1>1. TP!OpenSpec => []TP!WorkersDone
  BY SameConstants, TP!OneWorkersDone
<1>2. TP!WorkersDone => WorkersDone
  BY DEF WorkersDone, T!WorkersDone, TP!WorkersDone, T!At, TP!At, T!Slots, TP!Slots
<1> QED BY <1>1, <1>2, RunsSame, PTL

\* The scheduler and the threads of the kernel have their types, and so have its
\* tables.
THEOREM AmdTyped == ASpec => []ATypeOK
<1> DEFINE Tables ==
             /\ boot \in {"paging", "refused", "pmm", "idt", "lapic", "halted", "pic", "timer",
                          "ticks", "clear", "demo", "done"}
             /\ boot_pdpt \subseteq 0 .. MaxPd - 1
             /\ boot_pd \in [0 .. MaxPd - 1 -> SUBSET (0 .. PdEntries - 1)]
<1>1. TP!Reliable => T!TypeOK
  BY DEF TP!Reliable, T!TypeOK, TP!TypeOK, T!Nodes, TP!Nodes, T!Main, TP!Main, T!Slots, TP!Slots,
         T!Stacks, TP!Stacks, T!AllStacks, TP!AllStacks, T!Boot, TP!Boot, T!AnyCPU, TP!AnyCPU,
         T!CPUs, TP!CPUs, T!Labels, TP!Labels
<1>2. AInit => MapInv /\ Tables
  BY DEF AInit, MapInv
<1>3. MapInv /\ Tables /\ [ANext]_avars => (MapInv /\ Tables)'
  <2> SUFFICES ASSUME MapInv, Tables, [ANext]_avars PROVE Tables'
    BY MapStep
  <2>1. CASE main_paging
    <3>1. CASE UNCHANGED <<boot_pdpt, boot_pd>> /\ boot' = "refused"
      BY <3>1
    <3>2. CASE boot' = "pmm" /\ paging_amd64_identity_init(map_end)
                /\ map_end <= MaxPd * PdEntries * LargePage /\ machine.end # 0
      <4> DEFINE n2m == CeilDiv(map_end, LargePage)
                 n_pd == CeilDiv(n2m, PdEntries)
      <4>1. boot_pd' = [i \in 0 .. MaxPd - 1 |->
                          { j \in 0 .. PdEntries - 1 : i < n_pd /\ i * PdEntries + j < n2m }]
            /\ boot_pdpt' = 0 .. n_pd - 1
        BY <3>2 DEF paging_amd64_identity_init
      <4>2. boot_pd' \in [0 .. MaxPd - 1 -> SUBSET (0 .. PdEntries - 1)]
        <5> HIDE DEF n2m, n_pd
        <5> QED BY <4>1
      <4>3. n_pd \in Nat /\ n_pd <= MaxPd
        <5>1. map_end \in Nat
          BY AmdConstants DEF map_end, MapInv
        <5> QED BY <3>2, <5>1, DirectoriesFit
      <4> HIDE DEF n2m, n_pd
      <4>4. boot_pdpt' \subseteq 0 .. MaxPd - 1
        BY <4>1, <4>3, AmdConstants
      <4> QED BY <3>2, <4>2, <4>4
    <3> QED BY <2>1, <3>1, <3>2 DEF main_paging
  <2>2. CASE UNCHANGED <<boot_pdpt, boot_pd>> /\ boot' \in {boot, "refused", "idt", "lapic", "halted",
              "pic", "timer", "ticks", "clear", "demo", "done"}
    BY <2>2
  <2>3. CASE kernel_main_amd64 /\ ~ main_paging
    BY <2>2, <2>3 DEF kernel_main_amd64, main_pmm, idt_init, lapic_bsp_early_init, main_pic,
       main_timer, main_ticks_seen, sched_clear_resched, main_end, tables
  <2>4. CASE thread_demo_run
    BY <2>2, <2>4 DEF thread_demo_run, kernel, tables
  <2>5. CASE verve_irq_dispatch
    BY <2>2, <2>5 DEF verve_irq_dispatch, tables
  <2>6. CASE UNCHANGED avars
    BY <2>2, <2>6 DEF avars, kernel, tables
  <2> QED BY <2>1, <2>3, <2>4, <2>5, <2>6 DEF ANext, Code
<1>4. KernelInv /\ T!TypeOK /\ Tables => ATypeOK
  BY DEF KernelInv, ATypeOK
<1> HIDE DEF Tables
<1> QED BY <1>1, <1>2, <1>3, <1>4, KernelInvariant, KernelReliable, PTL DEF ASpec
-----------------------------------------------------------------------------
(***************************************************************************)
(* Whom a yield finds.  What Sched calls eligible and what Threads calls   *)
(* runnable are two accounts of the same threads, kept by different steps: *)
(* they agree from the moment main has spawned the workers.                *)
(***************************************************************************)
\* A thread that has ended only yields.
DeadInv == \A t \in Workers : ret[t] = "zombie" => pc[t] \in {"zombie", "yield", "switch"}

LEMMA DeadInit == Init => DeadInv /\ \A t \in Workers : ~ Dead(t)
<1> SUFFICES ASSUME Init, NEW t \in Workers PROVE pc[t] # "zombie" /\ ret[t] # "zombie"
  BY DEF DeadInv, Dead
<1>1. t \in Threads
  BY DEF Threads
<1> QED BY <1>1 DEF Init

\* The steps that leave the threads where they are.
LEMMA DeadKept ==
  ASSUME DeadInv, UNCHANGED <<pc, ret>>
  PROVE  DeadInv' /\ \A t : Dead(t)' <=> Dead(t)
BY DEF DeadInv, Dead

LEMMA DeadStep ==
  ASSUME TypeOK, DeadInv, [Next]_vars
  PROVE  /\ DeadInv'
         /\ \A t \in Workers : Dead(t)' <=> Dead(t) \/ (worker_end(0) /\ t = on[0])
<1>0. CPUs = {0} /\ 0 \in CPUs /\ 0 \notin Workers /\ on[0] \in Threads /\ Workers \subseteq Threads
      /\ pc \in [Threads -> Labels] /\ ret[on[0]] \in {"run", "loop", "zombie", "clear1", "clear2"}
      /\ ret \in [Threads -> {"run", "loop", "zombie", "clear1", "clear2"}]
  BY AmdConstants, SchedAssumption DEF TypeOK, Threads
<1> DEFINE me == on[0]
<1>1. CASE worker_end(0)
  <2>1. /\ pc' = [pc EXCEPT ![me] = "zombie"] /\ ret' = ret /\ me \in Workers /\ pc[me] = "run"
    BY <1>1 DEF worker_end, Goto, At
  <2> HIDE DEF me
  <2>2. \A t \in Workers : pc'[t] = IF t = me THEN "zombie" ELSE pc[t]
    BY <1>0, <2>1
  <2>3. DeadInv'
    BY <2>1, <2>2 DEF DeadInv
  <2>4. \A t \in Workers : Dead(t)' <=> Dead(t) \/ t = me
    BY <2>1, <2>2 DEF Dead
  <2> QED BY <1>1, <2>3, <2>4 DEF me
<1>2. CASE ~ worker_end(0) /\ UNCHANGED <<pc, ret>>
  BY <1>2, DeadKept
<1>3. ASSUME NEW l, pc' = [pc EXCEPT ![me] = l], ret' = ret, ~ worker_end(0),
             pc[me] # "zombie", l # "zombie",
             pc[me] \in {"yield", "switch"} => l \in {"yield", "switch"}
      PROVE  DeadInv' /\ \A t \in Workers : Dead(t)' <=> Dead(t)
  <2> HIDE DEF me
  <2>1. \A t \in Workers : pc'[t] = IF t = me THEN l ELSE pc[t]
    BY <1>0, <1>3
  <2> QED BY <1>0, <1>3, <2>1 DEF DeadInv, Dead
<1>4. ASSUME pc' = [pc EXCEPT ![me] = ret[me]], ret' = ret, pc[me] \in {"yield", "switch"}
      PROVE  DeadInv' /\ \A t \in Workers : Dead(t)' <=> Dead(t)
  <2> HIDE DEF me
  <2>1. \A t \in Workers : pc'[t] = IF t = me THEN ret[me] ELSE pc[t]
    BY <1>0, <1>4
  <2> QED BY <1>0, <1>4, <2>1 DEF DeadInv, Dead
<1>5. ASSUME NEW back, pc' = [pc EXCEPT ![me] = "yield"], ret' = [ret EXCEPT ![me] = back],
             pc[me] \notin {"yield", "switch"}, back = "zombie" <=> pc[me] = "zombie"
      PROVE  DeadInv' /\ \A t \in Workers : Dead(t)' <=> Dead(t)
  <2>0. me \in Threads
    BY <1>0
  <2> HIDE DEF me
  <2>1. \A t \in Workers : /\ pc'[t] = IF t = me THEN "yield" ELSE pc[t]
                           /\ ret'[t] = IF t = me THEN back ELSE ret[t]
    BY <1>0, <1>5, <2>0
  <2> QED BY <1>0, <1>5, <2>1 DEF DeadInv, Dead
<1>6. CASE Program(0) /\ ~ worker_end(0)
  <2>1. CASE main_yield(0)
    BY <1>5, <1>6, <2>1 DEF main_yield, CallYield, Goto, At
  <2>2. CASE idle_yield(0)
    BY <1>5, <1>6, <2>2 DEF idle_yield, CallYield, Goto, At
  <2>3. CASE zombie_yield(0)
    BY <1>5, <1>6, <2>3 DEF zombie_yield, CallYield, Goto, At
  <2>4. CASE main_halt(0)
    BY <1>3, <1>6, <2>4 DEF main_halt, Goto, At
  <2>5. CASE sched_preempt_disable(0)
    BY <1>3, <1>6, <2>5 DEF sched_preempt_disable, Goto, At
  <2>6. CASE sched_preempt_enable(0)
    BY <1>3, <1>6, <2>6 DEF sched_preempt_enable, Goto, At
  <2> QED BY <1>6, <2>1, <2>2, <2>3, <2>4, <2>5, <2>6 DEF Program
<1>7. CASE Checkpoint(0) /\ ~ worker_end(0)
  <2>1. CASE drain_begin(0)
    BY <1>3, <1>7, <2>1 DEF drain_begin, CallsCheckpoint, Goto
  <2>2. CASE drain_one(0)
    BY <1>2, <1>7, <2>2 DEF drain_one
  <2>3. CASE drain_read_overflow(0)
    BY <1>3, <1>7, <2>3 DEF drain_read_overflow, Goto, At
  <2>4. CASE drain_clear_overflow(0)
    BY <1>3, <1>7, <2>4 DEF drain_clear_overflow, Goto, At
  <2>5. CASE checkpoint_drained(0)
    BY <1>3, <1>7, <2>5 DEF checkpoint_drained, Goto, At
  <2>6. CASE schedule_refused(0)
    BY <1>3, <1>7, <2>6 DEF schedule_refused, Goto, At
  <2>7. CASE schedule_granted(0)
    BY <1>5, <1>7, <2>7 DEF schedule_granted, CallYield, Goto, At
  <2>8. CASE clear_resched_and_check(0)
    BY <1>3, <1>7, <2>8 DEF clear_resched_and_check, Goto, At
  <2>9. CASE checkpoint_return(0)
    BY <1>3, <1>7, <2>9 DEF checkpoint_return, Goto, At, After
  <2>10. CASE checkpoint_yield(0)
    BY <1>5, <1>7, <2>10 DEF checkpoint_yield, CallYield, Goto, At
  <2>11. CASE clear_resched_and_return(0)
    BY <1>3, <1>7, <2>11 DEF clear_resched_and_return, Goto, At, After
  <2> QED BY <1>7, <2>1, <2>2, <2>3, <2>4, <2>5, <2>6, <2>7, <2>8, <2>9, <2>10, <2>11
      DEF Checkpoint
<1>8. CASE Yield(0) /\ ~ worker_end(0)
  <2>1. CASE yield_granted(0)
    BY <1>3, <1>8, <2>1 DEF yield_granted, Goto, At
  <2>2. CASE yield_refused(0)
    BY <1>4, <1>8, <2>2 DEF yield_refused, Goto, At
  <2>3. CASE switch_none(0)
    BY <1>4, <1>8, <2>3 DEF switch_none, Goto, At
  <2>4. ASSUME NEW u, switch_to(0, u) PROVE DeadInv' /\ \A t \in Workers : Dead(t)' <=> Dead(t)
    BY <1>4, <2>4 DEF switch_to, Goto, At
  <2> QED BY <1>8, <2>1, <2>2, <2>3, <2>4 DEF Yield
<1>9. CASE sched_timer_tick(0) /\ ~ worker_end(0)
  BY <1>2, <1>9 DEF sched_timer_tick
<1>10. CASE UNCHANGED vars /\ ~ worker_end(0)
  BY <1>2, <1>10 DEF vars
<1> QED BY <1>0, <1>1, <1>6, <1>7, <1>8, <1>9, <1>10 DEF Next, ThreadStep

\* T's current thread is Sched's, except from a claim until the thread that was
\* claimed runs; and once main has begun its loop a slot holds a runnable thread
\* exactly if it is a worker that has not ended.
CoupleInv ==
  /\ tpc[0] \notin Switching => on[0] = current[0]
  /\ state[0] = "RUNNABLE"
  /\ DeadInv
  /\ TP!Fresh => \A t \in Workers : ~ Dead(t)
  /\ ~ TP!Fresh => \A t \in T!Slots : state[t] = "RUNNABLE" <=> t \in Workers /\ ~ Dead(t)

LEMMA CoupleInit == AInit => CoupleInv
<1> SUFFICES ASSUME AInit PROVE CoupleInv
  OBVIOUS
<1>1. DeadInv /\ \A t \in Workers : ~ Dead(t)
  BY DeadInit DEF AInit, sched_init
<1>2. on[0] = 0 /\ current[0] = 0 /\ state[0] = "RUNNABLE"
  <2>1. 0 \in T!CPUs /\ 0 \in CPUs /\ 0 \in T!Nodes
    BY AmdConstants, Amd64Assumption DEF T!CPUs, T!Nodes, T!Main
  <2> QED BY <2>1 DEF AInit, sched_init, Init, thread_subsystem_early_init, T!Init, T!Main
<1>3. TP!Fresh
  <2>1. T!Init
    BY DEF AInit, thread_subsystem_early_init
  <2>2. 0 \in T!CPUs /\ 0 \in T!Nodes
    BY Amd64Assumption DEF T!CPUs, T!Nodes, T!Main
  <2> QED BY <2>1, <2>2 DEF T!Init, T!Main, TP!Fresh, TP!Main
<1> QED BY <1>1, <1>2, <1>3 DEF CoupleInv

\* A step that ends no thread and begins no loop.
LEMMA CoupleKept ==
  ASSUME CoupleInv, DeadInv', \A t \in Workers : Dead(t)' <=> Dead(t),
         tpc'[0] \notin Switching => on'[0] = current'[0],
         state'[0] = state[0],
         \A t \in T!Slots : state'[t] = "RUNNABLE" <=> state[t] = "RUNNABLE",
         TP!Fresh' <=> TP!Fresh
  PROVE  CoupleInv'
BY DEF CoupleInv, T!Slots

\* What main leaves behind in the slots when it begins its loop.
LEMMA Launched ==
  ASSUME TP!OneInv, TP!Fresh, tpc[0] = "spawn", spawned = Spawns
  PROVE  \A t \in T!Slots : state[t] = "RUNNABLE" <=> t \in Workers
<1>1. TP!Filling /\ T!Slots = 1 .. MaxThreads /\ TP!Slots = 1 .. MaxThreads
  BY DEF TP!OneInv, TP!MoreInv, TP!LaunchInv, T!Slots, TP!Slots
<1>0. TP!Tried = Spawns /\ TP!Made = bump
  BY DEF TP!Tried, TP!Made
<1>2. /\ bump <= Spawns /\ bump <= NStacks /\ bump <= MaxThreads
      /\ bump \in {Spawns, NStacks, MaxThreads}
      /\ \A t \in 1 .. MaxThreads : state[t] = IF t <= bump THEN "RUNNABLE" ELSE "UNUSED"
  BY <1>0, <1>1 DEF TP!Filling
<1>3. \A t \in 1 .. MaxThreads : t <= bump <=> t <= NStacks /\ t <= Spawns
  BY <1>2, SameConstants
<1> QED BY <1>1, <1>2, <1>3, Amd64Assumption

\* What the steps need of the types of the threads.
LEMMA StepViews ==
  ASSUME TP!OneInv
  PROVE  /\ current[0] \in T!Nodes /\ T!Nodes = {0} \cup T!Slots /\ 0 \notin T!Slots
         /\ state \in [T!Nodes -> {"UNUSED", "RUNNABLE", "ZOMBIE"}]
         /\ current \in [{0} -> T!Nodes \cup {Null}]
         /\ tpc \in [{0} -> T!Labels \cup {"none"}] /\ tpc[0] # "offline"
         /\ 0 \notin Workers /\ Workers \subseteq T!Slots
<1>0. /\ T!CPUs = {0} /\ TP!CPUs = {0} /\ T!Nodes = {0} \cup T!Slots /\ 0 \notin T!Slots
      /\ 0 \notin Workers /\ Workers \subseteq T!Slots
  <2>1. T!CPUs = {0} /\ TP!CPUs = {0}
    BY Amd64Assumption DEF T!CPUs, TP!CPUs
  <2>2. T!Slots = 1 .. MaxThreads /\ T!Nodes = {0} \cup T!Slots
    BY DEF T!Nodes, T!Main, T!Slots
  <2>3. Workers = { t \in 1 .. MaxThreads : t <= NStacks /\ t <= Spawns }
    BY Amd64Assumption
  <2>4. Workers \subseteq T!Slots
    BY <2>2, <2>3
  <2> QED BY <2>1, <2>2, <2>4
<1>1. TP!Shape /\ TP!OwnInv /\ TP!UniInv
  BY DEF TP!OneInv, TP!ThreadsInv, TP!OwnInv
<1>2. current[0] \in TP!Nodes /\ tpc[0] # "offline"
  BY <1>1, SameConstants, TP!OneRuns
<1>3. T!Nodes = TP!Nodes /\ T!Labels = TP!Labels
  BY DEF T!Nodes, TP!Nodes, T!Main, TP!Main, T!Slots, TP!Slots, T!Labels, TP!Labels
<1> QED BY <1>0, <1>1, <1>2, <1>3 DEF TP!Shape

\* Which steps of the kernel belong to the launch.
LEMMA LaunchMoves ==
  ASSUME TP!OneInv, T!Step(0)
  PROVE  LET spawn == \/ T!spawn_alloc_slot \/ T!spawn_kmalloc
                      \/ T!spawn_fields \/ T!spawn_enqueue IN
         /\ spawn => TP!Fresh /\ TP!Fresh'
         /\ ~ spawn => ~ TP!Fresh' /\ (TP!Fresh => T!main_loop)
<1>1. TP!Step(0)
  BY SameYield, SameReap, SameFn, SameDemo, SameCheckpoint, SameIdle DEF T!Step, TP!Step
<1>2. TP!OwnInv /\ TP!UniInv /\ TP!FieldTypes /\ TP!LaunchInv
  BY DEF TP!OneInv, TP!ThreadsInv, TP!MoreInv
<1>3. /\ TP!SpawnStep => TP!Fresh /\ TP!Fresh'
      /\ ~ TP!SpawnStep => ~ TP!Fresh' /\ (TP!Fresh => TP!main_loop)
  BY <1>1, <1>2, SameConstants, TP!LaunchStep
<1>4. TP!SpawnStep <=> \/ T!spawn_alloc_slot \/ T!spawn_kmalloc
                       \/ T!spawn_fields \/ T!spawn_enqueue
  BY DEF TP!SpawnStep, T!spawn_alloc_slot, TP!spawn_alloc_slot, T!spawn_kmalloc,
         TP!spawn_kmalloc, T!spawn_fields, TP!spawn_fields, T!spawn_enqueue, TP!spawn_enqueue,
         T!Unused, TP!Unused, T!enqueue_thread, TP!enqueue_thread, T!AnyCPU, TP!AnyCPU,
         T!Main, TP!Main, T!Slots, TP!Slots, T!At, TP!At, T!Goto, TP!Goto,
         T!slots, TP!slots, T!heap, TP!heap, T!cpu, TP!cpu, T!prog, TP!prog
<1>5. T!main_loop <=> TP!main_loop
  BY DEF T!main_loop, TP!main_loop, T!CallYield, TP!CallYield, T!Main, TP!Main, T!At, TP!At,
         T!Goto, TP!Goto, T!Me, TP!Me, T!slots, TP!slots, T!heap, TP!heap, T!cpu, TP!cpu
<1> QED BY <1>3, <1>4, <1>5

\* The same for a step that neither spawns nor loops, in the form used below.
LEMMA NotLaunching ==
  ASSUME TP!OneInv, T!Step(0), ~ T!main_loop, tpc[0] \notin {"spawn", "spawn_kmalloc",
         "spawn_fields", "spawn_enqueue"}
  PROVE  ~ TP!Fresh /\ ~ TP!Fresh'
<1>1. ~ (T!spawn_alloc_slot \/ T!spawn_kmalloc \/ T!spawn_fields \/ T!spawn_enqueue)
  BY DEF T!spawn_alloc_slot, T!spawn_kmalloc, T!spawn_fields, T!spawn_enqueue, T!At
<1> QED BY <1>1, LaunchMoves

LEMMA CoupleSpawn ==
  ASSUME TP!OneInv, CoupleInv, thread_spawn
  PROVE  CoupleInv'
<1>1. /\ T!spawn_alloc_slot \/ T!spawn_kmalloc \/ T!spawn_fields \/ T!spawn_enqueue
      /\ UNCHANGED vars
  BY DEF thread_spawn, thread_alloc_slot, setup_initial_stack, enqueue_thread
<1>2. T!Step(0)
  BY <1>1 DEF T!Step, T!thread_demo_run
<1>3. TP!Fresh /\ TP!Fresh'
  BY <1>1, <1>2, LaunchMoves
<1>4. DeadInv' /\ \A t \in Workers : ~ Dead(t)'
  BY <1>1, <1>3, DeadKept DEF vars, CoupleInv
<1>5. /\ current' = current /\ on' = on /\ tpc[0] \notin Switching
      /\ tpc[0] = "spawn_fields" => state' = [state EXCEPT ![slot] = "RUNNABLE"]
      /\ tpc[0] # "spawn_fields" => state' = state
  BY <1>1 DEF vars, ctlvars, Switching, T!At, T!slots,
     T!spawn_alloc_slot, T!spawn_kmalloc, T!spawn_fields, T!spawn_enqueue
<1>6. state'[0] = "RUNNABLE"
  BY <1>5, StepViews DEF CoupleInv
<1> QED BY <1>3, <1>4, <1>5, <1>6 DEF CoupleInv

LEMMA CoupleLoop ==
  ASSUME TypeOK, TP!OneInv, CoupleInv, main_loop
  PROVE  CoupleInv'
<1>1. T!main_loop /\ (main_halt(0) \/ main_yield(0))
  BY DEF main_loop
<1>2. /\ on[0] = 0 /\ on' = on /\ [Next]_vars
  <2>1. [Next]_vars
    BY <1>1, AmdConstants DEF Next, ThreadStep, Program
  <2> QED BY <1>1, <2>1 DEF main_halt, main_yield, ctlvars
<1>3. /\ tpc[0] = "spawn" /\ spawned = Spawns /\ current' = current /\ state' = state
  BY <1>1 DEF T!main_loop, T!At, T!slots
<1>4. /\ DeadInv' /\ \A t \in Workers : Dead(t)' <=> Dead(t)
  <2>1. ~ worker_end(0)
    BY <1>2, StepViews DEF worker_end
  <2> QED BY <1>2, <2>1, DeadStep DEF CoupleInv
<1>5. ~ TP!Fresh'
  <2>1. T!Step(0) /\ ~ (T!spawn_alloc_slot \/ T!spawn_kmalloc \/ T!spawn_fields \/ T!spawn_enqueue)
    <3>1. T!Step(0)
      BY <1>1 DEF T!Step, T!thread_demo_run
    <3>2. ~ (spawned < Spawns)
      BY <1>3, SameConstants
    <3> QED BY <1>3, <3>1, <3>2 DEF T!spawn_alloc_slot, T!spawn_kmalloc, T!spawn_fields,
                                    T!spawn_enqueue, T!At
  <2> QED BY <2>1, LaunchMoves
<1>6. on'[0] = current'[0] /\ state'[0] = "RUNNABLE"
  BY <1>2, <1>3 DEF CoupleInv, Switching
<1>7. \A t \in T!Slots : state'[t] = "RUNNABLE" <=> t \in Workers /\ ~ Dead(t)'
  <2>1. CASE TP!Fresh
    <3>1. \A t \in T!Slots : state[t] = "RUNNABLE" <=> t \in Workers
      BY <1>3, <2>1, Launched
    <3> QED BY <1>3, <1>4, <2>1, <3>1 DEF CoupleInv
  <2>2. CASE ~ TP!Fresh
    BY <1>3, <1>4, <2>2 DEF CoupleInv
  <2> QED BY <2>1, <2>2
<1> QED BY <1>4, <1>5, <1>6, <1>7 DEF CoupleInv

\* A step of the thread that runs, which changes the state of no thread.
LEMMA CouplePlain ==
  ASSUME TypeOK, TP!OneInv, CoupleInv, [Next]_vars, ~ worker_end(0),
         T!Step(0) \/ UNCHANGED tvars, ~ T!main_loop,
         UNCHANGED tvars \/ tpc[0] \notin {"spawn", "spawn_kmalloc", "spawn_fields",
                                           "spawn_enqueue"},
         tpc'[0] \notin Switching => on'[0] = current'[0], state' = state
  PROVE  CoupleInv'
<1>1. DeadInv' /\ \A t \in Workers : Dead(t)' <=> Dead(t)
  BY DeadStep DEF CoupleInv
<1>2. TP!Fresh' <=> TP!Fresh
  <2>1. CASE UNCHANGED tvars
    BY <2>1 DEF tvars, TP!Fresh
  <2>2. CASE ~ UNCHANGED tvars
    BY <2>2, NotLaunching
  <2> QED BY <2>1, <2>2
<1> QED BY <1>1, <1>2, CoupleKept

LEMMA CoupleExit ==
  ASSUME TypeOK, TP!OneInv, CoupleInv, T!worker_exit(0), worker_end(0)
  PROVE  CoupleInv'
<1>1. /\ on[0] \in Workers /\ on' = on /\ [Next]_vars
  <2>1. [Next]_vars
    BY AmdConstants DEF Next, ThreadStep, Program
  <2> QED BY <2>1 DEF worker_end, ctlvars
<1>2. /\ tpc[0] = "work" /\ current' = current
      /\ state' = [state EXCEPT ![current[0]] = "ZOMBIE"]
  BY DEF T!worker_exit, T!At, T!Me
<1>3. on[0] = current[0] /\ on'[0] = current'[0]
  BY <1>1, <1>2 DEF CoupleInv, Switching
<1>4. DeadInv' /\ \A t \in Workers : Dead(t)' <=> Dead(t) \/ t = on[0]
  BY <1>1, DeadStep DEF CoupleInv
<1>5. ~ TP!Fresh /\ ~ TP!Fresh'
  <2>1. T!Step(0) /\ ~ T!main_loop
    BY <1>2 DEF T!Step, T!thread_fn, T!main_loop, T!At
  <2> QED BY <1>2, <2>1, NotLaunching
<1>6. \A t \in T!Nodes : state'[t] = IF t = on[0] THEN "ZOMBIE" ELSE state[t]
  BY <1>2, <1>3, StepViews
<1>7. state'[0] = "RUNNABLE" /\ T!Slots \subseteq T!Nodes
  BY <1>1, <1>6, StepViews DEF CoupleInv
<1> QED BY <1>3, <1>4, <1>5, <1>6, <1>7 DEF CoupleInv

\* What a step that ends a worker does to its program counter.
LEMMA EndsAtZombie ==
  ASSUME TypeOK, worker_end(0)
  PROVE  pc[on[0]] = "run" /\ pc'[on[0]] = "zombie"
<1>1. on[0] \in Threads /\ pc \in [Threads -> Labels]
  BY AmdConstants DEF TypeOK
<1> QED BY <1>1 DEF worker_end, At, Goto

LEMMA CoupleTrampoline ==
  ASSUME TypeOK, TP!OneInv, CoupleInv, thread_trampoline
  PROVE  CoupleInv'
<1>1. CASE T!worker_exit(0) /\ worker_end(0)
  BY <1>1, CoupleExit
<1>2. CASE (T!thread_trampoline(0) /\ UNCHANGED vars) \/ worker_critical \/ worker_round
           \/ (T!zombie_loop(0) /\ zombie_yield(0))
  <2>1. /\ T!Step(0) /\ current' = current /\ state' = state
        /\ tpc[0] \in {"tramp", "disable", "enable", "work", "zombie"}
    BY <1>2 DEF worker_critical, worker_round, T!Step, T!thread_fn, T!thread_trampoline,
       T!worker_critical_begin, T!worker_critical_end, T!worker_round, T!zombie_loop, T!At,
       T!slots
  <2>2. \/ UNCHANGED vars
        \/ sched_preempt_disable(0) \/ sched_preempt_enable(0) \/ zombie_yield(0)
    BY <1>2 DEF worker_critical, worker_round
  <2>3. [Next]_vars /\ on' = on /\ ~ worker_end(0)
    <3>1. CASE UNCHANGED vars
      BY <3>1, EndsAtZombie DEF vars, ctlvars
    <3>2. CASE sched_preempt_disable(0) \/ sched_preempt_enable(0) \/ zombie_yield(0)
      <4>1. [Next]_vars
        BY <3>2, AmdConstants DEF Next, ThreadStep, Program
      <4>2. on' = on
        BY <3>2 DEF sched_preempt_disable, sched_preempt_enable, zombie_yield, ctlvars
      <4>3. pc[on[0]] # "run"
        BY <3>2 DEF sched_preempt_disable, sched_preempt_enable, zombie_yield, At
      <4> QED BY <4>1, <4>2, <4>3, EndsAtZombie
    <3> QED BY <2>2, <3>1, <3>2
  <2>4. on'[0] = current'[0] /\ ~ T!main_loop
    BY <2>1, <2>3 DEF CoupleInv, Switching, T!main_loop, T!At
  <2> QED BY <2>1, <2>3, <2>4, CouplePlain
<1> QED BY <1>1, <1>2 DEF thread_trampoline

LEMMA CheckpointStays == TypeOK /\ Checkpoint(0) => on' = on /\ ~ worker_end(0)
<1> SUFFICES ASSUME TypeOK, Checkpoint(0) PROVE on' = on /\ ~ worker_end(0)
  OBVIOUS
<1>1. CASE drain_begin(0)
  <2>1. on[0] \in Threads /\ pc \in [Threads -> Labels]
    BY AmdConstants DEF TypeOK
  <2>2. on' = on /\ pc'[on[0]] = "drain"
    BY <1>1, <2>1 DEF drain_begin, Goto
  <2> QED BY <2>2, EndsAtZombie
<1>2. CASE drain_one(0)
  BY <1>2, EndsAtZombie DEF drain_one, ctlvars, At
<1>3. CASE drain_read_overflow(0)
  BY <1>3, EndsAtZombie DEF drain_read_overflow, ctlvars, At
<1>4. CASE drain_clear_overflow(0)
  BY <1>4, EndsAtZombie DEF drain_clear_overflow, At
<1>5. CASE checkpoint_drained(0)
  BY <1>5, EndsAtZombie DEF checkpoint_drained, ctlvars, At
<1>6. CASE schedule_refused(0)
  BY <1>6, EndsAtZombie DEF schedule_refused, ctlvars, At
<1>7. CASE schedule_granted(0)
  BY <1>7, EndsAtZombie DEF schedule_granted, ctlvars, At
<1>8. CASE clear_resched_and_check(0)
  BY <1>8, EndsAtZombie DEF clear_resched_and_check, ctlvars, At
<1>9. CASE checkpoint_return(0)
  BY <1>9, EndsAtZombie DEF checkpoint_return, ctlvars, At
<1>10. CASE checkpoint_yield(0)
  BY <1>10, EndsAtZombie DEF checkpoint_yield, ctlvars, At
<1>11. CASE clear_resched_and_return(0)
  BY <1>11, EndsAtZombie DEF clear_resched_and_return, ctlvars, At
<1> QED BY <1>1, <1>2, <1>3, <1>4, <1>5, <1>6, <1>7, <1>8, <1>9, <1>10, <1>11 DEF Checkpoint

LEMMA CoupleCheckpoint ==
  ASSUME TypeOK, TP!OneInv, CoupleInv, sched_process_deferred \/ sched_checkpoint
  PROVE  CoupleInv'
<1>1. Checkpoint(0) /\ on' = on /\ ~ worker_end(0)
  <2>1. Checkpoint(0)
    BY DEF sched_process_deferred, sched_checkpoint, Checkpoint
  <2> QED BY <2>1, CheckpointStays
<1>2. [Next]_vars
  BY <1>1, AmdConstants DEF Next, ThreadStep
<1>3. CASE UNCHANGED tvars
  <2>1. tpc'[0] \notin Switching => on'[0] = current'[0]
    BY <1>1, <1>3 DEF tvars, CoupleInv
  <2>2. ~ T!main_loop
    <3>1. tpc' = tpc /\ tpc \in [{0} -> T!Labels \cup {"none"}]
      BY <1>3, StepViews DEF tvars
    <3>2. tpc[0] = "spawn" => /\ tpc' # [tpc EXCEPT ![0] = "halt"]
                              /\ tpc' # [tpc EXCEPT ![0] = "yield"]
      BY <3>1
    <3> QED BY <3>2 DEF T!main_loop, T!At, T!Goto, T!CallYield
  <2>3. state' = state
    BY <1>3 DEF tvars
  <2> QED BY <1>1, <1>2, <1>3, <2>1, <2>2, <2>3, CouplePlain
<1>4. CASE T!sched_checkpoint(0)
  <2>1. /\ T!Step(0) /\ ~ T!main_loop /\ current' = current /\ state' = state
        /\ tpc[0] \in {"checkpoint", "checkpoint2"}
    BY <1>4 DEF T!Step, T!sched_checkpoint, T!main_loop, T!At, T!slots
  <2>2. on'[0] = current'[0]
    BY <1>1, <2>1 DEF CoupleInv, Switching
  <2> QED BY <1>1, <1>2, <2>1, <2>2, CouplePlain
<1> QED BY <1>3, <1>4 DEF sched_process_deferred, sched_checkpoint

LEMMA CoupleCheck ==
  ASSUME TypeOK, TP!OneInv, CoupleInv,
         \/ T!yield_check(0) /\ (yield_refused(0) \/ yield_granted(0))
         \/ T!yield_alone(0) /\ switch_none(0)
  PROVE  CoupleInv'
<1>1. /\ T!Step(0) /\ current' = current /\ state' = state
      /\ tpc[0] \in {"yield", "pick"}
  BY DEF T!Step, T!sched_yield, T!yield_check, T!yield_alone, T!At, T!slots
<1>2. yield_refused(0) \/ yield_granted(0) \/ switch_none(0)
  OBVIOUS
<1>3. [Next]_vars
  BY <1>2, AmdConstants DEF Next, ThreadStep, Yield
<1>4. on' = on
  BY <1>2 DEF yield_refused, yield_granted, switch_none, ctlvars
<1>5. pc[on[0]] # "run"
  BY <1>2 DEF yield_refused, yield_granted, switch_none, At
<1>6. on'[0] = current'[0] /\ ~ T!main_loop
  BY <1>1, <1>4 DEF CoupleInv, Switching, T!main_loop, T!At
<1> QED BY <1>1, <1>3, <1>5, <1>6, EndsAtZombie, CouplePlain

LEMMA CoupleClaim ==
  ASSUME TypeOK, TP!OneInv, CoupleInv, T!yield_claim(0), UNCHANGED vars
  PROVE  CoupleInv'
<1>1. /\ T!Step(0) /\ state' = state /\ tpc[0] = "pick" /\ tpc' = [tpc EXCEPT ![0] = "switch"]
  BY DEF T!Step, T!sched_yield, T!yield_claim, T!At, T!Goto
<1>2. tpc'[0] \in Switching
  BY <1>1, StepViews DEF Switching
<1>3. pc' = pc
  BY DEF vars
<1>4. ~ T!main_loop
  BY <1>1 DEF T!main_loop, T!At
<1> QED BY <1>1, <1>2, <1>3, <1>4, EndsAtZombie, CouplePlain

\* The switch itself, and the thread that was switched to on its way out of
\* sched_yield, which may give a slot back.
LEMMA CoupleSwitch ==
  ASSUME TypeOK, TP!OneInv, CoupleInv, cpu_switch \/ thread_reap_yield_from,
         IF tpc'[0] \in Switching THEN UNCHANGED vars ELSE switch_to(0, current[0])
  PROVE  CoupleInv'
<1>1. tpc[0] \in Switching
  BY DEF cpu_switch, thread_reap_yield_from, Switching, T!cpu_switch, T!thread_reap_yield_from,
     T!reap_read, T!reap_null, T!reap_check, T!reap_unlink, T!reap_unlock, T!reap_kfree, T!At
<1>2. current' = current
  BY DEF cpu_switch, thread_reap_yield_from, T!cpu_switch, T!thread_reap_yield_from,
     T!reap_read, T!reap_null, T!reap_check, T!reap_unlink, T!reap_unlock, T!reap_kfree
<1>3. T!Step(0) /\ ~ T!main_loop
  <2>1. ~ T!main_loop
    BY <1>1 DEF Switching, T!main_loop, T!At
  <2> QED BY <2>1 DEF cpu_switch, thread_reap_yield_from, T!Step, T!sched_yield
<1>4. TP!Fresh' <=> TP!Fresh
  BY <1>1, <1>3, NotLaunching DEF Switching
<1>5. /\ [Next]_vars /\ ~ worker_end(0)
      /\ tpc'[0] \notin Switching => on'[0] = current'[0]
  <2>1. CASE UNCHANGED vars /\ tpc'[0] \in Switching
    BY <2>1, EndsAtZombie DEF vars
  <2>2. CASE switch_to(0, current[0])
    <3>1. on \in [CPUs -> Threads] /\ 0 \in CPUs
      BY AmdConstants DEF TypeOK
    <3>2. on'[0] = current[0] /\ pc[on[0]] # "run" /\ current[0] \in Threads
      BY <2>2, <3>1 DEF switch_to, At, Eligible
    <3>3. [Next]_vars
      BY <2>2, <3>1, <3>2 DEF Next, ThreadStep, Yield
    <3> QED BY <1>2, <3>2, <3>3, EndsAtZombie
  <2> QED BY <2>1, <2>2
<1>6. DeadInv' /\ \A t \in Workers : Dead(t)' <=> Dead(t)
  BY <1>5, DeadStep DEF CoupleInv
<1>7. CASE state' = state
  BY <1>4, <1>5, <1>6, <1>7, CoupleKept
<1>8. CASE tpc[0] = "reap_lock" /\ state' = [state EXCEPT ![z[0]] = "UNUSED"]
  <2>1. TP!CPUs = {0} /\ T!Slots = TP!Slots
    BY Amd64Assumption DEF TP!CPUs, T!Slots, TP!Slots
  <2>2. z[0] \in T!Slots /\ state[z[0]] # "RUNNABLE"
    BY <1>8, <2>1 DEF TP!OneInv, TP!ThreadsInv, TP!OwnInv, TP!ZInv, TP!RingInv, TP!ReapInv
  <2>3. \A t \in T!Nodes : state'[t] = IF t = z[0] THEN "UNUSED" ELSE state[t]
    BY <1>8, StepViews
  <2>4. state'[0] = state[0] /\ \A t \in T!Slots : state'[t] = "RUNNABLE" <=> state[t] = "RUNNABLE"
    BY <2>2, <2>3, StepViews
  <2> QED BY <1>4, <1>5, <1>6, <2>4, CoupleKept
<1> QED
  <2>1. state' = state \/ T!reap_unlink(0)
    BY DEF cpu_switch, thread_reap_yield_from, T!cpu_switch, T!thread_reap_yield_from,
       T!reap_read, T!reap_null, T!reap_check, T!reap_unlock, T!reap_kfree, T!slots
  <2> QED BY <1>7, <1>8, <2>1 DEF T!reap_unlink, T!At

\* The steps outside the demo touch neither the threads nor where they are.
LEMMA CoupleOutside ==
  ASSUME CoupleInv, UNCHANGED <<tvars, on, pc, ret>>
  PROVE  CoupleInv'
<1>1. UNCHANGED <<state, current, tleft, tpc>>
  BY DEF tvars
<1>2. DeadInv' /\ \A t \in Workers : Dead(t)' <=> Dead(t)
  BY DeadKept DEF CoupleInv
<1>3. TP!Fresh' <=> TP!Fresh
  BY <1>1 DEF TP!Fresh
<1> QED BY <1>1, <1>2, <1>3, CoupleKept DEF CoupleInv

LEMMA CoupleStep == TypeOK /\ TP!OneInv /\ CoupleInv /\ [ANext]_avars => CoupleInv'
<1> SUFFICES ASSUME TypeOK, TP!OneInv, CoupleInv, [ANext]_avars PROVE CoupleInv'
  OBVIOUS
<1>1. CASE thread_demo_run
  <2>1. CASE sched_yield
    BY <2>1, CoupleCheck, CoupleClaim, CoupleSwitch DEF sched_yield
  <2> QED BY <1>1, <2>1, CoupleSpawn, CoupleLoop, CoupleTrampoline, CoupleCheckpoint
      DEF thread_demo_run
<1>2. CASE kernel_main_amd64
  <2>1. UNCHANGED <<tvars, on, pc, ret>>
    BY <1>2 DEF kernel_main_amd64, main_paging, main_pmm, idt_init, lapic_bsp_early_init,
       main_pic, main_timer, main_ticks_seen, sched_clear_resched, main_end, vars, ctlvars
  <2> QED BY <2>1, CoupleOutside
<1>3. CASE verve_irq_dispatch
  <2>1. UNCHANGED <<tvars, on, pc, ret>>
    BY <1>3 DEF verve_irq_dispatch, timer_tick, sched_timer_tick, vars, ctlvars
  <2> QED BY <2>1, CoupleOutside
<1>4. CASE UNCHANGED avars
  <2>1. UNCHANGED <<tvars, on, pc, ret>>
    BY <1>4 DEF avars, vars, ctlvars
  <2> QED BY <2>1, CoupleOutside
<1> QED BY <1>1, <1>2, <1>3, <1>4 DEF ANext, Code

LEMMA CoupleInvariant == ASpec => [](TP!OneInv /\ CoupleInv)
<1>1. TP!OpenSpec => []TP!OneInv
  BY SameConstants, TP!OneInvariant
<1>2. KernelInv => TypeOK
  BY DEF KernelInv
<1> QED BY <1>1, <1>2, RunsSame, KernelInvariant, CoupleInit, CoupleStep, PTL DEF ASpec

\* A checkpoint or a call of sched_yield that is allowed to switch switches
\* whenever a thread could run, and to such a thread: the ring of thread_amd64.c
\* and the account sched_amd64.c keeps of its threads never drift apart.
THEOREM AmdNobodyPassedOver == ASpec => []NobodyPassedOver
<1>1. TP!OneInv /\ CoupleInv => NobodyPassedOver
  <2> SUFFICES ASSUME TP!OneInv, CoupleInv, tpc[0] = "pick"
               PROVE  IF Eligible(0) = {} THEN pick_next(on[0])
                      ELSE \E t \in Eligible(0) : pick_next(t)
    BY DEF NobodyPassedOver
  <2> DEFINE others == { t \in TP!Nodes \ {current[0]} : state[t] = "RUNNABLE" }
  <2>1. on[0] = current[0]
    BY DEF CoupleInv, Switching
  <2>2. ~ TP!Fresh
    <3>1. TP!Fresh => tpc[0] \in TP!MainLabels
      BY DEF TP!OneInv, TP!MoreInv, TP!LaunchInv, TP!Fresh
    <3> QED BY <3>1 DEF TP!MainLabels
  <2>3. TP!Nodes = {0} \cup T!Slots /\ CPUs = {0} /\ Threads = {0} \cup Workers
    BY StepViews, AmdConstants DEF T!Nodes, TP!Nodes, T!Main, TP!Main, T!Slots, TP!Slots, Threads
  <2>4. ASSUME NEW u
        PROVE  u \in Eligible(0) <=> u \in others
    <3>1. u \in Eligible(0) <=> u \in Threads /\ on[0] # u /\ ~ Dead(u)
      BY <2>3 DEF Eligible
    <3>2. CASE u = 0
      BY <2>1, <2>3, <3>1, <3>2, StepViews DEF CoupleInv, Dead
    <3>3. CASE u # 0
      BY <2>1, <2>2, <2>3, <3>1, <3>3, StepViews DEF CoupleInv
    <3> QED BY <3>2, <3>3
  <2>5. IF others = {} THEN TP!pick_next(0, current[0], current[0])
                       ELSE \E t \in others : TP!pick_next(0, current[0], t)
    <3>1. TP!Finds
      BY SameConstants, TP!OneFinds
    <3> QED BY <3>1 DEF TP!Finds
  <2>6. \A t : pick_next(t) <=> TP!pick_next(0, current[0], t)
    BY <2>1, SamePick DEF pick_next
  <2>7. Eligible(0) = others
    BY <2>4
  <2> HIDE DEF others
  <2> QED BY <2>1, <2>5, <2>6, <2>7
<1> QED BY <1>1, CoupleInvariant, PTL
=============================================================================
