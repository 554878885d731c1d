------------------------------- MODULE Amd64 --------------------------------
(***************************************************************************)
(* The x86_64 port, from kernel_main_amd64 to the end of the demo: one     *)
(* processor whose local timer is its only interrupt, so that the kernel   *)
(* is here as a whole.  kernel/sched_amd64.c and kernel/thread_amd64.c do  *)
(* what their i386 twins do, and modules Sched and Threads describe them;  *)
(* here the two are composed, and what one leaves open the other decides:  *)
(* Sched says when a checkpoint yields, Threads says to whom.              *)
(*                                                                         *)
(* A step of the two together is a conjunction of a step of each.  Sched   *)
(* makes a switch of threads one step, taken here when the thread that is  *)
(* switched to restores its flags; interrupts are off until then.          *)
(* An address is a number, and LargePage of them are a page of 2 MiB.      *)
(***************************************************************************)
EXTENDS Sched, Integers, FiniteSets

CONSTANTS MaxThreads, NStacks, Spawns, MainRounds, Null,   \* as in Threads
          Machines,    \* what kernel_main_amd64 may find
          LargePage,   \* PAGE_2M
          PdEntries,   \* entries of a page directory
          MaxPd,       \* MAX_PD
          Lapic,       \* address of LAPIC_DEFAULT_BASE, as one unit
          Announced    \* ticks kernel_main_amd64 waits for

\* A machine is [magic, walk, frames, end]: the loader's number is right, the walk
\* over the memory map succeeds, there is room for the bitmap of the frames, and
\* where the last available range ends.  A worker is a thread for which there was
\* a call of thread_spawn, a slot and a stack.
ASSUME Amd64Assumption ==
  /\ NCPU = 1 /\ A = 1
  /\ Workers = { t \in 1 .. MaxThreads : t <= NStacks /\ t <= Spawns }
  /\ {MaxThreads, LargePage, PdEntries, MaxPd} \subseteq Nat \ {0}
  /\ {NStacks, Spawns, MainRounds} \subseteq Nat /\ Null \notin Nat
  /\ Lapic \in Nat /\ Lapic < LargePage * PdEntries * MaxPd
  /\ Announced <= MaxTicks
  /\ \A m \in Machines : m.end \in Nat

VARIABLES next, state, kstack, fn, affinity, token, esp, current, yieldFrom,
          lock, free, bump, stack, old, new, z, stk, slot, spawned,
          tpc, tret, tleft,   \* pc, ret and left of Threads
          boot,               \* where kernel_main_amd64 is
          machine,            \* what it found
          boot_pdpt,          \* its entries that are present
          boot_pd,            \* and those of each directory
          gates,              \* vectors with a gate in the IDT
          line0,              \* line 0 of the 8259: [vector, masked]
          g_timer_lapic_eoi,
          armed,              \* the LAPIC timer runs
          inService           \* the LAPIC waits for an EOI

T == INSTANCE Threads WITH pc <- tpc, ret <- tret, left <- tleft

tvars == <<next, state, kstack, fn, affinity, token, esp, current, yieldFrom,
           lock, free, bump, depth, stack, old, new, z, stk, slot, spawned,
           tpc, tret, tleft>>
tables == <<machine, boot_pdpt, boot_pd>>
interrupts == <<gates, line0, g_timer_lapic_eoi, armed, inService>>
kernel == <<boot, tables, interrupts>>
avars == <<vars, tvars, kernel>>

(***************************************************************************)
(* kernel_main_amd64 up to thread_demo_run.                                *)
(***************************************************************************)
\* Wrong on purpose: all RAM, and nothing above it.
map_end_ram == machine.end

\* All RAM, and the page of the LAPIC above it.
map_end == IF machine.end <= Lapic THEN Lapic + 1 ELSE machine.end

CeilDiv(a, b) == (a + b - 1) \div b

\* Page i * PdEntries + j is mapped by entry j of directory i.
paging_amd64_identity_init(span) ==
  LET n2m == CeilDiv(span, LargePage)
      n_pd == CeilDiv(n2m, PdEntries) IN
  /\ boot_pdpt' = 0 .. n_pd - 1
  /\ boot_pd' = [i \in 0 .. MaxPd - 1 |->
                   { j \in 0 .. PdEntries - 1 : i < n_pd /\ i * PdEntries + j < n2m }]

\* The processor's walk.
Reaches(a) == LET page == a \div LargePage IN
              /\ page \div PdEntries \in boot_pdpt
              /\ page % PdEntries \in boot_pd[page \div PdEntries]

main_paging ==
  /\ boot = "paging"
  /\ IF /\ machine.magic /\ machine.walk /\ machine.end # 0
        /\ map_end <= MaxPd * PdEntries * LargePage
     THEN paging_amd64_identity_init(map_end) /\ boot' = "pmm"
     ELSE boot' = "refused" /\ UNCHANGED <<boot_pdpt, boot_pd>>
  /\ UNCHANGED <<vars, tvars, machine, interrupts>>

\* pmm_init, module Pmm
main_pmm ==
  /\ boot = "pmm"
  /\ boot' = IF machine.frames THEN "idt" ELSE "refused"
  /\ UNCHANGED <<vars, tvars, tables, interrupts>>

idt_init ==
  /\ boot = "idt"
  /\ gates' = 0 .. 47 \cup {64}
  /\ boot' = "lapic"
  /\ UNCHANGED <<vars, tvars, tables, line0, g_timer_lapic_eoi, armed, inService>>

\* An access to a page that is not mapped ends in verve_exc_dispatch.
lapic_bsp_early_init ==
  /\ boot = "lapic"
  /\ boot' = IF Reaches(Lapic) THEN "pic" ELSE "halted"
  /\ UNCHANGED <<vars, tvars, tables, interrupts>>

\* pic_init and pic_irq_mask_all
main_pic ==
  /\ boot = "pic"
  /\ line0' = [vector |-> 32, masked |-> TRUE]
  /\ boot' = "timer"
  /\ UNCHANGED <<vars, tvars, tables, gates, g_timer_lapic_eoi, armed, inService>>

\* irq_timer_set_lapic_eoi, lapic_timer_periodic, sti
main_timer ==
  /\ boot = "timer"
  /\ g_timer_lapic_eoi' = TRUE
  /\ armed' = TRUE
  /\ boot' = "ticks"
  /\ UNCHANGED <<vars, tvars, tables, gates, line0, inService>>

main_ticks_seen ==
  /\ boot = "ticks" /\ tick[0] >= Announced
  /\ boot' = "clear"
  /\ UNCHANGED <<vars, tvars, tables, interrupts>>

sched_clear_resched ==
  /\ boot = "clear"
  /\ need' = [need EXCEPT ![0] = 0]
  /\ boot' = "demo"
  /\ UNCHANGED <<tick, ring, w, r, overflow, depth, ctlvars, pc, ret, locals,
                 history, tvars, tables, interrupts>>

\* cli; hlt
main_end ==
  /\ boot = "demo" /\ tpc[0] = "halt"
  /\ boot' = "done"
  /\ UNCHANGED <<vars, tvars, tables, interrupts>>

kernel_main_amd64 ==
  \/ main_paging \/ main_pmm \/ idt_init \/ lapic_bsp_early_init \/ main_pic
  \/ main_timer \/ main_ticks_seen \/ sched_clear_resched \/ main_end

(***************************************************************************)
(* Interrupts.                                                             *)
(***************************************************************************)
\* In sched_yield from the cli on, until the flags are restored.
Switching == {"switch", "reap", "reap_null", "reap_check", "reap_lock",
              "reap_stack", "reap_free"}

Accepts == boot \in {"ticks", "clear", "demo"} /\ irq[0] /\ tpc[0] \notin Switching

Raised == { v \in {64} : armed /\ ~ inService }
          \cup { v \in {line0.vector} : ~ line0.masked }

\* Wrong on purpose: the EOI goes to the 8259, whatever the vector.
EoiToLapic_by_line(v) == v # 64 /\ g_timer_lapic_eoi

EoiToLapic(v) == v = 64 \/ g_timer_lapic_eoi

timer_tick == sched_timer_tick(0)

\* Vector 64, or line 0 as long as the LAPIC is not the timer.
verve_irq_dispatch ==
  /\ Accepts
  /\ \E v \in Raised :
       IF v \notin gates \/ v < 32
       THEN boot' = "halted" /\ UNCHANGED <<vars, inService>>
       ELSE /\ IF v = 64 \/ ~ g_timer_lapic_eoi THEN timer_tick
                                                 ELSE UNCHANGED vars
            /\ inService' = (v = 64 /\ ~ EoiToLapic(v))
            /\ UNCHANGED boot
  /\ UNCHANGED <<tvars, tables, gates, line0, g_timer_lapic_eoi, armed>>

(***************************************************************************)
(* The demo.  The functions of thread_amd64.c whose twins Threads has.     *)
(***************************************************************************)
pick_next(t) == T!pick_next(0, on[0], t)
thread_alloc_slot == T!spawn_alloc_slot \/ T!spawn_kmalloc
setup_initial_stack == T!spawn_fields
enqueue_thread == T!spawn_enqueue
cpu_switch == T!cpu_switch(0)
thread_reap_yield_from == T!thread_reap_yield_from(0)

thread_spawn ==
  /\ thread_alloc_slot \/ setup_initial_stack \/ enqueue_thread
  /\ UNCHANGED vars

\* Wrong on purpose: main relies on its checkpoints alone.
main_loop_without_yield ==
  /\ T!main_loop_without_yield
  /\ IF tpc'[0] = "halt" THEN main_halt(0)
     ELSE /\ on[0] = 0 /\ At(0, "run") /\ Goto(0, "loop")
          /\ UNCHANGED <<ringvars, depth, ctlvars, ret, locals, history>>

main_loop ==
  /\ T!main_loop
  /\ IF tpc'[0] = "halt" THEN main_halt(0) ELSE main_yield(0)

\* worker_a and worker_b.  A round begins when the checkpoint of the one before
\* has cleared need_resched.
worker_round == At(0, "run") /\ T!worker_round(0) /\ UNCHANGED vars
worker_critical ==
  \/ T!worker_critical_begin(0) /\ sched_preempt_disable(0)
  \/ T!worker_critical_end(0) /\ sched_preempt_enable(0)

thread_trampoline ==
  \/ T!thread_trampoline(0) /\ UNCHANGED vars
  \/ worker_critical \/ worker_round
  \/ T!worker_exit(0) /\ worker_end(0)
  \/ T!zombie_loop(0) /\ zombie_yield(0)

sched_process_deferred ==
  /\ tpc[0] = "checkpoint"
  /\ \/ drain_begin(0) \/ drain_one(0)
     \/ drain_read_overflow(0) \/ drain_clear_overflow(0)
  /\ UNCHANGED tvars

\* Between its two decisions Threads has nothing to do.
sched_checkpoint ==
  \/ /\ \/ checkpoint_drained(0) /\ pc'[on[0]] = "schedule"
        \/ clear_resched_and_check(0) \/ clear_resched_and_return(0)
     /\ UNCHANGED tvars
  \/ /\ schedule_granted(0) \/ checkpoint_yield(0)
     /\ T!sched_checkpoint(0) /\ tpc'[0] = "yield"
  \/ /\ \/ checkpoint_drained(0) /\ pc'[on[0]] = "need"
        \/ schedule_refused(0) \/ checkpoint_return(0)
     /\ T!sched_checkpoint(0) /\ tpc'[0] # "yield"

sched_yield ==
  \/ T!yield_check(0) /\ (yield_refused(0) \/ yield_granted(0))
  \/ T!yield_alone(0) /\ switch_none(0)
  \/ T!yield_claim(0) /\ UNCHANGED vars
  \/ /\ cpu_switch \/ thread_reap_yield_from
     /\ IF tpc'[0] \in Switching THEN UNCHANGED vars ELSE switch_to(0, current[0])

thread_demo_run ==
  /\ boot = "demo"
  /\ \/ thread_spawn \/ main_loop \/ thread_trampoline
     \/ sched_process_deferred \/ sched_checkpoint \/ sched_yield
  /\ UNCHANGED kernel

(***************************************************************************)
(* BSS and the firmware's 8259, whose line 0 is the timer at vector 8.     *)
(***************************************************************************)
sched_init == Init
thread_subsystem_early_init == T!Init

AInit ==
  /\ sched_init /\ thread_subsystem_early_init
  /\ boot = "paging"
  /\ machine \in Machines
  /\ boot_pdpt = {}
  /\ boot_pd = [i \in 0 .. MaxPd - 1 |-> {}]
  /\ gates = {}
  /\ line0 = [vector |-> 8, masked |-> FALSE]
  /\ g_timer_lapic_eoi = FALSE
  /\ armed = FALSE
  /\ inService = FALSE

Code == kernel_main_amd64 \/ thread_demo_run

ANext == Code \/ verve_irq_dispatch

\* The processor executes instructions and its timer keeps ticking.
ASpec == /\ AInit /\ [][ANext]_avars
         /\ WF_avars(Code) /\ WF_avars(verve_irq_dispatch)
-----------------------------------------------------------------------------
ATypeOK ==
  /\ TypeOK /\ T!TypeOK
  /\ boot \in {"paging", "refused", "pmm", "idt", "lapic", "halted", "pic", "timer",
               "ticks", "clear", "demo", "done"}
  /\ boot_pdpt \subseteq 0 .. MaxPd - 1
  /\ boot_pd \in [0 .. MaxPd - 1 -> SUBSET (0 .. PdEntries - 1)]

\* From the reload of CR3 on, all RAM and the LAPIC are mapped, whatever of the
\* last directory they fill.
MemoryMapped ==
  boot \notin {"paging", "refused"} =>
    \A a \in 0 .. machine.end - 1 \cup {Lapic} : Reaches(a)

\* The ring of thread_amd64.c gives a yield a thread whenever some thread may
\* run: pick_next misses none, and the thread it finds is one of those.
NobodyPassedOver ==
  tpc[0] = "pick" => IF Eligible(0) = {} THEN pick_next(on[0])
                     ELSE \E t \in Eligible(0) : pick_next(t)

StackSafe == T!StackSafe
ClaimExclusive == T!ClaimExclusive
RingIntact == T!RingIntact
StacksAccounted == T!StacksAccounted

\* thread_amd64.c takes its stacks from the heap and gives each back once.
ImplementsStackPool == T!ImplementsStackPool

\* The workers have run to their end when main leaves the demo.
WorkersDone == T!WorkersDone

\* The boot is refused or gets through the demo to its end; it neither hangs
\* nor halts on an interrupt or an access it is not prepared for.
BootEnds == <> (boot \in {"refused", "done"})
=============================================================================
