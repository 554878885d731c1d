# VerveOS in TLA+

VerveOS is a small 32-bit kernel for multiprocessor PCs (with an experimental
x86_64 twin). This directory holds TLA+ modules that model the parts of it that
decide something: who runs, on which stack, with which memory, and in which
order; TLC configurations that check them on small instances; and proofs that
TLAPS checks for every value of the constants.

All paths below are relative to the repository. The models are those of the i386
kernel as built by default (SMP, APIC timer, user-mode smoke test) and, in the
module `Amd64`, of the x86_64 kernel.

    tlc -workers 2 -config UserSpace.cfg MCUserSpace    # one run
    tlapm SchedProofs.tla                               # one proof module

## 1. The system

| Component | State it keeps | Operations | Talks to |
|---|---|---|---|
| Boot sequence, `kernel/main.c` | locals of `kernel_main` | init of everything below, in a fixed order; waits for five ticks | everyone |
| Frame allocator, `kernel/pmm.c` | bitmap, `frame_count` | `pmm_init`, `pmm_alloc_frame`, `pmm_free_frame` | boot loader's map in; paging, smp, proc, bring-up as callers |
| Kernel heap, `kernel/heap.c` | arena, free list in the freed blocks, bump pointer | `kmalloc`, `kfree` | threads (stacks) |
| Paging, `arch/i386/paging.c` | `boot_pd`, identity tables, `g_mmio_pts` | identity map, device pages, clone, user pages, range check | pmm, lapic, ioapic, proc, syscall |
| Scheduler, `kernel/sched.c` | per CPU: tick, `need_resched`, ring, overflow; one `g_preempt_disable_depth` | `sched_timer_tick`, `sched_process_deferred`, `schedule`, disable and enable | timer vector in, `sched_checkpoint` and `sched_yield` out |
| Threads, `kernel/thread.c`, `arch/i386/context.S` | `threads[]`, ring through `next`, `g_current[]`, `g_yield_from`, run-queue lock | spawn, yield, reap, checkpoint, worker bodies, idle loops | heap, scheduler |
| SMP bring-up, `kernel/smp.c`, `smp_tramp.S` | CPU list, mailbox, `g_cpus_online` | INIT/SIPI, trampoline, timers | pmm, lapic, threads |
| Serial console, `kernel/serial.c` | one spinlock | `serial_puts` from programs and from the timer handler | everyone |
| Interrupt dispatch, `kernel/interrupt.c`, `arch/i386/irq_asm.S` | `g_timer_lapic_eoi` | timer vectors and their EOI, entry and exit of a system call, exceptions | scheduler, syscalls, local APIC, 8259 |
| Local APIC, I/O APIC | device registers | commands, timer, routing | paging, smp |
| Process, `kernel/proc.c` | page directory, break | singleton init, `SYS_BRK` | paging, pmm |
| System calls, `kernel/syscall.c` | none | write, brk, open, read, close, exit | paging, proc, ramfs |
| ramfs, `kernel/vfs_ram.c` | descriptors, files | open, read, close, self-test | syscalls, `kernel_main` |
| User bring-up, `kernel/user_bringup.c` | two frames | maps text and stack, enters ring 3 | pmm, paging, proc |
| Flat loader, `kernel/exec_flat.c` | as the bring-up | maps a program of any length and a stack | pmm, paging |
| Multiboot2 and ACPI, `mboot2.c`, `acpi_*.c` | processors, I/O APIC | walks over tags and tables | pmm, smp, threads, ioapic |
| Descriptor tables, 8259, 8254 | gates, ring 0 stack of the TSS, masked lines | set-up | interrupts |
| x86_64 port, `*_amd64.c` | twins of the above, on one processor | paging, IDT, timer, scheduler, threads | |
| x86_64 boot chain, `arch/x86_64/boot_chain32.S`, `long64_stub.S` | none | leads from the loader to `kernel_main_amd64` | |

### What is hard about it

* **Interleaving on one CPU.** The timer handler runs between any two
  instructions of thread code, and shares the tick, `need_resched` and the ring
  with it. Only `cli` in `sched_process_deferred` separates them.
* **Interleaving of CPUs.** Several CPUs walk one run queue, claim threads by a
  token, leave stacks, reap zombies, and share one preempt-disable counter and
  one `g_yield_from`. Some of that is under `g_thread_rq_lock`, some is not.
* **Stacks.** A thread's stack is in use until `cpu_switch` has loaded another,
  but the thread is released before; a zombie's stack is freed by whoever runs
  next.
* **Data in the allocator's own memory.** Free blocks hold their links where
  callers' data was.
* **Overlapping ranges** in the boot loader's map, and rounding at both ends.
* **Two page directories and two levels of rights**, written by different calls.
* **Failure half way**: `brk` out of frames, `thread_spawn` without a stack, an
  application processor that never answers.
* **A lock taken by programs and by an interrupt handler.**
* **Two timers, two interrupt controllers, one handler** that must acknowledge
  a tick at the controller that delivered it.
* **Layouts in two languages**: the frame of a system call is written by
  assembly and read through a C struct.

What each component must guarantee is stated in section 3 next to the module
that states it. PROJECT.json lists the hazards one by one, each at its line,
with the properties that would notice, or the reason why none does yet.

## 2. Modules

| Module | Models | Composes |
|---|---|---|
| `DeferQueue` | abstract: per CPU, a bounded FIFO of expired quanta with a drop count | |
| `Sched` | `sched.c` and its callers in `thread.c` | instantiates `DeferQueue` |
| `SchedProofs` | theorems about `Sched` | extends `Sched` |
| `StackPool` | abstract: stacks of one size, handed out and given back | |
| `Threads` | `thread.c`, `context.S` | instantiates `StackPool` |
| `ThreadsProofs` | theorems about `Threads` | extends `Threads`, `Induction` |
| `Allocator` | abstract: disjoint regions handed out and taken back | |
| `Heap` | `heap.c` | instantiates `Allocator` |
| `HeapProofs` | theorems about `Heap` | extends `Heap`, `Induction`, instantiates `StackPool` |
| `Pmm` | `pmm.c` | |
| `PmmProofs` | theorems about `Pmm` | extends `Pmm` |
| `Mmio` | device pages of `paging.c` | |
| `BootInfo` | `mboot2.c`, `acpi_hw.c`, the numbering of processors in `smp.c`, the idle threads of `thread_subsystem_early_init` | |
| `UserSpace` | `kernel_main` as far as it takes frames, ramfs and its self-test, directory of the process, flat loader, system calls | extends `Pmm`, `Mmio`, `BootInfo` |
| `UserSpaceProofs` | theorems about `UserSpace` | extends `UserSpace`, `PmmProofs`, `Induction` |
| `MCUserSpace` | memory maps, tags, ACPI tables, files and pointers for TLC | extends `UserSpace` |
| `SmpBoot` | IDT, 8259, I/O APIC, `smp.c`, trampoline, timer handler, serial lock, the five announced ticks | |
| `SmpBootProofs` | theorems about `SmpBoot` | extends `SmpBoot` |
| `Int80` | `irq_asm.S`, `syscall_invoke`, `tss_set_esp0`: the registers of a system call | |
| `Amd64` | `kernel_main_amd64` from its first line to its halt | extends `Sched`, instantiates `Threads` |
| `Amd64Proofs` | theorems about `Amd64` | extends `Amd64`, `SchedProofs`, instantiates `ThreadsProofs` |
| `MCAmd64` | machines for TLC | extends `Amd64` |
| `Induction` | lemmas on induction and recursion over the naturals | |

In every module an action bears the name of the function, or of the part of the
function, that it models; a variable names the C variable in its comment.
Definitions marked "Wrong on purpose" are plausible mistakes in that code; no
behaviour uses them. They show that each property can fail: substituted for the
definition behind them, they make TLC find the property violated.

### Sched

One step is one access to a word that the timer handler also touches. The
handler itself is one step, since it runs with interrupts off and touches its
own CPU's words alone. `irq[c]` is the interrupt flag, `flags[t]` the one a
thread that was switched out has pushed; a worker that never ran starts with
interrupts off, since the trampoline has no `popf`. The preempt-disable counter
is one word for all CPUs, as in the code, and is read up to three times on the
way from a checkpoint to the switch. The run queue is abstract: the switch goes
to any thread that may run on the CPU. `owed`, `taken` and `reported` are
history variables: CPUs whose quantum expired with no switch attempted since,
entries drained, drops reported.

`Interval` is PREEMPT_INTERVAL_TICKS, `Cap` SCHED_DEFER_CAP. The abstract
`DeferQueue` is what the ring must be: a FIFO that holds `Cap - 1` entries,
refuses the newest when it is full, and counts what it refuses.

### Threads

The detailed run queue. A step is one access to state another CPU may see;
what runs under the lock and is read by nobody without it is one step. Each CPU
has its own program counter and the stack it is on, apart from the thread it
says it runs: between the claim and `cpu_switch` the two disagree, which is
where the hazards are. The heap is a last-in first-out list of stacks (all
stacks have one size, so `kmalloc` returns the block freed last); module `Heap`
has the allocator itself, and `StackPool` is what each promises the other: the
heap hands out a stack nobody has, the last one freed first, and the threads give
back a stack they have, once. The timer only decides whether a checkpoint yields, so
each of the two yields of a checkpoint may or may not happen. Once two CPUs run
on one stack, or one on a stack that was freed, what the program does is
undefined and the model stops there (`Defined`): the SMP run explores what
happens up to that point.

### Heap

The arena is a row of granules of HEAP_HDR_ALIGN bytes: header, link or data,
data. Callers write over the whole of what they hold, so the link of a free
block is whatever was there before `kfree` wrote it. `Allocator` is the
promise: a region that is handed out is as large as asked, inside the arena,
and disjoint from every other one in use; a region returned is one in use.

### Pmm, Mmio, BootInfo, UserSpace

`Pmm` builds the bitmap from a memory map: ranges to free, the kernel, the boot
information, the bitmap itself; the order of the calls and the outward rounding
are the code's. `Mmio` models memory as words, because the question is whether
the pointer the kernel writes through and the address the processor walks are
the same; where the linker puts `g_mmio_pts` is a constant set, `Bases`.
`BootInfo` takes the Multiboot2 tags as a sequence of records with the sizes the
boot loader wrote, and the ACPI tables as records under their addresses: the
three walks over the tags stop where the code's stop, the RSDP leads to the
XSDT and then to the RSDT, and a MADT that is rejected half way leaves behind
what the code leaves behind. The memory map that `pmm_init` gets is what the
walk delivers; if the bitmap was built over the boot information, there is
nothing left to walk and `pmm_init` fails. `UserSpace` runs `kernel_main` from
there to the first user instruction, then any sequence of system calls. On the
way `verve_vfs_selftest` opens, reads and closes through the same descriptors
that the process uses later. `smp_init` installs the trampoline, and for each
processor takes a stack and writes the mailbox (`smp_stack`), then waits until
the processor has been through both (`smp_start_ap`). `Uses` is what frames are
used for at any moment: those taken from `pmm` (`AllocatedUses`), and the two of
the trampoline and the mailbox, which nobody takes (`LowUses`). The
process is the bring-up's or the flat program's: `exec_flat` allocates and maps
text page by page, then the stack, then copies, and gives up half way where the
code does. `pc` is where `kernel_main` or the call is; each frame has one
variable that says who holds it.

### SmpBoot

Every CPU has a program; `out` is where its call of `serial_puts` is and `isr`
where its timer handler is, which interrupts the program and takes the same
lock. Any subset of the application processors may be dead.

CPU 0 has two tick sources. Its local timer raises vector 64; the 8254 raises
vector 32 through the I/O APIC, if there is one and its pin is the one routed,
or through the 8259 unless `pic_init` has masked the line. `service` holds what
each controller has delivered and not yet seen an EOI for; a controller that
waits for one delivers nothing of the same or a lower class. `verve_irq_dispatch`
chooses the controller by the vector and by `g_timer_lapic_eoi`, which
`smp_start_lapic_timer` sets on whatever processor it runs.

### Int80

A frame is eight words. `pusha` and `popa` use them in the order of the
processor, `syscall_invoke` in that of `verve_exc_frame`; nothing in the module
makes the two agree. What a call does is in `UserSpace`.

### Amd64

The x86_64 kernel has one processor, one interrupt and no user mode, so it fits
into one module as a whole. Its scheduler and its threads do what their twins in
`sched.c` and `thread.c` do, line for line apart from register names: `Amd64`
composes `Sched` and `Threads` rather than restating them, and "map" gives the
lines of the twins. A step of the two together is a conjunction of a step of
each. What each leaves open the other decides: in `Sched` a switch goes to any
thread, in `Threads` a checkpoint may or may not yield. So the numbers of the
source (interval 5, 48 rounds of main, 6 of each worker) meet the ticks, and a
tick may fall between any two steps with interrupts on. Before the demo the
module has its own actions: the identity map with its rounding to large pages,
`idt_init`, both controllers, the timer, the five ticks of the boot.

## 3. Runs

| Run | Instance | Properties and why they matter |
|---|---|---|
| `SchedSMP` | two CPUs, one worker, interval 1, ring of 2, 2 ticks per CPU | `QuantumHonoured`: a quantum that expires on CPU 1 leads to an attempt to switch there, although the other CPU may hold the counter up at each of the three reads. |
| `ThreadsSMP` | two CPUs, three slots, three stacks, two spawns | `ClaimExclusive`, `AffinityRespected`, `RingIntact` under concurrent yields, reaps and spawns; `NobodyMissed` (a walk of the ring, from wherever it starts, finds a thread that can be claimed if there is one). |
| `Heap` | eight granules, requests of 0, 1, 2, 3 granules and one too large | `BlocksTile` (blocks cover the used part of the arena exactly), `ListEnds` (the free list has no cycle and leads to free blocks only), `ImplementsAllocator`. |
| `UserSpace` | frames of four bytes, maps with no, too few, just enough and many frames, one unmappable map, one with the boot information behind the kernel, one device slot, both placements of the pool, ten kinds of firmware, flat programs below, of and above one page, trampoline and mailbox in frames 2 and 3 | `NoReservedFrame`; `HoldsRam` (rounding outwards never reaches a frame without any RAM); `NothingLost`, `FramesAccounted`, `HeapBacked`, `CopyInBounds`; `FramesExclusive` (no frame has two uses; the trampoline and the mailbox, which nobody reserves, are no processor's stack as long as the free frames below them suffice); `DeliveredInOrder` (for the kernel's self-test and for the process); `StackKept` (a program that fits a page keeps its stack page); `EoiReaches`; `TablesWhole` (processors and I/O APIC come from one accepted MADT, never from a mixture) and `ApsAdopted` (each processor that is started has a number and an idle thread of its own). |
| `SmpBoot` | two application processors, five announced ticks, seven at most; with and without an I/O APIC, routed to the right pin or not | `OwnStack` (one mailbox, several readers), `NoSelfDeadlock`, `NothingLeftInService` (a tick is acknowledged where it came from, whichever timer it was), `BootEnds`. |
| `Amd64` | one CPU, the real demo: interval 5, ring of 3 (two usable), 20 ticks, two workers of 6 rounds, 48 rounds of main, three spawns on two stacks; eight machines | `MemoryMapped` (the rounding to large pages and directories leaves out neither the end of RAM nor the LAPIC). `QuantaAccounted`: every expired quantum is in the ring, drained, or counted as dropped, also while the drop count is being read and cleared. `NoLostQuantum`: while a quantum is owed, the request is visible or the thread is on its way to the switch. `ImplementsDeferQueue`: the ring refines the bounded FIFO. `NobodyPassedOver` (a yield finds a thread whenever one may run). `StackSafe`, `ClaimExclusive`, `RingIntact`, `StacksAccounted` (no stack is lost or held twice), `WorkersDone` (48 rounds are enough). `ImplementsStackPool`: the threads take and return stacks as the heap expects. `BootEnds`: the boot is refused or reaches its end. |
| `ThreadsZombie` | one CPU, two workers | `NoForgottenZombie` is violated, see 5. |
| `ThreadsStack` | as `ThreadsSMP` | `StackSafe` is violated, see 5. |
| `UserStart`, `MmioMap` | as `UserSpace` | `UserRuns` and `DeviceMapped` are violated, see 5. |
| `SmpBootTable` | one application processor | `TimerHandled` is violated, see 5. |
| `Int80` | three values for a register of the program | `CallAsAsked` is violated, see 5. |

### Why the bounds are enough

* Sched in `Amd64`: three is the smallest ring that holds two entries, so it
  wraps, fills and overflows; twenty ticks at interval five expire four quanta,
  two more than fit. The action system has no other use for the tick. Two CPUs
  with a ring of two drop at the second quantum; the shared counter needs one critical section.
* Threads: what matters is the order of a spawn, a yield and a reap on a ring
  with main, a worker and an idle thread in it. Two stacks for three spawns on
  one CPU gives a spawn without a stack and one that reuses a stack. 48 and 6
  are the real counts.
* Heap: eight granules hold two blocks of three with a remainder, so that a
  free block is too small, exact or too large for the next request.
* UserSpace: the layouts straddle every failure of `pmm_alloc_frame` from the
  first call on; the pointers are the first and last bytes of the pages that
  differ, and the last address, where the range check wraps. A file of six
  bytes with reads of at most four is read in pieces, and the self-test reads
  it into a buffer that is longer than it, as in the code. With frames of four bytes, flat programs
  of two, four and six bytes take less than a page, exactly one, and two. The
  trampoline has one free frame below it, or none where the boot information
  takes it, and there are up to two stacks to find: the stacks stay below, the
  first is the trampoline's frame and the second the mailbox's, or only the
  second is the trampoline's.
* BootInfo: tables good and spoilt, an XSDT that leads to a broken MADT while
  the RSDT leads to a good one, one that leads nowhere, an RSDP of either
  version, pointers of zero and above 2^32, one more processor than the limit
  (3 instead of 32), one that is disabled, no ACPI tag at all, a table that is
  not mapped, tag sizes with and without padding.
* Mmio: one slot instead of sixteen, so that the pool is found full; with a
  table five entries long, LAPIC and the first I/O APIC share a table and the
  second does not.
* SmpBoot: two processors are the fewest for which the mailbox is overwritten.
* Amd64: pages of two units, directories of two entries, three directories and
  the LAPIC in the second of them; memory that ends nowhere, inside a page, at
  the edge of a directory, above the LAPIC, and beyond the last directory.

The bound of a counter (`MaxTicks`) is in the guard of the tick. CHECK_DEADLOCK
is off where the modelled program really stops: main and a zombie at `hlt` with
ticks used up, a halted boot, a behaviour that became undefined. `Heap` never
stops and is checked for deadlock.

### Fairness

`WF` of each CPU's own steps: a CPU that can execute an instruction eventually
does. A thread spins or waits only where its guard is false. In `SmpBoot` and
`Amd64` the local timer of CPU 0 keeps ticking as well, since it is programmed
as periodic; the 8254 owes nobody a tick. Nothing is assumed of the timer in
`Sched` by itself, of the order in which CPUs get the lock, or of the
choice among threads. `QuantumHonoured` is stated for CPU 1, whose idle thread
never halts; main on CPU 0 ends in a `hlt` loop that makes no checkpoint.

## 4. Proofs

Every theorem holds for all values of the constants that the named ASSUMEs of
its module allow; TLC evaluates those assumptions in the runs. They say that
sizes are positive, that the ring and the pools have room for at least one
entry, and what section 6 lists about the firmware. Hypotheses beyond that are
named below. Each proof has the same shape: an inductive invariant, one lemma
for the initial states, one step per action, and a theorem that draws the
property from it. TLC checked each strengthening on a run before it was proved.

**Scheduler** (`SchedProofs`), any number of CPUs and workers, any interval, any
ring capacity of at least two:

* `TypeCorrect`. Type correctness alone is inductive: ring indices stay inside
  the ring whatever interleaves.
* `QuantumSafe`: with one CPU, `NoLostQuantum`. It is not inductive:
  `clear_resched_and_check` erases the request, and is harmless only because a
  switch was attempted on the way there. The strengthening says that a thread
  about to clear the request (`ClearInv`) is owed nothing that is not also in
  the ring, and that on one CPU the counter is zero unless the thread inside its
  critical section runs (`CritInv`), so that no read of it refuses between the
  request and the switch. With two CPUs the property is false, which is why the
  SMP run states the weaker `QuantumHonoured`.
* `QuantaSafe`: `QuantaAccounted`, for any number of CPUs. `DrainInv` relates
  the locals of `sched_process_deferred` to the ring and the drop count while it
  runs with interrupts off; without it a tick between the read and the reset of
  the drop count would lose a drop.
* `RingIsQueue`: the ring refines `DeferQueue`. A push appends to the queue that
  the ring stands for (`PushAppends`), a drain takes its head (`DrainTakes`),
  and every other step leaves it alone.

**Threads** (`ThreadsProofs`), any number of slots, stacks, spawns and rounds, at
most two CPUs:

* `ClaimSafe` and `AffinitySafe`, from `OwnInv`: the token of the thread
  that a CPU runs names that CPU, a thread on the ring that runs is not a free slot,
  a slot that is being filled is free, only slots are reaped, and nobody has
  touched the idle thread of a CPU that is still offline.
* `RingSafe`: `RingIntact`. The property walks the ring; the invariant (`Ring`)
  does not: `next` is a permutation of the nodes that have one, and every set
  that contains main and is closed under `next` contains them all. `RingInsert`
  and `RingRemove` show that linking and unlinking keep both parts, `RingWalk`
  that the walk of `pick_next` then visits each node once and returns.
* `EveryoneReached`: `NobodyMissed`. The walk visits every node of the ring, so
  the first claimable one on it exists and is not passed over.
* Two CPUs is not a convenience: with three TLC finds `RingIntact` violated (see
  section 5). With two, these theorems are about `Spec`, whose guard `Defined`
  ends a behaviour in which the CPUs have come to share a stack; section 5 has
  that case too.

On one CPU the guard is not needed, and the theorems are about `OpenSpec`, which
has no such guard:

* `NeverUndefined`, `StacksSafe`, `StacksKnown`: the guard `Defined` never bites,
  no stack is run on after it was freed, and every stack is in one place. The
  invariant (`UniInv`) names that place. The CPU is on the stack of the thread it
  says it runs, except between the claim and `cpu_switch`, when it is still on
  that of the thread it leaves (`Runs`). A slot has a stack exactly while it is
  in use, and a little longer at both ends (`Held`); a stack that no slot has is
  in the hands of `reap_kfree` or on the free list (`PlaceInv`). A zombie is
  reaped only by another thread, after the switch (`ZombieInv`).
* `OneTyped`: `TypeOK`. Types alone are not inductive here: that a program
  counter taken from `ret` is a label needs `ReturnInv` (a thread that waits in
  `sched_yield` has set its return point), and that a stack pointer is a stack
  needs `UniInv`.
* `OneWorkersDone`, for main loops of more than `2 * Rounds` rounds: when main goes
  back to its idle loop no worker can run. The invariant (`RoundInv`) counts turns.
  A thread may take `Turns(t)` more of them: two for each round it has left and what
  its place in the round still costs (`Level`). Outside main's `sched_yield` that is
  at most `Budget`: `2 * Rounds + 1` less one for each round main has made. Inside,
  an arc of the ring (`Arc`) reaches from main to the thread that runs: the threads
  on it have had their turn since main yielded, the others may need one more. `pick_next` extends the arc by what it passed (`PickPath`), so it
  is the whole ring when main runs again (`TurnClaims`); a zombie that is unlinked
  leaves it without a gap (`TurnUnlinks`). That main yields at all needs `CourseInv`:
  only the worker in its critical section raises the preempt-disable counter, and it
  does not switch there. The bound is tight: with `MainRounds = 2 * Rounds`
  TLC finds a worker that has not ended.
* `OneStackPool`: the threads implement `StackPool`. What is held are the stacks of
  slots and the one between the end of the lock and `kfree` (`Owned`). That
  `kfree` gets a stack that is held, and that it is then held no more, is
  `PlaceInv`. It fails on two CPUs where `StacksAccounted` does (section 5).
* `OneSafe` collects the first of these for the x86_64 kernel. `OneFinds`, which it uses there,
  is `NobodyMissed` with "claimable" replaced by "runnable": with one CPU only the
  running thread has a token (`TokenInv`).

**Heap** (`HeapProofs`), any arena and any requests:

* `HeapTypes`, `TilesArena`, `ListSafe`. The free list is the smallest set that
  has the head and what each link leads to (`Listed`). `HeapInv` says that links
  are injective and none leads back to the head, that blocks are apart and cover
  what was carved, and that a held region has a block of its own that is not
  listed. That last part is what lets callers write over everything they hold.
* `HeapIsAllocator`: the heap refines `Allocator`; regions are disjoint because
  blocks are.
* `HeapIsStackPool`, when all requests have one size, as those of `thread.c` have:
  the heap implements `StackPool`, with blocks numbered by their place. The
  invariant (`PoolInv`) says that all blocks are equally long, so the first one on
  the list fits (`FirstFits`) and first fit becomes last in, first out. `Numbers` is the list as `Walk` meets it; a free puts a number in
  front (`WalkPushed`), an allocation takes the first (`WalkPopped`). Together with
  `OneStackPool` this is why `Threads` may take the heap for a list of stacks.
* `RefusedWhenSpent`: with one size `kmalloc` refuses only when the list is empty and
  the arena is carved up. With several sizes it is false: `heap.c` does not join
  free neighbours.

**Frames** (`PmmProofs`), any frame size and any memory maps in which some
available range ends last:

* `PmmTypeCorrect`, `ReservedSafe`, `BitmapExact`, `RamOnly`. The invariant is
  `TypeOK` with `Split`: the bitmap is the disjoint union of what `pmm_init`
  built and of the frames handed out. Disjointness carries `pmm_free_frame`:
  giving back an owned frame cannot free one of the initial ones. `RamOnly` adds
  the arithmetic of the rounding (`RoundedOutwards`).

**Boot and user space** (`UserSpaceProofs`), any memory map, tables, place of the
device page tables, files, programs and sequence of calls. Every invariant of
the run is proved:

* `UserReserved`, `UserRam`, `UserExact`: each step is a step of `Pmm` or leaves
  the bitmap alone (`RunsPmm`), so what is proved of `Pmm` carries over.
* `FramesOnceUsed`, `FramesKnown`. A frame just handed out is in no other use
  because all uses are of frames handed out before (`FrameInv`) and the bitmap is
  exact. That the variable which receives it held none follows from where
  `kernel_main` is (`Untaken`); that the page had none follows from `PteInv`.
  The trampoline and the mailbox are used without being taken. `LowInv` says
  that while they are, nothing has been given back, every frame taken is one
  stack, and below it all frames are reserved or stacks too. So a stack that
  does not lie below the trampoline comes with one for each frame that was free
  there, and the stacks are more than those (`StacksBelow`, by counting): the
  exception `Crowded` of the property, and the only one.
* `HeapIsBacked`, `StackIsKept`, `CopiesInBounds`. `PteInv` and `LoaderInv` say
  which user pages are mapped at each point of the loader and of `brk`, also
  after a call that failed half way. The range check of `paging.c` wraps at
  2^32; `RangeMapped` shows it sound all the same.
* `FilesInOrder`, from an invariant about open descriptors alone (`FileInv`).
* `MadtTrusted`, `ProcessorsAdopted`. `HwOk` says that what the kernel knows of
  the processors is what one accepted MADT says: a recursion over its entries,
  proved by induction over the number of entries read (`MadtRead`, `Collected`).
  Three walks over the list (numbers, idle threads, start) then agree.
* `LapicReached`. `DeviceInv` has the slot each device page took, where its table
  lies and what that table says, and that the processor, from whatever address
  the build gives the pool, walks to the same word.
* `UserTyped`, from all of the above.

The assumptions about programs (`UserSpaceAssumption`) are that a flat program
ends below the cap of user space, which `exec_flat` checks, and that addresses
and lengths have 32 bits.

**SMP bring-up** (`SmpBootProofs`), any number of processors of which any may be
dead:

* `BootTypes`, `StacksAreOwn`, `SerialLockSafe`, `TicksAcknowledged`. Own stacks
  follow from `MailInv`: only the processor being started is in the trampoline.
  The lock follows from `TickInv`: a handler that prints found main waiting for
  it and not printing. `ServiceInv`: by the time interrupts are on, the 8259
  delivers nothing and every EOI goes to the local APIC.

**x86_64** (`Amd64Proofs`), any machine, page, directory and constants of the
scheduler:

* `RamAndLapicMapped`: the rounding to pages and directories loses nothing.
* `AmdQuantaSafe`, `AmdQuantumSafe`, `AmdRingIsQueue`: every step of the kernel is
  a step of `Sched` or leaves its state alone (`KernelSteps`), so its theorems
  hold of the composition.
* `RunsThreads`: the same for `Threads`, without the guard `Defined`. With it the
  theorems of `ThreadsProofs` about one CPU, instantiated as `TP`, give
  `AmdStacksSafe`, `AmdStacksKnown`, `AmdClaimSafe`, `AmdRingSafe` and `AmdTyped`.
  TLAPS takes the definitions of `T` and `TP` for different ones; the lemmas
  named `Same...` say that they are equal.
* `AmdWorkersDone`: `WorkersDone`, from `OneWorkersDone` in the same way. Its
  hypothesis on the constants, `MainRounds > 2 * Rounds`, is met by
  `thread_amd64.c` with 48 rounds of main for 6 of a worker; no fairness is
  needed, because main cannot end its loop without switching.
* `AmdStackPool`: `ImplementsStackPool`, from `OneStackPool`, with the two
  instances of `StackPool` shown to be equal.
* `AmdNobodyPassedOver`: `NobodyPassedOver`. `Sched` knows which workers have ended
  from their program counters (`Dead`), `Threads` from `state`, and different steps
  write the two. `CoupleInv` relates them: both name the same running thread,
  except from the claim until the switch is complete, and from the moment main
  has left the spawn loop a slot is runnable exactly if it is a worker that has
  not ended. That the slots main filled are the constant `Workers` comes from
  `LaunchInv`: the slots are filled in order until the calls, the stacks or the
  slots are used up.

**Induction.** The library's induction theorems take a predicate as parameter,
which the provers here cannot instantiate. `Induction` states the principle with
a set in its place (`SetInduction`) and proves from it that functions given by a
recursion exist (`IterationExists`, `RecursionExists`): that is what connects
`Walk`, the free list and the MADT, defined with CHOOSE, to their equations.

Only model-checked: `QuantumHonoured` and both `BootEnds`, because fairness and
ENABLED are out of the prover's reach. Every other property of a passing run is
stated by a theorem. Those of `Threads` stop at two CPUs, because
`RingIntact` is false on three and the other invariants lean on the same reaping.

## 5. Where code and documentation disagree

Each of these is a run that checks one property the repository states, and that
TLC finds violated by what the code does. PROJECT.json has the quotations.

1. `NoForgottenZombie` (`thread.c:264`). README.md says a zombie is reaped after
   the switch away from it. The reaping call stands behind `cpu_switch` in
   `sched_yield`; a thread that runs for the first time starts in the trampoline
   and never gets there, and the next yield overwrites `g_yield_from`. The
   zombie keeps its slot and its stack. It needs a worker that ends before
   another one first ran.
2. `StackSafe` with two CPUs (`thread.c:317`). The token is dropped before
   `cpu_switch` saves the stack pointer, so another CPU may enter a stack that
   is still in use.
3. `TimerHandled` (`smp.c:203`). The comment in `sched.c` says that each CPU's
   timer calls `sched_timer_tick`. No application processor loads an IDT.
4. `UserRuns` (`paging.c:237`). The directory entry of a new user page table has
   no U/S, so ring 3 cannot reach the pages whose own entries have it.
5. `DeviceMapped` (`paging.c:55`). A page table in `g_mmio_pts` need not begin on
   a page, and the directory holds its address without the low twelve bits.
6. `CallAsAsked` (`irq_asm.S:36`). README.md says that EAX has the number of the
   call and EBX, ECX, EDX its arguments. `pusha` leaves EDI lowest and EAX
   highest; `verve_exc_frame` begins with `eax`. The number is taken from EDI,
   the arguments from the saved ESP, ESI and EBP.

The models go on behind these points, because most of the code's logic is
there: the SMP runs of `Sched` and `Threads` let application processors take
ticks, the system calls of `UserSpace` are modelled as their handlers, entered
from a program that runs, with the arguments it meant to pass, and the run `UserSpace` explores a build in which the
pool lies well (base 3, where the table begins on a page) next to the layout of
`gcc -m32 -O2` (base 0, in which the boot halts at its first access).

Met on the way, and not shown by a run:

* `sched.c` and `thread.c` on two CPUs: a quantum is forgotten when another CPU
  holds the shared counter up at the second of its reads (`NoLostQuantum` with
  `NCPU = 2`), and a switch happens while another CPU is in its critical section.
* `thread.c:77` on three CPUs: two of them read the same zombie from
  `g_yield_from`, one reaps it, main spawns into the slot, and the other reaps
  the new thread before it is on the ring. `RingIntact` is violated with
  `NCPU = 3`, `MaxThreads = 4`, `NStacks = 4`, `Spawns = 2`, `Rounds = 1`,
  `MainRounds = 0`, and holds with two CPUs whatever the other constants are.
* `thread.c:93` on two CPUs: `thread_reap_yield_from` sets the slot UNUSED
  before it clears `kstack`. `thread_alloc_slot` takes no
  lock, so a spawn on the other CPU may take the slot in between, and the late
  assignment erases the stack of the new thread. `StacksAccounted` is violated
  with the constants of `ThreadsSMP.cfg`, before any stack is shared.
* `smp.c:154` with nine processors or more. The trampoline is copied to 0x8000
  and the mailbox lies at 0x9000; `pmm_init` reserves neither frame, and
  `pmm_alloc_frame` hands out the lowest free one. Frames 1 to 7 make stacks
  for seven application processors (for fewer, if the boot information lies
  there). The next one's stack ends where the trampoline's page ends, and the one
  after that has its stack in the mailbox's page, while the remaining processors
  still start through both. The code and the data lie at the other end of the
  pages, so only a deep stack writes over them. Without its exception
  `FramesExclusive` is violated by the first machine of the run `UserSpace` that
  has a processor to start and no free frame below the trampoline. No document
  says that those pages are kept free, so there is no run of it.
* `boot_chain32.S:87` compares the loader's number in EAX after `_start` has
  printed through AL; every loader is turned away.
* `long64_stub.S:43` calls the first byte of the inner image, which is whatever
  function the linker put there. Its stack begins at 0x120000
  (`boot_layout.inc`), not at the end of the area reserved for it.
* After `iret` to ring 3 DS and ES are null, and no entry code loads them.

## 6. Abstractions

* Delays in `smp_init` are assumed long enough for a processor that answers at
  all; the code assumes the same. In `SmpBoot` the delay of `smp.c:175` waits
  until the processor has left the trampoline, in `UserSpace` starting one is a
  single step.
* `FirmwareAssumption` says what is taken on trust of a MADT whose length and
  checksum are in order: the boot processor comes first, as the ACPI
  specification asks, no processor is listed twice, and no I/O APIC lies at
  address 0. Nothing is assumed of a table that is not in order.
* A checksum or a length of a table is in order or not; an entry of a MADT fits
  or not; a MADT has its fixed part (the check of
  `acpi_hw.c:112` is left out). `MAX_CPUS_HW`, `MAX_APIC` and `MAX_SMP_CPU` are one
  constant, as all are 32.
* Most of the machines in the run `UserSpace` give tags whose sizes include the
  padding, and tables inside the memory that is mapped. Where they do not, the
  boot ends in `main_memory` and `main_acpi`, as the hazards at `mboot2.c:21`
  and `acpi_hw.c:162` say; the rest of the kernel would never run otherwise.
* `paging_map_identity_page` for the trampoline and the mailbox, and the AP's own
  mapping of the LAPIC, rewrite page table entries that are there already and are
  left out. The frames of trampoline and mailbox count as used from
  `smp_install_trampoline` to the end of the loop, and while a processor is
  being started. A started processor keeps a GDT in the trampoline's page; it
  loads no selector from it again.
* `pmm_init` fails whenever the bitmap would lie over the boot information. In
  the code it fails if the ones reach the head of a tag; a memory map entry of
  ones is passed over (`mboot2.c:139`). A memory map that makes no frame at all
  (`pmm.c:128`) is excluded by `PmmAssumption`.
* `cpu_switch` of `Threads` reads the new thread's `esp` (`thread.c:325`) in the
  step that saves the old one and loads it.
* A system call runs to its end before the next one: it has interrupts off and
  there is one process. User text is any sequence of calls instead of the
  emitted one.
* Kernel output is left out except for the lock it takes.
* `Pmm` has no addresses of 2^32 and more: `paging_identity_init` stops the boot
  for any machine with RAM above 512 MiB, before a frame is allocated.
* A local APIC is its vectors in service. Priorities within a class and
  spurious interrupts are left out.
* `Amd64` takes the frames of `pmm_init` as there or not there, since nothing
  behind it allocates one; `Pmm` has the function.

Not modelled, and why:

* The layout of descriptors and device registers, VGA, and the formatting of
  output: no state of the kernel depends on them.
* `exc_asm.S` and the printing part of `verve_exc_dispatch`: an exception ends in
  `hlt`, and the modules end there too.
* Code nobody calls: `pit.c`, `acpi_smp.c`, `paging_pte_set_user`.
* The basic memory tag of Multiboot2, which is only printed, and interrupt
  overrides of the MADT: a wrong length makes the code skip each of them, and
  `SmpBoot` takes the routed pin as right or wrong instead.
* `boot.S` and the x86_64 boot chain: straight-line code in front of the kernel.
* Two CPUs inside `kmalloc` and `kfree` at once. The heap has no lock
  (`heap.c:37`); `Threads` takes each call as one step, and any property of the
  heap would be refuted for the same reason.
* How deep a stack grows.

## 7. Plan

Done: the modules and runs above, and the proofs of section 4. What is left:

1. `TypeOK` of `Threads` on two CPUs, up to the first shared stack (the guard
   `Defined`). `StacksAccounted` is not for that theorem: section 5 says how it
   fails there.
2. The frames that `UserSpace` holds as regions of an allocator like `Allocator`,
   with `Pmm` as the one that implements it, as was done for the stacks of
   `Threads` and the heap.
