----------------------------- MODULE UserSpace ------------------------------
(***************************************************************************)
(* The memory a process lives in and the calls it makes: the part of       *)
(* kernel_main that takes frames, the page table of the singleton process  *)
(* (arch/i386/paging.c, kernel/proc.c) and the two ways to start it        *)
(* (kernel/user_bringup.c, kernel/exec_flat.c), and the system calls that  *)
(* look at it (kernel/syscall.c, kernel/vfs_ram.c), on top of the frame    *)
(* allocator of module Pmm, the device pages of module Mmio and the tables *)
(* of module BootInfo.                                                     *)
(*                                                                         *)
(* Addresses are numbers below AddrSize, in pages of FrameSize bytes.  All *)
(* of the user's pages lie under one page directory entry, so one page     *)
(* table holds them; what lies outside is the identity map or not mapped,  *)
(* and user pointers to it are refused alike.  A call runs with interrupts *)
(* off from int 0x80 to iret; its arguments are those syscall_invoke takes *)
(* from the frame (module Int80 is about the way there).  A call that is   *)
(* refused changes nothing and is no step.                                 *)
(***************************************************************************)
EXTENDS Pmm, Mmio, BootInfo

CONSTANTS MaxPages,   \* MAX_ID_PT page tables' worth of pages
          Lapic,      \* page of LAPIC_DEFAULT_BASE
          Tramp,      \* frame of VERVE_SMP_TRAMP_PHYS
          Mail,       \* and of VERVE_SMP_MAIL_PHYS
          TextPage,   \* page of USER_TEXT_VA; the stack and the heap follow
          CapPage,    \* page of VERVE_USER_HEAP_CAP
          Files,      \* names in g_vfs_files
          FileLen,    \* and their lengths
          TestFile,   \* the one verve_vfs_selftest reads
          TestBuf,    \* and how much of it at most
          FlatLens,   \* lengths of flat programs; the built-in one is short
          Fds,        \* VFS_MAX_UFD
          ReadMax,    \* the cut of SYS_READ, one page
          WriteMax,   \* SYS_WRITE_MAX
          Pointers,   \* addresses the program passes
          Lengths     \* and lengths

StackPage == TextPage + 1
HeapPage == TextPage + 2
UserPages == TextPage .. CapPage - 1
UfdSlots == 0 .. Fds - 1

\* The programs in the ramfs end below the cap; a length has as many bits as an
\* address.
ASSUME UserSpaceAssumption ==
  /\ {MaxPages, TextPage, CapPage, ReadMax, WriteMax} \subseteq Nat
  /\ HeapPage < CapPage /\ CapPage * FrameSize < AddrSize
  /\ MaxPages <= TextPage
  /\ Lapic \in Nat /\ Lapic >= CapPage
  /\ Tramp \in Nat \ {0} /\ Mail \in Nat /\ Tramp < Mail
  /\ Fds \in Nat \ {0} /\ FileLen \in [Files -> Nat] /\ TestFile \in Files
  /\ TestBuf \in Nat
  /\ FlatLens \subseteq 1 .. (CapPage - TextPage) * FrameSize
  /\ Pointers \cup Lengths \subseteq 0 .. AddrSize - 1

VARIABLES pc,         \* where kernel_main, or the call it serves, is
          next,       \* i of smp_init, from 1
          aps,        \* <<id, frame>> of the processors it started
          probe,      \* a and b of kernel_main: the frame it holds, or 0
          pd,         \* g_cur.pd_phys
          dir,        \* the device entries of that directory
          code,       \* phys_code
          stk,        \* phys_stack
          pt,         \* frame of the user page table, 0 when there is none
          pte,        \* its entries: [frame, flags]
          brk,        \* g_brk, as a page
          prog,       \* length of the flat program, 0 for the smoke test
          va, goal,   \* locals of the loops that map pages
          enomem,     \* history: a call returned ENOMEM
          ufd,        \* g_ufd
          delivered,  \* history: bytes of the file a descriptor has delivered
          touched     \* history: pages the kernel accessed for the last call

proc == <<pd, dir, code, stk, pt, pte, prog>>
heap == <<brk, va, goal, enomem>>
files == <<ufd, delivered, touched>>
uvars == <<vars, mmio, bootinfo, pc, next, aps, probe, proc, heap, files>>

RWU == {"present", "rw", "us"}
NoEntry == [frame |-> 0, flags |-> {}]

(***************************************************************************)
(* The descriptors of the ramfs.                                           *)
(***************************************************************************)
UfdFree == { s \in UfdSlots : ~ ufd[s].used }

\* Wrong on purpose: the position of the last file is kept.
ufd_alloc_stale(file) ==
  LET s == Min(UfdFree) IN
  /\ ufd' = [ufd EXCEPT ![s].used = TRUE, ![s].file = file]
  /\ delivered' = [delivered EXCEPT ![s] = << >>]

\* The first slot that is not used; there is one.
ufd_alloc(file) ==
  LET s == Min(UfdFree) IN
  /\ ufd' = [ufd EXCEPT ![s] = [used |-> TRUE, file |-> file, pos |-> 0]]
  /\ delivered' = [delivered EXCEPT ![s] = << >>]

\* What n bytes asked for come to.
Want(s, n) == Min({FileLen[ufd[s].file] - ufd[s].pos, n})

\* Wrong on purpose: the position moves by what was asked for.
advance_by_len(s, n) ==
  /\ ufd' = [ufd EXCEPT ![s].pos = @ + n]
  /\ delivered' = [delivered EXCEPT ![s] =
                      @ \o [i \in 1 .. Want(s, n) |-> ufd[s].pos + i - 1]]

advance(s, n) ==
  /\ ufd' = [ufd EXCEPT ![s].pos = @ + Want(s, n)]
  /\ delivered' = [delivered EXCEPT ![s] =
                      @ \o [i \in 1 .. Want(s, n) |-> ufd[s].pos + i - 1]]

\* vfs_open_k, vfs_read_k, verve_vfs_close_u on the kernel's own behalf
verve_vfs_selftest ==
  /\ \/ pc = "vfs" /\ pc' = "vfs read" /\ ufd_alloc(TestFile)
     \/ /\ pc = "vfs read" /\ pc' = "vfs close"
        /\ \E s \in UfdSlots \ UfdFree : advance(s, TestBuf)
     \/ /\ pc = "vfs close" /\ pc' = "paging"
        /\ \E s \in UfdSlots \ UfdFree : ufd' = [ufd EXCEPT ![s].used = FALSE]
        /\ UNCHANGED delivered
  /\ UNCHANGED <<vars, mmio, bootinfo, next, aps, probe, proc, heap, touched>>

(***************************************************************************)
(* kernel_main up to the first user instruction.                           *)
(***************************************************************************)
\* mb2_sum_usable_ram, pmm_init
main_memory ==
  /\ pc = "start"
  /\ IF walk_mmap_entries /\ ~ BitmapOverInfo(layout)
     THEN pmm_init /\ pc' = "vfs"
     ELSE pc' = "halted" /\ UNCHANGED vars
  /\ UNCHANGED <<mmio, bootinfo, next, aps, probe, proc, heap, files>>

\* paging_identity_init(pmm_max_pfn())
main_paging ==
  /\ pc = "paging"
  /\ pc' = IF count > MaxPages THEN "halted" ELSE "acpi"
  /\ UNCHANGED <<vars, mmio, bootinfo, next, aps, probe, proc, heap, files>>

\* Only the frames of the bitmap are mapped now, and idt_init comes later: a
\* table anywhere else ends the boot.
TablesMapped == \A p \in ToSet(Rsdp) : \A a \in AcpiReads(p) : a \div FrameSize < count

main_acpi ==
  /\ pc = "acpi"
  /\ IF TablesMapped THEN acpi_hw_init /\ pc' = "lapic"
                      ELSE pc' = "halted" /\ UNCHANGED bootinfo
  /\ UNCHANGED <<vars, mmio, next, aps, probe, proc, heap, files>>

\* lapic_bsp_early_init maps the page and accesses it; what the call returned
\* is not looked at.  An access that faults halts the machine.
lapic_bsp_early_init ==
  /\ pc = "lapic"
  /\ paging_map_identity_page(Lapic)
  /\ pc' = IF Reaches(boot_pd, Lapic)' THEN "apic map" ELSE "halted"
  /\ UNCHANGED <<vars, bootinfo, next, aps, probe, proc, heap, files>>

main_number_cpus ==
  /\ \/ pc = "apic map" /\ smp_bootstrap_apic_map /\ pc' = "idle threads"
     \/ pc = "idle threads" /\ thread_subsystem_early_init /\ pc' = "ioapic"
  /\ UNCHANGED <<vars, mmio, next, aps, probe, proc, heap, files>>

\* ioapic_init_from_acpi, and ioapic_route_irq0_timer if there is one
ioapic_init_from_acpi ==
  /\ pc = "ioapic"
  /\ UNCHANGED <<vars, bootinfo, next, aps, probe, proc, heap, files>>
  /\ IF hw.ioapic = 0
     THEN pc' = "smp" /\ UNCHANGED mmio
     ELSE /\ paging_map_identity_page(hw.ioapic)
          /\ pc' = IF Reaches(boot_pd, hw.ioapic)' THEN "smp" ELSE "halted"

\* smp_init up to its loop.  Without a list of processors it returns at once.
smp_install_trampoline ==
  /\ pc = "smp"
  /\ pc' = IF hw.cpus = << >> THEN "probe" ELSE "aps"
  /\ UNCHANGED <<vars, mmio, bootinfo, next, aps, probe, proc, heap, files>>

\* The boot processor is passed over, and so is one there is no stack for.  With
\* a stack the mailbox is written.
smp_stack ==
  /\ pc = "aps" /\ next \in DOMAIN hw.cpus
  /\ \/ /\ hw.cpus[next] = Bsp
        /\ next' = next + 1
        /\ UNCHANGED <<vars, pc, aps>>
     \/ /\ hw.cpus[next] # Bsp
        /\ pmm_alloc_frame(0)
        /\ next' = next + 1
        /\ UNCHANGED <<pc, aps>>
     \/ /\ hw.cpus[next] # Bsp
        /\ \E f \in 1 .. count :
             pmm_alloc_frame(f) /\ aps' = aps \cup {<<hw.cpus[next], f>>}
        /\ pc' = "sipi"
        /\ UNCHANGED next
  /\ UNCHANGED <<mmio, bootinfo, probe, proc, heap, files>>

\* The processor gets its interrupts, runs the trampoline and leaves it with
\* what the mailbox says.
smp_start_ap ==
  /\ pc = "sipi"
  /\ next' = next + 1
  /\ pc' = "aps"
  /\ UNCHANGED <<vars, mmio, bootinfo, aps, probe, proc, heap, files>>

smp_done ==
  /\ pc = "aps" /\ next \notin DOMAIN hw.cpus
  /\ pc' = "probe"
  /\ UNCHANGED <<vars, mmio, bootinfo, next, aps, probe, proc, heap, files>>

\* a = pmm_alloc_frame(); pmm_free_frame(a); b = pmm_alloc_frame()
main_probe ==
  /\ \/ /\ pc = "probe" /\ pc' = "free"
        /\ \E f \in 0 .. count : pmm_alloc_frame(f) /\ probe' = f
     \/ /\ pc = "free" /\ pc' = "again"
        /\ pmm_free_frame(probe * FrameSize) /\ probe' = 0
     \/ /\ pc = "again" /\ pc' = "clone"
        /\ \E f \in 0 .. count : pmm_alloc_frame(f) /\ probe' = f
  /\ UNCHANGED <<mmio, bootinfo, next, aps, proc, heap, files>>

\* Wrong on purpose: the clone has the identity map alone.
verve_proc_init_singleton_no_devices ==
  /\ pc = "clone"
  /\ \E f \in 0 .. count : pmm_alloc_frame(f) /\ pd' = f
  /\ brk' = HeapPage
  /\ pc' = IF pd' = 0 THEN "halted" ELSE "code"
  /\ prog' \in FlatLens \cup {0}
  /\ UNCHANGED <<mmio, bootinfo, next, aps, probe, dir, code, stk, pt, pte, va, goal, enomem, files>>

\* The clone has what boot_pd has at this time, tables shared.  Which of the two
\* callers there is, is decided when the kernel is compiled.
verve_proc_init_singleton ==
  /\ pc = "clone"
  /\ \E f \in 0 .. count : pmm_alloc_frame(f) /\ pd' = f
  /\ dir' = IF pd' = 0 THEN dir ELSE boot_pd
  /\ brk' = HeapPage
  /\ pc' = IF pd' = 0 THEN "halted" ELSE "code"
  /\ prog' \in FlatLens \cup {0}
  /\ UNCHANGED <<mmio, bootinfo, next, aps, probe, code, stk, pt, pte, va, goal, enomem, files>>

\* Both frames are taken before either is tested.
user_frames ==
  /\ \/ /\ pc = "code" /\ pc' = "stack"
        /\ \E f \in 0 .. count : pmm_alloc_frame(f) /\ code' = f
        /\ UNCHANGED stk
     \/ /\ pc = "stack"
        /\ \E f \in 0 .. count : pmm_alloc_frame(f) /\ stk' = f
        /\ pc' = IF code = 0 \/ stk' = 0 THEN "halted" ELSE "text"
        /\ UNCHANGED code
  /\ UNCHANGED <<mmio, bootinfo, next, aps, probe, pd, dir, pt, pte, prog, heap, files>>

\* paging_map_page takes a frame for the page table when there is none.
map_text ==
  /\ pc = "text"
  /\ \E f \in 0 .. count : pmm_alloc_frame(f) /\ pt' = f
  /\ IF pt' = 0
     THEN pc' = "halted" /\ UNCHANGED pte
     ELSE /\ pte' = [pte EXCEPT ![TextPage] = [frame |-> code, flags |-> RWU]]
          /\ pc' = "map_stack"
  /\ UNCHANGED <<mmio, bootinfo, next, aps, probe, pd, dir, code, stk, prog, heap, files>>

map_stack ==
  /\ pc = "map_stack"
  /\ pte' = [pte EXCEPT ![StackPage] = [frame |-> stk, flags |-> RWU]]
  /\ IF prog = 0 THEN pc' = "user" /\ UNCHANGED va
                 ELSE pc' = "extra text" /\ va' = TextPage + 1
  /\ UNCHANGED <<vars, mmio, bootinfo, next, aps, probe, pd, dir, code, stk, pt, prog,
                 brk, goal, enomem, files>>

\* Wrong on purpose: a page more than the program needs when it fills its last.
TextPages_one_more == prog \div FrameSize + 1

TextPages == (prog + FrameSize - 1) \div FrameSize

\* The pages of a flat program behind its first.
exec_flat_page ==
  /\ pc = "extra text" /\ va < TextPage + TextPages
  /\ \E f \in 0 .. count :
       /\ pmm_alloc_frame(f)
       /\ IF f = 0
          THEN pc' = "halted" /\ UNCHANGED <<pte, va>>
          ELSE /\ pte' = [pte EXCEPT ![va] = [frame |-> f, flags |-> RWU]]
               /\ va' = va + 1
               /\ UNCHANGED pc
  /\ UNCHANGED <<mmio, bootinfo, next, aps, probe, pd, dir, code, stk, pt, prog,
                 brk, goal, enomem, files>>

\* paging_switch_cr3, then bzero_user_text and copy_blob through the new pages
exec_flat_copy ==
  /\ pc = "extra text" /\ va >= TextPage + TextPages
  /\ touched' = TextPage .. TextPage + TextPages - 1
  /\ pc' = "flat"
  /\ UNCHANGED <<vars, mmio, bootinfo, next, aps, probe, proc, heap, ufd, delivered>>

(***************************************************************************)
(* SYS_BRK, one step for each page it maps.                                *)
(***************************************************************************)
\* Wrong on purpose: the heap is mapped again from its base.
sys_brk_from_base(page) ==
  /\ pc = "user"
  /\ HeapPage <= page /\ page < CapPage /\ page > brk
  /\ va' = HeapPage /\ goal' = page
  /\ pc' = "brk"
  /\ UNCHANGED <<vars, mmio, bootinfo, next, aps, probe, proc, brk, enomem, files>>

sys_brk(page) ==
  /\ pc = "user"
  /\ HeapPage <= page /\ page < CapPage /\ page > brk
  /\ va' = brk /\ goal' = page
  /\ pc' = "brk"
  /\ UNCHANGED <<vars, mmio, bootinfo, next, aps, probe, proc, brk, enomem, files>>

\* Wrong on purpose: a page that could not be had is passed over.
brk_page_unchecked ==
  /\ pc = "brk" /\ va < goal
  /\ \E f \in 0 .. count :
       /\ pmm_alloc_frame(f)
       /\ IF f = 0
          THEN enomem' = TRUE /\ UNCHANGED pte
          ELSE /\ pte' = [pte EXCEPT ![va] = [frame |-> f, flags |-> RWU]]
               /\ UNCHANGED enomem
  /\ va' = va + 1
  /\ UNCHANGED <<mmio, bootinfo, pc, next, aps, probe, pd, dir, code, stk, pt, prog, brk, goal, files>>

brk_page ==
  /\ pc = "brk" /\ va < goal
  /\ \E f \in 0 .. count :
       /\ pmm_alloc_frame(f)
       /\ IF f = 0
          THEN /\ enomem' = TRUE /\ pc' = "user"
               /\ UNCHANGED <<pte, va>>
          ELSE /\ pte' = [pte EXCEPT ![va] = [frame |-> f, flags |-> RWU]]
               /\ va' = va + 1
               /\ UNCHANGED <<enomem, pc>>
  /\ UNCHANGED <<mmio, bootinfo, next, aps, probe, pd, dir, code, stk, pt, prog, brk, goal, files>>

brk_done ==
  /\ pc = "brk" /\ va = goal
  /\ brk' = goal
  /\ pc' = "user"
  /\ UNCHANGED <<vars, mmio, bootinfo, next, aps, probe, proc, va, goal, enomem, files>>

(***************************************************************************)
(* paging_user_range_ok: every page of the range is present, the user's,   *)
(* and writable if the kernel will write.                                  *)
(***************************************************************************)
PageOk(p, write) ==
  /\ p \in UserPages
  /\ {"present", "us"} \subseteq pte[p].flags
  /\ write => "rw" \in pte[p].flags

\* Wrong on purpose: the page of the last byte is not looked at.
paging_user_range_ok_short(a, n, write) ==
  LET end == (a + n) % AddrSize IN
  \/ n = 0
  \/ /\ end > a
     /\ \A p \in a \div FrameSize .. (end - 1) \div FrameSize - 1 : PageOk(p, write)

paging_user_range_ok(a, n, write) ==
  LET end == (a + n) % AddrSize IN
  \/ n = 0
  \/ /\ end > a
     /\ \A p \in a \div FrameSize .. (end - 1) \div FrameSize : PageOk(p, write)

\* The pages of n bytes from a.
PagesAt(a, n) == { ((a + i) % AddrSize) \div FrameSize : i \in 0 .. n - 1 }

(***************************************************************************)
(* SYS_WRITE, and the ramfs behind SYS_OPEN, SYS_READ and SYS_CLOSE.       *)
(***************************************************************************)
sys_write(a, n) ==
  /\ pc = "user"
  /\ n <= WriteMax /\ paging_user_range_ok(a, n, FALSE)
  /\ touched' = PagesAt(a, n)
  /\ UNCHANGED <<vars, mmio, bootinfo, pc, next, aps, probe, proc, heap, ufd, delivered>>

\* copy_user_path checks the path byte by byte; n counts its bytes.
copy_user_path(a, n) ==
  \A i \in 0 .. n - 1 : paging_user_range_ok((a + i) % AddrSize, 1, FALSE)

verve_vfs_open_u(a, n, file) ==
  /\ pc = "user"
  /\ copy_user_path(a, n)
  /\ UfdFree # {}
  /\ ufd_alloc(file)
  /\ touched' = PagesAt(a, n)
  /\ UNCHANGED <<vars, mmio, bootinfo, pc, next, aps, probe, proc, heap>>

verve_vfs_read_u(s, a, len) ==
  LET n == Min({len, ReadMax}) IN
  /\ pc = "user"
  /\ ufd[s].used /\ n > 0 /\ paging_user_range_ok(a, n, TRUE)
  /\ ufd[s].pos < FileLen[ufd[s].file]
  /\ advance(s, n)
  /\ touched' = PagesAt(a, Want(s, n))
  /\ UNCHANGED <<vars, mmio, bootinfo, pc, next, aps, probe, proc, heap>>

verve_vfs_close_u(s) ==
  /\ pc = "user"
  /\ ufd[s].used
  /\ ufd' = [ufd EXCEPT ![s].used = FALSE]
  /\ UNCHANGED <<vars, mmio, bootinfo, pc, next, aps, probe, proc, heap, delivered, touched>>

\* The one call the built-in flat program makes.
sys_exit ==
  /\ pc \in {"user", "flat"}
  /\ pc' = "halted"
  /\ UNCHANGED <<vars, mmio, bootinfo, next, aps, probe, proc, heap, files>>

UInit ==
  /\ Init /\ MmioInit /\ BootInfoInit
  /\ walk_mmap_entries => layout.avail = mb2_for_each_available
  /\ pc = "start"
  /\ next = 1 /\ aps = {}
  /\ probe = 0
  /\ pd = 0 /\ dir = << >> /\ code = 0 /\ stk = 0 /\ pt = 0
  /\ pte = [p \in UserPages |-> NoEntry]
  /\ brk = 0 /\ va = 0 /\ goal = 0
  /\ prog = 0 /\ enomem = FALSE
  /\ ufd = [s \in UfdSlots |-> [used |-> FALSE, file |-> CHOOSE f \in Files : TRUE,
                                pos |-> 0]]
  /\ delivered = [s \in UfdSlots |-> << >>]
  /\ touched = {}

syscall_invoke ==
  \/ \E page \in UserPages : sys_brk(page)
  \/ \E a \in Pointers, n \in Lengths :
       \/ sys_write(a, n)
       \/ \E f \in Files : verve_vfs_open_u(a, n, f)
       \/ \E s \in UfdSlots : verve_vfs_read_u(s, a, n)
  \/ \E s \in UfdSlots : verve_vfs_close_u(s)
  \/ sys_exit

verve_user_bringup_smoke ==
  verve_proc_init_singleton \/ user_frames \/ map_text \/ map_stack

verve_exec_flat_run == verve_user_bringup_smoke \/ exec_flat_page \/ exec_flat_copy

UNext == \/ main_memory \/ verve_vfs_selftest \/ main_paging \/ main_acpi \/ lapic_bsp_early_init
         \/ main_number_cpus \/ ioapic_init_from_acpi
         \/ smp_install_trampoline \/ smp_stack \/ smp_start_ap \/ smp_done \/ main_probe
         \/ verve_exec_flat_run
         \/ syscall_invoke \/ brk_page \/ brk_done

USpec == UInit /\ [][UNext]_uvars
-----------------------------------------------------------------------------
Mapped == { p \in UserPages : "present" \in pte[p].flags }

UTypeOK ==
  /\ TypeOK
  /\ aps \subseteq Ids \X owned /\ idles \subseteq 1 .. MaxCpus - 1
  /\ \A id \in Ids : smp_cpu_index(id) \in 0 .. MaxCpus - 1
  /\ {probe, pd, code, stk, pt} \subseteq owned \cup {0}
  /\ \A p \in UserPages : pte[p] = NoEntry \/ pte[p].frame \in owned
  /\ \A a \in DOMAIN mem : mem[a] \in Nat
  /\ {brk, goal} \subseteq {0} \cup (HeapPage .. CapPage - 1)
  /\ va \in {0} \cup (StackPage .. CapPage) /\ prog \in {0} \cup FlatLens
  /\ \A s \in UfdSlots : ufd[s].file \in Files /\ ufd[s].pos \in 0 .. FileLen[ufd[s].file]

\* The frames that were taken from pmm, each with what it is used for.
AllocatedUses ==
  { <<"ap", a[1], a[2]>> : a \in aps }
  \cup { <<"page", p, pte[p].frame>> : p \in Mapped }
  \cup { <<"probe", 0, probe>>, <<"pd", 0, pd>>, <<"pt", 0, pt>> }
  \cup { <<"page", TextPage, code>>, <<"page", StackPage, stk>> }

Held == { u[3] : u \in AllocatedUses } \ {0}

\* The two frames smp_init uses without asking pmm for them: the trampoline as
\* long as there are processors to start, the mailbox until one has read it.
LowUses ==
  { <<"trampoline", 0, Tramp>> : x \in {pc} \cap {"aps", "sipi"} }
  \cup { <<"mailbox", 0, Mail>> : x \in {pc} \cap {"sipi"} }

Uses == AllocatedUses \cup LowUses

\* More stacks than pmm_init left free frames below the trampoline.
BelowTramp == { f \in 1 .. Tramp - 1 :
                  f < FrameCount(layout) /\ f \notin InitialBitmap(layout) }
Crowded == Cardinality(aps) > Cardinality(BelowTramp)

\* The timer handler ends with a write to the LAPIC, through the directory of
\* whatever it interrupted: the page is mapped in boot_pd from the first access
\* on, and in the directory of the process.
EoiReaches ==
  pc \notin {"start", "vfs", "vfs read", "vfs close", "paging", "acpi", "lapic", "halted"} =>
    Reaches(IF pc \in {"user", "brk", "flat"} THEN dir ELSE boot_pd, Lapic)

\* thread_ap_online finds an idle thread for each processor that is started,
\* one of its own, and none takes the place of the boot processor; the numbers,
\* the threads and the processors come from three walks over the same list.
ApsAdopted ==
  /\ \A a, b \in aps : /\ smp_cpu_index(a[1]) \in idles
                       /\ smp_cpu_index(a[1]) = smp_cpu_index(b[1]) => a[1] = b[1]
  /\ aps # {} => smp_cpu_index(Bsp) = 0

\* No frame has two uses: a page directory, a page table, a page of the
\* process or a stack is never also something else.  pmm_init reserves neither
\* the trampoline nor the mailbox; all that keeps a stack away from them is that
\* the lowest free frame is taken first.  So they are shared with nothing as long
\* as the frames below them suffice for the stacks, and the exception is real:
\* frames 1 to 7 are enough for eight processors, not for nine.
FramesExclusive ==
  \A u, v \in Uses :
    u[3] = v[3] /\ u[3] # 0 /\ u # v =>
      Crowded /\ {u[1], v[1]} \cap {"trampoline", "mailbox"} # {}

\* As long as no call ran out of frames, every frame that is not free was taken
\* for a use; nothing was lost.  (The stack a longer flat program is mapped over
\* counts as used.)
FramesAccounted == ~ enomem => owned = Held

\* The heap up to the break is mapped for the program, all of it, also when
\* a call of brk failed half way.
HeapBacked ==
  pc = "user" => \A p \in HeapPage .. brk - 1 : pte[p].flags = RWU

\* The stack of a flat program that fits a page, to the last byte, is the one
\* that was taken for it: no page of the text is mapped over it.
StackKept == pc = "flat" /\ prog <= FrameSize => pte[StackPage].frame = stk

\* The kernel touches a page on behalf of a call, or to load a program, only if
\* it is mapped.
CopyInBounds == touched \subseteq Mapped

\* A descriptor delivers its file's bytes in order, none twice, none left out.
DeliveredInOrder ==
  \A s \in UfdSlots : ufd[s].used =>
    /\ Len(delivered[s]) <= FileLen[ufd[s].file]
    /\ \A i \in DOMAIN delivered[s] : delivered[s][i] = i - 1
    /\ ufd[s].pos = Len(delivered[s])

\* The directory entry of the user pages: paging_map_page writes it with
\* these flags when it makes the page table.
PdeFlags == IF pt = 0 THEN {} ELSE {"present", "rw"}

\* The processor lets the program at a page when both entries say so.
UserMay(p) == "us" \in PdeFlags /\ {"present", "us"} \subseteq pte[p].flags

\* When the process starts, it can fetch its first instruction.
UserRuns == pc = "user" => UserMay(TextPage)
=============================================================================
