------------------------------ MODULE SmpBoot -------------------------------
(***************************************************************************)
(* How kernel_main sets the interrupts up (arch/i386/idt.c, pic.c and      *)
(* ioapic.c), brings the other processors up (kernel/smp.c and the         *)
(* trampoline of arch/i386/smp_tramp.S) and waits for its first five timer *)
(* ticks, while everyone prints under the one lock of kernel/serial.c.     *)
(*                                                                         *)
(* CPU 0 is the boot processor, which the ACPI tables list first; CPU a is *)
(* the a-th other one they list.  Each CPU runs one program, pc[c], and    *)
(* out[c] is where its current call of serial_puts is; a program goes on   *)
(* when the call is over.  The timer handler interrupts the program of its *)
(* CPU between any two steps while ints[c] holds, and prints too, so it    *)
(* takes the same lock.  CPU 0 has two timers: its own, of vector 64, and  *)
(* the 8254, whose vector 32 comes from the I/O APIC, if there is one and  *)
(* the 8254 is at the pin that is routed, or from the 8259 unless that     *)
(* masks the line.  A local APIC lets in a vector of a higher class than   *)
(* all it has in service.  The delays of smp_init are long enough for a    *)
(* processor that answers to read the mailbox: ASSUMED, as in the code.    *)
(***************************************************************************)
EXTENDS Naturals, FiniteSets

CONSTANTS NAPs,       \* processors in the MADT besides the boot processor
          Announced,  \* ticks sched_timer_tick announces, and main waits for
          MaxTicks    \* bound on the tick counter

LAPIC_TIMER_VEC == 64
IRQ0_VEC == 32
PIC_LINES == 0 .. 15

CPUs == 0 .. NAPs
APs == 1 .. NAPs

ASSUME SmpBootAssumption ==
  NAPs \in Nat /\ Announced \in Nat \ {0} /\ MaxTicks \in Nat /\ MaxTicks >= Announced

VARIABLES pc,       \* where the program of the CPU is
          cpu,      \* i of smp_init: the processor that is being started
          alive,    \* processors that answer to INIT and SIPI
          frame,    \* stk_phys taken for the processor, 0 if none
          mail,     \* mail->esp
          esp,      \* the stack the processor loaded, 0 before
          online,   \* g_cpus_online
          armed,    \* the local timer runs
          ints,     \* interrupt flag
          table,    \* vectors with a gate in the table the CPU has loaded
          routed,   \* the I/O APIC sends the ticks of the 8254 to CPU 0
          masked,   \* lines the 8259 keeps to itself
          lapic_eoi, \* g_timer_lapic_eoi
          service,  \* <<controller, vector>> it has in service for CPU 0
          vec,      \* f->vec of the handler on CPU 0
          tick,     \* g_tick[0]
          out,      \* call of serial_puts: "idle", "spins", "prints"
          isr,      \* timer handler: "idle", "spins", "prints", "ends"
          lock,     \* g_serial_lock: who holds it
          reset     \* an interrupt without a table has reset the machine

boot == <<cpu, alive, frame, mail, online>>
pins == <<routed, masked, lapic_eoi, service, vec>>
irq == <<armed, ints, table, pins>>
vars == <<pc, boot, esp, irq, tick, out, isr, lock, reset>>

Free == <<"free", 0>>
Goto(c, l) == pc' = [pc EXCEPT ![c] = l]
Runs(c, l) == pc[c] = l /\ out[c] = "idle" /\ isr[c] = "idle" /\ ~ reset
Puts(c) == out' = [out EXCEPT ![c] = "spins"]

(***************************************************************************)
(* serial_puts in a program, and in the timer handler.                     *)
(***************************************************************************)
serial_lock(c) ==
  /\ out[c] = "spins" /\ isr[c] = "idle" /\ ~ reset /\ lock = Free
  /\ lock' = <<"thread", c>>
  /\ out' = [out EXCEPT ![c] = "prints"]
  /\ UNCHANGED <<pc, boot, esp, irq, tick, isr, reset>>

serial_unlock(c) ==
  /\ out[c] = "prints" /\ isr[c] = "idle" /\ ~ reset
  /\ lock' = Free
  /\ out' = [out EXCEPT ![c] = "idle"]
  /\ UNCHANGED <<pc, boot, esp, irq, tick, isr, reset>>

isr_lock(c) ==
  /\ isr[c] = "spins" /\ ~ reset /\ lock = Free
  /\ lock' = <<"isr", c>>
  /\ isr' = [isr EXCEPT ![c] = "prints"]
  /\ UNCHANGED <<pc, boot, esp, irq, tick, out, reset>>

isr_unlock(c) ==
  /\ isr[c] = "prints" /\ ~ reset
  /\ lock' = Free
  /\ isr' = [isr EXCEPT ![c] = "ends"]
  /\ UNCHANGED <<pc, boot, esp, irq, tick, out, reset>>

\* What controller k sends to CPU 0, and when that takes it; the 8259 has its
\* new vectors before interrupts are first enabled.
Raised(k, v) ==
  \/ k = "lapic" /\ v = LAPIC_TIMER_VEC /\ armed[0]
  \/ k = "lapic" /\ v = IRQ0_VEC /\ routed
  \/ k = "pic" /\ v = IRQ0_VEC /\ 0 \notin masked

Accepts(k, v) ==
  /\ ints[0] /\ v \in table[0] /\ isr[0] = "idle" /\ ~ reset
  /\ \A s \in service : s[1] = k => v \div 16 > s[2] \div 16

\* CPU 0 alone announces its ticks.  Its gates turn interrupts off until iret.
sched_timer_tick(k, v) ==
  /\ Raised(k, v) /\ Accepts(k, v)
  /\ tick < MaxTicks
  /\ service' = service \cup {<<k, v>>}
  /\ vec' = v
  /\ tick' = tick + 1
  /\ isr' = [isr EXCEPT ![0] = IF tick + 1 <= Announced THEN "spins" ELSE "ends"]
  /\ UNCHANGED <<pc, boot, esp, armed, ints, table, routed, masked, lapic_eoi,
                 out, lock, reset>>

\* Wrong on purpose: each vector is acknowledged where its line ends.
EoiToLapic_by_line(v) == v = LAPIC_TIMER_VEC

\* Any other vector of the 8259's range is acknowledged at the 8259 until
\* smp_start_lapic_timer has set the flag.
EoiToLapic(v) == v = LAPIC_TIMER_VEC \/ lapic_eoi

\* The end of verve_irq_dispatch: the controller it is sent to drops the
\* highest vector it has in service.
verve_irq_dispatch ==
  /\ isr[0] = "ends" /\ ~ reset
  /\ LET k == IF EoiToLapic(vec) THEN "lapic" ELSE "pic"
         at == {s \in service : s[1] = k}
     IN service' = service \ {s \in at : \A t \in at : t[2] <= s[2]}
  /\ isr' = [isr EXCEPT ![0] = "idle"]
  /\ UNCHANGED <<pc, boot, esp, armed, ints, table, routed, masked, lapic_eoi, vec, tick,
                 out, lock, reset>>

\* Vector 64 on a CPU without one: no handler, not even for the fault.
unhandled_vector(c) ==
  /\ armed[c] /\ ints[c] /\ LAPIC_TIMER_VEC \notin table[c] /\ ~ reset
  /\ reset' = TRUE
  /\ UNCHANGED <<pc, boot, esp, irq, tick, out, isr, lock>>

(***************************************************************************)
(* kernel_main from idt_init to smp_init.                                  *)
(***************************************************************************)
idt_init ==
  /\ Runs(0, "idt")
  /\ table' = [table EXCEPT ![0] = (0 .. 47) \cup {64, 128}]
  /\ Goto(0, "pic")
  /\ Puts(0)
  /\ UNCHANGED <<boot, esp, armed, ints, pins, tick, isr, lock, reset>>

\* Wrong on purpose: the masks stay as the firmware left them.
pic_init_unmasked ==
  /\ Runs(0, "pic")
  /\ Goto(0, "ioapic")
  /\ Puts(0)
  /\ UNCHANGED <<boot, esp, irq, tick, isr, lock, reset>>

\* pic_init and pic_irq_mask_all; nothing unmasks a line afterwards.
pic_init ==
  /\ Runs(0, "pic")
  /\ masked' = PIC_LINES
  /\ Goto(0, "ioapic")
  /\ Puts(0)
  /\ UNCHANGED <<boot, esp, armed, ints, table, routed, lapic_eoi, service, vec, tick,
                 isr, lock, reset>>

\* Where there is an I/O APIC, and the 8254 at the pin of g_irq0_gsi.
ioapic_route_irq0_timer ==
  /\ Runs(0, "ioapic")
  /\ routed' \in BOOLEAN
  /\ Goto(0, "next")
  /\ Puts(0)
  /\ UNCHANGED <<boot, esp, armed, ints, table, masked, lapic_eoi, service, vec, tick,
                 isr, lock, reset>>

(***************************************************************************)
(* smp_init on the boot processor.                                         *)
(***************************************************************************)
\* Wrong on purpose: the loop over cpu_ids goes one too far.
ap_stack_past_end ==
  /\ Runs(0, "next") /\ cpu <= NAPs + 1
  /\ \/ /\ frame' = [frame EXCEPT ![cpu] = cpu]
        /\ Goto(0, "mail")
        /\ UNCHANGED <<cpu, out>>
     \/ /\ cpu' = cpu + 1
        /\ Puts(0)
        /\ UNCHANGED <<frame, pc>>
  /\ UNCHANGED <<alive, mail, online, esp, irq, tick, isr, lock, reset>>

ap_stack ==
  /\ Runs(0, "next") /\ cpu <= NAPs
  /\ \/ /\ frame' = [frame EXCEPT ![cpu] = cpu]
        /\ Goto(0, "mail")
        /\ UNCHANGED <<cpu, out>>
     \/ /\ cpu' = cpu + 1
        /\ Puts(0)
        /\ UNCHANGED <<frame, pc>>
  /\ UNCHANGED <<alive, mail, online, esp, irq, tick, isr, lock, reset>>

write_mailbox ==
  /\ Runs(0, "mail")
  /\ mail' = frame[cpu]
  /\ Goto(0, "init")
  /\ UNCHANGED <<cpu, alive, frame, online, esp, irq, tick, out, isr, lock, reset>>

lapic_send_init ==
  /\ Runs(0, "init")
  /\ pc' = [pc EXCEPT ![0] = "sipi", ![cpu] = "wait_sipi"]
  /\ UNCHANGED <<boot, esp, irq, tick, out, isr, lock, reset>>

\* Sent twice; a processor that is up ignores the second.
lapic_send_sipi ==
  /\ \E l \in {"sipi", "sipi again"} :
       /\ Runs(0, l)
       /\ pc' = [pc EXCEPT ![0] = IF l = "sipi" THEN "sipi again" ELSE "delay",
                           ![cpu] = IF @ = "wait_sipi" /\ cpu \in alive
                                    THEN "trampoline" ELSE @]
  /\ UNCHANGED <<boot, esp, irq, tick, out, isr, lock, reset>>

\* Wrong on purpose: no delay behind the last SIPI.
smp_next_cpu_at_once ==
  /\ Runs(0, "delay")
  /\ online' = online + 1
  /\ cpu' = cpu + 1
  /\ Goto(0, "next")
  /\ Puts(0)
  /\ UNCHANGED <<alive, frame, mail, esp, irq, tick, isr, lock, reset>>

\* smp_udelay_ms(2), then the next one; who did not answer is counted too.
smp_next_cpu ==
  /\ Runs(0, "delay")
  /\ pc[cpu] # "trampoline"
  /\ online' = online + 1
  /\ cpu' = cpu + 1
  /\ Goto(0, "next")
  /\ Puts(0)
  /\ UNCHANGED <<alive, frame, mail, esp, irq, tick, isr, lock, reset>>

smp_done ==
  /\ Runs(0, "next") /\ cpu > NAPs
  /\ Goto(0, "timer")
  /\ Puts(0)
  /\ UNCHANGED <<boot, esp, irq, tick, isr, lock, reset>>

smp_start_lapic_timer(c) ==
  /\ lapic_eoi' = TRUE
  /\ armed' = [armed EXCEPT ![c] = TRUE]
  /\ UNCHANGED <<ints, table, routed, masked, service, vec>>

smp_bsp_timer_start ==
  /\ Runs(0, "timer")
  /\ smp_start_lapic_timer(0)
  /\ Goto(0, "sti")
  /\ Puts(0)
  /\ UNCHANGED <<boot, esp, tick, isr, lock, reset>>

\* Wrong on purpose: interrupts stay off.
main_sti_forgotten ==
  /\ Runs(0, "sti")
  /\ Goto(0, "ticks")
  /\ UNCHANGED <<boot, esp, irq, tick, out, isr, lock, reset>>

main_sti ==
  /\ Runs(0, "sti")
  /\ ints' = [ints EXCEPT ![0] = TRUE]
  /\ Goto(0, "ticks")
  /\ UNCHANGED <<boot, esp, armed, table, pins, tick, out, isr, lock, reset>>

\* Wrong on purpose: main does not wait for the ticks that are announced.
main_ticks_seen_early ==
  /\ Runs(0, "ticks") /\ tick > 0
  /\ Goto(0, "demo")
  /\ Puts(0)
  /\ UNCHANGED <<boot, esp, irq, tick, isr, lock, reset>>

\* while (sched_tick_count() < 5) hlt; then everything main does prints.
main_ticks_seen ==
  /\ Runs(0, "ticks") /\ tick >= Announced
  /\ Goto(0, "demo")
  /\ Puts(0)
  /\ UNCHANGED <<boot, esp, irq, tick, isr, lock, reset>>

main_demo ==
  /\ Runs(0, "demo")
  /\ Puts(0)
  /\ UNCHANGED <<pc, boot, esp, irq, tick, isr, lock, reset>>

(***************************************************************************)
(* An application processor.                                               *)
(***************************************************************************)
\* The trampoline loads esp from the mailbox and jumps to verve_ap_entry.
smp_trampoline(a) ==
  /\ Runs(a, "trampoline")
  /\ esp' = [esp EXCEPT ![a] = mail]
  /\ Goto(a, "entry")
  /\ Puts(a)
  /\ UNCHANGED <<boot, irq, tick, isr, lock, reset>>

\* smp_start_lapic_timer, then thread_ap_online adopts the idle thread
verve_ap_entry(a) ==
  /\ Runs(a, "entry")
  /\ smp_start_lapic_timer(a)
  /\ Goto(a, "online")
  /\ Puts(a)
  /\ UNCHANGED <<boot, esp, tick, isr, lock, reset>>

ap_sti(a) ==
  /\ Runs(a, "online")
  /\ ints' = [ints EXCEPT ![a] = TRUE]
  /\ Goto(a, "loop")
  /\ UNCHANGED <<boot, esp, armed, table, pins, tick, out, isr, lock, reset>>

Init ==
  /\ pc = [c \in CPUs |-> IF c = 0 THEN "idt" ELSE "off"]
  /\ cpu = 1
  /\ alive \in SUBSET APs
  /\ frame = [a \in APs |-> 0]
  /\ mail = 0
  /\ esp = [a \in APs |-> 0]
  /\ online = 1
  /\ armed = [c \in CPUs |-> FALSE]
  /\ ints = [c \in CPUs |-> FALSE]
  /\ table = [c \in CPUs |-> {}]
  /\ routed = FALSE /\ masked \in {{}, PIC_LINES} /\ lapic_eoi = FALSE
  /\ service = {} /\ vec = 0
  /\ tick = 0
  /\ out = [c \in CPUs |-> "idle"]
  /\ isr = [c \in CPUs |-> "idle"]
  /\ lock = Free
  /\ reset = FALSE

smp_init == \/ ap_stack \/ write_mailbox \/ lapic_send_init
            \/ lapic_send_sipi \/ smp_next_cpu \/ smp_done

kernel_main == \/ idt_init \/ pic_init \/ ioapic_route_irq0_timer
               \/ smp_init \/ smp_bsp_timer_start
               \/ main_sti \/ main_ticks_seen \/ main_demo

Program(c) == \/ serial_lock(c) \/ serial_unlock(c)
              \/ isr_lock(c) \/ isr_unlock(c)
              \/ c = 0 /\ (kernel_main \/ verve_irq_dispatch)
              \/ c \in APs /\ (smp_trampoline(c) \/ verve_ap_entry(c) \/ ap_sti(c))

Next == \/ \E c \in CPUs : Program(c) \/ unhandled_vector(c)
        \/ \E k \in {"lapic", "pic"}, v \in {LAPIC_TIMER_VEC, IRQ0_VEC} : sched_timer_tick(k, v)

Spec == Init /\ [][Next]_vars

\* A CPU keeps executing instructions and the local timer of CPU 0 keeps
\* ticking; the 8254 is owed nothing.
FairSpec == /\ Spec
            /\ \A c \in CPUs : WF_vars(Program(c))
            /\ WF_vars(sched_timer_tick("lapic", LAPIC_TIMER_VEC))
-----------------------------------------------------------------------------
Labels == {"idt", "pic", "ioapic", "next", "mail", "init", "sipi", "sipi again", "delay", "timer", "sti",
           "ticks", "demo", "off", "wait_sipi", "trampoline", "entry", "online", "loop"}

TypeOK ==
  /\ pc \in [CPUs -> Labels]
  /\ cpu \in 1 .. NAPs + 1
  /\ alive \subseteq APs
  /\ frame \in [APs -> 0 .. NAPs]
  /\ mail \in 0 .. NAPs
  /\ esp \in [APs -> 0 .. NAPs]
  /\ online \in 1 .. NAPs + 1
  /\ armed \in [CPUs -> BOOLEAN] /\ ints \in [CPUs -> BOOLEAN]
  /\ table \in [CPUs -> SUBSET (0 .. 255)]
  /\ routed \in BOOLEAN /\ lapic_eoi \in BOOLEAN
  /\ masked \subseteq PIC_LINES /\ vec \in 0 .. 255
  /\ service \subseteq {"lapic", "pic"} \X {LAPIC_TIMER_VEC, IRQ0_VEC}
  /\ tick \in 0 .. MaxTicks
  /\ out \in [CPUs -> {"idle", "spins", "prints"}]
  /\ isr \in [CPUs -> {"idle", "spins", "prints", "ends"}]
  /\ lock \in {Free} \cup ({"thread", "isr"} \X CPUs)
  /\ reset \in BOOLEAN

\* A processor that is up runs on the stack that was taken for it, although
\* all of them read it from the same mailbox.
OwnStack == \A a \in APs : esp[a] # 0 => esp[a] = frame[a]

\* The timer handler never waits for the serial lock while the program it
\* interrupted holds it.
NoSelfDeadlock == \A c \in CPUs : ~ (isr[c] = "spins" /\ lock = <<"thread", c>>)

\* While no handler runs no vector is in service: each tick was acknowledged at
\* the controller it came from, although the handler sees a vector only, and a
\* flag that any processor sets decides.  A vector that stays in service would
\* keep its class and those below out for good.
NothingLeftInService == isr[0] = "idle" => service = {}

\* The boot gets past the five ticks, however many processors answer, unless
\* the machine is reset under it.
BootEnds == <> (pc[0] = "demo" \/ reset)

\* The comment at the head of sched.c: on each CPU the timer calls
\* sched_timer_tick.  It cannot on a CPU that takes interrupts without a table.
TimerHandled == \A c \in CPUs : armed[c] /\ ints[c] => LAPIC_TIMER_VEC \in table[c]
=============================================================================
