--------------------------- MODULE SmpBootProofs ----------------------------
(***************************************************************************)
(* Proofs about module SmpBoot, for every number of processors and every   *)
(* number of ticks the handler announces.                                  *)
(***************************************************************************)
EXTENDS SmpBoot, TLAPS

\* Labels of the boot processor while it starts the processor cpu.
Starting == {"mail", "init", "sipi", "sipi again", "delay"}

\* Where pc[0] and cpu stand to each other; no processor past cpu was counted.
LoopInv ==
  /\ pc[0] \in Starting => cpu <= NAPs
  /\ online <= cpu

\* The mailbox is that of the processor that may read it, and a processor with
\* a stack has been dealt with.
MailInv ==
  /\ pc[0] \in Starting \ {"mail"} => mail = frame[cpu]
  /\ \A a \in APs : pc[a] = "trampoline" => a = cpu /\ pc[0] \in {"sipi again", "delay"}
  /\ \A a \in APs : esp[a] # 0 => \/ a < cpu
                                  \/ a = cpu /\ pc[0] \in {"sipi again", "delay"}
  /\ OwnStack

\* The serial lock is held by whoever prints.
LockInv ==
  \A c \in CPUs : /\ lock = <<"thread", c>> <=> out[c] = "prints"
                  /\ lock = <<"isr", c>> <=> isr[c] = "prints"

\* Interrupts reach the boot processor only, and only behind its sti; a handler
\* that prints finds main waiting for it.
TickInv ==
  /\ \A a \in APs : isr[a] = "idle"
  /\ ints[0] => pc[0] \in {"ticks", "demo"}
  /\ isr[0] # "idle" => ints[0]
  /\ pc[0] = "ticks" => out[0] = "idle"
  /\ pc[0] = "demo" => tick >= Announced
  /\ isr[0] \in {"spins", "prints"} => pc[0] = "ticks"

\* By the time interrupts are on, the 8259 delivers nothing and every EOI goes
\* to the local APIC; that has one vector in service, the handler's.
ServiceInv ==
  /\ pc[0] \notin {"idt", "pic"} => 0 \in masked
  /\ pc[0] \in {"sti", "ticks", "demo"} => lapic_eoi
  /\ service = IF isr[0] = "idle" THEN {} ELSE {<<"lapic", vec>>}

SmpInv == TypeOK /\ LoopInv /\ MailInv /\ LockInv /\ TickInv /\ ServiceInv

LEMMA BootCPU == /\ NAPs \in Nat /\ 0 \in CPUs /\ APs = CPUs \ {0}
                 /\ Announced \in Nat /\ MaxTicks \in Nat
                 /\ \A a \in APs : a \in 1 .. NAPs /\ a # 0
BY SmpBootAssumption DEF CPUs, APs

LEMMA SmpInit == Init => SmpInv
<1> SUFFICES ASSUME Init PROVE SmpInv
  OBVIOUS
<1> USE BootCPU DEF Init
<1>1. TypeOK
  <2>1. /\ cpu \in 1 .. NAPs + 1 /\ online \in 1 .. NAPs + 1 /\ tick \in 0 .. MaxTicks
        /\ masked \subseteq PIC_LINES /\ vec \in 0 .. 255
    BY DEF APs
  <2>2. /\ pc \in [CPUs -> Labels]
        /\ table \in [CPUs -> SUBSET (0 .. 255)]
        /\ lock = Free
    BY DEF Labels
  <2>3. /\ frame \in [APs -> 0 .. NAPs] /\ esp \in [APs -> 0 .. NAPs]
        /\ mail \in 0 .. NAPs
    BY DEF APs
  <2>4. /\ out \in [CPUs -> {"idle", "spins", "prints"}]
        /\ isr \in [CPUs -> {"idle", "spins", "prints", "ends"}]
        /\ armed \in [CPUs -> BOOLEAN] /\ ints \in [CPUs -> BOOLEAN]
    OBVIOUS
  <2> QED BY <2>1, <2>2, <2>3, <2>4 DEF TypeOK
<1>2. LoopInv /\ MailInv
  BY DEF LoopInv, MailInv, OwnStack, Starting
<1>3. LockInv
  BY DEF LockInv, Free
<1>4. TickInv /\ ServiceInv
  BY DEF TickInv, ServiceInv
<1> QED BY <1>1, <1>2, <1>3, <1>4 DEF SmpInv
-----------------------------------------------------------------------------
LEMMA TypeStep == ASSUME TypeOK, LoopInv, [Next]_vars PROVE TypeOK'
<1>0. /\ cpu \in 1 .. NAPs + 1 /\ online \in 1 .. NAPs + 1 /\ tick \in 0 .. MaxTicks
      /\ pc[0] \in Starting => cpu <= NAPs
      /\ online <= cpu
  BY DEF TypeOK, LoopInv
<1>a. NAPs \in Nat /\ MaxTicks \in Nat /\ 0 \in CPUs /\ APs = CPUs \ {0}
  BY BootCPU
<1>1. CASE UNCHANGED vars
  BY <1>1, <1>a DEF vars, TypeOK, boot, pins, irq, Labels
<1>2. ASSUME NEW k \in {"lapic", "pic"}, NEW v \in {LAPIC_TIMER_VEC, IRQ0_VEC},
             sched_timer_tick(k, v)
      PROVE  TypeOK'
  <2>1. v \in 0 .. 255 /\ tick + 1 \in 0 .. MaxTicks
    BY <1>0, <1>a, <1>2 DEF sched_timer_tick, LAPIC_TIMER_VEC, IRQ0_VEC
  <2>2. service' \subseteq {"lapic", "pic"} \X {LAPIC_TIMER_VEC, IRQ0_VEC}
    BY <1>2 DEF sched_timer_tick, TypeOK
  <2>3. isr' \in [CPUs -> {"idle", "spins", "prints", "ends"}]
    BY <1>2, <1>a DEF sched_timer_tick, TypeOK, boot, pins, irq, Labels
  <2> QED BY <1>2, <2>1, <2>2, <2>3, <1>a DEF sched_timer_tick, TypeOK, boot, pins, irq, Labels
<1>3. ASSUME NEW c \in CPUs, unhandled_vector(c) PROVE TypeOK'
  BY <1>3, <1>a DEF unhandled_vector, TypeOK, boot, pins, irq, Labels
<1>4. ASSUME NEW c \in CPUs, Program(c) PROVE TypeOK'
  <2>1. CASE serial_lock(c)
    BY <2>1, <1>a DEF serial_lock, Free, TypeOK, boot, pins, irq, Labels
  <2>2. CASE serial_unlock(c)
    BY <2>2, <1>a DEF serial_unlock, Free, TypeOK, boot, pins, irq, Labels
  <2>3. CASE isr_lock(c)
    BY <2>3, <1>a DEF isr_lock, Free, TypeOK, boot, pins, irq, Labels
  <2>4. CASE isr_unlock(c)
    BY <2>4, <1>a DEF isr_unlock, Free, TypeOK, boot, pins, irq, Labels
  <2>5. CASE verve_irq_dispatch
    BY <2>5, <1>a DEF verve_irq_dispatch, Runs, Goto, Puts, TypeOK, boot, pins, irq, Labels
  <2>6. CASE idt_init
    <3>1. (0 .. 47) \cup {64, 128} \in SUBSET (0 .. 255)
      OBVIOUS
    <3>2. table' \in [CPUs -> SUBSET (0 .. 255)]
      BY <2>6, <1>a, <3>1 DEF idt_init, TypeOK
    <3> QED BY <2>6, <3>2, <1>a DEF idt_init, Goto, Puts, TypeOK, boot, pins, irq, Labels
  <2>7. CASE pic_init
    BY <2>7, <1>a DEF pic_init, Runs, Goto, Puts, TypeOK, boot, pins, irq, Labels
  <2>8. CASE ioapic_route_irq0_timer
    BY <2>8, <1>a DEF ioapic_route_irq0_timer, Runs, Goto, Puts, TypeOK, boot, pins, irq, Labels
  <2>9. CASE smp_bsp_timer_start
    BY <2>9, <1>a DEF smp_bsp_timer_start, Runs, Goto, Puts, smp_start_lapic_timer, TypeOK, boot, pins, irq, Labels
  <2>10. CASE main_sti
    BY <2>10, <1>a DEF main_sti, Runs, Goto, Puts, TypeOK, boot, pins, irq, Labels
  <2>11. CASE main_ticks_seen
    BY <2>11, <1>a DEF main_ticks_seen, Runs, Goto, Puts, TypeOK, boot, pins, irq, Labels
  <2>12. CASE main_demo
    BY <2>12, <1>a DEF main_demo, Runs, Goto, Puts, TypeOK, boot, pins, irq, Labels
  <2>13. CASE ap_stack
    <3>1. cpu \in APs /\ cpu + 1 \in 1 .. NAPs + 1 /\ cpu \in 0 .. NAPs
      BY <1>0, <1>a, <2>13 DEF ap_stack, APs
    <3>2. /\ frame' \in [APs -> 0 .. NAPs]
          /\ cpu' \in 1 .. NAPs + 1
          /\ pc' \in [CPUs -> Labels]
          /\ out' \in [CPUs -> {"idle", "spins", "prints"}]
      <4>1. CASE frame' = [frame EXCEPT ![cpu] = cpu] /\ Goto(0, "mail") /\ UNCHANGED <<cpu, out>>
        BY <3>1, <1>a, <4>1 DEF Goto, TypeOK, Labels
      <4>2. CASE cpu' = cpu + 1 /\ Puts(0) /\ UNCHANGED <<frame, pc>>
        BY <3>1, <1>a, <4>2 DEF Puts, TypeOK
      <4> QED BY <2>13, <4>1, <4>2 DEF ap_stack
    <3> QED BY <2>13, <3>2, <1>a DEF ap_stack, TypeOK, boot, pins, irq, Labels
  <2>14. CASE write_mailbox
    <3>1. cpu \in APs
      BY <1>0, <1>a, <2>14 DEF write_mailbox, Runs, Starting, APs
    <3> QED BY <2>14, <3>1, <1>a DEF write_mailbox, Goto, TypeOK, boot, pins, irq, Labels
  <2>15. CASE lapic_send_init
    BY <2>15, <1>a DEF lapic_send_init, Runs, Goto, Puts, TypeOK, boot, pins, irq, Labels
  <2>16. CASE lapic_send_sipi
    <3>1. pc' \in [CPUs -> Labels]
      <4>1. \E l, m \in Labels : pc' = [pc EXCEPT ![0] = l, ![cpu] = m]
        <5>2. cpu \in CPUs /\ cpu # 0
          <6>1. pc[0] \in Starting
            BY <2>16 DEF lapic_send_sipi, Runs, Starting
          <6>2. cpu \in 1 .. NAPs + 1 /\ cpu <= NAPs
            BY <1>0, <6>1
          <6> HIDE <2>16
          <6> QED BY <6>2, <1>a DEF CPUs
        <5>1. PICK l \in {"sipi", "sipi again"} :
                pc' = [pc EXCEPT ![0] = IF l = "sipi" THEN "sipi again" ELSE "delay",
                                 ![cpu] = IF @ = "wait_sipi" /\ cpu \in alive
                                          THEN "trampoline" ELSE @]
          BY <2>16 DEF lapic_send_sipi
        <5>3. pc[cpu] \in Labels
          BY <5>2 DEF TypeOK
        <5> DEFINE m == IF pc[cpu] = "wait_sipi" /\ cpu \in alive
                        THEN "trampoline" ELSE pc[cpu]
                   k == IF l = "sipi" THEN "sipi again" ELSE "delay"
        <5>4. k \in Labels /\ m \in Labels
          BY <5>3 DEF Labels
        <5>5. pc \in [CPUs -> Labels]
          BY DEF TypeOK
        <5>6. pc' = [pc EXCEPT ![0] = k, ![cpu] = m]
          BY <1>a, <5>1, <5>2, <5>5
        <5> QED BY <5>4, <5>6
      <4> QED BY <4>1 DEF TypeOK
    <3> QED BY <2>16, <3>1, <1>a DEF lapic_send_sipi, TypeOK, boot, pins, irq, Labels
  <2>17. CASE smp_next_cpu
    <3>1. cpu + 1 \in 1 .. NAPs + 1 /\ online + 1 \in 1 .. NAPs + 1
      BY <1>0, <1>a, <2>17 DEF smp_next_cpu, Runs, Starting
    <3> QED BY <2>17, <3>1, <1>a DEF smp_next_cpu, Goto, Puts, TypeOK, boot, pins, irq, Labels
  <2>18. CASE smp_done
    BY <2>18, <1>a DEF smp_done, Runs, Goto, Puts, TypeOK, boot, pins, irq, Labels
  <2>19. CASE c \in APs /\ smp_trampoline(c)
    BY <2>19, <1>a DEF smp_trampoline, Runs, Goto, Puts, TypeOK, boot, pins, irq, Labels
  <2>20. CASE c \in APs /\ verve_ap_entry(c)
    BY <2>20, <1>a DEF verve_ap_entry, Runs, Goto, Puts, smp_start_lapic_timer, TypeOK, boot, pins, irq, Labels
  <2>21. CASE c \in APs /\ ap_sti(c)
    BY <2>21, <1>a DEF ap_sti, Runs, Goto, Puts, TypeOK, boot, pins, irq, Labels
  <2> QED BY <1>4, <2>1, <2>2, <2>3, <2>4, <2>5, <2>6, <2>7, <2>8, <2>9, <2>10, <2>11, <2>12, <2>13, <2>14, <2>15, <2>16, <2>17, <2>18, <2>19, <2>20, <2>21
         DEF Program, kernel_main, smp_init
<1> QED BY <1>1, <1>2, <1>3, <1>4 DEF Next
LEMMA LockStep == ASSUME TypeOK, LockInv, [Next]_vars PROVE LockInv'
<1>0. /\ pc \in [CPUs -> Labels]
      /\ out \in [CPUs -> {"idle", "spins", "prints"}]
      /\ isr \in [CPUs -> {"idle", "spins", "prints", "ends"}]
      /\ ints \in [CPUs -> BOOLEAN]
      /\ 0 \in CPUs /\ APs = CPUs \ {0}
      /\ LockInv
  BY BootCPU DEF TypeOK
<1>1. CASE UNCHANGED vars
  BY <1>0, <1>1 DEF vars, LockInv, boot, pins, irq
<1>2. ASSUME NEW k \in {"lapic", "pic"}, NEW v \in {LAPIC_TIMER_VEC, IRQ0_VEC},
             sched_timer_tick(k, v)
      PROVE  LockInv'
  BY <1>0, <1>2 DEF sched_timer_tick, Accepts, LockInv, boot, pins, irq
<1>3. ASSUME NEW c \in CPUs, unhandled_vector(c) PROVE LockInv'
  BY <1>0, <1>3 DEF unhandled_vector, LockInv, boot, pins, irq
<1>4. ASSUME NEW c \in CPUs, Program(c) PROVE LockInv'
  <2>1. CASE serial_lock(c)
    BY <1>0, <2>1 DEF serial_lock, Free, LockInv, boot, pins, irq
  <2>2. CASE serial_unlock(c)
    BY <1>0, <2>2 DEF serial_unlock, Free, LockInv, boot, pins, irq
  <2>3. CASE isr_lock(c)
    BY <1>0, <2>3 DEF isr_lock, Free, LockInv, boot, pins, irq
  <2>4. CASE isr_unlock(c)
    BY <1>0, <2>4 DEF isr_unlock, Free, LockInv, boot, pins, irq
  <2>5. CASE verve_irq_dispatch
    BY <1>0, <2>5 DEF verve_irq_dispatch, Runs, Goto, Puts, LockInv, boot, pins, irq
  <2>6. CASE idt_init
    BY <1>0, <2>6 DEF idt_init, Runs, Goto, Puts, LockInv, boot, pins, irq
  <2>7. CASE pic_init
    BY <1>0, <2>7 DEF pic_init, Runs, Goto, Puts, LockInv, boot, pins, irq
  <2>8. CASE ioapic_route_irq0_timer
    BY <1>0, <2>8 DEF ioapic_route_irq0_timer, Runs, Goto, Puts, LockInv, boot, pins, irq
  <2>9. CASE smp_bsp_timer_start
    BY <1>0, <2>9 DEF smp_bsp_timer_start, Runs, Goto, Puts, smp_start_lapic_timer, LockInv, boot, pins, irq
  <2>10. CASE main_sti
    BY <1>0, <2>10 DEF main_sti, Runs, Goto, Puts, LockInv, boot, pins, irq
  <2>11. CASE main_ticks_seen
    BY <1>0, <2>11 DEF main_ticks_seen, Runs, Goto, Puts, LockInv, boot, pins, irq
  <2>12. CASE main_demo
    BY <1>0, <2>12 DEF main_demo, Runs, Goto, Puts, LockInv, boot, pins, irq
  <2>13. CASE ap_stack
    BY <1>0, <2>13 DEF ap_stack, Runs, Goto, Puts, LockInv, boot, pins, irq
  <2>14. CASE write_mailbox
    BY <1>0, <2>14 DEF write_mailbox, Runs, Goto, Puts, LockInv, boot, pins, irq
  <2>15. CASE lapic_send_init
    BY <1>0, <2>15 DEF lapic_send_init, Runs, Goto, Puts, LockInv, boot, pins, irq
  <2>16. CASE lapic_send_sipi
    BY <1>0, <2>16 DEF lapic_send_sipi, Runs, Goto, Puts, LockInv, boot, pins, irq
  <2>17. CASE smp_next_cpu
    BY <1>0, <2>17 DEF smp_next_cpu, Runs, Goto, Puts, LockInv, boot, pins, irq
  <2>18. CASE smp_done
    BY <1>0, <2>18 DEF smp_done, Runs, Goto, Puts, LockInv, boot, pins, irq
  <2>19. CASE c \in APs /\ smp_trampoline(c)
    BY <1>0, <2>19 DEF smp_trampoline, Runs, Goto, Puts, LockInv, boot, pins, irq
  <2>20. CASE c \in APs /\ verve_ap_entry(c)
    BY <1>0, <2>20 DEF verve_ap_entry, Runs, Goto, Puts, smp_start_lapic_timer, LockInv, boot, pins, irq
  <2>21. CASE c \in APs /\ ap_sti(c)
    BY <1>0, <2>21 DEF ap_sti, Runs, Goto, Puts, LockInv, boot, pins, irq
  <2> QED BY <1>4, <2>1, <2>2, <2>3, <2>4, <2>5, <2>6, <2>7, <2>8, <2>9, <2>10, <2>11,
             <2>12, <2>13, <2>14, <2>15, <2>16, <2>17, <2>18, <2>19, <2>20, <2>21
         DEF Program, kernel_main, smp_init
<1> QED BY <1>1, <1>2, <1>3, <1>4 DEF Next

LEMMA TickStep == ASSUME TypeOK, TickInv, [Next]_vars PROVE TickInv'
<1>0. /\ pc \in [CPUs -> Labels]
      /\ out \in [CPUs -> {"idle", "spins", "prints"}]
      /\ isr \in [CPUs -> {"idle", "spins", "prints", "ends"}]
      /\ ints \in [CPUs -> BOOLEAN]
      /\ 0 \in CPUs /\ APs = CPUs \ {0}
      /\ tick \in Nat /\ Announced \in Nat
      /\ TickInv
  BY BootCPU, SmpBootAssumption DEF TypeOK
<1>1. CASE UNCHANGED vars
  BY <1>0, <1>1 DEF vars, TickInv, boot, pins, irq
<1>2. ASSUME NEW k \in {"lapic", "pic"}, NEW v \in {LAPIC_TIMER_VEC, IRQ0_VEC},
             sched_timer_tick(k, v)
      PROVE  TickInv'
  BY <1>0, <1>2 DEF sched_timer_tick, Accepts, TickInv, boot, pins, irq
<1>3. ASSUME NEW c \in CPUs, unhandled_vector(c) PROVE TickInv'
  BY <1>0, <1>3 DEF unhandled_vector, TickInv, boot, pins, irq
<1>4. ASSUME NEW c \in CPUs, Program(c) PROVE TickInv'
  <2>1. CASE serial_lock(c)
    BY <1>0, <2>1 DEF serial_lock, Free, TickInv, boot, pins, irq
  <2>2. CASE serial_unlock(c)
    BY <1>0, <2>2 DEF serial_unlock, Free, TickInv, boot, pins, irq
  <2>3. CASE isr_lock(c)
    BY <1>0, <2>3 DEF isr_lock, Free, TickInv, boot, pins, irq
  <2>4. CASE isr_unlock(c)
    BY <1>0, <2>4 DEF isr_unlock, Free, TickInv, boot, pins, irq
  <2>5. CASE verve_irq_dispatch
    BY <1>0, <2>5 DEF verve_irq_dispatch, Runs, Goto, Puts, TickInv, boot, pins, irq
  <2>6. CASE idt_init
    BY <1>0, <2>6 DEF idt_init, Runs, Goto, Puts, TickInv, boot, pins, irq
  <2>7. CASE pic_init
    BY <1>0, <2>7 DEF pic_init, Runs, Goto, Puts, TickInv, boot, pins, irq
  <2>8. CASE ioapic_route_irq0_timer
    BY <1>0, <2>8 DEF ioapic_route_irq0_timer, Runs, Goto, Puts, TickInv, boot, pins, irq
  <2>9. CASE smp_bsp_timer_start
    BY <1>0, <2>9 DEF smp_bsp_timer_start, Runs, Goto, Puts, smp_start_lapic_timer, TickInv, boot, pins, irq
  <2>10. CASE main_sti
    BY <1>0, <2>10 DEF main_sti, Runs, Goto, Puts, TickInv, boot, pins, irq
  <2>11. CASE main_ticks_seen
    BY <1>0, <2>11 DEF main_ticks_seen, Runs, Goto, Puts, TickInv, boot, pins, irq
  <2>12. CASE main_demo
    BY <1>0, <2>12 DEF main_demo, Runs, Goto, Puts, TickInv, boot, pins, irq
  <2>13. CASE ap_stack
    BY <1>0, <2>13 DEF ap_stack, Runs, Goto, Puts, TickInv, boot, pins, irq
  <2>14. CASE write_mailbox
    BY <1>0, <2>14 DEF write_mailbox, Runs, Goto, Puts, TickInv, boot, pins, irq
  <2>15. CASE lapic_send_init
    BY <1>0, <2>15 DEF lapic_send_init, Runs, Goto, Puts, TickInv, boot, pins, irq
  <2>16. CASE lapic_send_sipi
    <3>1. /\ pc[0] \notin {"ticks", "demo"} /\ isr[0] = "idle"
          /\ UNCHANGED <<ints, isr, out, tick>>
      BY <2>16 DEF lapic_send_sipi, Runs, irq
    <3>2. pc'[0] \notin {"ticks", "demo"}
      <4>1. cpu # 0
        <5>1. cpu \in 1 .. NAPs + 1
          BY DEF TypeOK
        <5> QED BY <5>1, SmpBootAssumption
      <4>2. PICK l \in {"sipi", "sipi again"} :
              pc' = [pc EXCEPT ![0] = IF l = "sipi" THEN "sipi again" ELSE "delay",
                               ![cpu] = IF @ = "wait_sipi" /\ cpu \in alive
                                        THEN "trampoline" ELSE @]
        BY <2>16 DEF lapic_send_sipi
      <4>3. pc'[0] = IF l = "sipi" THEN "sipi again" ELSE "delay"
        BY <1>0, <4>2, <4>1
      <4> QED BY <4>3
    <3> QED BY <1>0, <3>1, <3>2 DEF TickInv
  <2>17. CASE smp_next_cpu
    BY <1>0, <2>17 DEF smp_next_cpu, Runs, Goto, Puts, TickInv, boot, pins, irq
  <2>18. CASE smp_done
    BY <1>0, <2>18 DEF smp_done, Runs, Goto, Puts, TickInv, boot, pins, irq
  <2>19. CASE c \in APs /\ smp_trampoline(c)
    BY <1>0, <2>19 DEF smp_trampoline, Runs, Goto, Puts, TickInv, boot, pins, irq
  <2>20. CASE c \in APs /\ verve_ap_entry(c)
    BY <1>0, <2>20 DEF verve_ap_entry, Runs, Goto, Puts, smp_start_lapic_timer, TickInv, boot, pins, irq
  <2>21. CASE c \in APs /\ ap_sti(c)
    BY <1>0, <2>21 DEF ap_sti, Runs, Goto, Puts, TickInv, boot, pins, irq
  <2> QED BY <1>4, <2>1, <2>2, <2>3, <2>4, <2>5, <2>6, <2>7, <2>8, <2>9, <2>10, <2>11,
             <2>12, <2>13, <2>14, <2>15, <2>16, <2>17, <2>18, <2>19, <2>20, <2>21
         DEF Program, kernel_main, smp_init
<1> QED BY <1>1, <1>2, <1>3, <1>4 DEF Next

LEMMA ServiceStep == ASSUME TypeOK, TickInv, ServiceInv, [Next]_vars PROVE ServiceInv'
<1>0. /\ pc \in [CPUs -> Labels]
      /\ isr \in [CPUs -> {"idle", "spins", "prints", "ends"}]
      /\ 0 \in CPUs /\ APs = CPUs \ {0}
      /\ TickInv /\ ServiceInv
  BY BootCPU DEF TypeOK
<1>1. CASE UNCHANGED vars
  BY <1>0, <1>1 DEF vars, ServiceInv, boot, pins, irq
<1>2. ASSUME NEW k \in {"lapic", "pic"}, NEW v \in {LAPIC_TIMER_VEC, IRQ0_VEC},
             sched_timer_tick(k, v)
      PROVE  ServiceInv'
  <2>1. pc[0] \in {"ticks", "demo"} /\ isr[0] = "idle" /\ service = {}
    BY <1>0, <1>2 DEF sched_timer_tick, Accepts, TickInv, ServiceInv
  <2>2. k = "lapic"
    BY <1>0, <2>1, <1>2 DEF sched_timer_tick, Raised, ServiceInv
  <2>3. service' = {<<"lapic", vec'>>} /\ isr'[0] /= "idle"
    BY <1>0, <2>1, <2>2, <1>2 DEF sched_timer_tick
  <2> QED BY <1>0, <2>3, <1>2 DEF sched_timer_tick, ServiceInv
<1>3. ASSUME NEW c \in CPUs, unhandled_vector(c) PROVE ServiceInv'
  BY <1>0, <1>3 DEF unhandled_vector, ServiceInv, boot, pins, irq
<1>4. ASSUME NEW c \in CPUs, Program(c) PROVE ServiceInv'
  <2>1. CASE serial_lock(c)
    BY <1>0, <2>1 DEF serial_lock, Free, ServiceInv, boot, pins, irq
  <2>2. CASE serial_unlock(c)
    BY <1>0, <2>2 DEF serial_unlock, Free, ServiceInv, boot, pins, irq
  <2>3. CASE isr_lock(c)
    BY <1>0, <2>3 DEF isr_lock, Free, ServiceInv, boot, pins, irq
  <2>4. CASE isr_unlock(c)
    BY <1>0, <2>4 DEF isr_unlock, Free, ServiceInv, boot, pins, irq
  <2>5. CASE verve_irq_dispatch
    <3>1. service = {<<"lapic", vec>>} /\ EoiToLapic(vec)
      BY <1>0, <2>5 DEF verve_irq_dispatch, TickInv, ServiceInv, EoiToLapic
    <3>2. {s \in service : s[1] = "lapic"} = {<<"lapic", vec>>}
      BY <3>1
    <3>3. service' = {<<"lapic", vec>>} \ {s \in {<<"lapic", vec>>} :
                                           \A t \in {<<"lapic", vec>>} : t[2] <= s[2]}
      BY <3>1, <3>2, <2>5 DEF verve_irq_dispatch
    <3>4. vec <= vec
      BY DEF TypeOK
    <3>5. service' = {}
      BY <3>3, <3>4
    <3> QED BY <1>0, <3>5, <2>5 DEF verve_irq_dispatch, ServiceInv
  <2>6. CASE idt_init
    BY <1>0, <2>6 DEF idt_init, Runs, Goto, Puts, ServiceInv, boot, pins, irq
  <2>7. CASE pic_init
    BY <1>0, <2>7 DEF pic_init, Runs, Goto, Puts, ServiceInv, boot, pins, irq, PIC_LINES
  <2>8. CASE ioapic_route_irq0_timer
    BY <1>0, <2>8 DEF ioapic_route_irq0_timer, Runs, Goto, Puts, ServiceInv, boot, pins, irq
  <2>9. CASE smp_bsp_timer_start
    BY <1>0, <2>9 DEF smp_bsp_timer_start, Runs, Goto, Puts, smp_start_lapic_timer, ServiceInv, boot, pins, irq
  <2>10. CASE main_sti
    BY <1>0, <2>10 DEF main_sti, Runs, Goto, Puts, ServiceInv, boot, pins, irq
  <2>11. CASE main_ticks_seen
    BY <1>0, <2>11 DEF main_ticks_seen, Runs, Goto, Puts, ServiceInv, boot, pins, irq
  <2>12. CASE main_demo
    BY <1>0, <2>12 DEF main_demo, Runs, Goto, Puts, ServiceInv, boot, pins, irq
  <2>13. CASE ap_stack
    BY <1>0, <2>13 DEF ap_stack, Runs, Goto, Puts, ServiceInv, boot, pins, irq
  <2>14. CASE write_mailbox
    BY <1>0, <2>14 DEF write_mailbox, Runs, Goto, Puts, ServiceInv, boot, pins, irq
  <2>15. CASE lapic_send_init
    BY <1>0, <2>15 DEF lapic_send_init, Runs, Goto, Puts, ServiceInv, boot, pins, irq
  <2>16. CASE lapic_send_sipi
    BY <1>0, <2>16 DEF lapic_send_sipi, Runs, Goto, Puts, ServiceInv, boot, pins, irq
  <2>17. CASE smp_next_cpu
    BY <1>0, <2>17 DEF smp_next_cpu, Runs, Goto, Puts, ServiceInv, boot, pins, irq
  <2>18. CASE smp_done
    BY <1>0, <2>18 DEF smp_done, Runs, Goto, Puts, ServiceInv, boot, pins, irq
  <2>19. CASE c \in APs /\ smp_trampoline(c)
    BY <1>0, <2>19 DEF smp_trampoline, Runs, Goto, Puts, ServiceInv, boot, pins, irq
  <2>20. CASE c \in APs /\ verve_ap_entry(c)
    BY <1>0, <2>20 DEF verve_ap_entry, Runs, Goto, Puts, smp_start_lapic_timer, ServiceInv, boot, pins, irq
  <2>21. CASE c \in APs /\ ap_sti(c)
    BY <1>0, <2>21 DEF ap_sti, Runs, Goto, Puts, ServiceInv, boot, pins, irq
  <2> QED BY <1>4, <2>1, <2>2, <2>3, <2>4, <2>5, <2>6, <2>7, <2>8, <2>9, <2>10, <2>11,
             <2>12, <2>13, <2>14, <2>15, <2>16, <2>17, <2>18, <2>19, <2>20, <2>21
         DEF Program, kernel_main, smp_init
<1> QED BY <1>1, <1>2, <1>3, <1>4 DEF Next

LEMMA StackStep == ASSUME TypeOK, LoopInv, MailInv, [Next]_vars PROVE LoopInv' /\ MailInv'
<1>0. /\ pc \in [CPUs -> Labels]
      /\ frame \in [APs -> 0 .. NAPs]
      /\ esp \in [APs -> 0 .. NAPs]
      /\ cpu \in 1 .. NAPs + 1 /\ NAPs \in Nat /\ online \in 1 .. NAPs + 1
      /\ 0 \in CPUs /\ APs = CPUs \ {0}
      /\ \A a \in APs : a \in 1 .. NAPs
      /\ LoopInv /\ MailInv
  BY BootCPU DEF TypeOK
<1>1. CASE UNCHANGED vars
  BY <1>0, <1>1 DEF vars, LoopInv, MailInv, OwnStack, Starting, boot, pins, irq
<1>2. ASSUME NEW k \in {"lapic", "pic"}, NEW v \in {LAPIC_TIMER_VEC, IRQ0_VEC},
             sched_timer_tick(k, v)
      PROVE  LoopInv' /\ MailInv'
  BY <1>0, <1>2 DEF sched_timer_tick, LoopInv, MailInv, OwnStack, Starting, boot, pins, irq
<1>3. ASSUME NEW c \in CPUs, unhandled_vector(c) PROVE LoopInv' /\ MailInv'
  BY <1>0, <1>3 DEF unhandled_vector, LoopInv, MailInv, OwnStack, Starting, boot, pins, irq
<1>4. ASSUME NEW c \in CPUs, Program(c) PROVE LoopInv' /\ MailInv'
  <2>1. CASE serial_lock(c)
    BY <1>0, <2>1 DEF serial_lock, Free, LoopInv, MailInv, OwnStack, Starting, boot, pins, irq
  <2>2. CASE serial_unlock(c)
    BY <1>0, <2>2 DEF serial_unlock, Free, LoopInv, MailInv, OwnStack, Starting, boot, pins, irq
  <2>3. CASE isr_lock(c)
    BY <1>0, <2>3 DEF isr_lock, Free, LoopInv, MailInv, OwnStack, Starting, boot, pins, irq
  <2>4. CASE isr_unlock(c)
    BY <1>0, <2>4 DEF isr_unlock, Free, LoopInv, MailInv, OwnStack, Starting, boot, pins, irq
  <2>5. CASE verve_irq_dispatch
    BY <1>0, <2>5 DEF verve_irq_dispatch, Runs, Goto, Puts, LoopInv, MailInv, OwnStack, Starting, boot, pins, irq
  <2>6. CASE idt_init
    BY <1>0, <2>6 DEF idt_init, Runs, Goto, Puts, LoopInv, MailInv, OwnStack, Starting, boot, pins, irq
  <2>7. CASE pic_init
    BY <1>0, <2>7 DEF pic_init, Runs, Goto, Puts, LoopInv, MailInv, OwnStack, Starting, boot, pins, irq
  <2>8. CASE ioapic_route_irq0_timer
    BY <1>0, <2>8 DEF ioapic_route_irq0_timer, Runs, Goto, Puts, LoopInv, MailInv, OwnStack, Starting, boot, pins, irq
  <2>9. CASE smp_bsp_timer_start
    BY <1>0, <2>9 DEF smp_bsp_timer_start, Runs, Goto, Puts, smp_start_lapic_timer, LoopInv, MailInv, OwnStack, Starting, boot, pins, irq
  <2>10. CASE main_sti
    BY <1>0, <2>10 DEF main_sti, Runs, Goto, Puts, LoopInv, MailInv, OwnStack, Starting, boot, pins, irq
  <2>11. CASE main_ticks_seen
    BY <1>0, <2>11 DEF main_ticks_seen, Runs, Goto, Puts, LoopInv, MailInv, OwnStack, Starting, boot, pins, irq
  <2>12. CASE main_demo
    BY <1>0, <2>12 DEF main_demo, Runs, Goto, Puts, LoopInv, MailInv, OwnStack, Starting, boot, pins, irq
  <2>13. CASE ap_stack
    <3>1. /\ pc[0] = "next" /\ cpu <= NAPs /\ UNCHANGED <<mail, online, esp>>
          /\ \A a \in APs : pc[a] # "trampoline" /\ (esp[a] # 0 => a < cpu /\ esp[a] = frame[a])
      BY <1>0, <2>13 DEF ap_stack, Runs, MailInv, OwnStack
    <3>2. CASE frame' = [frame EXCEPT ![cpu] = cpu] /\ Goto(0, "mail") /\ cpu' = cpu
      <4>1. /\ \A a \in APs : pc'[a] = pc[a]
            /\ pc'[0] = "mail"
            /\ \A a \in APs : a # cpu => frame'[a] = frame[a]
        BY <1>0, <3>2 DEF Goto
      <4>2. \A a \in APs : esp[a] # 0 => a < cpu /\ a # cpu
        BY <1>0, <3>1
      <4> QED BY <1>0, <3>1, <3>2, <4>1, <4>2 DEF LoopInv, MailInv, OwnStack, Starting
    <3>3. CASE cpu' = cpu + 1 /\ UNCHANGED <<frame, pc>>
      <4>1. online' <= cpu' /\ \A a \in APs : esp[a] # 0 => a < cpu'
        BY <1>0, <3>1, <3>3 DEF LoopInv
      <4> QED BY <1>0, <3>1, <3>3, <4>1 DEF LoopInv, MailInv, OwnStack, Starting
    <3> QED BY <2>13, <3>2, <3>3 DEF ap_stack
  <2>14. CASE write_mailbox
    BY <1>0, <2>14 DEF write_mailbox, Runs, Goto, Puts, LoopInv, MailInv, OwnStack, Starting, boot, pins, irq
  <2>15. CASE lapic_send_init
    BY <1>0, <2>15 DEF lapic_send_init, Runs, Goto, Puts, LoopInv, MailInv, OwnStack, Starting, boot, pins, irq
  <2>16. CASE lapic_send_sipi
    <3>1. /\ pc[0] \in Starting \ {"mail"} /\ cpu <= NAPs
          /\ UNCHANGED <<cpu, online, mail, frame, esp>>
      BY <1>0, <2>16 DEF lapic_send_sipi, Runs, boot, Starting, LoopInv
    <3>2. cpu # 0
      BY <1>0
    <3>3. /\ pc'[0] \in {"sipi again", "delay"}
          /\ \A a \in APs : a # cpu => pc'[a] = pc[a]
      <4>1. PICK l \in {"sipi", "sipi again"} :
              pc' = [pc EXCEPT ![0] = IF l = "sipi" THEN "sipi again" ELSE "delay",
                               ![cpu] = IF @ = "wait_sipi" /\ cpu \in alive
                                        THEN "trampoline" ELSE @]
        BY <2>16 DEF lapic_send_sipi
      <4> QED BY <1>0, <3>2, <4>1
    <3>4. LoopInv'
      BY <1>0, <3>1, <3>3 DEF LoopInv
    <3>5. MailInv'
      BY <1>0, <3>1, <3>3 DEF MailInv, OwnStack, Starting
    <3> QED BY <3>4, <3>5
  <2>17. CASE smp_next_cpu
    BY <1>0, <2>17 DEF smp_next_cpu, Runs, Goto, Puts, LoopInv, MailInv, OwnStack, Starting, boot, pins, irq
  <2>18. CASE smp_done
    BY <1>0, <2>18 DEF smp_done, Runs, Goto, Puts, LoopInv, MailInv, OwnStack, Starting, boot, pins, irq
  <2>19. CASE c \in APs /\ smp_trampoline(c)
    BY <1>0, <2>19 DEF smp_trampoline, Runs, Goto, Puts, LoopInv, MailInv, OwnStack, Starting, boot, pins, irq
  <2>20. CASE c \in APs /\ verve_ap_entry(c)
    BY <1>0, <2>20 DEF verve_ap_entry, Runs, Goto, Puts, smp_start_lapic_timer, LoopInv, MailInv, OwnStack, Starting, boot, pins, irq
  <2>21. CASE c \in APs /\ ap_sti(c)
    BY <1>0, <2>21 DEF ap_sti, Runs, Goto, Puts, LoopInv, MailInv, OwnStack, Starting, boot, pins, irq
  <2> QED BY <1>4, <2>1, <2>2, <2>3, <2>4, <2>5, <2>6, <2>7, <2>8, <2>9, <2>10, <2>11,
             <2>12, <2>13, <2>14, <2>15, <2>16, <2>17, <2>18, <2>19, <2>20, <2>21
         DEF Program, kernel_main, smp_init
<1> QED BY <1>1, <1>2, <1>3, <1>4 DEF Next

LEMMA SmpStep == SmpInv /\ [Next]_vars => SmpInv'
<1> SUFFICES ASSUME SmpInv, [Next]_vars PROVE SmpInv'
  OBVIOUS
<1>1. TypeOK /\ LoopInv /\ MailInv /\ LockInv /\ TickInv /\ ServiceInv
  BY DEF SmpInv
<1>2. TypeOK' /\ LoopInv' /\ MailInv'
  BY <1>1, TypeStep, StackStep
<1>3. LockInv' /\ TickInv' /\ ServiceInv'
  BY <1>1, LockStep, TickStep, ServiceStep
<1> QED BY <1>2, <1>3 DEF SmpInv

LEMMA SmpInvariant == Spec => []SmpInv
BY SmpInit, SmpStep, PTL DEF Spec
-----------------------------------------------------------------------------
\* For every number of processors the variables keep their types: the loop of
\* smp_init leaves cpu_ids at its end, no processor is counted twice, and a
\* stack is only ever that of a processor there is.
THEOREM BootTypes == Spec => []TypeOK
<1>1. SmpInv => TypeOK
  BY DEF SmpInv
<1> QED BY <1>1, SmpInvariant, PTL

\* Whatever number of processors smp_init starts through the one mailbox, and
\* whichever of them answer, each runs on the stack taken for it.
THEOREM StacksAreOwn == Spec => []OwnStack
<1>1. SmpInv => OwnStack
  BY DEF SmpInv, MailInv
<1> QED BY <1>1, SmpInvariant, PTL

\* The timer handler of no processor spins on g_serial_lock while the program
\* under it holds it: interrupts come on behind the last message that main
\* prints before the loop of the ticks, and the handler prints no tick past
\* those that loop waits for.
THEOREM SerialLockSafe == Spec => []NoSelfDeadlock
<1>1. ASSUME SmpInv PROVE NoSelfDeadlock
  <2> SUFFICES ASSUME NEW c \in CPUs, isr[c] = "spins", lock = <<"thread", c>>
               PROVE  FALSE
    BY DEF NoSelfDeadlock
  <2>1. c = 0
    BY <1>1, BootCPU DEF SmpInv, TickInv
  <2>2. out[0] = "idle"
    BY <1>1, <2>1 DEF SmpInv, TickInv
  <2>3. out[0] = "prints"
    BY <1>1, <2>1 DEF SmpInv, LockInv
  <2> QED BY <2>2, <2>3
<1> QED BY <1>1, SmpInvariant, PTL

\* Every timer vector CPU 0 takes is acknowledged at the controller that sent
\* it before the handler returns, for every number of processors that may have
\* set g_timer_lapic_eoi.
THEOREM TicksAcknowledged == Spec => []NothingLeftInService
<1>1. SmpInv => NothingLeftInService
  BY DEF SmpInv, ServiceInv, NothingLeftInService
<1> QED BY <1>1, SmpInvariant, PTL

=============================================================================
