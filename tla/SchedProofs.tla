---------------------------- MODULE SchedProofs -----------------------------
(***************************************************************************)
(* Proofs about module Sched, for every value of its constants: the types, *)
(* the quantum that is not forgotten, and the ring, which loses and        *)
(* repeats no expired quantum and implements the queue of DeferQueue.      *)
(***************************************************************************)
EXTENDS Sched, SequenceTheorems, TLAPS

\* The successor of a ring index is a ring index.
LEMMA SuccInRing == ASSUME NEW i \in 0 .. Cap - 1
                    PROVE  /\ Succ(i) \in 0 .. Cap - 1
                           /\ Succ(i) = IF i + 1 = Cap THEN 0 ELSE i + 1
                           /\ Succ(i) # i
<1>1. Cap \in Nat /\ Cap > 1
  BY SchedAssumption
<1>2. CASE i + 1 = Cap
  BY <1>1, <1>2 DEF Succ
<1>3. CASE i + 1 < Cap
  BY <1>1, <1>3 DEF Succ
<1> QED BY <1>1, <1>2, <1>3

LEMMA BootCPU == 0 \in CPUs /\ CPUs \subseteq Threads /\ A \in Threads /\ A \in Workers
BY SchedAssumption DEF CPUs, Threads

\* Every variable keeps its type: no ring index leaves the ring, no counter
\* goes below zero.
LEMMA TypeInit == Init => TypeOK
BY SchedAssumption, BootCPU DEF Init, TypeOK, Labels, Threads, CPUs

\* The handler announces a tick within the bound.
LEMMA NextTick == ASSUME TypeOK, NEW c \in CPUs, sched_timer_tick(c)
                  PROVE  tick[c] + 1 \in 1 .. MaxTicks /\ tick' \in [CPUs -> 0 .. MaxTicks]
<1>1. tick[c] \in 0 .. MaxTicks /\ tick[c] < MaxTicks /\ MaxTicks \in Nat
  BY SchedAssumption DEF sched_timer_tick, TypeOK
<1>2. tick[c] + 1 \in 1 .. MaxTicks /\ tick[c] + 1 \in 0 .. MaxTicks
  BY <1>1
<1>3. tick' = [tick EXCEPT ![c] = tick[c] + 1] /\ tick \in [CPUs -> 0 .. MaxTicks]
  BY DEF sched_timer_tick, TypeOK
<1> QED BY <1>2, <1>3

\* Pushing an entry keeps the types of the ring, its write index and the
\* overflow counter.
LEMMA PushTypes ==
  ASSUME TypeOK, NEW c \in CPUs, NEW t \in 0 .. MaxTicks, defer_push_tick(c, t)
  PROVE  /\ ring' \in [CPUs -> [0 .. Cap - 1 -> 0 .. MaxTicks]]
         /\ w' \in [CPUs -> 0 .. Cap - 1]
         /\ overflow' \in [CPUs -> Nat]
<1>1. /\ w[c] \in 0 .. Cap - 1 /\ overflow[c] \in Nat
      /\ w \in [CPUs -> 0 .. Cap - 1] /\ overflow \in [CPUs -> Nat]
      /\ ring \in [CPUs -> [0 .. Cap - 1 -> 0 .. MaxTicks]]
  BY DEF TypeOK
<1>2. Succ(w[c]) \in 0 .. Cap - 1
  BY <1>1, SuccInRing
<1>3. CASE Succ(w[c]) = r[c]
  <2>1. overflow' = [overflow EXCEPT ![c] = overflow[c] + 1] /\ ring' = ring /\ w' = w
    BY <1>3 DEF defer_push_tick
  <2>2. overflow[c] + 1 \in Nat
    BY <1>1
  <2> QED BY <1>1, <2>1, <2>2
<1>4. CASE Succ(w[c]) # r[c]
  <2>1. /\ w' = [w EXCEPT ![c] = Succ(w[c])] /\ overflow' = overflow
        /\ ring' = [ring EXCEPT ![c] = [ring[c] EXCEPT ![w[c]] = t]]
    BY <1>4 DEF defer_push_tick
  <2>2. [ring[c] EXCEPT ![w[c]] = t] \in [0 .. Cap - 1 -> 0 .. MaxTicks]
    BY <1>1
  <2>3. ring' \in [CPUs -> [0 .. Cap - 1 -> 0 .. MaxTicks]]
    BY <1>1, <2>1, <2>2
  <2>4. w' \in [CPUs -> 0 .. Cap - 1]
    BY <1>1, <1>2, <2>1
  <2> QED BY <1>1, <2>1, <2>3, <2>4
<1> QED BY <1>3, <1>4

LEMMA TypeStep == TypeOK /\ [Next]_vars => TypeOK'
<1> SUFFICES ASSUME TypeOK, [Next]_vars PROVE TypeOK'
  OBVIOUS
<1>1. CASE UNCHANGED vars
  BY <1>1 DEF vars, TypeOK, ringvars, ctlvars, locals, history
<1>2. ASSUME NEW c \in CPUs, sched_timer_tick(c) PROVE TypeOK'
  <2>1. tick[c] + 1 \in 1 .. MaxTicks /\ tick' \in [CPUs -> 0 .. MaxTicks]
    BY <1>2, NextTick
  <2>2. tick[c] + 1 \in 0 .. MaxTicks
    BY <2>1
  <2>3. /\ ring' \in [CPUs -> [0 .. Cap - 1 -> 0 .. MaxTicks]]
        /\ w' \in [CPUs -> 0 .. Cap - 1]
        /\ overflow' \in [CPUs -> Nat]
    <3>1. CASE (tick[c] + 1) % Interval # 0
      BY <1>2, <3>1 DEF sched_timer_tick, TypeOK
    <3>2. CASE (tick[c] + 1) % Interval = 0
      <4>1. defer_push_tick(c, tick[c] + 1)
        BY <1>2, <3>2 DEF sched_timer_tick
      <4> QED BY <2>2, <4>1, PushTypes
    <3> QED BY <3>1, <3>2
  <2>4. need' \in [CPUs -> {0, 1}]
    <3>1. need \in [CPUs -> {0, 1}] /\ (need' = [need EXCEPT ![c] = 1] \/ need' = need)
      BY <1>2 DEF sched_timer_tick, TypeOK
    <3> QED BY <3>1
  <2>5. owed' \subseteq CPUs
    BY <1>2 DEF sched_timer_tick, TypeOK
  <2> QED BY <1>2, <2>1, <2>3, <2>4, <2>5 DEF sched_timer_tick, TypeOK, ctlvars, locals
<1> USE DEF TypeOK, ringvars, ctlvars, locals, history
<1>3. ASSUME NEW c \in CPUs, Program(c) PROVE TypeOK'
  <2> on[c] \in Threads
    OBVIOUS
  <2>1. CASE main_yield(c)
    BY <2>1 DEF main_yield, CallYield, Goto, Labels
  <2>2. CASE main_halt(c)
    BY <2>2 DEF main_halt, Goto, Labels
  <2>3. CASE idle_yield(c)
    BY <2>3 DEF idle_yield, CallYield, Goto, Labels
  <2>4. CASE sched_preempt_disable(c)
    <3>1. depth' \in Nat
      BY <2>4 DEF sched_preempt_disable
    <3>2. pc' \in [Threads -> Labels]
      BY <2>4 DEF sched_preempt_disable, Goto, Labels
    <3> QED BY <2>4, <3>1, <3>2 DEF sched_preempt_disable
  <2>5. CASE sched_preempt_enable(c)
    <3>1. depth' \in Nat
      BY <2>5 DEF sched_preempt_enable
    <3>2. pc' \in [Threads -> Labels]
      BY <2>5 DEF sched_preempt_enable, Goto, Labels
    <3> QED BY <2>5, <3>1, <3>2 DEF sched_preempt_enable
  <2>6. CASE worker_end(c)
    BY <2>6 DEF worker_end, Goto, Labels
  <2>7. CASE zombie_yield(c)
    BY <2>7 DEF zombie_yield, CallYield, Goto, Labels
  <2> QED BY <1>3, <2>1, <2>2, <2>3, <2>4, <2>5, <2>6, <2>7 DEF Program
<1>4. ASSUME NEW c \in CPUs, Checkpoint(c) PROVE TypeOK'
  <2> on[c] \in Threads
    OBVIOUS
  <2> After(on[c]) \in {"loop", "run"}
    BY DEF After
  <2>1. CASE drain_begin(c)
    <3>1. left' \in [Workers -> Nat]
      <4>1. on[c] \in Workers => left[on[c]] > 0
        BY <2>1, SchedAssumption, BootCPU DEF drain_begin, CallsCheckpoint, Idle
      <4>2. CASE on[c] \in Workers
        BY <2>1, <4>1, <4>2 DEF drain_begin
      <4>3. CASE on[c] \notin Workers
        BY <2>1, <4>3 DEF drain_begin
      <4> QED BY <4>2, <4>3
    <3>2. /\ pc' \in [Threads -> Labels]
          /\ flags' \in [Threads -> BOOLEAN]
          /\ drained' \subseteq Threads
          /\ irq' \in [CPUs -> BOOLEAN]
      BY <2>1 DEF drain_begin, Goto, Labels
    <3> QED BY <2>1, <3>1, <3>2 DEF drain_begin
  <2>2. CASE drain_one(c)
    <3>1. r' \in [CPUs -> 0 .. Cap - 1]
      BY <2>2, SuccInRing DEF drain_one
    <3>2. taken' \in [CPUs -> Nat]
      BY <2>2 DEF drain_one
    <3>3. drained' \subseteq Threads
      BY <2>2 DEF drain_one
    <3> QED BY <2>2, <3>1, <3>2, <3>3 DEF drain_one
  <2>3. CASE drain_read_overflow(c)
    BY <2>3 DEF drain_read_overflow, Goto, Labels
  <2>4. CASE drain_clear_overflow(c)
    <3>1. /\ overflow' \in [CPUs -> Nat]
          /\ reported' \in [CPUs -> Nat]
      BY <2>4 DEF drain_clear_overflow
    <3>2. /\ irq' \in [CPUs -> BOOLEAN]
          /\ pc' \in [Threads -> Labels]
      BY <2>4 DEF drain_clear_overflow, Goto, Labels
    <3> QED BY <2>4, <3>1, <3>2 DEF drain_clear_overflow
  <2>5. CASE checkpoint_drained(c)
    BY <2>5 DEF checkpoint_drained, Goto, Labels
  <2>6. CASE schedule_refused(c)
    BY <2>6 DEF schedule_refused, Goto, Labels
  <2>7. CASE schedule_granted(c)
    BY <2>7 DEF schedule_granted, CallYield, Goto, Labels
  <2>8. CASE clear_resched_and_check(c)
    BY <2>8 DEF clear_resched_and_check, Goto, Labels
  <2>9. CASE checkpoint_return(c)
    BY <2>9 DEF checkpoint_return, Goto, Labels
  <2>10. CASE checkpoint_yield(c)
    BY <2>10 DEF checkpoint_yield, CallYield, Goto, Labels
  <2>11. CASE clear_resched_and_return(c)
    BY <2>11 DEF clear_resched_and_return, Goto, Labels
  <2> QED BY <1>4, <2>1, <2>2, <2>3, <2>4, <2>5, <2>6, <2>7, <2>8, <2>9,
             <2>10, <2>11 DEF Checkpoint
<1>5. ASSUME NEW c \in CPUs, Yield(c) PROVE TypeOK'
  <2> on[c] \in Threads /\ ret[on[c]] \in Labels
    BY DEF Labels
  <2>1. CASE yield_refused(c)
    BY <2>1 DEF yield_refused, Goto
  <2>2. CASE yield_granted(c)
    BY <2>2 DEF yield_granted, Goto, Labels
  <2>3. CASE switch_none(c)
    BY <2>3 DEF switch_none, Goto
  <2>4. ASSUME NEW u \in Threads, switch_to(c, u) PROVE TypeOK'
    BY <2>4 DEF switch_to, Goto
  <2> QED BY <1>5, <2>1, <2>2, <2>3, <2>4 DEF Yield
<1> QED BY <1>1, <1>2, <1>3, <1>4, <1>5 DEF Next, ThreadStep

THEOREM TypeCorrect == Spec => []TypeOK
<1>1. Init => TypeOK
  BY TypeInit
<1>2. TypeOK /\ [Next]_vars => TypeOK'
  BY TypeStep
<1> QED BY <1>1, <1>2, PTL DEF Spec
-----------------------------------------------------------------------------
(***************************************************************************)
(* On one CPU no expired quantum is lost.  NoLostQuantum is not inductive: *)
(* a refused schedule() or a clear of need_resched would lose a quantum in *)
(* states the program cannot reach.  Two facts exclude them.               *)
(***************************************************************************)

\* The counter is 1 exactly while worker A is in its section, and A does not
\* leave the CPU there.
CritInv ==
  /\ \A t \in Threads : pc[t] \in {"enter", "crit"} => t = A
  /\ depth = IF pc[A] = "crit" THEN 1 ELSE 0
  /\ pc[A] = "crit" => on[0] = A

\* When need_resched is about to be cleared, a quantum still owed expired
\* after the switch, so its entry is in the ring.
ClearInv ==
  pc[on[0]] \in {"clear1", "clear2"} /\ 0 \in owed => ~ Empty(0)

QuantumInv == TypeOK /\ CritInv /\ ClearInv /\ NoLostQuantum

LEMMA QuantumInit == Init => QuantumInv
<1> SUFFICES ASSUME Init PROVE QuantumInv
  OBVIOUS
<1>1. TypeOK
  BY TypeInit
<1>2. CritInv
  BY BootCPU DEF Init, CritInv
<1>3. ClearInv /\ NoLostQuantum
  BY BootCPU DEF Init, ClearInv, NoLostQuantum
<1> QED BY <1>1, <1>2, <1>3 DEF QuantumInv

\* An expired quantum leaves the ring non-empty: it is full or was pushed to.
LEMMA TickFillsRing ==
  ASSUME TypeOK, NEW c \in CPUs, sched_timer_tick(c), NEW d \in CPUs
  PROVE  /\ ~ Empty(d) => ~ Empty(d)'
         /\ d \in owed' => \/ d \in owed /\ need'[d] = need[d]
                           \/ need'[d] = 1 /\ ~ Empty(d)'
<1>1. /\ w[c] \in 0 .. Cap - 1
      /\ w \in [CPUs -> 0 .. Cap - 1]
      /\ need \in [CPUs -> {0, 1}]
  BY DEF TypeOK
<1>2. Succ(w[c]) # w[c]
  BY <1>1, SuccInRing
<1>3. r' = r
  BY DEF sched_timer_tick
<1>4. CASE (tick[c] + 1) % Interval # 0
  <2>1. UNCHANGED <<need, w, owed>>
    BY <1>4 DEF sched_timer_tick
  <2> QED BY <1>3, <2>1 DEF Empty
<1>5. CASE (tick[c] + 1) % Interval = 0
  <2>1. /\ need' = [need EXCEPT ![c] = 1]
        /\ owed' = owed \cup {c}
        /\ defer_push_tick(c, tick[c] + 1)
    BY <1>5 DEF sched_timer_tick
  <2>2. \/ Succ(w[c]) = r[c] /\ w' = w
        \/ Succ(w[c]) # r[c] /\ w' = [w EXCEPT ![c] = Succ(@)]
    BY <2>1, Zenon DEF defer_push_tick
  <2>3. r'[c] # w'[c]
    BY <1>1, <1>2, <1>3, <2>2
  <2>4. \A e \in CPUs \ {c} : w'[e] = w[e] /\ need'[e] = need[e]
    BY <1>1, <2>1, <2>2
  <2>5. need'[c] = 1
    BY <1>1, <2>1
  <2> QED BY <1>3, <2>1, <2>3, <2>4, <2>5 DEF Empty
<1> QED BY <1>4, <1>5

LEMMA QuantumStep ==
  ASSUME NCPU = 1, QuantumInv, [Next]_vars
  PROVE  QuantumInv'
<1>0. TypeOK /\ CritInv /\ ClearInv /\ NoLostQuantum /\ TypeOK'
  BY TypeStep DEF QuantumInv
<1>c. CPUs = {0}
  BY DEF CPUs
<1>a. /\ A \in Threads /\ A \in Workers /\ A # 0
      /\ on[0] \in Threads
      /\ on \in [CPUs -> Threads]
      /\ pc \in [Threads -> Labels]
      /\ owed \subseteq {0}
      /\ need \in [CPUs -> {0, 1}]
      /\ ret \in [Threads -> {"run", "loop", "zombie", "clear1", "clear2"}]
  BY <1>0, <1>c, BootCPU, SchedAssumption DEF TypeOK
<1>d. depth # 0 => pc[on[0]] = "crit"
  BY <1>0 DEF CritInv
<1> USE DEF ringvars, ctlvars, locals, history
<1>1. CASE UNCHANGED vars
  BY <1>0, <1>1 DEF vars, QuantumInv, CritInv, ClearInv, NoLostQuantum, Pending, Empty, At
<1>2. CASE sched_timer_tick(0)
  <2>1. UNCHANGED <<pc, on, depth, drained>>
    BY <1>2 DEF sched_timer_tick
  <2>2. /\ ~ Empty(0) => ~ Empty(0)'
        /\ 0 \in owed' => \/ 0 \in owed /\ need'[0] = need[0]
                          \/ need'[0] = 1 /\ ~ Empty(0)'
    BY <1>0, <1>c, <1>2, TickFillsRing
  <2>3. CritInv'
    BY <1>0, <2>1 DEF CritInv
  <2>4. ClearInv'
    BY <1>0, <2>1, <2>2 DEF ClearInv
  <2>5. NoLostQuantum'
    BY <1>0, <1>c, <2>1, <2>2 DEF NoLostQuantum, Pending, TypeOK
  <2> QED BY <1>0, <2>3, <2>4, <2>5 DEF QuantumInv
<1>3. CASE Program(0)
  <2>1. /\ CritInv'
        /\ UNCHANGED <<need, w, r, owed, on>>
        /\ pc[on[0]] \notin {"drain", "clear", "post", "schedule", "yield", "switch"}
        /\ pc'[on[0]] \notin {"clear1", "clear2"}
    <3>1. CASE main_yield(0)
      BY <1>0, <1>a, <3>1 DEF main_yield, CallYield, Goto, At, CritInv
    <3>2. CASE main_halt(0)
      BY <1>0, <1>a, <3>2 DEF main_halt, Goto, At, CritInv
    <3>3. CASE idle_yield(0)
      BY <1>0, <1>a, <3>3 DEF idle_yield, CallYield, Goto, At, CritInv
    <3>4. CASE sched_preempt_disable(0)
      BY <1>0, <1>a, <3>4 DEF sched_preempt_disable, Goto, At, CritInv
    <3>5. CASE sched_preempt_enable(0)
      BY <1>0, <1>a, <3>5 DEF sched_preempt_enable, Goto, At, CritInv
    <3>6. CASE worker_end(0)
      BY <1>0, <1>a, <3>6 DEF worker_end, Goto, At, CritInv
    <3>7. CASE zombie_yield(0)
      BY <1>0, <1>a, <3>7 DEF zombie_yield, CallYield, Goto, At, CritInv
    <3> QED BY <1>3, <3>1, <3>2, <3>3, <3>4, <3>5, <3>6, <3>7 DEF Program
  <2>2. ClearInv' /\ NoLostQuantum'
    BY <1>0, <1>a, <1>c, <2>1 DEF ClearInv, NoLostQuantum, Pending, Empty
  <2> QED BY <1>0, <2>1, <2>2 DEF QuantumInv
<1>4. CASE Checkpoint(0)
  <2>1. CritInv'
    <3>1. /\ UNCHANGED <<depth, on>>
          /\ pc[on[0]] # "crit"
          /\ \/ pc' = pc
             \/ \E l \in Labels \ {"enter", "crit"} : pc' = [pc EXCEPT ![on[0]] = l]
      <4>1. CASE drain_begin(0)
        BY <1>0, <1>a, <4>1, SchedAssumption DEF drain_begin, CallsCheckpoint, Goto, Labels
      <4>2. CASE drain_one(0)
        BY <4>2 DEF drain_one, At
      <4>3. CASE drain_read_overflow(0)
        BY <4>3 DEF drain_read_overflow, At, Goto, Labels
      <4>4. CASE drain_clear_overflow(0)
        BY <4>4 DEF drain_clear_overflow, At, Goto, Labels
      <4>5. CASE checkpoint_drained(0)
        BY <4>5 DEF checkpoint_drained, At, Goto, Labels
      <4>6. CASE schedule_refused(0)
        BY <4>6 DEF schedule_refused, At, Goto, Labels
      <4>7. CASE schedule_granted(0)
        BY <4>7 DEF schedule_granted, At, CallYield, Goto, Labels
      <4>8. CASE clear_resched_and_check(0)
        BY <4>8 DEF clear_resched_and_check, At, Goto, Labels
      <4>9. CASE checkpoint_return(0)
        BY <4>9 DEF checkpoint_return, At, Goto, After, Labels
      <4>10. CASE checkpoint_yield(0)
        BY <4>10 DEF checkpoint_yield, At, CallYield, Goto, Labels
      <4>11. CASE clear_resched_and_return(0)
        BY <4>11 DEF clear_resched_and_return, At, Goto, After, Labels
      <4> QED BY <1>4, <4>1, <4>2, <4>3, <4>4, <4>5, <4>6, <4>7, <4>8, <4>9,
                 <4>10, <4>11 DEF Checkpoint
    <3> QED BY <1>0, <1>a, <3>1 DEF CritInv
  <2>2. ClearInv' /\ NoLostQuantum'
    <3> USE DEF ClearInv, NoLostQuantum, Pending, Empty, At, Goto
    <3>1. CASE drain_begin(0)
      BY <1>0, <1>a, <1>c, <3>1 DEF drain_begin, CallsCheckpoint
    <3>2. CASE drain_one(0)
      BY <1>0, <1>a, <1>c, <3>2 DEF drain_one
    <3>3. CASE drain_read_overflow(0)
      BY <1>0, <1>a, <1>c, <3>3 DEF drain_read_overflow
    <3>4. CASE drain_clear_overflow(0)
      BY <1>0, <1>a, <1>c, <3>4 DEF drain_clear_overflow
    <3>5. CASE checkpoint_drained(0)
      BY <1>0, <1>a, <1>c, <1>d, <3>5 DEF checkpoint_drained
    <3>6. CASE schedule_refused(0)
      BY <1>d, <3>6 DEF schedule_refused
    <3>7. CASE schedule_granted(0)
      BY <1>0, <1>a, <1>c, <3>7 DEF schedule_granted, CallYield
    <3>8. CASE clear_resched_and_check(0)
      BY <1>0, <1>a, <1>c, <3>8 DEF clear_resched_and_check
    <3>9. CASE checkpoint_return(0)
      BY <1>0, <1>a, <1>c, <1>d, <3>9 DEF checkpoint_return, After
    <3>10. CASE checkpoint_yield(0)
      BY <1>0, <1>a, <1>c, <3>10 DEF checkpoint_yield, CallYield
    <3>11. CASE clear_resched_and_return(0)
      BY <1>0, <1>a, <1>c, <3>11 DEF clear_resched_and_return, After
    <3> QED BY <1>4, <3>1, <3>2, <3>3, <3>4, <3>5, <3>6, <3>7, <3>8, <3>9,
               <3>10, <3>11 DEF Checkpoint
  <2> QED BY <1>0, <2>1, <2>2 DEF QuantumInv
<1>5. CASE Yield(0)
  <2>1. CASE yield_refused(0)
    BY <1>d, <2>1 DEF yield_refused, At
  <2>2. CASE yield_granted(0)
    <3>1. CritInv'
      BY <1>0, <1>a, <2>2 DEF yield_granted, At, Goto, CritInv
    <3>2. ClearInv' /\ NoLostQuantum'
      BY <1>0, <1>a, <1>c, <2>2
         DEF yield_granted, At, Goto, ClearInv, NoLostQuantum, Pending
    <3> QED BY <1>0, <3>1, <3>2 DEF QuantumInv
  <2>3. CASE switch_none(0)
    <3>1. owed' = {}
      BY <1>a, <2>3 DEF switch_none
    <3>2. CritInv'
      BY <1>0, <1>a, <2>3 DEF switch_none, At, Goto, CritInv
    <3>3. ClearInv' /\ NoLostQuantum'
      BY <3>1 DEF ClearInv, NoLostQuantum
    <3> QED BY <1>0, <3>2, <3>3 DEF QuantumInv
  <2>4. ASSUME NEW u \in Threads, switch_to(0, u) PROVE QuantumInv'
    <3>1. owed' = {}
      BY <1>a, <2>4 DEF switch_to
    <3>2. CritInv'
      BY <1>0, <1>a, <2>4 DEF switch_to, At, Goto, CritInv
    <3>3. ClearInv' /\ NoLostQuantum'
      BY <3>1 DEF ClearInv, NoLostQuantum
    <3> QED BY <1>0, <3>2, <3>3 DEF QuantumInv
  <2> QED BY <1>5, <2>1, <2>2, <2>3, <2>4 DEF Yield
<1> QED BY <1>c, <1>1, <1>2, <1>3, <1>4, <1>5 DEF Next, ThreadStep

\* On one CPU, a quantum that expired and was not followed by an attempt to
\* switch is never forgotten, whatever the ring size, the interval and the
\* workers.
THEOREM QuantumSafe == ASSUME NCPU = 1 PROVE Spec => []NoLostQuantum
<1>1. Init => QuantumInv
  BY QuantumInit
<1>2. QuantumInv /\ [Next]_vars => QuantumInv'
  BY QuantumStep
<1>3. QuantumInv => NoLostQuantum
  BY DEF QuantumInv
<1> QED BY <1>1, <1>2, <1>3, PTL DEF Spec

-----------------------------------------------------------------------------
(***************************************************************************)
(* The deferred ring.                                                      *)
(***************************************************************************)
\* Both facts need this: cli covers the whole drain, so nothing is pushed
\* between the last look at the ring and the clearing of the overflow count;
\* and the thread that drains stays on its CPU, so the count it has read is of
\* the ring it has emptied.
DrainInv ==
  /\ \A c, d \in CPUs : on[c] = on[d] => c = d
  /\ \A t \in Threads : pc[t] \in {"drain", "clear"} => \E c \in CPUs : on[c] = t
  /\ \A c \in CPUs :
       /\ pc[on[c]] \in {"drain", "clear"} => ~ irq[c]
       /\ pc[on[c]] = "clear" => Empty(c) /\ ovf[on[c]] = overflow[c]

-----------------------------------------------------------------------------
\* Arithmetic of the quantum and of the ring.
LEMMA NextQuantum ==
  ASSUME NEW t \in Nat
  PROVE  (t + 1) \div Interval = IF (t + 1) % Interval = 0 THEN t \div Interval + 1
                                                           ELSE t \div Interval
BY SchedAssumption

LEMMA WrapOnce ==
  ASSUME NEW i \in 0 .. Cap - 1, NEW j \in 0 .. Cap - 1
  PROVE  (i + j) % Cap = IF i + j < Cap THEN i + j ELSE i + j - Cap
<1>1. Cap \in Nat \ {0} /\ i + j \in Nat /\ i + j < 2 * Cap
  BY SchedAssumption
<1> QED BY <1>1

LEMMA RingLenRange ==
  ASSUME TypeOK, NEW c \in CPUs
  PROVE  /\ w[c] \in 0 .. Cap - 1 /\ r[c] \in 0 .. Cap - 1
         /\ RingLen(c) \in 0 .. Cap - 1
         /\ RingLen(c) = 0 <=> Empty(c)
         /\ RingLen(c) = Cap - 1 <=> Succ(w[c]) = r[c]
<1>1. w[c] \in 0 .. Cap - 1 /\ r[c] \in 0 .. Cap - 1
  BY DEF TypeOK
<1>2. Cap \in Nat /\ Cap > 1
  BY SchedAssumption
<1>3. Succ(w[c]) = IF w[c] + 1 = Cap THEN 0 ELSE w[c] + 1
  BY <1>1, SuccInRing
<1> QED BY <1>1, <1>2, <1>3 DEF RingLen, Empty

\* A push makes the ring longer by one; the indices of the other CPUs stand.
LEMMA PushLen ==
  ASSUME TypeOK, NEW c \in CPUs, r' = r, Succ(w[c]) # r[c],
         w' = [w EXCEPT ![c] = Succ(@)]
  PROVE  /\ RingLen(c)' = RingLen(c) + 1
         /\ \A d \in CPUs \ {c} : RingLen(d)' = RingLen(d)
<1>1. w \in [CPUs -> 0 .. Cap - 1]
  BY DEF TypeOK
<1>2. Cap \in Nat /\ Cap > 1 /\ w[c] \in 0 .. Cap - 1 /\ r[c] \in 0 .. Cap - 1
  BY SchedAssumption, RingLenRange
<1>3. Succ(w[c]) = IF w[c] + 1 = Cap THEN 0 ELSE w[c] + 1
  BY <1>2, SuccInRing
<1>4. w'[c] = Succ(w[c]) /\ \A d \in CPUs \ {c} : w'[d] = w[d]
  BY <1>1
<1>5. RingLen(c)' = RingLen(c) + 1
  BY <1>2, <1>3, <1>4 DEF RingLen
<1>6. \A d \in CPUs \ {c} : RingLen(d)' = RingLen(d)
  BY <1>4 DEF RingLen
<1> QED BY <1>5, <1>6

\* Draining an entry makes it shorter by one.
LEMMA TakeLen ==
  ASSUME TypeOK, NEW c \in CPUs, w' = w, ~ Empty(c),
         r' = [r EXCEPT ![c] = Succ(@)]
  PROVE  /\ RingLen(c)' = RingLen(c) - 1
         /\ \A d \in CPUs \ {c} : RingLen(d)' = RingLen(d)
<1>1. r \in [CPUs -> 0 .. Cap - 1]
  BY DEF TypeOK
<1>2. Cap \in Nat /\ Cap > 1 /\ w[c] \in 0 .. Cap - 1 /\ r[c] \in 0 .. Cap - 1
  BY SchedAssumption, RingLenRange
<1>3. Succ(r[c]) = IF r[c] + 1 = Cap THEN 0 ELSE r[c] + 1
  BY <1>2, SuccInRing
<1>4. r'[c] = Succ(r[c]) /\ \A d \in CPUs \ {c} : r'[d] = r[d]
  BY <1>1
<1>5. RingLen(c)' = RingLen(c) - 1
  BY <1>2, <1>3, <1>4 DEF RingLen, Empty
<1>6. \A d \in CPUs \ {c} : RingLen(d)' = RingLen(d)
  BY <1>4 DEF RingLen
<1> QED BY <1>5, <1>6

-----------------------------------------------------------------------------
LEMMA DrainInit == Init => DrainInv /\ QuantaAccounted
<1> SUFFICES ASSUME Init PROVE DrainInv /\ QuantaAccounted
  OBVIOUS
<1>1. /\ \A c \in CPUs : c \in Threads /\ on[c] = c
      /\ \A t \in Threads : pc[t] \in {"enter", "run"}
  BY BootCPU DEF Init
<1>2. DrainInv
  BY <1>1 DEF DrainInv
<1>3. QuantaAccounted
  BY SchedAssumption DEF Init, QuantaAccounted, RingLen
<1> QED BY <1>2, <1>3

\* The actions of the thread on c that leave the ring and the counters alone,
\* and move it to a label other than those of the drain.
Elsewhere(c) ==
  /\ UNCHANGED <<tick, ring, w, r, overflow, taken, reported, ovf, on, irq>>
  /\ \E l \in Labels \ {"drain", "clear"} : Goto(c, l)

LEMMA ElsewhereSteps ==
  ASSUME TypeOK, NEW c \in CPUs,
         \/ Program(c)
         \/ checkpoint_drained(c) \/ schedule_refused(c) \/ schedule_granted(c)
         \/ clear_resched_and_check(c) \/ checkpoint_return(c)
         \/ checkpoint_yield(c) \/ clear_resched_and_return(c)
         \/ yield_refused(c) \/ yield_granted(c) \/ switch_none(c)
  PROVE  Elsewhere(c)
<1> USE DEF Elsewhere, Goto, CallYield, ringvars, ctlvars, locals, history, Labels
<1>1. CASE Program(c)
  BY <1>1 DEF Program, main_yield, main_halt, idle_yield, sched_preempt_disable,
              sched_preempt_enable, worker_end, zombie_yield
<1>2. CASE \/ checkpoint_drained(c) \/ schedule_refused(c) \/ schedule_granted(c)
           \/ clear_resched_and_check(c) \/ checkpoint_yield(c) \/ yield_granted(c)
  BY <1>2 DEF checkpoint_drained, schedule_refused, schedule_granted,
              clear_resched_and_check, checkpoint_yield, yield_granted
<1>3. CASE checkpoint_return(c) \/ clear_resched_and_return(c)
  BY <1>3 DEF checkpoint_return, clear_resched_and_return, After
<1>4. CASE yield_refused(c) \/ switch_none(c)
  <2>1. ret[on[c]] \in Labels \ {"drain", "clear"}
    BY DEF TypeOK
  <2> QED BY <1>4, <2>1 DEF yield_refused, switch_none
<1> QED BY <1>1, <1>2, <1>3, <1>4

LEMMA DrainStep ==
  ASSUME TypeOK, DrainInv, QuantaAccounted, [Next]_vars
  PROVE  DrainInv' /\ QuantaAccounted'
<1>0. /\ DrainInv /\ QuantaAccounted
      /\ on \in [CPUs -> Threads] /\ irq \in [CPUs -> BOOLEAN]
      /\ pc \in [Threads -> Labels] /\ ovf \in [Threads -> Nat]
      /\ tick \in [CPUs -> 0 .. MaxTicks] /\ overflow \in [CPUs -> Nat]
      /\ taken \in [CPUs -> Nat] /\ reported \in [CPUs -> Nat]
      /\ flags \in [Threads -> BOOLEAN]
  BY DEF TypeOK
<1> USE DEF ringvars, ctlvars, locals, history
<1>1. CASE UNCHANGED vars
  BY <1>1, <1>0 DEF vars, DrainInv, QuantaAccounted, Empty, RingLen
<1>2. ASSUME NEW c \in CPUs, sched_timer_tick(c) PROVE DrainInv' /\ QuantaAccounted'
  <2>1. /\ UNCHANGED <<r, on, irq, pc, ovf, taken, reported>>
        /\ tick' = [tick EXCEPT ![c] = @ + 1]
        /\ irq[c] /\ pc[on[c]] \notin {"drain", "clear"}
    BY <1>0, <1>2 DEF sched_timer_tick, DrainInv
  <2>2. CASE (tick[c] + 1) % Interval # 0
    <3>1. UNCHANGED <<w, overflow>>
      BY <1>2, <2>2 DEF sched_timer_tick
    <3>2. DrainInv'
      BY <1>0, <2>1, <3>1 DEF DrainInv, Empty
    <3>3. (tick[c] + 1) \div Interval = tick[c] \div Interval
      BY <1>0, <2>2, NextQuantum
    <3>4. \A d \in CPUs : tick'[d] \div Interval = tick[d] \div Interval
      BY <1>0, <2>1, <3>3
    <3>5. QuantaAccounted'
      BY <1>0, <2>1, <3>1, <3>4 DEF QuantaAccounted, RingLen
    <3> QED BY <3>2, <3>5
  <2>3. CASE (tick[c] + 1) % Interval = 0
    <3>1. defer_push_tick(c, tick[c] + 1)
      BY <1>2, <2>3 DEF sched_timer_tick
    <3>2. (tick[c] + 1) \div Interval = tick[c] \div Interval + 1
      BY <1>0, <2>3, NextQuantum
    <3>3. /\ tick'[c] \div Interval = tick[c] \div Interval + 1
          /\ \A d \in CPUs \ {c} : tick'[d] = tick[d]
      BY <1>0, <2>1, <3>2
    <3>4. CASE Succ(w[c]) = r[c]
      <4>1. overflow' = [overflow EXCEPT ![c] = @ + 1] /\ w' = w
        BY <3>1, <3>4 DEF defer_push_tick
      <4>2. overflow'[c] = overflow[c] + 1 /\ \A d \in CPUs \ {c} : overflow'[d] = overflow[d]
        BY <1>0, <4>1
      <4>3. DrainInv'
        BY <1>0, <2>1, <4>1, <4>2 DEF DrainInv, Empty
      <4>4. \A d \in CPUs : RingLen(d)' = RingLen(d) /\ RingLen(d) \in Nat
        BY <2>1, <4>1, RingLenRange DEF RingLen
      <4>5. QuantaAccounted'
        BY <1>0, <2>1, <3>3, <4>2, <4>4 DEF QuantaAccounted
      <4> QED BY <4>3, <4>5
    <3>5. CASE Succ(w[c]) # r[c]
      <4>1. w' = [w EXCEPT ![c] = Succ(@)] /\ overflow' = overflow
        BY <3>1, <3>5 DEF defer_push_tick
      <4>2. /\ RingLen(c)' = RingLen(c) + 1
            /\ \A d \in CPUs \ {c} : RingLen(d)' = RingLen(d)
        BY <2>1, <3>5, <4>1, PushLen
      <4>3. \A d \in CPUs \ {c} : w'[d] = w[d]
        BY <4>1 DEF TypeOK
      <4>4. DrainInv'
        BY <1>0, <2>1, <4>1, <4>3 DEF DrainInv, Empty
      <4>5. \A d \in CPUs : RingLen(d) \in Nat
        BY RingLenRange
      <4>6. QuantaAccounted'
        BY <1>0, <2>1, <3>3, <4>1, <4>2, <4>5 DEF QuantaAccounted
      <4> QED BY <4>4, <4>6
    <3> QED BY <3>4, <3>5
  <2> QED BY <2>2, <2>3
<1>3. ASSUME NEW c \in CPUs, Elsewhere(c) PROVE DrainInv' /\ QuantaAccounted'
  <2>1. PICK l \in Labels \ {"drain", "clear"} : pc' = [pc EXCEPT ![on[c]] = l]
    BY <1>3 DEF Elsewhere, Goto
  <2>2. \A t \in Threads : pc'[t] \in {"drain", "clear"} => pc'[t] = pc[t]
    BY <1>0, <2>1
  <2>3. DrainInv'
    BY <1>0, <1>3, <2>2 DEF Elsewhere, DrainInv, Empty
  <2>4. QuantaAccounted'
    BY <1>0, <1>3 DEF Elsewhere, QuantaAccounted, RingLen
  <2> QED BY <2>3, <2>4
<1>4. ASSUME NEW c \in CPUs, drain_begin(c) PROVE DrainInv' /\ QuantaAccounted'
  <2>1. /\ pc' = [pc EXCEPT ![on[c]] = "drain"]
        /\ irq' = [irq EXCEPT ![c] = FALSE]
        /\ UNCHANGED <<tick, w, r, overflow, taken, reported, ovf, on>>
    BY <1>4 DEF drain_begin, Goto
  <2>2. /\ pc'[on[c]] = "drain" /\ irq'[c] = FALSE
        /\ \A t \in Threads \ {on[c]} : pc'[t] = pc[t]
        /\ \A d \in CPUs \ {c} : on[d] # on[c] /\ irq'[d] = irq[d]
    BY <1>0, <2>1 DEF DrainInv
  <2>3. DrainInv'
    BY <1>0, <2>1, <2>2 DEF DrainInv, Empty
  <2>4. QuantaAccounted'
    BY <1>0, <2>1 DEF QuantaAccounted, RingLen
  <2> QED BY <2>3, <2>4
<1>5. ASSUME NEW c \in CPUs, drain_one(c) PROVE DrainInv' /\ QuantaAccounted'
  <2>1. /\ pc[on[c]] = "drain" /\ ~ Empty(c)
        /\ r' = [r EXCEPT ![c] = Succ(@)] /\ taken' = [taken EXCEPT ![c] = @ + 1]
        /\ UNCHANGED <<tick, w, overflow, reported, ovf, on, irq, pc>>
    BY <1>5 DEF drain_one, At
  <2>2. /\ \A d \in CPUs \ {c} : r'[d] = r[d] /\ taken'[d] = taken[d]
        /\ taken'[c] = taken[c] + 1
    BY <1>0, <2>1 DEF TypeOK
  <2>3. DrainInv'
    BY <1>0, <2>1, <2>2 DEF DrainInv, Empty
  <2>4. /\ RingLen(c)' = RingLen(c) - 1 /\ \A d \in CPUs \ {c} : RingLen(d)' = RingLen(d)
        /\ \A d \in CPUs : RingLen(d) \in Nat
    <3>1. w' = w /\ ~ Empty(c) /\ r' = [r EXCEPT ![c] = Succ(@)]
      BY <2>1
    <3>2. RingLen(c)' = RingLen(c) - 1 /\ \A d \in CPUs \ {c} : RingLen(d)' = RingLen(d)
      BY <3>1, TakeLen, Zenon
    <3> QED BY <3>2, RingLenRange
  <2>5. QuantaAccounted'
    BY <1>0, <2>1, <2>2, <2>4 DEF QuantaAccounted
  <2> QED BY <2>3, <2>5
<1>6. ASSUME NEW c \in CPUs, drain_read_overflow(c) PROVE DrainInv' /\ QuantaAccounted'
  <2>1. /\ pc[on[c]] = "drain" /\ Empty(c)
        /\ ovf' = [ovf EXCEPT ![on[c]] = overflow[c]]
        /\ pc' = [pc EXCEPT ![on[c]] = "clear"]
        /\ UNCHANGED <<tick, w, r, overflow, taken, reported, on, irq>>
    BY <1>6 DEF drain_read_overflow, At, Goto
  <2>2. /\ pc'[on[c]] = "clear" /\ ovf'[on[c]] = overflow[c]
        /\ \A t \in Threads \ {on[c]} : pc'[t] = pc[t] /\ ovf'[t] = ovf[t]
        /\ \A d \in CPUs \ {c} : on[d] # on[c]
    BY <1>0, <2>1 DEF DrainInv
  <2>3. DrainInv'
    BY <1>0, <2>1, <2>2 DEF DrainInv, Empty
  <2>4. QuantaAccounted'
    BY <1>0, <2>1 DEF QuantaAccounted, RingLen
  <2> QED BY <2>3, <2>4
<1>7. ASSUME NEW c \in CPUs, drain_clear_overflow(c) PROVE DrainInv' /\ QuantaAccounted'
  <2>1. /\ pc[on[c]] = "clear"
        /\ overflow' = [overflow EXCEPT ![c] = 0]
        /\ reported' = [reported EXCEPT ![c] = @ + ovf[on[c]]]
        /\ irq' = [irq EXCEPT ![c] = flags[on[c]]]
        /\ pc' = [pc EXCEPT ![on[c]] = "post"]
        /\ UNCHANGED <<tick, w, r, taken, ovf, on>>
    BY <1>7 DEF drain_clear_overflow, At, Goto
  <2>2. /\ overflow'[c] = 0 /\ reported'[c] = reported[c] + overflow[c]
        /\ pc'[on[c]] = "post"
        /\ \A t \in Threads \ {on[c]} : pc'[t] = pc[t]
        /\ \A d \in CPUs \ {c} : /\ on[d] # on[c] /\ irq'[d] = irq[d]
                                 /\ overflow'[d] = overflow[d] /\ reported'[d] = reported[d]
    BY <1>0, <2>1 DEF DrainInv
  <2>3. DrainInv'
    BY <1>0, <2>1, <2>2 DEF DrainInv, Empty
  <2>4. \A d \in CPUs : RingLen(d)' = RingLen(d) /\ RingLen(d) \in Nat
    BY <2>1, RingLenRange DEF RingLen
  <2>5. QuantaAccounted'
    BY <1>0, <2>1, <2>2, <2>4 DEF QuantaAccounted
  <2> QED BY <2>3, <2>5
<1>8. ASSUME NEW c \in CPUs, NEW u \in Threads, switch_to(c, u)
      PROVE  DrainInv' /\ QuantaAccounted'
  <2>1. /\ \A d \in CPUs : on[d] # u
        /\ on' = [on EXCEPT ![c] = u] /\ pc' = [pc EXCEPT ![on[c]] = ret[on[c]]]
        /\ irq' = [irq EXCEPT ![c] = flags[u]]
        /\ pc[on[c]] = "switch" /\ ret[on[c]] \notin {"drain", "clear"}
        /\ UNCHANGED <<tick, w, r, overflow, taken, reported, ovf>>
    BY <1>8 DEF switch_to, Eligible, At, Goto, TypeOK
  <2>2. /\ on'[c] = u
        /\ \A d \in CPUs \ {c} : on'[d] = on[d] /\ irq'[d] = irq[d]
        /\ \A t \in Threads : pc'[t] \in {"drain", "clear"} => pc'[t] = pc[t] /\ t # on[c]
    BY <1>0, <2>1
  <2>3. pc'[u] \notin {"drain", "clear"}
    BY <1>0, <2>1, <2>2 DEF DrainInv
  <2>4. DrainInv'
    <3>1. \A d, e \in CPUs : on'[d] = on'[e] => d = e
      BY <1>0, <2>1, <2>2 DEF DrainInv
    <3>2. \A t \in Threads : pc'[t] \in {"drain", "clear"} => \E d \in CPUs : on'[d] = t
      BY <1>0, <2>2 DEF DrainInv
    <3>3. \A d \in CPUs :
            /\ pc'[on'[d]] \in {"drain", "clear"} => ~ irq'[d]
            /\ pc'[on'[d]] = "clear" => Empty(d)' /\ ovf'[on'[d]] = overflow'[d]
      BY <1>0, <2>1, <2>2, <2>3 DEF DrainInv, Empty
    <3> QED BY <3>1, <3>2, <3>3 DEF DrainInv
  <2>5. QuantaAccounted'
    BY <1>0, <2>1 DEF QuantaAccounted, RingLen
  <2> QED BY <2>4, <2>5
<1> QED
  BY <1>1, <1>2, <1>3, <1>4, <1>5, <1>6, <1>7, <1>8, ElsewhereSteps
     DEF Next, ThreadStep, Checkpoint, Yield

LEMMA DrainInvariant == Spec => [](TypeOK /\ DrainInv /\ QuantaAccounted)
<1>1. Init => TypeOK /\ DrainInv /\ QuantaAccounted
  BY TypeInit, DrainInit
<1>2. TypeOK /\ DrainInv /\ QuantaAccounted /\ [Next]_vars
        => TypeOK' /\ DrainInv' /\ QuantaAccounted'
  BY TypeStep, DrainStep
<1> QED BY <1>1, <1>2, PTL DEF Spec

\* Every expired quantum of every CPU is in the ring, drained, counted as an
\* overflow or reported, and no two of them, however the timer of each CPU and
\* the threads that move between the CPUs interleave with the drain.
THEOREM QuantaSafe == Spec => []QuantaAccounted
BY DrainInvariant, PTL
-----------------------------------------------------------------------------
(***************************************************************************)
(* The refinement.                                                         *)
(***************************************************************************)
queues == [c \in CPUs |-> Queue(c)]

\* The queue of c is a sequence, of the entries of the ring from r[c] on.
QueueShape(c) ==
  /\ Queue(c) \in Seq(0 .. MaxTicks)
  /\ Len(Queue(c)) = RingLen(c)
  /\ \A i \in 1 .. RingLen(c) :
       /\ Queue(c)[i] = ring[c][(r[c] + (i - 1)) % Cap]
       /\ (r[c] + (i - 1)) % Cap \in 0 .. Cap - 1

LEMMA QueueSeq == TypeOK => \A c \in CPUs : QueueShape(c)
<1> SUFFICES ASSUME TypeOK, NEW c \in CPUs PROVE QueueShape(c)
  OBVIOUS
<1>1. Cap \in Nat /\ RingLen(c) \in 0 .. Cap - 1 /\ r[c] \in 0 .. Cap - 1
  BY SchedAssumption, RingLenRange
<1>2. \A i \in 1 .. RingLen(c) : /\ (r[c] + i - 1) = r[c] + (i - 1)
                                 /\ (r[c] + i - 1) % Cap \in 0 .. Cap - 1
  BY <1>1, SchedAssumption
<1>3. ring[c] \in [0 .. Cap - 1 -> 0 .. MaxTicks]
  BY DEF TypeOK
<1>4. Queue(c) \in [1 .. RingLen(c) -> 0 .. MaxTicks]
  BY <1>2, <1>3 DEF Queue
<1>5. Queue(c) \in Seq(0 .. MaxTicks) /\ Len(Queue(c)) = RingLen(c)
  <2>1. RingLen(c) \in Nat
    BY <1>1
  <2>2. Queue(c) \in Seq(0 .. MaxTicks)
    BY <1>4, <2>1, SeqDef
  <2> QED BY <1>4, <2>1, <2>2, LenProperties
<1> QED BY <1>2, <1>5 DEF Queue, QueueShape

LEMMA QueueSeqNext == TypeOK' => \A c \in CPUs : QueueShape(c)'
<1>1. TypeOK' => (\A c \in CPUs : QueueShape(c))'
  BY QueueSeq, PTL
<1> QED BY <1>1

\* A push appends, and touches no other queue.
LEMMA PushAppends ==
  ASSUME TypeOK, TypeOK', NEW c \in CPUs, NEW t \in 0 .. MaxTicks, r' = r,
         Succ(w[c]) # r[c],
         ring' = [ring EXCEPT ![c][w[c]] = t], w' = [w EXCEPT ![c] = Succ(@)]
  PROVE  queues' = [queues EXCEPT ![c] = Append(@, t)]
<1>1. /\ Cap \in Nat /\ Cap > 1
      /\ w[c] \in 0 .. Cap - 1 /\ r[c] \in 0 .. Cap - 1
      /\ RingLen(c) \in 0 .. Cap - 1
  BY SchedAssumption, RingLenRange
<1>2. /\ RingLen(c)' = RingLen(c) + 1
      /\ \A d \in CPUs \ {c} : RingLen(d)' = RingLen(d)
  BY PushLen
<1>3. /\ ring'[c] = [ring[c] EXCEPT ![w[c]] = t]
      /\ \A d \in CPUs \ {c} : ring'[d] = ring[d]
      /\ ring[c] \in [0 .. Cap - 1 -> 0 .. MaxTicks]
  BY DEF TypeOK
<1>4. (r[c] + RingLen(c)) % Cap = w[c]
  <2>1. (r[c] + RingLen(c)) % Cap = IF r[c] + RingLen(c) < Cap THEN r[c] + RingLen(c)
                                    ELSE r[c] + RingLen(c) - Cap
    BY <1>1, WrapOnce
  <2> QED BY <1>1, <2>1 DEF RingLen
<1>5. \A i \in 1 .. RingLen(c) : (r[c] + (i - 1)) % Cap # w[c]
  <2> SUFFICES ASSUME NEW i \in 1 .. RingLen(c) PROVE (r[c] + (i - 1)) % Cap # w[c]
    OBVIOUS
  <2>1. i - 1 \in 0 .. Cap - 1
    BY <1>1
  <2>2. (r[c] + (i - 1)) % Cap = IF r[c] + (i - 1) < Cap THEN r[c] + (i - 1)
                                 ELSE r[c] + (i - 1) - Cap
    BY <1>1, <2>1, WrapOnce
  <2> QED BY <1>1, <2>2 DEF RingLen
<1>6. /\ Queue(c) \in Seq(0 .. MaxTicks) /\ Len(Queue(c)) = RingLen(c)
      /\ \A i \in 1 .. RingLen(c) : /\ Queue(c)[i] = ring[c][(r[c] + (i - 1)) % Cap]
                                    /\ (r[c] + (i - 1)) % Cap \in 0 .. Cap - 1
  BY QueueSeq DEF QueueShape
<1>7. /\ Queue(c)' \in Seq(0 .. MaxTicks) /\ Len(Queue(c)') = RingLen(c)'
      /\ \A i \in 1 .. RingLen(c)' : Queue(c)'[i] = ring'[c][(r'[c] + (i - 1)) % Cap]
  BY QueueSeqNext DEF QueueShape
<1>8. \A i \in 1 .. RingLen(c) + 1 :
         Queue(c)'[i] = IF i = RingLen(c) + 1 THEN t ELSE Queue(c)[i]
  <2> SUFFICES ASSUME NEW i \in 1 .. RingLen(c) + 1
               PROVE  Queue(c)'[i] = IF i = RingLen(c) + 1 THEN t ELSE Queue(c)[i]
    OBVIOUS
  <2>1. Queue(c)'[i] = ring'[c][(r[c] + (i - 1)) % Cap]
    BY <1>2, <1>7
  <2>2. CASE i = RingLen(c) + 1
    <3>1. r[c] + (i - 1) = r[c] + RingLen(c)
      BY <1>1, <2>2
    <3> QED BY <1>1, <1>3, <1>4, <2>1, <2>2, <3>1
  <2>3. CASE i # RingLen(c) + 1
    <3>1. i \in 1 .. RingLen(c)
      BY <1>1, <2>3
    <3>2. ring'[c][(r[c] + (i - 1)) % Cap] = ring[c][(r[c] + (i - 1)) % Cap]
      BY <1>3, <1>5, <1>6, <3>1
    <3> QED BY <1>6, <2>1, <2>3, <3>1, <3>2
  <2> QED BY <2>2, <2>3
<1>9. Queue(c)' = Append(Queue(c), t)
  <2>1. /\ Append(Queue(c), t) \in Seq(0 .. MaxTicks)
        /\ Len(Append(Queue(c), t)) = RingLen(c) + 1
        /\ \A i \in 1 .. RingLen(c) + 1 :
             Append(Queue(c), t)[i] = IF i = RingLen(c) + 1 THEN t ELSE Queue(c)[i]
    BY <1>6, AppendProperties
  <2> QED BY <1>2, <1>7, <1>8, <2>1, SeqEqual
<1>10. \A d \in CPUs \ {c} : Queue(d)' = Queue(d)
  BY <1>2, <1>3 DEF Queue
<1> QED BY <1>9, <1>10 DEF queues

\* Draining an entry takes the head, and touches no other queue.
LEMMA DrainTakes ==
  ASSUME TypeOK, TypeOK', NEW c \in CPUs, UNCHANGED <<ring, w>>, ~ Empty(c),
         r' = [r EXCEPT ![c] = Succ(@)]
  PROVE  queues' = [queues EXCEPT ![c] = Tail(@)] /\ Queue(c) # << >>
<1>1. /\ Cap \in Nat /\ Cap > 1
      /\ w[c] \in 0 .. Cap - 1 /\ r[c] \in 0 .. Cap - 1
      /\ RingLen(c) \in 1 .. Cap - 1
  BY SchedAssumption, RingLenRange
<1>2. /\ RingLen(c)' = RingLen(c) - 1
      /\ \A d \in CPUs \ {c} : RingLen(d)' = RingLen(d)
  BY TakeLen
<1>3. r'[c] = Succ(r[c]) /\ \A d \in CPUs \ {c} : r'[d] = r[d]
  BY DEF TypeOK
<1>4. /\ Queue(c) \in Seq(0 .. MaxTicks) /\ Len(Queue(c)) = RingLen(c)
      /\ \A i \in 1 .. RingLen(c) : Queue(c)[i] = ring[c][(r[c] + (i - 1)) % Cap]
  BY QueueSeq DEF QueueShape
<1>5. /\ Queue(c)' \in Seq(0 .. MaxTicks) /\ Len(Queue(c)') = RingLen(c)'
      /\ \A i \in 1 .. RingLen(c)' : Queue(c)'[i] = ring'[c][(r'[c] + (i - 1)) % Cap]
  BY QueueSeqNext DEF QueueShape
<1>6. Queue(c) # << >>
  BY <1>1, <1>4, EmptySeq
<1>7. \A i \in 1 .. RingLen(c) - 1 : (Succ(r[c]) + (i - 1)) % Cap = (r[c] + i) % Cap
  <2> SUFFICES ASSUME NEW i \in 1 .. RingLen(c) - 1
               PROVE  (Succ(r[c]) + (i - 1)) % Cap = (r[c] + i) % Cap
    OBVIOUS
  <2>1. Succ(r[c]) \in 0 .. Cap - 1 /\ Succ(r[c]) = IF r[c] + 1 = Cap THEN 0 ELSE r[c] + 1
    BY <1>1, SuccInRing
  <2>2. i \in 0 .. Cap - 1 /\ i - 1 \in 0 .. Cap - 1
    BY <1>1
  <2>3. (Succ(r[c]) + (i - 1)) % Cap = IF Succ(r[c]) + (i - 1) < Cap THEN Succ(r[c]) + (i - 1)
                                       ELSE Succ(r[c]) + (i - 1) - Cap
    BY <2>1, <2>2, WrapOnce
  <2>4. (r[c] + i) % Cap = IF r[c] + i < Cap THEN r[c] + i ELSE r[c] + i - Cap
    BY <1>1, <2>2, WrapOnce
  <2> DEFINE s == Succ(r[c])
             x == (s + (i - 1)) % Cap
             y == (r[c] + i) % Cap
             a == r[c]
  <2>5. /\ s = IF a + 1 = Cap THEN 0 ELSE a + 1
        /\ x = IF s + (i - 1) < Cap THEN s + (i - 1) ELSE s + (i - 1) - Cap
        /\ y = IF a + i < Cap THEN a + i ELSE a + i - Cap
    BY <2>1, <2>3, <2>4
  <2>6. a \in Nat /\ a < Cap /\ i \in Nat /\ i >= 1 /\ i < Cap
    BY <1>1
  <2> HIDE DEF s, x, y, a
  <2>7. x = y
    BY <1>1, <2>5, <2>6
  <2> QED BY <2>7 DEF s, x, y, a
<1>8. /\ Tail(Queue(c)) \in Seq(0 .. MaxTicks)
      /\ Len(Tail(Queue(c))) = RingLen(c) - 1
      /\ \A i \in 1 .. RingLen(c) - 1 : Tail(Queue(c))[i] = Queue(c)[i + 1]
  BY <1>4, <1>6, HeadTailProperties
<1>9. \A i \in 1 .. RingLen(c) - 1 : Queue(c)'[i] = Tail(Queue(c))[i]
  <2> SUFFICES ASSUME NEW i \in 1 .. RingLen(c) - 1
               PROVE  Queue(c)'[i] = Tail(Queue(c))[i]
    OBVIOUS
  <2>1. i + 1 \in 1 .. RingLen(c) /\ (i + 1) - 1 = i
    BY <1>1
  <2>2. Queue(c)[i + 1] = ring[c][(r[c] + i) % Cap]
    BY <1>4, <2>1
  <2> QED BY <1>2, <1>3, <1>5, <1>7, <1>8, <2>2
<1>10. Queue(c)' = Tail(Queue(c))
  BY <1>2, <1>5, <1>8, <1>9, SeqEqual
<1>11. \A d \in CPUs \ {c} : Queue(d)' = Queue(d)
  BY <1>2, <1>3 DEF Queue
<1> QED BY <1>6, <1>10, <1>11 DEF queues

LEMMA RefineInit == Init => DQ!QInit
<1> SUFFICES ASSUME Init PROVE DQ!QInit
  OBVIOUS
<1>1. \A c \in CPUs : RingLen(c) = 0
  BY SchedAssumption DEF Init, RingLen
<1>2. \A c \in CPUs : Queue(c) = << >>
  BY <1>1, TypeInit, QueueSeq, EmptySeq DEF QueueShape
<1> QED BY <1>2 DEF DQ!QInit, Init

\* A step that leaves the ring and its counters alone is a stutter.
LEMMA RefineStutter == UNCHANGED <<ring, w, r, overflow>> => UNCHANGED DQ!qvars
BY DEF DQ!qvars, Queue, RingLen

LEMMA RefineTick ==
  ASSUME TypeOK, TypeOK', NEW c \in CPUs, sched_timer_tick(c)
  PROVE  [DQ!QNext]_DQ!qvars
<1>1. /\ tick[c] + 1 \in 1 .. MaxTicks /\ tick[c] + 1 \in 0 .. MaxTicks
      /\ r' = r
  BY SchedAssumption DEF sched_timer_tick, TypeOK
<1>2. CASE (tick[c] + 1) % Interval # 0
  BY <1>1, <1>2, RefineStutter DEF sched_timer_tick
<1>3. CASE (tick[c] + 1) % Interval = 0
  <2>1. defer_push_tick(c, tick[c] + 1)
    BY <1>3 DEF sched_timer_tick
  <2>2. Len(Queue(c)) = RingLen(c) /\ RingLen(c) \in 0 .. Cap - 1
        /\ (RingLen(c) = Cap - 1 <=> Succ(w[c]) = r[c])
    BY QueueSeq, RingLenRange DEF QueueShape
  <2>3. queues[c] = Queue(c)
    BY DEF queues
  <2>4. CASE Succ(w[c]) = r[c]
    <3>1. overflow' = [overflow EXCEPT ![c] = @ + 1] /\ UNCHANGED <<ring, w>>
      BY <2>1, <2>4 DEF defer_push_tick
    <3>2. queues' = queues
      BY <1>1, <3>1 DEF queues, Queue, RingLen
    <3>3. DQ!Drop(c)
      BY <2>2, <2>3, <2>4, <3>1, <3>2 DEF DQ!Drop, queues
    <3> QED BY <3>3 DEF DQ!QNext
  <2>5. CASE Succ(w[c]) # r[c]
    <3>1. /\ ring' = [ring EXCEPT ![c][w[c]] = tick[c] + 1]
          /\ w' = [w EXCEPT ![c] = Succ(@)]
          /\ overflow' = overflow
      BY <2>1, <2>5 DEF defer_push_tick
    <3>2. queues' = [queues EXCEPT ![c] = Append(@, tick[c] + 1)]
      BY <1>1, <2>5, <3>1, PushAppends
    <3>3. Len(queues[c]) < Cap - 1
      BY <2>2, <2>3, <2>5, SchedAssumption
    <3>4. DQ!Post(c, tick[c] + 1)
      BY <3>1, <3>2, <3>3 DEF DQ!Post, queues
    <3> QED BY <1>1, <3>4 DEF DQ!QNext
  <2> QED BY <2>4, <2>5
<1> QED BY <1>2, <1>3

LEMMA RefineStep ==
  ASSUME TypeOK, TypeOK', DrainInv, [Next]_vars
  PROVE  [DQ!QNext]_DQ!qvars
<1>1. CASE UNCHANGED vars
  BY <1>1, RefineStutter DEF vars, ringvars
<1>2. ASSUME NEW c \in CPUs, sched_timer_tick(c) PROVE [DQ!QNext]_DQ!qvars
  BY <1>2, RefineTick
<1>3. ASSUME NEW c \in CPUs, Elsewhere(c) PROVE [DQ!QNext]_DQ!qvars
  BY <1>3, RefineStutter DEF Elsewhere
<1>4. ASSUME NEW c \in CPUs, drain_begin(c) \/ drain_read_overflow(c)
      PROVE  [DQ!QNext]_DQ!qvars
  BY <1>4, RefineStutter DEF drain_begin, drain_read_overflow, ringvars
<1>5. ASSUME NEW c \in CPUs, NEW u \in Threads, switch_to(c, u)
      PROVE  [DQ!QNext]_DQ!qvars
  BY <1>5, RefineStutter DEF switch_to, ringvars
<1>6. ASSUME NEW c \in CPUs, drain_one(c) PROVE [DQ!QNext]_DQ!qvars
  <2>1. /\ UNCHANGED <<ring, w, overflow>> /\ ~ Empty(c)
        /\ r' = [r EXCEPT ![c] = Succ(@)]
    BY <1>6 DEF drain_one
  <2>2. queues' = [queues EXCEPT ![c] = Tail(@)] /\ Queue(c) # << >>
    BY <2>1, DrainTakes
  <2>3. DQ!Take(c)
    BY <2>1, <2>2 DEF DQ!Take, queues
  <2> QED BY <2>3 DEF DQ!QNext
<1>7. ASSUME NEW c \in CPUs, drain_clear_overflow(c) PROVE [DQ!QNext]_DQ!qvars
  <2>1. /\ pc[on[c]] = "clear" /\ UNCHANGED <<ring, w, r>>
        /\ overflow' = [overflow EXCEPT ![c] = 0]
    BY <1>7 DEF drain_clear_overflow, At
  <2>2. Queue(c) = << >>
    <3>1. Empty(c)
      BY <2>1 DEF DrainInv
    <3> QED BY <3>1, QueueSeq, RingLenRange, EmptySeq DEF QueueShape
  <2>3. queues' = queues
    BY <2>1 DEF queues, Queue, RingLen
  <2>4. DQ!Report(c)
    BY <2>1, <2>2, <2>3 DEF DQ!Report, queues
  <2> QED BY <2>4 DEF DQ!QNext
<1> QED
  BY <1>1, <1>2, <1>3, <1>4, <1>5, <1>6, <1>7, ElsewhereSteps
     DEF Next, ThreadStep, Checkpoint, Yield

\* The ring of each CPU is a first-in first-out queue of Cap - 1 entries that
\* counts what it refuses, and sched_process_deferred gives up the count only
\* when it has emptied the queue: nothing is pushed between the two.
THEOREM RingIsQueue == Spec => ImplementsDeferQueue
<1>1. Init => DQ!QInit
  BY RefineInit
<1>2. (TypeOK /\ DrainInv) /\ TypeOK' /\ [Next]_vars => [DQ!QNext]_DQ!qvars
  BY RefineStep
<1> QED BY <1>1, <1>2, DrainInvariant, PTL DEF Spec, ImplementsDeferQueue, DQ!QSpec
=============================================================================
