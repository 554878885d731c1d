------------------------------- MODULE Sched --------------------------------
(***************************************************************************)
(* kernel/sched.c together with the callers that drive it in               *)
(* kernel/thread.c: the timer handler that marks a quantum expired, the    *)
(* per-CPU ring of deferred work, the global preempt-disable counter, and  *)
(* sched_checkpoint(), in which thread context picks the request up.       *)
(*                                                                         *)
(* A CPU runs the code of the thread on[c]; pc[t] is where thread t is.    *)
(* The timer handler runs with interrupts off on its CPU and touches only  *)
(* that CPU's words, so it is one step, possible wherever irq[c] holds.    *)
(* The run queue is abstract here: sched_yield() switches to some thread   *)
(* that may run on the CPU, in one step (it holds the run-queue lock with  *)
(* interrupts off).  Module Threads models that part in detail.            *)
(***************************************************************************)
EXTENDS Naturals, Sequences

CONSTANTS NCPU,      \* logical CPUs (smp_cpu_count)
          Workers,   \* threads made by thread_spawn in thread_demo_run
          A,         \* the worker that has a critical section (worker_a)
          Rounds,    \* checkpoints a worker makes before it ends
          Interval,  \* PREEMPT_INTERVAL_TICKS
          Cap,       \* SCHED_DEFER_CAP
          MaxTicks   \* bound on each CPU's tick counter

CPUs == 0 .. NCPU - 1
Threads == CPUs \cup Workers   \* 0 is main_thread, c > 0 the idle thread of c

ASSUME SchedAssumption ==
  /\ NCPU \in Nat \ {0}
  /\ Interval \in Nat \ {0}
  /\ Cap \in Nat \ {0, 1}
  /\ Rounds \in Nat
  /\ MaxTicks \in Nat
  /\ A \in Workers
  /\ Workers \cap CPUs = {}

VARIABLES tick,      \* g_tick
          need,      \* g_need_resched
          ring,      \* g_defer_ring
          w, r,      \* g_defer_w, g_defer_r
          overflow,  \* g_defer_overflow
          depth,     \* g_preempt_disable_depth, one counter for all CPUs
          on,        \* g_current: the thread whose code the CPU runs
          irq,       \* the interrupt flag of the CPU
          pc,        \* where a thread is
          ret,       \* where the thread's call of sched_yield returns to
          flags,     \* interrupt flag a switched-out thread pushed
          drained,   \* threads whose sched_process_deferred has drained # 0
          ovf,       \* local ovf of sched_process_deferred
          left,      \* rounds a worker has left
          owed,      \* history: CPUs whose quantum expired with no switch attempt since
          taken,     \* history: entries drained on the CPU
          reported   \* history: drops reported on the CPU

ringvars == <<tick, need, ring, w, r, overflow>>
ctlvars == <<on, irq, flags>>
locals == <<drained, ovf, left>>
history == <<owed, taken, reported>>
vars == <<ringvars, depth, ctlvars, pc, ret, locals, history>>

Idle(t) == t \in CPUs /\ t # 0

\* Where a thread continues when sched_checkpoint returns.
After(t) == IF Idle(t) THEN "loop" ELSE "run"

(***************************************************************************)
(* The deferred ring.                                                      *)
(***************************************************************************)
Succ(i) == (i + 1) % Cap
Empty(c) == r[c] = w[c]
RingLen(c) == IF w[c] >= r[c] THEN w[c] - r[c] ELSE w[c] + Cap - r[c]
Queue(c) == [i \in 1 .. RingLen(c) |-> ring[c][(r[c] + i - 1) % Cap]]

\* Wrong on purpose: a full ring is not recognised.
defer_push_tick_unchecked(c, t) ==
  /\ ring' = [ring EXCEPT ![c][w[c]] = t]
  /\ w' = [w EXCEPT ![c] = Succ(@)]
  /\ UNCHANGED overflow

defer_push_tick(c, t) ==
  IF Succ(w[c]) = r[c]
  THEN /\ overflow' = [overflow EXCEPT ![c] = @ + 1]
       /\ UNCHANGED <<ring, w>>
  ELSE /\ ring' = [ring EXCEPT ![c][w[c]] = t]
       /\ w' = [w EXCEPT ![c] = Succ(@)]
       /\ UNCHANGED overflow

(***************************************************************************)
(* The timer handler: vector 64, or IRQ 0 on the boot CPU.                 *)
(***************************************************************************)
sched_timer_tick(c) ==
  /\ irq[c]
  /\ tick[c] < MaxTicks
  /\ tick' = [tick EXCEPT ![c] = @ + 1]
  /\ IF (tick[c] + 1) % Interval = 0
     THEN /\ need' = [need EXCEPT ![c] = 1]
          /\ defer_push_tick(c, tick[c] + 1)
          /\ owed' = owed \cup {c}
     ELSE UNCHANGED <<need, ring, w, overflow, owed>>
  /\ UNCHANGED <<r, depth, ctlvars, pc, ret, locals, taken, reported>>

(***************************************************************************)
(* Thread programs.  main: yield, checkpoint, repeatedly, then hlt.  Idle  *)
(* of an application processor: checkpoint, yield, forever.  A worker:     *)
(* Rounds checkpoints, then zombie, which yields forever.                  *)
(***************************************************************************)
At(c, l) == pc[on[c]] = l
Goto(c, l) == pc' = [pc EXCEPT ![on[c]] = l]
CallYield(c, back) == /\ Goto(c, "yield")
                      /\ ret' = [ret EXCEPT ![on[c]] = back]

main_yield(c) ==
  /\ on[c] = 0 /\ At(c, "run")
  /\ CallYield(c, "loop")
  /\ UNCHANGED <<ringvars, depth, ctlvars, locals, history>>

main_halt(c) ==
  /\ on[c] = 0 /\ At(c, "run")
  /\ Goto(c, "halt")
  /\ UNCHANGED <<ringvars, depth, ctlvars, ret, locals, history>>

idle_yield(c) ==
  /\ Idle(on[c]) /\ At(c, "loop")
  /\ CallYield(c, "run")
  /\ UNCHANGED <<ringvars, depth, ctlvars, locals, history>>

sched_preempt_disable(c) ==
  /\ At(c, "enter")
  /\ depth' = depth + 1
  /\ Goto(c, "crit")
  /\ UNCHANGED <<ringvars, ctlvars, ret, locals, history>>

\* Wrong on purpose: the section ends without the decrement.
sched_preempt_enable_forgotten(c) ==
  /\ At(c, "crit")
  /\ Goto(c, "run")
  /\ UNCHANGED <<ringvars, depth, ctlvars, ret, locals, history>>

sched_preempt_enable(c) ==
  /\ At(c, "crit")
  /\ depth' = IF depth > 0 THEN depth - 1 ELSE depth
  /\ Goto(c, "run")
  /\ UNCHANGED <<ringvars, ctlvars, ret, locals, history>>

worker_end(c) ==
  /\ on[c] \in Workers /\ At(c, "run") /\ left[on[c]] = 0
  /\ Goto(c, "zombie")
  /\ UNCHANGED <<ringvars, depth, ctlvars, ret, locals, history>>

zombie_yield(c) ==
  /\ At(c, "zombie")
  /\ CallYield(c, "zombie")
  /\ UNCHANGED <<ringvars, depth, ctlvars, locals, history>>

(***************************************************************************)
(* sched_process_deferred: cli, drain, read and clear the overflow count,  *)
(* popf.  One step per access, so that what cli protects is visible.       *)
(***************************************************************************)
CallsCheckpoint(c) ==
  LET t == on[c] IN
  \/ t = 0 /\ pc[t] = "loop"
  \/ Idle(t) /\ pc[t] = "run"
  \/ t \in Workers /\ pc[t] = "run" /\ left[t] > 0

\* Wrong on purpose: the ring is drained with interrupts on.
drain_begin_no_cli(c) ==
  /\ CallsCheckpoint(c)
  /\ Goto(c, "drain")
  /\ flags' = [flags EXCEPT ![on[c]] = irq[c]]
  /\ drained' = drained \ {on[c]}
  /\ left' = IF on[c] \in Workers THEN [left EXCEPT ![on[c]] = @ - 1] ELSE left
  /\ UNCHANGED <<ringvars, depth, on, irq, ret, ovf, history>>

drain_begin(c) ==
  /\ CallsCheckpoint(c)
  /\ Goto(c, "drain")
  /\ flags' = [flags EXCEPT ![on[c]] = irq[c]]
  /\ irq' = [irq EXCEPT ![c] = FALSE]
  /\ drained' = drained \ {on[c]}
  /\ left' = IF on[c] \in Workers THEN [left EXCEPT ![on[c]] = @ - 1] ELSE left
  /\ UNCHANGED <<ringvars, depth, on, ret, ovf, history>>

drain_one(c) ==
  /\ At(c, "drain") /\ ~ Empty(c)
  /\ drained' = drained \cup {on[c]}
  /\ r' = [r EXCEPT ![c] = Succ(@)]
  /\ taken' = [taken EXCEPT ![c] = @ + 1]
  /\ UNCHANGED <<tick, need, ring, w, overflow, depth, ctlvars, pc, ret,
                 ovf, left, owed, reported>>

drain_read_overflow(c) ==
  /\ At(c, "drain") /\ Empty(c)
  /\ ovf' = [ovf EXCEPT ![on[c]] = overflow[c]]
  /\ Goto(c, "clear")
  /\ UNCHANGED <<ringvars, depth, ctlvars, ret, drained, left, history>>

drain_clear_overflow(c) ==
  /\ At(c, "clear")
  /\ overflow' = [overflow EXCEPT ![c] = 0]
  /\ reported' = [reported EXCEPT ![c] = @ + ovf[on[c]]]
  /\ irq' = [irq EXCEPT ![c] = flags[on[c]]]
  /\ Goto(c, "post")
  /\ UNCHANGED <<tick, need, ring, w, r, depth, on, flags, ret, locals,
                 owed, taken>>

(***************************************************************************)
(* The rest of sched_checkpoint.  schedule() reads the counter, and so     *)
(* does sched_yield() after it: three reads of depth on the first path.    *)
(***************************************************************************)
checkpoint_drained(c) ==
  /\ At(c, "post")
  /\ Goto(c, IF on[c] \in drained /\ depth = 0 THEN "schedule" ELSE "need")
  /\ UNCHANGED <<ringvars, depth, ctlvars, ret, locals, history>>

schedule_refused(c) ==
  /\ At(c, "schedule") /\ depth # 0
  /\ Goto(c, "clear1")
  /\ UNCHANGED <<ringvars, depth, ctlvars, ret, locals, history>>

\* Wrong on purpose: schedule() has its test of the counter the wrong way round.
schedule_inverted(c) ==
  /\ At(c, "schedule") /\ depth = 0
  /\ Goto(c, "clear1")
  /\ UNCHANGED <<ringvars, depth, ctlvars, ret, locals, history>>

schedule_granted(c) ==
  /\ At(c, "schedule") /\ depth = 0
  /\ CallYield(c, "clear1")
  /\ UNCHANGED <<ringvars, depth, ctlvars, locals, history>>

clear_resched_and_check(c) ==
  /\ At(c, "clear1")
  /\ need' = [need EXCEPT ![c] = 0]
  /\ Goto(c, "need")
  /\ UNCHANGED <<tick, ring, w, r, overflow, depth, ctlvars, ret, locals, history>>

checkpoint_return(c) ==
  /\ At(c, "need") /\ (need[c] = 0 \/ depth # 0)
  /\ Goto(c, After(on[c]))
  /\ UNCHANGED <<ringvars, depth, ctlvars, ret, locals, history>>

checkpoint_yield(c) ==
  /\ At(c, "need") /\ need[c] # 0 /\ depth = 0
  /\ CallYield(c, "clear2")
  /\ UNCHANGED <<ringvars, depth, ctlvars, locals, history>>

clear_resched_and_return(c) ==
  /\ At(c, "clear2")
  /\ need' = [need EXCEPT ![c] = 0]
  /\ Goto(c, After(on[c]))
  /\ UNCHANGED <<tick, ring, w, r, overflow, depth, ctlvars, ret, locals, history>>

(***************************************************************************)
(* sched_yield: the check of the counter, then the switch.  A thread that  *)
(* is switched out waits at its return point with its flags pushed; a      *)
(* worker never run before starts with interrupts off, because its         *)
(* trampoline has no popf to undo the cli of the thread that left.         *)
(***************************************************************************)
yield_refused(c) ==
  /\ At(c, "yield") /\ depth # 0
  /\ Goto(c, ret[on[c]])
  /\ UNCHANGED <<ringvars, depth, ctlvars, ret, locals, history>>

yield_granted(c) ==
  /\ At(c, "yield") /\ depth = 0
  /\ Goto(c, "switch")
  /\ UNCHANGED <<ringvars, depth, ctlvars, ret, locals, history>>

Dead(t) == t \in Workers /\ (pc[t] = "zombie" \/ ret[t] = "zombie")

\* Threads pick_next can claim for CPU c: runnable, on no CPU, right affinity.
Eligible(c) == { u \in Threads : /\ \A d \in CPUs : on[d] # u
                                 /\ u \in CPUs => u = c
                                 /\ ~ Dead(u) }

switch_none(c) ==
  /\ At(c, "switch") /\ Eligible(c) = {}
  /\ Goto(c, ret[on[c]])
  /\ owed' = owed \ {c}
  /\ UNCHANGED <<ringvars, depth, ctlvars, ret, locals, taken, reported>>

switch_to(c, u) ==
  /\ At(c, "switch") /\ u \in Eligible(c)
  /\ Goto(c, ret[on[c]])
  /\ on' = [on EXCEPT ![c] = u]
  /\ flags' = [flags EXCEPT ![on[c]] = irq[c]]
  /\ irq' = [irq EXCEPT ![c] = flags[u]]
  /\ owed' = owed \ {c}
  /\ UNCHANGED <<ringvars, depth, ret, locals, taken, reported>>

(***************************************************************************)
(* The state when thread_demo_run has spawned the workers and every        *)
(* application processor is in its loop in thread_ap_online.               *)
(***************************************************************************)
Init ==
  /\ tick = [c \in CPUs |-> 0]
  /\ need = [c \in CPUs |-> 0]
  /\ ring = [c \in CPUs |-> [i \in 0 .. Cap - 1 |-> 0]]
  /\ w = [c \in CPUs |-> 0]
  /\ r = [c \in CPUs |-> 0]
  /\ overflow = [c \in CPUs |-> 0]
  /\ depth = 0
  /\ on = [c \in CPUs |-> c]
  /\ irq = [c \in CPUs |-> TRUE]
  /\ pc = [t \in Threads |-> IF t = A THEN "enter" ELSE "run"]
  /\ ret = [t \in Threads |-> "run"]
  /\ flags = [t \in Threads |-> FALSE]
  /\ drained = {}
  /\ ovf = [t \in Threads |-> 0]
  /\ left = [t \in Workers |-> Rounds]
  /\ owed = {}
  /\ taken = [c \in CPUs |-> 0]
  /\ reported = [c \in CPUs |-> 0]

Checkpoint(c) ==
  \/ drain_begin(c) \/ drain_one(c)
  \/ drain_read_overflow(c) \/ drain_clear_overflow(c)
  \/ checkpoint_drained(c)
  \/ schedule_refused(c) \/ schedule_granted(c)
  \/ clear_resched_and_check(c)
  \/ checkpoint_return(c) \/ checkpoint_yield(c)
  \/ clear_resched_and_return(c)

Yield(c) ==
  \/ yield_refused(c) \/ yield_granted(c)
  \/ switch_none(c)
  \/ \E u \in Threads : switch_to(c, u)

Program(c) ==
  \/ main_yield(c) \/ main_halt(c) \/ idle_yield(c)
  \/ sched_preempt_disable(c) \/ sched_preempt_enable(c)
  \/ worker_end(c) \/ zombie_yield(c)

ThreadStep(c) == Program(c) \/ Checkpoint(c) \/ Yield(c)

Next == \E c \in CPUs : sched_timer_tick(c) \/ ThreadStep(c)

Spec == Init /\ [][Next]_vars

\* A CPU keeps executing instructions.
FairSpec == Spec /\ \A c \in CPUs : WF_vars(ThreadStep(c))
-----------------------------------------------------------------------------
Labels == {"run", "loop", "halt", "enter", "crit", "zombie", "drain", "clear",
           "post", "schedule", "clear1", "need", "clear2", "yield", "switch"}

TypeOK ==
  /\ tick \in [CPUs -> 0 .. MaxTicks]
  /\ need \in [CPUs -> {0, 1}]
  /\ ring \in [CPUs -> [0 .. Cap - 1 -> 0 .. MaxTicks]]
  /\ w \in [CPUs -> 0 .. Cap - 1]
  /\ r \in [CPUs -> 0 .. Cap - 1]
  /\ overflow \in [CPUs -> Nat]
  /\ depth \in Nat
  /\ on \in [CPUs -> Threads]
  /\ irq \in [CPUs -> BOOLEAN]
  /\ pc \in [Threads -> Labels]
  /\ ret \in [Threads -> {"run", "loop", "zombie", "clear1", "clear2"}]
  /\ flags \in [Threads -> BOOLEAN]
  /\ drained \subseteq Threads
  /\ ovf \in [Threads -> Nat]
  /\ left \in [Workers -> Nat]
  /\ owed \subseteq CPUs
  /\ taken \in [CPUs -> Nat]
  /\ reported \in [CPUs -> Nat]

\* Every expired quantum is accounted for exactly once: it is still in the
\* ring, was drained, is counted as overflow, or was reported as dropped.
\* sched_process_deferred reads and zeroes g_defer_overflow in two accesses.
QuantaAccounted ==
  \A c \in CPUs :
    tick[c] \div Interval =
      RingLen(c) + taken[c] + overflow[c] + reported[c]

\* The thread on c is past a drain that found work, or past the check of
\* need_resched, and has yet to reach the switch.
Pending(c) ==
  LET t == on[c] IN
  \/ pc[t] \in {"drain", "clear", "post"} /\ t \in drained
  \/ pc[t] \in {"schedule", "yield", "switch"}

\* A quantum that expired on c and was not yet followed by an attempt to
\* switch is remembered somewhere a later checkpoint looks.
NoLostQuantum ==
  \A c \in owed : need[c] = 1 \/ ~ Empty(c) \/ Pending(c)

\* An expired quantum on a CPU whose threads never halt leads to an attempt
\* to switch.
QuantumHonoured == \A c \in CPUs \ {0} : c \in owed ~> c \notin owed

\* The ring is a bounded queue with a drop count.
DQ == INSTANCE DeferQueue
        WITH CPUs <- CPUs, Depth <- Cap - 1, Stamps <- 1 .. MaxTicks,
             queue <- [c \in CPUs |-> Queue(c)], dropped <- overflow
ImplementsDeferQueue == DQ!QSpec
=============================================================================
