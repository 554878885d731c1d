------------------------------ MODULE Threads -------------------------------
(***************************************************************************)
(* kernel/thread.c and cpu_switch of arch/i386/context.S: the circular run *)
(* queue, the claim of a thread through sched_token, the switch of kernel  *)
(* stacks, the reaping of a zombie by the thread that runs after it, and   *)
(* thread_spawn, on NCPU processors that share all of it.                  *)
(*                                                                         *)
(* Every CPU has its own program counter.  A step is one access to state   *)
(* another CPU may touch: what runs under g_thread_rq_lock and is read by  *)
(* nobody without the lock is a single step, the rest is taken apart.  The *)
(* timer only decides whether a checkpoint yields (module Sched), so       *)
(* sched_checkpoint may or may not call sched_yield, at two places.        *)
(* The kernel heap is a last-in first-out list of stacks (module Heap has  *)
(* the allocator itself).                                                  *)
(***************************************************************************)
EXTENDS Integers, Sequences, FiniteSets

CONSTANTS NCPU,        \* logical CPUs
          MaxThreads,  \* MAX_THREADS: slots of threads[]
          NStacks,     \* kernel stacks the heap has room for
          Spawns,      \* calls of thread_spawn in thread_demo_run
          MainRounds,  \* iterations of the loop of thread_demo_run
          Rounds,      \* checkpoints a worker makes
          Null         \* the NULL pointer

CPUs == 0 .. NCPU - 1
Main == 0
Slots == 1 .. MaxThreads
Nodes == {Main} \cup Slots
Stacks == 1 .. NStacks
Boot(c) == NStacks + 1 + c       \* the stack a CPU boots on, not from the heap
AnyCPU == -1                     \* AFF_ANY
Idle(c) == c                     \* early init gives slot c to the idle of CPU c

ASSUME ThreadsAssumption ==
  /\ NCPU \in Nat \ {0}
  /\ MaxThreads \in Nat /\ MaxThreads >= NCPU
  /\ NStacks \in Nat /\ NStacks >= NCPU
  /\ Spawns \in Nat /\ MainRounds \in Nat /\ Rounds \in Nat
  /\ Null \notin Nat

VARIABLES next,       \* thread.next
          state,      \* thread.state
          kstack,     \* thread.kstack
          fn,         \* thread.fn
          affinity,   \* thread.affinity_cpu
          token,      \* thread.sched_token
          esp,        \* thread.esp: the stack it points into, first run or not
          current,    \* g_current
          yieldFrom,  \* g_yield_from
          lock,       \* g_thread_rq_lock: holder, or Null
          free,       \* the heap's free list of stacks
          bump,       \* stacks the heap has handed out for the first time
          depth,      \* g_preempt_disable_depth
          pc,         \* what the CPU does next
          stack,      \* the stack the CPU is on
          old, new,   \* locals of sched_yield on the CPU
          z, stk,     \* locals of thread_reap_yield_from on the CPU
          slot,       \* local t of main's thread_spawn
          spawned,    \* how many calls of thread_spawn were made
          ret,        \* where the thread's sched_yield returns to
          left        \* rounds the thread has left

slots == <<next, state, kstack, fn, affinity, token, esp>>
heap == <<free, bump>>
cpu == <<old, new, z, stk>>
prog == <<slot, spawned, ret, left>>
vars == <<slots, current, yieldFrom, lock, heap, depth, pc, stack, cpu, prog>>

At(c, l) == pc[c] = l
Goto(c, l) == pc' = [pc EXCEPT ![c] = l]
Me(c) == current[c]

(***************************************************************************)
(* The run queue, a ring through next that main_thread is always on.       *)
(***************************************************************************)
\* Wrong on purpose: the token, or the affinity, is not looked at.
Runnable_ignores_token(c, t) == /\ state[t] = "RUNNABLE"
                                /\ affinity[t] \in {AnyCPU, c}
Runnable_ignores_affinity(c, t) == /\ state[t] = "RUNNABLE"
                                   /\ token[t] = -1

Runnable(c, t) == /\ state[t] = "RUNNABLE"
                  /\ affinity[t] \in {AnyCPU, c}
                  /\ token[t] = -1

\* The nodes that pick_next(cur) visits: walk[k] is the k-th after cur.  A walk
\* that meets a broken link ends there.
Walk(cur) == LET walk[k \in 1 .. MaxThreads + 1] ==
                   LET t == IF k = 1 THEN cur ELSE walk[k - 1]
                   IN IF t = Null THEN Null ELSE next[t]
             IN walk

\* pick_next(cur) on CPU c returns t: the first visited node that is cur again
\* or can be claimed.
pick_next(c, cur, t) ==
  LET walk == Walk(cur)
      stop(u) == u \in {cur, Null} \/ Runnable(c, u) IN
  \E k \in DOMAIN walk : /\ walk[k] = t /\ stop(t)
                         /\ \A j \in 1 .. k - 1 : ~ stop(walk[j])

\* Wrong on purpose: the predecessor still points at the thread.
unlink_thread_half(t) == next' = [next EXCEPT ![t] = Null]

\* Unlinking a thread that is not on the ring changes nothing.
unlink_thread(t) ==
  next' = IF \E p \in Nodes : next[p] = t
          THEN [p \in Nodes |-> CASE p = t -> Null
                                  [] p # t /\ next[p] = t -> next[t]
                                  [] OTHER -> next[p]]
          ELSE next

(***************************************************************************)
(* sched_yield up to the switch of stacks.                                 *)
(***************************************************************************)
CallYield(c, back) == /\ Goto(c, "yield")
                      /\ ret' = [ret EXCEPT ![Me(c)] = back]

yield_check(c) ==
  /\ At(c, "yield")
  /\ Goto(c, IF depth # 0 THEN ret[Me(c)] ELSE "pick")
  /\ UNCHANGED <<slots, current, yieldFrom, lock, heap, depth, stack, cpu, prog>>

\* cli; lock; pick_next found nobody else; unlock; popf
yield_alone(c) ==
  /\ At(c, "pick") /\ lock = Null
  /\ pick_next(c, Me(c), Me(c))
  /\ Goto(c, ret[Me(c)])
  /\ UNCHANGED <<slots, current, yieldFrom, lock, heap, depth, stack, cpu, prog>>

\* Wrong on purpose: the new thread is not claimed; the old one is not released.
claim_dropped(c, me, t) ==
  token' = [token EXCEPT ![me] = IF state[me] = "RUNNABLE" THEN -1 ELSE @]
claim_never_released(c, me, t) ==
  token' = [token EXCEPT ![t] = c]

claim(c, me, t) ==
  token' = [token EXCEPT ![t] = c,
                         ![me] = IF state[me] = "RUNNABLE" THEN -1 ELSE @]

\* cli; lock; claim; publish g_current and g_yield_from; unlock
yield_claim(c) ==
  LET me == Me(c) IN
  /\ At(c, "pick") /\ lock = Null
  /\ \E t \in Nodes \ {me} :
       /\ pick_next(c, me, t)
       /\ claim(c, me, t)
       /\ current' = [current EXCEPT ![c] = t]
       /\ new' = [new EXCEPT ![c] = t]
  /\ yieldFrom' = me
  /\ old' = [old EXCEPT ![c] = me]
  /\ Goto(c, "switch")
  /\ UNCHANGED <<next, state, kstack, fn, affinity, esp, lock, heap, depth, stack,
                 z, stk, prog>>

\* cpu_switch saves esp and loads the other.  A thread that ran before goes on
\* in its own sched_yield, after the call; a new one enters thread_trampoline.
cpu_switch(c) ==
  /\ At(c, "switch")
  /\ esp' = [esp EXCEPT ![old[c]] = [on |-> stack[c], fresh |-> FALSE]]
  /\ stack' = [stack EXCEPT ![c] = esp[new[c]].on]
  /\ Goto(c, IF esp[new[c]].fresh THEN "tramp" ELSE "reap")
  /\ UNCHANGED <<next, state, kstack, fn, affinity, token, current, yieldFrom, lock,
                 heap, depth, cpu, prog>>

(***************************************************************************)
(* thread_reap_yield_from, run by the thread that was switched to.         *)
(***************************************************************************)
reap_read(c) ==
  /\ At(c, "reap")
  /\ z' = [z EXCEPT ![c] = yieldFrom]
  /\ Goto(c, "reap_null")
  /\ UNCHANGED <<slots, current, yieldFrom, lock, heap, depth, stack, old, new,
                 stk, prog>>

reap_null(c) ==
  /\ At(c, "reap_null")
  /\ yieldFrom' = Null
  /\ Goto(c, IF z[c] \in {Null, Main} THEN ret[Me(c)] ELSE "reap_check")
  /\ UNCHANGED <<slots, current, lock, heap, depth, stack, cpu, prog>>

reap_check(c) ==
  /\ At(c, "reap_check")
  /\ IF state[z[c]] = "ZOMBIE" /\ kstack[z[c]] # Null
     THEN /\ stk' = [stk EXCEPT ![c] = kstack[z[c]]]
          /\ Goto(c, "reap_lock")
     ELSE /\ Goto(c, ret[Me(c)])
          /\ UNCHANGED stk
  /\ UNCHANGED <<slots, current, yieldFrom, lock, heap, depth, stack, old, new,
                 z, prog>>

\* lock; unlink_thread; state = UNUSED, which thread_alloc_slot may see at once
reap_unlink(c) ==
  /\ At(c, "reap_lock") /\ lock = Null
  /\ lock' = c
  /\ unlink_thread(z[c])
  /\ state' = [state EXCEPT ![z[c]] = "UNUSED"]
  /\ Goto(c, "reap_stack")
  /\ UNCHANGED <<kstack, fn, affinity, token, esp, current, yieldFrom, heap, depth,
                 stack, cpu, prog>>

\* Wrong on purpose: the slot keeps the stack that is freed next.
reap_unlock_keeps_stack(c) ==
  /\ At(c, "reap_stack")
  /\ lock' = Null
  /\ Goto(c, "reap_free")
  /\ UNCHANGED <<slots, current, yieldFrom, heap, depth, stack, cpu, prog>>

reap_unlock(c) ==
  /\ At(c, "reap_stack")
  /\ kstack' = [kstack EXCEPT ![z[c]] = Null]
  /\ lock' = Null
  /\ Goto(c, "reap_free")
  /\ UNCHANGED <<next, state, fn, affinity, token, esp, current, yieldFrom, heap,
                 depth, stack, cpu, prog>>

reap_kfree(c) ==
  /\ At(c, "reap_free")
  /\ free' = << stk[c] >> \o free
  /\ stk' = [stk EXCEPT ![c] = Null]
  /\ Goto(c, ret[Me(c)])
  /\ UNCHANGED <<slots, current, yieldFrom, lock, bump, depth, stack, old, new,
                 z, prog>>

(***************************************************************************)
(* thread_spawn, called by main only.                                      *)
(***************************************************************************)
Unused == { t \in Slots : state[t] = "UNUSED" }

spawn_alloc_slot ==
  /\ At(0, "spawn") /\ spawned < Spawns
  /\ spawned' = spawned + 1
  /\ IF Unused = {}
     THEN UNCHANGED <<slot, pc>>
     ELSE /\ slot' = CHOOSE t \in Unused : \A u \in Unused : t <= u
          /\ Goto(0, "spawn_kmalloc")
  /\ UNCHANGED <<slots, current, yieldFrom, lock, heap, depth, stack, cpu, ret, left>>

spawn_kmalloc ==
  /\ At(0, "spawn_kmalloc")
  /\ \/ /\ free # << >>
        /\ kstack' = [kstack EXCEPT ![slot] = Head(free)]
        /\ free' = Tail(free)
        /\ Goto(0, "spawn_fields")
        /\ UNCHANGED bump
     \/ /\ free = << >> /\ bump < NStacks
        /\ kstack' = [kstack EXCEPT ![slot] = bump + 1]
        /\ bump' = bump + 1
        /\ Goto(0, "spawn_fields")
        /\ UNCHANGED free
     \/ /\ free = << >> /\ bump = NStacks
        /\ kstack' = [kstack EXCEPT ![slot] = Null]
        /\ Goto(0, "spawn")
        /\ UNCHANGED heap
  /\ UNCHANGED <<next, state, fn, affinity, token, esp, current, yieldFrom, lock,
                 depth, stack, cpu, prog>>

spawn_fields ==
  /\ At(0, "spawn_fields")
  /\ state' = [state EXCEPT ![slot] = "RUNNABLE"]
  /\ fn' = [fn EXCEPT ![slot] = IF spawned = 1 THEN "worker_a" ELSE "worker_b"]
  /\ affinity' = [affinity EXCEPT ![slot] = AnyCPU]
  /\ token' = [token EXCEPT ![slot] = -1]
  /\ esp' = [esp EXCEPT ![slot] = [on |-> kstack[slot], fresh |-> TRUE]]
  /\ left' = [left EXCEPT ![slot] = Rounds]
  /\ Goto(0, "spawn_enqueue")
  /\ UNCHANGED <<next, kstack, current, yieldFrom, lock, heap, depth, stack, cpu,
                 slot, spawned, ret>>

\* Wrong on purpose: the two stores of enqueue_thread in the other order.
enqueue_thread_swapped(t) == next' = [next EXCEPT ![Main] = t, ![t] = t]

\* behind main, in front of everyone else
enqueue_thread(t) == next' = [next EXCEPT ![t] = next[Main], ![Main] = t]

spawn_enqueue ==
  /\ At(0, "spawn_enqueue") /\ lock = Null
  /\ enqueue_thread(slot)
  /\ Goto(0, "spawn")
  /\ UNCHANGED <<state, kstack, fn, affinity, token, esp, current, yieldFrom, lock,
                 heap, depth, stack, cpu, prog>>

(***************************************************************************)
(* The programs of the threads.                                            *)
(***************************************************************************)
\* Wrong on purpose: main relies on its checkpoints alone.
main_loop_without_yield ==
  /\ At(0, "spawn") /\ spawned = Spawns /\ Me(0) = Main
  /\ IF left[Main] = 0
     THEN Goto(0, "halt") /\ UNCHANGED left
     ELSE /\ Goto(0, "checkpoint")
          /\ left' = [left EXCEPT ![Main] = @ - 1]
  /\ UNCHANGED <<slots, current, yieldFrom, lock, heap, depth, stack, cpu, slot,
                 spawned, ret>>

\* for (i = 0; i < 48; ++i) { sched_yield(); sched_checkpoint(); }
main_loop ==
  /\ At(0, "spawn") /\ spawned = Spawns /\ Me(0) = Main
  /\ IF left[Main] = 0
     THEN Goto(0, "halt") /\ UNCHANGED <<ret, left>>
     ELSE /\ CallYield(0, "checkpoint")
          /\ left' = [left EXCEPT ![Main] = @ - 1]
  /\ UNCHANGED <<slots, current, yieldFrom, lock, heap, depth, stack, cpu, slot,
                 spawned>>

\* thread_ap_online: the CPU adopts its idle thread, on the stack it booted on
thread_ap_online(c) ==
  /\ At(c, "offline")
  /\ current' = [current EXCEPT ![c] = Idle(c)]
  /\ token' = [token EXCEPT ![Idle(c)] = c]
  /\ Goto(c, "checkpoint")
  /\ UNCHANGED <<next, state, kstack, fn, affinity, esp, yieldFrom, lock, heap, depth,
                 stack, cpu, prog>>

\* thread_trampoline calls fn; worker_a opens with a critical section.
thread_trampoline(c) ==
  /\ At(c, "tramp")
  /\ Goto(c, IF fn[Me(c)] = "worker_a" THEN "disable" ELSE "work")
  /\ UNCHANGED <<slots, current, yieldFrom, lock, heap, depth, stack, cpu, prog>>

worker_critical_begin(c) ==
  /\ At(c, "disable")
  /\ depth' = depth + 1
  /\ Goto(c, "enable")
  /\ UNCHANGED <<slots, current, yieldFrom, lock, heap, stack, cpu, prog>>

worker_critical_end(c) ==
  /\ At(c, "enable")
  /\ depth' = IF depth > 0 THEN depth - 1 ELSE depth
  /\ Goto(c, "work")
  /\ UNCHANGED <<slots, current, yieldFrom, lock, heap, stack, cpu, prog>>

\* Wrong on purpose: the loop of the worker has no bound.
worker_round_unbounded(c) ==
  /\ At(c, "work")
  /\ left' = [left EXCEPT ![Me(c)] = @ - 1]
  /\ Goto(c, "checkpoint")
  /\ UNCHANGED <<slots, current, yieldFrom, lock, heap, depth, stack, cpu, slot,
                 spawned, ret>>

worker_round(c) ==
  /\ At(c, "work") /\ left[Me(c)] > 0
  /\ left' = [left EXCEPT ![Me(c)] = @ - 1]
  /\ Goto(c, "checkpoint")
  /\ UNCHANGED <<slots, current, yieldFrom, lock, heap, depth, stack, cpu, slot,
                 spawned, ret>>

\* Wrong on purpose: a thread frees its own stack when it ends.
worker_exit_frees_stack(c) ==
  /\ At(c, "work") /\ left[Me(c)] = 0 /\ lock = Null
  /\ state' = [state EXCEPT ![Me(c)] = "ZOMBIE"]
  /\ free' = << kstack[Me(c)] >> \o free
  /\ Goto(c, "zombie")
  /\ UNCHANGED <<next, kstack, fn, affinity, token, esp, current, yieldFrom, lock,
                 bump, depth, stack, cpu, prog>>

\* lock; state = ZOMBIE; unlock
worker_exit(c) ==
  /\ At(c, "work") /\ left[Me(c)] = 0 /\ lock = Null
  /\ state' = [state EXCEPT ![Me(c)] = "ZOMBIE"]
  /\ Goto(c, "zombie")
  /\ UNCHANGED <<next, kstack, fn, affinity, token, esp, current, yieldFrom, lock,
                 heap, depth, stack, cpu, prog>>

zombie_loop(c) ==
  /\ At(c, "zombie")
  /\ CallYield(c, "zombie")
  /\ UNCHANGED <<slots, current, yieldFrom, lock, heap, depth, stack, cpu, slot,
                 spawned, left>>

\* Where a thread goes on after sched_checkpoint; the loop of an application
\* processor has a sched_yield of its own after it.
After(t) == CASE t = Main -> "spawn"
              [] fn[t] = "ap_idle_fn" -> "ap_yield"
              [] OTHER -> "work"

\* schedule() when the ring was drained, sched_yield() when need_resched is set
sched_checkpoint(c) ==
  \/ /\ At(c, "checkpoint")
     /\ \/ CallYield(c, "checkpoint2")
        \/ Goto(c, "checkpoint2") /\ UNCHANGED ret
     /\ UNCHANGED <<slots, current, yieldFrom, lock, heap, depth, stack, cpu,
                    slot, spawned, left>>
  \/ /\ At(c, "checkpoint2")
     /\ \/ CallYield(c, After(Me(c)))
        \/ Goto(c, After(Me(c))) /\ UNCHANGED ret
     /\ UNCHANGED <<slots, current, yieldFrom, lock, heap, depth, stack, cpu,
                    slot, spawned, left>>

ap_loop_yield(c) ==
  /\ At(c, "ap_yield")
  /\ CallYield(c, "checkpoint")
  /\ UNCHANGED <<slots, current, yieldFrom, lock, heap, depth, stack, cpu, slot,
                 spawned, left>>

(***************************************************************************)
(* The state after thread_subsystem_early_init: main on CPU 0, an idle     *)
(* thread with a kernel stack for every other CPU, queued but not claimed. *)
(***************************************************************************)
IdleSlots == { Idle(c) : c \in CPUs \ {0} }

Init ==
  /\ next = [t \in Nodes |-> CASE t = Main -> NCPU - 1
                               [] t \in IdleSlots -> t - 1
                               [] OTHER -> Null]
  /\ state = [t \in Nodes |-> IF t = Main \/ t \in IdleSlots THEN "RUNNABLE"
                                                              ELSE "UNUSED"]
  /\ kstack = [t \in Nodes |-> IF t \in IdleSlots THEN t ELSE Null]
  /\ fn = [t \in Nodes |-> IF t \in IdleSlots THEN "ap_idle_fn" ELSE "none"]
  /\ affinity = [t \in Nodes |-> IF t = Main \/ t \in IdleSlots THEN t ELSE AnyCPU]
  /\ token = [t \in Nodes |-> IF t = Main THEN 0 ELSE -1]
  /\ esp = [t \in Nodes |-> IF t \in IdleSlots THEN [on |-> t, fresh |-> TRUE]
                                               ELSE [on |-> Null, fresh |-> FALSE]]
  /\ current = [c \in CPUs |-> IF c = 0 THEN Main ELSE Null]
  /\ yieldFrom = Null
  /\ lock = Null
  /\ free = << >>
  /\ bump = NCPU - 1
  /\ depth = 0
  /\ pc = [c \in CPUs |-> IF c = 0 THEN "spawn" ELSE "offline"]
  /\ stack = [c \in CPUs |-> Boot(c)]
  /\ old = [c \in CPUs |-> Null]
  /\ new = [c \in CPUs |-> Null]
  /\ z = [c \in CPUs |-> Null]
  /\ stk = [c \in CPUs |-> Null]
  /\ slot = Null
  /\ spawned = 0
  /\ ret = [t \in Nodes |-> "none"]
  /\ left = [t \in Nodes |-> IF t = Main THEN MainRounds ELSE 0]

(***************************************************************************)
(* The steps of a CPU.  Once two CPUs run on one stack, or one runs on a   *)
(* freed stack or as a thread that is not on the ring, what the program    *)
(* does is undefined and the model stops.                                  *)
(***************************************************************************)
FreeStacks == { free[i] : i \in DOMAIN free }
OneCPUPerStack == \A c, d \in CPUs : c # d => stack[c] # stack[d]
NoCPUOnFreeStack == \A c \in CPUs : stack[c] \notin FreeStacks \cup {Null}
OnRing(t) == next[t] # Null
Defined == /\ OneCPUPerStack
           /\ NoCPUOnFreeStack
           /\ \A c \in CPUs : current[c] # Null => OnRing(current[c])

sched_yield(c) == \/ yield_check(c) \/ yield_alone(c)
                  \/ yield_claim(c) \/ cpu_switch(c)
thread_reap_yield_from(c) ==
  \/ reap_read(c) \/ reap_null(c) \/ reap_check(c)
  \/ reap_unlink(c) \/ reap_unlock(c) \/ reap_kfree(c)
thread_demo_run == \/ spawn_alloc_slot \/ spawn_kmalloc
                   \/ spawn_fields \/ spawn_enqueue
                   \/ main_loop
thread_fn(c) ==
  \/ thread_trampoline(c)
  \/ worker_critical_begin(c) \/ worker_critical_end(c)
  \/ worker_round(c) \/ worker_exit(c) \/ zombie_loop(c)

Step(c) == \/ sched_yield(c)
           \/ thread_reap_yield_from(c)
           \/ thread_fn(c)
           \/ sched_checkpoint(c)
           \/ thread_ap_online(c) \/ ap_loop_yield(c)
           \/ c = 0 /\ thread_demo_run

Next == Defined /\ \E c \in CPUs : Step(c)

Spec == Init /\ [][Next]_vars

\* The same without the guard, which one processor does not need.
OpenSpec == Init /\ [][\E c \in CPUs : Step(c)]_vars

\* A CPU keeps executing instructions.
FairSpec == Spec /\ \A c \in CPUs : WF_vars(Defined /\ Step(c))
-----------------------------------------------------------------------------
Labels == {"offline", "spawn", "spawn_kmalloc", "spawn_fields", "spawn_enqueue",
           "halt", "checkpoint", "checkpoint2", "yield", "pick", "switch", "reap",
           "reap_null", "reap_check", "reap_lock", "reap_stack", "reap_free",
           "tramp", "disable", "enable", "work", "zombie", "ap_yield"}

AllStacks == Stacks \cup { Boot(c) : c \in CPUs }

TypeOK ==
  /\ next \in [Nodes -> Nodes \cup {Null}]
  /\ state \in [Nodes -> {"UNUSED", "RUNNABLE", "ZOMBIE"}]
  /\ kstack \in [Nodes -> Stacks \cup {Null}]
  /\ fn \in [Nodes -> {"none", "ap_idle_fn", "worker_a", "worker_b"}]
  /\ affinity \in [Nodes -> {AnyCPU} \cup CPUs]
  /\ token \in [Nodes -> {-1} \cup CPUs]
  /\ esp \in [Nodes -> [on : AllStacks \cup {Null}, fresh : BOOLEAN]]
  /\ current \in [CPUs -> Nodes \cup {Null}]
  /\ yieldFrom \in Nodes \cup {Null}
  /\ lock \in CPUs \cup {Null}
  /\ free \in Seq(Stacks)
  /\ bump \in 0 .. NStacks
  /\ depth \in Nat
  /\ pc \in [CPUs -> Labels]
  /\ stack \in [CPUs -> AllStacks \cup {Null}]
  /\ old \in [CPUs -> Nodes \cup {Null}]
  /\ new \in [CPUs -> Nodes \cup {Null}]
  /\ z \in [CPUs -> Nodes \cup {Null}]
  /\ stk \in [CPUs -> Stacks \cup {Null}]
  /\ slot \in Slots \cup {Null}
  /\ spawned \in 0 .. Spawns
  /\ ret \in [Nodes -> Labels \cup {"none"}]
  /\ left \in [Nodes -> Nat]

\* No CPU runs on a stack that another CPU runs on or that was freed.
StackSafe == OneCPUPerStack /\ NoCPUOnFreeStack

\* A CPU's current thread carries the CPU's token, so no two CPUs have the
\* same current thread.
ClaimExclusive == \A c \in CPUs : current[c] # Null => token[current[c]] = c

\* A thread runs only where its affinity allows: main on CPU 0, the idle
\* thread of a CPU on that CPU.
AffinityRespected ==
  \A c \in CPUs : current[c] # Null => affinity[current[c]] \in {AnyCPU, c}

\* The ring closes at main and holds exactly the threads in use, but for the
\* one that thread_spawn is about to enqueue.
RingIntact ==
  LET walk == Walk(Main)
      seen == { walk[k] : k \in DOMAIN walk } IN
  /\ Main \in seen
  /\ \A t \in Slots : t \in seen <=> /\ state[t] # "UNUSED"
                                     /\ ~ (At(0, "spawn_enqueue") /\ t = slot)

\* Whoever yields finds another thread as long as one on the ring can be claimed,
\* wherever in the ring the two are, and itself otherwise.
NobodyMissed ==
  \A c \in CPUs : Defined /\ At(c, "pick") =>
    IF \E t \in Nodes \ {Me(c)} : OnRing(t) /\ Runnable(c, t)
    THEN \E t \in Nodes \ {Me(c)} : pick_next(c, Me(c), t)
    ELSE pick_next(c, Me(c), Me(c))

\* Every stack the heap handed out is in one place: with a slot, with a
\* thread that is about to free it, or on the free list.
StacksAccounted ==
  \A s \in 1 .. bump :
    Cardinality({ t \in Slots : kstack[t] = s })
    + Cardinality({ c \in CPUs : At(c, "reap_free") /\ stk[c] = s })
    + Cardinality({ i \in DOMAIN free : free[i] = s }) = 1

\* When main goes back to its idle loop, the workers have run to their end.
WorkersDone == At(0, "halt") => \A t \in Slots : fn[t] \in {"worker_a", "worker_b"}
                                                  => state[t] # "RUNNABLE"

\* A zombie is on its CPU, or is in g_yield_from or with a thread that reaps.
NoForgottenZombie ==
  \A t \in Slots : state[t] = "ZOMBIE" =>
    \/ t = yieldFrom
    \/ \E c \in CPUs : \/ current[c] = t
                       \/ z[c] = t /\ pc[c] \in {"reap_null", "reap_check", "reap_lock"}

\* The stacks that slots have, and those on their way to kfree.
Owned == { s \in Stacks : \/ \E t \in Slots : kstack[t] = s
                          \/ \E c \in CPUs : At(c, "reap_free") /\ stk[c] = s }

\* thread.c takes stacks from the heap and gives back what it has, each once, as
\* the heap expects of its callers.
SP == INSTANCE StackPool WITH Size <- NStacks, held <- Owned
ImplementsStackPool == SP!PSpec
=============================================================================
