----------------------------- MODULE DeferQueue -----------------------------
(***************************************************************************)
(* What the deferred ring of kernel/sched.c promises, without the ring:    *)
(* every CPU has a first-in first-out queue of the ticks at which a        *)
(* quantum expired.  The timer posts at the tail; a post that finds Depth  *)
(* entries is not queued but counted.  Thread context takes from the head, *)
(* and now and then reports, and forgets, the number of posts dropped.     *)
(***************************************************************************)
EXTENDS Naturals, Sequences

CONSTANTS CPUs,     \* the logical CPUs
          Depth,    \* entries a queue can hold
          Stamps    \* tick values that can be posted

VARIABLES queue,    \* queue[c]: posted ticks not yet taken
          dropped   \* dropped[c]: posts refused since the last report

qvars == <<queue, dropped>>

QInit == /\ queue = [c \in CPUs |-> << >>]
         /\ dropped = [c \in CPUs |-> 0]

Post(c, s) == /\ Len(queue[c]) < Depth
              /\ queue' = [queue EXCEPT ![c] = Append(@, s)]
              /\ UNCHANGED dropped

Drop(c) == /\ Len(queue[c]) = Depth
           /\ dropped' = [dropped EXCEPT ![c] = @ + 1]
           /\ UNCHANGED queue

Take(c) == /\ queue[c] # << >>
           /\ queue' = [queue EXCEPT ![c] = Tail(@)]
           /\ UNCHANGED dropped

Report(c) == /\ queue[c] = << >>
             /\ dropped' = [dropped EXCEPT ![c] = 0]
             /\ UNCHANGED queue

QNext == \E c \in CPUs : \/ \E s \in Stamps : Post(c, s)
                         \/ Drop(c)
                         \/ Take(c)
                         \/ Report(c)

QSpec == QInit /\ [][QNext]_qvars
=============================================================================
