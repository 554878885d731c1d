----------------------------- MODULE StackPool ------------------------------
(***************************************************************************)
(* What kernel/heap.c is to kernel/thread.c, whose requests all have one   *)
(* size: a last-in first-out list of stacks, and stacks that were never    *)
(* handed out, taken in order when the list is empty.  A stack is given    *)
(* back by who has it, once.                                               *)
(***************************************************************************)
EXTENDS Naturals, Sequences

CONSTANT Size         \* stacks the arena has room for

VARIABLES free,       \* the stacks that were given back, the last one first
          bump,       \* stacks handed out for the first time
          held        \* stacks that callers have

PInit == free = << >> /\ bump = 0 /\ held = {}

Take == \/ /\ free # << >>
           /\ held' = held \cup {Head(free)}
           /\ free' = Tail(free)
           /\ UNCHANGED bump
        \/ /\ free = << >> /\ bump < Size
           /\ held' = held \cup {bump + 1}
           /\ bump' = bump + 1
           /\ UNCHANGED free

Give(s) == /\ free' = << s >> \o free
           /\ held' = held \ {s}
           /\ UNCHANGED bump

PNext == Take \/ \E s \in held : Give(s)

PSpec == PInit /\ [][PNext]_<<free, bump, held>>
=============================================================================
