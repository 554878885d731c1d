------------------------------- MODULE Int80 --------------------------------
(***************************************************************************)
(* The way of a system call from the registers of the program to           *)
(* kernel/syscall.c and back: gdt_init, idt_init and tss_set_esp0 open it, *)
(* verve_enter_user starts the program, the entry code of                  *)
(* arch/i386/irq_asm.S leaves the registers on the stack of the TSS, and   *)
(* syscall_invoke finds them there as the fields of a verve_exc_frame.     *)
(*                                                                         *)
(* A frame is its eight words from the lowest address up; stack pointers   *)
(* count words.  Above the frame lie seven more: vector, error code, and   *)
(* what the processor pushed.  The data segment registers are left out.    *)
(* What a call does is in module UserSpace; here it is an answer.          *)
(***************************************************************************)
EXTENDS Naturals

CONSTANTS Values,       \* what a register of the program may hold
          NullStack,    \* g_null_kstack + 512
          Ring0Stack,   \* g_user_ring0_stack + 512
          Answers       \* what a call may return

Registers == {"eax", "ecx", "edx", "ebx", "ebp", "esi", "edi"}

VARIABLES pc,      \* "gdt", "idt", "bringup", "enter", "user", "dispatch", "iret"
          esp0,    \* g_tss.esp0, 0 before the TSS is loaded
          gates,   \* vectors whose gate ring 3 may use
          regs,    \* registers of the program
          asked,   \* history: those it had at int 0x80
          frame,   \* the words on the stack
          called   \* history: the number and the arguments that were used

vars == <<pc, esp0, gates, regs, asked, frame, called>>

\* pusha pushes eax first: it has the highest address.
Pushed == << "edi", "esi", "ebp", "esp", "ebx", "edx", "ecx", "eax" >>

\* Fields of verve_exc_frame, the first at the lowest address.
Fields == << "eax", "ecx", "edx", "ebx", "esp_old", "ebp", "esi", "edi" >>

Slot(f) == CHOOSE i \in DOMAIN Fields : Fields[i] = f
Field(f) == frame[Slot(f)]

gdt_init ==
  /\ pc = "gdt" /\ pc' = "idt"
  /\ esp0' = NullStack
  /\ UNCHANGED <<gates, regs, asked, frame, called>>

\* Every gate is the kernel's own but that of int 0x80.
idt_init ==
  /\ pc = "idt" /\ pc' = "bringup"
  /\ gates' = {128}
  /\ UNCHANGED <<esp0, regs, asked, frame, called>>

tss_set_esp0 ==
  /\ pc = "bringup" /\ pc' = "enter"
  /\ esp0' = Ring0Stack
  /\ UNCHANGED <<gates, regs, asked, frame, called>>

verve_enter_user ==
  /\ pc = "enter" /\ pc' = "user"
  /\ UNCHANGED <<esp0, gates, regs, asked, frame, called>>

\* The program loads its registers and executes int 0x80; the processor takes
\* the stack of the TSS, irq_128 pushes 0 and 128, irq_common executes pusha.
int_0x80 ==
  /\ pc = "user" /\ 128 \in gates
  /\ regs' \in [Registers -> Values]
  /\ asked' = regs'
  /\ frame' = [i \in DOMAIN Pushed |-> IF Pushed[i] = "esp" THEN esp0 - 7
                                                            ELSE regs'[Pushed[i]]]
  /\ pc' = "dispatch"
  /\ UNCHANGED <<esp0, gates, called>>

\* n = f->eax; the call with f->ebx, f->ecx, f->edx; f->eax = out
syscall_invoke ==
  /\ pc = "dispatch"
  /\ called' = << Field("eax"), Field("ebx"), Field("ecx"), Field("edx") >>
  /\ \E out \in Answers : frame' = [frame EXCEPT ![Slot("eax")] = out]
  /\ pc' = "iret"
  /\ UNCHANGED <<esp0, gates, regs, asked>>

\* popa passes over the word of esp.
irq_return ==
  /\ pc = "iret"
  /\ regs' = [reg \in Registers |-> frame[CHOOSE i \in DOMAIN Pushed : Pushed[i] = reg]]
  /\ pc' = "user"
  /\ UNCHANGED <<esp0, gates, asked, frame, called>>

Init ==
  /\ pc = "gdt"
  /\ esp0 = 0 /\ gates = {}
  /\ regs \in [Registers -> {0}]
  /\ asked = regs
  /\ frame = [i \in DOMAIN Pushed |-> 0]
  /\ called = << >>

Next == \/ gdt_init \/ idt_init \/ tss_set_esp0 \/ verve_enter_user
        \/ int_0x80 \/ syscall_invoke \/ irq_return

Spec == Init /\ [][Next]_vars
-----------------------------------------------------------------------------
\* README.md, 13.4: the number of the call is in EAX, its arguments in EBX, ECX
\* and EDX.  The call that is made is the one the program so asked for.
CallAsAsked ==
  pc = "iret" => called = << asked["eax"], asked["ebx"], asked["ecx"], asked["edx"] >>
=============================================================================
