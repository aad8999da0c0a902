--------------------------- MODULE ContextSwitch ---------------------------
(***************************************************************************)
(* What an interrupt and a system call do to the registers of processes:   *)
(* boot/IRV/el0_a64.S and el1_spx.S save them in a pcb, boot/proc.S loads  *)
(* them from one.  The words are numbered as proc_regs_t has them: 0 to 30 *)
(* for x0 to x30, then the stack pointer, SPSR and ELR.                    *)
(*                                                                         *)
(* boot.S lets processes use the vector registers too; nothing saves those.*)
(*                                                                         *)
(* The handlers run with interrupts masked, so each is one step.  Which    *)
(* process is next is module Scheduler's: here any of them may be.         *)
(***************************************************************************)
EXTENDS Integers

CONSTANTS Procs,   \* ids of processes
          Levels,  \* the levels kernel_main may run them all at, 0 or 1
          Stamps,  \* tell apart what a process loads at different times
          StackFrames  \* calls of irq_handler_main the kernel's stack has room for

ASSUME ContextAssumption ==
    /\ 0 \notin Procs
    /\ Levels \subseteq {0, 1} /\ {0, 1} \subseteq Stamps
    /\ StackFrames \in Nat

VARIABLES level,         \* the exception level of the processes
          x,             \* the general registers of the processor
          v,             \* who computed what its vector registers hold
          regs,          \* id -> regs of its pcb
          running,       \* current_proc, the process that runs
          frames,        \* of irq_handler_main on the kernel's stack
          interrupted    \* history: id -> the registers when it was interrupted

contextVars == <<level, x, v, regs, running, frames, interrupted>>

Words == 0 .. 33
sp == 31
spsr == 32
elr == 33

(* What a register holds: a value p computed in it, or one of the kernel.  *)
Own(p, r, n) == [of |-> p, reg |-> r, stamp |-> n]
Zero == Own(0, 0, 0)
Result == Own(0, 0, 1)
Values == [of : Procs \cup {0}, reg : Words, stamp : Stamps]

(* pm_create clears x0 to x30 and sets the other three.                    *)
NewRegs(p) == [i \in Words |-> IF i < sp THEN Zero ELSE Own(p, i, 0)]

(* proc.S: x1 is the last temporary, for x0, and keeps it.                 *)
_proc(pcb) == [r \in Words |-> IF r = 1 THEN pcb[0] ELSE pcb[r]]

ContextInit ==
    /\ level \in Levels
    /\ running \in Procs
    /\ regs = [p \in Procs |-> NewRegs(p)]
    /\ frames = 0
    /\ x = _proc(regs[running])
    /\ v = 0
    /\ interrupted = [p \in Procs |-> _proc(NewRegs(p))]
-----------------------------------------------------------------------------
(* The process loads its registers, and goes on.                           *)
Compute(n) ==
    /\ x' = [r \in Words |-> Own(running, r, n)]
    /\ v' = running
    /\ UNCHANGED <<level, regs, running, frames, interrupted>>

(* Mutant of el0_a64_irq: the stack pointer is not saved.                  *)
el0_a64_irq_NoSp(pcb) ==
    [i \in Words |-> CASE i = 9 -> x[10]
                       [] i \in 12 .. 29 -> x[i + 1]
                       [] i \in {10, 11, 30, sp} -> pcb[i]
                       [] OTHER -> x[i]]

(* The pcb an interrupt from EL0 leaves.  x9, the pointer to it, is not    *)
(* saved, x10 takes its slot; x11 and x12 are not, and from x13 on each    *)
(* register goes to the slot below its own.                                *)
el0_a64_irq(pcb) ==
    [i \in Words |-> CASE i = 9 -> x[10]
                       [] i \in 12 .. 29 -> x[i + 1]
                       [] i \in {10, 11, 30} -> pcb[i]
                       [] OTHER -> x[i]]

(* The one from EL1 pushes x9 and x10 before it uses them.                 *)
el1_spx_irq(pcb) == x

Saved(pcb) == IF level = 0 THEN el0_a64_irq(pcb) ELSE el1_spx_irq(pcb)

(* Mutant of switch_to: current_proc, which tells the next interrupt where *)
(* to save, stays.                                                         *)
switch_to_Stays(next) == running' = running

(* v0 to v31, FPCR and FPSR are neither saved nor loaded nor cleared; the  *)
(* C code of a handler may use them, as the compiler likes.                *)
LeavesVectors == v' \in {v, 0}

(* irq_handler_main: the timer makes another process current, a device     *)
(* returns to the one it interrupted; both end in _proc.                   *)
switch_to(next) == running' = next

(* It never returns: at EL0, where each interrupt finds the stack as the   *)
(* last one has left it, its frame stays.  _proc loads the stack of a      *)
(* process at EL1 from its pcb.                                            *)
Interrupt(next) ==
    LET saved == [regs EXCEPT ![running] = Saved(@)]
    IN  /\ regs' = saved
        /\ x' = _proc(saved[next])
        /\ interrupted' = [interrupted EXCEPT ![running] = x]
        /\ LeavesVectors
        /\ switch_to(next)
        /\ frames' = IF level = 0 THEN frames + 1 ELSE frames
        /\ UNCHANGED level

(* A system call: all is saved, x0 is replaced by the result, and all is   *)
(* loaded, x9 and x10 from the stack.  At EL1 the one call there is stops  *)
(* the kernel.                                                             *)
el0_a64_sync ==
    /\ level = 0
    /\ regs' = [regs EXCEPT ![running] = [x EXCEPT ![0] = Result]]
    /\ x' = [x EXCEPT ![0] = Result]
    /\ LeavesVectors
    /\ UNCHANGED <<level, running, frames, interrupted>>

(* The model does not go beyond the end of the kernel's stack.             *)
Overrun == frames > StackFrames

ContextNext ==
    \/ /\ ~Overrun
       /\ \/ \E n \in Stamps : Compute(n)
          \/ \E next \in Procs : Interrupt(next)
          \/ el0_a64_sync
    \/ Overrun /\ UNCHANGED contextVars

ContextSpec == ContextInit /\ [][ContextNext]_contextVars
-----------------------------------------------------------------------------
(* Types of the variables.                                                 *)
ContextTypeOK ==
    /\ level \in Levels
    /\ running \in Procs
    /\ frames \in 0 .. StackFrames + 1
    /\ x \in [Words -> Values]
    /\ v \in Procs \cup {0}
    /\ regs \in [Procs -> [Words -> Values]]
    /\ interrupted \in [Procs -> [Words -> Values]]

(* However interrupts and system calls follow each other, and although     *)
(* some slots of a pcb are left from earlier ones, no process ever finds   *)
(* in a general register, its stack pointer, flags or instruction what     *)
(* another computed.  (Of the vector registers it is not true: v is left   *)
(* to whoever runs next.)                                                  *)
OwnRegistersOnly ==
    \A r \in Words : x[r].of \in {0, running}

Resumes == running' # running \/ interrupted' # interrupted

Kept == IF level = 0 THEN 0 .. 8 \cup {sp, spsr, elr} ELSE Words

ComesBack(r) == x'[r] = interrupted'[running'][r]

(* Whoever ran in between, a process goes on at the instruction, on the    *)
(* stack and with the flags it was interrupted with, and so it does with   *)
(* x0 and x2 to x8, from EL1 with all registers but x1.                    *)
ResumesWhereStopped ==
    [][Resumes => \A r \in Kept \ {1} : ComesBack(r)]_contextVars

(* The pcb is said to keep x0 to x30, and _proc to restore x1 to x30: an   *)
(* interrupted process finds all its registers as they were.               *)
AllRestored ==
    [][Resumes => \A r \in Words : ComesBack(r)]_contextVars
=============================================================================
