-------------------------------- MODULE Cpu --------------------------------
(***************************************************************************)
(* The processor as the ports of RadOs see it: registers, the interrupt    *)
(* flag, a stack for every task, and the three variables of the kernel     *)
(* that the assembler code of a port touches.  Every port (PortAvr,        *)
(* PortMsp430, PortLinux) describes how it saves and restores contexts in  *)
(* these terms.                                                            *)
(***************************************************************************)
EXTENDS Naturals, SequencesExt

CONSTANTS Task,        \* os_task_t *
          MaxNesting   \* bound on isr_nesting

ASSUME NestingAssumption == MaxNesting \in Nat
ASSUME ProgramAssumption == Task \cap (1 .. MaxNesting) = {}   \* see Program

VARIABLES
    cpu,           \* [reg, ie, sp]: registers, interrupt flag, stack pointer
    stack,         \* what lies on the stack of each task, the oldest first
    ctx,           \* task->ctx
    task_current,  \* the task whose context the next restore takes
    isr_nesting,   \* interrupts being served
    cristate       \* the flags that each program has saved to restore later

\* The programs are the tasks and the handlers, one per level of nesting.
Program == Task \cup (1 .. MaxNesting)

Running == IF isr_nesting = 0 THEN task_current ELSE isr_nesting

\* The registers that all ports have; the others are numbers below these.
PC     == 90
STATUS == 91   \* the flags of SREG, SR or EFLAGS without the interrupt flag

(***************************************************************************)
(* Data is only told apart by its origin: what the program `who' computed  *)
(* for register r while it was in state tag.                               *)
(***************************************************************************)
Datum(who, tag, r) == <<who, tag, r>>
Zero               == <<"zero">>
Junk               == <<"junk">>
Proc(t)            == Datum(t, "proc", 0)
Param(t)           == Datum(t, "param", 0)
task_start(t)      == Datum(t, "start", PC)   \* arch_task_start of t
Handler(n)         == Datum(n, "v0", PC)      \* an interrupt handler

\* A stack pointer: `at' cells are on the stack of task `of'.
Sp(t, n) == [of |-> t, at |-> n]

Pushed(sp, cells) == [stack EXCEPT ![sp.of] = SubSeq(@, 1, sp.at) \o cells]

\* What lies beyond the stack pointer is lost.
Cut(sp) == [stack EXCEPT ![sp.of] = SubSeq(@, 1, sp.at)]

\* The place of each register in the order in which registers are popped.
Places(order) == [r \in Range(order) |-> SelectInSeq(order, LAMBDA x : x = r)]

\* The registers once those with a place are popped one after the other.
PopInto(reg, sp, places) ==
    [r \in DOMAIN reg |->
        IF r \in DOMAIN places THEN stack[sp.of][sp.at + 1 - places[r]] ELSE reg[r]]

---------------------------------------------------------------------------
arch_eint == cpu' = [cpu EXCEPT !.ie = TRUE] /\ UNCHANGED cristate

\* A critical section starts with a copy of the interrupt flag in a variable
\* of the program, and ends with its return to the status register.
arch_critical_enter ==
    /\ cristate' = [cristate EXCEPT ![Running] = Append(@, cpu.ie)]
    /\ cpu' = [cpu EXCEPT !.ie = FALSE]

arch_critical_exit ==
    /\ cristate' = [cristate EXCEPT ![Running] = Front(@)]
    /\ cpu' = [cpu EXCEPT !.ie = Last(cristate[Running])]

---------------------------------------------------------------------------
\* The sequences a, a+1, ..., b and n times x.
Up(a, b)     == [i \in 1 .. (b - a + 1) |-> a + i - 1]
Down(a, b)   == Reverse(Up(b, a))
Times(n, x)  == [i \in 1 .. n |-> x]
=============================================================================
