-------------------------------- MODULE Port --------------------------------
(***************************************************************************)
(* Contexts: tasks and interrupt handlers that share one processor, on     *)
(* each of the three ports.  The kernel above (Sched) takes for granted    *)
(* that a program finds its registers, its stack and its interrupt flag as *)
(* it left them; here that is checked against what the ports do.           *)
(***************************************************************************)
EXTENDS Cpu

CONSTANTS Idle,        \* task_idle, the context that calls os_start
          Ports,       \* the ports to look at
          MaxCritical  \* bound on nested critical sections of a program

ASSUME PortsAssumption == Ports \subseteq {"avr", "msp430", "linux"}
ASSUME IdleAssumption == Idle \in Task
ASSUME CriticalAssumption == MaxCritical \in Nat

VARIABLES
    port,     \* the port the kernel is built for
    created,  \* the tasks that have a context
    view      \* what each program knows of the processor while it runs, and
              \* must find again: [reg, ie, sp]; DOMAIN reg are the registers
              \* it relies on

portVars == <<port, cpu, stack, ctx, task_current, isr_nesting, cristate,
              created, view>>

Avr    == INSTANCE PortAvr
Msp430 == INSTANCE PortMsp430
Linux  == INSTANCE PortLinux

RegistersOf(p)   == CASE p = "avr"    -> Avr!Registers
                      [] p = "msp430" -> Msp430!Registers
                      [] p = "linux"  -> Linux!Registers
CallSaved        == CASE port = "avr"    -> Avr!CallSaved
                      [] port = "msp430" -> Msp430!CallSaved
                      [] port = "linux"  -> Linux!CallSaved
HandlerRegs      == CASE port = "avr"    -> Avr!HandlerRegs
                      [] port = "msp430" -> Msp430!HandlerRegs
                      [] port = "linux"  -> Linux!HandlerRegs
StartArgs(t)     == CASE port = "avr"    -> Avr!StartArgs(t)
                      [] port = "msp430" -> Msp430!StartArgs(t)
                      [] port = "linux"  -> Linux!StartArgs(t)
\* The processor if the saved context of t were restored now.
Saved(t)         == CASE port = "avr"    -> Avr!Popped(ctx[t])
                      [] port = "msp430" -> Msp430!Popped(ctx[t])
                      [] port = "linux"  -> ctx[t]

Tags == {"v0", "v1"}

\* All registers as program o has them in the state named by tag.
Work(p, o, tag) == [r \in RegistersOf(p) |-> Datum(o, tag, r)]

NoView == [reg |-> <<>>, ie |-> FALSE, sp |-> Sp(Idle, 0)]

\* os_init has made its caller the idle task and disabled the interrupts.
PortInit ==
    /\ port \in Ports
    /\ cpu = [reg |-> Work(port, Idle, "v0"), ie |-> FALSE, sp |-> Sp(Idle, 0)]
    /\ stack = [t \in Task |-> <<>>]
    /\ ctx = [t \in Task |-> Sp(t, 0)]
    /\ task_current = Idle
    /\ isr_nesting = 0
    /\ cristate = [o \in Program |-> <<>>]
    /\ created = {Idle}
    /\ view = [o \in Program |-> IF o = Idle THEN cpu ELSE NoView]

---------------------------------------------------------------------------
(* What a program does with the processor.                                 *)

\* The task is past arch_task_start; a handler always is.
Started == cpu.reg[PC] # task_start(task_current)

InCritical == cristate[Running] # <<>>

\* The program goes on: every register has a new value.
Compute(tag) ==
    /\ Started
    /\ cpu.reg[PC] # Datum(Running, tag, PC)
    /\ cpu' = [cpu EXCEPT !.reg = Work(port, Running, tag)]
    /\ view' = [view EXCEPT ![Running].reg = cpu'.reg]
    /\ UNCHANGED <<port, stack, ctx, task_current, isr_nesting, cristate, created>>

Enter ==
    /\ Started
    /\ Len(cristate[Running]) < MaxCritical
    /\ arch_critical_enter
    /\ view' = [view EXCEPT ![Running].ie = FALSE]
    /\ UNCHANGED <<port, stack, ctx, task_current, isr_nesting, created>>

Exit ==
    /\ InCritical
    /\ arch_critical_exit
    /\ view' = [view EXCEPT ![Running].ie = cpu'.ie]
    /\ UNCHANGED <<port, stack, ctx, task_current, isr_nesting, created>>

\* The application has created its first tasks, with the interrupts off, and
\* starts them; the critical section in which os_start gives way is one of
\* Enter, arch_context_switch and Exit.
os_start ==
    /\ isr_nesting = 0
    /\ task_current = Idle
    /\ ~InCritical
    /\ ~cpu.ie
    /\ arch_eint
    /\ view' = [view EXCEPT ![Idle].ie = TRUE]
    /\ UNCHANGED <<port, stack, ctx, task_current, isr_nesting, created>>

\* A handler that allows nested interrupts.
EnableNesting ==
    /\ isr_nesting > 0
    /\ ~InCritical
    /\ ~cpu.ie
    /\ arch_eint
    /\ view' = [view EXCEPT ![isr_nesting].ie = TRUE]
    /\ UNCHANGED <<port, stack, ctx, task_current, isr_nesting, created>>

\* The trampoline of a new task calls its function; on Linux it enables the
\* interrupts first.
arch_task_start ==
    /\ isr_nesting = 0
    /\ ~Started
    /\ cpu' = [cpu EXCEPT !.reg = Work(port, task_current, "v0"),
                          !.ie = (port = "linux") \/ @]
    /\ view' = [view EXCEPT ![task_current] = cpu']
    /\ UNCHANGED <<port, stack, ctx, task_current, isr_nesting, cristate, created>>

---------------------------------------------------------------------------
(* Interrupts.                                                             *)

arch_contextstore_i ==
    /\ cpu.ie
    /\ isr_nesting < MaxNesting
    /\ \/ port = "avr" /\ Avr!arch_contextstore_i
       \/ port = "msp430" /\ Msp430!arch_contextstore_i
       \/ port = "linux" /\ Linux!arch_contextstore_i
    /\ view' = [view EXCEPT ![isr_nesting + 1] =
                  [cpu' EXCEPT !.reg = [r \in HandlerRegs |->
                      IF r = PC THEN Handler(isr_nesting + 1)
                      ELSE IF r = 1 THEN Zero
                      ELSE Datum(cpu'.sp.of, "sp", cpu'.sp.at)]]]
    /\ UNCHANGED <<port, cristate, created>>

\* In a first handler os_schedule only chooses the next task_current.
os_schedule(new_task) ==
    /\ isr_nesting = 1
    /\ ~cpu.ie
    /\ new_task \in created \ {task_current}
    /\ task_current' = new_task
    /\ UNCHANGED <<port, cpu, stack, ctx, isr_nesting, cristate, created, view>>

arch_contextrestore_i ==
    /\ isr_nesting > 0
    /\ ~InCritical
    /\ \/ port = "avr" /\ Avr!arch_contextrestore_i
       \/ port = "msp430" /\ Msp430!arch_contextrestore_i
       \/ port = "linux" /\ Linux!arch_contextrestore_i
    /\ view' = [view EXCEPT ![isr_nesting] = NoView]
    /\ UNCHANGED <<port, cristate, created>>

---------------------------------------------------------------------------
(* Tasks.                                                                  *)

arch_task_init(t) ==
    /\ isr_nesting = 0
    /\ Started
    /\ ~InCritical
    /\ t \notin created
    /\ \/ port = "avr" /\ Avr!arch_task_init(t)
       \/ port = "msp430" /\ Msp430!arch_task_init(t)
       \/ port = "linux" /\ Linux!arch_task_init(t)
    /\ created' = created \cup {t}
    /\ view' = [view EXCEPT ![t] = [reg |-> StartArgs(t), ie |-> TRUE, sp |-> Sp(t, 0)]]
    /\ UNCHANGED <<port, cristate>>

\* Not before os_start: os_init has locked the scheduler, and a critical
\* section begins with the interrupts off only then.
Switch(new_task) ==
    /\ isr_nesting = 0
    /\ Started
    /\ ~cpu.ie
    /\ Head(cristate[task_current])
    /\ new_task \in created \ {task_current}
    /\ \/ port = "avr" /\ Avr!arch_context_switch(new_task)
       \/ port = "msp430" /\ Msp430!arch_context_switch(new_task)
       \/ port = "linux" /\ Linux!arch_context_switch(new_task)

\* A task that blocks or yields calls arch_context_switch in its critical
\* section, and relies on the registers that survive a call.
arch_context_switch(new_task) ==
    /\ InCritical
    /\ Switch(new_task)
    /\ view' = [view EXCEPT ![task_current] =
                  [cpu EXCEPT !.reg = [r \in CallSaved |-> cpu.reg[r]]]]
    /\ UNCHANGED <<port, cristate, created>>

\* A task that ends switches for the last time; its memory may be used for a
\* new task.
os_task_exit(new_task) ==
    /\ task_current # Idle
    /\ InCritical
    /\ Switch(new_task)
    /\ created' = created \ {task_current}
    /\ cristate' = [cristate EXCEPT ![task_current] = <<>>]
    /\ view' = [view EXCEPT ![task_current] = NoView]
    /\ UNCHANGED port

ProgramStep ==
    \/ \E tag \in Tags : Compute(tag)
    \/ os_start \/ Enter \/ Exit \/ EnableNesting
    \/ arch_task_start \/ arch_contextrestore_i
    \/ \E t \in Task :
          \/ os_schedule(t) \/ arch_task_init(t)
          \/ arch_context_switch(t) \/ os_task_exit(t)

PortNext == ProgramStep \/ arch_contextstore_i

PortSpec == PortInit /\ [][PortNext]_portVars

---------------------------------------------------------------------------
(* Properties.                                                             *)

\* The program that owns the view v finds in c what it relies on.
Finds(v, c) == c.sp = v.sp /\ \A r \in DOMAIN v.reg : c.reg[r] = v.reg[r]

\* A task or handler that runs has its own registers and its own stack,
\* whatever interrupted it, in whatever order the others ran since, and
\* though frames are made by one piece of code and taken apart by another.
ContextKept == Finds(view[Running], cpu)

\* The saved context of a task that does not run is whole: no handler, nested
\* or not, and no other task has written over it.
SavedContextIntact ==
    \A t \in created : (isr_nesting > 0 \/ t # task_current) =>
        Finds(view[t], Saved(t))

\* Interrupts are off in a critical section from its beginning to its end,
\* also when the task is switched out in it and comes back through an
\* interrupt.
CriticalSectionKept == InCritical => ~cpu.ie

\* A program also finds the interrupt flag as it left it.  There are three
\* exceptions: a handler on Linux gets the signal mask of task_current when a
\* nested one returns, a task on Linux that was created before os_start has
\* its interrupts off until arch_task_start enables them, and on MSP430 a task in a critical section has the
\* interrupts enabled.
FlagKept ==
    \/ cpu.ie = view[Running].ie
    \/ port = "linux" /\ isr_nesting > 0 /\ ~cpu.ie
    \/ port = "linux" /\ ~Started
    \/ port = "msp430" /\ isr_nesting = 0 /\ InCritical
=============================================================================
