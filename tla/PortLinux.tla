----------------------------- MODULE PortLinux -----------------------------
(***************************************************************************)
(* The Linux port (arch/linux).  Interrupts are signals: the system leaves *)
(* a ucontext_t on the stack and loads the processor from it when the      *)
(* handler returns.  ctx is a copy of such a ucontext_t, and the interrupt *)
(* flag is the signal mask in it.                                          *)
(***************************************************************************)
EXTENDS Cpu

\* The order of gregs in ucontext_t: R8-R15, RDI, RSI, RBP, RBX, RDX, RAX, RCX.
\* RSP is part of cpu.sp; FP stands for __fpregs_mem.
RDI == 8
RSI == 9
FP  == 18

Registers == (0 .. 14) \cup {FP, STATUS, PC}

\* The calling convention of x86-64.
CallSaved    == (4 .. 7) \cup {10, 11, PC}
HandlerRegs  == {PC}
StartArgs(t) == [r \in {RDI, RSI, PC} |->
                    CASE r = RDI -> Proc(t)
                      [] r = RSI -> Param(t)
                      [] r = PC  -> task_start(t)]

\* The signal, and the copy of the ucontext_t it leaves in a first handler.
arch_contextstore_i ==
    LET sp == Sp(cpu.sp.of, cpu.sp.at + 1)
        n  == isr_nesting + 1
    IN  /\ stack' = Pushed(cpu.sp, <<cpu>>)
        /\ isr_nesting' = n
        /\ ctx' = IF 1 >= n THEN [ctx EXCEPT ![task_current] = cpu] ELSE ctx
        /\ cpu' = [reg |-> [r \in Registers |-> IF r = PC THEN Handler(n) ELSE Junk],
                   ie  |-> FALSE,
                   sp  |-> sp]
        /\ UNCHANGED task_current

\* Mutant: the signal mask of the interrupted program is left in place.
Resumed_mask(ucontext) ==
    IF isr_nesting = 1
    THEN [ctx[task_current] EXCEPT !.ie = ucontext.ie]
    ELSE ucontext

\* The ucontext_t on the stack when the handler returns: the signal mask is
\* that of task_current, also in a nested handler.
Resumed(ucontext) ==
    IF isr_nesting = 1
    THEN ctx[task_current]
    ELSE [ucontext EXCEPT !.ie = ctx[task_current].ie]

arch_contextrestore_i ==
    /\ isr_nesting' = isr_nesting - 1
    /\ cpu' = Resumed(Last(stack[cpu.sp.of]))
    /\ stack' = Cut(Sp(cpu.sp.of, cpu.sp.at - 1))
    /\ UNCHANGED <<ctx, task_current>>

\* The handler of SIGUSR1 puts the context of t in place of that of its caller.
arch_sig_switch(t) == ctx[t]

\* getcontext, with RIP, RSP and RBP put right for the caller, then SIGUSR1.
arch_context_switch(new_task) ==
    LET getcontext ==
            [cpu EXCEPT !.reg = [r \in Registers |->
                                    IF r \in CallSaved THEN cpu.reg[r] ELSE Junk]]
    IN  /\ ctx' = [ctx EXCEPT ![task_current] = getcontext]
        /\ task_current' = new_task
        /\ cpu' = arch_sig_switch(new_task)
        /\ UNCHANGED <<stack, isr_nesting>>

\* makecontext overwrites what getcontext got, except for the signal mask.
arch_task_init(t) ==
    /\ stack' = [stack EXCEPT ![t] = <<>>]
    /\ ctx' = [ctx EXCEPT ![t] =
          [reg |-> [r \in Registers |-> IF r \in DOMAIN StartArgs(t)
                                        THEN StartArgs(t)[r] ELSE Junk],
           ie  |-> cpu.ie,
           sp  |-> Sp(t, 0)]]
    /\ UNCHANGED <<cpu, task_current, isr_nesting>>
=============================================================================
