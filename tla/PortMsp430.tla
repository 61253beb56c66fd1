---------------------------- MODULE PortMsp430 -----------------------------
(***************************************************************************)
(* The MSP430 port (arch/msp430).  As on AVR a context is a frame on the   *)
(* stack of the task; the processor itself pushes and pops SR together     *)
(* with PC in an interrupt and in reti.                                    *)
(***************************************************************************)
EXTENDS Cpu

Registers == (4 .. 15) \cup {STATUS, PC}

\* The calling convention of mspgcc.
CallSaved    == (4 .. 11) \cup {PC}
HandlerRegs  == {PC}
StartArgs(t) == [r \in {14, 15, PC} |->
                    CASE r = 15 -> Proc(t)
                      [] r = 14 -> Param(t)
                      [] r = PC -> task_start(t)]

\* PC, SR, R15 ... R4.
Frame(ie) ==
    <<cpu.reg[PC], <<cpu.reg[STATUS], ie>>>> \o [i \in 1 .. 12 |-> cpu.reg[16 - i]]

\* Mutant: the stack pointer of a nested handler is taken for that of the task.
StoredSp_nested(n, sp) == [ctx EXCEPT ![task_current] = sp]

\* Only the first handler has the stack pointer of the task in R1.
StoredSp(n, sp) == IF n = 1 THEN [ctx EXCEPT ![task_current] = sp] ELSE ctx

\* The interrupt and the entry code of its handler.
arch_contextstore_i ==
    LET sp == Sp(cpu.sp.of, cpu.sp.at + 14)
        n  == isr_nesting + 1
    IN  /\ stack' = Pushed(cpu.sp, Frame(cpu.ie))
        /\ isr_nesting' = n
        /\ ctx' = StoredSp(n, sp)
        /\ cpu' = [reg |-> [cpu.reg EXCEPT ![PC] = Handler(n), ![STATUS] = Junk,
                               ![15] = IF n = 1 THEN Junk ELSE @],
                   ie  |-> FALSE,
                   sp  |-> sp]
        /\ UNCHANGED task_current

PopOrder == Up(4, 15) \o <<STATUS, PC>>

\* The processor after a frame is popped, R4 first.  The bits that switch the
\* processor off are cleared in SR; they are not modelled.
Popped(sp) ==
    LET reg == PopInto(cpu.reg, sp, Places(PopOrder))
    IN  [reg |-> [reg EXCEPT ![STATUS] = @[1]],
         ie  |-> reg[STATUS][2],
         sp  |-> Sp(sp.of, sp.at - 14)]

\* GIE is set in the SR that reti pops, whatever it was.
arch_contextrestore_i ==
    LET sp == IF isr_nesting = 1 THEN ctx[task_current] ELSE cpu.sp
    IN  /\ isr_nesting' = isr_nesting - 1
        /\ cpu' = [Popped(sp) EXCEPT !.ie = TRUE]
        /\ stack' = Cut(Popped(sp).sp)
        /\ UNCHANGED <<ctx, task_current>>

\* SR is pushed by the code, with GIE as it is, and popped with pop r2.
arch_context_switch(new_task) ==
    /\ ctx' = [ctx EXCEPT ![task_current] = Sp(cpu.sp.of, cpu.sp.at + 14)]
    /\ task_current' = new_task
    /\ cpu' = Popped(ctx[new_task])
    /\ stack' = [Pushed(cpu.sp, Frame(cpu.ie)) EXCEPT
                    ![new_task] = SubSeq(@, 1, Popped(ctx[new_task]).sp.at)]
    /\ UNCHANGED isr_nesting

\* PC, SR with GIE set, R15, R14, R13 ... R4 of a task that has not run yet.
InitFrame(t) ==
    <<task_start(t), <<Zero, TRUE>>, Proc(t), Param(t)>> \o Times(10, Zero)

\* As built without OS_CONFIG_APICHECK: with it the first assertion, a reminder
\* that always fails, halts here.
arch_task_init(t) ==
    /\ stack' = [stack EXCEPT ![t] = InitFrame(t)]
    /\ ctx' = [ctx EXCEPT ![t] = Sp(t, Len(InitFrame(t)))]
    /\ UNCHANGED <<cpu, task_current, isr_nesting>>
=============================================================================
