------------------------------ MODULE PortAvr ------------------------------
(***************************************************************************)
(* The AVR port (arch/avr).  A context is a frame on the stack of the task *)
(* and ctx is the stack pointer below it.  The frame has one layout,       *)
(* whoever made it: an interrupt, arch_context_switch or arch_task_init.   *)
(***************************************************************************)
EXTENDS Cpu

\* The variants that have RAMPZ and a PC of two bytes, which is one cell here.
RAMPZ == 32

Registers == (0 .. 31) \cup {RAMPZ, STATUS, PC}

\* The calling convention of avr-gcc: what survives a call of a C function,
\* what C code may count on in a handler (r1 is 0, Y the frame pointer), and
\* where the arguments of arch_task_start are.
CallSaved     == (1 .. 17) \cup {28, 29, RAMPZ, PC}
HandlerRegs   == {1, 28, 29, PC}
StartArgs(t)  == [r \in {1, 22, 23, 24, 25, PC} |->
                     CASE r = 1          -> Zero
                       [] r \in {22, 23} -> Param(t)
                       [] r \in {24, 25} -> Proc(t)
                       [] r = PC         -> task_start(t)]

---------------------------------------------------------------------------
\* The frame of an interrupt, pushed after the PC.  SREG is stored with the I
\* bit set, which the hardware has cleared.
StoreOrder == <<16, STATUS, RAMPZ, 28, 29>> \o Up(0, 15) \o Up(17, 27) \o <<30, 31>>

Stored(order, status) ==
    [i \in DOMAIN order |-> IF order[i] = STATUS THEN status ELSE cpu.reg[order[i]]]

\* The interrupt and the entry code of its handler, which runs with
\* interrupts off.
arch_contextstore_i ==
    LET frame == <<cpu.reg[PC]>> \o Stored(StoreOrder, <<cpu.reg[STATUS], TRUE>>)
        sp    == Sp(cpu.sp.of, cpu.sp.at + Len(frame))
        y     == Datum(sp.of, "sp", sp.at)
        n     == isr_nesting + 1
    IN  /\ stack' = Pushed(cpu.sp, frame)
        /\ isr_nesting' = n
        /\ ctx' = IF n = 1 THEN [ctx EXCEPT ![task_current] = sp] ELSE ctx
        /\ cpu' = [reg |-> [cpu.reg EXCEPT ![PC] = Handler(n), ![1] = Zero,
                               ![16] = Junk, ![STATUS] = Junk, ![28] = y, ![29] = y,
                               ![30] = IF n = 1 THEN Junk ELSE @,
                               ![31] = IF n = 1 THEN Junk ELSE @],
                   ie  |-> FALSE,
                   sp  |-> sp]
        /\ UNCHANGED task_current

\* Mutant: the two halves of Y come back in the order they were pushed.
PopOrder_swapped ==
    <<31, 30>> \o Down(27, 17) \o Down(15, 0) \o <<28, 29, RAMPZ, STATUS, 16, PC>>

PopOrder ==
    <<31, 30>> \o Down(27, 17) \o Down(15, 0) \o <<29, 28, RAMPZ, STATUS, 16, PC>>

\* Mutant: always return by reti.
Popped_reti(sp) ==
    LET reg == PopInto(cpu.reg, sp, Places(PopOrder))
    IN  [reg |-> [reg EXCEPT ![STATUS] = @[1]],
         ie  |-> TRUE,
         sp  |-> Sp(sp.of, sp.at - Len(PopOrder))]

\* The processor after a frame is popped.  The I bit in the frame chooses
\* between ret, which leaves interrupts off, and reti.
Popped(sp) ==
    LET reg == PopInto(cpu.reg, sp, Places(PopOrder))
    IN  [reg |-> [reg EXCEPT ![STATUS] = @[1]],
         ie  |-> reg[STATUS][2],
         sp  |-> Sp(sp.of, sp.at - Len(PopOrder))]

\* Only the outermost handler takes the frame of task_current, which os_schedule
\* may have changed; a nested one pops its own.
arch_contextrestore_i ==
    LET sp == IF isr_nesting = 1 THEN ctx[task_current] ELSE cpu.sp
    IN  /\ isr_nesting' = isr_nesting - 1
        /\ cpu' = Popped(sp)
        /\ stack' = Cut(Popped(sp).sp)
        /\ UNCHANGED <<ctx, task_current>>

---------------------------------------------------------------------------
\* The frame that arch_context_switch makes: SREG is a dummy with the I bit
\* clear, and the stack pointer skips 12 cells for r18-r27, r30 and r31, which
\* a C function may destroy.
SwitchFrame ==
    <<cpu.reg[PC]>>
      \o Stored(<<16, STATUS, RAMPZ, 28, 29>> \o Up(0, 15) \o <<17>>, <<Zero, FALSE>>)
      \o Times(12, Junk)

arch_context_switch(new_task) ==
    LET saved == Sp(cpu.sp.of, cpu.sp.at + Len(SwitchFrame))
    IN  /\ ctx' = [ctx EXCEPT ![task_current] = saved]
        /\ task_current' = new_task
        /\ cpu' = Popped(ctx[new_task])
        /\ stack' = [Pushed(cpu.sp, SwitchFrame) EXCEPT
                        ![new_task] = SubSeq(@, 1, Popped(ctx[new_task]).sp.at)]
        /\ UNCHANGED isr_nesting

\* PC, R16, SREG, RAMPZ, R28, R29, R0-R15, R17-R21, R22, R23, R24, R25, R26,
\* R27, R30 and R31 of a task that has not run yet.
InitFrame(t) ==
    <<task_start(t), Zero, <<Zero, TRUE>>, Zero>>
      \o Times(2, Datum(t, "sp", 0)) \o Times(16, Zero) \o Times(5, Zero)
      \o Times(2, Param(t)) \o Times(2, Proc(t)) \o Times(4, Zero)

arch_task_init(t) ==
    /\ stack' = [stack EXCEPT ![t] = InitFrame(t)]
    /\ ctx' = [ctx EXCEPT ![t] = Sp(t, Len(InitFrame(t)))]
    /\ UNCHANGED <<cpu, task_current, isr_nesting>>
=============================================================================
