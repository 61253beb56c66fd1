# RadOs: TLA+ models, checks and proofs

RadOs is a small preemptive real time kernel in C (`src/source/`), with ports
to AVR, MSP430 and, for tests, to a linux process (`src/arch/`).  This
directory models the kernel and its three ports in TLA+, checks them with TLC on
small instances and proves their safety properties with TLAPS for every number
of tasks, priorities and queues.

## The system

| component | state | operations | interacts through |
|---|---|---|---|
| lists (`list.h`) | `next` and `prev` of every node | init, append, prepend, put_after, put_before, unlink, detachfirst | embedded in TCBs, mutexes and timers |
| task queues (`os_sched.c`, `list.h`) | per queue one list for each priority and a bit mask; in the TCB `task_queue`, `prio_current` | enqueue, unlink, reprio, dequeue, dequeue_prio, peek | called by everything below, in critical sections |
| scheduler (`os_sched.c`, `os_private.h`) | `ready_queue`, `task_current`, `sched_lock`, TCB `state` | lock/unlock, create, join, exit, yield, start, `os_schedule`, `os_task_block_switch` | context switches of the port |
| interrupts (`arch/*/arch_port.*`) | `isr_nesting`, the saved contexts | `arch_contextstore_i`, `arch_contextrestore_i` | an ISR changes `task_current`, the switch happens at its end |
| ports (`arch/*/arch_port.*`) | registers, interrupt flag, a stack per task, `ctx` in the TCB | context switch and `arch_task_init`, critical sections, `os_atomic_*`, bit fields | an interrupt may come between any two instructions with the flag set |
| mutexes (`os_mtx.c`) | `owner`, `recur`, queue of waiters, `mtx_list` of the owner | create, destroy, lock, unlock | priorities of other tasks (inheritance), scheduler |
| semaphores (`os_sem.c`) | `value`, queue of waiters, guard timer of a waiter | create, destroy, down with timeout, up | called from ISRs and by `os_task_exit`; timer callbacks |
| wait queues (`os_waitqueue.c`) | queue of waiters, `waitqueue_current`, `sched_lock` | prepare, break, wait, wakeup | wake-ups from ISRs between prepare and wait; timer callbacks |
| timers (`os_timer.c`) | list of timers sorted by remaining ticks, unsynchronised ticks | create, destroy, tick | callbacks run inside the tick ISR and call the others |

There is one CPU.  All kernel state is changed with interrupts off, so the
concurrency is in *where* code is cut: at a context switch in the middle of an
API call, between the two halves of `os_scheduler_unlock`, and at any point of
application code by an ISR, which may itself be interrupted.  What is hard:

* state computed before a switch and used after it (`os_task_join`, `os_mtx_lock`);
* scheduling points that are skipped (locked scheduler, nested ISR) and have to
  be made up for later;
* the hand-over of a mutex or of a join to a task that runs much later;
* priorities that change while a task is on a queue;
* loops over other tasks' state with interrupts off;
* guard timers that race with the wake-up they guard;
* contexts that one piece of code stores and another restores, with nested
  interrupts in between and with an interrupt flag that has to follow the task.

What makes each part correct: the queues never lose, duplicate or misfile a
task; the CPU belongs to the most urgent READY task, round robin among equals;
`task_idle` is always there to switch to; a blocked task is blocked on
something that can still wake it, and learns the true reason when it wakes; an
owner has exactly the priority that its waiters give it; whoever gets the CPU
finds registers, stack and interrupt flag as it left them.  `hazards` in
`PROJECT.json` has the places in the code.

## Modules

* `List` - the lists of `list.h` at the level of pointers: operators on a memory
  of `next` and `prev` fields.  The other modules use sequences; `Linked` is the
  relation between the two.
* `TaskQueue` - the `os_taskqueue_*` functions as operators on one record with
  all queues and the TCB fields they touch.  A bucket is a sequence, the bit
  mask a set of priorities; mask and buckets are kept apart, as in the code, so
  that their agreement (`Coherent`) can fail.
* `Sched` - the scheduler.  A step is a stretch of code that nothing can
  interrupt; `pc[t]` is where task `t` goes on when it has the CPU again.  An
  API call with a context switch in it is therefore two or three actions
  (`os_task_join_wait`, `os_task_join_woken`, `os_task_join_end`), any other
  is one with the trailing `os_schedule` inside.  `os_task_create` prepares a TCB
  and a stack before its critical section; nobody else may name them yet, so the
  call is one step, the critical section.  Scheduler locks may be taken from
  `os_init` on; `os_start` clears `sched_lock`, so the application has undone its
  own by then, a rule of the model (`lock_depth`) that the code does not state.
  ISRs are
  `arch_contextstore_i`, any number of `os_tick`, `arch_contextrestore_i`.
* `AbstractSched` - what tasks promise to those who create and join them: the CPU
  is lost only to the most urgent task, an exit frees the joining task in the
  same step, a join ends once and after the exit.  In the mapping a task on the
  ready queue or on the CPU is ready, and whom it joins is read off `join_sem`.
* `Mtx` - extends `Sched` with the mutexes.  `mtx_list` of a task is
  derived from `owner`; the loop of `os_mtx_lock_prio_boost` is a bounded walk
  (`BlockingChain`), and a walk longer than the number of tasks is the endless
  loop of the code (`hung`).
* `AbstractMutex` - what a mutex promises: one holder, waiting ended only by
  hand-over or destruction, no barging.
* `Timer` - the timers, on their own.  Both loops of `timer_trigger` are one step
  per turn; callbacks, steps of their own, create and destroy timers between two
  turns of the first, and nothing else can.  `left` is a
  history variable: the ticks until the callback is due.
* `Guard` - extends `Sched` with the timers that end a wait.  It does not have
  the list of `Timer` but what `OnTime` and `DestroyedNeverFires` show of it: a
  callback is called in the tick it is due, and not after a destroy.  That is
  right as long as no timer callback of the application wakes tasks (finding 2).
* `Sem` - extends `Guard` with the semaphores.  `AbstractSem` is what they
  promise: a signal is kept or given to one waiter, and whichever of signal,
  timeout and destruction comes first decides the result.
* `WaitQueue` - extends `Guard` with the wait queues, their receiver and their
  notifier.  The calls of a receiver are cut wherever interrupts are on: behind
  the lock of prepare, behind the store, behind the check of the condition, and
  inside break.  `owed` is a history variable: the condition was set and the
  wake-up of all is still to come.
* `Cpu` - the processor under the ports: registers, interrupt flag, stacks, `ctx`.
  Data is told apart by its origin only: which program computed it for which
  register, in which of two states.  A stack is a sequence of such cells and a
  frame on it is as long as in the code, one cell per push.
* `PortAvr`, `PortMsp430`, `PortLinux` - how each port stores and restores
  contexts.  AVR has 35 cells in the order of the push and pop instructions, with
  the choice between `ret` and `reti`; MSP430 has 14, two of them pushed by the
  processor in an interrupt; on Linux a context is a `ucontext_t` and the
  interrupt flag the signal mask in it.  The calling conventions (which registers
  survive a call, where arguments are) are external.
* `Port` - tasks and nested handlers on one of the ports.  `view` is what each
  program last knew of the processor; it relies on all registers after an
  interrupt and on the call-saved ones after a context switch.  It begins behind
  `os_init`, with the interrupts off, so that tasks are created before and after
  `os_start`.  A task ends and
  its memory is used again.  What `os_schedule` chooses is left open.
* `Atomic` - extends `Port` with a shared word and the `os_atomic_*` macros on
  it, one step per instruction that touches the word.  `AbstractAtomic` is the
  word with operations of one step.
* `Bitmask` - `arch_bitmask_set`, `clear` and `fls` on 8 bit integers, the sets of
  `TaskQueue`.
* `ListProofs`, `SchedProofs`, `MtxProofs`, `GuardProofs`, `SemProofs`,
  `WaitQueueProofs`, `TimerProofs`, `PortProofs` - lemmas and theorems; each
  extends the module it is named after, `PortProofs` also `Atomic`.  The lemmas on
  `TaskQueue` are the first part of `SchedProofs`.
* `MCSched`, `MCMtx`, `MCTimer`, `MCSem`, `MCWaitQueue`, `MCPort` - instances for TLC.

Names are those of the code.  Beyond it the model has `lock_depth`, `depth` and
`deferred`, history variables that properties and application rules look at.
The join semaphore lives on the joining task's stack; its queue is named by
that task.  The exit code is `EXIT` in `block_code`, because `ret_value` and
`block_code` share a union.  Definitions whose comment begins with *Mutant* are
not part of the model: each is a plausible bug that one property has to detect
(`mutants` in `PROJECT.json`).

Application code is free to make any call whose assertions and documented
preconditions hold.  Bounds on it: tasks that may exit or join (`Exiting`,
`Joining`), `AppPrio`, nested locks (`MaxLock`, `MaxRecur`), ISR nesting
(`MaxNesting`).  `Ordered` makes it take its mutexes in one order;
`BlocksLocked` says whether it may block with the scheduler locked, which the
code does not forbid.  A task joins neither itself nor `task_idle`.

## Runs

| run | instance | shows |
|---|---|---|
| `Sched` | idle and three tasks, two priority levels shared, ISR nesting 2, scheduler locks of several tasks | queues coherent, no task lost or in two places, strict priorities, scheduler locks obeyed, joins sound and never lost, FIFO order, refinement of `AbstractSched` |
| `Mtx` | a low, a top and a third task that is a peer of the low one or a medium one that never stops; two recursive mutexes taken in order, interrupts, destroy | inheritance exact, peers served in order also when boosts move them, results true, held until the last unlock, boost loop ends, refinement of `AbstractMutex`, `NoUnboundedInversion` |
| `MtxDemote` | scheduler lock allowed | violation: boost lowers a priority |
| `Timer` | three timers, 3 bit ticks, callbacks destroy timers | list sorted, every callback in the tick it is due, none after a destroy, the walk ends |
| `TimerUnlink` | callbacks also create timers and destroy the timer visited next | violation: a destroyed timer fires |
| `TimerReload` | callbacks also destroy their own auto reload timer | violation: a destroyed timer fires again |
| `Sem` | idle and two tasks that may be peers and never yield, one semaphore, signals from tasks and ISRs, guards of one and two ticks, scheduler locks, exit and join | no sleep with signals left, no guard outlives its wait, refinement of `AbstractSem`, `GuardedWaitEnds`, `RoundRobin` |
| `WaitQueue` | two tasks, two wait queues, notifiers in tasks and ISRs, waking one or all, scheduler locks | no lost wake-up, prepared state private to its task, guards safe, the lock of prepare kept and undone |
| `WaitStale` | one wait queue | violation: a wait that does not block returns an old result |
| `WaitSkip` | one wait queue | violation: a wait that does not block keeps the CPU from a more urgent task |
| `Port` | each port, idle and a task that ends and is created again, two levels of interrupts | registers, stack and flag kept, stored contexts intact, bit fields are sets, refinement of `AbstractAtomic` |
| `PortMsp430` | the MSP430 port | violation: a critical section is left open |

Scheduler locks are looked at from outside: `LockObeyed` and `ReceiverUnlocks` do
not mention `sched_lock`.  They say from the calls that are not undone
(`lock_depth`, a history variable) that nobody is preempted under a lock and that
no step leaves a more urgent READY task without the CPU when there is none.
`HighestPrioRuns` alone says less: it is content with `deferred`, which stays TRUE
until a scheduling point makes up for the one that was skipped.  With `LockEnds`
a skip needs a lock or a nested ISR, and `RoundRobin` shows that in the end a READY
task has the CPU or a more urgent one has it.

`EachTaskInItsPlace` is less than `os_sched.h:40-43` says of READY and RUNNING; the
code does not keep that, see Findings.

Three tasks and two mutexes are the least for a chain of two blocked tasks and
an owner with two boosts; three priorities separate top, medium and low;
nesting 2 is the least at which `os_schedule` in an ISR is skipped.
`Mtx` has no scheduler lock (`MaxLock = 0`): with it inheritance is not exact,
which is what `MtxDemote` shows on its own.  Without a lock order (`Ordered =
FALSE`) tasks deadlock and `BoostEnds` fails, as it must; `LockResultIsTrue`,
`WaitersHaveAnOwner` and `HeldUntilLastUnlock` hold then too, no run is kept.
The runs `Mtx` and `Sem` check safety and liveness on one instance; it has tasks
that exit and join only where its state space allows, in `Sem`.  The theorems on
the same invariants have no such bounds.

With 3 bit ticks and at most two unsynchronised ones (`TICKS_MOD`,
`OS_TIMER_UNSYNCH_MAX`; 2^16 and 1024 in the code) the smallest and the largest
timeout and reload are among the inputs, and both reasons to walk the list
occur.  Three timers give a head, a timer behind it, and one that expires or
is created meanwhile.

One semaphore with a value of at most one and guards of one and two ticks
(`MaxValue`, `Timeouts`) let signal, timeout and destruction meet in any order,
two guards expire in one tick, and a guard outlast a signal.  Two wait queues
are needed for an ISR that wakes another queue than the interrupted receiver's.

Two tasks and two levels of interrupts are the least at which a nested handler
runs on the stack of a task while the outer one has already chosen another.
Critical sections of a program nest once (`MaxCritical`), plus that of an atomic
macro.  A byte has two values (`BYTE`), so that a carry into the high byte and a
wrap of the word are a few increments away; one value is stored and one expected
(`Arguments`, `Expected`).  The macros are called in one of the two register
states, which bounds the run and loses nothing, as they do not touch the others.

Fairness.  `Continue` (kernel code behind a switch or between two halves of a
call) and the exit of an ISR are weakly fair, since the CPU goes on executing.
The tick is periodic: entry of an ISR and `os_tick` are strongly fair, because
they are disabled again and again by critical sections but an interrupt stays
pending.  `Mtx` adds that the application releases a mutex if its owner
gets the CPU again and again, `Timer` that the walk goes on and callbacks
return.  `Sem` has the tick of `Guard` and scheduler locks, and assumes two things
of them (`SemFairness`): no task keeps the scheduler locked for ever, and the tick
is not in step with the locks, that is, it also comes while there is none; a tick
under the lock readies tasks and switches to nobody.  Nothing is assumed of
yielding or exiting.

## Findings

1. `MtxDemote`: `os_mtx_lock_prio_boost` compares priorities only for the first
   owner.  A task that has the CPU of a higher one, because it has locked the
   scheduler or has just unlocked it with `sync`, can block on a chain whose end
   ranks above it, and lowers it below its base.
2. `TimerUnlink`: a callback that destroys the timer behind its own leaves
   `timer_trigger` on an unlinked element.  `os_sem_up` called from a callback
   does that when it wakes a task whose guard timer is next.
3. `TimerReload`: `os_timer_destroy` clears `ticks_reload` only of a timer whose
   `ticks_rem` is not 0, and in the callback of a timer it is 0.  An auto reload
   timer that is destroyed in its own callback goes on.
4. `WaitStale`: a wake-up that finds the receiver prepared but not yet queued
   does not set its `block_code`; `os_waitqueue_wait` then returns the result of
   an earlier block, `OS_TIMEOUT` for instance.
5. `WaitSkip`: the same path of `os_waitqueue_wait` lowers `sched_lock` without a
   scheduling point.  A more urgent task that an ISR has woken meanwhile, and
   that `os_waitqueue.h` promises the CPU at this call, waits for the next tick or
   call that schedules.
6. `PortMsp430`: `arch_contextrestore_i` of MSP430 sets GIE in the status register
   it pops, also if that was stored by `arch_context_switch` in a critical
   section.  A task that blocked is then resumed by an interrupt with interrupts
   enabled, in the middle of its critical section.  AVR stores the bit and
   returns by `ret`, Linux restores the signal mask of the task.

`FlagKept` excepts the case of finding 6, the first of the list below, and a task on
Linux that was created before `os_start`: it gets the mask of its creator, with
the interrupts off, and enables them itself in `arch_task_start`.

The models show more, for which no run is kept:

* On Linux a nested handler that returns gives the interrupted handler the signal
  mask of `task_current`, which may be a task that was switched out in a critical
  section; the handler goes on with signals blocked, though the comment on
  `arch_contextrestore_i` says they are enabled in both cases.
* A timer created in a callback is compensated for ticks that are forgotten at
  the end of `timer_trigger`, and expires late by that many (`OnTime` with
  `CallbackCreates = TRUE`).
* `recur` wraps at 256 nested locks, and one unlock then frees the mutex
  (`HeldUntilLastUnlock` with `MaxRecur = 257`).
* A task entered for the first time, or preempted in an ISR and resumed from
  task context, runs with state READY though it is on no queue; `os_sched.h:40-43`
  says that a READY task is on the ready queue and the running one RUNNING.
  No code of the kernel depends on it, and `EachTaskInItsPlace` does without it.

Run `Timer` leaves out exactly what these three on timers need: its constants
`CallbackCreates`, `CallbackDestroysNext` and `CallbackDestroysReload` are FALSE,
which are guards of the model on what callbacks do and not of the code.

Seen while reading, and outside of what the models decide: `arch_task_init` of
MSP430 begins with an assertion that always fails (`!"should be stack_size - 2"`)
and is modelled as it works without `OS_CONFIG_APICHECK`;
`os_atomic_store` of AVR and MSP430 compiles to nothing for types that are not two
bytes wide, where the other macros halt or do not compile.

## Proofs

Every theorem holds for any number of tasks, priorities, objects and timers.  The
assumptions on the constants are those the modules declare, which the runs
evaluate: `PRIOCNT` positive, `NULL` neither a task nor a queue nor a number, a
finite set of tasks (`TaskAssumption`, for the counting arguments), the idle task
and the queues as named, user priorities above 0, for timers the ranges that
`os_timer_create` asserts, and for the ports that the levels of the interrupts,
which name the handlers, are not tasks.

**Queues.**  `SchedProofs` begins with the lemmas on the queue operators: each keeps
`Coherent`, and says exactly which task moved where.  Loops of the code that
empty a queue or walk a chain are recursive functions in the models; `CountUp`,
`Turns`, `Loop` and `StagedLoop` are the rules for them: what one turn keeps, the
loop keeps.

`ListProofs` justifies the sequences: on a memory in which a circle of pointers
is `Linked` to a sequence, each function of `list.h` yields one that is linked to
the sequence its name promises, for any length and with the empty list, where
head, left and right neighbour are one node; and it leaves every list with other
nodes alone.  The argument is by index: `Nth` numbers the nodes of the circle,
the head at both ends, and an insertion or a removal shifts the numbers behind
it.  `MCTimer` evaluates the same relation on short lists (`ListsAreSequences`),
so every timer run checks it.

**Scheduler.**  `SchedProofs` proves `Spec => []SchedInv` and from it the
invariants of run `Sched`, and `IdleIsAvailable`.  The inductive invariant is

    SchedInv == TypeOK /\ InPlace(tq, task_current) /\ HighestPrioRuns
                       /\ JoinsMatch /\ LocksMatch

* `InPlace` joins `Coherent(tq)` with the place of every task, and says that
  `task_idle` never waits nor exits; that is why `SwitchAway` finds a task.
* `HighestPrioRuns` is inductive with `InPlace` because what a dequeue takes is
  the top of a coherent queue.
* `JoinsMatch` relates `join_sem`, `pc`, `state` and `block_code` of both tasks
  of a join, in each of its phases: the two join properties talk of different
  phases and neither is inductive.
* `LocksMatch` counts `OpenLocks`, the calls of `os_scheduler_lock` that are not
  undone, in `sched_lock`; a step of one task changes the cardinality by one.

`LockIsObeyed` (`LockObeyed`) is an action property on top of it: `LocksMatch` turns the
calls that the property speaks of into the `sched_lock` that `os_schedule` tests,
and `HighestPrioRuns` and `InPlace` give that what it switches to is the top of
the queue.

`SchedCore` is the part of it that the objects need of any step.  The module has
the lemmas on how an object changes the scheduler (a task blocks on a queue, is
made ready, all of a queue are woken, the running task is preempted), each for
any queue of any object.

`FirstComeFirstServed` (`FifoOrder`) is an action property and needs a second look
into the buckets: `BucketsInOrder(s, r)` compares those of two states, and is
carried from the state before the step through its calls.  A dequeue takes a head
and so keeps it; an enqueue keeps it if the task was not on that queue when the
step began, which `InPlace` gives for the running task and for a new one, and
`JoinsMatch` for the task that `os_task_exit` moves off its semaphore.

The last part is the simulation of `AbstractSched`:
the initial states correspond, and every step is a step of it or a stutter
(`SchedRefines`).

**Mutexes.**  `MtxProofs`.  `MtxInv` adds to `SchedInv` where each task in
`os_mtx_lock` is (on the queue of `lock_arg` with the mutex owned by another, or
woken with its result), that a mutex with waiters has a living owner, and how
`recur` and `depth` are related.  `LockResultIsTrue` and `WaitersHaveAnOwner`
follow, and so does every step of the simulation of `AbstractMutex`.
`MtxFirstComeFirstServed` carries `BucketsInOrder` through the calls of the mutexes
too: `os_taskqueue_reprio` takes a task out of the middle of a bucket and puts it at
the end of another, and the loops over the owners of a chain and over the
waiters of a destroyed mutex keep the order turn by turn.
`BoostTerminates` takes `Ordered` as its hypothesis, the lock order that also run
`Mtx` has: along the chain the mutexes grow, so none comes twice, and the walk
ends within the number of mutexes.  `HeldWhileLocked` needs `MaxRecur <
RECUR_MOD`; beyond that the counter wraps (see Findings).

`PrioritiesInherited` is the rule of priority inheritance.  `InheritInv` adds to
`MtxInv` that each task has the highest of its base priority and the priorities
of the tasks that wait for it (`InheritsOK`), that nothing READY outranks the
running task (`Ranked`), and that an owner waits for nothing but a mutex
(`OwnersRun`).  The last two are what the code relies on: `os_mtx_lock_prio_boost`
compares priorities for the first owner only and gives its own to the others on the
chain, unseen.  A chain ends at a READY task; its priority is at least that of
every task before it, and at most that of the running task, so no assignment
lowers one.  The hypothesis is `MaxLock = 0`, as in run `Mtx`: under the scheduler
lock the running task may be outranked, and then the rule is broken (`MtxDemote`).
`PrioritiesNotBelowBase` proves, under that hypothesis, the very property that run
`MtxDemote` refutes without it.

**Semaphores.**  `GuardProofs` shows that the list of guard timers and the
`guard` of each task belong together, and what creation, expiry and destruction of
a guard do to it.  `SemInv` adds that a task on the queue of a semaphore is in
`os_sem_down`, and that a semaphore with a value has no waiters; the walk of
`os_tick` over the guards that are due keeps it timer by timer (`StagedLoop`).
From it the invariants of run `Sem` and the simulation of `AbstractSem`.

**Wait queues.**  `WaitQueueInv` says what holds at each cut of a receiver: from
prepare to its end the receiver holds the scheduler lock, so `os_schedule` cannot
switch away and `waitqueue_current` is its own (`ReceiverHasCpu`,
`PreparedIsCurrent`).  An ISR that wakes it there clears `waitqueue_current`, and
the receiver then does not queue itself: with `NoLostWakeup` this is inductive.
`ReceiversUnlock` follows as `LockIsObeyed` does, for the lock that prepare takes and
break, wait and the wake-up in between undo; a notifier that asks for `sync` is
excepted, since it keeps the CPU by choice.

**Timers.**  `TimerInv` follows `left`, the ticks until a timer is due.  The list is
sorted by `left` at any time, also in the middle of the walk, where `ticks_rem` is
`left` before the iterator and `left` plus the unsynchronised ticks from it on.  A
timer that is due must be the head of the list, since an earlier one would be due
as well and was taken off; hence a callback runs only while the iterator is the
new head, and the timers it destroys are all behind it.  No sum exceeds
`os_ticks_t`: that is what the assertion on `timeout_ticks` is for.  The hypothesis
is `CallbacksBehave`, the restrictions of run `Timer`; without them the theorems are
false (see Findings).  `TicksDiffIsElapsed` shows that `os_ticks_diff` is the
elapsed time for every counter width (on the linux port `os_ticks_t` is wider than
`OS_TICKS_MAX` and never wraps in practice; there it is a plain difference).

**Ports.**  `PortProofs`, for all three ports, any tasks and any depth of nested
interrupts.  `ContextKept` is about the program that runs; what makes it inductive
is what is known of those that do not.  `ContextInv` says where each context is
and what the port will find there:

* `SavedTasks`: the `ctx` of a task that is switched out points to a frame on its
  own stack that restores to `view` of that task (on Linux the `ucontext_t` itself);
* `Handlers`: the frame of nesting level k is at `Depth(port, k)` on the stack of
  the task that was interrupted (a handler may have changed `task_current` since),
  above the frames of the levels below it, and restores to the `view` of the
  program that was interrupted there;
* `TaskViews`, `PortTypeOK`: a task that was created has its stack pointer at the
  bottom of its own stack, and stacks hold as many cells as have been pushed.

The basis is that what is pushed is popped: for the 35 cells of AVR and the 14 of
MSP430, in the order of the instructions, a restore of a stored context gives the
same registers, flag and stack pointer (`AvrPlace`, `MspPlace`, `Restores`).  Each
action of the port is then one of a few changes of contexts (`Stores`,
`ResumesTask`, `ResumesHandler`, `Switches`, `Creates`, `LocalStep`), and it is
these that are shown to keep the invariant.

`FlagInv` adds the interrupt flag in each of these places, and `Sections` the
flags that are remembered by the critical sections a program is in: the outermost
holds the flag of the program, the inner ones hold "off".  `FlagIsKept` follows, and
`SectionsAreKept`: on AVR and Linux interrupts stay off from the beginning of a
critical section to its end.  For MSP430 that is false (`PortMsp430`), and the theorem
excludes it.

`MacrosAreAtomic` is the refinement of `AbstractAtomic`.  `MacroInv` says that a
macro which is under way belongs to the running program, that interrupts are then
off, so it is the only one, and what it has read agrees with the bytes in memory;
between the two stores of a write the bytes are torn and the abstract word is the
value being stored.  One of the steps of a macro is the abstract operation and the
others are stutters.

**Only model-checked.**  All liveness (`NoUnboundedInversion`, `TriggerEnds`,
`GuardedWaitEnds`, `RoundRobin`), which is out of the prover's reach.
`BitmaskIsASet`, a statement on the 256 values of a byte: TLC evaluates all of
them, and the provers do not interpret the powers of 2 in it.

## Not modelled

Of the ports: the power bits of MSP430, `arch_idle` and `arch_halt`, AVR without
RAMPZ or with a PC of three bytes, the size of stacks, the memory order of the
gcc builtins (there is one CPU), atomic types of other widths.  Stack checks and
`os_halt`; the test harness; `listprio_append` and `listprio_detachfirst`, which nothing
calls (the comment on `listprio_t` says ascending order, the loop sorts in
descending order).  `PROJECT.json` lists them with reasons.

## Plan

What is left to model: callbacks of application timers that wake tasks (`Timer`
composed with `Sem`), and mutexes, semaphores and wait queues in one application.
