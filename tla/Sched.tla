-------------------------------- MODULE Sched --------------------------------
(***************************************************************************)
(* The scheduler of RadOs (os_sched.c, the inline functions of             *)
(* os_private.h and the context switch contract of the ports).             *)
(*                                                                         *)
(* There is one CPU.  A step is a stretch of code that nothing can         *)
(* interrupt: a critical section of an API call up to its end or up to the *)
(* context switch inside it, or the entry, body or exit of an ISR.  What   *)
(* a task does after the switch is a later step, taken when the CPU is     *)
(* back; pc[t] says where t will go on.  Application code is free to call  *)
(* any function whose assertions and documented preconditions allow it.    *)
(***************************************************************************)
EXTENDS TaskQueue

CONSTANTS Idle,        \* task_idle
          ready_queue, \* the queue of READY tasks
          AppPrio,     \* priorities the application may give each task
          Exiting,     \* tasks whose procedure may return
          Joining,     \* tasks that may call os_task_join
          BlocksLocked,\* tasks may block while they hold the scheduler lock
          MaxNesting,  \* bound on isr_nesting
          MaxLock      \* bound on nested os_scheduler_lock calls of a task

ASSUME IdleAssumption == Idle \in Task

\* The semaphore that os_task_join keeps on the stack of t is the queue t.
ASSUME QueueAssumption == Task \subseteq Queue \ {ready_queue} /\ ready_queue \in Queue

\* os_task_create: 0 < prio < OS_CONFIG_PRIOCNT; only task_idle has prio 0.
ASSUME AppPrioAssumption == AppPrio \in [Task \ {Idle} -> SUBSET (Prio \ {0})]

\* task_idle runs the endless loop of os_start and may not block.
ASSUME ProfileAssumption == Exiting \subseteq Task \ {Idle} /\ Joining \subseteq Task \ {Idle}

ASSUME BoundAssumption == MaxNesting \in Nat /\ MaxLock \in Nat /\ BlocksLocked \in BOOLEAN

VARIABLES
    tq,            \* queues, and task_queue, prio_current and state of the TCBs
    prio_base,     \* TCB field: the priority given to os_task_create
    block_type,    \* TCB field: what the task blocked on last
    block_code,    \* TCB field: result of the last block, or the exit code
    join_sem,      \* TCB field: the task whose join semaphore waits for us
    task_current,
    isr_nesting,
    sched_lock,
    pc,            \* where each task goes on when it has the CPU
    lock_depth,    \* os_scheduler_lock calls each task has still to undo
    deferred       \* history: a call of os_schedule was skipped and is not
                   \* made up for yet

tcbVars == <<prio_base, block_type, block_code, join_sem>>
cpuVars == <<isr_nesting, sched_lock, lock_depth>>
vars    == <<tq, prio_base, block_type, block_code, join_sem, task_current,
             isr_nesting, sched_lock, pc, lock_depth, deferred>>

(***************************************************************************)
(* Control locations:                                                      *)
(*   boot       task_idle between os_init and os_start, interrupts off     *)
(*   start      os_start, interrupts on, before its first os_schedule      *)
(*   run        application code; also what arch_task_init prepares, so    *)
(*              the value for a TCB that holds no task                     *)
(*   sched      inside os_schedule, behind arch_context_switch             *)
(*   unlock     os_scheduler_unlock, lock dropped, before os_schedule      *)
(*   join_wait  os_task_join, behind the switch of os_task_block_switch    *)
(*   join_end   os_task_join, behind os_sem_destroy                        *)
(*   mtx_wait   os_mtx_lock, behind the switch of os_task_block_switch     *)
(*   sem_wait   os_sem_down, behind the switch of os_task_block_switch     *)
(*   wq_wait    os_waitqueue_wait, behind that switch                      *)
(*   wq_...     the other steps of a wait queue's receiver (WaitQueue)     *)
(* Interrupts are off everywhere but at the locations of Interruptible.    *)
(***************************************************************************)
Interruptible == {"start", "run", "unlock",
                  "wq_prepare", "wq_check", "wq_suspend", "wq_go", "wq_break"}
Label == {"boot", "sched", "join_wait", "join_end", "mtx_wait", "sem_wait", "wq_wait"}
            \cup Interruptible

TypeOK ==
    /\ tq \in TaskQueueType
    /\ prio_base \in [Task -> Prio]
    /\ block_type \in [Task -> {"INVALID", "SEM", "MTX", "WAITQUEUE"}]
    /\ block_code \in [Task -> {"OK", "DESTROYED", "TIMEOUT", "EXIT"}]
    /\ join_sem \in [Task -> Task \cup {NULL}]
    /\ task_current \in Task
    /\ isr_nesting \in Nat
    /\ sched_lock \in Nat
    /\ pc \in [Task -> Label]
    /\ lock_depth \in [Task -> Nat]
    /\ deferred \in BOOLEAN

\* The state that os_init leaves.
Init ==
    /\ tq = [ tasks        |-> [q \in Queue |-> EmptyBuckets],
              mask         |-> [q \in Queue |-> {}],
              task_queue   |-> [t \in Task |-> NULL],
              prio_current |-> [t \in Task |-> 0],
              state        |-> [t \in Task |-> IF t = Idle THEN "RUNNING" ELSE "INVALID"] ]
    /\ prio_base = [t \in Task |-> 0]
    /\ block_type = [t \in Task |-> "INVALID"]
    /\ block_code = [t \in Task |-> "OK"]
    /\ join_sem = [t \in Task |-> NULL]
    /\ task_current = Idle
    /\ isr_nesting = 0
    /\ sched_lock = 1
    /\ pc = [t \in Task |-> IF t = Idle THEN "boot" ELSE "run"]
    /\ lock_depth = [t \in Task |-> 0]
    /\ deferred = FALSE

---------------------------------------------------------------------------
(* The scheduler core.  s is the value of tq the caller has computed.      *)

\* Mutant: the task is marked READY and not linked.
os_task_makeready_unlinked(s, t) == [s EXCEPT !.state[t] = "READY"]

os_task_makeready(s, t) ==
    os_taskqueue_enqueue([s EXCEPT !.state[t] = "READY"], ready_queue, t)

os_task_makewait(s, q) ==
    os_taskqueue_enqueue([s EXCEPT !.state[task_current] = "WAIT"], q, task_current)

\* Mutant: os_schedule takes any READY task.
NextTask_any(s, h) == os_taskqueue_dequeue(s, ready_queue)

\* Mutant: os_schedule never switches to a task of equal priority.
NextTask_higher(s, h) ==
    os_taskqueue_dequeue_prio(s, ready_queue, s.prio_current[task_current] + 1)

\* The task that os_schedule(h) switches to, or NULL.
NextTask(s, h) ==
    os_taskqueue_dequeue_prio(s, ready_queue, s.prio_current[task_current] + h)

(***************************************************************************)
(* os_schedule(h), as the last call of a step.  ret is where task_current  *)
(* goes on when os_schedule returns.  Outside of an ISR the task behind    *)
(* the switch is the one that sets its own state to RUNNING, and only if   *)
(* it was itself switched out here (label sched) or in                     *)
(* os_task_block_switch; in an ISR the new task_current is set to RUNNING  *)
(* right away.                                                             *)
(***************************************************************************)
os_schedule(s, ret, h) ==
    LET may  == isr_nesting <= 1 /\ sched_lock' = 0
        next == NextTask(s, h)
        out  == os_task_makeready(next.s, task_current)
    IN  /\ deferred' = ~may
        /\ IF ~may \/ next.task = NULL
           THEN /\ tq' = s
                /\ pc' = [pc EXCEPT ![task_current] = ret]
                /\ UNCHANGED task_current
           ELSE /\ task_current' = next.task
                /\ IF isr_nesting = 0
                   THEN /\ tq' = out
                        /\ pc' = [pc EXCEPT ![task_current] =
                                     IF ret = "run" THEN "sched" ELSE ret]
                   ELSE /\ tq' = [out EXCEPT !.state[next.task] = "RUNNING"]
                        /\ UNCHANGED pc

\* Mutant: the loop of the destroy functions ends after one waiter.
WakeOne(s, q) ==
    LET d == os_taskqueue_dequeue(s, q)
    IN  IF d.task = NULL THEN s ELSE os_task_makeready(d.s, d.task)

\* The loop of the destroy functions: every waiter of q becomes READY, in the
\* order os_taskqueue_dequeue delivers them.
WakeAll(s, q) ==
    LET woken[n \in 0 .. Cardinality(Task)] ==
            IF n = 0 THEN s
            ELSE LET d == os_taskqueue_dequeue(woken[n - 1], q)
                 IN  IF d.task = NULL THEN d.s ELSE os_task_makeready(d.s, d.task)
    IN  woken[Cardinality(Task)]

\* Mutant: only tasks of a higher priority are considered.
SwitchAway_prio(s, ret) ==
    LET next == NextTask(s, 1)
    IN  /\ tq' = next.s
        /\ task_current' = next.task
        /\ pc' = [pc EXCEPT ![task_current] = ret]
        /\ deferred' = FALSE

\* The switch of a task that cannot go on, to the top READY task.
SwitchAway(s, ret) ==
    LET next == os_taskqueue_dequeue(s, ready_queue)
    IN  /\ tq' = next.s
        /\ task_current' = next.task
        /\ pc' = [pc EXCEPT ![task_current] = ret]
        /\ deferred' = FALSE

os_task_block_switch(s, q, type, ret) ==
    /\ SwitchAway(os_task_makewait(s, q), ret)
    /\ block_type' = [block_type EXCEPT ![task_current] = type]

---------------------------------------------------------------------------
(* Application code in task context.                                       *)

\* task_current runs code that calls the API, outside of any ISR.
InTask == isr_nesting = 0 /\ pc[task_current] = "run"

\* Application rule for calls that block; the code does not check it.
MayBlock == BlocksLocked \/ lock_depth[task_current] = 0

\* Mutant: the lock is a flag.
os_scheduler_lock_flag ==
    /\ isr_nesting = 0
    /\ pc[task_current] \in {"boot", "run"}
    /\ lock_depth[task_current] < MaxLock
    /\ sched_lock' = 1
    /\ lock_depth' = [lock_depth EXCEPT ![task_current] = @ + 1]
    /\ UNCHANGED <<tq, tcbVars, task_current, isr_nesting, pc, deferred>>

\* Allowed before os_start too, where sched_lock is 1 already.
os_scheduler_lock ==
    /\ isr_nesting = 0
    /\ pc[task_current] \in {"boot", "run"}
    /\ lock_depth[task_current] < MaxLock
    /\ sched_lock' = sched_lock + 1
    /\ lock_depth' = [lock_depth EXCEPT ![task_current] = @ + 1]
    /\ UNCHANGED <<tq, tcbVars, task_current, isr_nesting, pc, deferred>>

\* The atomic decrement.  Only without sync, and for the last lock, does
\* the function go on to its critical section; an ISR may come in between.
os_scheduler_unlock(sync) ==
    /\ isr_nesting = 0
    /\ pc[task_current] \in {"boot", "run"}
    /\ lock_depth[task_current] > 0
    /\ sched_lock' = sched_lock - 1
    /\ lock_depth' = [lock_depth EXCEPT ![task_current] = @ - 1]
    /\ pc' = [pc EXCEPT ![task_current] =
                 IF ~sync /\ sched_lock' = 0 THEN "unlock" ELSE @]
    /\ UNCHANGED <<tq, tcbVars, task_current, isr_nesting, deferred>>

os_scheduler_unlock_schedule ==
    /\ isr_nesting = 0
    /\ pc[task_current] = "unlock"
    /\ UNCHANGED <<tcbVars, cpuVars>>
    /\ os_schedule(tq, "run", 1)

\* os_start up to arch_eint().  Application rule: the locks taken since os_init
\* are undone.  The code does not check it and would forget them.
os_start ==
    /\ pc[task_current] = "boot"
    /\ lock_depth[task_current] = 0
    /\ sched_lock' = 0
    /\ pc' = [pc EXCEPT ![task_current] = "start"]
    /\ UNCHANGED <<tq, tcbVars, task_current, isr_nesting, lock_depth, deferred>>

os_start_schedule ==
    /\ isr_nesting = 0
    /\ pc[task_current] = "start"
    /\ UNCHANGED <<tcbVars, cpuVars>>
    /\ os_schedule(tq, "run", 0)

(***************************************************************************)
(* os_task_init and arch_task_init work before the critical section, which *)
(* another task or an ISR may delay.  They touch only a TCB and a stack    *)
(* that the caller has for itself: the TCB is on no queue and no other     *)
(* call may name it yet (it counts as INVALID all the while, whatever its  *)
(* state field holds meanwhile).  So all of the call is the one step in    *)
(* which the task appears, the critical section.  The memset of            *)
(* os_task_init is in the assignments to the fields of t; arch_task_init   *)
(* points the context of t at its procedure (pc[t] = "run").               *)
(***************************************************************************)
os_task_create(t, prio) ==
    /\ isr_nesting = 0
    /\ pc[task_current] \in {"boot", "run"}
    /\ tq.state[t] = "INVALID"
    /\ prio_base' = [prio_base EXCEPT ![t] = prio]
    /\ block_type' = [block_type EXCEPT ![t] = "INVALID"]
    /\ block_code' = [block_code EXCEPT ![t] = "OK"]
    /\ join_sem' = [join_sem EXCEPT ![t] = NULL]
    /\ UNCHANGED cpuVars
    /\ LET new == [tq EXCEPT !.prio_current[t] = prio, !.state[t] = "READY"]
       IN  os_schedule(os_taskqueue_enqueue(new, ready_queue, t), pc[task_current], 1)

os_yield ==
    /\ InTask
    /\ task_current # Idle
    /\ UNCHANGED <<tcbVars, cpuVars>>
    /\ os_schedule(tq, "run", 0)

(***************************************************************************)
(* os_task_join(u): a task that has exited is reaped at once, for another  *)
(* one the caller blocks on a fresh semaphore on its own stack, which      *)
(* os_task_exit will find through u->join_sem.  Joining oneself or         *)
(* task_idle, which never exit meanwhile, is left out.                     *)
(***************************************************************************)
MayJoin(u) ==
    /\ InTask
    /\ task_current \in Joining
    /\ u \notin {task_current, Idle}
    /\ join_sem[u] = NULL

os_task_join_reap(u) ==
    /\ MayJoin(u)
    /\ tq.state[u] = "DESTROYED"
    /\ tq' = [tq EXCEPT !.state[u] = "INVALID"]
    /\ UNCHANGED <<tcbVars, task_current, cpuVars, pc, deferred>>

os_task_join_wait(u) ==
    /\ MayJoin(u)
    /\ MayBlock
    /\ tq.state[u] \in {"RUNNING", "READY", "WAIT"}
    /\ join_sem' = [join_sem EXCEPT ![u] = task_current]
    /\ UNCHANGED <<prio_base, block_code, cpuVars>>
    /\ os_task_block_switch(tq, task_current, "SEM", "join_wait")

\* Back from os_sem_down: os_sem_destroy of a semaphore nobody waits on,
\* which still ends in os_schedule(1).
os_task_join_woken ==
    /\ isr_nesting = 0
    /\ pc[task_current] = "join_wait"
    /\ UNCHANGED <<tcbVars, cpuVars>>
    /\ os_schedule([tq EXCEPT !.state[task_current] = "RUNNING"], "join_end", 1)

os_task_join_end ==
    /\ isr_nesting = 0
    /\ pc[task_current] = "join_end"
    /\ \E u \in Task :
          /\ join_sem[u] = task_current
          /\ tq' = [tq EXCEPT !.state[task_current] = "RUNNING",
                              !.state[u] = "INVALID"]
          /\ join_sem' = [join_sem EXCEPT ![u] = NULL]
    /\ pc' = [pc EXCEPT ![task_current] = "run"]
    /\ UNCHANGED <<prio_base, block_type, block_code, task_current, cpuVars, deferred>>

\* Mutant: nobody tells the joining task.
WakeJoining_never(s, sem) == s

\* os_sem_up_sync(join_sem, true) of os_task_exit: the joining task is woken
\* without a switch, the exiting task needs its TCB and stack a bit longer.
WakeJoining(s, sem) ==
    LET d == os_taskqueue_dequeue(s, sem)
    IN  IF sem = NULL \/ d.task = NULL THEN s ELSE os_task_makeready(d.s, d.task)

\* Mutant: the exit code is not stored.
ExitCodes_unset == [t \in Task |-> IF t = join_sem[task_current] THEN "OK" ELSE block_code[t]]

\* block_code shares its memory with the exit code; os_sem_up_sync sets that
\* of the joining task.
ExitCodes ==
    [t \in Task |-> IF t = task_current THEN "EXIT"
                    ELSE IF t = join_sem[task_current] THEN "OK"
                    ELSE block_code[t]]

\* The caller has undone its scheduler locks: a task that exits may not hold
\* resources.
os_task_exit ==
    /\ InTask
    /\ task_current \in Exiting
    /\ lock_depth[task_current] = 0
    /\ block_code' = ExitCodes
    /\ UNCHANGED <<prio_base, block_type, join_sem, cpuVars>>
    /\ SwitchAway(WakeJoining([tq EXCEPT !.state[task_current] = "DESTROYED"],
                              join_sem[task_current]),
                  "run")

\* A task switched out in os_schedule has the CPU again.
os_schedule_return ==
    /\ isr_nesting = 0
    /\ pc[task_current] = "sched"
    /\ tq' = [tq EXCEPT !.state[task_current] = "RUNNING"]
    /\ pc' = [pc EXCEPT ![task_current] = "run"]
    /\ UNCHANGED <<tcbVars, task_current, cpuVars, deferred>>

---------------------------------------------------------------------------
(* Interrupts.                                                             *)

\* The first level interrupts a task with interrupts enabled, a further one
\* an ISR that has enabled them again.
arch_contextstore_i ==
    /\ isr_nesting < MaxNesting
    /\ isr_nesting = 0 => pc[task_current] \in Interruptible
    /\ isr_nesting' = isr_nesting + 1
    /\ UNCHANGED <<tq, tcbVars, task_current, sched_lock, pc, lock_depth, deferred>>

arch_contextrestore_i ==
    /\ isr_nesting > 0
    /\ isr_nesting' = isr_nesting - 1
    /\ UNCHANGED <<tq, tcbVars, task_current, sched_lock, pc, lock_depth, deferred>>

\* os_tick with no timer armed: round robin among tasks of one priority.
os_tick ==
    /\ isr_nesting > 0
    /\ UNCHANGED <<tcbVars, cpuVars>>
    /\ os_schedule(tq, pc[task_current], 0)

---------------------------------------------------------------------------
Create == \E t \in Task \ {Idle} : \E prio \in AppPrio[t] : os_task_create(t, prio)
Join   == \E u \in Task : os_task_join_wait(u)
Reap   == \E u \in Task : os_task_join_reap(u)
Unlock == \E sync \in BOOLEAN : os_scheduler_unlock(sync)

\* The calls a task that owns a mutex may not make: os_sem_down asserts it for
\* the wait of os_task_join, os_sched.h demands it of os_task_exit.
Leave == Join \/ os_task_exit

\* Everything that goes on whatever a task owns, but the tick.
Calls ==
    \/ Create
    \/ os_start \/ os_start_schedule
    \/ os_scheduler_lock \/ Unlock \/ os_scheduler_unlock_schedule
    \/ os_yield
    \/ Reap \/ os_task_join_woken \/ os_task_join_end
    \/ os_schedule_return
    \/ arch_contextstore_i \/ arch_contextrestore_i

Stay == Calls \/ os_tick

Next == Leave \/ Stay

Spec == Init /\ [][Next]_vars

---------------------------------------------------------------------------
(* Properties.                                                             *)

\* The bit masks, the buckets and the TCB fields agree after every step, so
\* os_taskqueue_dequeue never looks into an empty bucket and never misses a
\* task, whatever sequence of enqueue, unlink and dequeue led here.
QueuesCoherent == Coherent(tq)

(***************************************************************************)
(* No task is lost and none is in two places: the tasks that can go on     *)
(* (READY or RUNNING) are task_current, which is on no queue, and those of *)
(* the ready queue, the WAIT tasks those on the queue of an object; only   *)
(* task_current is RUNNING.                                                *)
(* This is less than os_sched.h:40-43 says.  task_current need not be      *)
(* RUNNING: until its first turn through os_schedule a new task runs as    *)
(* READY, and so does a task until the code behind its switch marks it.    *)
(* So "READY" alone does not place a task on ready_queue.                  *)
(***************************************************************************)
EachTaskInItsPlace ==
    \A t \in Task :
        /\ tq.state[t] \in {"READY", "RUNNING"}
              <=> t = task_current \/ tq.task_queue[t] = ready_queue
        /\ tq.state[t] = "WAIT" <=> tq.task_queue[t] \in Queue \ {ready_queue}
        /\ t = task_current => tq.task_queue[t] = NULL
        /\ tq.state[t] = "RUNNING" => t = task_current

\* A task that blocks or exits always finds another one to switch to, because
\* task_idle is READY whenever it does not run (os_task_block_switch,
\* os_task_exit: "at least idle task is READY").
IdleIsAvailable == task_current = Idle \/ tq.task_queue[Idle] = ready_queue

\* No READY task is more urgent than the running one.
TopRuns ==
    \A t \in OnQueue(tq, ready_queue) : tq.prio_current[t] <= tq.prio_current[task_current]

\* Strict priorities: no READY task outranks the running one, unless a call
\* of os_schedule was skipped (scheduler locked, nested ISR) and no later
\* scheduling point has made up for it.
HighestPrioRuns == deferred \/ TopRuns

\* The calls of os_scheduler_lock that are not undone yet, those of tasks that
\* blocked meanwhile too.
OpenLocks == UNION {{t} \X (1 .. lock_depth[t]) : t \in Task}

\* Somebody has locked the scheduler; os_init has, until os_start.
Locked == OpenLocks # {} \/ pc[task_current] = "boot"

(***************************************************************************)
(* os_sched.h:180 on os_scheduler_lock, "scheduler will remain disabled    *)
(* until os_scheduler_unlock() call same number of times", told by what    *)
(* the tasks have called and by who has the CPU.  LockStops: as long as a  *)
(* call of any task is not undone, be that task asleep by now, the CPU     *)
(* goes to another task only when the running one blocks or exits.         *)
(* LockEnds: once all are undone (and outside of nested ISRs) no step      *)
(* makes a more urgent task READY and leaves it without the CPU.           *)
(***************************************************************************)
LockStops ==
    Locked => task_current' = task_current \/ tq'.state[task_current] \in {"WAIT", "DESTROYED"}

LockEnds == TopRuns /\ ~TopRuns' => Locked \/ isr_nesting > 1

LockObeyed == [][LockStops /\ LockEnds]_vars

\* When os_task_join goes on behind its semaphore, the semaphore was raised
\* by the exit of the task it joins, and that task has still its exit code:
\* the assertions of os_task_join hold, and the code it returns is not a
\* block_code written into the shared union.
JoinedTaskHasExited ==
    \A t \in Task :
        pc[t] \in {"join_wait", "join_end"} /\ tq.state[t] # "WAIT" =>
            /\ block_code[t] = "OK"
            /\ \E u \in Task : /\ join_sem[u] = t
                               /\ tq.state[u] = "DESTROYED"
                               /\ block_code[u] = "EXIT"

\* A task waits in os_task_join only for a task that will still signal it.
JoinIsNeverLost ==
    \A t \in Task : pc[t] = "join_wait" /\ tq.state[t] = "WAIT" =>
        /\ tq.task_queue[t] = t
        /\ \E u \in Task : /\ join_sem[u] = t
                           /\ tq.state[u] \in {"RUNNING", "READY", "WAIT"}

\* Bucket new is bucket old with tasks taken out of it and newcomers behind
\* those that stay: whoever is in front of a task that stays was in front of
\* it before.
KeepsOrder(old, new) ==
    \A i, j \in DOMAIN new : i < j /\ new[j] \in ToSet(old) =>
        \E k, l \in DOMAIN old : k < l /\ old[k] = new[i] /\ old[l] = new[j]

\* Tasks of one priority are served first come first served, on the ready
\* queue and by every object (os_sched.h on os_task_create): those that stay
\* in a bucket keep their order and a newcomer goes behind them.
FifoStep ==
    \A q \in Queue, p \in Prio : KeepsOrder(tq.tasks[q][p], tq'.tasks[q][p])

FifoOrder == [][FifoStep]_vars

---------------------------------------------------------------------------
(* Liveness.  Fairness: a CPU that has work does it (the continuations of  *)
(* interrupted kernel code and of ISRs), and the tick interrupt is         *)
(* periodic, so it is raised and it calls os_tick again and again.         *)
(* Mtx and Sem state it for their actions.                                 *)

Continue ==
    \/ os_start_schedule \/ os_scheduler_unlock_schedule
    \/ os_task_join_woken \/ os_task_join_end \/ os_schedule_return

\* Round robin: a READY task gets the CPU unless a task of a higher priority
\* has it; peers that never give up the CPU, and lock the scheduler at times,
\* cannot keep it waiting for ever (os_sched.h on os_task_create: "scheduled
\* in round robin manner").
RoundRobin ==
    \A t \in Task :
        tq.task_queue[t] = ready_queue
            ~> \/ task_current = t
               \/ tq.prio_current[task_current] > tq.prio_current[t]

---------------------------------------------------------------------------
(* Tasks as their creators see them.                                       *)

Life(t) == CASE tq.state[t] = "INVALID"              -> "none"
             [] tq.state[t] \in {"READY", "RUNNING"} -> "ready"
             [] tq.state[t] = "WAIT"                 -> "join"
             [] tq.state[t] = "DESTROYED"            -> "done"

Joins(t) == IF \E u \in Task : join_sem[u] = t
            THEN CHOOSE u \in Task : join_sem[u] = t
            ELSE NULL

Tasks == INSTANCE AbstractSched WITH
    life   <- [t \in Task |-> Life(t)],
    rank   <- tq.prio_current,
    awaits <- [t \in Task |-> Joins(t)],
    cpu    <- task_current,
    None   <- NULL

\* The scheduler, with its queues, locks, interrupts and joins that are cut by
\* switches, behaves like AbstractSched.
ImplementsAbstractSched == Tasks!ASpec
=============================================================================
