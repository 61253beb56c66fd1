------------------------------ MODULE WaitQueue ------------------------------
(***************************************************************************)
(* The wait queues of RadOs (os_waitqueue.c) with the receiver and the     *)
(* notifier that os_waitqueue.h prescribes: the receiver prepares, checks  *)
(* its condition with the scheduler locked and interrupts on, and then     *)
(* breaks off or waits; the notifier sets the condition and wakes.         *)
(***************************************************************************)
EXTENDS Guard

CONSTANTS WaitQueues, \* the queue of waiters of a wait queue has its name
          Counts      \* numbers of tasks that a notifier asks to wake

ASSUME WaitQueuesAssumption == WaitQueues \subseteq Queue \ (Task \cup {ready_queue})

\* os_waitqueue_wakeup_sync asserts wakeup_cnt > 0; it is an 8 bit integer.
ASSUME CountsAssumption == Counts \subseteq 1 .. 255

VARIABLES
    waitqueue_current, \* the wait queue task_current is prepared for, or NULL
    wq_arg,            \* the wait queue each task has passed to prepare
    live,              \* the wait queue is created and not destroyed
    test_condition,    \* the condition of the receivers of each wait queue
    owed               \* history: the condition was set, and the notifier has
                       \* not woken all receivers since

condVars  == <<live, test_condition, owed>>
queueVars == <<waitqueue_current, wq_arg, condVars>>
wqVars    == <<queueVars, guardVars>>
allVars   == <<vars, wqVars>>

WaitQueueTypeOK ==
    /\ TypeOK
    /\ GuardTypeOK
    /\ waitqueue_current \in WaitQueues \cup {NULL}
    /\ wq_arg \in [Task -> WaitQueues \cup {NULL}]
    /\ live \in [WaitQueues -> BOOLEAN]
    /\ test_condition \in [WaitQueues -> BOOLEAN]
    /\ owed \in [WaitQueues -> BOOLEAN]

WaitQueueInit ==
    /\ Init
    /\ GuardInit
    /\ waitqueue_current = NULL
    /\ wq_arg = [t \in Task |-> NULL]
    /\ live = [q \in WaitQueues |-> FALSE]
    /\ test_condition = [q \in WaitQueues |-> FALSE]
    /\ owed = [q \in WaitQueues |-> FALSE]

OS_WAITQUEUE_ALL == 255

Waiters(q) == OnQueue(tq, q)

\* task_current is at label l, outside of any ISR.
At(l) == isr_nesting = 0 /\ pc[task_current] = l

\* task_current goes on at label l.
GoTo(l) == pc' = [pc EXCEPT ![task_current] = l]

---------------------------------------------------------------------------
os_waitqueue_create(q) ==
    /\ At("boot") \/ At("run")
    /\ ~live[q]
    /\ live' = [live EXCEPT ![q] = TRUE]
    /\ UNCHANGED <<vars, guardVars, waitqueue_current, wq_arg, test_condition, owed>>

os_waitqueue_destroy(q) ==
    /\ InTask
    /\ live[q]
    /\ live' = [live EXCEPT ![q] = FALSE]
    /\ test_condition' = [test_condition EXCEPT ![q] = FALSE]
    /\ owed' = [owed EXCEPT ![q] = FALSE]
    /\ os_blocktimer_destroy(Waiters(q))
    /\ block_code' = [t \in Task |-> IF t \in Waiters(q) THEN "DESTROYED" ELSE block_code[t]]
    /\ UNCHANGED <<prio_base, block_type, join_sem, cpuVars, waitqueue_current, wq_arg>>
    /\ os_schedule(WakeAll(tq, q), "run", 1)

---------------------------------------------------------------------------
(* The receiver.                                                           *)

\* Mutant: the receiver stays preemptible.
PrepareLock_not == UNCHANGED <<sched_lock, lock_depth>>

\* The os_scheduler_lock of os_waitqueue_prepare.
PrepareLock ==
    /\ sched_lock' = sched_lock + 1
    /\ lock_depth' = [lock_depth EXCEPT ![task_current] = @ + 1]

os_waitqueue_prepare(q) ==
    /\ InTask
    /\ task_current # Idle
    /\ live[q]
    /\ MayBlock
    /\ PrepareLock
    /\ wq_arg' = [wq_arg EXCEPT ![task_current] = q]
    /\ GoTo("wq_prepare")
    /\ UNCHANGED <<tq, tcbVars, task_current, isr_nesting, deferred, waitqueue_current,
                   condVars, guardVars>>

\* An ISR may come between the lock and the store.
os_waitqueue_prepare_store ==
    /\ At("wq_prepare")
    /\ waitqueue_current' = wq_arg[task_current]
    /\ GoTo("wq_check")
    /\ UNCHANGED <<tq, tcbVars, task_current, cpuVars, deferred, wq_arg, condVars, guardVars>>

\* The receiver reads the condition; one that finds it true takes it.
CheckCondition ==
    LET q == wq_arg[task_current]
    IN  /\ At("wq_check")
        /\ test_condition' = [test_condition EXCEPT ![q] = FALSE]
        /\ GoTo(IF test_condition[q] THEN "wq_go" ELSE "wq_suspend")
        /\ UNCHANGED <<tq, tcbVars, task_current, cpuVars, deferred, waitqueue_current, wq_arg,
                       live, owed, guardVars>>

os_waitqueue_break ==
    /\ At("wq_go")
    /\ waitqueue_current' = NULL
    /\ wq_arg' = [wq_arg EXCEPT ![task_current] = NULL]
    /\ GoTo("wq_break")
    /\ UNCHANGED <<tq, tcbVars, task_current, cpuVars, deferred, condVars, guardVars>>

\* Mutant: the lock of os_waitqueue_prepare is not undone.
Unprepare_locked ==
    /\ lock_depth' = [lock_depth EXCEPT ![task_current] = @ - 1]
    /\ UNCHANGED sched_lock

Unprepare ==
    /\ lock_depth' = [lock_depth EXCEPT ![task_current] = @ - 1]
    /\ sched_lock' = sched_lock - 1

\* The atomic decrement of os_scheduler_unlock(false).
os_waitqueue_break_unlock ==
    /\ At("wq_break")
    /\ Unprepare
    /\ GoTo(IF sched_lock' = 0 THEN "unlock" ELSE "run")
    /\ UNCHANGED <<tq, tcbVars, task_current, isr_nesting, deferred, wqVars>>

(***************************************************************************)
(* os_waitqueue_wait: blocks if no ISR has taken back the preparation.     *)
(* Otherwise it returns the block_code as it is, without a scheduling      *)
(* point.                                                                  *)
(***************************************************************************)
os_waitqueue_wait_block(timeout) ==
    /\ At("wq_suspend")
    /\ waitqueue_current # NULL
    /\ Unprepare
    /\ os_blocktimer_create(timeout)
    /\ waitqueue_current' = NULL
    /\ wq_arg' = [wq_arg EXCEPT ![task_current] = NULL]
    /\ UNCHANGED <<prio_base, block_code, join_sem, isr_nesting, condVars>>
    /\ os_task_block_switch(tq, waitqueue_current, "WAITQUEUE", "wq_wait")

os_waitqueue_wait_skip ==
    /\ At("wq_suspend")
    /\ waitqueue_current = NULL
    /\ Unprepare
    /\ wq_arg' = [wq_arg EXCEPT ![task_current] = NULL]
    /\ GoTo("run")
    /\ UNCHANGED <<tq, tcbVars, task_current, isr_nesting, deferred, waitqueue_current,
                   condVars, guardVars>>

\* Back from os_task_block_switch; block_code is the result.
os_waitqueue_wait_woken ==
    /\ At("wq_wait")
    /\ tq' = [tq EXCEPT !.state[task_current] = "RUNNING"]
    /\ os_blocktimer_destroy({task_current})
    /\ GoTo("run")
    /\ UNCHANGED <<tcbVars, task_current, cpuVars, deferred, queueVars>>

---------------------------------------------------------------------------
(* The notifier: a task, or an ISR, which may have interrupted a receiver. *)

Notifier == At("boot") \/ At("run") \/ isr_nesting > 0

SetCondition(q) ==
    /\ Notifier
    /\ live[q]
    /\ test_condition' = [test_condition EXCEPT ![q] = TRUE]
    /\ owed' = [owed EXCEPT ![q] = TRUE]
    /\ UNCHANGED <<vars, guardVars, waitqueue_current, wq_arg, live>>

\* The queues and the tasks woken when up to n waiters of q are made READY.
Wakeup(q, n) ==
    LET woken[k \in 0 .. n] ==
            IF k = 0 THEN [s |-> tq, tasks |-> {}]
            ELSE LET r == woken[k - 1]
                     d == os_taskqueue_dequeue(r.s, q)
                 IN  IF d.task = NULL THEN r
                     ELSE [s     |-> os_task_makeready(d.s, d.task),
                           tasks |-> r.tasks \cup {d.task}]
    IN  woken[n]

\* Mutant: only tasks on the queue count as receivers.
Prepared_never(q) == FALSE

\* An ISR wakes the task it has interrupted, which is not on the queue yet.
Prepared(q) == isr_nesting > 0 /\ waitqueue_current = q

os_waitqueue_wakeup_sync(q, wakeup_cnt, sync) ==
    LET all == wakeup_cnt = OS_WAITQUEUE_ALL
        n   == IF all THEN Cardinality(Task)
               ELSE IF Prepared(q) THEN wakeup_cnt - 1 ELSE wakeup_cnt
    IN  /\ Notifier
        /\ isr_nesting > 0 => ~sync
        /\ live[q]
        /\ owed' = [owed EXCEPT ![q] = @ /\ ~all]
        /\ waitqueue_current' = IF Prepared(q) THEN NULL ELSE waitqueue_current
        /\ UNCHANGED <<prio_base, block_type, join_sem, cpuVars, wq_arg, live, test_condition>>
        /\ \E w \in {Wakeup(q, n)} :
              /\ os_blocktimer_destroy(w.tasks)
              /\ block_code' = [t \in Task |-> IF t \in w.tasks THEN "OK" ELSE block_code[t]]
              /\ IF sync \/ w.tasks = {}
                 THEN /\ tq' = w.s
                      /\ deferred' = (deferred \/ w.tasks # {})
                      /\ UNCHANGED <<task_current, pc>>
                 ELSE os_schedule(w.s, pc[task_current], 1)

---------------------------------------------------------------------------
SchedCalls == (Leave \/ Calls) /\ UNCHANGED wqVars

Receive ==
    \/ os_waitqueue_prepare_store
    \/ CheckCondition
    \/ os_waitqueue_break \/ os_waitqueue_break_unlock
    \/ os_waitqueue_wait_skip
    \/ \E timeout \in Timeouts \cup {NULL} : os_waitqueue_wait_block(timeout)
    \/ os_waitqueue_wait_woken

Notify(q) ==
    \/ SetCondition(q)
    \/ \E n \in Counts, sync \in BOOLEAN : os_waitqueue_wakeup_sync(q, n, sync)

WaitQueueNext ==
    \/ SchedCalls
    \/ \E q \in WaitQueues :
          \/ os_waitqueue_create(q)
          \/ os_waitqueue_destroy(q)
          \/ os_waitqueue_prepare(q)
          \/ Notify(q)
    \/ Receive
    \/ os_tick_guards /\ UNCHANGED queueVars

WaitQueueSpec == WaitQueueInit /\ [][WaitQueueNext]_allVars

---------------------------------------------------------------------------
(* Properties.                                                             *)

\* No lost wake-up (os_waitqueue.h: "the receiver task will either see the
\* condition_test to be true or it will be woken up"): once the notifier has
\* set the condition and woken all, nobody sleeps on the queue, or is about
\* to, while the condition is true, wherever an ISR came in between.
NoLostWakeup ==
    \A q \in WaitQueues : test_condition[q] /\ ~owed[q] =>
        /\ Waiters(q) = {}
        /\ ~(pc[task_current] = "wq_suspend" /\ waitqueue_current = q)

\* waitqueue_current always belongs to task_current, which is between prepare
\* and its end: no other task finds it set and nobody is queued on the wait
\* queue of another task (the assertions on waitqueue_current hold).
PreparedIsCurrent ==
    waitqueue_current # NULL =>
        /\ pc[task_current] \in {"wq_check", "wq_suspend", "wq_go"}
        /\ waitqueue_current = wq_arg[task_current]

\* os_waitqueue.h on os_waitqueue_wait: "OS_OK in case task was woken up by
\* os_waitqueue_wakeup() called from other task or ISR".  A receiver whose
\* preparation an ISR took back gets its block_code as result.
WaitReturnsOk ==
    At("wq_suspend") /\ waitqueue_current = NULL => block_code[task_current] = "OK"

\* A notifier that asks for it (sync) makes receivers READY and keeps the CPU.
SyncWakeup == \E q \in WaitQueues, n \in Counts : os_waitqueue_wakeup_sync(q, n, TRUE)

\* The scheduler lock is kept through every way of receiving: from prepare to
\* break, wait or the wake-up by an ISR nobody preempts the receiver, and a
\* receiver that sleeps, or that did not have to, has left no lock behind that
\* would keep a more urgent task from the CPU (os_waitqueue.c:96, 111, 134).
ReceiverUnlocks == [][LockStops /\ (LockEnds \/ SyncWakeup)]_allVars

\* os_waitqueue.h:95 on tasks that an ISR wakes while the receiver is prepared:
\* "higher prio task will be executed only after task_current call
\* os_waitqueue_wait() or os_waitqueue_break()".  So the receiver that comes
\* back from these, with all locks undone, has let the more urgent tasks run.
ReceiverGivesWay ==
    [][pc[task_current] \in {"wq_suspend", "unlock"} /\ pc'[task_current] = "run" /\ ~Locked'
           => TopRuns']_allVars

=============================================================================
