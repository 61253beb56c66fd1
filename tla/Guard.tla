-------------------------------- MODULE Guard --------------------------------
(***************************************************************************)
(* The guard timers of RadOs: a task that blocks on a semaphore or a wait  *)
(* queue may put a timer on its stack that ends the wait (os_private.h,    *)
(* and the timer callbacks of os_sem.c and os_waitqueue.c, which do the    *)
(* same).                                                                  *)
(*                                                                         *)
(* A timer is modelled by what module Timer shows of it: its callback is   *)
(* called in the tick it is due, timers due in one tick in the order of    *)
(* their creation, and never after os_timer_destroy.                       *)
(***************************************************************************)
EXTENDS Sched

CONSTANTS Timeouts   \* the guard times the application uses

ASSUME GuardAssumption == Timeouts \subseteq Nat \ {0}

VARIABLES
    guard,   \* ticks until the timer of each task expires: 0 if it has, NULL
             \* if task->timer is NULL
    timers   \* the tasks with a running guard timer, oldest timer first

guardVars == <<guard, timers>>

GuardTypeOK ==
    /\ \A t \in Task : guard[t] = NULL \/ guard[t] \in Nat
    /\ timers \in Seq(Task)

GuardInit ==
    /\ guard = [t \in Task |-> NULL]
    /\ timers = <<>>

\* Before task_current blocks; timeout is NULL for OS_TIMEOUT_INFINITE.
os_blocktimer_create(timeout) ==
    /\ guard' = [guard EXCEPT ![task_current] = timeout]
    /\ timers' = IF timeout = NULL THEN timers ELSE Append(timers, task_current)

\* Mutant: the guard timer of a task that is woken is left alone.
Unguarded_not(T) == guard

\* The guards when those of the tasks T are destroyed.
Unguarded(T) == [t \in Task |-> IF t \in T THEN NULL ELSE guard[t]]

\* The elements of a list that are in T, in their order.
Only(list, T) ==
    LET only[n \in 0 .. Len(list)] ==
            IF n = 0 THEN <<>>
            ELSE IF list[n] \in T THEN Append(only[n - 1], list[n]) ELSE only[n - 1]
    IN  only[Len(list)]

Running(list, g) == Only(list, {t \in Task : g[t] # NULL /\ g[t] # 0})

\* The timers of the tasks T are destroyed.
os_blocktimer_destroy(T) ==
    /\ guard' = Unguarded(T)
    /\ timers' = Running(timers, guard')

\* os_sem_timerclbck and os_waitqueue_timerclbck.
timerclbck(s, t) == os_task_makeready(os_taskqueue_unlink(s, t), t)

\* The queues after the callbacks of the timers of due, in this order.
TimedOut(due) ==
    LET called[n \in 0 .. Len(due)] ==
            IF n = 0 THEN tq ELSE timerclbck(called[n - 1], due[n])
    IN  called[Len(due)]

\* Mutant: a timer that reaches its end is not noticed.
Due_missed(t) == guard[t] = 0

\* The timer of t expires with this tick.
Due(t) == guard[t] = 1

\* os_tick with the guard timers.
os_tick_guards ==
    /\ isr_nesting > 0
    /\ guard' = [t \in Task |-> IF guard[t] \in {NULL, 0} THEN guard[t] ELSE guard[t] - 1]
    /\ timers' = Running(timers, guard')
    /\ UNCHANGED <<prio_base, block_type, join_sem, cpuVars>>
    /\ \E due \in {Only(timers, {t \in Task : Due(t)})} :
           /\ block_code' = [t \in Task |-> IF t \in ToSet(due) THEN "TIMEOUT" ELSE block_code[t]]
           /\ \E woken \in {TimedOut(due)} : os_schedule(woken, pc[task_current], 0)

---------------------------------------------------------------------------
(* Properties.                                                             *)

\* A guard timer is attached to a task only while that task is in
\* os_sem_down or os_waitqueue_wait, on whose stack the timer is, and it runs
\* only while the task is still on the queue of the object: the assertions of
\* the callbacks and of os_blocktimer_create hold, and no late timeout hits a
\* task that was woken.
GuardsAreSafe ==
    \A t \in Task : guard[t] # NULL =>
        /\ pc[t] \in {"sem_wait", "wq_wait"}
        /\ guard[t] # 0 => tq.state[t] = "WAIT" /\ tq.task_queue[t] \notin Task

\* A task that waits with a guard does not wait for ever, even though nobody
\* signals, tasks of higher priority keep the CPU and ticks come while the
\* scheduler is locked.
GuardedWaitEnds ==
    \A t \in Task : (guard[t] # NULL /\ guard[t] # 0) ~> tq.state[t] # "WAIT"
=============================================================================
