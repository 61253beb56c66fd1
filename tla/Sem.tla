--------------------------------- MODULE Sem ---------------------------------
(***************************************************************************)
(* The semaphores of RadOs (os_sem.c) on top of the scheduler: signals     *)
(* from tasks and ISRs, waiting with a guard timer, and destruction while  *)
(* tasks wait.                                                             *)
(***************************************************************************)
EXTENDS Guard

CONSTANTS Semaphore, \* the queue of waiters of a semaphore has its name
          MaxValue   \* bound on the value; the code asserts one of its own

ASSUME SemaphoreAssumption == Semaphore \subseteq Queue \ (Task \cup {ready_queue})
ASSUME ValueAssumption == MaxValue \in Nat

VARIABLES
    value,   \* sem->value
    live     \* the semaphore is created and not destroyed

semVars == <<value, live, guardVars>>
allVars == <<vars, semVars>>

SemTypeOK ==
    /\ TypeOK
    /\ GuardTypeOK
    /\ value \in [Semaphore -> 0 .. MaxValue]
    /\ live \in [Semaphore -> BOOLEAN]

SemInit ==
    /\ Init
    /\ GuardInit
    /\ value = [s \in Semaphore |-> 0]
    /\ live = [s \in Semaphore |-> FALSE]

Waiters(s) == OnQueue(tq, s)

---------------------------------------------------------------------------
os_sem_create(s, init_value) ==
    /\ isr_nesting = 0
    /\ pc[task_current] \in {"boot", "run"}
    /\ ~live[s]
    /\ live' = [live EXCEPT ![s] = TRUE]
    /\ value' = [value EXCEPT ![s] = init_value]
    /\ UNCHANGED <<vars, guardVars>>

os_sem_destroy(s) ==
    /\ InTask
    /\ live[s]
    /\ live' = [live EXCEPT ![s] = FALSE]
    /\ value' = [value EXCEPT ![s] = 0]
    /\ os_blocktimer_destroy(Waiters(s))
    /\ block_code' = [t \in Task |-> IF t \in Waiters(s) THEN "DESTROYED" ELSE block_code[t]]
    /\ UNCHANGED <<prio_base, block_type, join_sem, cpuVars>>
    /\ os_schedule(WakeAll(tq, s), "run", 1)

(***************************************************************************)
(* os_sem_down(s): takes a signal, or blocks with or without a guard.      *)
(* With OS_TIMEOUT_TRY it returns at once and changes nothing.             *)
(***************************************************************************)
MayDown(s) ==
    /\ InTask
    /\ task_current # Idle
    /\ live[s]

os_sem_down_take(s) ==
    /\ MayDown(s)
    /\ value[s] > 0
    /\ value' = [value EXCEPT ![s] = @ - 1]
    /\ UNCHANGED <<vars, live, guardVars>>

os_sem_down_wait(s, timeout) ==
    /\ MayDown(s)
    /\ MayBlock
    /\ value[s] = 0
    /\ os_blocktimer_create(timeout)
    /\ UNCHANGED <<prio_base, block_code, join_sem, cpuVars, value, live>>
    /\ os_task_block_switch(tq, s, "SEM", "sem_wait")

\* Back from os_task_block_switch; block_code is the result of os_sem_down.
os_sem_down_woken ==
    /\ isr_nesting = 0
    /\ pc[task_current] = "sem_wait"
    /\ tq' = [tq EXCEPT !.state[task_current] = "RUNNING"]
    /\ os_blocktimer_destroy({task_current})
    /\ pc' = [pc EXCEPT ![task_current] = "run"]
    /\ UNCHANGED <<tcbVars, task_current, cpuVars, deferred, value, live>>

\* Mutant: the signal that wakes a task is counted too.
Upped_always(s, task) == [value EXCEPT ![s] = @ + 1]

\* A signal goes to a waiting task or into the value.
Upped(s, task) == IF task = NULL THEN [value EXCEPT ![s] = @ + 1] ELSE value

(***************************************************************************)
(* os_sem_up_sync, from a task or, without sync, from an ISR.  With sync   *)
(* the caller puts off the scheduling point.                               *)
(***************************************************************************)
os_sem_up_sync(s, sync) ==
    /\ isr_nesting = 0 => pc[task_current] \in {"boot", "run"}
    /\ isr_nesting > 0 => ~sync
    /\ live[s]
    /\ value[s] < MaxValue
    /\ UNCHANGED <<prio_base, block_type, join_sem, cpuVars, live>>
    /\ LET d == os_taskqueue_dequeue(tq, s)
       IN  /\ value' = Upped(s, d.task)
           /\ os_blocktimer_destroy({d.task})
           /\ IF d.task = NULL
              THEN UNCHANGED <<tq, block_code, task_current, pc, deferred>>
              ELSE /\ block_code' = [block_code EXCEPT ![d.task] = "OK"]
                   /\ IF sync
                      THEN /\ tq' = os_task_makeready(d.s, d.task)
                           /\ deferred' = TRUE
                           /\ UNCHANGED <<task_current, pc>>
                      ELSE os_schedule(os_task_makeready(d.s, d.task), pc[task_current], 1)

---------------------------------------------------------------------------
SchedCalls == (Leave \/ Calls) /\ UNCHANGED semVars

Down(s) ==
    \/ os_sem_down_take(s)
    \/ \E timeout \in Timeouts \cup {NULL} : os_sem_down_wait(s, timeout)

SemNext ==
    \/ SchedCalls
    \/ \E s \in Semaphore :
          \/ \E n \in 0 .. MaxValue : os_sem_create(s, n)
          \/ os_sem_destroy(s)
          \/ Down(s)
          \/ \E sync \in BOOLEAN : os_sem_up_sync(s, sync)
    \/ os_sem_down_woken
    \/ os_tick_guards /\ UNCHANGED <<value, live>>

SemSpec == SemInit /\ [][SemNext]_allVars

---------------------------------------------------------------------------
(* Properties.                                                             *)

\* Nobody sleeps on a semaphore that has signals left, and nobody on one
\* that is gone.
NoSleepWithSignals ==
    \A s \in Semaphore : Waiters(s) # {} => live[s] /\ value[s] = 0

\* The semaphores implement the abstract ones: a signal is never lost nor
\* given twice, and whichever of signal, timeout and destruction comes first
\* decides the result of os_sem_down.
Abstract == INSTANCE AbstractSem
              WITH waiters <- [s \in Semaphore |-> Waiters(s)],
                   result  <- [t \in Task |->
                       IF pc[t] = "sem_wait" /\ tq.state[t] # "WAIT"
                       THEN block_code[t] ELSE "NONE"]

ImplementsAbstractSem == Abstract!ASpec

\* Fairness: that of the scheduler, with the tick of this module.  No task
\* keeps the scheduler locked for ever, and the tick is not in step with the
\* locks of the application: it also comes while there is none.
SemFairness ==
    /\ WF_allVars((Continue /\ UNCHANGED semVars) \/ os_sem_down_woken)
    /\ SF_allVars(arch_contextstore_i /\ sched_lock = 0 /\ UNCHANGED semVars)
    /\ SF_allVars(os_tick_guards /\ sched_lock = 0 /\ UNCHANGED <<value, live>>)
    /\ WF_allVars(arch_contextrestore_i /\ UNCHANGED semVars)
    /\ []<>(sched_lock = 0)

SemFairSpec == SemSpec /\ SemFairness

=============================================================================
