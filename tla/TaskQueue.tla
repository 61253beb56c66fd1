------------------------------ MODULE TaskQueue ------------------------------
(***************************************************************************)
(* The task queues of RadOs (os_taskqueue_t, os_sched.h): one FIFO bucket  *)
(* per priority and a bit mask of the buckets in use.  The scheduler keeps *)
(* its READY tasks on such a queue and every mutex, semaphore and wait     *)
(* queue keeps its waiters on one.                                         *)
(*                                                                         *)
(* The functions of os_sched.c change the queue AND fields of the TCB, so  *)
(* they are modelled as operators on one record s that holds all queues    *)
(* and these fields of all tasks:                                          *)
(*                                                                         *)
(*    s.tasks[q][p]       bucket p of queue q, a sequence of tasks         *)
(*    s.mask[q]           the priorities whose bit is set in q->mask       *)
(*    s.task_queue[t]     t->task_queue, or NULL                           *)
(*    s.prio_current[t]   t->prio_current                                  *)
(*    s.state[t]          t->state; a queue function leaves it alone, its  *)
(*                        callers set it with every enqueue                *)
(*                                                                         *)
(* The callers hold the OS critical section around every one of them.      *)
(***************************************************************************)
EXTENDS Integers, SequencesExt

CONSTANTS Task,     \* the TCBs
          Queue,    \* the task queues, named by the object they belong to
          PRIOCNT,  \* OS_CONFIG_PRIOCNT
          NULL

ASSUME PrioAssumption == PRIOCNT \in Nat \ {0}
ASSUME NullAssumption == NULL \notin Task /\ NULL \notin Queue
ASSUME TaskAssumption == IsFiniteSet(Task)

Prio == 0 .. (PRIOCNT - 1)

\* os_taskstate_t.  INVALID also stands for a TCB that was never created.
TaskState == {"RUNNING", "READY", "WAIT", "DESTROYED", "INVALID"}

TaskQueueType ==
    [ tasks        : [Queue -> [Prio -> Seq(Task)]],
      mask         : [Queue -> SUBSET Prio],
      task_queue   : [Task -> Queue \cup {NULL}],
      prio_current : [Task -> Prio],
      state        : [Task -> TaskState] ]

\* list_unlink(): the bucket without its element t.
list_unlink(bucket, t) ==
    RemoveAt(bucket, CHOOSE i \in 1 .. Len(bucket) : bucket[i] = t)

\* The index of the highest bit counted from 1, and 0 for an empty mask.
arch_bitmask_fls(mask) == IF mask = {} THEN 0 ELSE 1 + Max(mask)

---------------------------------------------------------------------------
(* The state of a queue after os_taskqueue_init().                         *)
EmptyBuckets == [p \in Prio |-> <<>>]

---------------------------------------------------------------------------
\* Mutant: list_append at the wrong end.
os_taskqueue_enqueue_front(s, q, t) ==
    [s EXCEPT !.tasks[q][s.prio_current[t]] = <<t>> \o @,
              !.task_queue[t] = q,
              !.mask[q] = @ \cup {s.prio_current[t]}]

os_taskqueue_enqueue(s, q, t) ==
    [s EXCEPT !.tasks[q][s.prio_current[t]] = Append(@, t),
              !.task_queue[t] = q,
              !.mask[q] = @ \cup {s.prio_current[t]}]

os_taskqueue_unlink(s, t) ==
    LET q    == s.task_queue[t]
        p    == s.prio_current[t]
        rest == list_unlink(s.tasks[q][p], t)
    IN  [s EXCEPT !.tasks[q][p] = rest,
                  !.mask[q] = IF rest = <<>> THEN @ \ {p} ELSE @,
                  !.task_queue[t] = NULL]

\* Mutant: the task stays in the bucket of its old priority.
os_taskqueue_reprio_in_place(s, t, new_prio) == [s EXCEPT !.prio_current[t] = new_prio]

os_taskqueue_reprio(s, t, new_prio) ==
    LET q == s.task_queue[t]
    IN  IF s.prio_current[t] = new_prio THEN s
        ELSE IF q = NULL THEN [s EXCEPT !.prio_current[t] = new_prio]
        ELSE os_taskqueue_enqueue(
                [os_taskqueue_unlink(s, t) EXCEPT !.prio_current[t] = new_prio],
                q, t)

\* Mutant: the bit is cleared though tasks are left in the bucket.
os_taskqueue_intdequeue_clear(s, q, maxprio) ==
    LET task == Head(s.tasks[q][maxprio])
    IN  [ task |-> task,
          s    |-> [s EXCEPT !.tasks[q][maxprio] = Tail(@),
                             !.mask[q] = @ \ {maxprio},
                             !.task_queue[task] = NULL] ]

\* The dequeue functions return the task (or NULL) and the new queues.
os_taskqueue_intdequeue(s, q, maxprio) ==
    LET bucket == s.tasks[q][maxprio]
        task   == Head(bucket)
        rest   == Tail(bucket)
    IN  [ task |-> task,
          s    |-> [s EXCEPT !.tasks[q][maxprio] = rest,
                             !.mask[q] = IF rest = <<>> THEN @ \ {maxprio} ELSE @,
                             !.task_queue[task] = NULL] ]

os_taskqueue_dequeue(s, q) ==
    IF arch_bitmask_fls(s.mask[q]) = 0 THEN [task |-> NULL, s |-> s]
    ELSE os_taskqueue_intdequeue(s, q, arch_bitmask_fls(s.mask[q]) - 1)

os_taskqueue_dequeue_prio(s, q, prio) ==
    LET fls == arch_bitmask_fls(s.mask[q])
    IN  IF fls = 0 \/ fls - 1 < prio THEN [task |-> NULL, s |-> s]
        ELSE os_taskqueue_intdequeue(s, q, fls - 1)

os_taskqueue_peek(s, q) ==
    LET fls == arch_bitmask_fls(s.mask[q])
    IN  IF fls = 0 THEN NULL ELSE Head(s.tasks[q][fls - 1])

---------------------------------------------------------------------------
(* The tasks linked on a queue, in terms of their TCB.                     *)
OnQueue(s, q) == {t \in Task : s.task_queue[t] = q}

(***************************************************************************)
(* What the functions above rely on and maintain together: the mask says   *)
(* exactly which buckets are in use, and buckets and TCBs agree on where   *)
(* every task is.                                                          *)
(***************************************************************************)

\* Bit p of q->mask is set iff bucket p of q holds a task.
MaskExact(s) ==
    \A q \in Queue, p \in Prio : p \in s.mask[q] <=> s.tasks[q][p] # <<>>

\* Bucket p of q holds exactly the tasks whose TCB names q and p; so a task
\* is in one bucket at most, and in one if its TCB names a queue.
BucketsExact(s) ==
    \A q \in Queue, p \in Prio :
        ToSet(s.tasks[q][p]) = {t \in Task : s.task_queue[t] = q /\ s.prio_current[t] = p}

\* No task is linked twice in a bucket.
LinkedOnce(s) == \A q \in Queue, p \in Prio : IsInjective(s.tasks[q][p])

Coherent(s) ==
    /\ MaskExact(s)
    /\ BucketsExact(s)
    /\ LinkedOnce(s)
=============================================================================
