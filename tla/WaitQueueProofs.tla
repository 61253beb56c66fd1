--------------------------- MODULE WaitQueueProofs ---------------------------
(***************************************************************************)
(* The safety properties of the wait queues, for any number of tasks, wait *)
(* queues, counts and guard times: no wake-up is lost between prepare and  *)
(* wait, waitqueue_current belongs to task_current, the guard timers are   *)
(* safe, the scheduler lock is counted and priorities stay strict.         *)
(*                                                                         *)
(* The argument rests on the scheduler lock: from prepare to the end of    *)
(* its call the receiver holds it, so os_schedule, of whatever ISR, leaves *)
(* the CPU to the receiver, and waitqueue_current needs no owner.          *)
(***************************************************************************)
EXTENDS WaitQueue, GuardProofs

\* The receiver from os_waitqueue_prepare to the end of the preparation.
Between == {"wq_prepare", "wq_check", "wq_suspend", "wq_go", "wq_break"}

\* A receiver keeps the CPU and its lock.
ReceiverHasCpu ==
    \A t \in Task : pc[t] \in Between =>
        /\ t = task_current /\ t # Idle
        /\ lock_depth[t] > 0
        /\ pc[t] # "wq_break" => wq_arg[t] \in WaitQueues

\* Whoever is on the queue of an object is in os_waitqueue_wait.
WaitsInPlace ==
    \A t \in Task : tq.task_queue[t] \in ObjectQueue =>
        tq.task_queue[t] \in WaitQueues /\ pc[t] = "wq_wait"

WaitQueueInv ==
    /\ SchedInv
    /\ GuardInv
    /\ WaitQueueTypeOK
    /\ ReceiverHasCpu
    /\ WaitsInPlace
    /\ PreparedIsCurrent
    /\ NoLostWakeup

LEMMA WaitQueueQueues ==
    WaitQueues \subseteq ObjectQueue /\ NULL \notin WaitQueues /\ NULL \notin ObjectQueue
BY WaitQueuesAssumption, NullAssumption DEF ObjectQueue

LEMMA BetweenLabels ==
    /\ Between \cap OwnLabel = {} /\ Between \cap JoinLabel = {}
    /\ Between \cap {"sem_wait", "wq_wait"} = {}
    /\ "wq_wait" \notin OwnLabel /\ Between \subseteq Label
BY DEF Between, OwnLabel, JoinLabel, Label, Interruptible

QueueTypeOK ==
    /\ waitqueue_current \in WaitQueues \cup {NULL}
    /\ wq_arg \in [Task -> WaitQueues \cup {NULL}]
    /\ live \in [WaitQueues -> BOOLEAN]
    /\ test_condition \in [WaitQueues -> BOOLEAN]
    /\ owed \in [WaitQueues -> BOOLEAN]

---------------------------------------------------------------------------
(* Steps that take the tasks W from wait queues and leave the receiver     *)
(* where it is.                                                            *)

PassesReceiver(W) ==
    /\ W \subseteq {t \in Task : tq.task_queue[t] \in ObjectQueue}
    /\ \A t \in W : tq'.task_queue[t] \notin ObjectQueue
    /\ \A t \in Task \ W : SameObject(tq, tq', t)
    /\ \A t \in Task : \/ pc'[t] = pc[t]
                       \/ pc'[t] \in OwnLabel /\ pc[t] \in OwnLabel
                       \/ pc'[t] \in OwnLabel /\ pc[t] = "wq_wait" /\ t = task_current
    /\ \A t \in Task : pc[t] \in Between => lock_depth'[t] = lock_depth[t]
    /\ pc[task_current] = "run" \/ (sched_lock' # 0 => UNCHANGED task_current)

\* The receiver is still there, and the wait queues have lost W.
LEMMA ReceiverPassed ==
    ASSUME WaitQueueInv, SchedCore', NEW W, PassesReceiver(W)
    PROVE  /\ \A t \in Task : pc'[t] \in Between =>
                 /\ pc'[t] = pc[t] /\ t = task_current /\ t = task_current'
                 /\ lock_depth'[t] = lock_depth[t]
           /\ \A t \in Task : pc[t] \in Between => pc'[t] = pc[t]
           /\ WaitsInPlace'
           /\ \A q \in WaitQueues : Waiters(q)' = Waiters(q) \ W
<1>1. /\ SchedCore /\ ReceiverHasCpu /\ WaitsInPlace /\ "run" \notin Between
      /\ task_current \in Task /\ tq.task_queue[task_current] = NULL
  BY DEF WaitQueueInv, SchedInv, SchedCore, InPlace, Between
<1>2. ASSUME NEW t \in Task, pc'[t] \in Between
      PROVE  /\ pc'[t] = pc[t] /\ t = task_current /\ t = task_current'
             /\ lock_depth'[t] = lock_depth[t]
  <2>1. pc'[t] = pc[t] /\ lock_depth'[t] = lock_depth[t]
    BY <1>2, BetweenLabels DEF PassesReceiver
  <2>2. t = task_current /\ lock_depth'[t] > 0
    BY <1>1, <1>2, <2>1 DEF ReceiverHasCpu
  <2>3. sched_lock' # 0
    BY <2>2, LockHeldNext
  <2> QED BY <1>1, <1>2, <2>1, <2>2, <2>3 DEF PassesReceiver
<1>3. \A t \in Task : pc[t] \in Between => pc'[t] = pc[t]
  BY BetweenLabels DEF PassesReceiver
<1>4. ASSUME NEW t \in Task, tq'.task_queue[t] \in ObjectQueue
      PROVE  /\ tq'.task_queue[t] \in WaitQueues /\ pc'[t] = "wq_wait"
             /\ tq'.task_queue[t] = tq.task_queue[t] /\ t \notin W
  <2>1. t \notin W /\ tq'.task_queue[t] = tq.task_queue[t]
    BY <1>4 DEF PassesReceiver, SameObject
  <2>2. tq.task_queue[t] \in WaitQueues /\ pc[t] = "wq_wait" /\ t # task_current
    BY <1>1, <1>4, <2>1, WaitQueueQueues DEF WaitsInPlace
  <2> QED BY <2>1, <2>2, BetweenLabels DEF PassesReceiver
<1>5. WaitsInPlace'
  BY <1>4 DEF WaitsInPlace
<1>6. ASSUME NEW q \in WaitQueues PROVE Waiters(q)' = Waiters(q) \ W
  <2>1. \A t \in Task : tq'.task_queue[t] = q => tq.task_queue[t] = q /\ t \notin W
    BY <1>4, WaitQueueQueues
  <2>2. \A t \in Task \ W : tq.task_queue[t] = q => tq'.task_queue[t] = q
    BY WaitQueueQueues DEF PassesReceiver, SameObject
  <2> QED BY <2>1, <2>2 DEF Waiters, OnQueue
<1> QED BY <1>2, <1>3, <1>5, <1>6

\* Such a step keeps the invariant, if it leaves the preparation alone or takes
\* it back, and whenever it settles what is owed to a wait queue, it has taken
\* all waiters from it and the preparation for it.
LEMMA PassingKeeps ==
    ASSUME WaitQueueInv, SchedInv', GuardInv', NEW W, PassesReceiver(W),
           QueueTypeOK', wq_arg' = wq_arg, waitqueue_current' \in {NULL, waitqueue_current},
           \A q \in WaitQueues : test_condition'[q] /\ ~owed'[q] =>
               \/ test_condition[q] /\ ~owed[q]
               \/ Waiters(q) \subseteq W /\ waitqueue_current' # q
    PROVE  WaitQueueInv'
<1>1. /\ SchedCore' /\ ReceiverHasCpu /\ PreparedIsCurrent /\ NoLostWakeup
      /\ task_current \in Task /\ task_current' \in Task
  BY DEF WaitQueueInv, SchedInv, SchedCore, TypeOK
<1>2. /\ \A t \in Task : pc'[t] \in Between =>
            /\ pc'[t] = pc[t] /\ t = task_current /\ t = task_current'
            /\ lock_depth'[t] = lock_depth[t]
      /\ \A t \in Task : pc[t] \in Between => pc'[t] = pc[t]
      /\ WaitsInPlace'
      /\ \A q \in WaitQueues : Waiters(q)' = Waiters(q) \ W
  BY <1>1, ReceiverPassed
<1>3. ReceiverHasCpu'
  BY <1>1, <1>2 DEF ReceiverHasCpu
<1>4. PreparedIsCurrent'
  <2>1. SUFFICES ASSUME waitqueue_current' # NULL
                 PROVE  /\ pc'[task_current'] \in {"wq_check", "wq_suspend", "wq_go"}
                        /\ waitqueue_current' = wq_arg'[task_current']
    BY DEF PreparedIsCurrent
  <2>2. /\ pc[task_current] \in {"wq_check", "wq_suspend", "wq_go"}
        /\ waitqueue_current = wq_arg[task_current]
    BY <1>1, <2>1 DEF PreparedIsCurrent
  <2>3. pc'[task_current] = pc[task_current] /\ task_current' = task_current
    BY <1>1, <1>2, <2>2 DEF Between
  <2> QED BY <2>1, <2>2, <2>3
<1>5. NoLostWakeup'
  <2>1. SUFFICES ASSUME NEW q \in WaitQueues, test_condition'[q], ~owed'[q]
                 PROVE  /\ Waiters(q)' = {}
                        /\ ~(pc'[task_current'] = "wq_suspend" /\ waitqueue_current' = q)
    BY DEF NoLostWakeup
  <2>2. CASE test_condition[q] /\ ~owed[q]
    <3>1. Waiters(q) = {} /\ ~(pc[task_current] = "wq_suspend" /\ waitqueue_current = q)
      BY <1>1, <2>2 DEF NoLostWakeup
    <3>2. pc'[task_current'] = "wq_suspend" => pc[task_current] = "wq_suspend"
      BY <1>1, <1>2 DEF Between
    <3> QED BY <1>2, <3>1, <3>2, WaitQueueQueues
  <2>3. CASE Waiters(q) \subseteq W /\ waitqueue_current' # q
    BY <1>2, <2>3
  <2> QED BY <2>1, <2>2, <2>3
<1>6. WaitQueueTypeOK'
  BY <1>1 DEF WaitQueueTypeOK, QueueTypeOK, SchedCore, GuardInv
<1> QED BY <1>2, <1>3, <1>4, <1>5, <1>6 DEF WaitQueueInv

---------------------------------------------------------------------------
(* The receiver's own steps.                                               *)

\* The receiver goes on at l and no task is moved.
LEMMA ReceiverMoves ==
    ASSUME WaitQueueInv, NEW l \in Label \ (JoinLabel \cup {"boot"}), GoTo(l),
           pc[task_current] \in Between \cup {"run"},
           UNCHANGED <<tq, tcbVars, task_current, isr_nesting, deferred, guardVars>>,
           LocksMatch', sched_lock' \in Nat, lock_depth' \in [Task -> Nat], QueueTypeOK',
           l \in Between => /\ task_current # Idle
                            /\ lock_depth'[task_current] > 0
                            /\ l # "wq_break" => wq_arg'[task_current] \in WaitQueues,
           waitqueue_current' # NULL => /\ l \in {"wq_check", "wq_suspend", "wq_go"}
                                        /\ waitqueue_current' = wq_arg'[task_current],
           \A q \in WaitQueues : test_condition'[q] /\ ~owed'[q] =>
               /\ test_condition[q] /\ ~owed[q]
               /\ ~(l = "wq_suspend" /\ waitqueue_current' = q)
    PROVE  WaitQueueInv'
<1> DEFINE c == task_current
<1>1. /\ SchedCore /\ GuardInv /\ HighestPrioRuns /\ ReceiverHasCpu /\ WaitsInPlace /\ NoLostWakeup
      /\ c \in Task /\ isr_nesting \in Nat /\ pc \in [Task -> Label]
      /\ tq.task_queue[c] = NULL
  BY DEF WaitQueueInv, SchedInv, SchedCore, TypeOK, InPlace
<1>2. /\ task_current' = c /\ pc' = [pc EXCEPT ![c] = l] /\ tq' = tq /\ deferred' = deferred
      /\ pc[c] \notin JoinLabel /\ pc[c] \notin {"sem_wait", "wq_wait"} /\ pc[c] # "boot"
  BY BetweenLabels DEF GoTo, Between, JoinLabel
<1>3. SchedCore'
  BY <1>1, <1>2, QuietStep
<1>4. SchedInv'
  BY <1>1, <1>2, <1>3 DEF SchedInv, HighestPrioRuns, TopRuns
<1>5. GuardInv'
  <2>1. \A t \in Task : guard[t] # NULL => pc'[t] = pc[t] /\ SameObject(tq, tq', t)
    BY <1>1, <1>2 DEF GuardInv, GuardsAreSafe, SameObject
  <2> QED BY <1>1, <1>3, <2>1, GuardsQuiet
<1>6. \A t \in Task \ {c} : pc'[t] = pc[t] /\ pc[t] \notin Between
  BY <1>1, <1>2 DEF ReceiverHasCpu
<1>7. ReceiverHasCpu' /\ pc'[c] = l
  BY <1>1, <1>2, <1>6 DEF ReceiverHasCpu
<1>8. WaitsInPlace'
  BY <1>1, <1>2, <1>6, WaitQueueQueues DEF WaitsInPlace
<1>9. PreparedIsCurrent'
  BY <1>2, <1>7 DEF PreparedIsCurrent
<1>10. NoLostWakeup'
  BY <1>1, <1>2, <1>7 DEF NoLostWakeup, Waiters
<1>11. WaitQueueTypeOK'
  BY <1>3, <1>5 DEF WaitQueueTypeOK, QueueTypeOK, SchedCore, GuardInv
<1> QED BY <1>4, <1>5, <1>7, <1>8, <1>9, <1>10, <1>11 DEF WaitQueueInv

\* The locks when the receiver moves without touching them.
LEMMA LocksStay ==
    ASSUME WaitQueueInv, NEW l, l # "boot", GoTo(l), pc[task_current] \in Between,
           UNCHANGED <<task_current, cpuVars>>
    PROVE  LocksMatch' /\ sched_lock' \in Nat /\ lock_depth' \in [Task -> Nat]
<1>1. /\ SchedCore /\ task_current \in Task /\ pc \in [Task -> Label]
      /\ sched_lock \in Nat /\ lock_depth \in [Task -> Nat]
  BY DEF WaitQueueInv, SchedInv, SchedCore, TypeOK
<1>2. \A t \in Task : pc[t] # "boot" /\ pc'[t] # "boot"
  BY <1>1 DEF SchedCore, LocksMatch, GoTo, Between
<1> QED BY <1>1, <1>2, LocksFrame DEF SchedCore, cpuVars

LEMMA PrepareKeeps ==
    ASSUME WaitQueueInv, NEW q \in WaitQueues, os_waitqueue_prepare(q)
    PROVE  WaitQueueInv'
<1> DEFINE c == task_current
           l == "wq_prepare"
<1>1. /\ pc[c] = "run" /\ c # Idle /\ GoTo(l) /\ sched_lock' = sched_lock + 1
      /\ lock_depth' = [lock_depth EXCEPT ![c] = @ + 1] /\ wq_arg' = [wq_arg EXCEPT ![c] = q]
      /\ UNCHANGED <<tq, tcbVars, task_current, isr_nesting, deferred, guardVars>>
      /\ waitqueue_current' = waitqueue_current /\ live' = live
      /\ test_condition' = test_condition /\ owed' = owed
  BY DEF os_waitqueue_prepare, PrepareLock, InTask, condVars
<1>2. /\ SchedCore /\ PreparedIsCurrent /\ WaitQueueTypeOK
      /\ c \in Task /\ pc \in [Task -> Label] /\ lock_depth \in [Task -> Nat]
  BY DEF WaitQueueInv, SchedInv, SchedCore, TypeOK
<1>3. /\ LocksMatch' /\ sched_lock' \in Nat /\ lock_depth' \in [Task -> Nat]
      /\ lock_depth'[c] > 0
  <2>1. \A t \in Task : pc'[t] = "boot" <=> pc[t] = "boot"
    BY <1>1, <1>2 DEF GoTo
  <2> QED BY <1>1, <1>2, <2>1, LockTaken
<1>4. waitqueue_current' = NULL
  BY <1>1, <1>2 DEF PreparedIsCurrent
<1>5. QueueTypeOK' /\ wq_arg'[c] = q
  BY <1>1, <1>2 DEF QueueTypeOK, WaitQueueTypeOK
<1>6. l \in Label \ (JoinLabel \cup {"boot"})
  BY DEF Label, Interruptible, JoinLabel
<1>7. pc[c] \in Between \cup {"run"}
  BY <1>1
<1> QED BY <1>1, <1>3, <1>4, <1>5, <1>6, <1>7, WaitQueueQueues, ReceiverMoves

LEMMA StoreKeeps == WaitQueueInv /\ os_waitqueue_prepare_store => WaitQueueInv'
<1> SUFFICES ASSUME WaitQueueInv, os_waitqueue_prepare_store PROVE WaitQueueInv'
  OBVIOUS
<1> DEFINE c == task_current
           l == "wq_check"
<1>1. /\ pc[c] = "wq_prepare" /\ GoTo(l) /\ waitqueue_current' = wq_arg[c]
      /\ UNCHANGED <<tq, tcbVars, task_current, isr_nesting, deferred, guardVars>>
      /\ UNCHANGED cpuVars /\ lock_depth' = lock_depth
      /\ wq_arg' = wq_arg /\ live' = live
      /\ test_condition' = test_condition /\ owed' = owed
  BY DEF os_waitqueue_prepare_store, At, condVars, cpuVars
<1>2. /\ SchedCore /\ WaitQueueTypeOK /\ ReceiverHasCpu /\ c \in Task
      /\ pc[c] \in Between
  BY <1>1 DEF WaitQueueInv, SchedInv, SchedCore, TypeOK, Between
<1>3. LocksMatch' /\ sched_lock' \in Nat /\ lock_depth' \in [Task -> Nat]
  BY <1>1, <1>2, LocksStay
<1>4. lock_depth'[c] > 0 /\ c # Idle /\ wq_arg'[c] \in WaitQueues
  BY <1>1, <1>2 DEF ReceiverHasCpu
<1>5. QueueTypeOK'
  BY <1>1, <1>2, <1>4 DEF QueueTypeOK, WaitQueueTypeOK
<1>6. l \in Label \ (JoinLabel \cup {"boot"})
  BY DEF Label, Interruptible, JoinLabel
<1> QED BY <1>1, <1>2, <1>3, <1>4, <1>5, <1>6, ReceiverMoves

\* The receiver that finds the condition false goes to sleep only while the
\* condition stays false or a wake-up is owed.
LEMMA CheckKeeps == WaitQueueInv /\ CheckCondition => WaitQueueInv'
<1> SUFFICES ASSUME WaitQueueInv, CheckCondition PROVE WaitQueueInv'
  OBVIOUS
<1> DEFINE c == task_current
           l == IF test_condition[wq_arg[c]] THEN "wq_go" ELSE "wq_suspend"
<1>1. /\ pc[c] = "wq_check" /\ GoTo(l) /\ waitqueue_current' = waitqueue_current
      /\ test_condition' = [test_condition EXCEPT ![wq_arg[c]] = FALSE]
      /\ UNCHANGED <<tq, tcbVars, task_current, isr_nesting, deferred, guardVars>>
      /\ UNCHANGED cpuVars /\ lock_depth' = lock_depth
      /\ wq_arg' = wq_arg /\ live' = live /\ owed' = owed
  BY DEF CheckCondition, At, cpuVars
<1>2. /\ SchedCore /\ WaitQueueTypeOK /\ ReceiverHasCpu /\ PreparedIsCurrent /\ c \in Task
      /\ pc[c] \in Between
  BY <1>1 DEF WaitQueueInv, SchedInv, SchedCore, TypeOK, Between
<1>3. l \in {"wq_go", "wq_suspend"}
  OBVIOUS
<1> HIDE DEF l
<1>4. LocksMatch' /\ sched_lock' \in Nat /\ lock_depth' \in [Task -> Nat]
  BY <1>1, <1>2, <1>3, LocksStay
<1>5. lock_depth'[c] > 0 /\ c # Idle /\ wq_arg'[c] \in WaitQueues
  BY <1>1, <1>2 DEF ReceiverHasCpu
<1>6. QueueTypeOK' /\ ~test_condition'[wq_arg[c]]
      /\ \A q \in WaitQueues : test_condition'[q] => test_condition[q] /\ q # wq_arg[c]
  BY <1>1, <1>2, <1>5 DEF QueueTypeOK, WaitQueueTypeOK
<1>7. l \in Label \ (JoinLabel \cup {"boot"})
  BY <1>3 DEF Label, Interruptible, JoinLabel
<1>8. waitqueue_current' # NULL => waitqueue_current' = wq_arg[c]
  BY <1>1, <1>2 DEF PreparedIsCurrent
<1> QED BY <1>1, <1>2, <1>3, <1>4, <1>5, <1>6, <1>7, <1>8, WaitQueueQueues, ReceiverMoves

LEMMA BreakKeeps == WaitQueueInv /\ os_waitqueue_break => WaitQueueInv'
<1> SUFFICES ASSUME WaitQueueInv, os_waitqueue_break PROVE WaitQueueInv'
  OBVIOUS
<1> DEFINE c == task_current
           l == "wq_break"
<1>1. /\ pc[c] = "wq_go" /\ GoTo(l) /\ waitqueue_current' = NULL
      /\ wq_arg' = [wq_arg EXCEPT ![c] = NULL]
      /\ UNCHANGED <<tq, tcbVars, task_current, isr_nesting, deferred, guardVars>>
      /\ UNCHANGED cpuVars /\ lock_depth' = lock_depth /\ live' = live
      /\ test_condition' = test_condition /\ owed' = owed
  BY DEF os_waitqueue_break, At, condVars, cpuVars
<1>2. /\ SchedCore /\ WaitQueueTypeOK /\ ReceiverHasCpu /\ c \in Task
      /\ pc[c] \in Between
  BY <1>1 DEF WaitQueueInv, SchedInv, SchedCore, TypeOK, Between
<1>3. LocksMatch' /\ sched_lock' \in Nat /\ lock_depth' \in [Task -> Nat]
  BY <1>1, <1>2, LocksStay
<1>4. lock_depth'[c] > 0 /\ c # Idle
  BY <1>1, <1>2 DEF ReceiverHasCpu
<1>5. QueueTypeOK'
  BY <1>1, <1>2 DEF QueueTypeOK, WaitQueueTypeOK
<1>6. l \in Label \ (JoinLabel \cup {"boot"})
  BY DEF Label, Interruptible, JoinLabel
<1> QED BY <1>1, <1>2, <1>3, <1>4, <1>5, <1>6, WaitQueueQueues, ReceiverMoves

\* The end of a preparation that did not lead to sleep.
LEMMA UnprepareKeeps ==
    ASSUME WaitQueueInv, os_waitqueue_break_unlock \/ os_waitqueue_wait_skip
    PROVE  WaitQueueInv'
<1> DEFINE c == task_current
<1>1. /\ pc[c] \in {"wq_break", "wq_suspend"} /\ Unprepare
      /\ \E l \in {"run", "unlock"} : GoTo(l)
      /\ waitqueue_current' = waitqueue_current
      /\ wq_arg' = wq_arg \/ wq_arg' = [wq_arg EXCEPT ![c] = NULL]
      /\ pc[c] = "wq_suspend" => waitqueue_current = NULL
      /\ UNCHANGED <<tq, tcbVars, task_current, isr_nesting, deferred, guardVars>>
      /\ live' = live /\ test_condition' = test_condition /\ owed' = owed
  BY DEF os_waitqueue_break_unlock, os_waitqueue_wait_skip, At, wqVars, queueVars, condVars
<1>2. PICK l \in {"run", "unlock"} : GoTo(l)
  BY <1>1
<1>3. /\ SchedCore /\ WaitQueueTypeOK /\ ReceiverHasCpu /\ PreparedIsCurrent /\ c \in Task
      /\ pc[c] \in Between /\ pc \in [Task -> Label] /\ pc[c] # "boot"
  BY <1>1 DEF WaitQueueInv, SchedInv, SchedCore, TypeOK, Between
<1>4. lock_depth[c] > 0
  BY <1>3 DEF ReceiverHasCpu
<1>5. LocksMatch' /\ sched_lock' \in Nat /\ lock_depth' \in [Task -> Nat]
  <2>1. \A t \in Task : pc'[t] = "boot" <=> pc[t] = "boot"
    BY <1>2, <1>3 DEF GoTo
  <2> QED BY <1>1, <1>3, <1>4, <2>1, LockUndone DEF Unprepare
<1>6. waitqueue_current' = NULL
  BY <1>1, <1>3 DEF PreparedIsCurrent
<1>7. QueueTypeOK'
  BY <1>1, <1>3 DEF QueueTypeOK, WaitQueueTypeOK
<1>8. l \in Label \ (JoinLabel \cup {"boot"}) /\ l \notin Between
  BY <1>2 DEF Label, Interruptible, JoinLabel, Between
<1> QED BY <1>1, <1>2, <1>3, <1>5, <1>6, <1>7, <1>8, WaitQueueQueues, ReceiverMoves

\* The receiver goes to sleep on the wait queue it is prepared for, for which
\* the condition is false or a wake-up is owed.
LEMMA WaitBlockKeeps ==
    ASSUME WaitQueueInv, NEW timeout \in Timeouts \cup {NULL}, os_waitqueue_wait_block(timeout)
    PROVE  WaitQueueInv' /\ tq'.state[task_current] = "WAIT"
<1> DEFINE c == task_current
           q == waitqueue_current
<1>1. /\ pc[c] = "wq_suspend" /\ q # NULL /\ Unprepare /\ os_blocktimer_create(timeout)
      /\ waitqueue_current' = NULL /\ wq_arg' = [wq_arg EXCEPT ![c] = NULL]
      /\ UNCHANGED <<prio_base, block_code, join_sem, isr_nesting>>
      /\ live' = live /\ test_condition' = test_condition /\ owed' = owed
      /\ os_task_block_switch(tq, q, "WAITQUEUE", "wq_wait")
  BY DEF os_waitqueue_wait_block, At, condVars
<1>2. /\ SchedCore /\ GuardInv /\ WaitQueueTypeOK /\ ReceiverHasCpu /\ WaitsInPlace
      /\ NoLostWakeup /\ c \in Task /\ pc \in [Task -> Label] /\ tq.task_queue[c] = NULL
  BY DEF WaitQueueInv, SchedInv, SchedCore, TypeOK, InPlace
<1>3. /\ lock_depth[c] > 0 /\ c # Idle
      /\ \A t \in Task \ {c} : pc[t] \notin Between
  BY <1>1, <1>2 DEF ReceiverHasCpu, Between
<1>4. q \in WaitQueues /\ q \in ObjectQueue
  BY <1>1, <1>2, WaitQueueQueues DEF WaitQueueTypeOK
<1>5. /\ SchedCore' /\ BlockEffect(q, "wq_wait") /\ NotOutranked(tq', task_current')
  <2>1. ASSUME task_current' \in Task, pc' = [pc EXCEPT ![c] = "wq_wait"]
        PROVE  LocksMatch' /\ sched_lock' \in Nat /\ lock_depth' \in [Task -> Nat]
    <3>1. \A t \in Task : pc'[t] = "boot" <=> pc[t] = "boot"
      BY <1>1, <1>2, <2>1
    <3> QED BY <1>1, <1>2, <1>3, <2>1, <3>1, LockUndone DEF Unprepare
  <2>2. sched_lock' \in Nat /\ lock_depth' \in [Task -> Nat]
    <3>1. sched_lock \in Nat /\ lock_depth \in [Task -> Nat] /\ sched_lock # 0
      BY <1>2, <1>3, LockHeld DEF SchedCore, TypeOK
    <3> QED BY <1>1, <1>2, <1>3, <3>1 DEF Unprepare
  <2>3. "wq_wait" \in WaitLabel \ JoinLabel /\ pc[c] \notin JoinLabel
    BY <1>1 DEF WaitLabel, JoinLabel
  <2> QED BY <1>1, <1>2, <1>3, <1>4, <2>1, <2>2, <2>3, PlainQueues, BlockStep
<1>6. SchedInv' /\ GuardInv'
  BY <1>1, <1>2, <1>4, <1>5, RanksNext, GuardsStart
<1>7. /\ tq'.task_queue[c] = q /\ pc'[c] = "wq_wait"
      /\ \A t \in Task \ {c} : SameObject(tq, tq', t) /\ pc'[t] = pc[t]
  BY <1>2, <1>5 DEF BlockEffect
<1>8. \A t \in Task : pc'[t] \notin Between
  BY <1>3, <1>7 DEF Between
<1>9. ReceiverHasCpu'
  BY <1>8 DEF ReceiverHasCpu
<1>10. WaitsInPlace'
  BY <1>2, <1>4, <1>7 DEF WaitsInPlace, SameObject
<1>11. PreparedIsCurrent'
  BY <1>1 DEF PreparedIsCurrent
<1>12. NoLostWakeup'
  <2>1. ~(test_condition[q] /\ ~owed[q])
    BY <1>1, <1>2, <1>4 DEF NoLostWakeup
  <2>2. \A o \in WaitQueues \ {q}, t \in Task : tq'.task_queue[t] = o => tq.task_queue[t] = o
    BY <1>7, WaitQueueQueues DEF SameObject
  <2>3. \A o \in WaitQueues \ {q} : Waiters(o) = {} => Waiters(o)' = {}
    BY <2>2 DEF Waiters, OnQueue
  <2> QED BY <1>1, <1>2, <2>1, <2>3, WaitQueueQueues DEF NoLostWakeup
<1>13. WaitQueueTypeOK'
  BY <1>1, <1>2, <1>5, <1>6 DEF WaitQueueTypeOK, SchedCore, GuardInv
<1> QED BY <1>5, <1>6, <1>9, <1>10, <1>11, <1>12, <1>13 DEF WaitQueueInv, BlockEffect

---------------------------------------------------------------------------
(* The steps that pass the receiver.                                       *)

\* What ReleaseEffect gives.
LEMMA ReleasePasses ==
    ASSUME NEW W \in SUBSET {t \in Task : tq.task_queue[t] \in ObjectQueue},
           ReleaseEffect(W), lock_depth' = lock_depth
    PROVE  PassesReceiver(W)
BY DEF ReleaseEffect, PassesReceiver

LEMMA WokenKeeps == WaitQueueInv /\ os_waitqueue_wait_woken => WaitQueueInv'
<1> SUFFICES ASSUME WaitQueueInv, os_waitqueue_wait_woken PROVE WaitQueueInv'
  OBVIOUS
<1> DEFINE c == task_current
<1>1. /\ pc[c] = "wq_wait" /\ Resumes /\ os_blocktimer_destroy({c})
      /\ pc' = [pc EXCEPT ![c] = "run"] /\ task_current' = c /\ deferred' = deferred
      /\ lock_depth' = lock_depth /\ waitqueue_current' = waitqueue_current
      /\ wq_arg' = wq_arg /\ live' = live /\ test_condition' = test_condition /\ owed' = owed
  BY DEF os_waitqueue_wait_woken, At, GoTo, Resumes, JoinLabel, cpuVars, queueVars, condVars
<1>2. /\ SchedCore /\ HighestPrioRuns /\ GuardInv /\ WaitQueueTypeOK
      /\ c \in Task /\ pc \in [Task -> Label]
  BY DEF WaitQueueInv, SchedInv, SchedCore, TypeOK
<1>3. SchedCore' /\ tq'.task_queue = tq.task_queue /\ tq'.prio_current = tq.prio_current
  BY <1>1, <1>2, ResumeStep
<1>4. SchedInv'
  BY <1>1, <1>2, <1>3 DEF SchedInv, HighestPrioRuns, TopRuns, OnQueue
<1>5. \A t \in Task \ {c} : pc'[t] = pc[t] /\ SameObject(tq, tq', t)
  BY <1>1, <1>2, <1>3 DEF SameObject
<1>6. GuardInv'
  BY <1>1, <1>2, <1>3, <1>5, GuardsEnd
<1>7. PassesReceiver({})
  BY <1>1, <1>2, <1>3, <1>5 DEF PassesReceiver, SameObject, OwnLabel
<1>8. QueueTypeOK'
  BY <1>1, <1>2 DEF QueueTypeOK, WaitQueueTypeOK
<1> QED BY <1>1, <1>4, <1>6, <1>7, <1>8, PassingKeeps

LEMMA SchedCallsKeepWaits == WaitQueueInv /\ SchedCalls => WaitQueueInv'
<1> SUFFICES ASSUME WaitQueueInv, SchedCalls PROVE WaitQueueInv'
  OBVIOUS
<1>1. /\ SchedInv /\ SchedCore /\ GuardInv /\ WaitQueueTypeOK /\ UNCHANGED guardVars
      /\ waitqueue_current' = waitqueue_current /\ wq_arg' = wq_arg /\ live' = live
      /\ test_condition' = test_condition /\ owed' = owed
      /\ Leave \/ Stay
  BY DEF WaitQueueInv, SchedInv, SchedCalls, wqVars, queueVars, condVars, Stay
<1>2. /\ SchedCore' /\ Frame
      /\ pc[task_current] = "run" \/ (sched_lock' # 0 => UNCHANGED task_current)
  BY <1>1, StayStep, LeaveStep DEF StayEffect, LeaveEffect
<1>3. SchedInv' /\ GuardInv'
  BY <1>1, <1>2, PrioStep, GuardsFramed DEF SchedInv
<1>4. PassesReceiver({})
  BY <1>2, BetweenLabels DEF Frame, FieldsKept, PassesReceiver
<1>5. QueueTypeOK'
  BY <1>1 DEF QueueTypeOK, WaitQueueTypeOK
<1> QED BY <1>1, <1>3, <1>4, <1>5, PassingKeeps

\* os_waitqueue_create and SetCondition leave the scheduler alone.
LEMMA FlagsKeep ==
    ASSUME WaitQueueInv, NEW q \in WaitQueues, os_waitqueue_create(q) \/ SetCondition(q)
    PROVE  WaitQueueInv'
<1>1. /\ UNCHANGED vars /\ UNCHANGED guardVars /\ waitqueue_current' = waitqueue_current
      /\ wq_arg' = wq_arg /\ live' \in {live, [live EXCEPT ![q] = TRUE]}
      /\ \/ test_condition' = test_condition /\ owed' = owed
         \/ /\ test_condition' = [test_condition EXCEPT ![q] = TRUE]
            /\ owed' = [owed EXCEPT ![q] = TRUE]
  BY DEF os_waitqueue_create, SetCondition
<1>2. /\ tq' = tq /\ pc' = pc /\ task_current' = task_current /\ deferred' = deferred
      /\ lock_depth' = lock_depth
  BY <1>1 DEF vars
<1>3. SchedInv /\ SchedCore /\ GuardInv /\ WaitQueueTypeOK
  BY DEF WaitQueueInv, SchedInv
<1>4. SchedCore' /\ SchedInv'
  BY <1>1, <1>2, <1>3, StutterStep DEF SchedInv, HighestPrioRuns, TopRuns
<1>5. GuardInv'
  BY <1>1, <1>2, <1>3, <1>4, GuardsQuiet DEF SameObject
<1>6. PassesReceiver({})
  BY <1>2 DEF PassesReceiver, SameObject
<1>7. QueueTypeOK' /\ \A o \in WaitQueues : test_condition'[o] /\ ~owed'[o] =>
                          test_condition[o] /\ ~owed[o]
  BY <1>1, <1>3 DEF QueueTypeOK, WaitQueueTypeOK
<1> QED BY <1>1, <1>4, <1>5, <1>6, <1>7, PassingKeeps

LEMMA DestroyKeepsWaits ==
    ASSUME WaitQueueInv, NEW q \in WaitQueues, os_waitqueue_destroy(q)
    PROVE  WaitQueueInv'
<1> DEFINE W == Waiters(q)
           r == WakeAll(tq, q)
           Codes == {"OK", "DESTROYED", "TIMEOUT", "EXIT"}
<1>1. /\ pc[task_current] = "run" /\ live' = [live EXCEPT ![q] = FALSE]
      /\ test_condition' = [test_condition EXCEPT ![q] = FALSE]
      /\ owed' = [owed EXCEPT ![q] = FALSE]
      /\ os_blocktimer_destroy(W)
      /\ block_code' = [t \in Task |-> IF t \in W THEN "DESTROYED" ELSE block_code[t]]
      /\ UNCHANGED <<prio_base, block_type, join_sem, cpuVars>> /\ lock_depth' = lock_depth
      /\ waitqueue_current' = waitqueue_current /\ wq_arg' = wq_arg
      /\ os_schedule(r, pc[task_current], 1)
  BY DEF os_waitqueue_destroy, InTask, cpuVars
<1>2. /\ SchedCore /\ GuardInv /\ WaitQueueTypeOK /\ q \in ObjectQueue
      /\ block_code \in [Task -> Codes]
  BY WaitQueueQueues DEF WaitQueueInv, SchedInv, SchedCore, TypeOK
<1>3. Released(r, W) /\ W \subseteq Task
  BY <1>2, PlainQueues, ReleaseAll DEF Waiters, OnQueue
<1>4. /\ block_code' \in [Task -> Codes]
      /\ \A t \in Task \ W : block_code'[t] = block_code[t]
  BY <1>1, <1>2
<1> HIDE DEF W, r
<1>5. SchedCore' /\ ReleaseEffect(W) /\ (deferred' \/ NotOutranked(tq', task_current'))
  BY <1>1, <1>2, <1>3, <1>4, ReleaseAndSchedule
<1>6. SchedInv' /\ GuardInv'
  BY <1>1, <1>2, <1>5, RanksNext, GuardsReleased
<1>7. PassesReceiver(W)
  BY <1>1, <1>3, <1>5, ReleasePasses DEF Released
<1>8. QueueTypeOK' /\ \A o \in WaitQueues : test_condition'[o] /\ ~owed'[o] =>
                          test_condition[o] /\ ~owed[o]
  BY <1>1, <1>2 DEF QueueTypeOK, WaitQueueTypeOK
<1> QED BY <1>1, <1>6, <1>7, <1>8, PassingKeeps

LEMMA TickKeepsWaits ==
    ASSUME WaitQueueInv, os_tick_guards, UNCHANGED queueVars
    PROVE  WaitQueueInv'
<1>1. /\ SchedCore /\ GuardInv /\ WaitQueueTypeOK
      /\ waitqueue_current' = waitqueue_current /\ wq_arg' = wq_arg /\ live' = live
      /\ test_condition' = test_condition /\ owed' = owed /\ lock_depth' = lock_depth
  BY DEF WaitQueueInv, SchedInv, os_tick_guards, cpuVars, queueVars, condVars
<1>2. SchedCore' /\ GuardInv' /\ \E W : TickEffect(W)
  BY <1>1, TickStep
<1>3. PICK W : TickEffect(W)
  BY <1>2
<1>4. SchedInv'
  BY <1>2, <1>3, RanksNext DEF TickEffect
<1>5. W \in SUBSET {t \in Task : tq.task_queue[t] \in ObjectQueue}
  BY <1>1, <1>3, GuardedWaits DEF TickEffect
<1>6. PassesReceiver(W)
  BY <1>1, <1>3, <1>5, ReleasePasses DEF TickEffect
<1>7. QueueTypeOK'
  BY <1>1 DEF QueueTypeOK, WaitQueueTypeOK
<1> QED BY <1>1, <1>2, <1>4, <1>6, <1>7, PassingKeeps

---------------------------------------------------------------------------
(* os_waitqueue_wakeup_sync.                                               *)

\* The loop wakes waiters of q and nobody else; as many turns as there are
\* tasks leave nobody on the queue.
LEMMA WakeupProperties ==
    ASSUME SchedCore, NEW q \in WaitQueues, NEW n \in Nat
    PROVE  LET w == Wakeup(q, n)
           IN  /\ Released(w.s, w.tasks)
               /\ w.s.prio_current = tq.prio_current
               /\ w.tasks \subseteq Waiters(q)
               /\ n = Cardinality(Task) => w.tasks = Waiters(q)
<1> DEFINE Turn(r) == LET d == os_taskqueue_dequeue(r.s, q)
                      IN  IF d.task = NULL THEN r
                          ELSE [s     |-> os_task_makeready(d.s, d.task),
                                tasks |-> r.tasks \cup {d.task}]
           Q == OnQueue(tq, q)
           N == Cardinality(Task)
           R == [s : TaskQueueType, tasks : SUBSET Q]
           Fits(r) == Woken(tq, r.s, q) /\ OnQueue(r.s, q) = Q \ r.tasks
           Left(r, k) == OnQueue(r.s, q) = {} \/ Cardinality(OnQueue(r.s, q)) <= N - k
           S == [k \in 0 .. n |-> {r \in R : Fits(r) /\ Left(r, k)}]
           x == [s |-> tq, tasks |-> {}]
           g == [k \in 1 .. n |-> [r \in R |-> Turn(r)]]
           w == CHOOSE w : w = [k \in 0 .. n |-> IF k = 0 THEN x ELSE Turn(w[k - 1])]
<1>1. Wakeup(q, n) = w[n]
  BY DEF Wakeup
<1>2. /\ q \in Queue \ {ready_queue} /\ tq \in TaskQueueType /\ Coherent(tq)
      /\ N \in Nat /\ q \in ObjectQueue
  BY WaitQueueQueues, TaskAssumption, FS_CardinalityType DEF SchedCore, InPlace, ObjectQueue
<1>3. ASSUME NEW s PROVE /\ IsFiniteSet(OnQueue(s, q)) /\ Cardinality(OnQueue(s, q)) \in Nat
                         /\ Cardinality(OnQueue(s, q)) <= N
  <2>1. OnQueue(s, q) \subseteq Task
    BY DEF OnQueue
  <2> QED BY <2>1, TaskAssumption, FS_Subset, FS_CardinalityType
<1>4. x \in S[0]
  <2>1. x \in R
    BY <1>2
  <2>2. Fits(x)
    BY <1>2 DEF Woken
  <2>3. Left(x, 0)
    BY <1>2, <1>3
  <2> HIDE DEF R, Fits, Left, x
  <2> QED BY <2>1, <2>2, <2>3
<1>5. ASSUME NEW k \in 1 .. n, NEW r \in S[k - 1]
      PROVE  Turn(r) \in S[k] /\ r \in R
  <2> DEFINE d == os_taskqueue_dequeue(r.s, q)
             m == IF d.task = NULL THEN d.s ELSE os_task_makeready(d.s, d.task)
  <2>1. /\ r \in R /\ Fits(r) /\ Left(r, k - 1) /\ r.s \in TaskQueueType
        /\ r.tasks \subseteq Q
    <3>1. k - 1 \in 0 .. n
      OBVIOUS
    <3>2. r \in R /\ Fits(r) /\ Left(r, k - 1)
      <4> HIDE DEF R, Fits, Left
      <4> QED BY <1>5, <3>1
    <3> QED BY <3>2
  <2>2. /\ Woken(tq, m, q)
        /\ \/ d.task = NULL /\ OnQueue(m, q) = {} /\ OnQueue(r.s, q) = {} /\ m = r.s
           \/ /\ d.task \in OnQueue(r.s, q)
              /\ OnQueue(m, q) = OnQueue(r.s, q) \ {d.task}
    BY <1>2, <2>1, WakeTurn
  <2>3. NULL \notin Task /\ OnQueue(r.s, q) \subseteq Task
    BY NullAssumption DEF OnQueue
  <2>4. Turn(r) \in R /\ Fits(Turn(r)) /\ Left(Turn(r), k)
    <3>1. CASE d.task = NULL
      <4>1. Turn(r) = r
        BY <3>1
      <4>2. OnQueue(r.s, q) = {}
        BY <2>2, <2>3, <3>1
      <4> HIDE DEF Turn, R, Fits
      <4> QED BY <2>1, <4>1, <4>2
    <3>2. CASE d.task # NULL
      <4> DEFINE r2 == [s |-> m, tasks |-> r.tasks \cup {d.task}]
      <4>1. Turn(r) = r2
        BY <3>2
      <4> HIDE DEF Turn
      <4>2. /\ d.task \in OnQueue(r.s, q) /\ OnQueue(m, q) = OnQueue(r.s, q) \ {d.task}
            /\ Woken(tq, m, q)
        BY <2>2, <3>2
      <4> HIDE DEF d, m
      <4>3. m \in TaskQueueType /\ d.task \in Q /\ OnQueue(m, q) = Q \ (r.tasks \cup {d.task})
        BY <2>1, <4>2 DEF Woken
      <4>4. r2 \in R /\ Fits(r2)
        BY <2>1, <4>2, <4>3
      <4>5. Cardinality(OnQueue(m, q)) = Cardinality(OnQueue(r.s, q)) - 1
        <5>1. IsFiniteSet(OnQueue(r.s, q))
          BY <1>3
        <5>2. Cardinality(OnQueue(r.s, q) \ {d.task}) = Cardinality(OnQueue(r.s, q)) - 1
          BY <4>2, <5>1, FS_RemoveElement
        <5> QED BY <4>2, <5>2
      <4>6. Cardinality(OnQueue(r.s, q)) <= N - (k - 1)
        BY <2>1, <4>2
      <4>7. Left(r2, k)
        BY <1>2, <1>3, <4>5, <4>6
      <4> QED BY <4>1, <4>4, <4>7
    <3> QED BY <3>1, <3>2
  <2> HIDE DEF Turn, R, Fits, Left
  <2> QED BY <2>1, <2>4
<1> HIDE DEF Turn, R, Fits, Left, x
<1>6. \A k \in 1 .. n : \A r \in S[k - 1] : g[k][r] \in S[k]
  BY <1>5
<1> HIDE DEF S, g
<1>7. PICK f : Stages(n, S, x, g, f)
  BY <1>4, <1>6, StagedLoop, Zenon
<1>8. f = [k \in 0 .. n |-> IF k = 0 THEN x ELSE Turn(f[k - 1])]
  <2>1. \A k \in 1 .. n : \A r \in S[k - 1] : g[k][r] = Turn(r)
    BY <1>5 DEF g
  <2>2. /\ f = [k \in 0 .. n |-> f[k]] /\ f[0] = x
        /\ \A k \in 0 .. n : f[k] \in S[k]
        /\ \A k \in 1 .. n : f[k] = g[k][f[k - 1]]
    BY <1>7 DEF Stages
  <2>3. ASSUME NEW k \in 1 .. n PROVE f[k] = Turn(f[k - 1])
    <3>1. k - 1 \in 0 .. n
      OBVIOUS
    <3>2. f[k - 1] \in S[k - 1] /\ f[k] = g[k][f[k - 1]]
      BY <2>2, <3>1
    <3> QED BY <2>1, <3>2
  <2>4. \A k \in 0 .. n : k = 0 \/ k \in 1 .. n
    OBVIOUS
  <2>5. \A k \in 0 .. n : f[k] = IF k = 0 THEN x ELSE Turn(f[k - 1])
    BY <2>2, <2>3, <2>4
  <2> QED BY <2>2, <2>5
<1>9. w = [k \in 0 .. n |-> IF k = 0 THEN x ELSE Turn(w[k - 1])]
  BY <1>8
<1> HIDE DEF w
<1>10. w[0] = x /\ \A k \in 1 .. n : w[k] = Turn(w[k - 1])
  BY <1>9
<1> DEFINE P == {k \in 0 .. n : w[k] \in S[k]}
<1>11. 0 \in P
  BY <1>4, <1>10
<1>12. ASSUME NEW k \in 1 .. n, k - 1 \in P PROVE k \in P
  BY <1>5, <1>10, <1>12
<1>13. 0 .. n \subseteq P
  <2> HIDE DEF P
  <2> QED BY <1>11, <1>12, CountUp
<1>14. PICK r \in R : r = w[n] /\ Fits(r) /\ Left(r, n)
  BY <1>13 DEF S
<1>15. /\ Woken(tq, r.s, q) /\ OnQueue(r.s, q) = Q \ r.tasks /\ r.tasks \subseteq Q
       /\ OnQueue(r.s, q) = {} \/ Cardinality(OnQueue(r.s, q)) <= N - n
  BY <1>14 DEF Fits, Left, R
<1>16. /\ \A t \in r.tasks : /\ t \in Task /\ tq.task_queue[t] = q
                             /\ r.s.task_queue[t] = ready_queue /\ r.s.state[t] = "READY"
       /\ \A t \in Task \ r.tasks : /\ r.s.task_queue[t] = tq.task_queue[t]
                                    /\ r.s.state[t] = tq.state[t]
  BY <1>2, <1>15 DEF Woken, OnQueue
<1>17. Released(r.s, r.tasks) /\ r.s.prio_current = tq.prio_current
  BY <1>2, <1>15, <1>16 DEF Released, Woken
<1>18. ASSUME n = N PROVE r.tasks = Q
  <2>1. OnQueue(r.s, q) = {}
    <3>1. Cardinality(OnQueue(r.s, q)) = 0 => OnQueue(r.s, q) = {}
      BY <1>3, FS_EmptySet
    <3> QED BY <1>2, <1>3, <1>15, <1>18, <3>1
  <2> QED BY <1>15, <2>1
<1> QED BY <1>1, <1>14, <1>15, <1>17, <1>18 DEF Waiters, N

LEMMA WakeupKeeps ==
    ASSUME WaitQueueInv, NEW q \in WaitQueues, NEW wakeup_cnt \in Counts, NEW sync \in BOOLEAN,
           os_waitqueue_wakeup_sync(q, wakeup_cnt, sync)
    PROVE  WaitQueueInv'
<1> DEFINE all == wakeup_cnt = OS_WAITQUEUE_ALL
           n == IF all THEN Cardinality(Task)
                ELSE IF Prepared(q) THEN wakeup_cnt - 1 ELSE wakeup_cnt
           w == Wakeup(q, n)
           W == w.tasks
           Codes == {"OK", "DESTROYED", "TIMEOUT", "EXIT"}
<1>1. /\ Notifier /\ owed' = [owed EXCEPT ![q] = @ /\ ~all]
      /\ waitqueue_current' = IF Prepared(q) THEN NULL ELSE waitqueue_current
      /\ UNCHANGED <<prio_base, block_type, join_sem, cpuVars>> /\ lock_depth' = lock_depth
      /\ wq_arg' = wq_arg /\ live' = live /\ test_condition' = test_condition
      /\ os_blocktimer_destroy(W)
      /\ block_code' = [t \in Task |-> IF t \in W THEN "OK" ELSE block_code[t]]
      /\ IF sync \/ W = {}
         THEN tq' = w.s /\ deferred' = (deferred \/ W # {}) /\ UNCHANGED <<task_current, pc>>
         ELSE os_schedule(w.s, pc[task_current], 1)
  BY DEF os_waitqueue_wakeup_sync, cpuVars
<1>2. /\ SchedInv /\ SchedCore /\ GuardInv /\ WaitQueueTypeOK /\ PreparedIsCurrent
      /\ q \in ObjectQueue /\ q # NULL /\ block_code \in [Task -> Codes] /\ deferred \in BOOLEAN
      /\ isr_nesting \in Nat
  BY WaitQueueQueues DEF WaitQueueInv, SchedInv, SchedCore, TypeOK
<1>3. n \in Nat
  BY CountsAssumption, TaskAssumption, FS_CardinalityType
<1> HIDE DEF n
<1>4. /\ Released(w.s, W) /\ w.s.prio_current = tq.prio_current /\ W \subseteq Waiters(q)
      /\ n = Cardinality(Task) => W = Waiters(q)
  BY <1>2, <1>3, WakeupProperties
<1> HIDE DEF w
<1>5. W \in SUBSET {t \in Task : tq.task_queue[t] \in ObjectQueue}
  BY <1>4 DEF Released
<1>6. /\ block_code' \in [Task -> Codes]
      /\ \A t \in Task \ W : block_code'[t] = block_code[t]
  BY <1>1, <1>2
<1> HIDE DEF W
<1>7. SchedInv' /\ ReleaseEffect(W)
  <2>1. CASE sync \/ W = {}
    <3>1. tq' = w.s /\ deferred' = (deferred \/ W # {}) /\ UNCHANGED <<task_current, pc>>
      BY <1>1, <2>1
    <3>2. SchedCore' /\ ReleaseEffect(W)
      BY <1>1, <1>2, <1>4, <1>6, <3>1, ReleaseOnly
    <3>3. CASE W # {}
      BY <3>1, <3>2, <3>3, RanksNext
    <3>4. CASE W = {}
      <4>1. \A t \in Task : tq'.task_queue[t] = tq.task_queue[t]
        BY <1>4, <3>1, <3>4 DEF Released
      <4>2. /\ tq'.prio_current = tq.prio_current /\ deferred' = deferred
            /\ task_current' = task_current
        BY <1>2, <1>4, <3>1, <3>4
      <4>3. HighestPrioRuns'
        BY <1>2, <4>1, <4>2 DEF SchedInv, HighestPrioRuns, TopRuns, OnQueue
      <4> QED BY <3>2, <4>3 DEF SchedInv
    <3> QED BY <3>2, <3>3, <3>4
  <2>2. CASE ~(sync \/ W = {})
    <3>1. os_schedule(w.s, pc[task_current], 1)
      BY <1>1, <2>2
    <3>2. SchedCore' /\ ReleaseEffect(W) /\ (deferred' \/ NotOutranked(tq', task_current'))
      BY <1>1, <1>2, <1>4, <1>6, <3>1, ReleaseAndSchedule
    <3> QED BY <3>2, RanksNext
  <2> QED BY <2>1, <2>2
<1>8. GuardInv'
  BY <1>1, <1>2, <1>7, GuardsReleased DEF SchedInv
<1>9. PassesReceiver(W)
  BY <1>1, <1>5, <1>7, ReleasePasses
<1>10. QueueTypeOK'
  BY <1>1, <1>2 DEF QueueTypeOK, WaitQueueTypeOK
<1>11. waitqueue_current' # q
  <2>1. CASE isr_nesting > 0
    BY <1>1, <1>2, <2>1 DEF Prepared
  <2>2. CASE isr_nesting = 0
    BY <1>1, <1>2, <2>2 DEF Notifier, At, PreparedIsCurrent, Prepared
  <2> QED BY <1>2, <2>1, <2>2
<1>12. ASSUME NEW o \in WaitQueues, test_condition'[o], ~owed'[o]
       PROVE  \/ test_condition[o] /\ ~owed[o]
              \/ Waiters(o) \subseteq W /\ waitqueue_current' # o
  <2>1. CASE o = q /\ all
    BY <1>4, <1>11, <2>1 DEF n
  <2>2. CASE ~(o = q /\ all)
    BY <1>1, <1>2, <1>12, <2>2 DEF WaitQueueTypeOK
  <2> QED BY <2>1, <2>2
<1> QED BY <1>1, <1>7, <1>8, <1>9, <1>10, <1>12, PassingKeeps

---------------------------------------------------------------------------
(* The theorems.                                                           *)

LEMMA WaitQueueInitHolds == WaitQueueInit => WaitQueueInv
<1> SUFFICES ASSUME WaitQueueInit PROVE WaitQueueInv
  OBVIOUS
<1>1. SchedInv /\ GuardInv
  BY InitHolds, GuardInitHolds DEF WaitQueueInit
<1>2. /\ \A t \in Task : tq.task_queue[t] = NULL /\ pc[t] \in {"boot", "run"}
      /\ waitqueue_current = NULL /\ wq_arg = [t \in Task |-> NULL]
      /\ live = [q \in WaitQueues |-> FALSE] /\ test_condition = [q \in WaitQueues |-> FALSE]
      /\ owed = [q \in WaitQueues |-> FALSE]
  BY DEF WaitQueueInit, Init
<1>3. WaitQueueTypeOK
  BY <1>1, <1>2 DEF WaitQueueTypeOK, SchedInv, SchedCore, GuardInv
<1>4. ReceiverHasCpu /\ WaitsInPlace
  BY <1>2, WaitQueueQueues DEF ReceiverHasCpu, WaitsInPlace, Between
<1>5. PreparedIsCurrent /\ NoLostWakeup
  BY <1>2 DEF PreparedIsCurrent, NoLostWakeup
<1> QED BY <1>1, <1>3, <1>4, <1>5 DEF WaitQueueInv

LEMMA WaitQueueStep == WaitQueueInv /\ WaitQueueNext => WaitQueueInv'
<1> SUFFICES ASSUME WaitQueueInv, WaitQueueNext PROVE WaitQueueInv'
  OBVIOUS
<1>1. CASE SchedCalls
  BY <1>1, SchedCallsKeepWaits
<1>2. CASE os_tick_guards /\ UNCHANGED queueVars
  BY <1>2, TickKeepsWaits
<1>3. CASE Receive
  BY <1>3, StoreKeeps, CheckKeeps, BreakKeeps, UnprepareKeeps, WaitBlockKeeps, WokenKeeps
     DEF Receive
<1>4. ASSUME NEW q \in WaitQueues,
             \/ os_waitqueue_create(q) \/ os_waitqueue_destroy(q)
             \/ os_waitqueue_prepare(q) \/ Notify(q)
      PROVE  WaitQueueInv'
  BY <1>4, FlagsKeep, DestroyKeepsWaits, PrepareKeeps, WakeupKeeps DEF Notify
<1> QED BY <1>1, <1>2, <1>3, <1>4 DEF WaitQueueNext

LEMMA WaitQueueStutter == WaitQueueInv /\ UNCHANGED allVars => WaitQueueInv'
<1> SUFFICES ASSUME WaitQueueInv, UNCHANGED allVars PROVE WaitQueueInv'
  OBVIOUS
<1>1. /\ UNCHANGED vars /\ UNCHANGED guardVars /\ waitqueue_current' = waitqueue_current
      /\ wq_arg' = wq_arg /\ live' = live /\ test_condition' = test_condition /\ owed' = owed
      /\ tq' = tq /\ pc' = pc /\ task_current' = task_current /\ deferred' = deferred
      /\ lock_depth' = lock_depth
  BY DEF allVars, wqVars, queueVars, condVars, vars
<1>2. SchedCore' /\ SchedInv'
  BY <1>1, StutterStep DEF WaitQueueInv, SchedInv, HighestPrioRuns, TopRuns
<1>3. GuardInv'
  BY <1>1, <1>2, GuardsQuiet DEF WaitQueueInv, SchedInv, SameObject
<1>4. PassesReceiver({}) /\ QueueTypeOK'
  BY <1>1 DEF PassesReceiver, SameObject, WaitQueueInv, WaitQueueTypeOK, QueueTypeOK
<1> QED BY <1>1, <1>2, <1>3, <1>4, PassingKeeps

\* WaitQueueInv is an invariant of the wait queues.
THEOREM WaitQueueInvariant == WaitQueueSpec => []WaitQueueInv
<1> QED BY WaitQueueInitHolds, WaitQueueStep, WaitQueueStutter, PTL DEF WaitQueueSpec

\* The variables of the wait queues keep their types.
THEOREM WaitQueueTypeCorrect == WaitQueueSpec => []WaitQueueTypeOK
<1>1. WaitQueueInv => WaitQueueTypeOK
  BY DEF WaitQueueInv
<1> QED BY <1>1, WaitQueueInvariant, PTL

\* No lost wake-up: at whatever point between os_waitqueue_prepare and
\* os_waitqueue_wait the notifier's ISR comes, once it has set the condition and
\* woken all, nobody sleeps or is about to sleep while the condition is true.
THEOREM NoWakeupIsLost == WaitQueueSpec => []NoLostWakeup
<1>1. WaitQueueInv => NoLostWakeup
  BY DEF WaitQueueInv
<1> QED BY <1>1, WaitQueueInvariant, PTL

\* waitqueue_current belongs to task_current, which is inside its preparation:
\* the scheduler lock of os_waitqueue_prepare is enough to protect it.
THEOREM PreparationIsOwn == WaitQueueSpec => []PreparedIsCurrent
<1>1. WaitQueueInv => PreparedIsCurrent
  BY DEF WaitQueueInv
<1> QED BY <1>1, WaitQueueInvariant, PTL

\* No guard timer outlives the os_waitqueue_wait on whose stack it is, and no
\* timeout hits a task that was already woken.
THEOREM WaitGuardsSafe == WaitQueueSpec => []GuardsAreSafe
<1>1. WaitQueueInv => GuardsAreSafe
  BY DEF WaitQueueInv, GuardInv
<1> QED BY <1>1, WaitQueueInvariant, PTL

\* A wake-up without sync calls os_schedule when it has woken somebody.
LEMMA WakeupObeys ==
    ASSUME WaitQueueInv, HighestPrioRuns', NEW q \in WaitQueues, NEW wakeup_cnt \in Counts,
           NEW sync \in BOOLEAN, os_waitqueue_wakeup_sync(q, wakeup_cnt, sync), ~SyncWakeup
    PROVE  Still \/ Called
<1> DEFINE all == wakeup_cnt = OS_WAITQUEUE_ALL
           n == IF all THEN Cardinality(Task)
                ELSE IF Prepared(q) THEN wakeup_cnt - 1 ELSE wakeup_cnt
           w == Wakeup(q, n)
<1>1. /\ UNCHANGED cpuVars
      /\ IF sync \/ w.tasks = {} THEN tq' = w.s /\ UNCHANGED <<task_current, pc>>
         ELSE os_schedule(w.s, pc[task_current], 1)
  BY DEF os_waitqueue_wakeup_sync
<1>2. /\ SchedCore /\ q \in ObjectQueue /\ n \in Nat
  BY WaitQueueQueues, CountsAssumption, TaskAssumption, FS_CardinalityType
     DEF WaitQueueInv, SchedInv
<1>3. sync = FALSE
  BY DEF SyncWakeup
<1> HIDE DEF n
<1>4. Released(w.s, w.tasks) /\ w.s.prio_current = tq.prio_current
  BY <1>2, WakeupProperties
<1> HIDE DEF w
<1>5. CASE w.tasks = {}
  BY <1>1, <1>4, <1>5 DEF Released, Still
<1>6. CASE w.tasks # {}
  BY <1>1, <1>2, <1>3, <1>6, ScheduleObeys
<1> QED BY <1>5, <1>6

\* The steps of receivers and notifiers and the lock of the scheduler.
LEMMA WaitObeys ==
    ASSUME WaitQueueInv, WaitQueueNext, ~SyncWakeup
    PROVE  Still \/ Called \/ GivesUp
<1>1. SchedCore /\ HighestPrioRuns'
  BY WaitQueueStep DEF WaitQueueInv, SchedInv
<1>2. CASE SchedCalls
  BY <1>1, <1>2, StayObeys, LeaveObeys DEF SchedCalls, Stay
<1>3. ASSUME NEW q \in WaitQueues, os_waitqueue_create(q) \/ SetCondition(q)
      PROVE  Still
  BY <1>3 DEF os_waitqueue_create, SetCondition, vars, Still
<1>4. ASSUME NEW q \in WaitQueues, os_waitqueue_destroy(q)
      PROVE  Called
  BY <1>1, <1>4, ScheduleObeys DEF os_waitqueue_destroy
<1>5. ASSUME NEW q \in WaitQueues, os_waitqueue_prepare(q)
      PROVE  Still
  BY <1>5 DEF os_waitqueue_prepare, Still
<1>6. CASE \/ os_waitqueue_prepare_store \/ CheckCondition \/ os_waitqueue_break
           \/ os_waitqueue_break_unlock \/ os_waitqueue_wait_skip
  BY <1>6 DEF os_waitqueue_prepare_store, CheckCondition, os_waitqueue_break,
              os_waitqueue_break_unlock, os_waitqueue_wait_skip, Still
<1>7. ASSUME NEW timeout \in Timeouts \cup {NULL}, os_waitqueue_wait_block(timeout)
      PROVE  GivesUp
  <2>1. /\ os_task_block_switch(tq, waitqueue_current, "WAITQUEUE", "wq_wait")
        /\ tq'.state[task_current] = "WAIT"
    BY <1>7, WaitBlockKeeps DEF os_waitqueue_wait_block
  <2> QED BY <1>1, <2>1, SwitchObeys DEF os_task_block_switch
<1>8. CASE os_waitqueue_wait_woken
  <2>1. tq' = [tq EXCEPT !.state[task_current] = "RUNNING"] /\ UNCHANGED task_current
    BY <1>8 DEF os_waitqueue_wait_woken
  <2>2. tq'.task_queue = tq.task_queue /\ tq'.prio_current = tq.prio_current
    BY <1>1, <2>1, MarkRunning DEF SchedCore
  <2> QED BY <2>1, <2>2 DEF Still
<1>9. ASSUME NEW q \in WaitQueues, NEW n \in Counts, NEW sync \in BOOLEAN,
             os_waitqueue_wakeup_sync(q, n, sync)
      PROVE  Still \/ Called
  BY <1>1, <1>9, WakeupObeys
<1>10. CASE os_tick_guards
  BY <1>1, <1>10, ScheduleObeys DEF os_tick_guards
<1> QED
  <2>1. ASSUME NEW q \in WaitQueues, Notify(q) PROVE Still \/ Called
    BY <1>3, <1>9, <2>1 DEF Notify
  <2>2. CASE Receive
    BY <1>6, <1>7, <1>8, <2>2 DEF Receive
  <2> QED BY <1>2, <1>3, <1>4, <1>5, <1>10, <2>1, <2>2 DEF WaitQueueNext

\* No way through prepare, break, wait and wake-up leaves the scheduler locked
\* behind it or lets the receiver be preempted in between.
THEOREM ReceiversUnlock == WaitQueueSpec => ReceiverUnlocks
<1>1. WaitQueueInv /\ WaitQueueNext => LockStops /\ (LockEnds \/ SyncWakeup)
  <2> SUFFICES ASSUME WaitQueueInv, WaitQueueNext PROVE LockStops /\ (LockEnds \/ SyncWakeup)
    OBVIOUS
  <2>1. SchedCore
    BY DEF WaitQueueInv, SchedInv
  <2>2. CASE ~SyncWakeup
    BY <2>1, <2>2, WaitObeys, LockRule
  <2>3. CASE SyncWakeup
    <3>1. UNCHANGED task_current
      BY <2>3 DEF SyncWakeup, os_waitqueue_wakeup_sync
    <3> QED BY <2>3, <3>1 DEF LockStops
  <2> QED BY <2>2, <2>3
<1>2. WaitQueueInv /\ [WaitQueueNext]_allVars
          => [LockStops /\ (LockEnds \/ SyncWakeup)]_allVars
  BY <1>1
<1> QED BY <1>2, WaitQueueInvariant, PTL DEF WaitQueueSpec, ReceiverUnlocks

\* Strict priorities with wait queues: after a wake-up, a timeout or a destroy
\* no READY task outranks the running one, unless the scheduling point was put
\* off.
THEOREM WaitStrictPriorities == WaitQueueSpec => []HighestPrioRuns
<1>1. WaitQueueInv => HighestPrioRuns
  BY DEF WaitQueueInv, SchedInv
<1> QED BY <1>1, WaitQueueInvariant, PTL
=============================================================================
