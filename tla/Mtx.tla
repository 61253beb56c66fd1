--------------------------------- MODULE Mtx ---------------------------------
(***************************************************************************)
(* The mutexes of RadOs (os_mtx.c) on top of the scheduler: recursive      *)
(* locks, hand-over of the ownership to the top waiter, and priority       *)
(* inheritance along chains of mutexes.                                    *)
(***************************************************************************)
EXTENDS Sched

CONSTANTS Mutex,     \* the mutexes; the queue of waiters of m is named m
          Rank,      \* the order in which the application takes them ...
          Ordered,   \* ... if it keeps to one
          MaxRecur,  \* bound on nested locks of one mutex
          RECUR_MOD  \* the range of os_mtx_t.recur (uint_fast8_t: 256)

ASSUME MutexAssumption == Mutex \subseteq Queue \ (Task \cup {ready_queue})
ASSUME RankAssumption == Rank \in [Mutex -> Nat] /\ Ordered \in BOOLEAN
ASSUME RecurAssumption == MaxRecur \in Nat \ {0} /\ RECUR_MOD \in Nat \ {0, 1}

VARIABLES
    owner,     \* mtx->owner
    recur,     \* mtx->recur
    live,      \* the mutex is created and not destroyed
    lock_arg,  \* the argument of the last os_mtx_lock of each task
    depth,     \* history: calls of os_mtx_lock that os_mtx_unlock has to undo
    hung       \* the loop of os_mtx_lock_prio_boost does not end

mtxVars == <<owner, recur, live, lock_arg, depth, hung>>
allVars == <<vars, mtxVars>>

MtxTypeOK ==
    /\ TypeOK
    /\ owner \in [Mutex -> Task \cup {NULL}]
    /\ recur \in [Mutex -> 0 .. (RECUR_MOD - 1)]
    /\ live \in [Mutex -> BOOLEAN]
    /\ lock_arg \in [Task -> Mutex \cup {NULL}]
    /\ depth \in [Mutex -> Nat]
    /\ hung \in BOOLEAN

MtxInit ==
    /\ Init
    /\ owner = [m \in Mutex |-> NULL]
    /\ recur = [m \in Mutex |-> 0]
    /\ live = [m \in Mutex |-> FALSE]
    /\ lock_arg = [t \in Task |-> NULL]
    /\ depth = [m \in Mutex |-> 0]
    /\ hung = FALSE

---------------------------------------------------------------------------
\* task->mtx_list: the mutexes t owns.
mtx_list(t) == {m \in Mutex : owner[m] = t}

\* Mutant: block_type is looked at though the task does not wait any more.
BlockedBy_stale(t) ==
    IF block_type[t] = "MTX" /\ lock_arg[t] # NULL THEN owner[lock_arg[t]] ELSE NULL

\* One turn of the loop in os_mtx_lock_prio_boost: the task that keeps t
\* waiting, or NULL when t does not wait for a mutex.
BlockedBy(t) ==
    IF tq.state[t] = "WAIT" /\ block_type[t] = "MTX"
    THEN owner[tq.task_queue[t]] ELSE NULL

\* The tasks that loop visits, from the owner of m on.  A walk with more
\* turns than there are tasks goes round in a circle for ever.
BlockingChain(m) ==
    LET chain[n \in 0 .. Cardinality(Task)] ==
            IF n = 0 THEN owner[m]
            ELSE IF chain[n - 1] = NULL THEN NULL ELSE BlockedBy(chain[n - 1])
    IN  chain

NeedsBoost(m) == tq.prio_current[owner[m]] < tq.prio_current[task_current]

BoostLoops(m) == NeedsBoost(m) /\ BlockingChain(m)[Cardinality(Task)] # NULL

\* Mutant: no priority inheritance.
os_mtx_lock_prio_boost_never(m) == tq

\* The priorities are compared for the owner of m only; every task further
\* down the chain gets the priority of task_current.
os_mtx_lock_prio_boost(m) ==
    LET chain == BlockingChain(m)
        prio  == tq.prio_current[task_current]
        boosted[n \in 0 .. Cardinality(Task)] ==
            IF n = 0 THEN tq
            ELSE IF chain[n - 1] = NULL THEN boosted[n - 1]
            ELSE os_taskqueue_reprio(boosted[n - 1], chain[n - 1], prio)
    IN  IF NeedsBoost(m) THEN boosted[Cardinality(Task)] ELSE tq

\* Mutant: the mutexes that are still held are forgotten.
os_mtx_unlock_prio_reset_base(s, held) ==
    [s EXCEPT !.prio_current[task_current] = prio_base[task_current]]

\* task_current falls back to the top priority among its own and those of
\* the tasks that wait for a mutex it still owns (held).
os_mtx_unlock_prio_reset(s, held) ==
    LET top == {os_taskqueue_peek(s, m) : m \in held} \ {NULL}
    IN  IF s.prio_current[task_current] = prio_base[task_current] THEN s
        ELSE [s EXCEPT !.prio_current[task_current] =
                 Max({prio_base[task_current]} \cup {s.prio_current[t] : t \in top})]

---------------------------------------------------------------------------
os_mtx_create(m) ==
    /\ isr_nesting = 0
    /\ pc[task_current] \in {"boot", "run"}
    /\ ~live[m]
    /\ live' = [live EXCEPT ![m] = TRUE]
    /\ UNCHANGED <<vars, owner, recur, lock_arg, depth, hung>>

\* Mutant: the loop does not set the block_code of the tasks it wakes.
DestroyCodes_unset(m) == block_code

\* The results that os_mtx_destroy leaves for the waiters of m.
DestroyCodes(m) ==
    [t \in Task |-> IF tq.task_queue[t] = m THEN "DESTROYED" ELSE block_code[t]]

\* Only the owner, or anybody if the mutex is not locked.
os_mtx_destroy(m) ==
    /\ InTask
    /\ live[m]
    /\ owner[m] \in {NULL, task_current}
    /\ owner' = [owner EXCEPT ![m] = NULL]
    /\ recur' = [recur EXCEPT ![m] = 0]
    /\ live' = [live EXCEPT ![m] = FALSE]
    /\ depth' = [depth EXCEPT ![m] = 0]
    /\ block_code' = DestroyCodes(m)
    /\ UNCHANGED <<prio_base, block_type, join_sem, cpuVars, lock_arg, hung>>
    /\ os_schedule(
          IF owner[m] = NULL THEN tq
          ELSE WakeAll(os_mtx_unlock_prio_reset(tq, mtx_list(task_current) \ {m}), m),
          "run", 1)

(***************************************************************************)
(* os_mtx_lock(m) on a free mutex, on one the caller owns, and on one it   *)
(* has to wait for.                                                        *)
(***************************************************************************)
MayLock(m) ==
    /\ InTask
    /\ task_current # Idle
    /\ live[m]
    /\ Ordered => \A o \in mtx_list(task_current) \ {m} : Rank[o] < Rank[m]

os_mtx_lock_free(m) ==
    /\ MayLock(m)
    /\ owner[m] = NULL
    /\ owner' = [owner EXCEPT ![m] = task_current]
    /\ recur' = [recur EXCEPT ![m] = 1]
    /\ depth' = [depth EXCEPT ![m] = 1]
    /\ lock_arg' = [lock_arg EXCEPT ![task_current] = m]
    /\ UNCHANGED <<vars, live, hung>>

os_mtx_lock_again(m) ==
    /\ MayLock(m)
    /\ owner[m] = task_current
    /\ depth[m] < MaxRecur
    /\ recur' = [recur EXCEPT ![m] = (@ + 1) % RECUR_MOD]
    /\ depth' = [depth EXCEPT ![m] = @ + 1]
    /\ lock_arg' = [lock_arg EXCEPT ![task_current] = m]
    /\ UNCHANGED <<vars, owner, live, hung>>

os_mtx_lock_wait(m) ==
    /\ MayLock(m)
    /\ MayBlock
    /\ owner[m] \notin {NULL, task_current}
    /\ lock_arg' = [lock_arg EXCEPT ![task_current] = m]
    /\ hung' = BoostLoops(m)
    /\ UNCHANGED <<owner, recur, live, depth>>
    /\ IF BoostLoops(m) THEN UNCHANGED vars
       ELSE /\ os_task_block_switch(os_mtx_lock_prio_boost(m), m, "MTX", "mtx_wait")
            /\ UNCHANGED <<prio_base, block_code, join_sem, cpuVars>>

\* Back from os_task_block_switch; block_code is the result of os_mtx_lock.
os_mtx_lock_woken ==
    /\ isr_nesting = 0
    /\ pc[task_current] = "mtx_wait"
    /\ tq' = [tq EXCEPT !.state[task_current] = "RUNNING"]
    /\ pc' = [pc EXCEPT ![task_current] = "run"]
    /\ UNCHANGED <<tcbVars, task_current, cpuVars, deferred, mtxVars>>

\* Mutant: every unlock is taken for the last one.
Unrecur_zero(n) == 0

\* recur is unsigned: taking 1 from 0 gives its largest value.
Unrecur(n) == (n + RECUR_MOD - 1) % RECUR_MOD

os_mtx_unlock_nested(m) ==
    /\ InTask
    /\ owner[m] = task_current
    /\ Unrecur(recur[m]) > 0
    /\ recur' = [recur EXCEPT ![m] = Unrecur(@)]
    /\ depth' = [depth EXCEPT ![m] = @ - 1]
    /\ UNCHANGED <<vars, owner, live, lock_arg, hung>>

\* The last unlock: without a waiter the mutex is free and nothing is
\* scheduled, otherwise the top waiter owns it before it even runs.
os_mtx_unlock_last(m) ==
    /\ InTask
    /\ owner[m] = task_current
    /\ Unrecur(recur[m]) = 0
    /\ UNCHANGED <<prio_base, block_type, join_sem, cpuVars, live, lock_arg, hung>>
    /\ LET reset == os_mtx_unlock_prio_reset(tq, mtx_list(task_current) \ {m})
           d     == os_taskqueue_dequeue(reset, m)
       IN  IF d.task = NULL
           THEN /\ tq' = d.s
                /\ owner' = [owner EXCEPT ![m] = NULL]
                /\ recur' = [recur EXCEPT ![m] = 0]
                /\ depth' = [depth EXCEPT ![m] = @ - 1]
                /\ UNCHANGED <<block_code, task_current, pc, deferred>>
           ELSE /\ owner' = [owner EXCEPT ![m] = d.task]
                /\ recur' = [recur EXCEPT ![m] = 1]
                /\ depth' = [depth EXCEPT ![m] = 1]
                /\ block_code' = [block_code EXCEPT ![d.task] = "OK"]
                /\ os_schedule(os_task_makeready(d.s, d.task), "run", 1)

Unlocks(m) == os_mtx_unlock_nested(m) \/ os_mtx_unlock_last(m)

---------------------------------------------------------------------------
\* A task does not exit, nor wait in os_task_join, while it owns a mutex.
SchedStep ==
    /\ \/ mtx_list(task_current) = {} /\ Leave
       \/ Stay
    /\ UNCHANGED mtxVars

MtxNext ==
    /\ ~hung
    /\ \/ SchedStep
       \/ \E m \in Mutex :
             \/ os_mtx_create(m) \/ os_mtx_destroy(m)
             \/ os_mtx_lock_free(m) \/ os_mtx_lock_again(m) \/ os_mtx_lock_wait(m)
             \/ Unlocks(m)
       \/ os_mtx_lock_woken

MtxSpec == MtxInit /\ [][MtxNext]_allVars

---------------------------------------------------------------------------
(* Properties.                                                             *)

Waiters(m) == OnQueue(tq, m)

\* A task that comes back from waiting in os_mtx_lock gets OS_OK exactly if
\* it owns the mutex it asked for; otherwise the mutex was destroyed.
LockResultIsTrue ==
    \A t \in Task : pc[t] = "mtx_wait" /\ tq.state[t] # "WAIT" =>
        \/ block_code[t] = "OK" /\ owner[lock_arg[t]] = t
        \/ block_code[t] = "DESTROYED" /\ owner[lock_arg[t]] # t

\* Nobody sleeps on a mutex that no task can unlock any more: a mutex with
\* waiters has an owner, which is a task that exists and is not waiting for
\* that same mutex.
WaitersHaveAnOwner ==
    \A m \in Mutex : Waiters(m) # {} =>
        /\ live[m]
        /\ owner[m] # NULL
        /\ tq.state[owner[m]] \in {"RUNNING", "READY", "WAIT"}
        /\ owner[m] \notin Waiters(m)

\* The priority inheritance rule of os_mtx.c, comment 2: p(owner) is the
\* maximum of its base priority and of the priorities of the tasks that wait
\* for its mutexes, evaluated along the whole blocking chain.  In particular
\* a task that owns no mutex is back at its base priority.
PrioIsInherited ==
    \A t \in Task : tq.state[t] \in {"RUNNING", "READY", "WAIT"} =>
        LET waiting == UNION {Waiters(m) : m \in mtx_list(t)}
        IN  tq.prio_current[t] =
                Max({prio_base[t]} \cup {tq.prio_current[w] : w \in waiting})

\* Inheritance never makes a task less urgent than it was created.
NeverBelowBase ==
    \A t \in Task : tq.state[t] \in {"RUNNING", "READY", "WAIT"} =>
        tq.prio_current[t] >= prio_base[t]

\* The walk along the blocking chain in os_mtx_lock_prio_boost, which runs
\* with interrupts off, ends when the application takes its mutexes in one
\* order.
BoostEnds == ~hung

\* os_mtx.h: to free a mutex it must be unlocked as many times as it was
\* locked.
HeldUntilLastUnlock == \A m \in Mutex : owner[m] = NULL => depth[m] = 0

\* The mutexes implement the abstract ones: one holder, no barging past
\* waiting tasks, and waiting ends by hand-over or destruction only.
Abstract == INSTANCE AbstractMutex
              WITH holder <- owner, waiters <- [m \in Mutex |-> Waiters(m)]

ImplementsAbstractMutex == Abstract!ASpec

---------------------------------------------------------------------------
(* Liveness.  Beside the fairness of the scheduler, an owner that keeps    *)
(* getting the CPU does not keep its mutex for ever: the application       *)
(* unlocks what it locks.                                                  *)

MtxFairness ==
    /\ WF_allVars(Continue /\ UNCHANGED mtxVars)
    /\ WF_allVars(os_mtx_lock_woken)
    /\ SF_allVars(arch_contextstore_i /\ UNCHANGED mtxVars)
    /\ SF_allVars(os_tick /\ UNCHANGED mtxVars)
    /\ WF_allVars(arch_contextrestore_i /\ UNCHANGED mtxVars)
    /\ \A m \in Mutex : []<>(InTask /\ owner[m] = task_current)
                            => []<><<owner'[m] # owner[m]>>_owner

MtxFairSpec == MtxSpec /\ MtxFairness

\* The tasks that some choice of priorities puts above all others.
TopTask == {t \in Task \ {Idle} : \A o \in Task \ {t, Idle} :
                \E p \in AppPrio[t] : \A u \in AppPrio[o] : u < p}

\* No unbounded priority inversion: a task above all others in priority does
\* not wait for a mutex for ever, even though tasks of medium priority never
\* stop and the owner of the mutex ranks below them (os_mtx.c, comment 2).
NoUnboundedInversion ==
    \A t \in TopTask, m \in Mutex :
        (t \in Waiters(m) /\ \A o \in Task \ {t, Idle} :
                                \A p \in AppPrio[o] : p < prio_base[t])
            ~> t \notin Waiters(m)
=============================================================================
