---------------------------- MODULE AbstractMutex ----------------------------
(***************************************************************************)
(* What the mutexes of RadOs promise (os_mtx.h), without priorities, task  *)
(* queues or scheduling: a mutex has at most one holder; a task that finds *)
(* it taken waits; a release hands the mutex over to one of the waiters at *)
(* once, so nobody can take it while others wait; the holder can destroy   *)
(* it, which sends all waiters away.                                       *)
(***************************************************************************)
CONSTANTS Task, Mutex, NULL

VARIABLES holder,   \* the task that holds each mutex, or NULL
          waiters   \* the tasks that wait for each mutex

AInit ==
    /\ holder = [m \in Mutex |-> NULL]
    /\ waiters = [m \in Mutex |-> {}]

Acquire(t, m) ==
    /\ holder[m] = NULL
    /\ waiters[m] = {}
    /\ holder' = [holder EXCEPT ![m] = t]
    /\ UNCHANGED waiters

\* Nobody waits for two mutexes.
Wait(t, m) ==
    /\ holder[m] \notin {NULL, t}
    /\ \A o \in Mutex : t \notin waiters[o]
    /\ waiters' = [waiters EXCEPT ![m] = @ \cup {t}]
    /\ UNCHANGED holder

Release(m) ==
    /\ holder[m] # NULL
    /\ waiters[m] = {}
    /\ holder' = [holder EXCEPT ![m] = NULL]
    /\ UNCHANGED waiters

HandOver(t, m) ==
    /\ holder[m] # NULL
    /\ t \in waiters[m]
    /\ holder' = [holder EXCEPT ![m] = t]
    /\ waiters' = [waiters EXCEPT ![m] = @ \ {t}]

Destroy(m) ==
    /\ holder' = [holder EXCEPT ![m] = NULL]
    /\ waiters' = [waiters EXCEPT ![m] = {}]

ANext ==
    \E m \in Mutex :
        \/ \E t \in Task : Acquire(t, m) \/ Wait(t, m) \/ HandOver(t, m)
        \/ Release(m)
        \/ Destroy(m)

ASpec == AInit /\ [][ANext]_<<holder, waiters>>
=============================================================================
