----------------------------- MODULE AbstractSem -----------------------------
(***************************************************************************)
(* What the semaphores of RadOs promise (os_sem.h): a signal is either     *)
(* kept in the value or given to exactly one waiting task, and a task that *)
(* waits gets exactly one result, which does not change any more until it  *)
(* has taken notice of it.                                                 *)
(***************************************************************************)
EXTENDS Naturals

CONSTANTS Task, Semaphore

VARIABLES value,    \* signals that nobody has consumed
          waiters,  \* the tasks that wait for each semaphore
          result    \* what a task that waited has got and not seen yet

AInit ==
    /\ value = [s \in Semaphore |-> 0]
    /\ waiters = [s \in Semaphore |-> {}]
    /\ result = [t \in Task |-> "NONE"]

\* The tasks T stop waiting, with the given result.
Answer(T, code) ==
    /\ waiters' = [s \in Semaphore |-> waiters[s] \ T]
    /\ result' = [t \in Task |-> IF t \in T THEN code ELSE result[t]]

Create(s) ==
    /\ waiters[s] = {}
    /\ value'[s] \in Nat
    /\ value' = [value EXCEPT ![s] = value'[s]]
    /\ UNCHANGED <<waiters, result>>

Take(s) ==
    /\ value[s] > 0
    /\ waiters[s] = {}
    /\ value' = [value EXCEPT ![s] = @ - 1]
    /\ UNCHANGED <<waiters, result>>

Wait(t, s) ==
    /\ value[s] = 0
    /\ result[t] = "NONE"
    /\ \A o \in Semaphore : t \notin waiters[o]
    /\ waiters' = [waiters EXCEPT ![s] = @ \cup {t}]
    /\ UNCHANGED <<value, result>>

Keep(s) ==
    /\ waiters[s] = {}
    /\ value' = [value EXCEPT ![s] = @ + 1]
    /\ UNCHANGED <<waiters, result>>

Signal(t, s) ==
    /\ t \in waiters[s]
    /\ Answer({t}, "OK")
    /\ UNCHANGED value

\* Several guards may expire in one tick.
Expire ==
    /\ \E T \in SUBSET UNION {waiters[s] : s \in Semaphore} : Answer(T, "TIMEOUT")
    /\ UNCHANGED value

Destroy(s) ==
    /\ Answer(waiters[s], "DESTROYED")
    /\ value' = [value EXCEPT ![s] = 0]

Return(t) ==
    /\ result[t] # "NONE"
    /\ result' = [result EXCEPT ![t] = "NONE"]
    /\ UNCHANGED <<value, waiters>>

ANext ==
    \/ \E s \in Semaphore :
          \/ Create(s) \/ Take(s) \/ Keep(s) \/ Destroy(s)
          \/ \E t \in Task : Wait(t, s) \/ Signal(t, s)
    \/ \E t \in Task : Return(t)
    \/ Expire

ASpec == AInit /\ [][ANext]_<<value, waiters, result>>
=============================================================================
