--------------------------- MODULE AbstractSched ---------------------------
(***************************************************************************)
(* What the scheduler promises to those who create, join and end tasks:    *)
(* one CPU that a task loses only to the most urgent task that can run, an *)
(* exit that lets the joining task run again in the same step, and a join  *)
(* that ends once, after the exit it waited for.                           *)
(***************************************************************************)
EXTENDS Naturals

CONSTANTS Task,
          Idle,   \* the task that is always there
          Prio,   \* priorities, the larger the more urgent
          None    \* no task

VARIABLES life,   \* of each task: none, ready, join or done
          rank,   \* its priority
          awaits, \* the task it joins, or None
          cpu     \* the task that has the CPU

AInit ==
    /\ life = [t \in Task |-> IF t = Idle THEN "ready" ELSE "none"]
    /\ rank = [t \in Task |-> 0]
    /\ awaits = [t \in Task |-> None]
    /\ cpu = Idle

\* The CPU stays where it is, or goes to a task that is second to none.
Dispatch ==
    /\ life'[cpu'] = "ready"
    /\ \/ cpu' = cpu
       \/ \A t \in Task : life'[t] = "ready" => rank'[t] <= rank'[cpu']

Preempt == Dispatch /\ UNCHANGED <<life, rank, awaits>>

Create(t) ==
    /\ life[t] = "none"
    /\ life' = [life EXCEPT ![t] = "ready"]
    /\ \E p \in Prio : rank' = [rank EXCEPT ![t] = p]
    /\ UNCHANGED awaits
    /\ Dispatch

Join(u) ==
    /\ cpu # Idle
    /\ u # cpu
    /\ life[u] \in {"ready", "join"}
    /\ \A t \in Task : awaits[t] # u
    /\ life' = [life EXCEPT ![cpu] = "join"]
    /\ awaits' = [awaits EXCEPT ![cpu] = u]
    /\ UNCHANGED rank
    /\ Dispatch

Exit ==
    /\ cpu # Idle
    /\ life' = [t \in Task |-> IF t = cpu THEN "done"
                               ELSE IF awaits[t] = cpu THEN "ready"
                               ELSE life[t]]
    /\ UNCHANGED <<rank, awaits>>
    /\ Dispatch

\* The end of a join; the memory of u may be used for another task.
Reap(u) ==
    /\ life[u] = "done"
    /\ awaits[cpu] = u \/ \A t \in Task : awaits[t] # u
    /\ life' = [life EXCEPT ![u] = "none"]
    /\ awaits' = [awaits EXCEPT ![cpu] = None]
    /\ UNCHANGED <<rank, cpu>>

ANext == Preempt \/ Exit \/ \E t \in Task : Create(t) \/ Join(t) \/ Reap(t)

ASpec == AInit /\ [][ANext]_<<life, rank, awaits, cpu>>
=============================================================================
