----------------------------- MODULE GuardProofs -----------------------------
(***************************************************************************)
(* The guard timers, for any number of tasks and any guard times: what the *)
(* functions of os_sem.c and os_waitqueue.c need of them.                  *)
(*                                                                         *)
(* The invariant says that the list of timers holds each task with a       *)
(* running guard once, and GuardsAreSafe: such a task is on the queue of   *)
(* an object.  Then the callbacks of one tick take distinct tasks from     *)
(* the queues of objects and nothing else.                                 *)
(***************************************************************************)
EXTENDS Guard, SchedProofs

\* The tasks whose guard is running.
Guarded == {t \in Task : guard[t] # NULL /\ guard[t] # 0}

GuardInv ==
    /\ guard = [t \in Task |-> guard[t]]
    /\ GuardTypeOK
    /\ IsInjective(timers)
    /\ ToSet(timers) = Guarded
    /\ GuardsAreSafe

---------------------------------------------------------------------------
(* The loops over the list of timers.                                      *)

LEMMA OnlyProperties ==
    ASSUME NEW list \in Seq(Task), IsInjective(list), NEW T
    PROVE  /\ Only(list, T) \in Seq(Task)
           /\ IsInjective(Only(list, T))
           /\ ToSet(Only(list, T)) = ToSet(list) \cap T
<1> DEFINE N == Len(list)
           Turn(n, b) == IF list[n] \in T THEN Append(b, list[n]) ELSE b
           first(n) == {list[i] : i \in 1 .. n} \cap T
           S == [n \in 0 .. N |-> {b \in Seq(Task) : IsInjective(b) /\ ToSet(b) = first(n)}]
           g == [n \in 1 .. N |-> [b \in Seq(Task) |-> Turn(n, b)]]
           w == CHOOSE w : w = [n \in 0 .. N |-> IF n = 0 THEN <<>> ELSE Turn(n, w[n - 1])]
<1>1. Only(list, T) = w[N]
  BY DEF Only
<1>2. N \in Nat /\ \A n \in 1 .. N : list[n] \in Task
  OBVIOUS
<1>3. <<>> \in S[0]
  <2>1. <<>> \in Seq(Task) /\ IsInjective(<<>>) /\ ToSet(<<>>) = {}
    BY DEF IsInjective, ToSet
  <2>2. first(0) = {}
    OBVIOUS
  <2> QED BY <1>2, <2>1, <2>2
<1>4. ASSUME NEW n \in 1 .. N, NEW b \in S[n - 1]
      PROVE  Turn(n, b) \in S[n] /\ b \in Seq(Task)
  <2>1. b \in Seq(Task) /\ IsInjective(b) /\ ToSet(b) = first(n - 1)
    BY <1>2, <1>4
  <2>2. first(n) = IF list[n] \in T THEN first(n - 1) \cup {list[n]} ELSE first(n - 1)
    <3>1. 1 .. n = (1 .. (n - 1)) \cup {n}
      OBVIOUS
    <3> QED BY <3>1
  <2>3. list[n] \notin first(n - 1)
    BY DEF IsInjective
  <2>4. CASE list[n] \in T
    <3> HIDE DEF first
    <3>1. /\ Append(b, list[n]) \in Seq(Task) /\ IsInjective(Append(b, list[n]))
          /\ ToSet(Append(b, list[n])) = ToSet(b) \cup {list[n]}
      BY <1>2, <2>1, <2>3, AppendBucket
    <3>2. ToSet(Append(b, list[n])) = first(n)
      BY <2>1, <2>2, <2>4, <3>1
    <3>3. Append(b, list[n]) \in S[n]
      <4>1. n \in 0 .. N
        BY <1>2
      <4>2. S[n] = {a \in Seq(Task) : IsInjective(a) /\ ToSet(a) = first(n)}
        BY <4>1
      <4> HIDE DEF S
      <4> QED BY <3>1, <3>2, <4>2
    <3> QED BY <2>1, <2>4, <3>3
  <2>5. CASE list[n] \notin T
    <3> HIDE DEF first
    <3> QED BY <1>2, <2>1, <2>2, <2>5
  <2> QED BY <2>1, <2>4, <2>5
<1> HIDE DEF Turn, N, S
<1>5. PICK f : Stages(N, S, <<>>, g, f)
  <2>1. \A n \in 1 .. N : \A b \in S[n - 1] : g[n][b] \in S[n]
    BY <1>4
  <2> HIDE DEF g
  <2> QED BY <1>2, <1>3, <2>1, StagedLoop, Zenon
<1>6. f = [n \in 0 .. N |-> IF n = 0 THEN <<>> ELSE Turn(n, f[n - 1])]
  <2>1. \A n \in 1 .. N : \A b \in S[n - 1] : g[n][b] = Turn(n, b)
    BY <1>4
  <2> HIDE DEF g
  <2>2. /\ f = [n \in 0 .. N |-> f[n]] /\ f[0] = <<>>
        /\ \A n \in 0 .. N : f[n] \in S[n]
        /\ \A n \in 1 .. N : f[n] = g[n][f[n - 1]]
    BY <1>5 DEF Stages
  <2>3. ASSUME NEW n \in 1 .. N PROVE f[n] = Turn(n, f[n - 1])
    <3>1. n - 1 \in 0 .. N
      BY <1>2
    <3>2. f[n - 1] \in S[n - 1] /\ f[n] = g[n][f[n - 1]]
      BY <2>2, <3>1
    <3> QED BY <2>1, <3>2
  <2>4. \A n \in 0 .. N : n = 0 \/ n \in 1 .. N
    BY <1>2
  <2>5. \A n \in 0 .. N : f[n] = IF n = 0 THEN <<>> ELSE Turn(n, f[n - 1])
    BY <2>2, <2>3, <2>4
  <2> QED BY <2>2, <2>5
<1>7. w = [n \in 0 .. N |-> IF n = 0 THEN <<>> ELSE Turn(n, w[n - 1])]
  BY <1>6
<1> HIDE DEF w
<1>8. w[0] = <<>> /\ \A n \in 1 .. N : w[n] = Turn(n, w[n - 1])
  BY <1>2, <1>7
<1> DEFINE P == {n \in 0 .. N : w[n] \in S[n]}
<1>9. 0 \in P
  BY <1>2, <1>3, <1>8
<1>10. ASSUME NEW n \in 1 .. N, n - 1 \in P PROVE n \in P
  BY <1>4, <1>8, <1>10
<1>11. 0 .. N \subseteq P
  <2> HIDE DEF P
  <2> QED BY <1>2, <1>9, <1>10, CountUp
<1>12. w[N] \in S[N] /\ N \in 0 .. N
  BY <1>2, <1>11
<1>13. first(N) = ToSet(list) \cap T
  BY DEF ToSet, N
<1> QED BY <1>1, <1>12, <1>13 DEF S

\* The callbacks of timers of distinct tasks that wait on objects make exactly
\* these tasks READY.
LEMMA TimedOutProperties ==
    ASSUME SchedCore, NEW due \in Seq(Task), IsInjective(due),
           \A t \in ToSet(due) : tq.task_queue[t] \in ObjectQueue
    PROVE  Released(TimedOut(due), ToSet(due))
<1> DEFINE N == Len(due)
           Turn(n, r) == timerclbck(r, due[n])
           first(n) == {due[i] : i \in 1 .. n}
           S == [n \in 0 .. N |-> {r \in TaskQueueType : Released(r, first(n))}]
           g == [n \in 1 .. N |-> [r \in TaskQueueType |-> Turn(n, r)]]
           w == CHOOSE w : w = [n \in 0 .. N |-> IF n = 0 THEN tq ELSE Turn(n, w[n - 1])]
<1>1. TimedOut(due) = w[N]
  BY DEF TimedOut
<1>2. /\ N \in Nat /\ \A n \in 1 .. N : due[n] \in Task /\ tq.task_queue[due[n]] \in ObjectQueue
      /\ NULL \notin ObjectQueue
  BY NullAssumption DEF ToSet, ObjectQueue
<1>3. tq \in S[0]
  <2>1. first(0) = {} /\ tq \in TaskQueueType /\ Coherent(tq)
    BY DEF SchedCore, InPlace
  <2>2. Released(tq, first(0))
    BY <2>1 DEF Released
  <2> HIDE DEF first
  <2> QED BY <1>2, <2>1, <2>2
<1>4. ASSUME NEW n \in 1 .. N, NEW r \in S[n - 1]
      PROVE  Turn(n, r) \in S[n] /\ r \in TaskQueueType
  <2> DEFINE t == due[n]
             u == os_taskqueue_unlink(r, t)
             m == os_task_makeready(u, t)
  <2>1. r \in TaskQueueType /\ Released(r, first(n - 1))
    BY <1>2, <1>4
  <2>2. first(n) = first(n - 1) \cup {t} /\ t \notin first(n - 1)
    <3>1. 1 .. n = (1 .. (n - 1)) \cup {n}
      OBVIOUS
    <3> QED BY <3>1 DEF IsInjective
  <2>3. t \in Task /\ tq.task_queue[t] \in ObjectQueue
    BY <1>2
  <2> HIDE DEF first, t
  <2>4. /\ r.task_queue[t] # NULL /\ Coherent(r)
        /\ r.task_queue \in [Task -> Queue \cup {NULL}] /\ r.state \in [Task -> TaskState]
    BY <1>2, <2>1, <2>2, <2>3 DEF Released, TaskQueueType
  <2>5. Removed(r, u, t)
    BY <2>1, <2>3, <2>4, UnlinkFromQueue
  <2> HIDE DEF u
  <2>6. /\ u \in TaskQueueType /\ Coherent(u) /\ u.task_queue = [r.task_queue EXCEPT ![t] = NULL]
        /\ u.state = r.state
    BY <2>5 DEF Removed
  <2>7. Linked(u, m, ready_queue, t, "READY")
    <3>1. u.task_queue[t] = NULL
      BY <2>3, <2>4, <2>6
    <3> QED BY <2>3, <2>6, <3>1, MakeReady
  <2>8. Turn(n, r) = m
    BY DEF timerclbck, m, u, t
  <2> HIDE DEF m
  <2>9. /\ m \in TaskQueueType /\ Coherent(m)
        /\ m.task_queue[t] = ready_queue /\ m.state[t] = "READY"
        /\ \A o \in Task \ {t} : m.task_queue[o] = r.task_queue[o] /\ m.state[o] = r.state[o]
    BY <2>3, <2>4, <2>6, <2>7 DEF Linked
  <2>10. Released(m, first(n))
    BY <2>1, <2>2, <2>3, <2>9 DEF Released
  <2> HIDE DEF Turn
  <2> QED BY <1>2, <2>1, <2>8, <2>9, <2>10
<1> HIDE DEF Turn, N, S
<1>5. PICK f : Stages(N, S, tq, g, f)
  <2>1. \A n \in 1 .. N : \A r \in S[n - 1] : g[n][r] \in S[n]
    BY <1>4
  <2> HIDE DEF g
  <2> QED BY <1>2, <1>3, <2>1, StagedLoop, Zenon
<1>6. f = [n \in 0 .. N |-> IF n = 0 THEN tq ELSE Turn(n, f[n - 1])]
  <2>1. \A n \in 1 .. N : \A r \in S[n - 1] : g[n][r] = Turn(n, r)
    BY <1>4
  <2> HIDE DEF g
  <2>2. /\ f = [n \in 0 .. N |-> f[n]] /\ f[0] = tq
        /\ \A n \in 0 .. N : f[n] \in S[n]
        /\ \A n \in 1 .. N : f[n] = g[n][f[n - 1]]
    BY <1>5 DEF Stages
  <2>3. ASSUME NEW n \in 1 .. N PROVE f[n] = Turn(n, f[n - 1])
    <3>1. n - 1 \in 0 .. N
      BY <1>2
    <3>2. f[n - 1] \in S[n - 1] /\ f[n] = g[n][f[n - 1]]
      BY <2>2, <3>1
    <3> QED BY <2>1, <3>2
  <2>4. \A n \in 0 .. N : n = 0 \/ n \in 1 .. N
    BY <1>2
  <2>5. \A n \in 0 .. N : f[n] = IF n = 0 THEN tq ELSE Turn(n, f[n - 1])
    BY <2>2, <2>3, <2>4
  <2> QED BY <2>2, <2>5
<1>7. w = [n \in 0 .. N |-> IF n = 0 THEN tq ELSE Turn(n, w[n - 1])]
  BY <1>6
<1> HIDE DEF w
<1>8. w[0] = tq /\ \A n \in 1 .. N : w[n] = Turn(n, w[n - 1])
  BY <1>2, <1>7
<1> DEFINE P == {n \in 0 .. N : w[n] \in S[n]}
<1>9. 0 \in P
  BY <1>2, <1>3, <1>8
<1>10. ASSUME NEW n \in 1 .. N, n - 1 \in P PROVE n \in P
  BY <1>4, <1>8, <1>10
<1>11. 0 .. N \subseteq P
  <2> HIDE DEF P
  <2> QED BY <1>2, <1>9, <1>10, CountUp
<1>12. w[N] \in S[N] /\ N \in 0 .. N
  BY <1>2, <1>11
<1>13. first(N) = ToSet(due)
  BY DEF ToSet, N
<1> QED BY <1>1, <1>12, <1>13 DEF S

---------------------------------------------------------------------------
(* The invariant of the guards.                                            *)

LEMMA GuardInitHolds == Init /\ GuardInit => GuardInv
<1> SUFFICES ASSUME GuardInit PROVE GuardInv
  OBVIOUS
<1>1. <<>> \in Seq(Task) /\ IsInjective(<<>>) /\ ToSet(<<>>) = {}
  BY DEF IsInjective, ToSet
<1>2. \A t \in Task : guard[t] = NULL
  BY DEF GuardInit
<1>3. Guarded = {}
  BY <1>2 DEF Guarded
<1> QED BY <1>1, <1>2, <1>3 DEF GuardInit, GuardInv, GuardTypeOK, GuardsAreSafe

\* A task with a running guard is on the queue of an object.
LEMMA GuardedWaits ==
    ASSUME SchedCore, GuardInv, NEW t \in Guarded
    PROVE  /\ t \in Task /\ tq.task_queue[t] \in ObjectQueue
           /\ guard[t] \in Nat \ {0} /\ pc[t] \in {"sem_wait", "wq_wait"}
<1>1. t \in Task /\ guard[t] # NULL /\ guard[t] # 0
  BY DEF Guarded
<1>2. /\ tq.state[t] = "WAIT" /\ tq.task_queue[t] \notin Task /\ guard[t] \in Nat
      /\ pc[t] \in {"sem_wait", "wq_wait"}
  BY <1>1 DEF GuardInv, GuardTypeOK, GuardsAreSafe
<1> QED BY <1>1, <1>2 DEF SchedCore, InPlace, ObjectQueue

\* A step that starts no timer keeps the invariant if a task with a guard stays
\* where it is, and on its queue as long as the timer runs.
LEMMA GuardsFade ==
    ASSUME SchedCore, SchedCore', GuardInv,
           guard' = [t \in Task |-> guard'[t]],
           \A t \in Task : \/ guard'[t] = guard[t] \/ guard'[t] = NULL
                           \/ t \in Guarded /\ guard'[t] \in Nat,
           timers' \in Seq(Task), IsInjective(timers'), ToSet(timers') = Guarded',
           \A t \in Task : guard'[t] # NULL => pc'[t] = pc[t],
           \A t \in Guarded' : SameObject(tq, tq', t)
    PROVE  GuardInv'
<1>1. GuardTypeOK'
  BY DEF GuardInv, GuardTypeOK
<1>2. ASSUME NEW t \in Task, guard'[t] # NULL
      PROVE  /\ pc'[t] \in {"sem_wait", "wq_wait"}
             /\ guard'[t] # 0 => tq'.state[t] = "WAIT" /\ tq'.task_queue[t] \notin Task
  <2>1. guard[t] # NULL
    BY <1>2 DEF Guarded
  <2>2. pc'[t] \in {"sem_wait", "wq_wait"}
    BY <1>2, <2>1 DEF GuardInv, GuardsAreSafe
  <2>3. ASSUME guard'[t] # 0 PROVE tq'.state[t] = "WAIT" /\ tq'.task_queue[t] \notin Task
    <3>1. t \in Guarded /\ t \in Guarded'
      BY <1>2, <2>1, <2>3 DEF Guarded
    <3>2. tq'.task_queue[t] \in ObjectQueue
      BY <3>1, GuardedWaits DEF SameObject
    <3> QED BY <3>2 DEF SchedCore, InPlace, ObjectQueue
  <2> QED BY <2>2, <2>3
<1> QED BY <1>1, <1>2 DEF GuardInv, GuardsAreSafe

\* The list without the timers that have stopped.
LEMMA RunningProperties ==
    ASSUME GuardInv, NEW g, \A t \in Task : g[t] # NULL /\ g[t] # 0 => t \in Guarded
    PROVE  /\ Running(timers, g) \in Seq(Task)
           /\ IsInjective(Running(timers, g))
           /\ ToSet(Running(timers, g)) = {t \in Task : g[t] # NULL /\ g[t] # 0}
<1> DEFINE T == {t \in Task : g[t] # NULL /\ g[t] # 0}
<1>1. timers \in Seq(Task) /\ IsInjective(timers) /\ ToSet(timers) = Guarded
  BY DEF GuardInv, GuardTypeOK
<1>2. T = Guarded \cap T
  OBVIOUS
<1> QED BY <1>1, <1>2, OnlyProperties DEF Running

\* A step that leaves the guards alone.
LEMMA GuardsQuiet ==
    ASSUME SchedCore, SchedCore', GuardInv, UNCHANGED guardVars,
           \A t \in Task : guard[t] # NULL => pc'[t] = pc[t] /\ SameObject(tq, tq', t)
    PROVE  GuardInv'
<1>1. guard' = guard /\ timers' = timers /\ Guarded' = Guarded
  BY DEF guardVars, Guarded
<1>2. /\ guard' = [t \in Task |-> guard'[t]] /\ timers' \in Seq(Task) /\ IsInjective(timers')
      /\ ToSet(timers') = Guarded'
  BY <1>1 DEF GuardInv, GuardTypeOK
<1>3. \A t \in Guarded' : SameObject(tq, tq', t)
  BY <1>1 DEF Guarded
<1> QED BY <1>1, <1>2, <1>3, GuardsFade

\* The steps of the scheduler.
LEMMA GuardsFramed ==
    ASSUME SchedCore, SchedCore', GuardInv, Frame, UNCHANGED guardVars
    PROVE  GuardInv'
<1>1. ASSUME NEW t \in Task, guard[t] # NULL PROVE pc'[t] = pc[t] /\ SameObject(tq, tq', t)
  BY <1>1 DEF GuardInv, GuardsAreSafe, Frame, OwnLabel
<1> QED BY <1>1, GuardsQuiet

\* os_blocktimer_destroy for the tasks T.
LEMMA GuardsEnd ==
    ASSUME SchedCore, SchedCore', GuardInv, NEW T, os_blocktimer_destroy(T),
           \A t \in Task \ T : guard[t] # NULL => pc'[t] = pc[t] /\ SameObject(tq, tq', t)
    PROVE  GuardInv'
<1>1. guard' = [t \in Task |-> IF t \in T THEN NULL ELSE guard[t]] /\ timers' = Running(timers, guard')
  BY DEF os_blocktimer_destroy, Unguarded
<1>2. \A t \in Task : guard'[t] = IF t \in T THEN NULL ELSE guard[t]
  BY <1>1
<1>3. /\ timers' \in Seq(Task) /\ IsInjective(timers')
      /\ ToSet(timers') = {t \in Task : guard'[t] # NULL /\ guard'[t] # 0}
  <2>1. \A t \in Task : guard'[t] # NULL /\ guard'[t] # 0 => t \in Guarded
    BY <1>2 DEF Guarded
  <2> QED BY <1>1, <2>1, RunningProperties
<1>4. ToSet(timers') = Guarded' /\ \A t \in Guarded' : SameObject(tq, tq', t)
  BY <1>2, <1>3 DEF Guarded
<1>5. guard' = [t \in Task |-> guard'[t]]
  BY <1>1
<1> QED BY <1>2, <1>3, <1>4, <1>5, GuardsFade

\* A function that makes the tasks W READY and destroys their guards.
LEMMA GuardsReleased ==
    ASSUME SchedCore, SchedCore', GuardInv, NEW W, ReleaseEffect(W),
           NEW T, os_blocktimer_destroy(T), W \subseteq T
    PROVE  GuardInv'
<1>1. ASSUME NEW t \in Task \ T, guard[t] # NULL PROVE pc'[t] = pc[t] /\ SameObject(tq, tq', t)
  BY <1>1 DEF GuardInv, GuardsAreSafe, ReleaseEffect, OwnLabel
<1> QED BY <1>1, GuardsEnd

\* task_current blocks on an object, with or without a guard.
LEMMA GuardsStart ==
    ASSUME SchedCore, SchedCore', GuardInv, NEW timeout \in Timeouts \cup {NULL},
           os_blocktimer_create(timeout), pc[task_current] \notin {"sem_wait", "wq_wait"},
           NEW q \in ObjectQueue, NEW ret \in {"sem_wait", "wq_wait"}, BlockEffect(q, ret)
    PROVE  GuardInv'
<1>0. PICK c \in Task : c = task_current
  BY DEF SchedCore, TypeOK
<1>1. /\ guard' = [guard EXCEPT ![c] = timeout]
      /\ timers' = IF timeout = NULL THEN timers ELSE Append(timers, c)
      /\ timeout = NULL \/ timeout \in Nat \ {0}
  BY <1>0, GuardAssumption DEF os_blocktimer_create
<1>2. guard[c] = NULL
  BY <1>0 DEF GuardInv, GuardsAreSafe
<1>3. /\ guard' = [t \in Task |-> guard'[t]] /\ guard'[c] = timeout
      /\ \A t \in Task \ {c} : guard'[t] = guard[t]
  BY <1>1 DEF GuardInv
<1>4. Guarded' = (IF timeout = NULL THEN Guarded ELSE Guarded \cup {c}) /\ c \notin Guarded
  BY <1>1, <1>2, <1>3 DEF Guarded
<1>5. timers' \in Seq(Task) /\ IsInjective(timers') /\ ToSet(timers') = Guarded'
  <2>1. timers \in Seq(Task) /\ IsInjective(timers) /\ ToSet(timers) = Guarded
    BY DEF GuardInv, GuardTypeOK
  <2>2. CASE timeout = NULL
    BY <1>1, <1>4, <2>1, <2>2
  <2>3. CASE timeout # NULL
    BY <1>1, <1>4, <2>1, <2>3, AppendBucket
  <2> QED BY <2>2, <2>3
<1>6. GuardTypeOK'
  BY <1>1, <1>3, <1>5 DEF GuardInv, GuardTypeOK
<1>7. ASSUME NEW t \in Task, guard'[t] # NULL
      PROVE  /\ pc'[t] \in {"sem_wait", "wq_wait"}
             /\ guard'[t] # 0 => tq'.state[t] = "WAIT" /\ tq'.task_queue[t] \notin Task
  <2>1. CASE t = c
    BY <1>0, <2>1 DEF BlockEffect, SchedCore, TypeOK, ObjectQueue
  <2>2. CASE t # c
    <3>1. guard[t] = guard'[t] /\ pc[t] \in {"sem_wait", "wq_wait"} /\ pc'[t] = pc[t]
      BY <1>0, <1>3, <1>7, <2>2 DEF GuardInv, GuardsAreSafe, BlockEffect, SchedCore, TypeOK
    <3>2. ASSUME guard'[t] # 0 PROVE tq'.state[t] = "WAIT" /\ tq'.task_queue[t] \notin Task
      <4>1. tq.task_queue[t] \in ObjectQueue
        BY <1>7, <3>1, <3>2, GuardedWaits DEF Guarded
      <4>2. tq'.task_queue[t] \in ObjectQueue
        BY <1>0, <2>2, <4>1 DEF BlockEffect, SameObject
      <4> QED BY <4>2 DEF SchedCore, InPlace, ObjectQueue
    <3> QED BY <3>1, <3>2
  <2> QED BY <2>1, <2>2
<1> QED BY <1>3, <1>5, <1>6, <1>7 DEF GuardInv, GuardsAreSafe

\* os_tick: the tasks whose guard ends are made READY, with OS_TIMEOUT.
TickEffect(W) ==
    /\ W \subseteq Guarded
    /\ ReleaseEffect(W)
    /\ block_code' = [t \in Task |-> IF t \in W THEN "TIMEOUT" ELSE block_code[t]]
    /\ deferred' \/ NotOutranked(tq', task_current')

LEMMA TickStep ==
    ASSUME SchedCore, GuardInv, os_tick_guards
    PROVE  SchedCore' /\ GuardInv' /\ \E W : TickEffect(W)
<1> DEFINE D == {t \in Task : Due(t)}
           due == Only(timers, D)
           W == ToSet(due)
           Codes == {"OK", "DESTROYED", "TIMEOUT", "EXIT"}
<1>1. /\ guard' = [t \in Task |-> IF guard[t] \in {NULL, 0} THEN guard[t] ELSE guard[t] - 1]
      /\ timers' = Running(timers, guard')
      /\ UNCHANGED <<prio_base, block_type, join_sem, cpuVars>>
      /\ block_code' = [t \in Task |-> IF t \in W THEN "TIMEOUT" ELSE block_code[t]]
      /\ os_schedule(TimedOut(due), pc[task_current], 0)
  BY DEF os_tick_guards
<1>2. timers \in Seq(Task) /\ IsInjective(timers) /\ ToSet(timers) = Guarded
  BY DEF GuardInv, GuardTypeOK
<1>3. due \in Seq(Task) /\ IsInjective(due) /\ W = Guarded \cap D
  BY <1>2, OnlyProperties
<1> HIDE DEF due, W
<1>4. Released(TimedOut(due), W)
  <2>1. \A t \in W : tq.task_queue[t] \in ObjectQueue
    BY <1>3, GuardedWaits
  <2> QED BY <1>3, <2>1, TimedOutProperties DEF W
<1>5. /\ block_code' \in [Task -> Codes]
      /\ \A t \in Task \ W : block_code'[t] = block_code[t]
  BY <1>1 DEF SchedCore, TypeOK
<1>6. SchedCore' /\ ReleaseEffect(W) /\ (deferred' \/ NotOutranked(tq', task_current'))
  BY <1>1, <1>4, <1>5, ReleaseAndSchedule
<1>7. \A t \in Task : guard'[t] = IF t \in Guarded THEN guard[t] - 1 ELSE guard[t]
  BY <1>1 DEF Guarded
<1>8. \A t \in Guarded : guard[t] - 1 \in Nat /\ (guard[t] - 1 = 0 <=> t \in D)
  <2> SUFFICES ASSUME NEW t \in Guarded PROVE guard[t] - 1 \in Nat /\ (guard[t] - 1 = 0 <=> t \in D)
    OBVIOUS
  <2>1. guard[t] \in Nat \ {0} /\ t \in Task
    BY GuardedWaits
  <2> QED BY <2>1 DEF Due
<1>9. /\ timers' \in Seq(Task) /\ IsInjective(timers') /\ ToSet(timers') = Guarded'
      /\ \A t \in Guarded' : t \in Guarded \ W
  <2>1. \A t \in Task : guard'[t] # NULL /\ guard'[t] # 0 => t \in Guarded \ W
    BY <1>3, <1>7, <1>8 DEF Guarded
  <2>2. Guarded' = {t \in Task : guard'[t] # NULL /\ guard'[t] # 0}
    BY DEF Guarded
  <2> QED BY <1>1, <2>1, <2>2, RunningProperties
<1>10. GuardInv'
  <2>1. guard' = [t \in Task |-> guard'[t]]
    BY <1>1
  <2>2. \A t \in Task : \/ guard'[t] = guard[t] \/ guard'[t] = NULL
                        \/ t \in Guarded /\ guard'[t] \in Nat
    BY <1>7, <1>8
  <2>3. ASSUME NEW t \in Task, guard'[t] # NULL PROVE pc'[t] = pc[t]
    <3>1. guard[t] # NULL
      BY <1>7, <2>3 DEF Guarded
    <3> QED BY <1>6, <3>1 DEF GuardInv, GuardsAreSafe, ReleaseEffect, OwnLabel
  <2>4. \A t \in Guarded' : SameObject(tq, tq', t)
    BY <1>6, <1>9 DEF ReleaseEffect, Guarded
  <2> QED BY <1>6, <1>9, <2>1, <2>2, <2>3, <2>4, GuardsFade
<1>11. TickEffect(W)
  BY <1>1, <1>3, <1>6 DEF TickEffect
<1> QED BY <1>6, <1>10, <1>11
=============================================================================
