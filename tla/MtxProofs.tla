------------------------------ MODULE MtxProofs ------------------------------
(***************************************************************************)
(* The safety properties of the mutexes, for any number of tasks, mutexes  *)
(* and priorities and any depth of recursive locks: nobody sleeps on a     *)
(* mutex without an owner, the result of os_mtx_lock is true, the walk     *)
(* along the blocking chain ends if mutexes are taken in one order, the    *)
(* mutexes implement AbstractMutex, and without scheduler locks priorities *)
(* are inherited exactly.                                                  *)
(*                                                                         *)
(* The inductive invariant relates, for each task, the queue it is on, its *)
(* control location, its block_type and the mutex it asked for (WaiterOK), *)
(* and, for each mutex, its owner, its waiters and its count (OwnerOK,     *)
(* FreeOK).  The scheduler's part of a step is taken from SchedProofs: a   *)
(* step of the scheduler leaves the waiters of objects alone, a step of a  *)
(* mutex releases some waiters or blocks task_current.  InheritInv adds    *)
(* the priorities, and that nothing outranks the running task.             *)
(***************************************************************************)
EXTENDS Mtx, SchedProofs

Alive == {"RUNNING", "READY", "WAIT"}

\* A task on the queue of a mutex is where os_mtx_lock blocks, with the fields
\* os_mtx_lock_prio_boost reads; a task elsewhere does not look like one.
WaiterOK(t) ==
    /\ tq.task_queue[t] \in ObjectQueue => tq.task_queue[t] \in Mutex
    /\ tq.task_queue[t] \in Mutex => /\ pc[t] = "mtx_wait"
                                     /\ lock_arg[t] = tq.task_queue[t]
                                     /\ block_type[t] = "MTX"
    /\ pc[t] \in JoinLabel => block_type[t] # "MTX"
    /\ pc[t] = "mtx_wait" => lock_arg[t] \in Mutex

\* The result of os_mtx_lock for t, once it is woken.
ResultOK(t) ==
    pc[t] = "mtx_wait" /\ tq.state[t] # "WAIT" =>
        \/ block_code[t] = "OK" /\ owner[lock_arg[t]] = t
        \/ block_code[t] = "DESTROYED" /\ owner[lock_arg[t]] # t

\* How often recur can have overflowed.
Wraps == {k * RECUR_MOD : k \in Nat}

\* An owner exists, does not wait for its own mutex, and recur is its count of
\* locks up to overflows.
OwnerOK(m) ==
    owner[m] # NULL => /\ live[m]
                       /\ tq.state[owner[m]] \in Alive
                       /\ tq.task_queue[owner[m]] # m
                       /\ depth[m] \in 1 .. MaxRecur
                       /\ depth[m] - recur[m] \in Wraps

\* A free mutex has no waiters; unless recur has overflowed, all its locks are
\* undone.
FreeOK(m) ==
    owner[m] = NULL => /\ recur[m] = 0 /\ (MaxRecur < RECUR_MOD => depth[m] = 0)
                       /\ \A t \in Task : tq.task_queue[t] # m

\* A task that waits for m owns mutexes of lower rank only.
RanksRise ==
    \A t \in Task, m \in Mutex :
        tq.task_queue[t] = m => \A o \in mtx_list(t) : Rank[o] < Rank[m]

InOrder == Ordered => ~hung /\ RanksRise

MtxInv ==
    /\ SchedCore
    /\ MtxTypeOK
    /\ \A t \in Task : WaiterOK(t) /\ ResultOK(t)
    /\ \A m \in Mutex : OwnerOK(m) /\ FreeOK(m)
    /\ InOrder

---------------------------------------------------------------------------
(* Constants.                                                              *)

LEMMA MutexQueues == Mutex \subseteq ObjectQueue /\ NULL \notin Mutex
BY MutexAssumption, NullAssumption DEF ObjectQueue

\* Counting with overflows.
LEMMA WrapProperties ==
    /\ 0 \in Wraps
    /\ \A x \in Wraps : /\ x \in Nat
                        /\ x + RECUR_MOD \in Wraps
                        /\ x # 0 => x >= RECUR_MOD /\ x - RECUR_MOD \in Wraps
<1> DEFINE M == RECUR_MOD
<1>1. M \in Nat /\ M > 1
  BY RecurAssumption
<1> HIDE DEF M
<1>2. 0 \in {k * M : k \in Nat}
  <2>1. 0 = 0 * M
    BY <1>1
  <2> QED BY <2>1
<1>3. ASSUME NEW k \in Nat
      PROVE  /\ k * M \in Nat /\ k * M + M = (k + 1) * M
             /\ k # 0 => k * M >= M /\ k * M - M = (k - 1) * M
  <2>1. k * M \in Nat /\ k * M + M = (k + 1) * M
    BY <1>1
  <2>2. ASSUME k # 0 PROVE k * M >= M /\ k * M - M = (k - 1) * M
    <3>1. PICK l \in Nat : k = l + 1
      <4>1. k - 1 \in Nat /\ k = (k - 1) + 1
        BY <2>2
      <4> QED BY <4>1
    <3>2. k * M = l * M + M /\ l * M \in Nat /\ k - 1 = l
      BY <1>1, <3>1
    <3> QED BY <1>1, <3>2
  <2> QED BY <2>1, <2>2
<1>4. ASSUME NEW x \in Wraps
      PROVE  x \in Nat /\ x + M \in Wraps /\ (x # 0 => x >= M /\ x - M \in Wraps)
  <2>1. PICK k \in Nat : x = k * M
    BY DEF Wraps, M
  <2>2. k + 1 \in Nat /\ (k # 0 => k - 1 \in Nat) /\ (k = 0 => x = 0)
    BY <1>1, <2>1
  <2> QED BY <1>3, <2>1, <2>2 DEF Wraps, M
<1> QED BY <1>2, <1>4 DEF Wraps, M

---------------------------------------------------------------------------
(* The queues behind the functions of os_mtx.c.                            *)

\* os_taskqueue_peek shows the task that os_taskqueue_dequeue would take.
LEMMA PeekProperties ==
    ASSUME NEW s \in TaskQueueType, Coherent(s), NEW q \in Queue
    PROVE  LET t == os_taskqueue_peek(s, q)
           IN  \/ t = NULL /\ \A u \in Task : s.task_queue[u] # q
               \/ /\ t \in Task /\ s.task_queue[t] = q
                  /\ \A u \in Task : s.task_queue[u] = q => s.prio_current[u] <= s.prio_current[t]
<1> DEFINE d == os_taskqueue_dequeue(s, q)
<1>1. os_taskqueue_peek(s, q) = d.task
  BY DEF os_taskqueue_peek, os_taskqueue_dequeue, os_taskqueue_intdequeue
<1>2. \/ d.task = NULL /\ \A u \in Task : s.task_queue[u] # q
      \/ TopTaken(s, q, d)
  BY DequeueProperties
<1> HIDE DEF d
<1> QED BY <1>1, <1>2 DEF TopTaken

LEMMA QueuesAreReprioritised == SchedCore => Reprioritised(tq)
BY DEF SchedCore, InPlace, Reprioritised

\* p is the top priority among the base of task_current and the tasks that wait
\* for a mutex of held.
TopAmong(held, p) ==
    /\ prio_base[task_current] <= p
    /\ \A w \in Task : tq.task_queue[w] \in held => tq.prio_current[w] <= p
    /\ \/ p = prio_base[task_current]
       \/ \E w \in Task : tq.task_queue[w] \in held /\ tq.prio_current[w] = p

\* Only the priority of task_current is reset, and it is on no queue.
LEMMA ResetProperties ==
    ASSUME SchedCore, prio_base \in [Task -> Prio], NEW held \in SUBSET Mutex
    PROVE  LET r == os_mtx_unlock_prio_reset(tq, held)
           IN  /\ Reprioritised(r)
               /\ r.tasks = tq.tasks
               /\ \A t \in Task \ {task_current} : r.prio_current[t] = tq.prio_current[t]
               /\ \/ r = tq /\ tq.prio_current[task_current] = prio_base[task_current]
                  \/ TopAmong(held, r.prio_current[task_current])
<1> DEFINE c == task_current
           Peek(m) == os_taskqueue_peek(tq, m)
           top == {Peek(m) : m \in held} \ {NULL}
           P == {prio_base[c]} \cup {tq.prio_current[t] : t \in top}
           r == os_mtx_unlock_prio_reset(tq, held)
<1>1. /\ tq \in TaskQueueType /\ Coherent(tq) /\ c \in Task /\ tq.task_queue[c] = NULL
      /\ tq.prio_current \in [Task -> Prio]
  BY DEF SchedCore, InPlace, TaskQueueType
<1>2. ASSUME NEW m \in held
      PROVE  \/ Peek(m) = NULL /\ \A u \in Task : tq.task_queue[u] # m
             \/ /\ Peek(m) \in Task /\ tq.task_queue[Peek(m)] = m
                /\ \A u \in Task : tq.task_queue[u] = m =>
                       tq.prio_current[u] <= tq.prio_current[Peek(m)]
  BY <1>1, PeekProperties, MutexAssumption
<1>3. r = IF tq.prio_current[c] = prio_base[c] THEN tq
          ELSE [tq EXCEPT !.prio_current[c] = Max(P)]
  BY DEF os_mtx_unlock_prio_reset
<1> HIDE DEF Peek, r
<1>4. \A t \in top : t \in Task /\ tq.task_queue[t] \in held
  BY <1>2
<1>5. ASSUME NEW w \in Task, tq.task_queue[w] \in held
      PROVE  \E t \in top : tq.prio_current[w] <= tq.prio_current[t]
  <2> DEFINE m == tq.task_queue[w]
  <2>1. Peek(m) \in Task /\ tq.prio_current[w] <= tq.prio_current[Peek(m)]
    BY <1>2, <1>5
  <2>2. Peek(m) \in top
    BY <1>5, <2>1, NullAssumption
  <2> QED BY <2>1, <2>2
<1> HIDE DEF top
<1>6. P \in SUBSET Prio /\ P # {}
  <2>1. prio_base[c] \in Prio /\ \A t \in top : tq.prio_current[t] \in Prio
    BY <1>1, <1>4
  <2> QED BY <2>1
<1>7. Max(P) \in P /\ \A p \in P : p <= Max(P)
  <2> HIDE DEF P
  <2> QED BY <1>6, MaxOfMask
<1>8. Max(P) \in Prio
  BY <1>6, <1>7
<1> DEFINE M == Max(P)
<1>9. TopAmong(held, M)
  <2>1. prio_base[c] <= M /\ \A t \in top : tq.prio_current[t] <= M
    BY <1>7
  <2>2. M = prio_base[c] \/ \E t \in top : tq.prio_current[t] = M
    BY <1>7
  <2> HIDE DEF M
  <2>3. M \in Nat /\ \A t \in Task : tq.prio_current[t] \in Nat
    BY <1>1, <1>8, PrioAssumption DEF M, Prio
  <2>4. ASSUME NEW w \in Task, tq.task_queue[w] \in held PROVE tq.prio_current[w] <= M
    <3>1. PICK t \in top : tq.prio_current[w] <= tq.prio_current[t]
      BY <1>5, <2>4
    <3>2. t \in Task /\ tq.prio_current[t] <= M
      BY <1>4, <2>1
    <3> QED BY <2>3, <3>1, <3>2
  <2> QED BY <1>4, <2>1, <2>2, <2>4 DEF TopAmong
<1> HIDE DEF P
<1>10. CASE tq.prio_current[c] = prio_base[c]
  BY <1>3, <1>10, QueuesAreReprioritised DEF r
<1>11. CASE tq.prio_current[c] # prio_base[c]
  <2>1. r = [tq EXCEPT !.prio_current[c] = M] /\ M \in Prio
    BY <1>3, <1>8, <1>11
  <2> HIDE DEF M
  <2>2. /\ r \in TaskQueueType /\ Coherent(r) /\ r.task_queue = tq.task_queue
        /\ r.prio_current = [tq.prio_current EXCEPT ![c] = M] /\ r.state = tq.state
    BY <1>1, <2>1, SetPrio
  <2>3. Reprioritised(r) /\ r.tasks = tq.tasks
    BY <1>1, <2>1, <2>2 DEF Reprioritised, TaskQueueType
  <2>4. r.prio_current[c] = M /\ \A t \in Task \ {c} : r.prio_current[t] = tq.prio_current[t]
    BY <1>1, <2>2
  <2> QED BY <1>9, <2>3, <2>4 DEF r
<1> QED BY <1>10, <1>11

\* A task that looks as if it waited for a mutex does.
LEMMA BlockedByProperties ==
    ASSUME MtxInv, NEW t \in Task
    PROVE  \/ BlockedBy(t) = NULL /\ tq.task_queue[t] \notin Mutex
           \/ /\ tq.task_queue[t] \in Mutex
              /\ BlockedBy(t) = owner[tq.task_queue[t]]
              /\ BlockedBy(t) \in Task
<1> DEFINE q == tq.task_queue[t]
<1>1. /\ WaiterOK(t) /\ InPlace(tq, task_current) /\ JoinsMatch(tq, pc, join_sem, block_code)
      /\ owner \in [Mutex -> Task \cup {NULL}]
      /\ \A m \in Mutex : FreeOK(m)
  BY DEF MtxInv, SchedCore, MtxTypeOK
<1>2. CASE q \in Mutex
  <2>1. tq.state[t] = "WAIT" /\ block_type[t] = "MTX"
    BY <1>1, <1>2, MutexAssumption DEF WaiterOK, InPlace
  <2>2. owner[q] # NULL
    BY <1>1, <1>2 DEF FreeOK
  <2> QED BY <1>1, <1>2, <2>1, <2>2 DEF BlockedBy
<1>3. CASE q \notin Mutex
  <2>1. ~(tq.state[t] = "WAIT" /\ block_type[t] = "MTX")
    <3> SUFFICES ASSUME tq.state[t] = "WAIT" PROVE block_type[t] # "MTX"
      OBVIOUS
    <3>1. q \in Task
      BY <1>1, <1>3 DEF InPlace, WaiterOK, ObjectQueue
    <3>2. pc[t] = "join_wait"
      BY <1>1, <3>1 DEF JoinsMatch
    <3> QED BY <1>1, <3>2 DEF WaiterOK, JoinLabel
  <2> QED BY <1>3, <2>1 DEF BlockedBy
<1> QED BY <1>2, <1>3

\* The walk of os_mtx_lock_prio_boost, turn by turn.
LEMMA ChainProperties ==
    ASSUME MtxInv, NEW m \in Mutex
    PROVE  LET N == Cardinality(Task)
               chain == BlockingChain(m)
           IN  /\ N \in Nat
               /\ chain \in [0 .. N -> Task \cup {NULL}]
               /\ chain[0] = owner[m]
               /\ \A n \in 1 .. N : chain[n] = IF chain[n - 1] = NULL THEN NULL
                                               ELSE BlockedBy(chain[n - 1])
<1> DEFINE N == Cardinality(Task)
           S == Task \cup {NULL}
           Turn(t) == IF t = NULL THEN NULL ELSE BlockedBy(t)
           g == [n \in 1 .. N |-> [t \in S |-> Turn(t)]]
           w == CHOOSE w : w = [n \in 0 .. N |->
                                  IF n = 0 THEN owner[m]
                                  ELSE IF w[n - 1] = NULL THEN NULL ELSE BlockedBy(w[n - 1])]
<1>1. BlockingChain(m) = w
  BY DEF BlockingChain
<1>2. N \in Nat /\ owner[m] \in S
  BY TaskAssumption, FS_CardinalityType DEF MtxInv, MtxTypeOK
<1>3. ASSUME NEW t \in S PROVE Turn(t) \in S
  BY BlockedByProperties
<1> HIDE DEF N, Turn, S
<1>4. PICK f : Turns(N, S, owner[m], g, f)
  <2>1. g \in [1 .. N -> [S -> S]]
    BY <1>3
  <2> HIDE DEF g
  <2> QED BY <1>2, <2>1, Loop, Zenon
<1>5. f = [n \in 0 .. N |-> IF n = 0 THEN owner[m]
                            ELSE IF f[n - 1] = NULL THEN NULL ELSE BlockedBy(f[n - 1])]
  <2>1. \A n \in 1 .. N : \A t \in S : g[n][t] = Turn(t)
    OBVIOUS
  <2> HIDE DEF g
  <2>2. f \in [0 .. N -> S] /\ f[0] = owner[m] /\ \A n \in 1 .. N : f[n] = g[n][f[n - 1]]
    BY <1>4 DEF Turns
  <2>3. \A n \in 0 .. N : f[n] = IF n = 0 THEN owner[m]
                                ELSE IF f[n - 1] = NULL THEN NULL ELSE BlockedBy(f[n - 1])
    BY <1>2, <2>1, <2>2 DEF Turn
  <2> QED BY <2>2, <2>3
<1>6. w = [n \in 0 .. N |-> IF n = 0 THEN owner[m]
                            ELSE IF w[n - 1] = NULL THEN NULL ELSE BlockedBy(w[n - 1])]
  BY <1>5
<1> HIDE DEF w
<1>7. w[0] = owner[m] /\ \A n \in 1 .. N : w[n] = IF w[n - 1] = NULL THEN NULL ELSE BlockedBy(w[n - 1])
  BY <1>2, <1>6
<1> DEFINE P == {n \in 0 .. N : w[n] \in S}
<1>8. 0 .. N \subseteq P
  <2>1. 0 \in P
    BY <1>2, <1>7
  <2>2. ASSUME NEW n \in 1 .. N, n - 1 \in P PROVE n \in P
    BY <1>3, <1>7, <2>2 DEF Turn
  <2> HIDE DEF P
  <2> QED BY <1>2, <2>1, <2>2, CountUp
<1>9. w \in [0 .. N -> S]
  BY <1>6, <1>8
<1> QED BY <1>1, <1>2, <1>7, <1>9 DEF N, S

\* Every turn gives a task another priority on the queue it is on; in the end
\* the tasks that were visited have the priority of task_current.
LEMMA BoostProperties ==
    ASSUME MtxInv, NEW m \in Mutex
    PROVE  LET N == Cardinality(Task)
               r == os_mtx_lock_prio_boost(m)
           IN  /\ Reprioritised(r)
               /\ BucketsInOrder(tq, r)
               /\ r.prio_current =
                     IF NeedsBoost(m)
                     THEN [t \in Task |-> IF \E i \in 0 .. N : i < N /\ BlockingChain(m)[i] = t
                                         THEN tq.prio_current[task_current]
                                         ELSE tq.prio_current[t]]
                     ELSE tq.prio_current
<1> DEFINE N == Cardinality(Task)
           chain == BlockingChain(m)
           prio == tq.prio_current[task_current]
           Turn(n, s) == IF chain[n - 1] = NULL THEN s
                         ELSE os_taskqueue_reprio(s, chain[n - 1], prio)
           Prios(n) == [t \in Task |-> IF \E i \in 0 .. N : i < n /\ chain[i] = t
                                      THEN prio ELSE tq.prio_current[t]]
           S == [n \in 0 .. N |-> {s \in TaskQueueType :
                                     /\ Reprioritised(s) /\ BucketsInOrder(tq, s)
                                     /\ s.prio_current = Prios(n)}]
           g == [n \in 1 .. N |-> [s \in TaskQueueType |-> Turn(n, s)]]
           w == CHOOSE w : w = [n \in 0 .. N |->
                                  IF n = 0 THEN tq
                                  ELSE IF chain[n - 1] = NULL THEN w[n - 1]
                                  ELSE os_taskqueue_reprio(w[n - 1], chain[n - 1], prio)]
<1>1. os_mtx_lock_prio_boost(m) = IF NeedsBoost(m) THEN w[N] ELSE tq
  BY DEF os_mtx_lock_prio_boost
<1>2. /\ N \in Nat /\ chain \in [0 .. N -> Task \cup {NULL}] /\ prio \in Prio
      /\ tq.prio_current \in [Task -> Prio] /\ tq \in TaskQueueType
  BY ChainProperties DEF MtxInv, SchedCore, InPlace, TaskQueueType
<1>3. Reprioritised(tq) /\ BucketsInOrder(tq, tq) /\ Coherent(tq)
  BY <1>2, QueuesAreReprioritised, SameOrder DEF MtxInv, Reprioritised
<1> HIDE DEF N, chain, prio
<1>4. tq \in S[0]
  <2>1. Prios(0) = tq.prio_current
    BY <1>2
  <2> HIDE DEF Prios
  <2> QED BY <1>2, <1>3, <2>1
<1>5. ASSUME NEW n \in 1 .. N, NEW s \in S[n - 1]
      PROVE  Turn(n, s) \in S[n] /\ s \in TaskQueueType
  <2>1. n - 1 \in 0 .. N /\ n \in 0 .. N
    BY <1>2
  <2>2. chain[n - 1] \in Task \cup {NULL}
    BY <1>2, <2>1
  <2>3. /\ s \in TaskQueueType /\ Reprioritised(s) /\ BucketsInOrder(tq, s)
        /\ s.prio_current = Prios(n - 1)
    <3> HIDE DEF Prios
    <3> QED BY <1>5, <2>1
  <2>4. \A i \in 0 .. N : i < n <=> i < n - 1 \/ i = n - 1
    BY <2>1
  <2>5. ASSUME NEW r \in TaskQueueType, Reprioritised(r), BucketsInOrder(tq, r),
               r.prio_current = Prios(n)
        PROVE  r \in S[n]
    <3> HIDE DEF Prios
    <3> QED BY <2>1, <2>5
  <2>6. CASE chain[n - 1] = NULL
    <3>1. Prios(n) = Prios(n - 1)
      BY <2>1, <2>4, <2>6, NullAssumption
    <3> HIDE DEF Prios, S
    <3> QED BY <2>3, <2>5, <2>6, <3>1
  <2>7. CASE chain[n - 1] \in Task
    <3> DEFINE r == os_taskqueue_reprio(s, chain[n - 1], prio)
    <3>1. chain[n - 1] # NULL /\ Coherent(s)
      BY <2>3, <2>7, NullAssumption DEF Reprioritised
    <3>2. /\ r \in TaskQueueType /\ Reprioritised(r)
          /\ r.prio_current = [s.prio_current EXCEPT ![chain[n - 1]] = prio]
      <4> HIDE DEF Prios, S
      <4> QED BY <1>2, <2>3, <2>7, <3>1, ReprioProperties DEF Reprioritised
    <3>3. Prios(n) = [Prios(n - 1) EXCEPT ![chain[n - 1]] = prio]
      BY <2>1, <2>4, <2>7
    <3>5. s.prio_current[chain[n - 1]] \in {prio, tq.prio_current[chain[n - 1]]}
      BY <2>3, <2>7
    <3> HIDE DEF Prios, S
    <3>6. BucketsInOrder(tq, r)
      BY <1>2, <1>3, <2>3, <2>7, <3>1, <3>5, ReprioOrder
    <3> HIDE DEF r
    <3>4. r \in S[n]
      BY <2>3, <2>5, <3>2, <3>3, <3>6
    <3> QED BY <2>3, <3>1, <3>4 DEF r
  <2> QED BY <2>2, <2>6, <2>7
<1> HIDE DEF Turn, S
<1>6. PICK f : Stages(N, S, tq, g, f)
  <2>1. \A n \in 1 .. N : \A s \in S[n - 1] : g[n][s] \in S[n]
    BY <1>5
  <2> HIDE DEF g
  <2> QED BY <1>2, <1>4, <2>1, StagedLoop, Zenon
<1>7. f = [n \in 0 .. N |-> IF n = 0 THEN tq
                            ELSE IF chain[n - 1] = NULL THEN f[n - 1]
                            ELSE os_taskqueue_reprio(f[n - 1], chain[n - 1], prio)]
  <2>1. \A n \in 1 .. N : \A s \in S[n - 1] : g[n][s] = Turn(n, s)
    BY <1>5
  <2> HIDE DEF g
  <2>2. /\ f = [n \in 0 .. N |-> f[n]] /\ f[0] = tq
        /\ \A n \in 0 .. N : f[n] \in S[n]
        /\ \A n \in 1 .. N : f[n] = g[n][f[n - 1]]
    BY <1>6 DEF Stages
  <2>3. ASSUME NEW n \in 1 .. N PROVE f[n] = Turn(n, f[n - 1])
    <3>1. n - 1 \in 0 .. N
      BY <1>2
    <3> QED BY <2>1, <2>2, <3>1
  <2>4. \A n \in 0 .. N : f[n] = IF n = 0 THEN tq
                                ELSE IF chain[n - 1] = NULL THEN f[n - 1]
                                ELSE os_taskqueue_reprio(f[n - 1], chain[n - 1], prio)
    <3>1. \A n \in 0 .. N : n # 0 => n \in 1 .. N
      BY <1>2
    <3> QED BY <2>2, <2>3, <3>1 DEF Turn
  <2> QED BY <2>2, <2>4
<1>8. w = [n \in 0 .. N |-> IF n = 0 THEN tq
                            ELSE IF chain[n - 1] = NULL THEN w[n - 1]
                            ELSE os_taskqueue_reprio(w[n - 1], chain[n - 1], prio)]
  BY <1>7
<1> HIDE DEF w
<1>9. w[0] = tq /\ \A n \in 1 .. N : w[n] = Turn(n, w[n - 1])
  BY <1>2, <1>8 DEF Turn
<1> DEFINE P == {n \in 0 .. N : w[n] \in S[n]}
<1>10. 0 .. N \subseteq P
  <2>1. 0 \in P
    BY <1>2, <1>4, <1>9
  <2>2. ASSUME NEW n \in 1 .. N, n - 1 \in P PROVE n \in P
    BY <1>5, <1>9, <2>2
  <2> HIDE DEF P
  <2> QED BY <1>2, <2>1, <2>2, CountUp
<1>11. Reprioritised(w[N]) /\ BucketsInOrder(tq, w[N]) /\ w[N].prio_current = Prios(N)
  <2>1. w[N] \in S[N] /\ N \in 0 .. N
    BY <1>2, <1>10
  <2> HIDE DEF Prios
  <2> QED BY <2>1 DEF S
<1> QED BY <1>1, <1>3, <1>11 DEF N, chain, prio

\* When mutexes are taken in order of their rank, the ranks rise along the
\* blocking chain, so no task is met twice and the walk ends before it has
\* made as many turns as there are tasks.
LEMMA ChainEnds ==
    ASSUME MtxInv, Ordered, NEW m \in Mutex
    PROVE  ~BoostLoops(m)
<1> DEFINE N == Cardinality(Task)
           chain == BlockingChain(m)
           q(n) == tq.task_queue[chain[n]]
<1> SUFFICES ASSUME chain[N] # NULL PROVE FALSE
  BY DEF BoostLoops
<1>1. /\ N \in Nat /\ chain \in [0 .. N -> Task \cup {NULL}]
      /\ \A n \in 1 .. N : chain[n] = IF chain[n - 1] = NULL THEN NULL
                                      ELSE BlockedBy(chain[n - 1])
  BY ChainProperties
<1> HIDE DEF chain, N
<1>2. \A n \in 0 .. N : chain[n] \in Task
  <2> DEFINE P == {k \in 0 .. N : chain[N - k] \in Task}
  <2>1. 0 \in P
    BY <1>1
  <2>2. ASSUME NEW k \in 1 .. N, k - 1 \in P PROVE k \in P
    <3>1. N - k \in 0 .. N /\ N - (k - 1) \in 1 .. N /\ (N - (k - 1)) - 1 = N - k
      BY <1>1
    <3>2. chain[N - (k - 1)] \in Task
      BY <2>2
    <3>3. chain[N - k] # NULL
      BY <1>1, <3>1, <3>2, NullAssumption
    <3> QED BY <1>1, <3>1, <3>3
  <2>3. 0 .. N \subseteq P
    <3> HIDE DEF P
    <3> QED BY <1>1, <2>1, <2>2, CountUp
  <2>4. ASSUME NEW n \in 0 .. N PROVE chain[n] \in Task
    <3>1. N - n \in 0 .. N /\ N - (N - n) = n
      BY <1>1
    <3> QED BY <2>3, <3>1
  <2> QED BY <2>4
<1>3. ASSUME NEW n \in 0 .. N - 1
      PROVE  /\ q(n) \in Mutex /\ owner[q(n)] = chain[n + 1]
             /\ Rank[q(n)] \in Nat
             /\ \A o \in Mutex : owner[o] = chain[n] => Rank[o] < Rank[q(n)]
  <2>1. n \in 0 .. N /\ n + 1 \in 1 .. N /\ (n + 1) - 1 = n /\ n + 1 \in 0 .. N
    BY <1>1
  <2>2. chain[n] \in Task /\ chain[n + 1] \in Task /\ chain[n] # NULL
    BY <1>2, <2>1, NullAssumption
  <2>3. chain[n + 1] = BlockedBy(chain[n])
    BY <1>1, <2>1, <2>2
  <2>4. q(n) \in Mutex /\ owner[q(n)] = chain[n + 1]
    BY <2>2, <2>3, BlockedByProperties, NullAssumption
  <2>5. \A o \in Mutex : owner[o] = chain[n] => Rank[o] < Rank[q(n)]
    BY <2>2, <2>4 DEF MtxInv, InOrder, RanksRise, mtx_list
  <2> QED BY <2>4, <2>5, RankAssumption
<1>4. ASSUME NEW i \in 0 .. N - 1, NEW n \in 0 .. N - 1, i <= n
      PROVE  Rank[q(i)] <= Rank[q(n)]
  <2> DEFINE K == N - 1 - i
             P == {k \in 0 .. K : Rank[q(i)] <= Rank[q(i + k)]}
  <2>1. K \in Nat /\ n - i \in 0 .. K /\ i + (n - i) = n /\ i + 0 = i
    BY <1>1, <1>4
  <2>2. 0 \in P
    BY <1>3, <2>1
  <2>3. ASSUME NEW k \in 1 .. K, k - 1 \in P PROVE k \in P
    <3>1. i + k \in 0 .. N - 1 /\ i + (k - 1) \in 0 .. N - 1 /\ (i + (k - 1)) + 1 = i + k
      BY <1>1, <2>1
    <3>2. /\ Rank[q(i)] <= Rank[q(i + (k - 1))]
          /\ Rank[q(i)] \in Nat /\ Rank[q(i + (k - 1))] \in Nat /\ Rank[q(i + k)] \in Nat
      BY <1>3, <2>3, <3>1
    <3>3. Rank[q(i + (k - 1))] < Rank[q(i + k)]
      BY <1>3, <3>1
    <3>4. Rank[q(i)] <= Rank[q(i + k)]
      BY <3>2, <3>3
    <3> QED BY <3>4
  <2>4. 0 .. K \subseteq P
    <3> HIDE DEF P, K
    <3> QED BY <2>1, <2>2, <2>3, CountUp
  <2> QED BY <2>1, <2>4
<1>5. ASSUME NEW i \in 0 .. N, NEW k \in 0 .. N, i < k, chain[i] = chain[k]
      PROVE  FALSE
  <2>1. i \in 0 .. N - 1 /\ k - 1 \in 0 .. N - 1 /\ (k - 1) + 1 = k /\ i <= k - 1
    BY <1>1, <1>5
  <2>2. q(k - 1) \in Mutex /\ owner[q(k - 1)] = chain[k] /\ Rank[q(k - 1)] \in Nat
    BY <1>3, <2>1
  <2>3. Rank[q(k - 1)] < Rank[q(i)] /\ Rank[q(i)] \in Nat
    BY <1>3, <1>5, <2>1, <2>2
  <2>4. Rank[q(i)] <= Rank[q(k - 1)]
    BY <1>4, <2>1
  <2> HIDE DEF q
  <2> QED BY <2>2, <2>3, <2>4
<1>6. chain \in Injection(0 .. N, Task)
  <2>1. chain \in [0 .. N -> Task]
    BY <1>1, <1>2
  <2>2. ASSUME NEW i \in 0 .. N, NEW k \in 0 .. N, chain[i] = chain[k] PROVE i = k
    <3>1. i < k \/ k < i \/ i = k
      BY <1>1
    <3> QED BY <1>5, <2>2, <3>1
  <2> QED BY <2>1, <2>2 DEF Injection, IsInjective
<1>7. IsFiniteSet(0 .. N) /\ Cardinality(0 .. N) = N + 1
  BY <1>1, FS_Interval
<1>8. Cardinality(0 .. N) <= N
  BY <1>6, TaskAssumption, FS_Injection DEF ExistsInjection, N
<1> QED BY <1>1, <1>7, <1>8

---------------------------------------------------------------------------
(* What a step leaves alone.                                               *)

\* t is not moved from or to the queue of an object.
QuietTask(t) ==
    /\ SameObject(tq, tq', t)
    /\ pc'[t] = pc[t] \/ (pc'[t] \in OwnLabel /\ pc[t] \in OwnLabel)
    /\ pc'[t] \in JoinLabel => pc[t] \in JoinLabel \/ block_type'[t] # "MTX"
    /\ pc[t] \notin OwnLabel => /\ block_code'[t] = block_code[t]
                                /\ block_type'[t] = block_type[t]
    /\ block_type'[t] = block_type[t] \/ block_type'[t] # "MTX"

LEMMA QuietWaiter ==
    ASSUME MtxInv, SchedCore', NEW t \in Task, QuietTask(t),
           lock_arg'[t] = lock_arg[t] \/ pc[t] = "run",
           pc[t] = "mtx_wait" => (owner'[lock_arg[t]] = t <=> owner[lock_arg[t]] = t)
    PROVE  /\ WaiterOK(t)' /\ ResultOK(t)'
           /\ \A m \in Mutex : tq'.task_queue[t] = m <=> tq.task_queue[t] = m
<1>1. /\ WaiterOK(t) /\ ResultOK(t) /\ InPlace(tq, task_current) /\ InPlace(tq', task_current')
      /\ JoinsMatch(tq, pc, join_sem, block_code)
      /\ Mutex \subseteq ObjectQueue /\ "mtx_wait" \notin OwnLabel /\ "run" \in OwnLabel
      /\ ObjectQueue = Queue \ (Task \cup {ready_queue}) /\ JoinLabel \subseteq OwnLabel
  BY MutexQueues DEF MtxInv, SchedCore, OwnLabel, ObjectQueue, JoinLabel
<1>2. \A m \in Mutex : tq'.task_queue[t] = m <=> tq.task_queue[t] = m
  BY <1>1 DEF QuietTask, SameObject
<1>3. WaiterOK(t)'
  <2>1. tq'.task_queue[t] \in ObjectQueue => tq'.task_queue[t] = tq.task_queue[t]
    BY DEF QuietTask, SameObject
  <2>2. pc[t] = "mtx_wait" => pc'[t] = "mtx_wait" /\ lock_arg'[t] = lock_arg[t]
                              /\ block_type'[t] = block_type[t]
    BY <1>1 DEF QuietTask
  <2>3. pc'[t] = "mtx_wait" => pc[t] = "mtx_wait"
    BY <1>1 DEF QuietTask
  <2>4. pc'[t] \in JoinLabel => block_type'[t] # "MTX"
    BY <1>1 DEF QuietTask, WaiterOK
  <2> QED BY <1>1, <2>1, <2>2, <2>3, <2>4 DEF WaiterOK
<1>4. ResultOK(t)'
  <2> SUFFICES ASSUME pc'[t] = "mtx_wait", tq'.state[t] # "WAIT"
               PROVE  \/ block_code'[t] = "OK" /\ owner'[lock_arg'[t]] = t
                      \/ block_code'[t] = "DESTROYED" /\ owner'[lock_arg'[t]] # t
    BY DEF ResultOK
  <2>1. pc[t] = "mtx_wait" /\ lock_arg'[t] = lock_arg[t] /\ block_code'[t] = block_code[t]
    BY <1>1 DEF QuietTask
  <2>2. tq.state[t] # "WAIT"
    <3> SUFFICES ASSUME tq.state[t] = "WAIT" PROVE FALSE
      OBVIOUS
    <3>1. tq.task_queue[t] \in Queue \ {ready_queue} /\ tq.task_queue[t] \notin Task
      BY <1>1, <2>1 DEF InPlace, JoinsMatch
    <3>2. tq'.task_queue[t] = tq.task_queue[t]
      BY <1>1, <3>1 DEF QuietTask, SameObject
    <3> QED BY <1>1, <3>1, <3>2 DEF InPlace
  <2> QED BY <1>1, <2>1, <2>2 DEF ResultOK
<1> QED BY <1>2, <1>3, <1>4

LEMMA QuietMutex ==
    ASSUME NEW m \in Mutex, OwnerOK(m), FreeOK(m),
           owner'[m] = owner[m], recur'[m] = recur[m], live'[m] = live[m],
           depth'[m] = depth[m],
           \A t \in Task : tq'.task_queue[t] = m => tq.task_queue[t] = m,
           owner[m] # NULL => owner[m] \in Task /\ tq'.state[owner[m]] \in Alive
    PROVE  OwnerOK(m)' /\ FreeOK(m)'
BY DEF OwnerOK, FreeOK

\* The scheduler's own steps.
LEMMA SchedStepKeeps ==
    ASSUME MtxInv, SchedStep
    PROVE  MtxInv' /\ \A t \in Task : \A m \in Mutex : tq'.task_queue[t] = m <=> tq.task_queue[t] = m
<1>1. /\ SchedCore /\ MtxTypeOK /\ owner \in [Mutex -> Task \cup {NULL}]
      /\ owner' = owner /\ recur' = recur /\ live' = live /\ lock_arg' = lock_arg
      /\ depth' = depth /\ hung' = hung
  BY DEF MtxInv, MtxTypeOK, SchedStep, mtxVars
<1>2. SchedCore' /\ Frame
  BY <1>1, StayStep, LeaveStep DEF SchedStep, StayEffect, LeaveEffect
<1>3. \A t \in Task : QuietTask(t)
  BY <1>2 DEF Frame, FieldsKept, QuietTask
<1>4. ASSUME NEW m \in Mutex, owner[m] # NULL
      PROVE  owner[m] \in Task /\ tq'.state[owner[m]] \in Alive
  <2>1. owner[m] \in Task /\ tq.state[owner[m]] \in Alive
    BY <1>1, <1>4 DEF MtxInv, OwnerOK
  <2>2. CASE Stay
    <3>1. Steady \/ \E t \in Task : Born(t) \/ Freed(t)
      BY <1>1, <2>2, StayStep DEF StayEffect
    <3> QED BY <2>1, <3>1 DEF Steady, Born, Freed, SameLife, Runnable, Alive
  <2>3. CASE mtx_list(task_current) = {} /\ Leave
    <3>1. owner[m] # task_current
      BY <2>3 DEF mtx_list
    <3>2. Dies \/ \E u \in Task : Waits(u)
      BY <1>1, <2>3, LeaveStep DEF LeaveEffect
    <3> QED BY <2>1, <3>1, <3>2 DEF Dies, Waits, SameLife, Runnable, Alive
  <2> QED BY <2>2, <2>3 DEF SchedStep
<1>5. ASSUME NEW t \in Task
      PROVE  /\ WaiterOK(t)' /\ ResultOK(t)'
             /\ \A m \in Mutex : tq'.task_queue[t] = m <=> tq.task_queue[t] = m
  BY <1>1, <1>2, <1>3, QuietWaiter
<1>6. ASSUME NEW m \in Mutex PROVE OwnerOK(m)' /\ FreeOK(m)'
  <2>1. OwnerOK(m) /\ FreeOK(m)
    BY DEF MtxInv
  <2> QED BY <1>1, <1>4, <1>5, <2>1, QuietMutex
<1>7. InOrder'
  BY <1>1, <1>5 DEF MtxInv, InOrder, RanksRise, mtx_list
<1>8. MtxTypeOK'
  BY <1>1, <1>2 DEF MtxTypeOK, SchedCore
<1> QED BY <1>2, <1>5, <1>6, <1>7, <1>8 DEF MtxInv

---------------------------------------------------------------------------
(* The functions of os_mtx.c that move no task.                            *)

LEMMA StutterTask ==
    ASSUME UNCHANGED vars
    PROVE  SchedCore => SchedCore' /\ \A t \in Task : QuietTask(t)
BY StutterStep DEF vars, QuietTask, SameObject

\* os_mtx_create, and the locks and unlocks of task_current that only count.
\* M is the mutex they are about.
LEMMA CountingStep ==
    ASSUME MtxInv, UNCHANGED <<vars, hung>>, NEW M \in Mutex,
           pc[task_current] \in {"boot", "run"},
           lock_arg' \in [Task -> Mutex \cup {NULL}],
           \A t \in Task \ {task_current} : lock_arg'[t] = lock_arg[t],
           lock_arg' = lock_arg \/ pc[task_current] = "run",
           owner[M] = task_current \/ (owner[M] = NULL /\ owner'[M] \in {NULL, task_current}),
           owner[M] = task_current => owner'[M] = task_current,
           MtxTypeOK',
           \A m \in Mutex \ {M} : /\ owner'[m] = owner[m] /\ recur'[m] = recur[m]
                                  /\ live'[m] = live[m] /\ depth'[m] = depth[m],
           owner'[M] # NULL => /\ live'[M] /\ depth'[M] \in 1 .. MaxRecur
                               /\ depth'[M] - recur'[M] \in Wraps,
           owner'[M] = NULL => recur'[M] = 0 /\ (MaxRecur < RECUR_MOD => depth'[M] = 0)
    PROVE  MtxInv'
<1> DEFINE c == task_current
<1>1. /\ SchedCore /\ c \in Task /\ owner \in [Mutex -> Task \cup {NULL}] /\ c # NULL
      /\ tq.task_queue[c] = NULL /\ tq.state[c] \in Alive
      /\ tq' = tq /\ pc' = pc /\ block_code' = block_code /\ hung' = hung
      /\ \A t \in Task : WaiterOK(t)
      /\ \A m \in Mutex : OwnerOK(m) /\ FreeOK(m)
  BY NullAssumption DEF MtxInv, MtxTypeOK, SchedCore, InPlace, Runnable, Alive, vars
<1>2. SchedCore' /\ \A t \in Task : QuietTask(t)
  BY <1>1, StutterTask
<1>3. ASSUME NEW t \in Task
      PROVE  WaiterOK(t)' /\ ResultOK(t)'
  <2>1. lock_arg'[t] = lock_arg[t] \/ pc[t] = "run"
    OBVIOUS
  <2>2. ASSUME pc[t] = "mtx_wait" PROVE owner'[lock_arg[t]] = t <=> owner[lock_arg[t]] = t
    <3>1. t # c /\ lock_arg[t] \in Mutex
      BY <1>1, <2>2 DEF WaiterOK
    <3> QED BY <1>1, <3>1, NullAssumption
  <2> QED BY <1>2, <2>1, <2>2, QuietWaiter
<1>4. ASSUME NEW m \in Mutex PROVE OwnerOK(m)' /\ FreeOK(m)'
  <2>1. CASE m = M
    <3>1. \A t \in Task : owner'[M] = NULL => tq.task_queue[t] # M
      BY <1>1 DEF FreeOK
    <3>2. owner'[M] # NULL => owner'[M] = c /\ tq.task_queue[c] # M
      BY <1>1, MutexQueues
    <3> QED BY <1>1, <2>1, <3>1, <3>2 DEF OwnerOK, FreeOK
  <2>2. CASE m # M
    <3>1. owner[m] # NULL => owner[m] \in Task /\ tq'.state[owner[m]] \in Alive
      BY <1>1 DEF OwnerOK
    <3> QED BY <1>1, <2>2, <3>1, QuietMutex
  <2> QED BY <2>1, <2>2
<1>5. InOrder'
  <2> SUFFICES ASSUME Ordered, NEW t \in Task, NEW m \in Mutex, tq.task_queue[t] = m,
                      NEW o \in Mutex, owner'[o] = t
               PROVE  Rank[o] < Rank[m]
    BY <1>1 DEF MtxInv, InOrder, RanksRise, mtx_list
  <2>1. t # c
    BY <1>1, MutexQueues
  <2>2. owner[o] = t
    BY <1>1, <2>1
  <2> QED BY <2>2 DEF MtxInv, InOrder, RanksRise, mtx_list
<1> QED BY <1>2, <1>3, <1>4, <1>5 DEF MtxInv

LEMMA CreateKeeps ==
    ASSUME MtxInv, NEW m \in Mutex, os_mtx_create(m)
    PROVE  MtxInv'
<1>1. /\ pc[task_current] \in {"boot", "run"} /\ ~live[m]
      /\ live' = [live EXCEPT ![m] = TRUE]
      /\ UNCHANGED <<vars, owner, recur, lock_arg, depth, hung>>
  BY DEF os_mtx_create
<1>2. /\ MtxTypeOK /\ OwnerOK(m) /\ FreeOK(m) /\ SchedCore
  BY DEF MtxInv
<1>3. owner[m] = NULL /\ recur[m] = 0 /\ (MaxRecur < RECUR_MOD => depth[m] = 0)
  BY <1>1, <1>2 DEF OwnerOK, FreeOK
<1>4. MtxTypeOK'
  BY <1>1, <1>2, StutterStep DEF MtxTypeOK, SchedCore
<1>5. \A o \in Mutex \ {m} : live'[o] = live[o]
  BY <1>1, <1>2 DEF MtxTypeOK
<1>6. lock_arg' \in [Task -> Mutex \cup {NULL}] /\ lock_arg' = lock_arg /\ UNCHANGED <<vars, hung>>
      /\ owner' = owner /\ recur' = recur /\ depth' = depth
  BY <1>1, <1>4 DEF MtxTypeOK
<1> QED BY <1>1, <1>3, <1>4, <1>5, <1>6, CountingStep

LEMMA LockFreeKeeps ==
    ASSUME MtxInv, NEW m \in Mutex, os_mtx_lock_free(m)
    PROVE  MtxInv'
<1> DEFINE c == task_current
<1>1. /\ pc[c] = "run" /\ live[m] /\ owner[m] = NULL
      /\ owner' = [owner EXCEPT ![m] = c]
      /\ recur' = [recur EXCEPT ![m] = 1]
      /\ depth' = [depth EXCEPT ![m] = 1]
      /\ lock_arg' = [lock_arg EXCEPT ![c] = m]
      /\ live' = live /\ UNCHANGED <<vars, hung>>
  BY DEF os_mtx_lock_free, MayLock, InTask
<1>2. MtxTypeOK /\ SchedCore /\ c \in Task /\ c # NULL
  BY NullAssumption DEF MtxInv, SchedCore, TypeOK
<1>3. 1 \in 0 .. (RECUR_MOD - 1) /\ 1 \in 1 .. MaxRecur /\ 1 - 1 \in Wraps
  BY RecurAssumption, WrapProperties
<1>4. MtxTypeOK'
  <2>1. TypeOK'
    BY <1>1, <1>2, StutterStep DEF SchedCore
  <2> QED BY <1>1, <1>2, <1>3, <2>1 DEF MtxTypeOK
<1>5. /\ \A o \in Mutex \ {m} : /\ owner'[o] = owner[o] /\ recur'[o] = recur[o]
                                /\ live'[o] = live[o] /\ depth'[o] = depth[o]
      /\ owner'[m] = c /\ recur'[m] = 1 /\ depth'[m] = 1 /\ live'[m]
      /\ lock_arg' \in [Task -> Mutex \cup {NULL}]
      /\ \A t \in Task \ {c} : lock_arg'[t] = lock_arg[t]
  BY <1>1, <1>2, <1>4 DEF MtxTypeOK
<1> QED BY <1>1, <1>2, <1>3, <1>4, <1>5, CountingStep

LEMMA LockAgainKeeps ==
    ASSUME MtxInv, NEW m \in Mutex, os_mtx_lock_again(m)
    PROVE  MtxInv'
<1> DEFINE c == task_current
           M == RECUR_MOD
           n == (recur[m] + 1) % M
<1>1. /\ pc[c] = "run" /\ live[m] /\ owner[m] = c /\ depth[m] < MaxRecur
      /\ recur' = [recur EXCEPT ![m] = n]
      /\ depth' = [depth EXCEPT ![m] = @ + 1]
      /\ lock_arg' = [lock_arg EXCEPT ![c] = m]
      /\ owner' = owner /\ live' = live /\ UNCHANGED <<vars, hung>>
  BY DEF os_mtx_lock_again, MayLock, InTask
<1>2. MtxTypeOK /\ SchedCore /\ c \in Task /\ c # NULL /\ OwnerOK(m)
  BY NullAssumption DEF MtxInv, SchedCore, TypeOK
<1>3. /\ recur[m] \in 0 .. M - 1 /\ depth[m] \in 1 .. MaxRecur /\ depth[m] - recur[m] \in Wraps
      /\ M \in Nat /\ M > 1
  BY <1>1, <1>2, RecurAssumption DEF MtxTypeOK, OwnerOK
<1>4. n \in 0 .. M - 1 /\ (depth[m] + 1) - n \in Wraps
  <2>1. CASE recur[m] + 1 < M
    <3>1. n = recur[m] + 1
      BY <1>3, <2>1
    <3>2. (depth[m] + 1) - n = depth[m] - recur[m]
      BY <1>3, <3>1
    <3> QED BY <1>3, <2>1, <3>1, <3>2
  <2>2. CASE recur[m] + 1 = M
    <3>1. n = 0
      BY <1>3, <2>2
    <3>2. (depth[m] + 1) - n = (depth[m] - recur[m]) + M
      BY <1>3, <2>2, <3>1
    <3> QED BY <1>3, <3>1, <3>2, WrapProperties
  <2>3. recur[m] + 1 < M \/ recur[m] + 1 = M
    BY <1>3
  <2> QED BY <2>1, <2>2, <2>3
<1>5. depth[m] + 1 \in 1 .. MaxRecur
  BY <1>1, <1>3, RecurAssumption
<1> HIDE DEF n
<1>6. MtxTypeOK'
  <2>1. TypeOK'
    BY <1>1, <1>2, StutterStep DEF SchedCore
  <2> QED BY <1>1, <1>2, <1>4, <1>5, <2>1 DEF MtxTypeOK
<1>7. /\ \A o \in Mutex \ {m} : /\ owner'[o] = owner[o] /\ recur'[o] = recur[o]
                                /\ live'[o] = live[o] /\ depth'[o] = depth[o]
      /\ owner'[m] = c /\ recur'[m] = n /\ depth'[m] = depth[m] + 1 /\ live'[m]
      /\ lock_arg' \in [Task -> Mutex \cup {NULL}]
      /\ \A t \in Task \ {c} : lock_arg'[t] = lock_arg[t]
  BY <1>1, <1>2, <1>6 DEF MtxTypeOK
<1>8. /\ owner'[m] # NULL => /\ live'[m] /\ depth'[m] \in 1 .. MaxRecur
                             /\ depth'[m] - recur'[m] \in Wraps
      /\ owner'[m] # NULL
  BY <1>2, <1>4, <1>5, <1>7
<1> QED BY <1>1, <1>6, <1>7, <1>8, CountingStep

LEMMA UnlockNestedKeeps ==
    ASSUME MtxInv, NEW m \in Mutex, os_mtx_unlock_nested(m)
    PROVE  MtxInv'
<1> DEFINE c == task_current
           M == RECUR_MOD
           n == Unrecur(recur[m])
<1>1. /\ pc[c] = "run" /\ owner[m] = c /\ n > 0
      /\ recur' = [recur EXCEPT ![m] = n]
      /\ depth' = [depth EXCEPT ![m] = @ - 1]
      /\ lock_arg' = lock_arg /\ owner' = owner /\ live' = live /\ UNCHANGED <<vars, hung>>
  BY DEF os_mtx_unlock_nested, InTask
<1>2. MtxTypeOK /\ SchedCore /\ c \in Task /\ c # NULL /\ OwnerOK(m)
  BY NullAssumption DEF MtxInv, SchedCore, TypeOK
<1>3. /\ recur[m] \in 0 .. M - 1 /\ depth[m] \in 1 .. MaxRecur /\ depth[m] - recur[m] \in Wraps
      /\ M \in Nat /\ M > 1 /\ live[m]
  BY <1>1, <1>2, RecurAssumption DEF MtxTypeOK, OwnerOK
<1>4. n \in 0 .. M - 1 /\ depth[m] - 1 \in 1 .. MaxRecur /\ (depth[m] - 1) - n \in Wraps
  <2>1. CASE recur[m] > 0
    <3>1. n = recur[m] - 1
      BY <1>3, <2>1 DEF Unrecur
    <3>2. (depth[m] - 1) - n = depth[m] - recur[m] /\ depth[m] - recur[m] \in Nat
      BY <1>3, <3>1, WrapProperties
    <3> QED BY <1>1, <1>3, <2>1, <3>1, <3>2, RecurAssumption
  <2>2. CASE recur[m] = 0
    <3>1. n = M - 1
      BY <1>3, <2>2 DEF Unrecur
    <3>2. depth[m] \in Wraps /\ depth[m] # 0
      BY <1>3, <2>2
    <3>3. depth[m] >= M /\ depth[m] - M \in Wraps
      BY <3>2, WrapProperties
    <3>4. (depth[m] - 1) - n = depth[m] - M
      BY <1>3, <3>1
    <3> QED BY <1>3, <3>1, <3>3, <3>4, RecurAssumption
  <2> QED BY <1>3, <2>1, <2>2
<1> HIDE DEF n
<1>5. MtxTypeOK'
  <2>1. TypeOK'
    BY <1>1, <1>2, StutterStep DEF SchedCore
  <2>2. depth[m] - 1 \in Nat
    BY <1>4
  <2> QED BY <1>1, <1>2, <1>4, <2>1, <2>2 DEF MtxTypeOK
<1>6. /\ \A o \in Mutex \ {m} : /\ owner'[o] = owner[o] /\ recur'[o] = recur[o]
                                /\ live'[o] = live[o] /\ depth'[o] = depth[o]
      /\ owner'[m] = c /\ recur'[m] = n /\ depth'[m] = depth[m] - 1 /\ live'[m]
      /\ lock_arg' \in [Task -> Mutex \cup {NULL}]
  BY <1>1, <1>2, <1>3, <1>5 DEF MtxTypeOK
<1>7. /\ owner'[m] # NULL => /\ live'[m] /\ depth'[m] \in 1 .. MaxRecur
                             /\ depth'[m] - recur'[m] \in Wraps
      /\ owner'[m] # NULL
  BY <1>2, <1>4, <1>6
<1> QED BY <1>1, <1>5, <1>6, <1>7, CountingStep

---------------------------------------------------------------------------
(* The functions of os_mtx.c that move tasks.                              *)

\* W leaves the queue of m: os_mtx_destroy, or the last os_mtx_unlock.
LEMMA ReleasingStep ==
    ASSUME MtxInv, NEW M \in Mutex, owner[M] \in {NULL, task_current},
           pc[task_current] = "run",
           NEW W \in SUBSET Waiters(M), SchedCore', ReleaseEffect(W),
           block_type' = block_type,
           \A t \in Task \ W : block_code'[t] = block_code[t],
           UNCHANGED <<lock_arg, hung>>, MtxTypeOK',
           \A m \in Mutex \ {M} : /\ owner'[m] = owner[m] /\ recur'[m] = recur[m]
                                  /\ live'[m] = live[m] /\ depth'[m] = depth[m],
           \/ /\ owner'[M] = NULL /\ recur'[M] = 0 /\ W = Waiters(M)
              /\ MaxRecur < RECUR_MOD => depth'[M] = 0
              /\ \A t \in W : block_code'[t] = "DESTROYED"
           \/ /\ owner'[M] \in W /\ W = {owner'[M]} /\ block_code'[owner'[M]] = "OK"
              /\ live'[M] /\ recur'[M] = 1 /\ depth'[M] = 1
    PROVE  /\ MtxInv'
           /\ \A t \in Task, m \in Mutex :
                 tq'.task_queue[t] = m <=> tq.task_queue[t] = m /\ t \notin W
<1> DEFINE c == task_current
<1>1. /\ SchedCore /\ c \in Task /\ owner \in [Mutex -> Task \cup {NULL}]
      /\ tq.task_queue[c] = NULL /\ tq.state[c] \in Runnable /\ NULL \notin Task
      /\ \A t \in Task : WaiterOK(t)
      /\ \A m \in Mutex : OwnerOK(m) /\ FreeOK(m)
      /\ lock_arg' = lock_arg /\ hung' = hung
  BY NullAssumption DEF MtxInv, MtxTypeOK, SchedCore, InPlace
<1>2. \A t \in W : /\ t \in Task /\ tq.task_queue[t] = M /\ t # c
                   /\ pc[t] = "mtx_wait" /\ lock_arg[t] = M
  BY <1>1, MutexQueues DEF Waiters, OnQueue, WaiterOK
<1>3. \A t \in Task : pc'[t] = pc[t] \/ (pc'[t] \in OwnLabel \ JoinLabel /\ pc[t] \in OwnLabel)
  BY DEF ReleaseEffect
<1>4. \A t \in Task \ W : QuietTask(t)
  BY <1>3 DEF ReleaseEffect, QuietTask
<1>5. ASSUME NEW t \in Task \ W
      PROVE  /\ WaiterOK(t)' /\ ResultOK(t)'
             /\ \A m \in Mutex : tq'.task_queue[t] = m <=> tq.task_queue[t] = m
  <2>1. ASSUME pc[t] = "mtx_wait" PROVE owner'[lock_arg[t]] = t <=> owner[lock_arg[t]] = t
    <3>1. t # c /\ lock_arg[t] \in Mutex
      BY <1>1, <2>1 DEF WaiterOK
    <3>2. owner'[M] # t /\ owner[M] # t
      BY <1>1, <3>1
    <3> QED BY <3>1, <3>2
  <2> QED BY <1>1, <1>4, <2>1, QuietWaiter
<1>6. ASSUME NEW t \in W
      PROVE  /\ WaiterOK(t)' /\ ResultOK(t)' /\ tq'.state[t] \in Runnable
             /\ \A m \in Mutex : tq'.task_queue[t] # m
  <2>1. tq'.task_queue[t] \notin ObjectQueue /\ tq'.state[t] \in Runnable
    BY DEF ReleaseEffect
  <2>2. pc'[t] = "mtx_wait" /\ lock_arg'[t] = M
    BY <1>1, <1>2, <1>3 DEF OwnLabel
  <2>3. WaiterOK(t)'
    BY <2>1, <2>2, MutexQueues DEF WaiterOK, JoinLabel
  <2>4. ResultOK(t)'
    BY <1>2, <2>2, NullAssumption DEF ResultOK
  <2> QED BY <2>1, <2>3, <2>4, MutexQueues
<1>7. \A t \in Task, m \in Mutex :
         tq'.task_queue[t] = m <=> tq.task_queue[t] = m /\ t \notin W
  BY <1>5, <1>6
<1>8. ASSUME NEW m \in Mutex PROVE OwnerOK(m)' /\ FreeOK(m)'
  <2>1. CASE m = M
    <3>1. CASE owner'[M] = NULL
      <4>1. recur'[M] = 0 /\ W = Waiters(M) /\ (MaxRecur < RECUR_MOD => depth'[M] = 0)
        BY <1>2, <3>1, NullAssumption
      <4>2. \A t \in Task : tq'.task_queue[t] # M
        BY <1>7, <4>1 DEF Waiters, OnQueue
      <4> QED BY <2>1, <3>1, <4>1, <4>2 DEF OwnerOK, FreeOK
    <3>2. CASE owner'[M] # NULL
      <4>1. owner'[M] \in W /\ live'[M] /\ recur'[M] = 1 /\ depth'[M] = 1
        BY <3>2
      <4>2. tq'.state[owner'[M]] \in Alive /\ tq'.task_queue[owner'[M]] # M
        BY <1>6, <4>1 DEF Runnable, Alive
      <4>3. 1 \in 1 .. MaxRecur /\ 1 - 1 \in Wraps
        BY RecurAssumption, WrapProperties
      <4> QED BY <2>1, <3>2, <4>1, <4>2, <4>3 DEF OwnerOK, FreeOK
    <3> QED BY <3>1, <3>2
  <2>2. CASE m # M
    <3>1. owner[m] # NULL => owner[m] \in Task /\ tq.state[owner[m]] \in Alive
      BY <1>1 DEF OwnerOK
    <3>2. owner[m] # NULL => tq'.state[owner[m]] \in Alive
      <4>1. ASSUME owner[m] \in Task \ W, tq.state[owner[m]] \in Alive
            PROVE  tq'.state[owner[m]] \in Alive
        BY <4>1 DEF ReleaseEffect, SameLife, Runnable, Alive
      <4>2. owner[m] \in W => tq'.state[owner[m]] \in Alive
        BY <1>6 DEF Runnable, Alive
      <4> QED BY <3>1, <4>1, <4>2
    <3> QED BY <1>1, <1>7, <2>2, <3>1, <3>2, QuietMutex
  <2> QED BY <2>1, <2>2
<1>9. InOrder'
  <2> SUFFICES ASSUME Ordered, NEW t \in Task, NEW m \in Mutex, tq'.task_queue[t] = m,
                      NEW o \in Mutex, owner'[o] = t
               PROVE  Rank[o] < Rank[m]
    BY <1>1 DEF MtxInv, InOrder, RanksRise, mtx_list
  <2>1. tq.task_queue[t] = m /\ t \notin W
    BY <1>7
  <2>2. owner[o] = t
    BY <1>1, <2>1
  <2> QED BY <2>1, <2>2 DEF MtxInv, InOrder, RanksRise, mtx_list
<1> QED BY <1>5, <1>6, <1>7, <1>8, <1>9 DEF MtxInv

\* What the release of the waiters W from m does to the priorities and to the
\* CPU.
Settles(m, W) ==
    /\ ReleaseEffect(W)
    /\ tq'.prio_current =
          IF owner[m] = NULL THEN tq.prio_current
          ELSE os_mtx_unlock_prio_reset(tq, mtx_list(task_current) \ {m}).prio_current
    /\ \/ sched_lock' # 0 \/ NotOutranked(tq', task_current')
       \/ W = {} /\ UNCHANGED task_current /\ tq'.task_queue = tq.task_queue

\* What os_mtx_destroy does to the mutex and its waiters.
Destroys(m) ==
    /\ owner' = [owner EXCEPT ![m] = NULL]
    /\ \A t \in Task, o \in Mutex :
          tq'.task_queue[t] = o <=> tq.task_queue[t] = o /\ o # m

LEMMA DestroyKeeps ==
    ASSUME MtxInv, NEW m \in Mutex, os_mtx_destroy(m)
    PROVE  MtxInv' /\ Destroys(m) /\ Settles(m, Waiters(m))
<1> DEFINE c == task_current
           W == Waiters(m)
           s == IF owner[m] = NULL THEN tq
                ELSE WakeAll(os_mtx_unlock_prio_reset(tq, mtx_list(c) \ {m}), m)
<1>1. /\ pc[c] = "run" /\ owner[m] \in {NULL, c}
      /\ owner' = [owner EXCEPT ![m] = NULL]
      /\ recur' = [recur EXCEPT ![m] = 0]
      /\ live' = [live EXCEPT ![m] = FALSE]
      /\ depth' = [depth EXCEPT ![m] = 0]
      /\ block_code' = DestroyCodes(m)
      /\ UNCHANGED <<prio_base, block_type, join_sem, cpuVars>>
      /\ UNCHANGED <<lock_arg, hung>>
      /\ os_schedule(s, pc[c], 1)
  BY DEF os_mtx_destroy, InTask
<1>2. /\ SchedCore /\ MtxTypeOK /\ m \in ObjectQueue /\ prio_base \in [Task -> Prio]
      /\ block_code \in [Task -> {"OK", "DESTROYED", "TIMEOUT", "EXIT"}]
  BY MutexQueues DEF MtxInv, SchedCore, TypeOK
<1>3. Released(s, W) /\ s.prio_current = IF owner[m] = NULL THEN tq.prio_current
         ELSE os_mtx_unlock_prio_reset(tq, mtx_list(c) \ {m}).prio_current
  <2>1. CASE owner[m] = NULL
    <3>1. W = {} /\ tq \in TaskQueueType /\ Coherent(tq)
      BY <2>1 DEF MtxInv, FreeOK, Waiters, OnQueue, SchedCore, InPlace
    <3>2. Released(tq, {})
      BY <3>1 DEF Released
    <3> QED BY <2>1, <3>1, <3>2
  <2>2. CASE owner[m] # NULL
    <3> DEFINE r == os_mtx_unlock_prio_reset(tq, mtx_list(c) \ {m})
    <3>1. mtx_list(c) \ {m} \in SUBSET Mutex
      BY DEF mtx_list
    <3>2. Reprioritised(r)
      BY <1>2, <3>1, ResetProperties
    <3> HIDE DEF r
    <3>3. Released(WakeAll(r, m), OnQueue(tq, m)) /\ WakeAll(r, m).prio_current = r.prio_current
      BY <1>2, <3>2, ReleaseAll
    <3> QED BY <2>2, <3>3 DEF Waiters, r
  <2> QED BY <2>1, <2>2
<1>4. /\ block_code' \in [Task -> {"OK", "DESTROYED", "TIMEOUT", "EXIT"}]
      /\ \A t \in Task \ W : block_code'[t] = block_code[t]
      /\ \A t \in W : block_code'[t] = "DESTROYED"
  BY <1>1, <1>2 DEF DestroyCodes, Waiters, OnQueue
<1> HIDE DEF s
<1>5. SchedCore' /\ ReleaseEffect(W) /\ Settles(m, W)
  <2>1. deferred' => sched_lock' # 0
    <3>1. isr_nesting <= 1
      BY DEF os_mtx_destroy, InTask
    <3>2. deferred' = ~(isr_nesting <= 1 /\ sched_lock' = 0)
      BY <1>1 DEF os_schedule
    <3> QED BY <3>1, <3>2, Zenon
  <2> QED BY <1>1, <1>2, <1>3, <1>4, <2>1, ReleaseAndSchedule DEF Settles
<1>6. MtxTypeOK'
  BY <1>1, <1>2, <1>5, RecurAssumption DEF MtxTypeOK, SchedCore
<1>7. /\ \A o \in Mutex \ {m} : /\ owner'[o] = owner[o] /\ recur'[o] = recur[o]
                                /\ live'[o] = live[o] /\ depth'[o] = depth[o]
      /\ owner'[m] = NULL /\ recur'[m] = 0 /\ depth'[m] = 0
  BY <1>1, <1>2 DEF MtxTypeOK
<1> HIDE DEF W
<1>8. /\ MtxInv'
      /\ \A t \in Task, o \in Mutex :
            tq'.task_queue[t] = o <=> tq.task_queue[t] = o /\ t \notin W
  BY <1>1, <1>4, <1>5, <1>6, <1>7, ReleasingStep DEF W
<1> QED BY <1>1, <1>5, <1>8 DEF W, Waiters, OnQueue, Destroys

\* What the last os_mtx_unlock does: without a waiter m is free, otherwise the
\* top waiter owns it.
Unlocked(m) ==
    /\ owner[m] # NULL
    /\ \/ /\ owner' = [owner EXCEPT ![m] = NULL]
          /\ Waiters(m) = {}
          /\ \A t \in Task, o \in Mutex : tq'.task_queue[t] = o <=> tq.task_queue[t] = o
       \/ \E n \in Waiters(m) :
             /\ owner' = [owner EXCEPT ![m] = n]
             /\ \A t \in Waiters(m) : tq.prio_current[t] <= tq.prio_current[n]
             /\ \A t \in Task, o \in Mutex :
                   tq'.task_queue[t] = o <=> tq.task_queue[t] = o /\ t # n

\* recur is 1 at the last unlock; it tells that depth is 1 unless it overflowed.
LEMMA LastUnlock ==
    ASSUME MtxInv, NEW m \in Mutex, owner[m] # NULL, Unrecur(recur[m]) = 0
    PROVE  depth[m] - 1 \in Nat /\ (MaxRecur < RECUR_MOD => depth[m] = 1)
<1> DEFINE M == RECUR_MOD
<1>1. /\ recur[m] \in 0 .. M - 1 /\ depth[m] \in 1 .. MaxRecur /\ depth[m] - recur[m] \in Wraps
      /\ M \in Nat /\ M > 1 /\ MaxRecur \in Nat
  BY RecurAssumption DEF MtxInv, MtxTypeOK, OwnerOK
<1>2. recur[m] = 1
  <2>1. recur[m] = 0 => Unrecur(recur[m]) = M - 1
    <3>1. (0 + M - 1) % M = M - 1
      BY <1>1
    <3> QED BY <3>1 DEF Unrecur
  <2>2. recur[m] > 0 => Unrecur(recur[m]) = recur[m] - 1
    BY <1>1 DEF Unrecur
  <2> QED BY <1>1, <2>1, <2>2
<1>3. depth[m] - 1 # 0 => depth[m] - 1 >= M
  BY <1>1, <1>2, WrapProperties
<1> QED BY <1>1, <1>3

LEMMA UnlockLastKeeps ==
    ASSUME MtxInv, NEW m \in Mutex, os_mtx_unlock_last(m)
    PROVE  MtxInv' /\ Unlocked(m) /\ Settles(m, {owner'[m]} \ {NULL})
<1> DEFINE c == task_current
           s == os_mtx_unlock_prio_reset(tq, mtx_list(c) \ {m})
           d == os_taskqueue_dequeue(s, m)
           Codes == {"OK", "DESTROYED", "TIMEOUT", "EXIT"}
<1>1. /\ SchedCore /\ MtxTypeOK /\ m \in ObjectQueue /\ prio_base \in [Task -> Prio]
      /\ block_code \in [Task -> Codes] /\ TypeOK /\ c \in Task /\ NULL \notin Task
      /\ deferred \in BOOLEAN
  BY MutexQueues, NullAssumption DEF MtxInv, SchedCore, TypeOK
<1>2. /\ pc[c] = "run" /\ owner[m] = c /\ Unrecur(recur[m]) = 0
      /\ UNCHANGED <<prio_base, block_type, join_sem, cpuVars>>
      /\ UNCHANGED <<lock_arg, hung>> /\ live' = live
      /\ IF d.task = NULL
         THEN /\ tq' = d.s
              /\ owner' = [owner EXCEPT ![m] = NULL]
              /\ recur' = [recur EXCEPT ![m] = 0]
              /\ depth' = [depth EXCEPT ![m] = @ - 1]
              /\ UNCHANGED <<block_code, task_current, pc, deferred>>
         ELSE /\ owner' = [owner EXCEPT ![m] = d.task]
              /\ recur' = [recur EXCEPT ![m] = 1]
              /\ depth' = [depth EXCEPT ![m] = 1]
              /\ block_code' = [block_code EXCEPT ![d.task] = "OK"]
              /\ os_schedule(os_task_makeready(d.s, d.task), pc[c], 1)
  BY DEF os_mtx_unlock_last, InTask
<1>3. Reprioritised(s) /\ \A t \in Task \ {c} : s.prio_current[t] = tq.prio_current[t]
  <2>1. mtx_list(c) \ {m} \in SUBSET Mutex
    BY DEF mtx_list
  <2> QED BY <1>1, <2>1, ResetProperties
<1>4. /\ depth[m] - 1 \in Nat /\ (MaxRecur < RECUR_MOD => depth[m] = 1) /\ live[m]
      /\ owner[m] # NULL
  <2>1. owner[m] # NULL
    BY <1>1, <1>2
  <2> QED BY <2>1, <1>2, LastUnlock DEF MtxInv, OwnerOK
<1> HIDE DEF s
<1>5. \/ d.task = NULL /\ d.s = s /\ OnQueue(tq, m) = {}
      \/ /\ d.task \in OnQueue(tq, m)
         /\ \A t \in OnQueue(tq, m) : s.prio_current[t] <= s.prio_current[d.task]
         /\ Released(os_task_makeready(d.s, d.task), {d.task})
         /\ os_task_makeready(d.s, d.task).prio_current = s.prio_current
  BY <1>1, <1>3, ReleaseOne
<1> HIDE DEF d
<1>6. OnQueue(tq, m) \subseteq Task
  BY DEF OnQueue
<1>7. CASE d.task = NULL
  <2>1. d.s = s /\ Waiters(m) = {}
    BY <1>1, <1>5, <1>6, <1>7 DEF Waiters
  <2>2. Released(s, {})
    BY <1>3 DEF Released, Reprioritised
  <2>3. /\ tq' = s /\ deferred' \in BOOLEAN /\ block_code' = block_code
        /\ owner' = [owner EXCEPT ![m] = NULL] /\ recur' = [recur EXCEPT ![m] = 0]
        /\ depth' = [depth EXCEPT ![m] = @ - 1]
        /\ UNCHANGED <<prio_base, block_type, join_sem, task_current, pc, cpuVars>>
    BY <1>1, <1>2, <1>7, <2>1
  <2>4. SchedCore' /\ ReleaseEffect({})
    BY <1>1, <2>2, <2>3, ReleaseOnly
  <2>5. MtxTypeOK'
    BY <1>1, <1>2, <1>4, <2>3, <2>4, RecurAssumption DEF MtxTypeOK, SchedCore
  <2>6. /\ \A o \in Mutex \ {m} : /\ owner'[o] = owner[o] /\ recur'[o] = recur[o]
                                  /\ live'[o] = live[o] /\ depth'[o] = depth[o]
        /\ owner'[m] = NULL /\ recur'[m] = 0 /\ (MaxRecur < RECUR_MOD => depth'[m] = 0)
    BY <1>1, <1>2, <1>4, <2>3 DEF MtxTypeOK
  <2> DEFINE W == {}
  <2>7. W \in SUBSET Waiters(m) /\ W = Waiters(m) /\ ReleaseEffect(W)
    BY <2>1, <2>4
  <2> HIDE DEF W
  <2>8. block_type' = block_type /\ \A t \in Task \ W : block_code'[t] = block_code[t]
    BY <2>3
  <2>9. \A t \in W : block_code'[t] = "DESTROYED"
    BY DEF W
  <2>10. /\ MtxInv'
         /\ \A t \in Task, o \in Mutex :
               tq'.task_queue[t] = o <=> tq.task_queue[t] = o /\ t \notin W
    BY <1>2, <2>4, <2>5, <2>6, <2>7, <2>8, <2>9, ReleasingStep
  <2>11. Settles(m, {}) /\ {owner'[m]} \ {NULL} = {}
    BY <1>3, <1>4, <2>3, <2>4, <2>6 DEF Settles, Reprioritised, s
  <2> QED BY <1>4, <2>1, <2>3, <2>10, <2>11 DEF W, Unlocked
<1>8. CASE d.task # NULL
  <2> DEFINE n == d.task
             W == {n}
             r == os_task_makeready(d.s, n)
  <2>1. /\ n \in Waiters(m) /\ n \in Task /\ Released(r, W) /\ r.prio_current = s.prio_current
        /\ \A t \in Waiters(m) : t \in Task /\ s.prio_current[t] <= s.prio_current[n]
    BY <1>5, <1>6, <1>8 DEF Waiters
  <2>2. /\ owner' = [owner EXCEPT ![m] = n]
        /\ recur' = [recur EXCEPT ![m] = 1]
        /\ depth' = [depth EXCEPT ![m] = 1]
        /\ block_code' = [block_code EXCEPT ![n] = "OK"]
        /\ os_schedule(r, pc[c], 1)
    BY <1>2, <1>8
  <2> HIDE DEF n, r
  <2>3. /\ block_code' \in [Task -> Codes] /\ block_code'[n] = "OK"
        /\ \A t \in Task \ W : block_code'[t] = block_code[t]
    BY <1>1, <2>1, <2>2
  <2>4. W \in SUBSET Waiters(m) /\ W = {owner'[m]} /\ owner'[m] \in W
    BY <1>1, <2>1, <2>2 DEF MtxTypeOK
  <2> HIDE DEF W
  <2>5. /\ SchedCore' /\ ReleaseEffect(W) /\ tq'.prio_current = r.prio_current
        /\ deferred' \/ NotOutranked(tq', task_current')
    BY <1>1, <1>2, <2>1, <2>2, <2>3, ReleaseAndSchedule
  <2>6. MtxTypeOK'
    BY <1>1, <1>2, <2>1, <2>2, <2>5, RecurAssumption DEF MtxTypeOK, SchedCore
  <2>7. /\ \A o \in Mutex \ {m} : /\ owner'[o] = owner[o] /\ recur'[o] = recur[o]
                                  /\ live'[o] = live[o] /\ depth'[o] = depth[o]
        /\ live'[m] /\ recur'[m] = 1 /\ depth'[m] = 1 /\ owner'[m] = n
    BY <1>1, <1>2, <1>4, <2>2 DEF MtxTypeOK
  <2>8. block_type' = block_type /\ block_code'[owner'[m]] = "OK" /\ owner[m] = c
    BY <1>2, <2>3, <2>7
  <2>9. /\ MtxInv'
        /\ \A t \in Task, o \in Mutex :
              tq'.task_queue[t] = o <=> tq.task_queue[t] = o /\ t \notin W
    BY <1>2, <2>3, <2>4, <2>5, <2>6, <2>7, <2>8, ReleasingStep
  <2>10. \A t \in Task, o \in Mutex :
            tq'.task_queue[t] = o <=> tq.task_queue[t] = o /\ t # n
    BY <2>9 DEF W
  <2>11. \A t \in Waiters(m) : tq.prio_current[t] <= tq.prio_current[n]
    <3>1. \A t \in Waiters(m) : t # c
      BY <1>1, MutexQueues DEF Waiters, OnQueue, SchedCore, InPlace
    <3> QED BY <1>3, <2>1, <3>1
  <2>12. Unlocked(m)
    BY <1>4, <2>1, <2>2, <2>10, <2>11 DEF Unlocked
  <2>13. Settles(m, W) /\ {owner'[m]} \ {NULL} = W
    <3>1. {owner'[m]} \ {NULL} = W
      BY <1>8, <2>7 DEF n, W
    <3>2. deferred' => sched_lock' # 0
      <4>1. isr_nesting <= 1
        BY DEF os_mtx_unlock_last, InTask
      <4>2. deferred' = ~(isr_nesting <= 1 /\ sched_lock' = 0)
        BY <2>2 DEF os_schedule
      <4> QED BY <4>1, <4>2, Zenon
    <3> QED BY <1>4, <2>1, <2>5, <3>1, <3>2 DEF Settles, s
  <2> QED BY <2>9, <2>12, <2>13
<1> QED BY <1>7, <1>8

\* What os_mtx_lock does when it has to wait.
Blocks(m) ==
    /\ owner' = owner /\ owner[m] \notin {NULL, task_current}
    /\ \A t \in Task, o \in Mutex :
          tq'.task_queue[t] = o <=> tq.task_queue[t] = o \/ (t = task_current /\ o = m)

\* The walk that does not end, which takes an application without an order.
LEMMA LockHangs ==
    ASSUME MtxInv, NEW m \in Mutex, os_mtx_lock_wait(m), BoostLoops(m)
    PROVE  MtxInv' /\ UNCHANGED <<owner, vars>>
<1> DEFINE c == task_current
<1>1. /\ pc[c] = "run" /\ lock_arg' = [lock_arg EXCEPT ![c] = m] /\ hung' = TRUE
      /\ UNCHANGED vars /\ UNCHANGED <<owner, recur, live, depth>>
  <2>1. hung' \in BOOLEAN
    BY DEF os_mtx_lock_wait, BoostLoops
  <2> QED BY <2>1 DEF os_mtx_lock_wait, MayLock, InTask
<1>2. ~Ordered
  BY ChainEnds
<1>3. /\ SchedCore /\ MtxTypeOK /\ c \in Task /\ owner \in [Mutex -> Task \cup {NULL}]
      /\ \A o \in Mutex : OwnerOK(o) /\ FreeOK(o)
  BY DEF MtxInv, MtxTypeOK, SchedCore, TypeOK
<1>4. SchedCore' /\ (\A t \in Task : QuietTask(t)) /\ tq' = tq
  BY <1>1, <1>3, StutterTask DEF vars
<1>5. MtxTypeOK' /\ \A t \in Task \ {c} : lock_arg'[t] = lock_arg[t]
  BY <1>1, <1>3, <1>4 DEF MtxTypeOK, SchedCore
<1>6. ASSUME NEW t \in Task PROVE WaiterOK(t)' /\ ResultOK(t)'
  <2>1. lock_arg'[t] = lock_arg[t] \/ pc[t] = "run"
    BY <1>1, <1>5
  <2> QED BY <1>1, <1>4, <2>1, QuietWaiter
<1>7. ASSUME NEW o \in Mutex PROVE OwnerOK(o)' /\ FreeOK(o)'
  BY <1>1, <1>3, <1>4 DEF OwnerOK, FreeOK
<1>8. InOrder'
  BY <1>2 DEF InOrder
<1> QED BY <1>1, <1>4, <1>5, <1>6, <1>7, <1>8 DEF MtxInv

LEMMA LockBlocks ==
    ASSUME MtxInv, NEW m \in Mutex, os_mtx_lock_wait(m), ~BoostLoops(m)
    PROVE  /\ MtxInv' /\ Blocks(m)
           /\ BlockEffect(m, "mtx_wait") /\ NotOutranked(tq', task_current')
           /\ tq'.prio_current = os_mtx_lock_prio_boost(m).prio_current
<1> DEFINE c == task_current
           s == os_mtx_lock_prio_boost(m)
<1>1. /\ pc[c] = "run" /\ c # Idle /\ live[m] /\ owner[m] \notin {NULL, c}
      /\ Ordered => \A o \in mtx_list(c) \ {m} : Rank[o] < Rank[m]
      /\ lock_arg' = [lock_arg EXCEPT ![c] = m]
      /\ hung' = FALSE /\ owner' = owner /\ recur' = recur /\ live' = live /\ depth' = depth
      /\ os_task_block_switch(s, m, "MTX", "mtx_wait")
      /\ block_type' = [block_type EXCEPT ![c] = "MTX"]
      /\ UNCHANGED <<prio_base, block_code, join_sem, cpuVars>>
      /\ block_code' = block_code
  <2>1. hung' \in BOOLEAN
    BY DEF os_mtx_lock_wait, BoostLoops
  <2> QED BY <2>1 DEF os_mtx_lock_wait, MayLock, InTask, os_task_block_switch
<1>2. /\ SchedCore /\ MtxTypeOK /\ c \in Task /\ owner \in [Mutex -> Task \cup {NULL}]
      /\ DOMAIN block_type = Task /\ pc \in [Task -> Label]
      /\ tq.task_queue[c] = NULL /\ NULL \notin Mutex /\ m \in ObjectQueue
      /\ \A o \in Mutex : OwnerOK(o) /\ FreeOK(o)
  BY MutexQueues DEF MtxInv, MtxTypeOK, SchedCore, TypeOK, InPlace
<1>3. Reprioritised(s)
  BY BoostProperties
<1> HIDE DEF s
<1>4. /\ SchedCore' /\ BlockEffect(m, "mtx_wait") /\ NotOutranked(tq', task_current')
      /\ tq'.prio_current = s.prio_current
  <2>1. "mtx_wait" \in WaitLabel \ JoinLabel
    BY DEF WaitLabel, JoinLabel
  <2> QED BY <1>1, <1>2, <1>3, <2>1, BlockStepUnlocked
<1>5. MtxTypeOK' /\ lock_arg'[c] = m /\ \A t \in Task \ {c} : lock_arg'[t] = lock_arg[t]
  BY <1>1, <1>2, <1>4 DEF MtxTypeOK, SchedCore
<1>6. ASSUME NEW t \in Task \ {c}
      PROVE  /\ WaiterOK(t)' /\ ResultOK(t)'
             /\ \A o \in Mutex : tq'.task_queue[t] = o <=> tq.task_queue[t] = o
  <2>1. QuietTask(t)
    BY <1>1, <1>2, <1>4 DEF BlockEffect, QuietTask
  <2> QED BY <1>1, <1>4, <1>5, <2>1, QuietWaiter
<1>7. /\ tq'.task_queue[c] = m /\ tq'.state[c] = "WAIT" /\ pc'[c] = "mtx_wait"
      /\ block_type'[c] = "MTX"
  BY <1>1, <1>2, <1>4 DEF BlockEffect
<1>8. ASSUME NEW t \in Task, t = c PROVE WaiterOK(t)' /\ ResultOK(t)'
  BY <1>5, <1>7, <1>8 DEF WaiterOK, ResultOK, JoinLabel
<1>9. Blocks(m)
  BY <1>1, <1>2, <1>6, <1>7 DEF Blocks
<1>10. ASSUME NEW o \in Mutex PROVE OwnerOK(o)' /\ FreeOK(o)'
  <2>1. \A t \in Task : tq'.task_queue[t] = o => tq.task_queue[t] = o \/ (t = c /\ o = m)
    BY <1>9 DEF Blocks
  <2>2. owner[o] # NULL => owner[o] \in Task /\ tq'.state[owner[o]] \in Alive
    <3> SUFFICES ASSUME owner[o] # NULL, owner[o] # c PROVE tq'.state[owner[o]] \in Alive
      BY <1>2, <1>7 DEF Alive
    <3>1. owner[o] \in Task \ {c} /\ tq.state[owner[o]] \in Alive
      BY <1>2 DEF OwnerOK
    <3> QED BY <1>4, <3>1 DEF BlockEffect, SameLife, Alive, Runnable
  <2> QED BY <1>1, <1>2, <2>1, <2>2 DEF OwnerOK, FreeOK
<1>11. InOrder'
  <2> SUFFICES ASSUME Ordered, NEW t \in Task, NEW n \in Mutex, tq'.task_queue[t] = n,
                      NEW o \in Mutex, owner[o] = t
               PROVE  Rank[o] < Rank[n]
    BY <1>1 DEF InOrder, RanksRise, mtx_list
  <2>1. CASE t = c
    BY <1>1, <1>7, <2>1 DEF mtx_list
  <2>2. CASE t # c
    BY <1>6, <2>2 DEF MtxInv, InOrder, RanksRise, mtx_list
  <2> QED BY <2>1, <2>2
<1> QED BY <1>4, <1>5, <1>6, <1>8, <1>9, <1>10, <1>11 DEF MtxInv, s

\* os_mtx_lock returns.
LEMMA WokenKeeps ==
    ASSUME MtxInv, os_mtx_lock_woken
    PROVE  MtxInv' /\ UNCHANGED owner /\ tq'.task_queue = tq.task_queue
<1> DEFINE c == task_current
<1>1. /\ pc[c] = "mtx_wait" /\ pc' = [pc EXCEPT ![c] = "run"]
      /\ tq' = [tq EXCEPT !.state[c] = "RUNNING"]
      /\ UNCHANGED <<tcbVars, task_current, cpuVars, deferred>>
      /\ block_type' = block_type /\ block_code' = block_code
      /\ owner' = owner /\ recur' = recur /\ live' = live /\ lock_arg' = lock_arg
      /\ depth' = depth /\ hung' = hung
  BY DEF os_mtx_lock_woken, mtxVars, tcbVars
<1>2. /\ SchedCore /\ MtxTypeOK /\ c \in Task /\ owner \in [Mutex -> Task \cup {NULL}]
      /\ pc \in [Task -> Label] /\ tq.task_queue[c] = NULL
      /\ \A o \in Mutex : OwnerOK(o) /\ FreeOK(o)
  BY DEF MtxInv, MtxTypeOK, SchedCore, TypeOK, InPlace
<1>3. SchedCore' /\ SameBut(tq, tq') /\ tq'.task_queue = tq.task_queue
  <2>1. Resumes
    BY <1>1 DEF Resumes, JoinLabel
  <2> QED BY <1>2, <2>1, ResumeStep
<1>4. MtxTypeOK'
  BY <1>1, <1>2, <1>3 DEF MtxTypeOK, SchedCore
<1>5. ASSUME NEW t \in Task PROVE WaiterOK(t)' /\ ResultOK(t)'
  <2>1. CASE t = c
    <3>1. pc'[t] = "run" /\ tq'.task_queue[t] = NULL
      BY <1>1, <1>2, <1>3, <2>1
    <3> QED BY <3>1, MutexQueues, NullAssumption DEF WaiterOK, ResultOK, JoinLabel, ObjectQueue
  <2>2. CASE t # c
    <3>1. QuietTask(t)
      BY <1>1, <1>2, <1>3, <2>2 DEF QuietTask, SameObject
    <3> QED BY <1>1, <1>3, <3>1, QuietWaiter
  <2> QED BY <2>1, <2>2
<1>6. ASSUME NEW o \in Mutex PROVE OwnerOK(o)' /\ FreeOK(o)'
  <2>1. owner[o] # NULL => owner[o] \in Task /\ tq'.state[owner[o]] \in Alive
    BY <1>2, <1>3 DEF OwnerOK, SameBut, Runnable, Alive
  <2> QED BY <1>1, <1>2, <1>3, <2>1, QuietMutex
<1>7. InOrder'
  BY <1>1, <1>3 DEF MtxInv, InOrder, RanksRise, mtx_list
<1> QED BY <1>1, <1>3, <1>4, <1>5, <1>6, <1>7 DEF MtxInv

---------------------------------------------------------------------------
(* The invariant and the refinement, step by step.                         *)

LEMMA MtxInitHolds == MtxInit => MtxInv
<1> SUFFICES ASSUME MtxInit PROVE MtxInv
  OBVIOUS
<1>1. SchedCore
  BY InitHolds DEF MtxInit, SchedInv
<1>2. MtxTypeOK
  <2>1. 0 \in 0 .. (RECUR_MOD - 1) /\ 0 \in Nat
    BY RecurAssumption
  <2> QED BY <1>1, <2>1 DEF MtxInit, MtxTypeOK, SchedCore
<1>3. ASSUME NEW t \in Task PROVE WaiterOK(t) /\ ResultOK(t)
  <2>1. tq.task_queue[t] = NULL /\ pc[t] \in {"boot", "run"}
    BY DEF MtxInit, Init
  <2> QED BY <2>1, MutexQueues, NullAssumption DEF WaiterOK, ResultOK, JoinLabel, ObjectQueue
<1>4. ASSUME NEW m \in Mutex PROVE OwnerOK(m) /\ FreeOK(m)
  <2>1. owner[m] = NULL /\ recur[m] = 0 /\ depth[m] = 0 /\ \A t \in Task : tq.task_queue[t] = NULL
    BY DEF MtxInit, Init
  <2> QED BY <2>1, MutexQueues DEF OwnerOK, FreeOK
<1>5. InOrder
  <2>1. ~hung /\ \A t \in Task : tq.task_queue[t] = NULL
    BY DEF MtxInit, Init
  <2> QED BY <2>1, MutexQueues DEF InOrder, RanksRise
<1> QED BY <1>1, <1>2, <1>3, <1>4, <1>5 DEF MtxInv

\* What any step may do to the owners and the waiters.
NothingMoves ==
    /\ owner' = owner
    /\ \A t \in Task, o \in Mutex : tq'.task_queue[t] = o <=> tq.task_queue[t] = o

Takes(m) ==
    /\ owner[m] = NULL
    /\ owner' = [owner EXCEPT ![m] = task_current]
    /\ tq' = tq

MtxEffect ==
    \/ NothingMoves
    \/ \E m \in Mutex : Takes(m) \/ Blocks(m) \/ Unlocked(m) \/ Destroys(m)

LEMMA MtxStep == MtxInv /\ MtxNext => MtxInv' /\ MtxEffect
<1> SUFFICES ASSUME MtxInv, MtxNext PROVE MtxInv' /\ MtxEffect
  OBVIOUS
<1>1. CASE SchedStep
  BY <1>1, SchedStepKeeps DEF SchedStep, mtxVars, MtxEffect, NothingMoves
<1>2. CASE os_mtx_lock_woken
  BY <1>2, WokenKeeps DEF MtxEffect, NothingMoves
<1>3. ASSUME NEW m \in Mutex,
             \/ os_mtx_create(m) \/ os_mtx_destroy(m)
             \/ os_mtx_lock_free(m) \/ os_mtx_lock_again(m) \/ os_mtx_lock_wait(m)
             \/ Unlocks(m)
      PROVE  MtxInv' /\ MtxEffect
  <2>1. CASE os_mtx_create(m)
    <3>1. NothingMoves
      BY <2>1 DEF os_mtx_create, vars, NothingMoves
    <3> QED BY <2>1, <3>1, CreateKeeps DEF MtxEffect
  <2>2. CASE os_mtx_destroy(m)
    BY <2>2, DestroyKeeps DEF MtxEffect
  <2>3. CASE os_mtx_lock_free(m)
    <3>1. Takes(m)
      BY <2>3 DEF os_mtx_lock_free, vars, Takes
    <3>2. MtxEffect
      BY <3>1 DEF MtxEffect
    <3> QED BY <2>3, <3>2, LockFreeKeeps
  <2>4. CASE os_mtx_lock_again(m)
    <3>1. NothingMoves
      BY <2>4 DEF os_mtx_lock_again, vars, NothingMoves
    <3> QED BY <2>4, <3>1, LockAgainKeeps DEF MtxEffect
  <2>5. CASE os_mtx_lock_wait(m) /\ BoostLoops(m)
    <3>1. MtxInv' /\ UNCHANGED <<owner, vars>>
      BY <2>5, LockHangs
    <3>2. NothingMoves
      BY <3>1 DEF vars, NothingMoves
    <3> QED BY <3>1, <3>2 DEF MtxEffect
  <2>6. CASE os_mtx_lock_wait(m) /\ ~BoostLoops(m)
    <3>1. MtxInv' /\ Blocks(m)
      BY <2>6, LockBlocks
    <3>2. MtxEffect
      BY <3>1 DEF MtxEffect
    <3> QED BY <3>1, <3>2
  <2>7. CASE os_mtx_unlock_nested(m)
    <3>1. NothingMoves
      BY <2>7 DEF os_mtx_unlock_nested, vars, NothingMoves
    <3> QED BY <2>7, <3>1, UnlockNestedKeeps DEF MtxEffect
  <2>8. CASE os_mtx_unlock_last(m)
    BY <2>8, UnlockLastKeeps DEF MtxEffect
  <2> QED BY <1>3, <2>1, <2>2, <2>3, <2>4, <2>5, <2>6, <2>7, <2>8 DEF Unlocks
<1> QED BY <1>1, <1>2, <1>3 DEF MtxNext

LEMMA MtxStutter == MtxInv /\ UNCHANGED allVars => MtxInv'
<1> SUFFICES ASSUME MtxInv, UNCHANGED allVars PROVE MtxInv'
  OBVIOUS
<1>1. SchedCore'
  BY StutterStep DEF MtxInv, allVars
<1> QED BY <1>1 DEF MtxInv, allVars, vars, mtxVars, MtxTypeOK, SchedCore, WaiterOK, ResultOK,
                    OwnerOK, FreeOK, InOrder, RanksRise, mtx_list

\* MtxInv is an invariant of the mutexes.
THEOREM MtxInvariant == MtxSpec => []MtxInv
<1> QED BY MtxInitHolds, MtxStep, MtxStutter, PTL DEF MtxSpec

\* The fields of the mutexes have their types: recur stays in its range, and
\* an owner is a task or NULL.
THEOREM MtxTypeCorrect == MtxSpec => []MtxTypeOK
<1>1. MtxInv => MtxTypeOK
  BY DEF MtxInv
<1> QED BY <1>1, MtxInvariant, PTL

\* The task queues stay coherent under the reprioritisation of os_mtx.c: a
\* waiting or ready task that inherits a priority moves to the bucket of it.
THEOREM MtxQueuesCoherent == MtxSpec => []QueuesCoherent
<1>1. MtxInv => QueuesCoherent
  BY DEF MtxInv, SchedCore, InPlace, QueuesCoherent
<1> QED BY <1>1, MtxInvariant, PTL

\* os_mtx_lock returns OS_OK exactly to the owner of the mutex, however the
\* hand-over, a destruction and preemption interleave before the task runs.
THEOREM LockResultHolds == MtxSpec => []LockResultIsTrue
<1>1. MtxInv => LockResultIsTrue
  BY DEF MtxInv, ResultOK, LockResultIsTrue
<1> QED BY <1>1, MtxInvariant, PTL

\* Nobody sleeps in os_mtx_lock on a mutex without an owner that can unlock it.
THEOREM WaitersAreOwned == MtxSpec => []WaitersHaveAnOwner
<1>1. MtxInv => WaitersHaveAnOwner
  <2> SUFFICES ASSUME MtxInv, NEW m \in Mutex, Waiters(m) # {}
               PROVE  /\ live[m] /\ owner[m] # NULL
                      /\ tq.state[owner[m]] \in {"RUNNING", "READY", "WAIT"}
                      /\ owner[m] \notin Waiters(m)
    BY DEF WaitersHaveAnOwner
  <2>1. OwnerOK(m) /\ FreeOK(m)
    BY DEF MtxInv
  <2>2. owner[m] # NULL
    BY <2>1 DEF FreeOK, Waiters, OnQueue
  <2> QED BY <2>1, <2>2 DEF OwnerOK, Waiters, OnQueue, Alive
<1> QED BY <1>1, MtxInvariant, PTL

\* The walk of os_mtx_lock_prio_boost ends if the tasks take their mutexes in
\* one order: the ranks rise along the chain, so it has no circle.
THEOREM BoostTerminates == ASSUME Ordered PROVE MtxSpec => []BoostEnds
<1>1. MtxInv => BoostEnds
  BY DEF MtxInv, InOrder, BoostEnds
<1> QED BY <1>1, MtxInvariant, PTL

\* A mutex is free only when each os_mtx_lock was undone by an os_mtx_unlock,
\* as long as nobody locks it more often than recur can count.
THEOREM HeldWhileLocked == ASSUME MaxRecur < RECUR_MOD PROVE MtxSpec => []HeldUntilLastUnlock
<1>1. MtxInv => HeldUntilLastUnlock
  BY DEF MtxInv, FreeOK, HeldUntilLastUnlock
<1> QED BY <1>1, MtxInvariant, PTL

---------------------------------------------------------------------------
(* Refinement.                                                             *)

\* Each effect is a step of AbstractMutex.
LEMMA EffectMaps ==
    ASSUME MtxInv, MtxEffect
    PROVE  Abstract!ANext \/ UNCHANGED <<owner, [m \in Mutex |-> Waiters(m)]>>
<1> DEFINE w == [m \in Mutex |-> Waiters(m)]
<1>0. PICK c \in Task : c = task_current
  BY DEF MtxInv, SchedCore, TypeOK
<1>1. /\ w = [m \in Mutex |-> {t \in Task : tq.task_queue[t] = m}]
      /\ w' = [m \in Mutex |-> {t \in Task : tq'.task_queue[t] = m}]
      /\ \A m \in Mutex : w[m] = Waiters(m)
  BY DEF Waiters, OnQueue
<1>2. /\ owner \in [Mutex -> Task \cup {NULL}] /\ NULL \notin Mutex /\ tq.task_queue[c] = NULL
      /\ \A m \in Mutex : FreeOK(m)
  BY <1>0, MutexQueues DEF MtxInv, MtxTypeOK, SchedCore, InPlace
<1> SUFFICES Abstract!ANext \/ (owner' = owner /\ w' = w)
  OBVIOUS
<1> HIDE DEF w
<1>3. CASE NothingMoves
  <2>1. \A m \in Mutex : w'[m] = w[m]
    BY <1>1, <1>3 DEF NothingMoves
  <2> QED BY <1>1, <1>3, <2>1 DEF NothingMoves
<1>4. ASSUME NEW m \in Mutex, Takes(m) PROVE Abstract!ANext
  <2>1. \A o \in Mutex : w'[o] = w[o]
    BY <1>1, <1>4 DEF Takes
  <2>2. w' = w /\ w[m] = {}
    BY <1>1, <1>2, <1>4, <2>1 DEF Takes, FreeOK
  <2>3. Abstract!Acquire(c, m)
    BY <1>0, <1>4, <2>2 DEF Takes, Abstract!Acquire, w
  <2> QED BY <1>0, <2>3 DEF Abstract!ANext
<1>5. ASSUME NEW m \in Mutex, Blocks(m) PROVE Abstract!ANext
  <2>1. \A o \in Mutex : w'[o] = IF o = m THEN w[o] \cup {c} ELSE w[o]
    BY <1>0, <1>1, <1>5 DEF Blocks
  <2>2. w' = [w EXCEPT ![m] = @ \cup {c}] /\ \A o \in Mutex : c \notin w[o]
    BY <1>1, <1>2, <2>1
  <2>3. Abstract!Wait(c, m)
    BY <1>0, <1>5, <2>2 DEF Blocks, Abstract!Wait, w
  <2> QED BY <1>0, <2>3 DEF Abstract!ANext
<1>6. ASSUME NEW m \in Mutex, Unlocked(m) PROVE Abstract!ANext
  <2>1. CASE /\ owner' = [owner EXCEPT ![m] = NULL]
             /\ Waiters(m) = {}
             /\ \A t \in Task, o \in Mutex : tq'.task_queue[t] = o <=> tq.task_queue[t] = o
    <3>1. \A o \in Mutex : w'[o] = w[o]
      BY <1>1, <2>1
    <3>2. w' = w /\ w[m] = {}
      BY <1>1, <2>1, <3>1
    <3>3. Abstract!Release(m)
      BY <1>6, <2>1, <3>2 DEF Unlocked, Abstract!Release, w
    <3> QED BY <3>3 DEF Abstract!ANext
  <2>2. ASSUME NEW n \in Waiters(m), owner' = [owner EXCEPT ![m] = n],
               \A t \in Task, o \in Mutex :
                  tq'.task_queue[t] = o <=> tq.task_queue[t] = o /\ t # n
        PROVE  Abstract!ANext
    <3>1. n \in w[m] /\ n \in Task
      BY <1>1
    <3>2. \A o \in Mutex : w'[o] = IF o = m THEN w[o] \ {n} ELSE w[o]
      BY <1>1, <2>2, <3>1
    <3>3. w' = [w EXCEPT ![m] = @ \ {n}]
      BY <1>1, <3>2
    <3>4. Abstract!HandOver(n, m)
      BY <1>6, <2>2, <3>1, <3>3 DEF Unlocked, Abstract!HandOver, w
    <3> QED BY <3>1, <3>4 DEF Abstract!ANext
  <2> QED BY <1>6, <2>1, <2>2 DEF Unlocked
<1>7. ASSUME NEW m \in Mutex, Destroys(m) PROVE Abstract!ANext
  <2>1. \A o \in Mutex : w'[o] = IF o = m THEN {} ELSE w[o]
    BY <1>1, <1>7 DEF Destroys
  <2>2. w' = [w EXCEPT ![m] = {}]
    BY <1>1, <2>1
  <2>3. Abstract!Destroy(m)
    BY <1>7, <2>2 DEF Destroys, Abstract!Destroy, w
  <2> QED BY <2>3 DEF Abstract!ANext
<1> QED BY <1>3, <1>4, <1>5, <1>6, <1>7 DEF MtxEffect

\* The mutexes implement AbstractMutex: whatever the order of lock, unlock,
\* preemption and destruction, a mutex has one holder, is handed over to a
\* waiter as long as there is one, and nobody waits for two of them.
THEOREM MutexRefines == MtxSpec => ImplementsAbstractMutex
<1> DEFINE abs == <<owner, [m \in Mutex |-> Waiters(m)]>>
<1>1. MtxInit => Abstract!AInit
  <2> SUFFICES ASSUME MtxInit PROVE Abstract!AInit
    OBVIOUS
  <2>1. \A m \in Mutex : Waiters(m) = {}
    BY MutexQueues DEF MtxInit, Init, Waiters, OnQueue
  <2> QED BY <2>1 DEF MtxInit, Abstract!AInit
<1>2. MtxInv /\ MtxNext => Abstract!ANext \/ UNCHANGED abs
  BY MtxStep, EffectMaps
<1>3. UNCHANGED allVars => UNCHANGED abs
  BY DEF allVars, vars, mtxVars, Waiters, OnQueue
<1> QED BY <1>1, <1>2, <1>3, MtxInvariant, PTL DEF MtxSpec, ImplementsAbstractMutex, Abstract!ASpec

---------------------------------------------------------------------------
(* Priority inheritance, for tasks that do not hold the scheduler lock.    *)

\* w waits for a mutex that t owns.
WaitsFor(w, t) == tq.task_queue[w] \in Mutex /\ owner[tq.task_queue[w]] = t

\* The priority of t is its base priority or that of a task that waits for it,
\* whichever is the highest.
InheritsOK(t) ==
    tq.state[t] \in Alive =>
        /\ prio_base[t] <= tq.prio_current[t]
        /\ \A w \in Task : WaitsFor(w, t) => tq.prio_current[w] <= tq.prio_current[t]
        /\ \/ tq.prio_current[t] = prio_base[t]
           \/ \E w \in Task : WaitsFor(w, t) /\ tq.prio_current[w] = tq.prio_current[t]

\* The running task is not outranked once os_start has scheduled.  This is why
\* os_mtx_lock_prio_boost need not look at the priorities further down the
\* chain: the task at its end is READY.
Ranked == pc[task_current] \in {"boot", "start"} \/ NotOutranked(tq, task_current)

\* An owner waits for nothing but a mutex, so every chain ends at a task that
\* can run.
OwnersRun ==
    \A m \in Mutex : owner[m] # NULL /\ tq.state[owner[m]] = "WAIT" =>
        tq.task_queue[owner[m]] \in Mutex

InheritInv ==
    /\ MtxInv
    /\ \A t \in Task : lock_depth[t] = 0 /\ InheritsOK(t)
    /\ Ranked
    /\ OwnersRun

\* Without open locks os_schedule is skipped before os_start only.
LEMMA NoLocksNext ==
    ASSUME SchedCore', \A t \in Task : lock_depth'[t] = 0, sched_lock' # 0
    PROVE  pc'[task_current'] = "boot"
<1>1. OpenLocks' = {}
  <2>1. OpenLocks' = UNION {{t} \X (1 .. lock_depth'[t]) : t \in Task}
    BY DEF OpenLocks
  <2>2. \A t \in Task : {t} \X (1 .. lock_depth'[t]) = {}
    OBVIOUS
  <2> QED BY <2>1, <2>2
<1>2. Cardinality(OpenLocks') = 0
  BY <1>1, FS_EmptySet
<1> QED BY <1>2 DEF SchedCore, LocksMatch, LocksAreCounted

\* The scheduler compares the priorities whenever it moves a task.
LEMMA SchedStepRanks ==
    ASSUME MaxLock = 0, InheritInv, SchedStep, SchedCore'
    PROVE  Ranked' /\ \A t \in Task : lock_depth'[t] = 0
<1> DEFINE c == task_current
           same == /\ c' = c /\ tq'.task_queue = tq.task_queue
                   /\ tq'.prio_current = tq.prio_current
<1>1. /\ SchedCore /\ c \in Task /\ tq \in TaskQueueType /\ InPlace(tq, c)
      /\ \A t \in Task : lock_depth[t] = 0
      /\ Ranked /\ pc \in [Task -> Label] /\ isr_nesting \in Nat
  BY DEF InheritInv, MtxInv, SchedCore, TypeOK
<1>2. ~os_scheduler_lock /\ ~Unlock
  BY <1>1 DEF os_scheduler_lock, Unlock, os_scheduler_unlock
<1>3. \A t \in Task : lock_depth'[t] = 0
  <2>1. lock_depth' = lock_depth
    BY <1>2 DEF SchedStep, Stay, Calls, Leave, Create, os_task_create, os_start, os_start_schedule,
           os_scheduler_unlock_schedule, os_yield, Reap, os_task_join_reap, os_task_join_woken,
           os_task_join_end, os_schedule_return, arch_contextstore_i, arch_contextrestore_i,
           os_tick, Join, os_task_join_wait, os_task_exit, cpuVars
  <2> QED BY <1>1, <2>1
<1> SUFFICES Ranked'
  BY <1>3
<1>4. sched_lock' # 0 => Ranked'
  BY <1>3, NoLocksNext DEF Ranked
<1>5. ASSUME same, pc'[c'] \in {"boot", "start"} \/ pc[c] \notin {"boot", "start"}
      PROVE  Ranked'
  BY <1>1, <1>5 DEF Ranked, NotOutranked
<1>6. NotOutranked(tq', c') => Ranked'
  BY DEF Ranked
<1>7. ASSUME NEW s, NEW ret, NEW h \in {0, 1}, os_schedule(s, ret, h), isr_nesting <= 1
      PROVE  deferred' => Ranked'
  BY <1>4, <1>7 DEF os_schedule
<1>8. Frame
  BY <1>1, StayStep, LeaveStep DEF SchedStep, StayEffect, LeaveEffect
<1>9. CASE os_start_schedule \/ (os_tick /\ isr_nesting <= 1)
  <2>1. PICK ret \in Label, h \in {0, 1} : os_schedule(tq, ret, h)
    BY <1>1, <1>9 DEF Label, Interruptible, os_start_schedule, os_tick
  <2>2. deferred' \/ NotOutranked(tq', c')
    BY <1>1, <2>1, ScheduleStep DEF Scheduled
  <2>3. isr_nesting <= 1
    BY <1>9 DEF os_start_schedule
  <2> QED BY <1>6, <1>7, <2>1, <2>2, <2>3
<1>10. CASE os_tick /\ ~(isr_nesting <= 1)
  <2>1. tq' = tq /\ c' = c /\ pc'[c] = pc[c]
    BY <1>1, <1>10 DEF os_tick, os_schedule
  <2> QED BY <1>5, <2>1
<1>11. CASE os_start \/ arch_contextstore_i \/ arch_contextrestore_i
  <2>1. tq' = tq /\ c' = c /\ (pc'[c] = pc[c] \/ pc'[c] = "start")
    BY <1>1, <1>11 DEF os_start, arch_contextstore_i, arch_contextrestore_i
  <2> QED BY <1>5, <2>1
<1>12. CASE Reap \/ os_task_join_end \/ os_schedule_return
  <2>1. same /\ pc[c] \in {"run", "join_end", "sched"}
    BY <1>1, <1>12 DEF Reap, os_task_join_reap, MayJoin, InTask, os_task_join_end,
           os_schedule_return, TaskQueueType
  <2> QED BY <1>5, <2>1
<1>13. CASE Create \/ os_scheduler_unlock_schedule \/ os_yield \/ os_task_join_woken
  <2>1. /\ pc[c] \in {"boot", "run", "unlock", "join_wait"}
        /\ \E s, ret : os_schedule(s, ret, 0) \/ os_schedule(s, ret, 1)
    BY <1>13 DEF Create, os_task_create, os_scheduler_unlock_schedule, os_yield, InTask,
           os_task_join_woken
  <2>2. isr_nesting = 0 /\ sched_lock' = sched_lock
    BY <1>13 DEF Create, os_task_create, os_scheduler_unlock_schedule, os_yield, InTask,
           os_task_join_woken, cpuVars
  <2>3. CASE deferred'
    BY <1>7, <2>1, <2>2, <2>3
  <2>4. CASE same
    <3>1. pc[c] = "boot" => sched_lock # 0
      BY <1>1, FS_CardinalityType DEF SchedCore, LocksMatch, LocksAreCounted
    <3> QED BY <1>4, <1>5, <2>1, <2>2, <2>4, <3>1
  <2> QED BY <1>6, <1>8, <2>3, <2>4 DEF Frame
<1>14. CASE Leave
  <2>1. pc[c] = "run" /\ deferred' = FALSE
    BY <1>14 DEF Leave, Join, os_task_join_wait, MayJoin, InTask, os_task_exit,
           os_task_block_switch, SwitchAway
  <2> QED BY <1>5, <1>6, <1>8, <2>1 DEF Frame
<1> QED BY <1>2, <1>3, <1>9, <1>10, <1>11, <1>12, <1>13, <1>14 DEF SchedStep, Stay, Calls

\* A task that keeps its waiters, and they their priorities.
LEMMA InheritsKept ==
    ASSUME NEW t \in Task, InheritsOK(t), tq.state[t] \in Alive,
           prio_base'[t] = prio_base[t], tq'.prio_current[t] = tq.prio_current[t],
           \A w \in Task : /\ WaitsFor(w, t)' <=> WaitsFor(w, t)
                           /\ WaitsFor(w, t) => tq'.prio_current[w] = tq.prio_current[w]
    PROVE  InheritsOK(t)'
<1>1. \A w \in Task : /\ WaitsFor(w, t)' <=> WaitsFor(w, t)
                      /\ WaitsFor(w, t) => tq'.prio_current[w] = tq.prio_current[w]
  OBVIOUS
<1> HIDE DEF WaitsFor
<1> QED BY <1>1 DEF InheritsOK

LEMMA SchedStepInherits ==
    ASSUME MaxLock = 0, InheritInv, SchedStep
    PROVE  InheritInv'
<1> DEFINE c == task_current
<1>1. /\ MtxInv /\ SchedCore /\ owner' = owner /\ tq.prio_current \in [Task -> Prio]
      /\ prio_base \in [Task -> Prio] /\ owner \in [Mutex -> Task \cup {NULL}]
      /\ InPlace(tq, c) /\ c \in Task
      /\ \A m \in Mutex : OwnerOK(m)
      /\ (\A t \in Task : InheritsOK(t)) /\ OwnersRun
  BY DEF InheritInv, MtxInv, MtxTypeOK, SchedCore, TypeOK, TaskQueueType, SchedStep, mtxVars
<1>2. MtxInv' /\ \A t \in Task : \A m \in Mutex : tq'.task_queue[t] = m <=> tq.task_queue[t] = m
  BY <1>1, SchedStepKeeps
<1>3. Ranked' /\ \A t \in Task : lock_depth'[t] = 0
  BY <1>2, SchedStepRanks DEF MtxInv
<1>4. \A t \in Task, w \in Task : WaitsFor(w, t)' <=> WaitsFor(w, t)
  BY <1>1, <1>2 DEF WaitsFor
<1>5. \A t \in Task, w \in Task : WaitsFor(w, t) => tq.state[w] = "WAIT" /\ tq.state[t] \in Alive
  BY <1>1, MutexAssumption, NullAssumption DEF WaitsFor, InPlace, OwnerOK
<1>6. \/ Stay /\ (Steady \/ \E t \in Task : Born(t) \/ Freed(t))
      \/ mtx_list(c) = {} /\ (Dies \/ \E u \in Task : Waits(u))
  BY <1>1, StayStep, LeaveStep DEF SchedStep, StayEffect, LeaveEffect
<1>7. ASSUME NEW t \in Task PROVE InheritsOK(t)'
  <2>1. CASE /\ tq'.prio_current = tq.prio_current /\ prio_base' = prio_base
             /\ tq'.state[t] \in Alive => tq.state[t] \in Alive
    <3> SUFFICES ASSUME tq'.state[t] \in Alive PROVE InheritsOK(t)'
      BY DEF InheritsOK
    <3> QED BY <1>1, <1>4, <2>1, InheritsKept
  <2>2. ASSUME NEW b \in Task, Born(b) PROVE InheritsOK(t)'
    <3>1. PICK p \in Prio : /\ tq'.prio_current = [tq.prio_current EXCEPT ![b] = p]
                            /\ prio_base' = [prio_base EXCEPT ![b] = p]
      BY <2>2 DEF Born
    <3>2. \A w \in Task : ~WaitsFor(w, b) /\ ~WaitsFor(b, w)
      BY <1>5, <2>2 DEF Born, Alive
    <3>3. \A w \in Task \ {b} : /\ tq'.prio_current[w] = tq.prio_current[w]
                                /\ prio_base'[w] = prio_base[w]
      BY <1>1, <3>1
    <3>4. CASE t = b
      <4>1. tq'.prio_current[b] = p /\ prio_base'[b] = p /\ p \in Int
        BY <1>1, <3>1, PrioAssumption DEF Prio
      <4>2. \A w \in Task : ~WaitsFor(w, b)'
        BY <1>4, <3>2
      <4> QED BY <3>4, <4>1, <4>2 DEF InheritsOK
    <3>5. CASE t # b
      <4> SUFFICES ASSUME tq'.state[t] \in Alive PROVE InheritsOK(t)'
        BY DEF InheritsOK
      <4>1. tq.state[t] \in Alive
        BY <2>2, <3>5 DEF Born, SameLife, Runnable, Alive
      <4>2. \A w \in Task : WaitsFor(w, t) => w # b
        BY <3>2
      <4> QED BY <1>1, <1>4, <3>3, <3>5, <4>1, <4>2, InheritsKept
    <3> QED BY <3>4, <3>5
  <2>3. Steady => /\ tq'.prio_current = tq.prio_current /\ prio_base' = prio_base
                  /\ tq'.state[t] \in Alive => tq.state[t] \in Alive
    BY DEF Steady, SameLife, Runnable, Alive
  <2>4. ASSUME NEW u \in Task, Freed(u) \/ Waits(u)
        PROVE  /\ tq'.prio_current = tq.prio_current /\ prio_base' = prio_base
               /\ tq'.state[t] \in Alive => tq.state[t] \in Alive
    BY <1>1, <2>4 DEF Freed, Waits, SameLife, Runnable, Alive, InPlace
  <2>5. Dies => /\ tq'.prio_current = tq.prio_current /\ prio_base' = prio_base
                /\ tq'.state[t] \in Alive => tq.state[t] \in Alive
    BY <1>1 DEF Dies, SameLife, Runnable, Alive, InPlace
  <2> QED BY <1>6, <2>1, <2>2, <2>3, <2>4, <2>5
<1>8. OwnersRun'
  <2> SUFFICES ASSUME NEW m \in Mutex, owner[m] # NULL, tq'.state[owner[m]] = "WAIT"
               PROVE  tq'.task_queue[owner[m]] \in Mutex
    BY <1>1 DEF OwnersRun
  <2>1. owner[m] \in Task /\ tq.state[owner[m]] \in Alive
    BY <1>1 DEF OwnerOK
  <2>2. tq.state[owner[m]] = "WAIT"
    <3>1. CASE Steady \/ \E t \in Task : Born(t) \/ Freed(t)
      BY <2>1, <3>1 DEF Steady, Born, Freed, SameLife, Runnable, Alive
    <3>2. CASE mtx_list(c) = {} /\ (Dies \/ \E u \in Task : Waits(u))
      <4>1. owner[m] # c
        BY <3>2 DEF mtx_list
      <4> QED BY <2>1, <3>2, <4>1 DEF Dies, Waits, SameLife, Runnable
    <3> QED BY <1>6, <3>1, <3>2
  <2>3. tq.task_queue[owner[m]] \in Mutex
    BY <1>1, <2>2 DEF OwnersRun
  <2> QED BY <1>2, <2>1, <2>3
<1> QED BY <1>2, <1>3, <1>7, <1>8 DEF InheritInv

---------------------------------------------------------------------------
(* The functions of os_mtx.c that leave the priorities alone.              *)

\* The owner of a mutex that is free, or the count of locks, changes.
LEMMA CountingInherits ==
    ASSUME InheritInv, MtxInv', UNCHANGED vars,
           owner' = owner \/ \E m \in Mutex : /\ owner[m] = NULL
                                              /\ owner' = [owner EXCEPT ![m] = task_current]
    PROVE  InheritInv'
<1> DEFINE c == task_current
<1>1. /\ owner \in [Mutex -> Task \cup {NULL}] /\ (\A m \in Mutex : FreeOK(m)) /\ OwnersRun
      /\ tq.state[c] # "WAIT" /\ c \in Task /\ tq' = tq /\ prio_base' = prio_base
      /\ \A t \in Task : lock_depth'[t] = 0 /\ InheritsOK(t)
  BY DEF InheritInv, MtxInv, MtxTypeOK, SchedCore, InPlace, Runnable, vars
<1>2. Ranked'
  BY DEF InheritInv, Ranked, NotOutranked, vars
<1>3. \A t \in Task, w \in Task : WaitsFor(w, t)' <=> WaitsFor(w, t)
  BY <1>1, NullAssumption DEF WaitsFor, FreeOK
<1>4. ASSUME NEW t \in Task PROVE InheritsOK(t)'
  <2> SUFFICES ASSUME tq'.state[t] \in Alive PROVE InheritsOK(t)'
    BY DEF InheritsOK
  <2> QED BY <1>1, <1>3, InheritsKept
<1>5. OwnersRun'
  BY <1>1 DEF OwnersRun
<1> QED BY <1>1, <1>2, <1>4, <1>5 DEF InheritInv

LEMMA WokenInherits ==
    ASSUME InheritInv, os_mtx_lock_woken
    PROVE  InheritInv'
<1> DEFINE c == task_current
<1>1. /\ MtxInv /\ MtxInv' /\ owner' = owner /\ tq'.task_queue = tq.task_queue
      /\ pc[c] = "mtx_wait" /\ tq' = [tq EXCEPT !.state[c] = "RUNNING"]
      /\ UNCHANGED <<prio_base, task_current, lock_depth>>
  BY WokenKeeps DEF InheritInv, os_mtx_lock_woken, tcbVars, cpuVars
<1>2. /\ c \in Task /\ SchedCore /\ OwnersRun /\ tq.state[c] \in Alive
      /\ \A t \in Task : lock_depth'[t] = 0 /\ InheritsOK(t)
      /\ NotOutranked(tq, c)
  BY <1>1 DEF InheritInv, MtxInv, SchedCore, InPlace, Runnable, Alive, Ranked
<1>3. /\ tq'.prio_current = tq.prio_current
      /\ tq'.state = [tq.state EXCEPT ![c] = "RUNNING"]
  BY <1>1, <1>2, MarkRunning
<1>4. Ranked'
  BY <1>1, <1>2, <1>3 DEF Ranked, NotOutranked
<1>5. tq.state \in [Task -> TaskState]
  BY <1>2 DEF SchedCore, InPlace, TaskQueueType
<1>6. ASSUME NEW t \in Task PROVE InheritsOK(t)'
  <2> SUFFICES ASSUME tq'.state[t] \in Alive PROVE InheritsOK(t)'
    BY DEF InheritsOK
  <2>1. tq.state[t] \in Alive
    BY <1>2, <1>3, <1>5
  <2>2. \A w \in Task : WaitsFor(w, t)' <=> WaitsFor(w, t)
    BY <1>1 DEF WaitsFor
  <2> QED BY <1>1, <1>2, <1>3, <2>1, <2>2, InheritsKept
<1>7. OwnersRun'
  BY <1>1, <1>2, <1>3, <1>5 DEF OwnersRun
<1> QED BY <1>1, <1>2, <1>4, <1>6, <1>7 DEF InheritInv

---------------------------------------------------------------------------
(* os_mtx_lock has to wait.                                                *)

\* The tasks that os_mtx_lock_prio_boost lifts to the priority of task_current:
\* with a task, whoever keeps it waiting; each one because it owns m or because
\* a task before it on the chain waits for it.
LEMMA BoostLifts ==
    ASSUME InheritInv, NEW m \in Mutex, owner[m] # NULL, pc[task_current] = "run",
           ~BoostLoops(m)
    PROVE  \E V \in SUBSET Task :
              /\ os_mtx_lock_prio_boost(m).prio_current =
                    [t \in Task |-> IF t \in V THEN tq.prio_current[task_current]
                                    ELSE tq.prio_current[t]]
              /\ \A t \in V : tq.prio_current[t] <= tq.prio_current[task_current]
              /\ \A w \in V, t \in Task : WaitsFor(w, t) => t \in V
              /\ \A t \in V : t = owner[m] \/ \E w \in V : WaitsFor(w, t)
              /\ owner[m] \in V \/ tq.prio_current[task_current] <= tq.prio_current[owner[m]]
<1> DEFINE c == task_current
           N == Cardinality(Task)
           chain == BlockingChain(m)
           p == tq.prio_current[c]
           V == {t \in Task : \E i \in 0 .. N : i < N /\ chain[i] = t}
           r == os_mtx_lock_prio_boost(m)
<1>1. /\ MtxInv /\ InPlace(tq, c) /\ c \in Task /\ NotOutranked(tq, c) /\ OwnersRun
      /\ owner \in [Mutex -> Task \cup {NULL}]
      /\ (\A o \in Mutex : OwnerOK(o)) /\ (\A t \in Task : InheritsOK(t))
      /\ \A t \in Task : tq.prio_current[t] \in Int
      /\ tq.prio_current \in [Task -> Prio]
  <2>1. tq.prio_current \in [Task -> Prio] /\ MtxInv
    BY DEF InheritInv, MtxInv, SchedCore, InPlace, TaskQueueType
  <2>2. \A t \in Task : tq.prio_current[t] \in Int
    BY <2>1, PrioAssumption DEF Prio
  <2> QED BY <2>1, <2>2 DEF InheritInv, MtxInv, MtxTypeOK, SchedCore, InPlace, Ranked
<1>2. CASE ~NeedsBoost(m)
  <2>1. r.prio_current = tq.prio_current
    BY <1>1, <1>2, BoostProperties
  <2>2. owner[m] \in Task /\ tq.prio_current[c] <= tq.prio_current[owner[m]]
    BY <1>1, <1>2 DEF NeedsBoost
  <2>3. tq.prio_current = [t \in Task |-> IF t \in {} THEN p ELSE tq.prio_current[t]]
    BY <1>1
  <2> HIDE DEF r
  <2> WITNESS {} \in SUBSET Task
  <2> QED BY <2>1, <2>2, <2>3 DEF r
<1>3. CASE NeedsBoost(m)
  <2>1. /\ N \in Nat /\ chain \in [0 .. N -> Task \cup {NULL}] /\ chain[0] = owner[m]
        /\ \A n \in 1 .. N : chain[n] = IF chain[n - 1] = NULL THEN NULL
                                        ELSE BlockedBy(chain[n - 1])
        /\ chain[N] = NULL
    BY <1>1, <1>3, ChainProperties DEF BoostLoops
  <2>2. r.prio_current = [t \in Task |-> IF \E i \in 0 .. N : i < N /\ chain[i] = t
                                         THEN p ELSE tq.prio_current[t]]
    BY <1>1, <1>3, BoostProperties
  <2>3. r.prio_current = [t \in Task |-> IF t \in V THEN p ELSE tq.prio_current[t]]
    BY <2>2
  <2> HIDE DEF N, chain, r
  <2>4. ASSUME NEW n \in 0 .. N, chain[n] # NULL
        PROVE  /\ n < N /\ n + 1 \in 0 .. N /\ chain[n] \in Task
               /\ chain[n + 1] = BlockedBy(chain[n])
    <3>1. n < N /\ n + 1 \in 1 .. N /\ (n + 1) - 1 = n
      BY <2>1, <2>4
    <3> QED BY <2>1, <2>4, <3>1
  <2>5. ASSUME NEW n \in 0 .. N, chain[n] # NULL, n # 0
        PROVE  n - 1 \in 0 .. N /\ chain[n - 1] # NULL /\ chain[n] = BlockedBy(chain[n - 1])
    <3>1. n \in 1 .. N /\ n - 1 \in 0 .. N
      BY <2>1, <2>5
    <3> QED BY <2>1, <2>5, <3>1
  <2>6. ASSUME NEW w \in Task, NEW t \in Task PROVE WaitsFor(w, t) <=> BlockedBy(w) = t
    BY <1>1, BlockedByProperties, NullAssumption DEF WaitsFor
  <2>7. ASSUME NEW n \in 0 .. N, chain[n] # NULL
        PROVE  tq.state[chain[n]] \in Alive /\ \E o \in Mutex : owner[o] = chain[n]
    <3>1. CASE n = 0
      BY <1>1, <2>1, <3>1 DEF OwnerOK
    <3>2. CASE n # 0
      <4>1. /\ chain[n - 1] \in Task /\ chain[n] = BlockedBy(chain[n - 1]) /\ chain[n] \in Task
        BY <2>4, <2>5, <2>7, <3>2
      <4>2. WaitsFor(chain[n - 1], chain[n])
        BY <2>6, <4>1
      <4> QED BY <1>1, <2>7, <4>2 DEF WaitsFor, OwnerOK
    <3> QED BY <3>1, <3>2
  <2>8. ASSUME NEW n \in 0 .. N, chain[n] # NULL PROVE tq.prio_current[chain[n]] <= p
    <3> DEFINE Low(k) == chain[k] # NULL => tq.prio_current[chain[k]] <= p
               P == {k \in 0 .. N : Low(N - k)}
    <3>1. 0 \in P
      BY <2>1
    <3>2. ASSUME NEW k \in 1 .. N, k - 1 \in P PROVE k \in P
      <4> DEFINE i == N - k
      <4>1. i \in 0 .. N /\ i + 1 = N - (k - 1) /\ Low(i + 1)
        BY <2>1, <3>2
      <4> SUFFICES ASSUME chain[i] # NULL PROVE tq.prio_current[chain[i]] <= p
        OBVIOUS
      <4>2. chain[i] \in Task /\ i + 1 \in 0 .. N /\ chain[i + 1] = BlockedBy(chain[i])
        BY <2>4, <4>1
      <4>3. CASE chain[i + 1] # NULL
        <5>1. chain[i + 1] \in Task /\ tq.state[chain[i + 1]] \in Alive
          BY <2>4, <2>7, <4>2, <4>3
        <5>2. WaitsFor(chain[i], chain[i + 1])
          BY <2>6, <4>2, <5>1
        <5>3. tq.prio_current[chain[i]] <= tq.prio_current[chain[i + 1]]
          BY <1>1, <4>2, <5>1, <5>2 DEF InheritsOK
        <5>4. tq.prio_current[chain[i + 1]] <= p
          BY <4>1, <4>3
        <5>5. /\ tq.prio_current[chain[i]] \in Int /\ tq.prio_current[chain[i + 1]] \in Int
              /\ p \in Int
          BY <1>1, <4>2, <5>1
        <5> QED BY <5>3, <5>4, <5>5
      <4>4. CASE chain[i + 1] = NULL
        <5>1. tq.task_queue[chain[i]] \notin Mutex
          BY <1>1, <4>2, <4>4, BlockedByProperties, NullAssumption
        <5>2. tq.state[chain[i]] # "WAIT" /\ tq.state[chain[i]] \in Alive
          BY <1>1, <2>7, <4>1, <5>1, NullAssumption DEF OwnersRun
        <5>3. chain[i] = c \/ tq.task_queue[chain[i]] = ready_queue
          BY <1>1, <4>2, <5>2 DEF InPlace, Alive
        <5> QED BY <1>1, <4>2, <5>3 DEF NotOutranked
      <4> QED BY <4>3, <4>4
    <3>3. 0 .. N \subseteq P
      <4> HIDE DEF P
      <4> QED BY <2>1, <3>1, <3>2, CountUp
    <3>4. N - n \in 0 .. N /\ N - (N - n) = n
      BY <2>1
    <3>5. Low(N - (N - n))
      BY <3>3, <3>4
    <3> QED BY <2>8, <3>4, <3>5
  <2>9. \A t \in V : tq.prio_current[t] <= p
    BY <2>8, NullAssumption
  <2>10. ASSUME NEW w \in V, NEW t \in Task, WaitsFor(w, t) PROVE t \in V
    <3>1. PICK i \in 0 .. N : i < N /\ chain[i] = w
      OBVIOUS
    <3>2. w \in Task /\ w # NULL /\ t # NULL
      BY NullAssumption
    <3>3. i + 1 \in 0 .. N /\ chain[i + 1] = t
      BY <2>4, <2>6, <2>10, <3>1, <3>2
    <3>4. i + 1 < N
      BY <2>4, <3>2, <3>3
    <3> QED BY <3>3, <3>4
  <2>11. ASSUME NEW t \in V PROVE t = owner[m] \/ \E w \in V : WaitsFor(w, t)
    <3>1. PICK i \in 0 .. N : i < N /\ chain[i] = t
      OBVIOUS
    <3>2. t \in Task /\ t # NULL
      BY NullAssumption
    <3>3. CASE i = 0
      BY <2>1, <3>1, <3>3
    <3>4. CASE i # 0
      <4>1. i - 1 \in 0 .. N /\ chain[i - 1] # NULL /\ t = BlockedBy(chain[i - 1])
        BY <2>5, <3>1, <3>2, <3>4
      <4>2. chain[i - 1] \in Task /\ i - 1 < N
        BY <2>4, <4>1
      <4>3. chain[i - 1] \in V
        BY <4>1, <4>2
      <4>4. WaitsFor(chain[i - 1], t)
        BY <2>6, <3>2, <4>1, <4>2
      <4> QED BY <4>3, <4>4
    <3> QED BY <3>3, <3>4
  <2>12. owner[m] \in V
    <3>1. 0 \in 0 .. N /\ chain[0] # NULL
      BY <2>1
    <3> QED BY <1>1, <2>1, <2>4, <3>1
  <2>13. V \in SUBSET Task
    OBVIOUS
  <2> HIDE DEF V
  <2> QED BY <2>3, <2>9, <2>10, <2>11, <2>12, <2>13 DEF r
<1> QED BY <1>2, <1>3

LEMMA BlockInherits ==
    ASSUME InheritInv, NEW m \in Mutex, os_mtx_lock_wait(m), ~BoostLoops(m)
    PROVE  InheritInv'
<1> DEFINE c == task_current
           p == tq.prio_current[c]
<1>1. /\ MtxInv /\ InPlace(tq, c) /\ c \in Task /\ OwnersRun /\ tq.task_queue[c] = NULL
      /\ owner \in [Mutex -> Task \cup {NULL}] /\ tq.state[c] \in Alive
      /\ (\A t \in Task : InheritsOK(t)) /\ (\A t \in Task : lock_depth[t] = 0)
      /\ NULL \notin Mutex /\ tq.prio_current \in [Task -> Prio] /\ prio_base \in [Task -> Prio]
  BY MutexQueues DEF InheritInv, MtxInv, MtxTypeOK, SchedCore, TypeOK, InPlace, Runnable, Alive,
                     TaskQueueType
<1>2. /\ pc[c] = "run" /\ owner[m] \notin {NULL, c} /\ owner' = owner
      /\ prio_base' = prio_base /\ lock_depth' = lock_depth
  BY DEF os_mtx_lock_wait, MayLock, InTask, cpuVars
<1>3. /\ MtxInv' /\ Blocks(m) /\ BlockEffect(m, "mtx_wait") /\ NotOutranked(tq', task_current')
      /\ tq'.prio_current = os_mtx_lock_prio_boost(m).prio_current
  BY <1>1, LockBlocks
<1>4. PICK V \in SUBSET Task :
         /\ tq'.prio_current = [t \in Task |-> IF t \in V THEN p ELSE tq.prio_current[t]]
         /\ \A t \in V : tq.prio_current[t] <= p
         /\ \A w \in V, t \in Task : WaitsFor(w, t) => t \in V
         /\ \A t \in V : t = owner[m] \/ \E w \in V : WaitsFor(w, t)
         /\ owner[m] \in V \/ p <= tq.prio_current[owner[m]]
  BY <1>2, <1>3, BoostLifts
<1>5. \A w \in Task, t \in Task : WaitsFor(w, t)' <=> WaitsFor(w, t) \/ (w = c /\ t = owner[m])
  BY <1>1, <1>2, <1>3 DEF WaitsFor, Blocks
<1>6. ASSUME NEW t \in Task
      PROVE  /\ tq.prio_current[t] \in Int /\ tq'.prio_current[t] \in Int /\ p \in Int
             /\ prio_base[t] \in Int
             /\ tq'.prio_current[t] = IF t \in V THEN p ELSE tq.prio_current[t]
             /\ tq.prio_current[t] <= tq'.prio_current[t]
  BY <1>1, <1>4, PrioAssumption DEF Prio
<1>7. tq'.prio_current[c] = p
  BY <1>1, <1>6
<1>8. \A t \in Task : tq'.state[t] \in Alive => tq.state[t] \in Alive
  BY <1>1, <1>3 DEF BlockEffect, SameLife, Runnable, Alive
<1>9. ASSUME NEW t \in Task PROVE InheritsOK(t)'
  <2> SUFFICES ASSUME tq'.state[t] \in Alive PROVE InheritsOK(t)'
    BY DEF InheritsOK
  <2>1. /\ prio_base[t] <= tq.prio_current[t]
        /\ \A w \in Task : WaitsFor(w, t) => tq.prio_current[w] <= tq.prio_current[t]
        /\ \/ tq.prio_current[t] = prio_base[t]
           \/ \E w \in Task : WaitsFor(w, t) /\ tq.prio_current[w] = tq.prio_current[t]
    BY <1>1, <1>8 DEF InheritsOK
  <2>2. prio_base'[t] <= tq'.prio_current[t]
    BY <1>2, <1>6, <2>1
  <2>3. ASSUME NEW w \in Task, WaitsFor(w, t)'
        PROVE  tq'.prio_current[w] <= tq'.prio_current[t]
    <3>1. CASE WaitsFor(w, t)
      <4>1. CASE w \in V
        <5>1. t \in V
          BY <1>4, <3>1, <4>1
        <5> QED BY <1>6, <4>1, <5>1
      <4>2. CASE w \notin V
        BY <1>6, <2>1, <3>1, <4>2
      <4> QED BY <4>1, <4>2
    <3>2. CASE w = c /\ t = owner[m]
      BY <1>4, <1>6, <1>7, <3>2
    <3> QED BY <1>5, <2>3, <3>1, <3>2
  <2>4. \/ tq'.prio_current[t] = prio_base'[t]
        \/ \E w \in Task : WaitsFor(w, t)' /\ tq'.prio_current[w] = tq'.prio_current[t]
    <3>1. CASE t \in V
      <4>1. CASE t = owner[m]
        BY <1>1, <1>5, <1>6, <1>7, <3>1, <4>1
      <4>2. CASE \E w \in V : WaitsFor(w, t)
        <5>1. PICK w \in V : WaitsFor(w, t)
          BY <4>2
        <5> QED BY <1>5, <1>6, <3>1, <5>1
      <4> QED BY <1>4, <3>1, <4>1, <4>2
    <3>2. CASE t \notin V
      <4>1. CASE tq.prio_current[t] = prio_base[t]
        BY <1>2, <1>6, <3>2, <4>1
      <4>2. CASE \E w \in Task : WaitsFor(w, t) /\ tq.prio_current[w] = tq.prio_current[t]
        <5>1. PICK w \in Task : WaitsFor(w, t) /\ tq.prio_current[w] = tq.prio_current[t]
          BY <4>2
        <5>2. w \notin V
          BY <1>4, <3>2, <5>1
        <5> QED BY <1>5, <1>6, <3>2, <5>1, <5>2
      <4> QED BY <2>1, <4>1, <4>2
    <3> QED BY <3>1, <3>2
  <2> HIDE DEF WaitsFor
  <2> QED BY <2>2, <2>3, <2>4 DEF InheritsOK
<1>10. OwnersRun'
  <2> SUFFICES ASSUME NEW o \in Mutex, owner[o] # NULL, tq'.state[owner[o]] = "WAIT"
               PROVE  tq'.task_queue[owner[o]] \in Mutex
    BY <1>2 DEF OwnersRun
  <2>1. CASE owner[o] = c
    BY <1>3, <2>1 DEF BlockEffect
  <2>2. CASE owner[o] # c
    <3>1. owner[o] \in Task /\ tq.state[owner[o]] = "WAIT"
      BY <1>1, <1>3, <2>2 DEF BlockEffect, SameLife, Runnable
    <3>2. tq.task_queue[owner[o]] \in Mutex
      BY <1>1, <3>1 DEF OwnersRun
    <3> QED BY <1>3, <3>1, <3>2 DEF Blocks
  <2> QED BY <2>1, <2>2
<1>11. Ranked'
  BY <1>3 DEF Ranked
<1> QED BY <1>1, <1>2, <1>3, <1>9, <1>10, <1>11 DEF InheritInv

---------------------------------------------------------------------------
(* The last os_mtx_unlock, and os_mtx_destroy.                             *)

\* task_current falls back to what it inherits from its other mutexes.
LEMMA ResetInherits ==
    ASSUME InheritInv, NEW m \in Mutex, owner[m] = task_current
    PROVE  LET held == mtx_list(task_current) \ {m}
               r == os_mtx_unlock_prio_reset(tq, held)
           IN  /\ \A t \in Task \ {task_current} : r.prio_current[t] = tq.prio_current[t]
               /\ TopAmong(held, r.prio_current[task_current])
               /\ r.prio_current[task_current] \in Int
<1> DEFINE c == task_current
           held == mtx_list(c) \ {m}
           r == os_mtx_unlock_prio_reset(tq, held)
<1>1. /\ SchedCore /\ c \in Task /\ prio_base \in [Task -> Prio] /\ InheritsOK(c)
      /\ tq.state[c] \in Alive /\ held \in SUBSET Mutex /\ \A o \in held : owner[o] = c
  BY DEF InheritInv, MtxInv, SchedCore, TypeOK, InPlace, Runnable, Alive, mtx_list
<1>2. /\ Reprioritised(r)
      /\ \A t \in Task \ {c} : r.prio_current[t] = tq.prio_current[t]
      /\ \/ r = tq /\ tq.prio_current[c] = prio_base[c]
         \/ TopAmong(held, r.prio_current[c])
  BY <1>1, ResetProperties
<1> HIDE DEF r, held
<1>3. r.prio_current[c] \in Int
  BY <1>1, <1>2, PrioAssumption DEF Reprioritised, TaskQueueType, Prio
<1>4. CASE r = tq /\ tq.prio_current[c] = prio_base[c]
  <2>1. \A w \in Task : tq.task_queue[w] \in held => WaitsFor(w, c)
    BY <1>1 DEF WaitsFor
  <2>2. TopAmong(held, tq.prio_current[c])
    BY <1>1, <1>4, <2>1 DEF TopAmong, InheritsOK
  <2> QED BY <1>2, <1>3, <1>4, <2>2 DEF r, held
<1> QED BY <1>2, <1>3, <1>4 DEF r, held

\* The waiters W leave the mutex m of task_current: all of them, and m is free,
\* or the top one, which owns m now.
LEMMA ReleaseInherits ==
    ASSUME InheritInv, MtxInv', NEW m \in Mutex, owner[m] = task_current,
           pc[task_current] = "run", NEW W, Settles(m, W),
           UNCHANGED <<prio_base, lock_depth>>,
           \A t \in Task, o \in Mutex :
              tq'.task_queue[t] = o <=> tq.task_queue[t] = o /\ t \notin W,
           \/ owner' = [owner EXCEPT ![m] = NULL] /\ W = Waiters(m)
           \/ \E n \in Waiters(m) :
                 /\ owner' = [owner EXCEPT ![m] = n] /\ W = {n}
                 /\ \A t \in Waiters(m) : tq.prio_current[t] <= tq.prio_current[n]
    PROVE  InheritInv'
<1> DEFINE c == task_current
           held == mtx_list(c) \ {m}
           q == tq.task_queue
           prio == tq.prio_current
           P == tq'.prio_current
<1>1. /\ MtxInv /\ c \in Task /\ NULL \notin Task /\ q[c] = NULL /\ NULL \notin Mutex
      /\ owner \in [Mutex -> Task \cup {NULL}] /\ tq.state[c] \in Alive
      /\ (\A t \in Task : InheritsOK(t)) /\ OwnersRun /\ NotOutranked(tq, c)
      /\ W \subseteq Waiters(m) /\ Waiters(m) = {t \in Task : q[t] = m}
      /\ (\A o \in Mutex : OwnerOK(o)) /\ tq.prio_current \in [Task -> Prio]
      /\ \A t \in Task : lock_depth'[t] = 0
  BY MutexQueues, NullAssumption
     DEF InheritInv, MtxInv, MtxTypeOK, SchedCore, InPlace, Runnable, Alive, Ranked, Waiters,
         OnQueue, TaskQueueType
<1>2. /\ (\A t \in Task \ {c} : P[t] = prio[t]) /\ TopAmong(held, P[c]) /\ P[c] \in Int
  BY <1>1, ResetInherits DEF Settles
<1>3. /\ ReleaseEffect(W)
      /\ \/ sched_lock' # 0 \/ NotOutranked(tq', task_current')
         \/ W = {} /\ task_current' = c /\ tq'.task_queue = q
  BY DEF Settles
<1>4. \A t \in Task : prio[t] \in Int
  BY <1>1, PrioAssumption DEF Prio
<1>5. \A o \in Mutex : o \in held <=> o # m /\ owner[o] = c
  BY DEF mtx_list
<1> HIDE DEF held, q, prio, P
<1>6. \A o \in Mutex \ {m} : owner'[o] = owner[o]
  BY <1>1
<1>7. ASSUME NEW w \in Task, q[w] # m, NEW t \in Task PROVE WaitsFor(w, t)' <=> WaitsFor(w, t)
  <2>1. w \notin W
    BY <1>1, <1>7
  <2> QED BY <1>6, <1>7, <2>1 DEF WaitsFor, q
<1>8. ASSUME NEW w \in Task, q[w] = m, NEW t \in Task
      PROVE  /\ WaitsFor(w, t)' <=> w \notin W /\ owner'[m] = t
             /\ WaitsFor(w, t) <=> t = c
  BY <1>1, <1>8 DEF WaitsFor, q
<1>9. \A w \in Task, t \in Task : WaitsFor(w, t) => w # c
  BY <1>1 DEF WaitsFor, q
<1>10. \A t \in Task : tq'.state[t] \in Alive => tq.state[t] \in Alive
  <2>1. \A t \in Task : q[t] = m => tq.state[t] = "WAIT"
    BY MutexAssumption DEF InheritInv, MtxInv, SchedCore, InPlace, q
  <2> QED BY <1>1, <1>3, <2>1 DEF ReleaseEffect, SameLife, Runnable, Alive
<1>11. ASSUME NEW t \in Task PROVE InheritsOK(t)'
  <2> SUFFICES ASSUME tq'.state[t] \in Alive PROVE InheritsOK(t)'
    BY DEF InheritsOK
  <2>1. /\ prio_base[t] <= prio[t]
        /\ \A w \in Task : WaitsFor(w, t) => prio[w] <= prio[t]
        /\ \/ prio[t] = prio_base[t]
           \/ \E w \in Task : WaitsFor(w, t) /\ prio[w] = prio[t]
    BY <1>1, <1>10 DEF InheritsOK, prio
  <2>2. CASE t = c
    <3>1. \A w \in Task : WaitsFor(w, t)' <=> q[w] \in held
      <4>1. owner'[m] # t
        BY <1>1, <2>2 DEF q
      <4>2. ASSUME NEW w \in Task PROVE WaitsFor(w, t)' <=> q[w] \in held
        <5>1. CASE q[w] = m
          BY <1>1, <1>5, <1>8, <4>1, <5>1
        <5>2. CASE q[w] # m
          <6>1. WaitsFor(w, t) <=> q[w] \in held
            BY <1>5, <2>2, <5>2 DEF WaitsFor, q, held, mtx_list
          <6> QED BY <1>1, <1>7, <5>2, <6>1
        <5> QED BY <5>1, <5>2
      <4> QED BY <4>2
    <3>2. \A w \in Task : q[w] \in held => w # t /\ P[w] = prio[w]
      BY <1>1, <1>2, <1>5, <2>2 DEF held, mtx_list
    <3>3. /\ prio_base[t] <= P[t]
          /\ \A w \in Task : q[w] \in held => prio[w] <= P[t]
          /\ P[t] = prio_base[t] \/ \E w \in Task : q[w] \in held /\ prio[w] = P[t]
      BY <1>2, <2>2 DEF TopAmong, q, prio
    <3> HIDE DEF WaitsFor
    <3>4. /\ prio_base'[t] <= P[t]
          /\ \A w \in Task : WaitsFor(w, t)' => P[w] <= P[t]
          /\ P[t] = prio_base'[t] \/ \E w \in Task : WaitsFor(w, t)' /\ P[w] = P[t]
      BY <3>1, <3>2, <3>3
    <3> QED BY <3>4 DEF InheritsOK, P
  <2>3. CASE t # c
    <3>1. P[t] = prio[t] /\ \A w \in Task : WaitsFor(w, t) => /\ P[w] = prio[w] /\ q[w] # m
                                                             /\ WaitsFor(w, t)'
      BY <1>2, <1>7, <1>8, <1>9, <2>3
    <3>2. ASSUME NEW w \in Task, WaitsFor(w, t)' PROVE P[w] <= P[t]
      <4>1. CASE q[w] # m
        BY <1>7, <2>1, <3>1, <3>2, <4>1
      <4>2. CASE q[w] = m
        <5>1. owner'[m] = t /\ w \in Waiters(m) /\ w # c
          BY <1>1, <1>8, <3>2, <4>2
        <5>2. prio[w] <= prio[t]
          BY <1>1, <5>1 DEF prio
        <5> QED BY <1>2, <3>1, <5>1, <5>2
      <4> QED BY <4>1, <4>2
    <3>3. P[t] = prio_base'[t] \/ \E w \in Task : WaitsFor(w, t)' /\ P[w] = P[t]
      BY <2>1, <3>1
    <3>4. prio_base'[t] <= P[t]
      BY <2>1, <3>1
    <3> HIDE DEF WaitsFor
    <3> QED BY <3>2, <3>3, <3>4 DEF InheritsOK, P
  <2> QED BY <2>2, <2>3
<1>12. OwnersRun'
  <2> SUFFICES ASSUME NEW o \in Mutex, owner'[o] # NULL, tq'.state[owner'[o]] = "WAIT"
               PROVE  tq'.task_queue[owner'[o]] \in Mutex
    BY DEF OwnersRun
  <2>1. owner'[o] \notin W
    BY <1>3 DEF ReleaseEffect, Runnable
  <2>2. o # m
    BY <1>1, <2>1
  <2>3. owner'[o] = owner[o] /\ owner[o] \in Task \ W /\ tq.state[owner[o]] = "WAIT"
    BY <1>1, <1>3, <1>6, <2>1, <2>2 DEF ReleaseEffect, SameLife, Runnable
  <2>4. tq.task_queue[owner[o]] \in Mutex
    BY <1>1, <2>3 DEF OwnersRun
  <2> QED BY <2>3, <2>4
<1>13. Ranked'
  <2>1. CASE sched_lock' # 0
    BY <1>1, <2>1, NoLocksNext DEF MtxInv, Ranked
  <2>2. CASE NotOutranked(tq', task_current')
    BY <2>2 DEF Ranked
  <2>3. CASE W = {} /\ task_current' = c /\ tq'.task_queue = q
    <3>1. Waiters(m) = {}
      BY <1>1, <2>3
    <3>2. \A w \in Task : WaitsFor(w, c) => q[w] \in held
      BY <1>1, <1>5, <3>1 DEF WaitsFor, q
    <3>3. prio[c] = prio_base[c] \/ \E w \in Task : WaitsFor(w, c) /\ prio[w] = prio[c]
      BY <1>1 DEF InheritsOK, prio
    <3>4. prio[c] <= P[c]
      BY <1>2, <3>2, <3>3 DEF TopAmong, q, prio
    <3>5. ASSUME NEW t \in Task, tq'.task_queue[t] = ready_queue PROVE P[t] <= P[c]
      <4>1. prio[t] <= prio[c]
        BY <1>1, <2>3, <3>5 DEF NotOutranked, q, prio
      <4>2. t # c => P[t] = prio[t]
        BY <1>2
      <4>3. prio[t] \in Int /\ prio[c] \in Int /\ P[c] \in Int
        BY <1>1, <1>2, <1>4
      <4> QED BY <3>4, <4>1, <4>2, <4>3
    <3> QED BY <2>3, <3>5 DEF Ranked, NotOutranked, P
  <2> QED BY <1>3, <2>1, <2>2, <2>3
<1> QED BY <1>1, <1>11, <1>12, <1>13 DEF InheritInv

LEMMA UnlockInherits ==
    ASSUME InheritInv, NEW m \in Mutex, os_mtx_unlock_last(m)
    PROVE  InheritInv'
<1>1. /\ owner[m] = task_current /\ pc[task_current] = "run"
      /\ UNCHANGED <<prio_base, lock_depth>>
  BY DEF os_mtx_unlock_last, InTask, cpuVars
<1>2. MtxInv' /\ Unlocked(m) /\ Settles(m, {owner'[m]} \ {NULL})
  BY UnlockLastKeeps DEF InheritInv
<1>3. owner \in [Mutex -> Task \cup {NULL}] /\ NULL \notin Task /\ Waiters(m) \subseteq Task
  BY NullAssumption DEF InheritInv, MtxInv, MtxTypeOK, Waiters, OnQueue
<1>4. PICK W : W = {owner'[m]} \ {NULL}
  OBVIOUS
<1>5. /\ Settles(m, W)
      /\ \A t \in Task, o \in Mutex :
            tq'.task_queue[t] = o <=> tq.task_queue[t] = o /\ t \notin W
      /\ \/ owner' = [owner EXCEPT ![m] = NULL] /\ W = Waiters(m)
         \/ \E n \in Waiters(m) :
               /\ owner' = [owner EXCEPT ![m] = n] /\ W = {n}
               /\ \A t \in Waiters(m) : tq.prio_current[t] <= tq.prio_current[n]
  <2>1. CASE owner' = [owner EXCEPT ![m] = NULL] /\ Waiters(m) = {}
             /\ \A t \in Task, o \in Mutex : tq'.task_queue[t] = o <=> tq.task_queue[t] = o
    <3>1. W = {}
      BY <1>3, <1>4, <2>1
    <3> QED BY <1>2, <1>4, <2>1, <3>1
  <2>2. ASSUME NEW n \in Waiters(m), owner' = [owner EXCEPT ![m] = n],
               \A t \in Waiters(m) : tq.prio_current[t] <= tq.prio_current[n],
               \A t \in Task, o \in Mutex :
                  tq'.task_queue[t] = o <=> tq.task_queue[t] = o /\ t # n
        PROVE  <1>5!:
    <3>1. W = {n}
      BY <1>3, <1>4, <2>2
    <3> QED BY <1>2, <1>4, <2>2, <3>1
  <2> QED BY <1>2, <2>1, <2>2 DEF Unlocked
<1> QED BY <1>1, <1>2, <1>5, ReleaseInherits

LEMMA DestroyInherits ==
    ASSUME InheritInv, NEW m \in Mutex, os_mtx_destroy(m)
    PROVE  InheritInv'
<1> DEFINE c == task_current
           W == Waiters(m)
<1>1. /\ owner[m] \in {NULL, c} /\ pc[c] = "run"
      /\ UNCHANGED <<prio_base, lock_depth>> /\ sched_lock' = sched_lock
  BY DEF os_mtx_destroy, InTask, cpuVars
<1>2. MtxInv' /\ Destroys(m) /\ Settles(m, W)
  BY DestroyKeeps DEF InheritInv
<1>3. /\ owner \in [Mutex -> Task \cup {NULL}] /\ c \in Task /\ NULL \notin Task
      /\ W = {t \in Task : tq.task_queue[t] = m}
      /\ owner' = [owner EXCEPT ![m] = NULL]
      /\ \A t \in Task, o \in Mutex :
            tq'.task_queue[t] = o <=> tq.task_queue[t] = o /\ t \notin W
  BY <1>2, NullAssumption DEF InheritInv, MtxInv, MtxTypeOK, SchedCore, TypeOK, Waiters, OnQueue,
                              Destroys
<1>4. CASE owner[m] = c
  <2> HIDE DEF W
  <2> QED BY <1>1, <1>2, <1>3, <1>4, ReleaseInherits DEF W
<1>5. CASE owner[m] = NULL
  <2>1. /\ W = {} /\ owner' = owner /\ tq'.prio_current = tq.prio_current
        /\ (\A t \in Task : InheritsOK(t) /\ lock_depth'[t] = 0) /\ OwnersRun /\ NotOutranked(tq, c)
    BY <1>1, <1>2, <1>3, <1>5 DEF InheritInv, MtxInv, FreeOK, Settles, Ranked
  <2>2. ReleaseEffect({})
    BY <1>2, <2>1 DEF Settles
  <2>3. \A t \in Task, o \in Mutex : tq'.task_queue[t] = o <=> tq.task_queue[t] = o
    BY <1>3, <2>1
  <2>4. \A w \in Task, t \in Task : WaitsFor(w, t)' <=> WaitsFor(w, t)
    BY <2>1, <2>3 DEF WaitsFor
  <2>5. \A t \in Task : /\ tq'.state[t] \in Alive => tq.state[t] \in Alive
                        /\ tq'.state[t] = "WAIT" => tq.state[t] = "WAIT"
    BY <2>2 DEF ReleaseEffect, SameLife, Runnable, Alive
  <2>6. ASSUME NEW t \in Task PROVE InheritsOK(t)'
    <3> SUFFICES ASSUME tq'.state[t] \in Alive PROVE InheritsOK(t)'
      BY DEF InheritsOK
    <3>1. /\ InheritsOK(t) /\ tq.state[t] \in Alive /\ prio_base'[t] = prio_base[t]
          /\ \A w \in Task : tq'.prio_current[w] = tq.prio_current[w]
      BY <1>1, <2>1, <2>5
    <3> QED BY <2>4, <3>1, InheritsKept
  <2>7. OwnersRun'
    <3> SUFFICES ASSUME NEW o \in Mutex, owner'[o] # NULL, tq'.state[owner'[o]] = "WAIT"
                 PROVE  tq'.task_queue[owner'[o]] \in Mutex
      BY DEF OwnersRun
    <3>1. owner'[o] = owner[o] /\ owner[o] \in Task
      BY <1>3, <2>1
    <3>2. tq.task_queue[owner[o]] \in Mutex
      BY <2>1, <2>5, <3>1 DEF OwnersRun
    <3> QED BY <2>3, <3>1, <3>2
  <2>8. Ranked'
    <3>1. sched_lock' # 0 => Ranked'
      BY <1>2, <2>1, NoLocksNext DEF MtxInv, Ranked
    <3>2. NotOutranked(tq', task_current') => Ranked'
      BY DEF Ranked
    <3>3. UNCHANGED task_current /\ tq'.task_queue = tq.task_queue => Ranked'
      BY <2>1 DEF Ranked, NotOutranked
    <3> QED BY <1>2, <3>1, <3>2, <3>3 DEF Settles
  <2> QED BY <1>2, <2>1, <2>6, <2>7, <2>8 DEF InheritInv
<1> QED BY <1>1, <1>4, <1>5

---------------------------------------------------------------------------
(* Every step keeps the priorities inherited.                              *)

LEMMA InheritInitHolds == MtxInit => InheritInv
<1> SUFFICES ASSUME MtxInit PROVE InheritInv
  OBVIOUS
<1>1. MtxInv
  BY MtxInitHolds
<1>2. /\ pc[task_current] = "boot" /\ (\A t \in Task : lock_depth[t] = 0)
      /\ (\A m \in Mutex : owner[m] = NULL) /\ (\A t \in Task : tq.task_queue[t] = NULL)
      /\ \A t \in Task : tq.prio_current[t] = 0 /\ prio_base[t] = 0
  BY IdleAssumption DEF MtxInit, Init
<1>3. ASSUME NEW t \in Task PROVE InheritsOK(t)
  BY <1>2, MutexQueues DEF InheritsOK, WaitsFor
<1> QED BY <1>1, <1>2, <1>3 DEF InheritInv, Ranked, OwnersRun

LEMMA InheritStep ==
    ASSUME MaxLock = 0, InheritInv, MtxNext
    PROVE  InheritInv'
<1>1. MtxInv /\ MtxInv'
  BY MtxStep DEF InheritInv
<1>2. CASE SchedStep
  BY <1>2, SchedStepInherits
<1>3. CASE os_mtx_lock_woken
  BY <1>3, WokenInherits
<1>4. ASSUME NEW m \in Mutex,
             \/ os_mtx_create(m) \/ os_mtx_destroy(m)
             \/ os_mtx_lock_free(m) \/ os_mtx_lock_again(m) \/ os_mtx_lock_wait(m)
             \/ Unlocks(m)
      PROVE  InheritInv'
  <2>1. CASE os_mtx_create(m) \/ os_mtx_lock_again(m) \/ os_mtx_unlock_nested(m)
    <3>1. UNCHANGED vars /\ owner' = owner
      BY <2>1 DEF os_mtx_create, os_mtx_lock_again, os_mtx_unlock_nested
    <3> QED BY <1>1, <3>1, CountingInherits
  <2>2. CASE os_mtx_lock_free(m)
    <3>1. UNCHANGED vars /\ owner[m] = NULL /\ owner' = [owner EXCEPT ![m] = task_current]
      BY <2>2 DEF os_mtx_lock_free
    <3> QED BY <1>1, <3>1, CountingInherits
  <2>3. CASE os_mtx_lock_wait(m) /\ BoostLoops(m)
    <3>1. UNCHANGED <<owner, vars>>
      BY <1>1, <2>3, LockHangs
    <3> QED BY <1>1, <3>1, CountingInherits
  <2>4. CASE os_mtx_lock_wait(m) /\ ~BoostLoops(m)
    BY <2>4, BlockInherits
  <2>5. CASE os_mtx_unlock_last(m)
    BY <2>5, UnlockInherits
  <2>6. CASE os_mtx_destroy(m)
    BY <2>6, DestroyInherits
  <2> QED BY <1>4, <2>1, <2>2, <2>3, <2>4, <2>5, <2>6 DEF Unlocks
<1> QED BY <1>2, <1>3, <1>4 DEF MtxNext

LEMMA InheritStutter == InheritInv /\ UNCHANGED allVars => InheritInv'
<1> SUFFICES ASSUME InheritInv, UNCHANGED allVars PROVE InheritInv'
  OBVIOUS
<1>1. MtxInv' /\ UNCHANGED vars /\ owner' = owner
  BY MtxStutter DEF InheritInv, allVars, mtxVars
<1> QED BY <1>1, CountingInherits

\* InheritsOK is the maximum that the rule of os_mtx.c asks for.
LEMMA InheritsTop == InheritInv => PrioIsInherited
<1> SUFFICES ASSUME InheritInv, NEW t \in Task, tq.state[t] \in {"RUNNING", "READY", "WAIT"}
             PROVE  LET waiting == UNION {Waiters(m) : m \in mtx_list(t)}
                    IN  tq.prio_current[t] =
                           Max({prio_base[t]} \cup {tq.prio_current[w] : w \in waiting})
  BY DEF PrioIsInherited
<1> DEFINE waiting == UNION {Waiters(m) : m \in mtx_list(t)}
           S == {prio_base[t]} \cup {tq.prio_current[w] : w \in waiting}
<1>1. /\ tq.prio_current \in [Task -> Prio] /\ prio_base \in [Task -> Prio] /\ InheritsOK(t)
      /\ tq.state[t] \in Alive
  BY DEF InheritInv, MtxInv, SchedCore, TypeOK, InPlace, TaskQueueType, Alive
<1>2. \A w : w \in waiting <=> w \in Task /\ WaitsFor(w, t)
  BY DEF Waiters, OnQueue, mtx_list, WaitsFor
<1> HIDE DEF waiting
<1>3. S \in SUBSET Prio /\ S # {}
  BY <1>1, <1>2
<1>4. Max(S) \in S /\ \A p \in S : p <= Max(S)
  BY <1>3, MaxOfMask
<1>5. tq.prio_current[t] \in S /\ \A p \in S : p <= tq.prio_current[t]
  BY <1>1, <1>2 DEF InheritsOK
<1> HIDE DEF S
<1>6. \A p \in S : p \in Int
  BY <1>3, PrioAssumption DEF Prio
<1>7. tq.prio_current[t] = Max(S)
  BY <1>4, <1>5, <1>6
<1> QED BY <1>7 DEF S, waiting

\* InheritInv is an invariant as long as no task takes the scheduler lock.
THEOREM InheritInvariant == ASSUME MaxLock = 0 PROVE MtxSpec => []InheritInv
<1>1. InheritInv /\ MtxNext => InheritInv'
  BY InheritStep
<1> QED BY <1>1, InheritInitHolds, InheritStutter, PTL DEF MtxSpec

\* The priority inheritance rule of os_mtx.c: the priority of a task is the
\* maximum of its base priority and of the priorities of the tasks that wait for
\* its mutexes, along any chain of mutexes, whatever the application locks,
\* unlocks and destroys, in whatever order.
THEOREM PrioritiesInherited == ASSUME MaxLock = 0 PROVE MtxSpec => []PrioIsInherited
<1> QED BY InheritInvariant, InheritsTop, PTL

\* The half of the rule that os_mtx_lock_prio_boost breaks when the scheduler
\* is locked (run MtxDemote): without that lock inheritance never makes a task
\* less urgent than it was created.
THEOREM PrioritiesNotBelowBase == ASSUME MaxLock = 0 PROVE MtxSpec => []NeverBelowBase
<1>1. InheritInv => NeverBelowBase
  <2> SUFFICES ASSUME InheritInv, NEW t \in Task, tq.state[t] \in {"RUNNING", "READY", "WAIT"}
               PROVE  tq.prio_current[t] >= prio_base[t]
    BY DEF NeverBelowBase
  <2>1. /\ tq.prio_current \in [Task -> Prio] /\ prio_base \in [Task -> Prio]
        /\ prio_base[t] <= tq.prio_current[t]
    BY DEF InheritInv, MtxInv, SchedCore, TypeOK, InPlace, TaskQueueType, Alive, InheritsOK
  <2> QED BY <2>1, PrioAssumption DEF Prio
<1> QED BY <1>1, InheritInvariant, PTL

---------------------------------------------------------------------------
(* First come first served, with tasks that change their priority while    *)
(* they are on a queue.                                                    *)

\* The task that blocks goes behind the waiters of its priority, and the
\* owners it boosts behind the tasks that had this priority before them.
LEMMA LockWaitOrder ==
    ASSUME MtxInv, NEW m \in Mutex, os_mtx_lock_wait(m), ~BoostLoops(m)
    PROVE  BucketsInOrder(tq, tq')
<1> DEFINE c == task_current
           s == os_mtx_lock_prio_boost(m)
           v == [s EXCEPT !.state[c] = "WAIT"]
           w == os_taskqueue_enqueue(v, m, c)
<1>1. SwitchAway(w, "mtx_wait")
  BY DEF os_mtx_lock_wait, os_task_block_switch, os_task_makewait
<1>2. /\ SchedCore /\ tq \in TaskQueueType /\ Coherent(tq) /\ c \in Task
      /\ tq.task_queue[c] = NULL /\ m \in Queue /\ m # NULL /\ "WAIT" \in TaskState
  BY MutexQueues, MutexAssumption DEF MtxInv, SchedCore, InPlace, TaskState
<1>3. Reprioritised(s) /\ BucketsInOrder(tq, s)
  BY BoostProperties
<1> HIDE DEF s
<1>4. s \in TaskQueueType /\ Coherent(s) /\ s.task_queue[c] = NULL
  BY <1>2, <1>3 DEF Reprioritised
<1>5. v \in TaskQueueType /\ v.tasks = s.tasks
  BY <1>2, <1>4 DEF TaskQueueType
<1>6. Linked(s, w, m, c, "WAIT")
  BY <1>2, <1>4, LinkTask
<1> HIDE DEF v
<1>7. BucketsInOrder(tq, v)
  BY <1>3, <1>5 DEF BucketsInOrder
<1>8. BucketsInOrder(tq, w)
  BY <1>2, <1>5, <1>7, EnqueueOrder
<1> HIDE DEF w
<1>9. w \in TaskQueueType /\ Coherent(w)
  BY <1>6 DEF Linked
<1> QED BY <1>1, <1>2, <1>8, <1>9, SwitchOrder

\* The reset moves nobody: task_current is on no queue.
LEMMA ResetOrder ==
    ASSUME MtxInv, NEW m \in Mutex
    PROVE  LET s == os_mtx_unlock_prio_reset(tq, mtx_list(task_current) \ {m})
           IN  /\ Reprioritised(s)
               /\ s \in TaskQueueType /\ Coherent(s) /\ s.task_queue = tq.task_queue
               /\ BucketsInOrder(tq, s)
<1> DEFINE s == os_mtx_unlock_prio_reset(tq, mtx_list(task_current) \ {m})
<1>1. SchedCore /\ prio_base \in [Task -> Prio] /\ tq \in TaskQueueType
  BY DEF MtxInv, SchedCore, TypeOK
<1>2. mtx_list(task_current) \ {m} \in SUBSET Mutex
  BY DEF mtx_list
<1>3. Reprioritised(s) /\ s.tasks = tq.tasks
  BY <1>1, <1>2, ResetProperties
<1> HIDE DEF s
<1>4. BucketsInOrder(tq, s)
  BY <1>1, <1>3, SameOrder
<1> QED BY <1>3, <1>4 DEF Reprioritised, s

\* The new owner goes behind the READY tasks of its priority.
LEMMA UnlockOrder ==
    ASSUME MtxInv, NEW m \in Mutex, os_mtx_unlock_last(m)
    PROVE  BucketsInOrder(tq, tq')
<1> DEFINE s == os_mtx_unlock_prio_reset(tq, mtx_list(task_current) \ {m})
           d == os_taskqueue_dequeue(s, m)
           v == [d.s EXCEPT !.state[d.task] = "READY"]
           w == os_taskqueue_enqueue(v, ready_queue, d.task)
<1>1. IF d.task = NULL THEN tq' = d.s ELSE os_schedule(w, "run", 1)
  BY DEF os_mtx_unlock_last, os_task_makeready
<1>2. /\ SchedCore /\ tq \in TaskQueueType /\ Coherent(tq)
      /\ m \in ObjectQueue /\ m \in Queue /\ m # ready_queue
      /\ ready_queue \in Queue /\ "READY" \in TaskState
  BY MutexQueues, MutexAssumption, QueueAssumption
     DEF MtxInv, SchedCore, InPlace, TaskState, ObjectQueue
<1>3. /\ Reprioritised(s) /\ BucketsInOrder(tq, s)
      /\ s \in TaskQueueType /\ Coherent(s) /\ s.task_queue = tq.task_queue
  BY ResetOrder
<1> HIDE DEF s
<1>4. BucketsInOrder(tq, d.s)
  BY <1>2, <1>3, DequeueOrder
<1>5. d.task = NULL \/ TopTaken(s, m, d)
  BY <1>2, <1>3, DequeueProperties
<1>6. d.task # NULL => InPlace(w, task_current)
  <2>1. \/ d.task = NULL
        \/ Released(os_task_makeready(d.s, d.task), {d.task})
    BY <1>2, <1>3, ReleaseOne
  <2>2. os_task_makeready(d.s, d.task) = w
    BY DEF os_task_makeready
  <2> HIDE DEF d, w
  <2> QED BY <1>2, <2>1, <2>2, ReleasedPlace
<1>7. CASE d.task = NULL
  BY <1>1, <1>4, <1>7
<1>8. CASE d.task # NULL
  <2> HIDE DEF d
  <2>1. d.task \in Task /\ tq.task_queue[d.task] = m /\ d.s \in TaskQueueType
    BY <1>3, <1>5, <1>8 DEF TopTaken, Removed
  <2>2. v \in TaskQueueType /\ v.tasks = d.s.tasks
    BY <1>2, <2>1 DEF TaskQueueType
  <2> HIDE DEF v
  <2>4. BucketsInOrder(tq, v)
    BY <1>4, <2>2 DEF BucketsInOrder
  <2>5. BucketsInOrder(tq, w)
    BY <1>2, <2>1, <2>2, <2>4, EnqueueOrder
  <2> HIDE DEF w
  <2> QED BY <1>1, <1>2, <1>6, <1>8, <2>5, ScheduleOrder
<1> QED BY <1>7, <1>8

\* The waiters of a mutex that is destroyed go behind the READY tasks.
LEMMA DestroyOrder ==
    ASSUME MtxInv, NEW m \in Mutex, os_mtx_destroy(m)
    PROVE  BucketsInOrder(tq, tq')
<1> DEFINE r == os_mtx_unlock_prio_reset(tq, mtx_list(task_current) \ {m})
           w == WakeAll(r, m)
<1>1. os_schedule(IF owner[m] = NULL THEN tq ELSE w, "run", 1)
  BY DEF os_mtx_destroy
<1>2. /\ SchedCore /\ tq \in TaskQueueType /\ Coherent(tq) /\ InPlace(tq, task_current)
      /\ m \in ObjectQueue /\ m \in Queue \ {ready_queue}
  BY MutexQueues, MutexAssumption DEF MtxInv, SchedCore, InPlace, ObjectQueue
<1>3. /\ Reprioritised(r) /\ BucketsInOrder(tq, r)
      /\ r \in TaskQueueType /\ Coherent(r) /\ r.task_queue = tq.task_queue
  BY ResetOrder
<1> HIDE DEF r
<1>4. BucketsInOrder(tq, w)
  BY <1>2, <1>3, WakeAllOrder
<1>5. InPlace(w, task_current)
  BY <1>2, <1>3, ReleaseAll, ReleasedPlace
<1> HIDE DEF w
<1>6. CASE owner[m] = NULL
  <2>1. BucketsInOrder(tq, tq) /\ os_schedule(tq, "run", 1)
    BY <1>1, <1>2, <1>6, SameOrder
  <2> QED BY <1>2, <2>1, ScheduleOrder
<1>7. CASE owner[m] # NULL
  <2>1. os_schedule(w, "run", 1)
    BY <1>1, <1>7
  <2> QED BY <1>2, <1>4, <1>5, <2>1, ScheduleOrder
<1> QED BY <1>6, <1>7

LEMMA MtxOrder ==
    ASSUME MtxInv, [MtxNext]_allVars
    PROVE  FifoStep
<1>1. SchedCore /\ tq \in TaskQueueType
  BY DEF MtxInv, SchedCore, TypeOK
<1>2. ASSUME tq'.tasks = tq.tasks PROVE BucketsInOrder(tq, tq')
  BY <1>1, <1>2, SameOrder
<1>3. SUFFICES ASSUME ~SchedStep, ~(UNCHANGED vars) PROVE BucketsInOrder(tq, tq')
  <2>1. SchedStep \/ UNCHANGED vars => [Next]_vars
    BY DEF SchedStep, Next
  <2> QED BY <1>1, <2>1, NextOrder DEF FifoStep, BucketsInOrder
<1>4. CASE os_mtx_lock_woken
  <2>1. tq' = [tq EXCEPT !.state[task_current] = "RUNNING"]
    BY <1>4 DEF os_mtx_lock_woken
  <2>2. [tq EXCEPT !.state[task_current] = "RUNNING"].tasks = tq.tasks
    BY <1>1 DEF TaskQueueType
  <2> QED BY <1>2, <2>1, <2>2
<1>5. ASSUME NEW m \in Mutex,
             \/ os_mtx_create(m) \/ os_mtx_destroy(m)
             \/ os_mtx_lock_free(m) \/ os_mtx_lock_again(m) \/ os_mtx_lock_wait(m)
             \/ Unlocks(m)
      PROVE  BucketsInOrder(tq, tq')
  <2>1. CASE os_mtx_destroy(m)
    BY <2>1, DestroyOrder
  <2>2. CASE os_mtx_unlock_last(m)
    BY <2>2, UnlockOrder
  <2>3. CASE os_mtx_lock_wait(m) /\ ~BoostLoops(m)
    BY <2>3, LockWaitOrder
  <2>4. CASE \/ os_mtx_create(m) \/ os_mtx_lock_free(m) \/ os_mtx_lock_again(m)
             \/ (os_mtx_lock_wait(m) /\ BoostLoops(m)) \/ os_mtx_unlock_nested(m)
    BY <1>3, <2>4 DEF os_mtx_create, os_mtx_lock_free, os_mtx_lock_again, os_mtx_lock_wait,
                      os_mtx_unlock_nested
  <2> QED BY <1>5, <2>1, <2>2, <2>3, <2>4 DEF Unlocks
<1> QED BY <1>3, <1>4, <1>5 DEF MtxNext, allVars

\* FifoOrder with mutexes: tasks of one priority stay in the order in which
\* they came, on the ready queue and on every mutex, although inheritance
\* takes tasks out of their bucket in the middle of a queue; a boosted task
\* goes behind those that had this priority before it.
THEOREM MtxFirstComeFirstServed == MtxSpec => FifoOrder
<1>1. MtxInv /\ [MtxNext]_allVars => [FifoStep]_vars
  BY MtxOrder
<1> QED BY <1>1, MtxInvariant, PTL DEF MtxSpec, FifoOrder
=============================================================================
