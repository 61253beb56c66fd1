----------------------------- MODULE SchedProofs -----------------------------
(***************************************************************************)
(* The safety properties of the scheduler, for any number of tasks, queues *)
(* and priorities and any depth of interrupts and scheduler locks.         *)
(*                                                                         *)
(* The inductive invariant has three parts: where every task is            *)
(* (InPlace), which task waits for the exit of which (JoinsMatch), and     *)
(* what the scheduler lock counts (LocksMatch).  They are stated for a     *)
(* state s of the queues so that they can be carried through the calls     *)
(* that make up one step: the queue functions first, os_schedule or the    *)
(* switch to another task last.                                            *)
(*                                                                         *)
(* The first part is about the task queue functions alone: what they do to *)
(* queues that are coherent.  Only these lemmas, and those on the order of *)
(* a bucket, look into one.                                                *)
(***************************************************************************)
EXTENDS Sched, SequenceTheorems, WellFoundedInduction, FiniteSetTheorems, TLAPS

---------------------------------------------------------------------------
(* Sequences and masks.                                                    *)

\* list_unlink takes out one occurrence of t and moves up what is behind it.
LEMMA UnlinkProperties ==
    ASSUME NEW bucket \in Seq(Task), NEW t \in Task,
           \E i \in 1 .. Len(bucket) : bucket[i] = t
    PROVE  /\ list_unlink(bucket, t) \in Seq(Task)
           /\ Len(list_unlink(bucket, t)) = Len(bucket) - 1
           /\ \E i \in 1 .. Len(bucket) :
                /\ bucket[i] = t
                /\ \A j \in 1 .. (Len(bucket) - 1) :
                     list_unlink(bucket, t)[j] = IF j < i THEN bucket[j] ELSE bucket[j + 1]
<1> DEFINE i == CHOOSE n \in 1 .. Len(bucket) : bucket[n] = t
           left == SubSeq(bucket, 1, i - 1)
           right == SubSeq(bucket, i + 1, Len(bucket))
<1>1. i \in 1 .. Len(bucket) /\ bucket[i] = t
  OBVIOUS
<1>2. list_unlink(bucket, t) = left \o right
  BY DEF list_unlink, RemoveAt
<1> HIDE DEF i
<1>3. /\ left \in Seq(Task) /\ Len(left) = i - 1
      /\ \A j \in 1 .. (i - 1) : left[j] = bucket[j]
  BY <1>1
<1>4. /\ right \in Seq(Task) /\ Len(right) = Len(bucket) - i
      /\ \A j \in 1 .. (Len(bucket) - i) : right[j] = bucket[i + j]
  BY <1>1
<1> HIDE DEF left, right
<1>5. left \o right \in Seq(Task) /\ Len(left \o right) = Len(bucket) - 1
  <2>1. left \o right \in Seq(Task) /\ Len(left \o right) = Len(left) + Len(right)
    BY <1>3, <1>4, ConcatProperties
  <2> QED BY <2>1, <1>1, <1>3, <1>4
<1>6. ASSUME NEW j \in 1 .. (Len(bucket) - 1)
      PROVE  (left \o right)[j] = IF j < i THEN bucket[j] ELSE bucket[j + 1]
  <2>1. CASE j < i
    BY <2>1, <1>1, <1>3, <1>4
  <2>2. CASE ~(j < i)
    <3>1. (left \o right)[j] = right[j - Len(left)]
      BY <2>2, <1>1, <1>3, <1>4
    <3>2. j - Len(left) \in 1 .. (Len(bucket) - i) /\ i + (j - Len(left)) = j + 1
      BY <2>2, <1>1, <1>3
    <3> QED BY <3>1, <3>2, <1>4, <2>2
  <2> QED BY <2>1, <2>2
<1> QED BY <1>1, <1>2, <1>5, <1>6

\* A mask that is not empty has a highest bit.
LEMMA MaxOfMask ==
    ASSUME NEW mask \in SUBSET Prio, mask # {}
    PROVE  Max(mask) \in mask /\ \A p \in mask : p <= Max(mask)
<1> DEFINE flip == {PRIOCNT - 1 - p : p \in mask}
           R == OpToRel(<, Nat)
<1>1. flip \subseteq Nat /\ flip # {}
  <2>1. \A p \in mask : PRIOCNT - 1 - p \in Nat
    BY PrioAssumption DEF Prio
  <2> QED BY <2>1
<1>2. \E x \in flip : \A y \in flip : ~(<<y, x>> \in R)
  <2> HIDE DEF flip, R
  <2>1. IsWellFoundedOn(R, Nat)
    BY NatLessThanWellFounded DEF R
  <2> QED BY <2>1, <1>1, WFMin
<1>3. PICK x \in flip : \A y \in flip : ~(y < x)
  BY <1>1, <1>2 DEF OpToRel
<1>4. PICK p \in mask : x = PRIOCNT - 1 - p
  BY <1>3
<1>5. ASSUME NEW o \in mask PROVE p >= o
  <2>1. PRIOCNT - 1 - o \in flip /\ ~(PRIOCNT - 1 - o < x)
    BY <1>3
  <2>2. p \in Int /\ o \in Int
    BY DEF Prio
  <2> HIDE DEF flip, R
  <2> QED BY <2>1, <2>2, <1>4, PrioAssumption
<1> QED BY <1>5, PrioAssumption DEF Max, Prio

\* arch_bitmask_fls is 0 for an empty mask and otherwise one more than the
\* highest priority in it.
LEMMA FlsProperties ==
    ASSUME NEW mask \in SUBSET Prio
    PROVE  /\ arch_bitmask_fls(mask) = 0 <=> mask = {}
           /\ mask # {} => /\ arch_bitmask_fls(mask) - 1 \in mask
                           /\ \A p \in mask : p <= arch_bitmask_fls(mask) - 1
<1>1. CASE mask = {}
  BY <1>1 DEF arch_bitmask_fls
<1>2. CASE mask # {}
  <2> DEFINE m == Max(mask)
  <2>1. m \in mask /\ \A p \in mask : p <= m
    BY <1>2, MaxOfMask
  <2>2. arch_bitmask_fls(mask) = 1 + m
    BY <1>2 DEF arch_bitmask_fls
  <2> HIDE DEF m
  <2>3. m \in Nat
    BY <2>1 DEF Prio
  <2>4. arch_bitmask_fls(mask) - 1 = m /\ arch_bitmask_fls(mask) # 0
    BY <2>2, <2>3
  <2> QED BY <2>1, <2>4, <1>2
<1> QED BY <1>1, <1>2

---------------------------------------------------------------------------
(* Buckets: what append, detaching the first and unlinking do to the set   *)
(* of linked tasks.                                                        *)

LEMMA EmptyBucket ==
    ASSUME NEW b \in Seq(Task)
    PROVE  b = <<>> <=> ToSet(b) = {}
<1>1. CASE b = <<>>
  BY <1>1 DEF ToSet
<1>2. CASE b # <<>>
  <2>1. 1 \in DOMAIN b
    BY <1>2
  <2> QED BY <2>1, <1>2 DEF ToSet
<1> QED BY <1>1, <1>2

\* list_append of a task that is not in the bucket.
LEMMA AppendBucket ==
    ASSUME NEW b \in Seq(Task), NEW t \in Task, IsInjective(b), t \notin ToSet(b)
    PROVE  /\ Append(b, t) \in Seq(Task)
           /\ ToSet(Append(b, t)) = ToSet(b) \cup {t}
           /\ IsInjective(Append(b, t))
           /\ Append(b, t) # <<>>
<1> DEFINE new == Append(b, t)
           n == Len(b)
<1>1. /\ new \in Seq(Task) /\ DOMAIN new = 1 .. (n + 1) /\ DOMAIN b = 1 .. n /\ n \in Nat
      /\ \A i \in 1 .. n : new[i] = b[i]
      /\ new[n + 1] = t
      /\ new # <<>>
  BY AppendProperties
<1> HIDE DEF new, n
<1>2. ToSet(new) = ToSet(b) \cup {t}
  <2>1. 1 .. (n + 1) = (1 .. n) \cup {n + 1}
    BY <1>1
  <2> QED BY <2>1, <1>1 DEF ToSet
<1>3. IsInjective(new)
  <2> SUFFICES ASSUME NEW i \in 1 .. (n + 1), NEW j \in 1 .. (n + 1), new[i] = new[j]
               PROVE  i = j
    BY <1>1 DEF IsInjective
  <2>1. \A k \in 1 .. n : new[k] = b[k] /\ new[k] # t
    BY <1>1 DEF ToSet
  <2>2. i \in 1 .. n \/ i = n + 1
    BY <1>1
  <2>3. j \in 1 .. n \/ j = n + 1
    BY <1>1
  <2> QED BY <2>1, <2>2, <2>3, <1>1 DEF IsInjective
<1> QED BY <1>1, <1>2, <1>3 DEF new

\* A sequence that is b with its element at i taken out.
LEMMA ShorterBucket ==
    ASSUME NEW b \in Seq(Task), IsInjective(b), NEW i \in 1 .. Len(b),
           NEW c \in Seq(Task), Len(c) = Len(b) - 1,
           \A j \in 1 .. (Len(b) - 1) : c[j] = IF j < i THEN b[j] ELSE b[j + 1]
    PROVE  /\ ToSet(c) = ToSet(b) \ {b[i]}
           /\ IsInjective(c)
<1> DEFINE n == Len(b)
<1>1. DOMAIN b = 1 .. n /\ DOMAIN c = 1 .. (n - 1) /\ n \in Nat /\ i \in 1 .. n
  OBVIOUS
<1>2. \A j \in 1 .. (n - 1) : c[j] = IF j < i THEN b[j] ELSE b[j + 1]
  OBVIOUS
<1> HIDE DEF n
<1>3. ASSUME NEW j \in 1 .. (n - 1) PROVE c[j] \in ToSet(b) \ {b[i]}
  <2>1. CASE j < i
    <3>1. j \in 1 .. n /\ j # i /\ c[j] = b[j]
      BY <2>1, <1>1, <1>2
    <3> QED BY <3>1, <1>1 DEF ToSet, IsInjective
  <2>2. CASE ~(j < i)
    <3>1. j + 1 \in 1 .. n /\ j + 1 # i /\ c[j] = b[j + 1]
      BY <2>2, <1>1, <1>2
    <3> QED BY <3>1, <1>1 DEF ToSet, IsInjective
  <2> QED BY <2>1, <2>2
<1>4. ASSUME NEW k \in 1 .. n, b[k] # b[i] PROVE b[k] \in ToSet(c)
  <2>1. CASE k < i
    <3>1. k \in 1 .. (n - 1) /\ c[k] = b[k]
      BY <2>1, <1>1, <1>2
    <3> QED BY <3>1, <1>1 DEF ToSet
  <2>2. CASE ~(k < i)
    <3>1. k # i
      BY <1>4
    <3>2. k - 1 \in 1 .. (n - 1) /\ ~(k - 1 < i) /\ (k - 1) + 1 = k
      BY <2>2, <3>1, <1>1
    <3>3. c[k - 1] = b[k]
      BY <3>2, <1>2
    <3> QED BY <3>2, <3>3, <1>1 DEF ToSet
  <2> QED BY <2>1, <2>2
<1>5. ToSet(c) = ToSet(b) \ {b[i]}
  BY <1>1, <1>3, <1>4 DEF ToSet
<1>6. IsInjective(c)
  <2> SUFFICES ASSUME NEW j \in 1 .. (n - 1), NEW k \in 1 .. (n - 1), c[j] = c[k]
               PROVE  j = k
    BY <1>1 DEF IsInjective
  <2> DEFINE at(x) == IF x < i THEN x ELSE x + 1
  <2>1. at(j) \in 1 .. n /\ at(k) \in 1 .. n
    BY <1>1
  <2>2. c[j] = b[at(j)] /\ c[k] = b[at(k)]
    BY <1>2
  <2>3. at(j) = at(k)
    <3> HIDE DEF at
    <3> QED BY <2>1, <2>2, <1>1 DEF IsInjective
  <2> QED BY <2>3, <1>1
<1> QED BY <1>5, <1>6

\* list_detachfirst on a bucket that is not empty.
LEMMA TailBucket ==
    ASSUME NEW b \in Seq(Task), IsInjective(b), b # <<>>
    PROVE  /\ Head(b) \in Task
           /\ Head(b) \in ToSet(b)
           /\ Tail(b) \in Seq(Task)
           /\ ToSet(Tail(b)) = ToSet(b) \ {Head(b)}
           /\ IsInjective(Tail(b))
<1>1. /\ Tail(b) \in Seq(Task) /\ Len(Tail(b)) = Len(b) - 1 /\ Head(b) = b[1]
      /\ 1 \in 1 .. Len(b) /\ b[1] \in Task
      /\ \A j \in 1 .. (Len(b) - 1) : Tail(b)[j] = b[j + 1]
  OBVIOUS
<1>2. \A j \in 1 .. (Len(b) - 1) : Tail(b)[j] = IF j < 1 THEN b[j] ELSE b[j + 1]
  BY <1>1
<1>3. Head(b) \in ToSet(b)
  BY <1>1 DEF ToSet
<1>4. ToSet(Tail(b)) = ToSet(b) \ {b[1]} /\ IsInjective(Tail(b))
  BY <1>1, <1>2, ShorterBucket
<1> QED BY <1>1, <1>3, <1>4

\* list_unlink of a task that is in the bucket.
LEMMA UnlinkBucket ==
    ASSUME NEW b \in Seq(Task), IsInjective(b), NEW t \in Task, t \in ToSet(b)
    PROVE  /\ list_unlink(b, t) \in Seq(Task)
           /\ ToSet(list_unlink(b, t)) = ToSet(b) \ {t}
           /\ IsInjective(list_unlink(b, t))
<1> DEFINE c == list_unlink(b, t)
<1>1. \E i \in 1 .. Len(b) : b[i] = t
  BY DEF ToSet
<1>2. PICK i \in 1 .. Len(b) :
         /\ c \in Seq(Task) /\ Len(c) = Len(b) - 1 /\ b[i] = t
         /\ \A j \in 1 .. (Len(b) - 1) : c[j] = IF j < i THEN b[j] ELSE b[j + 1]
  BY <1>1, UnlinkProperties
<1> HIDE DEF c
<1>3. ToSet(c) = ToSet(b) \ {b[i]} /\ IsInjective(c)
  BY <1>2, ShorterBucket
<1> QED BY <1>2, <1>3 DEF c

---------------------------------------------------------------------------
(* The queue functions.                                                    *)

\* r is s with the sequence new in bucket p of q, and the mask and the TCBs
\* follow.
BucketReplaced(s, r, q, p, new) ==
    /\ \A q2 \in Queue, p2 \in Prio :
          r.tasks[q2][p2] = IF q2 = q /\ p2 = p THEN new ELSE s.tasks[q2][p2]
    /\ \A q2 \in Queue, p2 \in Prio :
          p2 \in r.mask[q2] <=> IF q2 = q /\ p2 = p THEN new # <<>>
                                ELSE p2 \in s.mask[q2]
    /\ ToSet(new) = {t \in Task : r.task_queue[t] = q /\ r.prio_current[t] = p}
    /\ \A q2 \in Queue, p2 \in Prio, t \in Task :
          ~(q2 = q /\ p2 = p) =>
              (r.task_queue[t] = q2 /\ r.prio_current[t] = p2 <=>
                   s.task_queue[t] = q2 /\ s.prio_current[t] = p2)

\* Replacing a bucket like that keeps the queues coherent.
LEMMA BucketUpdate ==
    ASSUME NEW s, NEW r, Coherent(s),
           NEW q \in Queue, NEW p \in Prio, NEW new, IsInjective(new),
           BucketReplaced(s, r, q, p, new)
    PROVE  Coherent(r)
<1> USE DEF BucketReplaced
<1>1. MaskExact(r)
  BY DEF Coherent, MaskExact
<1>2. BucketsExact(r)
  <2> SUFFICES ASSUME NEW q2 \in Queue, NEW p2 \in Prio
               PROVE  ToSet(r.tasks[q2][p2]) =
                        {t \in Task : r.task_queue[t] = q2 /\ r.prio_current[t] = p2}
    BY DEF BucketsExact
  <2>1. CASE q2 = q /\ p2 = p
    BY <2>1
  <2>2. CASE ~(q2 = q /\ p2 = p)
    <3>1. ToSet(r.tasks[q2][p2]) =
            {t \in Task : s.task_queue[t] = q2 /\ s.prio_current[t] = p2}
      BY <2>2 DEF Coherent, BucketsExact
    <3>2. \A t \in Task : r.task_queue[t] = q2 /\ r.prio_current[t] = p2 <=>
                          s.task_queue[t] = q2 /\ s.prio_current[t] = p2
      BY <2>2
    <3> QED BY <3>1, <3>2
  <2> QED BY <2>1, <2>2
<1>3. LinkedOnce(r)
  BY DEF Coherent, LinkedOnce
<1> QED BY <1>1, <1>2, <1>3 DEF Coherent

\* os_taskqueue_enqueue of a task that is on no queue keeps the queues
\* coherent and changes nothing of the TCBs but the queue of t.
LEMMA EnqueueProperties ==
    ASSUME NEW s \in TaskQueueType, Coherent(s),
           NEW q \in Queue, NEW t \in Task, s.task_queue[t] = NULL
    PROVE  LET r == os_taskqueue_enqueue(s, q, t)
           IN  /\ r \in TaskQueueType
               /\ Coherent(r)
               /\ r.task_queue = [s.task_queue EXCEPT ![t] = q]
               /\ r.prio_current = s.prio_current
               /\ r.state = s.state
<1> DEFINE r == os_taskqueue_enqueue(s, q, t)
           p == s.prio_current[t]
           old == s.tasks[q][p]
           new == Append(old, t)
<1>1. /\ s.tasks \in [Queue -> [Prio -> Seq(Task)]]
      /\ s.mask \in [Queue -> SUBSET Prio]
      /\ s.task_queue \in [Task -> Queue \cup {NULL}]
      /\ s.prio_current \in [Task -> Prio]
      /\ p \in Prio
      /\ old \in Seq(Task)
  BY DEF TaskQueueType
<1>2. /\ r.tasks = [s.tasks EXCEPT ![q][p] = new]
      /\ r.mask = [s.mask EXCEPT ![q] = @ \cup {p}]
      /\ r.task_queue = [s.task_queue EXCEPT ![t] = q]
      /\ r.prio_current = s.prio_current
      /\ r.state = s.state
      /\ r = [tasks |-> r.tasks, mask |-> r.mask, task_queue |-> r.task_queue,
                 prio_current |-> r.prio_current, state |-> r.state]
  <2>1. r = [s EXCEPT !.tasks[q][p] = new, !.task_queue[t] = q, !.mask[q] = @ \cup {p}]
    BY DEF os_taskqueue_enqueue
  <2> HIDE DEF r, p, new
  <2>2. r = [tasks |-> r.tasks, mask |-> r.mask, task_queue |-> r.task_queue,
                 prio_current |-> r.prio_current, state |-> r.state]
    BY <2>1 DEF TaskQueueType
  <2> QED BY <2>1, <2>2 DEF TaskQueueType
<1>3. /\ IsInjective(old)
      /\ ToSet(old) = {u \in Task : s.task_queue[u] = q /\ s.prio_current[u] = p}
      /\ t \notin ToSet(old)
  BY <1>1, NullAssumption DEF Coherent, LinkedOnce, BucketsExact
<1>4. new \in Seq(Task) /\ ToSet(new) = ToSet(old) \cup {t} /\ IsInjective(new) /\ new # <<>>
  BY <1>1, <1>3, AppendBucket
<1> HIDE DEF r, p, old, new
<1>5. r \in TaskQueueType
  <2>1. r.tasks \in [Queue -> [Prio -> Seq(Task)]]
    BY <1>1, <1>2, <1>4
  <2>2. r.mask \in [Queue -> SUBSET Prio]
    BY <1>1, <1>2
  <2>3. r.task_queue \in [Task -> Queue \cup {NULL}]
    BY <1>1, <1>2
  <2>4. s.prio_current \in [Task -> Prio] /\ s.state \in [Task -> TaskState]
    BY DEF TaskQueueType
  <2> QED BY <1>2, <2>1, <2>2, <2>3, <2>4 DEF TaskQueueType
<1>6. \A q2 \in Queue, p2 \in Prio :
         r.tasks[q2][p2] = IF q2 = q /\ p2 = p THEN new ELSE s.tasks[q2][p2]
  BY <1>1, <1>2
<1>7. \A q2 \in Queue, p2 \in Prio :
         p2 \in r.mask[q2] <=> IF q2 = q /\ p2 = p THEN new # <<>> ELSE p2 \in s.mask[q2]
  BY <1>1, <1>2, <1>4
<1>8. ToSet(new) = {u \in Task : r.task_queue[u] = q /\ r.prio_current[u] = p}
  BY <1>1, <1>2, <1>3, <1>4 DEF p
<1>9. \A q2 \in Queue, p2 \in Prio, u \in Task :
         ~(q2 = q /\ p2 = p) => (r.task_queue[u] = q2 /\ r.prio_current[u] = p2 <=>
                                 s.task_queue[u] = q2 /\ s.prio_current[u] = p2)
  BY <1>1, <1>2, NullAssumption DEF p
<1>10. Coherent(r)
  <2>1. BucketReplaced(s, r, q, p, new)
    BY <1>6, <1>7, <1>8, <1>9 DEF BucketReplaced
  <2> QED BY <1>1, <1>4, <2>1, BucketUpdate
<1> QED BY <1>2, <1>5, <1>10 DEF r

\* The queues with rest in bucket p of q and t on no queue.
Removal(s, q, p, t, rest) ==
    [s EXCEPT !.tasks[q][p] = rest,
              !.mask[q] = IF rest = <<>> THEN @ \ {p} ELSE @,
              !.task_queue[t] = NULL]

\* r differs from s, for what the TCBs say, in that t is on no queue.
Removed(s, r, t) ==
    /\ r \in TaskQueueType
    /\ Coherent(r)
    /\ r.task_queue = [s.task_queue EXCEPT ![t] = NULL]
    /\ r.prio_current = s.prio_current
    /\ r.state = s.state

\* Taking a task out of its bucket, as os_taskqueue_unlink and
\* os_taskqueue_intdequeue do, keeps the queues coherent.
LEMMA RemoveProperties ==
    ASSUME NEW s \in TaskQueueType, Coherent(s),
           NEW t \in Task, NEW q \in Queue, NEW p \in Prio,
           s.task_queue[t] = q, s.prio_current[t] = p,
           NEW rest \in Seq(Task), IsInjective(rest),
           ToSet(rest) = ToSet(s.tasks[q][p]) \ {t}
    PROVE  Removed(s, Removal(s, q, p, t, rest), t)
<1> DEFINE r == Removal(s, q, p, t, rest)
<1>1. /\ s.tasks \in [Queue -> [Prio -> Seq(Task)]]
      /\ s.mask \in [Queue -> SUBSET Prio]
      /\ s.task_queue \in [Task -> Queue \cup {NULL}]
      /\ s.prio_current \in [Task -> Prio]
  BY DEF TaskQueueType
<1>2. /\ r.tasks = [s.tasks EXCEPT ![q][p] = rest]
      /\ r.mask = [s.mask EXCEPT ![q] = IF rest = <<>> THEN @ \ {p} ELSE @]
      /\ r.task_queue = [s.task_queue EXCEPT ![t] = NULL]
      /\ r.prio_current = s.prio_current
      /\ r.state = s.state
      /\ r = [tasks |-> r.tasks, mask |-> r.mask, task_queue |-> r.task_queue,
                 prio_current |-> r.prio_current, state |-> r.state]
  <2>1. r = [s EXCEPT !.tasks[q][p] = rest,
                      !.mask[q] = IF rest = <<>> THEN @ \ {p} ELSE @,
                      !.task_queue[t] = NULL]
    BY DEF Removal
  <2> HIDE DEF r
  <2>2. r = [tasks |-> r.tasks, mask |-> r.mask, task_queue |-> r.task_queue,
                 prio_current |-> r.prio_current, state |-> r.state]
    BY <2>1 DEF TaskQueueType
  <2> QED BY <2>1, <2>2 DEF TaskQueueType
<1>3. /\ ToSet(s.tasks[q][p]) = {u \in Task : s.task_queue[u] = q /\ s.prio_current[u] = p}
      /\ p \in s.mask[q] <=> s.tasks[q][p] # <<>>
      /\ s.tasks[q][p] \in Seq(Task)
  BY <1>1 DEF Coherent, BucketsExact, MaskExact
<1> HIDE DEF r
<1>4. r \in TaskQueueType
  <2>1. r.tasks \in [Queue -> [Prio -> Seq(Task)]]
    BY <1>1, <1>2
  <2>2. r.mask \in [Queue -> SUBSET Prio]
    BY <1>1, <1>2
  <2>3. r.task_queue \in [Task -> Queue \cup {NULL}]
    BY <1>1, <1>2
  <2>4. s.prio_current \in [Task -> Prio] /\ s.state \in [Task -> TaskState]
    BY DEF TaskQueueType
  <2> QED BY <1>2, <2>1, <2>2, <2>3, <2>4 DEF TaskQueueType
<1>5. \A q2 \in Queue, p2 \in Prio :
         r.tasks[q2][p2] = IF q2 = q /\ p2 = p THEN rest ELSE s.tasks[q2][p2]
  BY <1>1, <1>2
<1>6. s.tasks[q][p] # <<>>
  BY <1>3, EmptyBucket
<1>7. \A q2 \in Queue, p2 \in Prio :
         p2 \in r.mask[q2] <=> IF q2 = q /\ p2 = p THEN rest # <<>> ELSE p2 \in s.mask[q2]
  BY <1>1, <1>2, <1>3, <1>6
<1>8. ToSet(rest) = {u \in Task : r.task_queue[u] = q /\ r.prio_current[u] = p}
  BY <1>1, <1>2, <1>3, NullAssumption
<1>9. \A q2 \in Queue, p2 \in Prio, u \in Task :
         ~(q2 = q /\ p2 = p) => (r.task_queue[u] = q2 /\ r.prio_current[u] = p2 <=>
                                 s.task_queue[u] = q2 /\ s.prio_current[u] = p2)
  BY <1>1, <1>2, NullAssumption
<1>10. Coherent(r)
  <2>1. BucketReplaced(s, r, q, p, rest)
    BY <1>5, <1>7, <1>8, <1>9 DEF BucketReplaced
  <2> QED BY <2>1, BucketUpdate
<1> QED BY <1>2, <1>4, <1>10 DEF r, Removed

\* os_taskqueue_unlink of a task that is on a queue.
LEMMA UnlinkFromQueue ==
    ASSUME NEW s \in TaskQueueType, Coherent(s), NEW t \in Task, s.task_queue[t] # NULL
    PROVE  Removed(s, os_taskqueue_unlink(s, t), t)
<1> DEFINE q == s.task_queue[t]
           p == s.prio_current[t]
           b == s.tasks[q][p]
           rest == list_unlink(b, t)
<1>1. q \in Queue /\ p \in Prio /\ b \in Seq(Task)
  BY DEF TaskQueueType
<1>2. IsInjective(b) /\ t \in ToSet(b)
  BY <1>1 DEF Coherent, LinkedOnce, BucketsExact
<1>3. rest \in Seq(Task) /\ ToSet(rest) = ToSet(b) \ {t} /\ IsInjective(rest)
  BY <1>1, <1>2, UnlinkBucket
<1>4. os_taskqueue_unlink(s, t) = Removal(s, q, p, t, rest)
  BY DEF os_taskqueue_unlink, Removal
<1>5. s.task_queue[t] = q /\ s.prio_current[t] = p /\ ToSet(rest) = ToSet(s.tasks[q][p]) \ {t}
  BY <1>3
<1> HIDE DEF q, p, b, rest
<1> QED BY <1>1, <1>3, <1>4, <1>5, RemoveProperties

\* Changing the priority of a task that is on no queue moves nobody.
LEMMA SetPrio ==
    ASSUME NEW x \in TaskQueueType, Coherent(x), NEW t \in Task, x.task_queue[t] = NULL,
           NEW prio \in Prio
    PROVE  LET y == [x EXCEPT !.prio_current[t] = prio]
           IN  /\ y \in TaskQueueType
               /\ Coherent(y)
               /\ y.task_queue = x.task_queue
               /\ y.prio_current = [x.prio_current EXCEPT ![t] = prio]
               /\ y.state = x.state
<1> DEFINE y == [x EXCEPT !.prio_current[t] = prio]
<1>1. /\ y \in TaskQueueType
      /\ y.tasks = x.tasks /\ y.mask = x.mask /\ y.task_queue = x.task_queue
      /\ y.prio_current = [x.prio_current EXCEPT ![t] = prio]
      /\ y.state = x.state
  BY DEF TaskQueueType
<1> HIDE DEF y
<1>2. MaskExact(y) /\ LinkedOnce(y)
  BY <1>1 DEF Coherent, MaskExact, LinkedOnce
<1>3. BucketsExact(y)
  <2>1. \A u \in Task : u # t => y.prio_current[u] = x.prio_current[u]
    BY <1>1 DEF TaskQueueType
  <2>2. \A u \in Task, q2 \in Queue, p2 \in Prio :
           y.task_queue[u] = q2 /\ y.prio_current[u] = p2 <=>
           x.task_queue[u] = q2 /\ x.prio_current[u] = p2
    BY <2>1, <1>1, NullAssumption
  <2> SUFFICES ASSUME NEW q2 \in Queue, NEW p2 \in Prio
               PROVE  ToSet(y.tasks[q2][p2]) =
                        {u \in Task : y.task_queue[u] = q2 /\ y.prio_current[u] = p2}
    BY DEF BucketsExact
  <2>3. ToSet(x.tasks[q2][p2]) =
          {u \in Task : x.task_queue[u] = q2 /\ x.prio_current[u] = p2}
    BY DEF Coherent, BucketsExact
  <2> QED BY <2>2, <2>3, <1>1
<1> QED BY <1>1, <1>2, <1>3 DEF Coherent, y

\* os_taskqueue_reprio keeps the queues coherent, leaves the task on its
\* queue and gives it the new priority.
LEMMA ReprioProperties ==
    ASSUME NEW s \in TaskQueueType, Coherent(s), NEW t \in Task, NEW prio \in Prio
    PROVE  LET r == os_taskqueue_reprio(s, t, prio)
           IN  /\ r \in TaskQueueType
               /\ Coherent(r)
               /\ r.task_queue = s.task_queue
               /\ r.prio_current = [s.prio_current EXCEPT ![t] = prio]
               /\ r.state = s.state
<1> DEFINE r == os_taskqueue_reprio(s, t, prio)
           q == s.task_queue[t]
           moved(x) == [x EXCEPT !.prio_current[t] = prio]
<1>1. q \in Queue \cup {NULL} /\ s.prio_current \in [Task -> Prio]
      /\ s.task_queue \in [Task -> Queue \cup {NULL}]
  BY DEF TaskQueueType
<1>2. ASSUME NEW x \in TaskQueueType, Coherent(x), x.task_queue[t] = NULL
      PROVE  /\ moved(x) \in TaskQueueType
             /\ Coherent(moved(x))
             /\ moved(x).task_queue = x.task_queue
             /\ moved(x).prio_current = [x.prio_current EXCEPT ![t] = prio]
             /\ moved(x).state = x.state
  BY <1>2, SetPrio
<1>3. CASE s.prio_current[t] = prio
  <2>1. r = s
    BY <1>3 DEF os_taskqueue_reprio
  <2>2. [s.prio_current EXCEPT ![t] = prio] = s.prio_current
    BY <1>1, <1>3
  <2> QED BY <2>1, <2>2
<1>4. CASE s.prio_current[t] # prio /\ q = NULL
  <2>1. r = moved(s)
    BY <1>4 DEF os_taskqueue_reprio
  <2> HIDE DEF moved
  <2> QED BY <2>1, <1>2, <1>4
<1>5. CASE s.prio_current[t] # prio /\ q # NULL
  <2> DEFINE u == os_taskqueue_unlink(s, t)
             v == moved(u)
  <2>1. r = os_taskqueue_enqueue(v, q, t)
    BY <1>5 DEF os_taskqueue_reprio
  <2>2. /\ u \in TaskQueueType /\ Coherent(u)
        /\ u.task_queue = [s.task_queue EXCEPT ![t] = NULL]
        /\ u.prio_current = s.prio_current
        /\ u.state = s.state
    BY <1>5, UnlinkFromQueue DEF Removed
  <2> HIDE DEF u, moved
  <2>3. u.task_queue[t] = NULL
    BY <2>2, <1>1
  <2>4. /\ v \in TaskQueueType /\ Coherent(v) /\ v.task_queue = u.task_queue
        /\ v.prio_current = [u.prio_current EXCEPT ![t] = prio]
        /\ v.state = u.state
    BY <1>2, <2>2, <2>3
  <2> HIDE DEF v
  <2>5. q \in Queue /\ v.task_queue[t] = NULL
    BY <1>1, <1>5, <2>3, <2>4
  <2>6. /\ r \in TaskQueueType /\ Coherent(r)
        /\ r.task_queue = [v.task_queue EXCEPT ![t] = q]
        /\ r.prio_current = v.prio_current /\ r.state = v.state
    <3> HIDE DEF r, q
    <3> QED BY <2>1, <2>4, <2>5, EnqueueProperties
  <2>7. [v.task_queue EXCEPT ![t] = q] = s.task_queue
    BY <1>1, <2>2, <2>4
  <2> QED BY <2>2, <2>4, <2>6, <2>7
<1> QED BY <1>3, <1>4, <1>5

\* The task that a dequeue function takes from queue q: it is on q, nobody on
\* q outranks it, and it is on no queue afterwards.
TopTaken(s, q, d) ==
    /\ d.task \in Task
    /\ s.task_queue[d.task] = q
    /\ \A u \in Task : s.task_queue[u] = q => s.prio_current[u] <= s.prio_current[d.task]
    /\ Removed(s, d.s, d.task)

\* os_taskqueue_intdequeue for the highest bit of the mask takes the top task.
LEMMA IntDequeueProperties ==
    ASSUME NEW s \in TaskQueueType, Coherent(s), NEW q \in Queue, s.mask[q] # {}
    PROVE  LET top == arch_bitmask_fls(s.mask[q]) - 1
           IN  /\ TopTaken(s, q, os_taskqueue_intdequeue(s, q, top))
               /\ s.prio_current[os_taskqueue_intdequeue(s, q, top).task] = top
<1> DEFINE p == arch_bitmask_fls(s.mask[q]) - 1
           d == os_taskqueue_intdequeue(s, q, p)
           b == s.tasks[q][p]
           t == Head(b)
           rest == Tail(b)
<1>1. /\ s.tasks \in [Queue -> [Prio -> Seq(Task)]]
      /\ s.mask[q] \in SUBSET Prio
      /\ s.task_queue \in [Task -> Queue \cup {NULL}]
      /\ s.prio_current \in [Task -> Prio]
  BY DEF TaskQueueType
<1>2. p \in s.mask[q] /\ \A o \in s.mask[q] : o <= p
  BY <1>1, FlsProperties
<1>3. d.task = t /\ d.s = Removal(s, q, p, t, rest)
  BY DEF os_taskqueue_intdequeue, Removal
<1> HIDE DEF p, d
<1>4. /\ p \in Prio /\ b \in Seq(Task) /\ b # <<>> /\ IsInjective(b)
      /\ ToSet(b) = {u \in Task : s.task_queue[u] = q /\ s.prio_current[u] = p}
  BY <1>1, <1>2 DEF Coherent, MaskExact, LinkedOnce, BucketsExact
<1> HIDE DEF b
<1>5. /\ t \in Task /\ t \in ToSet(b) /\ rest \in Seq(Task)
      /\ ToSet(rest) = ToSet(b) \ {t} /\ IsInjective(rest)
  BY <1>4, TailBucket
<1> HIDE DEF t, rest
<1>6. s.task_queue[t] = q /\ s.prio_current[t] = p
  BY <1>4, <1>5
<1>7. ASSUME NEW u \in Task, s.task_queue[u] = q
      PROVE  s.prio_current[u] <= p
  <2> DEFINE bu == s.tasks[q][s.prio_current[u]]
  <2>1. s.prio_current[u] \in Prio /\ bu \in Seq(Task)
    BY <1>1
  <2>2. u \in ToSet(bu)
    BY <1>7, <2>1 DEF Coherent, BucketsExact
  <2>3. bu # <<>>
    BY <2>1, <2>2, EmptyBucket
  <2>4. s.prio_current[u] \in s.mask[q]
    BY <2>1, <2>3 DEF Coherent, MaskExact
  <2> QED BY <2>4, <1>2
<1>8. Removed(s, d.s, t)
  <2>1. ToSet(rest) = ToSet(s.tasks[q][p]) \ {t}
    BY <1>5 DEF b
  <2> QED BY <1>3, <1>4, <1>5, <1>6, <2>1, RemoveProperties
<1>9. TopTaken(s, q, d) /\ s.prio_current[d.task] = p
  BY <1>3, <1>5, <1>6, <1>7, <1>8 DEF TopTaken
<1> QED BY <1>9 DEF d, p

\* os_taskqueue_dequeue takes the top task and returns NULL only if nobody is
\* on the queue.
LEMMA DequeueProperties ==
    ASSUME NEW s \in TaskQueueType, Coherent(s), NEW q \in Queue
    PROVE  LET d == os_taskqueue_dequeue(s, q)
           IN  \/ d.task = NULL /\ d.s = s /\ \A u \in Task : s.task_queue[u] # q
               \/ TopTaken(s, q, d)
<1>1. s.mask[q] \in SUBSET Prio
  BY DEF TaskQueueType
<1>2. CASE s.mask[q] = {}
  <2>1. os_taskqueue_dequeue(s, q) = [task |-> NULL, s |-> s]
    BY <1>1, <1>2, FlsProperties DEF os_taskqueue_dequeue
  <2>2. ASSUME NEW u \in Task, s.task_queue[u] = q PROVE FALSE
    <3> DEFINE bu == s.tasks[q][s.prio_current[u]]
    <3>1. s.prio_current[u] \in Prio /\ bu \in Seq(Task)
      BY DEF TaskQueueType
    <3>2. u \in ToSet(bu)
      BY <2>2, <3>1 DEF Coherent, BucketsExact
    <3>3. bu # <<>>
      BY <3>1, <3>2, EmptyBucket
    <3> QED BY <3>1, <3>3, <1>2 DEF Coherent, MaskExact
  <2> QED BY <2>1, <2>2
<1>3. CASE s.mask[q] # {}
  <2>1. os_taskqueue_dequeue(s, q) =
           os_taskqueue_intdequeue(s, q, arch_bitmask_fls(s.mask[q]) - 1)
    BY <1>1, <1>3, FlsProperties DEF os_taskqueue_dequeue
  <2> QED BY <2>1, <1>3, IntDequeueProperties
<1> QED BY <1>2, <1>3

\* os_taskqueue_dequeue_prio takes the top task if it has the priority asked
\* for, and returns NULL only if everybody on the queue is below it.
LEMMA DequeuePrioProperties ==
    ASSUME NEW s \in TaskQueueType, Coherent(s), NEW q \in Queue, NEW prio \in Nat
    PROVE  LET d == os_taskqueue_dequeue_prio(s, q, prio)
           IN  \/ /\ d.task = NULL /\ d.s = s
                  /\ \A u \in Task : s.task_queue[u] = q => s.prio_current[u] < prio
               \/ TopTaken(s, q, d) /\ s.prio_current[d.task] >= prio
<1> DEFINE fls == arch_bitmask_fls(s.mask[q])
           top == fls - 1
           d == os_taskqueue_intdequeue(s, q, top)
<1>1. s.mask[q] \in SUBSET Prio
  BY DEF TaskQueueType
<1>2. CASE s.mask[q] = {}
  <2>1. os_taskqueue_dequeue_prio(s, q, prio) = [task |-> NULL, s |-> s]
    BY <1>1, <1>2, FlsProperties DEF os_taskqueue_dequeue_prio
  <2>2. os_taskqueue_dequeue(s, q) = [task |-> NULL, s |-> s]
    BY <1>1, <1>2, FlsProperties DEF os_taskqueue_dequeue
  <2>3. NULL \notin Task
    BY NullAssumption
  <2>4. \A u \in Task : s.task_queue[u] # q
    <3> DEFINE e == os_taskqueue_dequeue(s, q)
    <3>1. e.task = NULL
      BY <2>2
    <3>2. \/ e.task = NULL /\ e.s = s /\ \A u \in Task : s.task_queue[u] # q
          \/ TopTaken(s, q, e)
      BY DequeueProperties
    <3> HIDE DEF e
    <3> QED BY <2>3, <3>1, <3>2 DEF TopTaken
  <2> QED BY <2>1, <2>4
<1>3. CASE s.mask[q] # {}
  <2>1. fls # 0 /\ top \in Prio
    BY <1>1, <1>3, FlsProperties
  <2>2. TopTaken(s, q, d) /\ s.prio_current[d.task] = top
    BY <1>3, IntDequeueProperties
  <2>3. os_taskqueue_dequeue_prio(s, q, prio) =
           IF top < prio THEN [task |-> NULL, s |-> s] ELSE d
    BY <2>1 DEF os_taskqueue_dequeue_prio
  <2>4. \A u \in Task : s.task_queue[u] = q => s.prio_current[u] <= top
    BY <2>2 DEF TopTaken
  <2>5. \A u \in Task : s.prio_current[u] \in Prio
    BY DEF TaskQueueType
  <2> HIDE DEF top, d, fls
  <2>6. CASE top < prio
    <3>1. \A u \in Task : s.task_queue[u] = q => s.prio_current[u] < prio
      BY <2>1, <2>4, <2>5, <2>6 DEF Prio
    <3> QED BY <2>3, <2>6, <3>1
  <2>7. CASE ~(top < prio)
    <3>1. top >= prio
      BY <2>1, <2>7 DEF Prio
    <3> QED BY <2>2, <2>3, <2>7, <3>1
  <2> QED BY <2>6, <2>7
<1> QED BY <1>2, <1>3

---------------------------------------------------------------------------
(* The loops over a queue or a chain of tasks are recursive functions of   *)
(* the number of turns.                                                    *)

\* Induction on the number of turns, for a set P of numbers.
LEMMA CountUp ==
    ASSUME NEW N \in Nat, NEW P, 0 \in P,
           \A n \in 1 .. N : n - 1 \in P => n \in P
    PROVE  0 .. N \subseteq P
<1> DEFINE bad == {n \in 0 .. N : n \notin P}
           R == OpToRel(<, Nat)
<1> SUFFICES ASSUME bad # {} PROVE FALSE
  OBVIOUS
<1>1. bad \subseteq Nat
  OBVIOUS
<1>2. \E x \in bad : \A y \in bad : ~(<<y, x>> \in R)
  <2> HIDE DEF bad, R
  <2>1. IsWellFoundedOn(R, Nat)
    BY NatLessThanWellFounded DEF R
  <2> QED BY <2>1, <1>1, WFMin
<1>3. PICK x \in bad : \A y \in bad : ~(y < x)
  BY <1>1, <1>2 DEF OpToRel
<1>4. x \in 1 .. N /\ x - 1 \in 0 .. N /\ x - 1 < x
  BY <1>3
<1>5. x - 1 \in P
  BY <1>3, <1>4
<1> QED BY <1>3, <1>4, <1>5

\* f[n] is the value after n turns of a loop that starts with x and whose turn
\* n is the function g[n].
Turns(N, S, x, g, f) ==
    f \in [0 .. N -> S] /\ f[0] = x /\ \A n \in 1 .. N : f[n] = g[n][f[n - 1]]

\* A loop whose turns stay in S has a value after every turn.
LEMMA Loop ==
    ASSUME NEW N \in Nat, NEW S, NEW x \in S, NEW g, g \in [1 .. N -> [S -> S]]
    PROVE  \E f : Turns(N, S, x, g, f)
<1> DEFINE Up(f, k) == f[0] = x /\ \A n \in 1 .. k : f[n] = g[n][f[n - 1]]
           P == {k \in 0 .. N : \E f \in [0 .. k -> S] : Up(f, k)}
<1>1. 0 \in P
  <2>1. [n \in 0 .. 0 |-> x] \in [0 .. 0 -> S]
    OBVIOUS
  <2>2. Up([n \in 0 .. 0 |-> x], 0)
    OBVIOUS
  <2>3. \E f \in [0 .. 0 -> S] : Up(f, 0)
    <3> HIDE DEF Up
    <3> QED BY <2>1, <2>2, Zenon
  <2> QED BY <2>3
<1>2. ASSUME NEW k \in 1 .. N, k - 1 \in P PROVE k \in P
  <2>1. PICK f \in [0 .. k - 1 -> S] : Up(f, k - 1)
    BY <1>2
  <2> DEFINE h == [n \in 0 .. k |-> IF n < k THEN f[n] ELSE g[k][f[k - 1]]]
  <2>2. h \in [0 .. k -> S]
    <3>1. f[k - 1] \in S /\ g[k] \in [S -> S]
      OBVIOUS
    <3> QED BY <3>1
  <2>3. ASSUME NEW n \in 1 .. k PROVE h[n] = g[n][h[n - 1]]
    <3>1. CASE n = k
      BY <3>1
    <3>2. CASE n < k
      <4>1. f[n] = g[n][f[n - 1]]
        BY <2>1, <3>2
      <4> QED BY <4>1, <3>2
    <3> QED BY <3>1, <3>2
  <2>4. Up(h, k)
    BY <2>1, <2>3
  <2>5. \E e \in [0 .. k -> S] : Up(e, k)
    <3> HIDE DEF Up, h
    <3> QED BY <2>2, <2>4, Zenon
  <2>6. k \in 0 .. N
    OBVIOUS
  <2> HIDE DEF Up
  <2> QED BY <2>5, <2>6, Zenon
<1> HIDE DEF P
<1>3. N \in P
  <2>1. 0 .. N \subseteq P
    BY <1>1, <1>2, CountUp
  <2> QED BY <2>1
<1> QED BY <1>3 DEF P, Turns

\* The values of a loop that starts with x, whose turn n takes the values of
\* S[n - 1] to those of S[n].
Stages(N, S, x, g, f) ==
    /\ f = [n \in 0 .. N |-> f[n]] /\ f[0] = x
    /\ \A n \in 0 .. N : f[n] \in S[n]
    /\ \A n \in 1 .. N : f[n] = g[n][f[n - 1]]

LEMMA StagedLoop ==
    ASSUME NEW N \in Nat, NEW S, NEW x \in S[0], NEW g,
           \A n \in 1 .. N : \A r \in S[n - 1] : g[n][r] \in S[n]
    PROVE  \E f : Stages(N, S, x, g, f)
<1> DEFINE U == UNION {S[n] : n \in 0 .. N}
           h == [n \in 1 .. N |-> [r \in U |-> IF r \in S[n - 1] THEN g[n][r] ELSE x]]
<1>1. x \in U /\ \A n \in 0 .. N : S[n] \subseteq U
  OBVIOUS
<1>2. h \in [1 .. N -> [U -> U]]
  <2>1. ASSUME NEW n \in 1 .. N, NEW r \in U
        PROVE  (IF r \in S[n - 1] THEN g[n][r] ELSE x) \in U
    BY <1>1
  <2> HIDE DEF U
  <2> QED BY <2>1
<1>3. \A n \in 1 .. N : \A r \in S[n - 1] : h[n][r] = g[n][r]
  <2>1. \A n \in 1 .. N : n - 1 \in 0 .. N
    OBVIOUS
  <2> HIDE DEF U
  <2> QED BY <1>1, <2>1
<1> HIDE DEF U, h
<1>4. PICK f : Turns(N, U, x, h, f)
  BY <1>1, <1>2, Loop, Zenon
<1>5. f \in [0 .. N -> U] /\ f[0] = x /\ \A n \in 1 .. N : f[n] = h[n][f[n - 1]]
  BY <1>4 DEF Turns
<1> DEFINE P == {n \in 0 .. N : f[n] \in S[n]}
<1>6. 0 \in P
  BY <1>5
<1>7. ASSUME NEW n \in 1 .. N, n - 1 \in P PROVE n \in P
  BY <1>3, <1>5, <1>7
<1>8. 0 .. N \subseteq P
  <2> HIDE DEF P
  <2> QED BY <1>6, <1>7, CountUp
<1>9. \A n \in 0 .. N : f[n] \in S[n]
  BY <1>8
<1>10. \A n \in 1 .. N : f[n] = g[n][f[n - 1]]
  <2> SUFFICES ASSUME NEW n \in 1 .. N PROVE f[n] = g[n][f[n - 1]]
    OBVIOUS
  <2>1. n - 1 \in 0 .. N
    OBVIOUS
  <2> QED BY <1>3, <1>5, <1>9, <2>1
<1>11. Stages(N, S, x, g, f)
  BY <1>5, <1>9, <1>10 DEF Stages
<1> QED BY <1>11

---------------------------------------------------------------------------
(* The inductive invariant of the scheduler.                               *)

Runnable == {"RUNNING", "READY"}
JoinLabel == {"join_wait", "join_end"}

\* Behind the switch of os_task_block_switch.
WaitLabel == {"join_wait", "mtx_wait", "sem_wait", "wq_wait"}

\* Queues and TCBs with task c on the CPU: coherent, and every task is in the
\* place that its state names.
InPlace(s, c) ==
    /\ s \in TaskQueueType
    /\ Coherent(s)
    /\ c \in Task
    /\ s.task_queue[c] = NULL
    /\ s.state[c] \in Runnable
    /\ \A t \in Task :
          /\ s.task_queue[t] \in Queue \ {ready_queue} <=> s.state[t] = "WAIT"
          /\ s.task_queue[t] = ready_queue => s.state[t] = "READY"
          /\ t # c => \/ s.task_queue[t] = ready_queue
                      \/ s.state[t] \in {"WAIT", "DESTROYED", "INVALID"}
    /\ c = Idle \/ s.task_queue[Idle] = ready_queue

\* No READY task outranks c.
NotOutranked(s, c) ==
    \A t \in Task : s.task_queue[t] = ready_queue => s.prio_current[t] <= s.prio_current[c]

\* The joining tasks and the tasks they join, for queues s, control locations
\* p, join_sem j and block_code b.
JoinsMatch(s, p, j, b) ==
    /\ \A t \in Task : s.state[t] \in {"DESTROYED", "INVALID"} => p[t] = "run"
    /\ \A t \in Task : s.state[t] = "WAIT" => p[t] \in WaitLabel
    /\ \A t \in Task : s.task_queue[t] \in Task => s.task_queue[t] = t /\ p[t] = "join_wait"
    /\ \A u \in Task : j[u] # NULL => p[j[u]] \in JoinLabel /\ s.state[u] # "INVALID"
    /\ \A u \in Task, v \in Task : j[u] = j[v] /\ j[u] # NULL => u = v
    /\ \A t \in Task : p[t] \in JoinLabel /\ s.state[t] # "WAIT" =>
          /\ b[t] = "OK"
          /\ \E u \in Task : j[u] = t /\ s.state[u] = "DESTROYED" /\ b[u] = "EXIT"
    /\ \A t \in Task : p[t] \in JoinLabel /\ s.state[t] = "WAIT" =>
          /\ s.task_queue[t] = t
          /\ \E u \in Task : j[u] = t /\ s.state[u] \in {"RUNNING", "READY", "WAIT"}

\* sched_lock is the number of open locks of all tasks, and one more until
\* os_start.
LocksAreCounted ==
    sched_lock = Cardinality(OpenLocks) + IF pc[task_current] = "boot" THEN 1 ELSE 0

LocksMatch ==
    /\ IsFiniteSet(OpenLocks)
    /\ LocksAreCounted
    /\ \A t \in Task : pc[t] = "boot" =>
          /\ t = task_current /\ isr_nesting = 0
          /\ \A u \in Task \ {t} : lock_depth[u] = 0

\* The part of the inductive invariant that every user of the scheduler keeps.
SchedCore ==
    /\ TypeOK
    /\ InPlace(tq, task_current)
    /\ JoinsMatch(tq, pc, join_sem, block_code)
    /\ LocksMatch

\* The inductive invariant.
SchedInv == SchedCore /\ HighestPrioRuns

---------------------------------------------------------------------------
(* The parts of a step.                                                    *)

\* r is s with state v for task t and nothing else changed.
LEMMA SetState ==
    ASSUME NEW s \in TaskQueueType, Coherent(s), NEW t \in Task, NEW v \in TaskState
    PROVE  LET r == [s EXCEPT !.state[t] = v]
           IN  /\ r \in TaskQueueType
               /\ Coherent(r)
               /\ r.task_queue = s.task_queue
               /\ r.prio_current = s.prio_current
               /\ r.state = [s.state EXCEPT ![t] = v]
<1> DEFINE r == [s EXCEPT !.state[t] = v]
<1>1. /\ r \in TaskQueueType
      /\ r.tasks = s.tasks /\ r.mask = s.mask /\ r.task_queue = s.task_queue
      /\ r.prio_current = s.prio_current
      /\ r.state = [s.state EXCEPT ![t] = v]
  BY DEF TaskQueueType
<1> HIDE DEF r
<1>2. Coherent(r)
  BY <1>1 DEF Coherent, MaskExact, BucketsExact, LinkedOnce
<1> QED BY <1>1, <1>2 DEF r

\* r is s with t, which was on no queue, on queue q in state v.
Linked(s, r, q, t, v) ==
    /\ r \in TaskQueueType
    /\ Coherent(r)
    /\ r.task_queue = [s.task_queue EXCEPT ![t] = q]
    /\ r.prio_current = s.prio_current
    /\ r.state = [s.state EXCEPT ![t] = v]

LEMMA LinkTask ==
    ASSUME NEW s \in TaskQueueType, Coherent(s), NEW t \in Task, NEW q \in Queue,
           NEW v \in TaskState, s.task_queue[t] = NULL
    PROVE  Linked(s, os_taskqueue_enqueue([s EXCEPT !.state[t] = v], q, t), q, t, v)
<1> DEFINE m == [s EXCEPT !.state[t] = v]
           r == os_taskqueue_enqueue(m, q, t)
<1>1. /\ m \in TaskQueueType /\ Coherent(m)
      /\ m.task_queue = s.task_queue /\ m.prio_current = s.prio_current
      /\ m.state = [s.state EXCEPT ![t] = v]
  BY SetState
<1> HIDE DEF m
<1>2. m.task_queue[t] = NULL
  BY <1>1
<1>3. /\ r \in TaskQueueType /\ Coherent(r)
      /\ r.task_queue = [m.task_queue EXCEPT ![t] = q]
      /\ r.prio_current = m.prio_current /\ r.state = m.state
  BY <1>1, <1>2, EnqueueProperties
<1> HIDE DEF r
<1>4. Linked(s, r, q, t, v)
  BY <1>1, <1>3 DEF Linked
<1> QED BY <1>4 DEF r, m

\* os_task_makeready of a task that is on no queue.
LEMMA MakeReady ==
    ASSUME NEW s \in TaskQueueType, Coherent(s), NEW t \in Task, s.task_queue[t] = NULL
    PROVE  Linked(s, os_task_makeready(s, t), ready_queue, t, "READY")
<1>1. ready_queue \in Queue /\ "READY" \in TaskState
  BY QueueAssumption DEF TaskState
<1> QED BY <1>1, LinkTask DEF os_task_makeready

\* What os_schedule leaves alone: a task stays runnable or keeps its state, and
\* stays on its queue unless it moves between the CPU and the ready queue.
SameBut(s, r) ==
    \A t \in Task :
        /\ r.state[t] = s.state[t] \/ (r.state[t] \in Runnable /\ s.state[t] \in Runnable)
        /\ \/ r.task_queue[t] = s.task_queue[t]
           \/ r.task_queue[t] \in {NULL, ready_queue} /\ s.task_queue[t] \in {NULL, ready_queue}

\* What a step that ends in os_schedule(s, ret, h) establishes.
Scheduled(s, ret) ==
    /\ InPlace(tq', task_current')
    /\ deferred' \/ NotOutranked(tq', task_current')
    /\ deferred' \in BOOLEAN
    /\ SameBut(s, tq')
    /\ tq'.prio_current = s.prio_current
    /\ task_current' = task_current \/ NotOutranked(tq', task_current')
    /\ \/ pc' = pc /\ isr_nesting # 0
       \/ pc' = [pc EXCEPT ![task_current] = ret]
       \/ pc' = [pc EXCEPT ![task_current] = "sched"] /\ ret = "run"
    /\ sched_lock' # 0 => /\ task_current' = task_current
                          /\ pc' = [pc EXCEPT ![task_current] = ret]

\* Putting the running task c back on the ready queue and taking n from it.
LEMMA Exchange ==
    ASSUME NEW s, NEW c \in Task, InPlace(s, c), NEW n \in Task,
           s.task_queue[n] = ready_queue,
           NEW r \in TaskQueueType, Coherent(r),
           r.task_queue = [[s.task_queue EXCEPT ![n] = NULL] EXCEPT ![c] = ready_queue],
           NEW v \in Runnable,
           r.state = [[s.state EXCEPT ![c] = "READY"] EXCEPT ![n] = v]
    PROVE  InPlace(r, n) /\ SameBut(s, r)
<1>1. /\ s.task_queue \in [Task -> Queue \cup {NULL}]
      /\ s.state \in [Task -> TaskState]
      /\ ready_queue \in Queue /\ ready_queue # NULL
  BY QueueAssumption, NullAssumption DEF InPlace, TaskQueueType
<1>2. c # n /\ s.task_queue[c] = NULL /\ s.state[c] \in Runnable /\ s.state[n] = "READY"
  BY <1>1 DEF InPlace
<1>3. /\ r.task_queue[c] = ready_queue /\ r.task_queue[n] = NULL
      /\ r.state[c] = "READY" /\ r.state[n] = v
      /\ \A t \in Task \ {c, n} : r.task_queue[t] = s.task_queue[t] /\ r.state[t] = s.state[t]
  BY <1>1, <1>2
<1>4. SameBut(s, r)
  BY <1>2, <1>3 DEF SameBut, Runnable
<1>5. InPlace(r, n)
  <2>1. ASSUME NEW t \in Task
        PROVE  /\ r.task_queue[t] \in Queue \ {ready_queue} <=> r.state[t] = "WAIT"
               /\ r.task_queue[t] = ready_queue => r.state[t] = "READY"
               /\ t # n => \/ r.task_queue[t] = ready_queue
                           \/ r.state[t] \in {"WAIT", "DESTROYED", "INVALID"}
    <3>1. CASE t = c
      BY <3>1, <1>2, <1>3
    <3>2. CASE t = n
      BY <3>2, <1>1, <1>3, NullAssumption DEF Runnable
    <3>3. CASE t \notin {c, n}
      BY <3>3, <1>3 DEF InPlace
    <3> QED BY <3>1, <3>2, <3>3
  <2>2. n = Idle \/ r.task_queue[Idle] = ready_queue
    BY <1>3, IdleAssumption DEF InPlace
  <2> QED BY <2>1, <2>2, <1>3 DEF InPlace
<1> QED BY <1>4, <1>5

LEMMA ScheduleStep ==
    ASSUME NEW s, InPlace(s, task_current), NEW ret, NEW h \in {0, 1},
           os_schedule(s, ret, h)
    PROVE  Scheduled(s, ret)
<1> DEFINE c == task_current
           may == isr_nesting <= 1 /\ sched_lock' = 0
           next == NextTask(s, h)
           out == os_task_makeready(next.s, c)
           prio == s.prio_current[c] + h
<1>1. /\ s \in TaskQueueType /\ Coherent(s) /\ c \in Task
      /\ s.task_queue[c] = NULL /\ s.prio_current \in [Task -> Prio]
      /\ s.task_queue \in [Task -> Queue \cup {NULL}]
      /\ s.state \in [Task -> TaskState]
      /\ ready_queue \in Queue /\ ready_queue # NULL
  BY QueueAssumption, NullAssumption DEF InPlace, TaskQueueType
<1>2. prio \in Nat
  BY <1>1, PrioAssumption DEF Prio
<1>3. \/ /\ next.task = NULL /\ next.s = s
         /\ \A u \in Task : s.task_queue[u] = ready_queue => s.prio_current[u] < prio
      \/ TopTaken(s, ready_queue, next) /\ s.prio_current[next.task] >= prio
  BY <1>1, <1>2, DequeuePrioProperties DEF NextTask
<1>4. /\ deferred' = ~may
      /\ IF ~may \/ next.task = NULL
         THEN /\ tq' = s
              /\ pc' = [pc EXCEPT ![c] = ret]
              /\ task_current' = task_current
         ELSE /\ task_current' = next.task
              /\ IF isr_nesting = 0
                 THEN /\ tq' = out
                      /\ pc' = [pc EXCEPT ![c] = IF ret = "run" THEN "sched" ELSE ret]
                 ELSE /\ tq' = [out EXCEPT !.state[next.task] = "RUNNING"]
                      /\ pc' = pc
  BY DEF os_schedule
<1> HIDE DEF next
<1>5. CASE ~may \/ next.task = NULL
  <2>1. SameBut(s, s)
    BY DEF SameBut
  <2>2. InPlace(tq', task_current')
    BY <1>4, <1>5
  <2>3. deferred' \/ NotOutranked(tq', task_current')
    <3>1. CASE ~may
      BY <1>4, <3>1
    <3>2. CASE may
      <4>1. next.task = NULL
        BY <1>5, <3>2
      <4>2. ASSUME NEW u \in Task, s.task_queue[u] = ready_queue
            PROVE  s.prio_current[u] <= s.prio_current[c]
        <5>1. s.prio_current[u] < prio
          BY <1>3, <4>1, <4>2, NullAssumption DEF TopTaken
        <5>2. s.prio_current[u] \in Int /\ s.prio_current[c] \in Int
          BY <1>1 DEF Prio
        <5> QED BY <5>1, <5>2
      <4> QED BY <1>4, <4>1, <4>2 DEF NotOutranked
    <3> QED BY <3>1, <3>2
  <2>4. deferred' \in BOOLEAN
    BY <1>4
  <2> QED BY <2>1, <2>2, <2>3, <2>4, <1>4, <1>5 DEF Scheduled
<1>6. CASE may /\ next.task # NULL
  <2> DEFINE n == next.task
  <2>1. /\ TopTaken(s, ready_queue, next) /\ s.prio_current[n] >= prio
        /\ n \in Task /\ s.task_queue[n] = ready_queue
    BY <1>3, <1>6 DEF TopTaken
  <2>2. /\ next.s \in TaskQueueType /\ Coherent(next.s)
        /\ next.s.task_queue = [s.task_queue EXCEPT ![n] = NULL]
        /\ next.s.prio_current = s.prio_current /\ next.s.state = s.state
        /\ \A u \in Task : s.task_queue[u] = ready_queue => s.prio_current[u] <= s.prio_current[n]
    BY <2>1 DEF TopTaken, Removed
  <2>3. n # c /\ next.s.task_queue[c] = NULL
    BY <1>1, <2>1, <2>2
  <2>4. Linked(next.s, out, ready_queue, c, "READY")
    BY <1>1, <2>2, <2>3, MakeReady
  <2>5. /\ out \in TaskQueueType /\ Coherent(out)
        /\ out.task_queue = [[s.task_queue EXCEPT ![n] = NULL] EXCEPT ![c] = ready_queue]
        /\ out.prio_current = s.prio_current
        /\ out.state = [s.state EXCEPT ![c] = "READY"]
    BY <2>2, <2>4 DEF Linked
  <2> HIDE DEF out
  <2>6. /\ tq' \in TaskQueueType /\ Coherent(tq')
        /\ tq'.task_queue = out.task_queue /\ tq'.prio_current = s.prio_current
        /\ \E v \in Runnable :
              tq'.state = [[s.state EXCEPT ![c] = "READY"] EXCEPT ![n] = v]
    <3>1. CASE isr_nesting = 0
      <4>1. tq' = out
        BY <1>4, <1>6, <3>1
      <4>2. s.state[n] = "READY"
        BY <2>1 DEF InPlace
      <4>3. [[s.state EXCEPT ![c] = "READY"] EXCEPT ![n] = "READY"] = [s.state EXCEPT ![c] = "READY"]
        BY <1>1, <2>1, <2>3, <4>2
      <4> QED BY <4>1, <4>3, <2>5 DEF Runnable
    <3>2. CASE isr_nesting # 0
      <4>1. tq' = [out EXCEPT !.state[n] = "RUNNING"]
        BY <1>4, <1>6, <3>2
      <4>2. "RUNNING" \in TaskState /\ "RUNNING" \in Runnable
        BY DEF TaskState, Runnable
      <4>3. /\ tq' \in TaskQueueType /\ Coherent(tq')
            /\ tq'.task_queue = out.task_queue /\ tq'.prio_current = out.prio_current
            /\ tq'.state = [out.state EXCEPT ![n] = "RUNNING"]
        BY <4>1, <4>2, <2>1, <2>5, SetState
      <4> QED BY <4>2, <4>3, <2>5
    <3> QED BY <3>1, <3>2
  <2>7. PICK v \in Runnable :
           tq'.state = [[s.state EXCEPT ![c] = "READY"] EXCEPT ![n] = v]
    BY <2>6
  <2>8. InPlace(tq', n) /\ SameBut(s, tq')
    BY <1>1, <2>1, <2>5, <2>6, <2>7, Exchange
  <2>9. task_current' = n /\ deferred' = FALSE
    BY <1>4, <1>6
  <2>10. NotOutranked(tq', n)
    <3>1. s.prio_current[c] <= s.prio_current[n]
      <4>1. s.prio_current[c] \in Int /\ s.prio_current[n] \in Int
        BY <1>1, <2>1 DEF Prio
      <4> QED BY <4>1, <2>1
    <3>2. \A u \in Task : tq'.task_queue[u] = ready_queue => u = c \/ s.task_queue[u] = ready_queue
      BY <1>1, <2>5, <2>6
    <3> QED BY <3>1, <3>2, <2>2, <2>6 DEF NotOutranked
  <2>11. \/ pc' = pc /\ isr_nesting # 0
         \/ pc' = [pc EXCEPT ![c] = ret]
         \/ pc' = [pc EXCEPT ![c] = "sched"] /\ ret = "run"
    BY <1>4, <1>6
  <2> QED BY <2>6, <2>8, <2>9, <2>10, <2>11, <1>6 DEF Scheduled
<1> QED BY <1>5, <1>6

\* Every task is in its place and none of them has the CPU.
Vacant(s) ==
    /\ s \in TaskQueueType
    /\ Coherent(s)
    /\ \A t \in Task :
          /\ s.task_queue[t] \in Queue \ {ready_queue} <=> s.state[t] = "WAIT"
          /\ s.task_queue[t] = ready_queue => s.state[t] = "READY"
          /\ \/ s.task_queue[t] = ready_queue
             \/ s.state[t] \in {"WAIT", "DESTROYED", "INVALID"}
    /\ s.task_queue[Idle] = ready_queue

\* The switch of os_task_block_switch and os_task_exit finds a task.
LEMMA SwitchStep ==
    ASSUME NEW s, Vacant(s), NEW ret, SwitchAway(s, ret)
    PROVE  /\ InPlace(tq', task_current')
           /\ NotOutranked(tq', task_current')
           /\ SameBut(s, tq')
           /\ tq'.prio_current = s.prio_current
           /\ deferred' = FALSE
           /\ pc' = [pc EXCEPT ![task_current] = ret]
<1> DEFINE d == os_taskqueue_dequeue(s, ready_queue)
           n == d.task
<1>1. /\ s \in TaskQueueType /\ Coherent(s) /\ Idle \in Task
      /\ s.task_queue[Idle] = ready_queue
      /\ s.task_queue \in [Task -> Queue \cup {NULL}]
      /\ ready_queue \in Queue /\ ready_queue # NULL
  BY IdleAssumption, QueueAssumption, NullAssumption DEF Vacant, TaskQueueType
<1>2. TopTaken(s, ready_queue, d)
  BY <1>1, DequeueProperties
<1>3. tq' = d.s /\ task_current' = n /\ deferred' = FALSE
      /\ pc' = [pc EXCEPT ![task_current] = ret]
  BY DEF SwitchAway
<1> HIDE DEF d
<1>4. /\ n \in Task /\ s.task_queue[n] = ready_queue
      /\ tq' \in TaskQueueType /\ Coherent(tq')
      /\ tq'.task_queue = [s.task_queue EXCEPT ![n] = NULL]
      /\ tq'.prio_current = s.prio_current /\ tq'.state = s.state
      /\ \A u \in Task : s.task_queue[u] = ready_queue => s.prio_current[u] <= s.prio_current[n]
  BY <1>2, <1>3 DEF TopTaken, Removed
<1>5. tq'.task_queue[n] = NULL /\ \A t \in Task \ {n} : tq'.task_queue[t] = s.task_queue[t]
  BY <1>1, <1>4
<1>6. NotOutranked(tq', n)
  BY <1>1, <1>4, <1>5 DEF NotOutranked
<1>7. SameBut(s, tq')
  BY <1>4, <1>5 DEF SameBut
<1>8. InPlace(tq', n)
  <2>1. s.state[n] = "READY"
    BY <1>4 DEF Vacant
  <2>2. ASSUME NEW t \in Task
        PROVE  /\ tq'.task_queue[t] \in Queue \ {ready_queue} <=> tq'.state[t] = "WAIT"
               /\ tq'.task_queue[t] = ready_queue => tq'.state[t] = "READY"
               /\ t # n => \/ tq'.task_queue[t] = ready_queue
                           \/ tq'.state[t] \in {"WAIT", "DESTROYED", "INVALID"}
    <3>1. CASE t = n
      BY <3>1, <2>1, <1>1, <1>4, <1>5, NullAssumption
    <3>2. CASE t # n
      BY <3>2, <1>4, <1>5 DEF Vacant
    <3> QED BY <3>1, <3>2
  <2>3. n = Idle \/ tq'.task_queue[Idle] = ready_queue
    BY <1>1, <1>5
  <2> QED BY <2>1, <2>2, <2>3, <1>4, <1>5 DEF InPlace, Runnable
<1> QED BY <1>3, <1>4, <1>6, <1>7, <1>8

\* The joins survive a switch and a change of the control location of a task
\* that can run.
LEMMA JoinFrame ==
    ASSUME NEW s, NEW r, SameBut(s, r), NEW p, NEW p2,
           NEW j \in [Task -> Task \cup {NULL}], NEW b,
           JoinsMatch(s, p, j, b),
           \A t \in Task :
               \/ p2[t] = p[t]
               \/ /\ s.state[t] \in Runnable
                  /\ s.task_queue[t] \notin Task
                  /\ p2[t] \in JoinLabel <=> p[t] \in JoinLabel
    PROVE  JoinsMatch(r, p2, j, b)
<1> USE DEF Runnable
<1>1. ready_queue \notin Task /\ NULL \notin Task
  BY QueueAssumption, NullAssumption
<1>2. \A t \in Task : r.state[t] \in {"DESTROYED", "INVALID"} => p2[t] = "run"
  BY DEF SameBut, JoinsMatch
<1>3. \A t \in Task : r.state[t] = "WAIT" => p2[t] \in WaitLabel
  BY DEF SameBut, JoinsMatch
<1>4. \A t \in Task : r.task_queue[t] \in Task => r.task_queue[t] = t /\ p2[t] = "join_wait"
  BY <1>1 DEF SameBut, JoinsMatch
<1>5. \A t \in Task : p2[t] \in JoinLabel <=> p[t] \in JoinLabel
  OBVIOUS
<1>6. \A u \in Task : j[u] # NULL => p2[j[u]] \in JoinLabel /\ r.state[u] # "INVALID"
  BY <1>5 DEF SameBut, JoinsMatch
<1>7. \A u \in Task, v \in Task : j[u] = j[v] /\ j[u] # NULL => u = v
  BY DEF JoinsMatch
<1>8. ASSUME NEW t \in Task, p2[t] \in JoinLabel, r.state[t] # "WAIT"
      PROVE  /\ b[t] = "OK"
             /\ \E u \in Task : j[u] = t /\ r.state[u] = "DESTROYED" /\ b[u] = "EXIT"
  <2>1. p[t] \in JoinLabel /\ s.state[t] # "WAIT"
    BY <1>5, <1>8 DEF SameBut
  <2>2. PICK u \in Task : b[t] = "OK" /\ j[u] = t /\ s.state[u] = "DESTROYED" /\ b[u] = "EXIT"
    BY <2>1 DEF JoinsMatch
  <2>3. r.state[u] = "DESTROYED"
    BY <2>2 DEF SameBut
  <2> QED BY <2>2, <2>3
<1>9. ASSUME NEW t \in Task, p2[t] \in JoinLabel, r.state[t] = "WAIT"
      PROVE  /\ r.task_queue[t] = t
             /\ \E u \in Task : j[u] = t /\ r.state[u] \in {"RUNNING", "READY", "WAIT"}
  <2>1. p[t] \in JoinLabel /\ s.state[t] = "WAIT"
    BY <1>5, <1>9 DEF SameBut
  <2>2. PICK u \in Task : s.task_queue[t] = t /\ j[u] = t
                         /\ s.state[u] \in {"RUNNING", "READY", "WAIT"}
    BY <2>1 DEF JoinsMatch
  <2>3. r.state[u] \in {"RUNNING", "READY", "WAIT"} /\ r.task_queue[t] = t
    BY <2>2, <1>1 DEF SameBut
  <2> QED BY <2>2, <2>3
<1> QED BY <1>2, <1>3, <1>4, <1>6, <1>7, <1>8, <1>9 DEF JoinsMatch

\* A step that leaves the locks alone, of a system that is past os_start.
LEMMA LocksFrame ==
    ASSUME LocksMatch, UNCHANGED <<sched_lock, lock_depth>>,
           task_current \in Task, task_current' \in Task,
           \A t \in Task : pc[t] # "boot" /\ pc'[t] # "boot"
    PROVE  LocksMatch'
<1>1. OpenLocks' = OpenLocks
  BY DEF OpenLocks
<1> QED BY <1>1 DEF LocksMatch, LocksAreCounted

---------------------------------------------------------------------------
(* Steps that end in os_schedule or in the switch to another task.         *)

TcbTypeOK ==
    /\ prio_base \in [Task -> Prio]
    /\ block_type \in [Task -> {"INVALID", "SEM", "MTX", "WAITQUEUE"}]
    /\ block_code \in [Task -> {"OK", "DESTROYED", "TIMEOUT", "EXIT"}]
    /\ join_sem \in [Task -> Task \cup {NULL}]

LEMMA ScheduleEnds ==
    ASSUME SchedCore, NEW s, InPlace(s, task_current),
           NEW ret \in Label, NEW h \in {0, 1},
           os_schedule(s, ret, h),
           UNCHANGED cpuVars,
           ret = "boot" <=> pc[task_current] = "boot",
           ret \in JoinLabel <=> pc[task_current] \in JoinLabel,
           TcbTypeOK',
           JoinsMatch(s, pc, join_sem', block_code')
    PROVE  SchedCore'
<1> DEFINE c == task_current
<1>1. Scheduled(s, ret)
  BY ScheduleStep
<1>2. /\ c \in Task /\ pc \in [Task -> Label] /\ task_current' \in Task
      /\ tq' \in TaskQueueType /\ "sched" \in Label
      /\ s.state[c] \in Runnable /\ s.task_queue[c] = NULL
  BY <1>1 DEF SchedCore, TypeOK, Scheduled, InPlace, Label
<1>3. /\ pc' \in [Task -> Label]
      /\ \A t \in Task : t # c => pc'[t] = pc[t]
      /\ pc'[c] = pc[c] \/ pc'[c] = ret \/ (pc'[c] = "sched" /\ ret = "run")
  BY <1>1, <1>2 DEF Scheduled
<1>4. TypeOK'
  BY <1>1, <1>2, <1>3 DEF SchedCore, TypeOK, TcbTypeOK, Scheduled, cpuVars
<1>5. JoinsMatch(tq', pc', join_sem', block_code')
  <2>1. \A t \in Task : \/ pc'[t] = pc[t]
                        \/ /\ s.state[t] \in Runnable
                           /\ s.task_queue[t] \notin Task
                           /\ pc'[t] \in JoinLabel <=> pc[t] \in JoinLabel
    BY <1>2, <1>3, NullAssumption DEF JoinLabel
  <2>2. join_sem' \in [Task -> Task \cup {NULL}] /\ SameBut(s, tq')
    BY <1>1 DEF TcbTypeOK, Scheduled
  <2> QED BY <2>1, <2>2, JoinFrame
<1>6. LocksMatch'
  <2>1. CASE pc[c] = "boot"
    <3>1. Cardinality(OpenLocks) \in Nat /\ isr_nesting = 0 /\ LocksAreCounted
      BY <1>2, <2>1, FS_CardinalityType DEF SchedCore, LocksMatch
    <3>2. sched_lock # 0
      BY <3>1, <2>1 DEF LocksAreCounted
    <3>3. task_current' = c /\ pc' = [pc EXCEPT ![c] = ret]
      BY <1>1, <3>2 DEF Scheduled, cpuVars
    <3>4. pc' = pc
      BY <3>3, <2>1, <1>2
    <3>5. OpenLocks' = OpenLocks
      BY DEF cpuVars, OpenLocks
    <3> QED BY <3>3, <3>4, <3>5 DEF SchedCore, LocksMatch, LocksAreCounted, cpuVars
  <2>2. CASE pc[c] # "boot"
    <3>1. \A t \in Task : pc[t] # "boot" /\ pc'[t] # "boot"
      BY <2>2, <1>2, <1>3 DEF SchedCore, LocksMatch
    <3> QED BY <3>1, <1>2, LocksFrame DEF SchedCore, cpuVars
  <2> QED BY <2>1, <2>2
<1> QED BY <1>1, <1>4, <1>5, <1>6 DEF SchedCore, Scheduled

\* The locks are looked at by the caller.
LEMMA SwitchEndsWith ==
    ASSUME SchedCore, NEW s, Vacant(s), NEW ret \in Label,
           SwitchAway(s, ret),
           isr_nesting' \in Nat, sched_lock' \in Nat, lock_depth' \in [Task -> Nat],
           LocksMatch',
           TcbTypeOK',
           JoinsMatch(s, [pc EXCEPT ![task_current] = ret], join_sem', block_code')
    PROVE  SchedCore'
<1> DEFINE c == task_current
<1>1. /\ InPlace(tq', task_current') /\ NotOutranked(tq', task_current')
      /\ SameBut(s, tq') /\ deferred' = FALSE /\ pc' = [pc EXCEPT ![c] = ret]
  BY SwitchStep
<1>2. c \in Task /\ pc \in [Task -> Label] /\ task_current' \in Task /\ tq' \in TaskQueueType
  BY <1>1 DEF SchedCore, TypeOK, InPlace
<1>3. TypeOK'
  BY <1>1, <1>2 DEF SchedCore, TypeOK, TcbTypeOK
<1>4. JoinsMatch(tq', pc', join_sem', block_code')
  <2>1. join_sem' \in [Task -> Task \cup {NULL}]
    BY DEF TcbTypeOK
  <2> QED BY <1>1, <2>1, JoinFrame
<1> QED BY <1>1, <1>3, <1>4 DEF SchedCore

LEMMA SwitchEnds ==
    ASSUME SchedCore, NEW s, Vacant(s), NEW ret \in Label \ {"boot"},
           pc[task_current] = "run",
           SwitchAway(s, ret),
           UNCHANGED cpuVars,
           TcbTypeOK',
           JoinsMatch(s, [pc EXCEPT ![task_current] = ret], join_sem', block_code')
    PROVE  SchedCore'
<1> DEFINE c == task_current
<1>1. InPlace(tq', task_current') /\ pc' = [pc EXCEPT ![c] = ret]
  BY SwitchStep
<1>2. c \in Task /\ pc \in [Task -> Label] /\ task_current' \in Task
  BY <1>1 DEF SchedCore, TypeOK, InPlace
<1>3. isr_nesting' \in Nat /\ sched_lock' \in Nat /\ lock_depth' \in [Task -> Nat]
  BY DEF SchedCore, TypeOK, cpuVars
<1>4. LocksMatch'
  <2>1. \A t \in Task : pc[t] # "boot" /\ pc'[t] # "boot"
    BY <1>1, <1>2 DEF SchedCore, LocksMatch
  <2> QED BY <2>1, <1>2, LocksFrame DEF SchedCore, cpuVars
<1> QED BY <1>3, <1>4, SwitchEndsWith

\* A step that moves no task, as most entries and exits of kernel code do.
LEMMA QuietStep ==
    ASSUME SchedCore, UNCHANGED <<tq, tcbVars, task_current, deferred>>,
           isr_nesting' \in Nat, sched_lock' \in Nat, lock_depth' \in [Task -> Nat],
           NEW l \in Label, pc' = [pc EXCEPT ![task_current] = l],
           l \in JoinLabel <=> pc[task_current] \in JoinLabel,
           LocksMatch'
    PROVE  SchedCore'
<1>1. task_current \in Task /\ pc \in [Task -> Label] /\ pc' \in [Task -> Label]
      /\ join_sem \in [Task -> Task \cup {NULL}]
  BY DEF SchedCore, TypeOK
<1>2. TypeOK'
  BY <1>1 DEF SchedCore, TypeOK, tcbVars
<1>3. SameBut(tq, tq)
  BY DEF SameBut
<1>4. tq.state[task_current] \in Runnable /\ tq.task_queue[task_current] = NULL
  BY DEF SchedCore, InPlace
<1>5. JoinsMatch(tq, pc', join_sem, block_code)
  BY <1>1, <1>3, <1>4, NullAssumption, JoinFrame DEF SchedCore
<1> QED BY <1>2, <1>5 DEF SchedCore, tcbVars

---------------------------------------------------------------------------
(* What a step of the scheduler does, as the creator of a task, a mutex, a *)
(* semaphore or a wait queue sees it.                                      *)

\* Where the functions of os_sched.c are; other labels are those of os_mtx.c,
\* os_sem.c and os_waitqueue.c.
OwnLabel == {"boot", "start", "run", "sched", "unlock", "join_wait", "join_end"}

\* The queues that the functions of os_sched.c do not know by name.
ObjectQueue == Queue \ (Task \cup {ready_queue})

SameLife(s, r, t) ==
    r.state[t] = s.state[t] \/ (r.state[t] \in Runnable /\ s.state[t] \in Runnable)

SameObject(s, r, t) ==
    \/ r.task_queue[t] = s.task_queue[t]
    \/ r.task_queue[t] \notin ObjectQueue /\ s.task_queue[t] \notin ObjectQueue

\* The fields of a task inside the functions of an object are left alone, and
\* the scheduler blocks nobody on a mutex.
FieldsKept ==
    \A t \in Task :
        /\ pc[t] \notin OwnLabel => /\ block_code'[t] = block_code[t]
                                    /\ block_type'[t] = block_type[t]
                                    /\ lock_depth'[t] = lock_depth[t]
        /\ block_type'[t] = block_type[t] \/ block_type'[t] # "MTX"

\* Tasks that wait on an object, or are still inside its functions, are left
\* alone; and no step moves the CPU or the ready queue without having compared
\* the priorities or noted that it has not.
Frame ==
    /\ \A t \in Task :
          /\ SameObject(tq, tq', t)
          /\ pc'[t] = pc[t] \/ (pc'[t] \in OwnLabel /\ pc[t] \in OwnLabel)
          /\ pc'[t] \in JoinLabel => pc[t] \in JoinLabel \/ block_type'[t] # "MTX"
    /\ FieldsKept
    /\ task_current' = task_current \/ NotOutranked(tq', task_current')
    /\ \/ deferred' \/ NotOutranked(tq', task_current')
       \/ /\ UNCHANGED <<task_current, deferred>>
          /\ tq'.task_queue = tq.task_queue /\ tq'.prio_current = tq.prio_current

\* All tasks live on as they did.
Steady ==
    /\ \A t \in Task : SameLife(tq, tq', t)
    /\ tq'.prio_current = tq.prio_current /\ prio_base' = prio_base
    /\ join_sem' = join_sem

\* t comes to life.
Born(t) ==
    /\ t \in Task \ {Idle}
    /\ tq.state[t] = "INVALID" /\ tq'.state[t] \in Runnable
    /\ \A o \in Task \ {t} : SameLife(tq, tq', o)
    /\ \E p \in Prio : /\ tq'.prio_current = [tq.prio_current EXCEPT ![t] = p]
                      /\ prio_base' = [prio_base EXCEPT ![t] = p]
    /\ join_sem' = join_sem

\* The TCB of u is given back.
Freed(u) ==
    /\ u \in Task
    /\ tq.state[u] = "DESTROYED" /\ tq'.state[u] = "INVALID"
    /\ \A o \in Task \ {u} : SameLife(tq, tq', o)
    /\ tq'.prio_current = tq.prio_current /\ prio_base' = prio_base
    /\ join_sem[u] \in {NULL, task_current}
    /\ join_sem[u] = NULL => pc[task_current] = "run"
    /\ join_sem' = [join_sem EXCEPT ![u] = NULL]
    /\ UNCHANGED task_current

\* What Stay does: no task blocks or dies.
StayEffect ==
    /\ Frame
    /\ sched_lock' # 0 => UNCHANGED task_current
    /\ Steady \/ \E t \in Task : Born(t) \/ Freed(t)

\* task_current waits in os_task_join for the exit of u.
Waits(u) ==
    /\ u \in Task \ {task_current}
    /\ task_current # Idle
    /\ tq.state[u] \in {"RUNNING", "READY", "WAIT"}
    /\ tq'.state[task_current] = "WAIT"
    /\ \A o \in Task \ {task_current} : SameLife(tq, tq', o)
    /\ tq'.prio_current = tq.prio_current /\ prio_base' = prio_base
    /\ join_sem[u] = NULL /\ join_sem' = [join_sem EXCEPT ![u] = task_current]

\* task_current exits, and the task that joins it can run again.
Dies ==
    /\ task_current # Idle
    /\ tq'.state[task_current] = "DESTROYED"
    /\ \A o \in Task \ {task_current} :
          IF o = join_sem[task_current] THEN tq.state[o] = "WAIT" /\ tq'.state[o] \in Runnable
          ELSE SameLife(tq, tq', o)
    /\ tq'.prio_current = tq.prio_current /\ prio_base' = prio_base
    /\ join_sem' = join_sem

\* What Leave does.
LeaveEffect ==
    /\ Frame
    /\ pc[task_current] = "run"
    /\ Dies \/ \E u \in Task : Waits(u)

\* A step that ends in os_schedule(s, ret, h).
LEMMA ScheduleFrame ==
    ASSUME SchedCore, NEW s, InPlace(s, task_current), NEW ret, NEW h \in {0, 1},
           os_schedule(s, ret, h),
           \A t \in Task : SameObject(tq, s, t),
           ret = pc[task_current] \/ (ret \in OwnLabel /\ pc[task_current] \in OwnLabel),
           ret \in JoinLabel => pc[task_current] \in JoinLabel,
           FieldsKept
    PROVE  /\ Frame
           /\ sched_lock' # 0 => UNCHANGED task_current
           /\ \A t \in Task : SameLife(s, tq', t)
           /\ tq'.prio_current = s.prio_current
<1>1. Scheduled(s, ret)
  BY ScheduleStep
<1>2. task_current \in Task /\ pc \in [Task -> Label]
      /\ ready_queue \notin ObjectQueue /\ NULL \notin ObjectQueue
  BY NullAssumption DEF SchedCore, TypeOK, ObjectQueue
<1>3. ASSUME NEW t \in Task
      PROVE  SameObject(tq, tq', t) /\ SameLife(s, tq', t)
  <2>1. SameObject(s, tq', t) /\ SameLife(s, tq', t)
    BY <1>1, <1>2 DEF Scheduled, SameBut, SameObject, SameLife
  <2> QED BY <2>1 DEF SameObject
<1>4. ASSUME NEW t \in Task
      PROVE  pc'[t] = pc[t] \/ (pc'[t] \in OwnLabel /\ pc[t] \in OwnLabel)
  BY <1>1, <1>2 DEF Scheduled, OwnLabel
<1>5. /\ task_current' = task_current \/ NotOutranked(tq', task_current')
      /\ deferred' \/ NotOutranked(tq', task_current')
      /\ tq'.prio_current = s.prio_current
      /\ sched_lock' # 0 => UNCHANGED task_current
  BY <1>1 DEF Scheduled
<1>6. \A t \in Task : pc'[t] \in JoinLabel => pc[t] \in JoinLabel \/ block_type'[t] # "MTX"
  BY <1>1, <1>2 DEF Scheduled, JoinLabel
<1> QED BY <1>3, <1>4, <1>5, <1>6 DEF Frame

\* A step that ends in the switch to another task.
LEMMA SwitchFrame ==
    ASSUME SchedCore, NEW s, Vacant(s), NEW ret \in OwnLabel, SwitchAway(s, ret),
           pc[task_current] \in OwnLabel,
           \A t \in Task : SameObject(tq, s, t),
           ret \in JoinLabel => block_type'[task_current] # "MTX",
           FieldsKept
    PROVE  /\ Frame
           /\ \A t \in Task : SameLife(s, tq', t)
           /\ tq'.prio_current = s.prio_current
<1>1. /\ NotOutranked(tq', task_current') /\ SameBut(s, tq')
      /\ tq'.prio_current = s.prio_current /\ pc' = [pc EXCEPT ![task_current] = ret]
  BY SwitchStep
<1>2. task_current \in Task /\ pc \in [Task -> Label]
      /\ ready_queue \notin ObjectQueue /\ NULL \notin ObjectQueue
  BY NullAssumption DEF SchedCore, TypeOK, ObjectQueue
<1>3. ASSUME NEW t \in Task
      PROVE  SameObject(tq, tq', t) /\ SameLife(s, tq', t)
  <2>1. SameObject(s, tq', t) /\ SameLife(s, tq', t)
    BY <1>1, <1>2 DEF SameBut, SameObject, SameLife
  <2> QED BY <2>1 DEF SameObject
<1>4. ASSUME NEW t \in Task
      PROVE  pc'[t] = pc[t] \/ (pc'[t] \in OwnLabel /\ pc[t] \in OwnLabel)
  BY <1>1, <1>2
<1>5. \A t \in Task : pc'[t] \in JoinLabel => pc[t] \in JoinLabel \/ block_type'[t] # "MTX"
  BY <1>1, <1>2
<1> QED BY <1>1, <1>3, <1>4, <1>5 DEF Frame

---------------------------------------------------------------------------
(* The steps, one by one.                                                  *)

LEMMA InitHolds == Init => SchedInv
<1> SUFFICES ASSUME Init PROVE SchedInv
  OBVIOUS
<1> USE DEF Init
<1>1. 0 \in Prio /\ PRIOCNT \in Nat /\ Idle \in Task
  BY PrioAssumption, IdleAssumption DEF Prio
<1>2. tq \in TaskQueueType
  <2>1. EmptyBuckets \in [Prio -> Seq(Task)]
    BY DEF EmptyBuckets
  <2> QED BY <2>1, <1>1 DEF TaskQueueType, TaskState
<1>3. TypeOK
  BY <1>1, <1>2 DEF TypeOK, Label, Interruptible
<1>4. Coherent(tq)
  <2>1. \A q \in Queue, p \in Prio : tq.tasks[q][p] = <<>> /\ tq.mask[q] = {}
    BY DEF EmptyBuckets
  <2>2. \A t \in Task : tq.task_queue[t] = NULL
    OBVIOUS
  <2>3. ToSet(<<>>) = {} /\ IsInjective(<<>>)
    BY DEF ToSet, IsInjective
  <2> QED BY <2>1, <2>2, <2>3, NullAssumption
           DEF Coherent, MaskExact, BucketsExact, LinkedOnce
<1>5. /\ \A t \in Task : tq.task_queue[t] = NULL /\ join_sem[t] = NULL
      /\ \A t \in Task : tq.state[t] = IF t = Idle THEN "RUNNING" ELSE "INVALID"
      /\ \A t \in Task : pc[t] = IF t = Idle THEN "boot" ELSE "run"
      /\ task_current = Idle
  OBVIOUS
<1>6. InPlace(tq, task_current)
  BY <1>1, <1>2, <1>4, <1>5, NullAssumption, QueueAssumption DEF InPlace, Runnable
<1>7. HighestPrioRuns
  BY <1>5, NullAssumption, QueueAssumption DEF HighestPrioRuns, TopRuns, OnQueue
<1>8. JoinsMatch(tq, pc, join_sem, block_code)
  BY <1>5, NullAssumption DEF JoinsMatch, JoinLabel
<1>9. LocksMatch
  <2>1. OpenLocks = {}
    BY DEF OpenLocks
  <2>2. /\ pc[task_current] = "boot" /\ sched_lock = 1 /\ isr_nesting = 0
        /\ \A t \in Task : lock_depth[t] = 0
    BY <1>1, <1>5
  <2> QED BY <2>1, <2>2, <1>5, FS_EmptySet DEF LocksMatch, LocksAreCounted
<1> QED BY <1>3, <1>6, <1>7, <1>8, <1>9 DEF SchedInv, SchedCore

\* task_current takes the scheduler lock once more.
LEMMA LockTaken ==
    ASSUME SchedCore, task_current' \in Task,
           \A t \in Task : pc'[t] = "boot" <=> pc[t] = "boot",
           pc[task_current] = "boot" => task_current' = task_current /\ isr_nesting' = isr_nesting,
           lock_depth' = [lock_depth EXCEPT ![task_current] = @ + 1],
           sched_lock' = sched_lock + 1
    PROVE  LocksMatch' /\ sched_lock' \in Nat /\ lock_depth' \in [Task -> Nat]
<1> DEFINE c == task_current
           x == <<c, lock_depth[c] + 1>>
<1>1. c \in Task /\ lock_depth \in [Task -> Nat] /\ sched_lock \in Nat
  BY DEF SchedCore, TypeOK
<1>2. OpenLocks' = OpenLocks \cup {x} /\ x \notin OpenLocks
  BY <1>1 DEF OpenLocks
<1>3. \A t \in Task : pc'[t] = "boot" =>
          /\ t = task_current' /\ isr_nesting' = 0
          /\ \A u \in Task \ {t} : lock_depth'[u] = 0
  BY <1>1 DEF SchedCore, LocksMatch
<1>3a. pc'[task_current'] = "boot" <=> pc[c] = "boot"
  BY <1>1 DEF SchedCore, LocksMatch
<1> DEFINE boot == IF pc[c] = "boot" THEN 1 ELSE 0
<1> HIDE DEF x
<1>4. /\ IsFiniteSet(OpenLocks) /\ sched_lock = Cardinality(OpenLocks) + boot
      /\ Cardinality(OpenLocks) \in Nat
  BY <1>1, FS_CardinalityType DEF SchedCore, LocksMatch, LocksAreCounted
<1>5. IsFiniteSet(OpenLocks') /\ Cardinality(OpenLocks') = Cardinality(OpenLocks) + 1
  BY <1>2, <1>4, FS_AddElement
<1>6. LocksMatch'
  BY <1>1, <1>3, <1>3a, <1>4, <1>5 DEF LocksMatch, LocksAreCounted
<1> QED BY <1>1, <1>6

\* task_current undoes one of its scheduler locks.
LEMMA LockUndone ==
    ASSUME SchedCore, task_current' \in Task,
           \A t \in Task : pc'[t] = "boot" <=> pc[t] = "boot",
           pc[task_current] = "boot" => task_current' = task_current /\ isr_nesting' = isr_nesting,
           lock_depth[task_current] > 0,
           lock_depth' = [lock_depth EXCEPT ![task_current] = @ - 1],
           sched_lock' = sched_lock - 1
    PROVE  LocksMatch' /\ sched_lock' \in Nat /\ lock_depth' \in [Task -> Nat]
<1> DEFINE c == task_current
           x == <<c, lock_depth[c]>>
<1>1. c \in Task /\ lock_depth \in [Task -> Nat] /\ sched_lock \in Nat
  BY DEF SchedCore, TypeOK
<1>2. OpenLocks' = OpenLocks \ {x} /\ x \in OpenLocks
  BY <1>1 DEF OpenLocks
<1>3. \A t \in Task : pc'[t] = "boot" =>
          /\ t = task_current' /\ isr_nesting' = 0
          /\ \A u \in Task \ {t} : lock_depth'[u] = 0
  BY <1>1 DEF SchedCore, LocksMatch
<1>3a. pc'[task_current'] = "boot" <=> pc[c] = "boot"
  BY <1>1 DEF SchedCore, LocksMatch
<1> DEFINE boot == IF pc[c] = "boot" THEN 1 ELSE 0
<1> HIDE DEF x
<1>4. /\ IsFiniteSet(OpenLocks) /\ sched_lock = Cardinality(OpenLocks) + boot
      /\ Cardinality(OpenLocks) \in Nat
  BY <1>1, FS_CardinalityType DEF SchedCore, LocksMatch, LocksAreCounted
<1>5. IsFiniteSet(OpenLocks') /\ Cardinality(OpenLocks') = Cardinality(OpenLocks) - 1
  BY <1>2, <1>4, FS_RemoveElement
<1>6. Cardinality(OpenLocks') \in Nat
  BY <1>5, FS_CardinalityType
<1>7. LocksMatch'
  BY <1>1, <1>3, <1>3a, <1>4, <1>5, <1>6 DEF LocksMatch, LocksAreCounted
<1> QED BY <1>1, <1>4, <1>5, <1>6, <1>7

\* While a task holds the scheduler lock, sched_lock is not 0.
LEMMA LockHeld ==
    ASSUME SchedCore, NEW t \in Task, lock_depth[t] > 0
    PROVE  sched_lock # 0
<1>1. lock_depth[t] \in Nat /\ sched_lock \in Nat
  BY DEF SchedCore, TypeOK
<1>2. <<t, 1>> \in OpenLocks
  BY <1>1 DEF OpenLocks
<1>3. /\ IsFiniteSet(OpenLocks) /\ Cardinality(OpenLocks) # 0
      /\ Cardinality(OpenLocks) \in Nat
  BY <1>2, FS_EmptySet, FS_CardinalityType DEF SchedCore, LocksMatch
<1> QED BY <1>1, <1>3 DEF SchedCore, LocksMatch, LocksAreCounted

\* The same in the state after a step.
LEMMA LockHeldNext ==
    ASSUME SchedCore', NEW t \in Task, lock_depth'[t] > 0
    PROVE  sched_lock' # 0
<1>1. lock_depth'[t] \in Nat /\ sched_lock' \in Nat
  BY DEF SchedCore, TypeOK
<1>2. <<t, 1>> \in OpenLocks'
  BY <1>1 DEF OpenLocks
<1>3. /\ IsFiniteSet(OpenLocks') /\ Cardinality(OpenLocks') # 0
      /\ Cardinality(OpenLocks') \in Nat
  BY <1>2, FS_EmptySet, FS_CardinalityType DEF SchedCore, LocksMatch
<1> QED BY <1>1, <1>3 DEF SchedCore, LocksMatch, LocksAreCounted

\* A lock taken between os_init and os_start comes on top of that of os_init.
LEMMA LockHeldBoot ==
    ASSUME SchedCore, pc[task_current] = "boot", lock_depth[task_current] > 0
    PROVE  sched_lock \in Nat /\ sched_lock > 1
<1>1. /\ task_current \in Task /\ lock_depth[task_current] \in Nat /\ sched_lock \in Nat
  BY DEF SchedCore, TypeOK
<1>2. <<task_current, 1>> \in OpenLocks
  BY <1>1 DEF OpenLocks
<1>3. Cardinality(OpenLocks) # 0 /\ Cardinality(OpenLocks) \in Nat
  BY <1>2, FS_EmptySet, FS_CardinalityType DEF SchedCore, LocksMatch
<1> QED BY <1>1, <1>3 DEF SchedCore, LocksMatch, LocksAreCounted

LEMMA LockStep == SchedCore /\ os_scheduler_lock => SchedCore'
<1> SUFFICES ASSUME SchedCore, os_scheduler_lock PROVE SchedCore'
  OBVIOUS
<1> DEFINE c == task_current
<1>1. /\ c \in Task /\ isr_nesting \in Nat /\ pc \in [Task -> Label]
      /\ pc[c] \in {"boot", "run"} /\ task_current' = c /\ pc' = pc
      /\ lock_depth' = [lock_depth EXCEPT ![c] = @ + 1] /\ sched_lock' = sched_lock + 1
      /\ isr_nesting' = isr_nesting
  BY DEF SchedCore, TypeOK, os_scheduler_lock
<1>2. LocksMatch' /\ sched_lock' \in Nat /\ lock_depth' \in [Task -> Nat]
  BY <1>1, LockTaken
<1>3. pc' = [pc EXCEPT ![task_current] = pc[c]] /\ pc[c] \in Label
  BY <1>1
<1> QED BY <1>1, <1>2, <1>3, QuietStep DEF os_scheduler_lock

LEMMA UnlockStep ==
    ASSUME SchedCore, NEW sync \in BOOLEAN, os_scheduler_unlock(sync)
    PROVE  SchedCore'
<1> DEFINE c == task_current
           l == IF ~sync /\ sched_lock' = 0 THEN "unlock" ELSE pc[c]
<1>1. /\ c \in Task /\ isr_nesting \in Nat /\ pc \in [Task -> Label]
      /\ pc[c] \in {"boot", "run"} /\ task_current' = c /\ pc' = [pc EXCEPT ![c] = l]
      /\ lock_depth[c] > 0
      /\ lock_depth' = [lock_depth EXCEPT ![c] = @ - 1] /\ sched_lock' = sched_lock - 1
      /\ isr_nesting' = isr_nesting
  BY DEF SchedCore, TypeOK, os_scheduler_unlock
<1>2. l \in {"boot", "unlock", "run"} /\ (l = "boot" <=> pc[c] = "boot")
  <2>1. CASE pc[c] = "boot"
    <3>1. sched_lock \in Nat /\ sched_lock > 1
      BY <1>1, <2>1, LockHeldBoot
    <3>2. sched_lock' # 0
      BY <1>1, <3>1
    <3> QED BY <2>1, <3>2
  <2>2. CASE pc[c] = "run"
    BY <2>2
  <2> QED BY <1>1, <2>1, <2>2
<1> HIDE DEF l
<1>3. LocksMatch' /\ sched_lock' \in Nat /\ lock_depth' \in [Task -> Nat]
  BY <1>1, <1>2, LockUndone
<1>4. l \in Label /\ l \notin JoinLabel /\ pc[c] \notin JoinLabel
  BY <1>1, <1>2 DEF Label, Interruptible, JoinLabel
<1> QED BY <1>1, <1>3, <1>4, QuietStep DEF os_scheduler_unlock

LEMMA StartStep == SchedCore /\ os_start => SchedCore'
<1> SUFFICES ASSUME SchedCore, os_start PROVE SchedCore'
  OBVIOUS
<1> DEFINE c == task_current
<1>1. /\ c \in Task /\ pc \in [Task -> Label] /\ isr_nesting \in Nat
      /\ lock_depth \in [Task -> Nat]
      /\ pc[c] = "boot" /\ lock_depth[c] = 0 /\ pc' = [pc EXCEPT ![c] = "start"]
      /\ task_current' = c /\ sched_lock' = 0 /\ lock_depth' = lock_depth
      /\ isr_nesting' = isr_nesting
  BY DEF SchedCore, TypeOK, os_start
<1>2. LocksMatch'
  <2>1. \A t \in Task : lock_depth'[t] = 0
    BY <1>1 DEF SchedCore, LocksMatch
  <2>3. OpenLocks' = {}
    BY <2>1 DEF OpenLocks
  <2>2. \A t \in Task : pc'[t] # "boot"
    BY <1>1 DEF SchedCore, LocksMatch
  <2> QED BY <1>1, <2>3, <2>2, FS_EmptySet DEF LocksMatch, LocksAreCounted
<1>3. /\ "start" \in Label /\ "start" \notin JoinLabel /\ pc[task_current] \notin JoinLabel
      /\ lock_depth' \in [Task -> Nat] /\ sched_lock' \in Nat /\ isr_nesting' \in Nat
  BY <1>1 DEF Label, Interruptible, JoinLabel
<1> QED BY <1>1, <1>2, <1>3, QuietStep DEF os_start

\* The entry and the exit of an ISR.
LEMMA IsrStep == SchedCore /\ (arch_contextstore_i \/ arch_contextrestore_i) => SchedCore'
<1> SUFFICES ASSUME SchedCore, arch_contextstore_i \/ arch_contextrestore_i PROVE SchedCore'
  OBVIOUS
<1> DEFINE c == task_current
<1>1. /\ c \in Task /\ pc \in [Task -> Label] /\ isr_nesting' \in Nat
      /\ lock_depth \in [Task -> Nat] /\ sched_lock \in Nat
      /\ pc' = pc /\ task_current' = c
      /\ UNCHANGED <<sched_lock, lock_depth, tq, tcbVars, deferred>>
  BY DEF SchedCore, TypeOK, arch_contextstore_i, arch_contextrestore_i
<1>2. pc[c] # "boot"
  <2>1. pc[c] = "boot" => isr_nesting = 0
    BY <1>1 DEF SchedCore, LocksMatch
  <2>2. pc[c] = "boot" => ~arch_contextstore_i
    BY <2>1 DEF arch_contextstore_i, Interruptible
  <2>3. pc[c] = "boot" => ~arch_contextrestore_i
    BY <2>1 DEF arch_contextrestore_i
  <2> QED BY <2>2, <2>3
<1>3. \A t \in Task : pc[t] # "boot" /\ pc'[t] # "boot"
  BY <1>1, <1>2 DEF SchedCore, LocksMatch
<1>4. LocksMatch'
  BY <1>1, <1>3, LocksFrame DEF SchedCore
<1>5. pc' = [pc EXCEPT ![c] = pc[c]] /\ pc[c] \in Label
  BY <1>1
<1> QED BY <1>1, <1>4, <1>5, QuietStep

\* The steps that are a call of os_schedule and little else.
LEMMA ScheduleOnly ==
    SchedCore /\ (\/ os_scheduler_unlock_schedule \/ os_start_schedule
                 \/ os_yield \/ os_tick) => SchedCore'
<1> SUFFICES ASSUME SchedCore, NEW ret, NEW h \in {0, 1}, os_schedule(tq, ret, h),
                    UNCHANGED <<tcbVars, cpuVars>>,
                    \/ ret = pc[task_current]
                    \/ pc[task_current] \in {"run", "unlock", "start"} /\ ret = "run"
             PROVE  SchedCore'
  BY DEF os_scheduler_unlock_schedule, os_start_schedule, os_yield, os_tick, InTask
<1>1. task_current \in Task /\ pc \in [Task -> Label]
  BY DEF SchedCore, TypeOK
<1>2. ret \in Label
  BY <1>1 DEF Label, Interruptible
<1>3. TcbTypeOK' /\ UNCHANGED cpuVars /\ JoinsMatch(tq, pc, join_sem', block_code')
  BY DEF SchedCore, TypeOK, TcbTypeOK, tcbVars
<1>4. /\ ret = "boot" <=> pc[task_current] = "boot"
      /\ ret \in JoinLabel <=> pc[task_current] \in JoinLabel
  BY DEF JoinLabel
<1>5. InPlace(tq, task_current)
  BY DEF SchedCore
<1> QED BY <1>2, <1>3, <1>4, <1>5, ScheduleEnds

\* The task that gets the CPU marks itself RUNNING.
LEMMA MarkRunning ==
    ASSUME SchedCore
    PROVE  LET s == [tq EXCEPT !.state[task_current] = "RUNNING"]
           IN  /\ InPlace(s, task_current)
               /\ SameBut(tq, s)
               /\ s.task_queue = tq.task_queue
               /\ s.prio_current = tq.prio_current
               /\ s.state = [tq.state EXCEPT ![task_current] = "RUNNING"]
<1> DEFINE c == task_current
           s == [tq EXCEPT !.state[c] = "RUNNING"]
<1>1. /\ InPlace(tq, c) /\ tq \in TaskQueueType /\ Coherent(tq) /\ c \in Task
      /\ "RUNNING" \in TaskState /\ tq.state \in [Task -> TaskState]
  BY DEF SchedCore, InPlace, TaskState, TaskQueueType
<1>2. /\ s \in TaskQueueType /\ Coherent(s)
      /\ s.task_queue = tq.task_queue /\ s.prio_current = tq.prio_current
      /\ s.state = [tq.state EXCEPT ![c] = "RUNNING"]
  BY <1>1, SetState
<1> HIDE DEF s
<1>3. s.state[c] = "RUNNING" /\ \A t \in Task \ {c} : s.state[t] = tq.state[t]
  BY <1>1, <1>2
<1>4. SameBut(tq, s)
  BY <1>1, <1>2, <1>3 DEF SameBut, InPlace, Runnable
<1>5. InPlace(s, c)
  <2>1. ASSUME NEW t \in Task
        PROVE  /\ s.task_queue[t] \in Queue \ {ready_queue} <=> s.state[t] = "WAIT"
               /\ s.task_queue[t] = ready_queue => s.state[t] = "READY"
               /\ t # c => \/ s.task_queue[t] = ready_queue
                           \/ s.state[t] \in {"WAIT", "DESTROYED", "INVALID"}
    <3>1. CASE t = c
      BY <3>1, <1>1, <1>2, <1>3, NullAssumption, QueueAssumption DEF InPlace
    <3>2. CASE t # c
      BY <3>2, <1>1, <1>2, <1>3 DEF InPlace
    <3> QED BY <3>1, <3>2
  <2> QED BY <2>1, <1>1, <1>2, <1>3 DEF InPlace, Runnable
<1> QED BY <1>2, <1>4, <1>5 DEF s

\* Behind a switch in os_schedule or in a function of an object.
Resumes ==
    /\ pc[task_current] \notin JoinLabel \cup {"boot"}
    /\ tq' = [tq EXCEPT !.state[task_current] = "RUNNING"]
    /\ pc' = [pc EXCEPT ![task_current] = "run"]
    /\ UNCHANGED <<tcbVars, task_current, cpuVars, deferred>>

LEMMA ResumeStep ==
    ASSUME SchedCore, Resumes
    PROVE  /\ SchedCore'
           /\ SameBut(tq, tq')
           /\ tq'.task_queue = tq.task_queue
           /\ tq'.prio_current = tq.prio_current
<1> DEFINE c == task_current
<1>1. /\ tq' = [tq EXCEPT !.state[c] = "RUNNING"] /\ pc[c] \notin JoinLabel \cup {"boot"}
      /\ pc' = [pc EXCEPT ![c] = "run"] /\ task_current' = c
      /\ UNCHANGED <<tcbVars, cpuVars, deferred>>
  BY DEF Resumes
<1>2. /\ InPlace(tq', c) /\ SameBut(tq, tq') /\ tq'.task_queue = tq.task_queue
      /\ tq'.prio_current = tq.prio_current
  BY <1>1, MarkRunning
<1>3. /\ c \in Task /\ pc \in [Task -> Label] /\ pc' \in [Task -> Label]
      /\ join_sem \in [Task -> Task \cup {NULL}] /\ tq' \in TaskQueueType
      /\ tq.state[c] \in Runnable /\ tq.task_queue[c] = NULL
  BY <1>1, <1>2 DEF SchedCore, TypeOK, InPlace, Label, Interruptible
<1>4. TypeOK'
  BY <1>1, <1>3 DEF SchedCore, TypeOK, tcbVars, cpuVars
<1>5. JoinsMatch(tq', pc', join_sem, block_code)
  <2>1. \A t \in Task : \/ pc'[t] = pc[t]
                        \/ /\ tq.state[t] \in Runnable
                           /\ tq.task_queue[t] \notin Task
                           /\ pc'[t] \in JoinLabel <=> pc[t] \in JoinLabel
    BY <1>1, <1>3, NullAssumption DEF JoinLabel
  <2> QED BY <2>1, <1>2, <1>3, JoinFrame DEF SchedCore
<1>6. LocksMatch'
  <2>1. \A t \in Task : pc[t] # "boot" /\ pc'[t] # "boot"
    BY <1>1, <1>3 DEF SchedCore, LocksMatch
  <2> QED BY <2>1, <1>1, <1>3, LocksFrame DEF SchedCore, cpuVars
<1> QED BY <1>1, <1>2, <1>4, <1>5, <1>6 DEF SchedCore, tcbVars

LEMMA ReturnStep == SchedCore /\ os_schedule_return => SchedCore'
BY ResumeStep DEF os_schedule_return, Resumes, JoinLabel

LEMMA JoinWokenStep == SchedCore /\ os_task_join_woken => SchedCore'
<1> SUFFICES ASSUME SchedCore, os_task_join_woken PROVE SchedCore'
  OBVIOUS
<1> DEFINE c == task_current
           s == [tq EXCEPT !.state[c] = "RUNNING"]
<1>1. pc[c] = "join_wait" /\ UNCHANGED <<tcbVars, cpuVars>> /\ os_schedule(s, "join_end", 1)
  BY DEF os_task_join_woken
<1>2. InPlace(s, c) /\ SameBut(tq, s)
  BY MarkRunning
<1> HIDE DEF s
<1>3. join_sem \in [Task -> Task \cup {NULL}]
  BY DEF SchedCore, TypeOK
<1>4. JoinsMatch(s, pc, join_sem, block_code)
  BY <1>2, <1>3, JoinFrame DEF SchedCore
<1>5. /\ TcbTypeOK' /\ UNCHANGED cpuVars /\ JoinsMatch(s, pc, join_sem', block_code')
      /\ "join_end" \in Label /\ 1 \in {0, 1}
      /\ "join_end" \in JoinLabel /\ pc[c] \in JoinLabel
      /\ pc[c] # "boot"
  BY <1>1, <1>4 DEF SchedCore, TypeOK, TcbTypeOK, tcbVars, Label, JoinLabel
<1> QED BY <1>1, <1>2, <1>5, ScheduleEnds

\* os_task_create puts the new task on the ready queue before it calls
\* os_schedule.
LEMMA CreatePlace ==
    ASSUME SchedCore, NEW t \in Task \ {Idle}, NEW prio \in Prio, tq.state[t] = "INVALID"
    PROVE  LET m == [tq EXCEPT !.prio_current[t] = prio]
               s == os_taskqueue_enqueue([m EXCEPT !.state[t] = "READY"], ready_queue, t)
           IN  /\ t # task_current /\ tq.task_queue[t] = NULL
               /\ InPlace(s, task_current)
               /\ s.task_queue[t] = ready_queue /\ s.state[t] = "READY"
               /\ \A u \in Task \ {t} : /\ s.task_queue[u] = tq.task_queue[u]
                                        /\ s.state[u] = tq.state[u]
               /\ s.prio_current = [tq.prio_current EXCEPT ![t] = prio]
<1> DEFINE c == task_current
           m == [tq EXCEPT !.prio_current[t] = prio]
           s == os_taskqueue_enqueue([m EXCEPT !.state[t] = "READY"], ready_queue, t)
<1>1. /\ InPlace(tq, c) /\ tq \in TaskQueueType /\ Coherent(tq) /\ c \in Task
      /\ tq.task_queue \in [Task -> Queue \cup {NULL}] /\ tq.state \in [Task -> TaskState]
      /\ ready_queue \in Queue /\ ready_queue \notin Task /\ "READY" \in TaskState
  BY QueueAssumption DEF SchedCore, TypeOK, InPlace, TaskQueueType, TaskState
<1>2. t # c /\ tq.task_queue[t] = NULL
  BY <1>1 DEF InPlace, Runnable
<1>3. /\ m \in TaskQueueType /\ Coherent(m) /\ m.task_queue = tq.task_queue
      /\ m.state = tq.state /\ m.prio_current = [tq.prio_current EXCEPT ![t] = prio]
  BY <1>1, <1>2, SetPrio
<1> HIDE DEF m
<1>4. m.task_queue[t] = NULL
  BY <1>2, <1>3
<1>5. Linked(m, s, ready_queue, t, "READY")
  BY <1>1, <1>3, <1>4, LinkTask
<1> HIDE DEF s
<1>6. /\ s \in TaskQueueType /\ Coherent(s)
      /\ s.task_queue[t] = ready_queue /\ s.state[t] = "READY"
      /\ \A u \in Task \ {t} : s.task_queue[u] = tq.task_queue[u] /\ s.state[u] = tq.state[u]
      /\ s.prio_current = [tq.prio_current EXCEPT ![t] = prio]
  BY <1>1, <1>3, <1>5 DEF Linked
<1>7. InPlace(s, c)
  <2>1. ASSUME NEW u \in Task
        PROVE  /\ s.task_queue[u] \in Queue \ {ready_queue} <=> s.state[u] = "WAIT"
               /\ s.task_queue[u] = ready_queue => s.state[u] = "READY"
               /\ u # c => \/ s.task_queue[u] = ready_queue
                           \/ s.state[u] \in {"WAIT", "DESTROYED", "INVALID"}
    <3>1. CASE u = t
      BY <3>1, <1>6
    <3>2. CASE u # t
      BY <3>2, <1>1, <1>6 DEF InPlace
    <3> QED BY <3>1, <3>2
  <2>2. c = Idle \/ s.task_queue[Idle] = ready_queue
    BY <1>1, <1>6, IdleAssumption DEF InPlace
  <2>3. s.task_queue[c] = NULL /\ s.state[c] \in Runnable
    BY <1>1, <1>2, <1>6 DEF InPlace
  <2> QED BY <2>1, <2>2, <2>3, <1>1, <1>6 DEF InPlace
<1> QED BY <1>2, <1>6, <1>7 DEF s, m

\* A TCB that no task uses becomes the TCB of a READY task.
LEMMA CreateStep ==
    ASSUME SchedCore, NEW t \in Task \ {Idle}, NEW prio \in Prio, os_task_create(t, prio)
    PROVE  SchedCore' /\ StayEffect
<1> DEFINE c == task_current
           m == [tq EXCEPT !.prio_current[t] = prio]
           s == os_taskqueue_enqueue([m EXCEPT !.state[t] = "READY"], ready_queue, t)
<1>1. /\ pc[c] \in {"boot", "run"} /\ tq.state[t] = "INVALID" /\ UNCHANGED cpuVars
      /\ prio_base' = [prio_base EXCEPT ![t] = prio]
      /\ block_type' = [block_type EXCEPT ![t] = "INVALID"]
      /\ block_code' = [block_code EXCEPT ![t] = "OK"]
      /\ join_sem' = [join_sem EXCEPT ![t] = NULL]
      /\ os_schedule(s, pc[c], 1)
  BY DEF os_task_create
<1>2. /\ InPlace(tq, c) /\ tq \in TaskQueueType /\ Coherent(tq) /\ c \in Task
      /\ tq.task_queue \in [Task -> Queue \cup {NULL}] /\ tq.state \in [Task -> TaskState]
      /\ ready_queue \in Queue /\ ready_queue \notin Task /\ "READY" \in TaskState
      /\ pc \in [Task -> Label]
  BY QueueAssumption DEF SchedCore, TypeOK, InPlace, TaskQueueType, TaskState
<1>3. TcbTypeOK /\ TcbTypeOK'
  BY <1>1 DEF SchedCore, TypeOK, TcbTypeOK
<1>4. t # c /\ tq.task_queue[t] = NULL
  BY <1>1, CreatePlace
<1>5. /\ s.task_queue[t] = ready_queue /\ s.state[t] = "READY"
      /\ \A u \in Task \ {t} : s.task_queue[u] = tq.task_queue[u] /\ s.state[u] = tq.state[u]
      /\ s.prio_current = [tq.prio_current EXCEPT ![t] = prio]
  BY <1>1, CreatePlace
<1>6. InPlace(s, c)
  BY <1>1, CreatePlace
<1> HIDE DEF s
<1>7. JoinsMatch(s, pc, join_sem', block_code')
  <2> DEFINE j == join_sem
             b == block_code
             b2 == block_code'
  <2>1. JoinsMatch(tq, pc, j, b)
    BY DEF SchedCore
  <2>2. pc[t] = "run" /\ j[t] = NULL
    BY <1>1, <2>1 DEF JoinsMatch
  <2>3. join_sem' = j
    BY <1>1, <1>3, <2>2 DEF TcbTypeOK
  <2>4. b2[t] = "OK" /\ \A u \in Task \ {t} : b2[u] = b[u]
    BY <1>1, <1>3 DEF TcbTypeOK
  <2> HIDE DEF j, b, b2
  <2>5. /\ \A u \in Task : s.state[u] \in {"DESTROYED", "INVALID"} => pc[u] = "run"
        /\ \A u \in Task : s.state[u] = "WAIT" => pc[u] \in WaitLabel
        /\ \A u \in Task : s.task_queue[u] \in Task => s.task_queue[u] = u /\ pc[u] = "join_wait"
    BY <1>2, <1>5, <2>1 DEF JoinsMatch
  <2>6. /\ \A u \in Task : j[u] # NULL => pc[j[u]] \in JoinLabel /\ s.state[u] # "INVALID"
        /\ \A u \in Task, v \in Task : j[u] = j[v] /\ j[u] # NULL => u = v
    BY <1>5, <2>1, <2>2 DEF JoinsMatch
  <2>7. ASSUME NEW u \in Task, pc[u] \in JoinLabel, s.state[u] # "WAIT"
        PROVE  /\ b2[u] = "OK"
               /\ \E v \in Task : j[v] = u /\ s.state[v] = "DESTROYED" /\ b2[v] = "EXIT"
    <3>1. u # t
      BY <2>2, <2>7 DEF JoinLabel
    <3>2. PICK v \in Task : b[u] = "OK" /\ j[v] = u /\ tq.state[v] = "DESTROYED" /\ b[v] = "EXIT"
      BY <3>1, <2>1, <2>7, <1>5 DEF JoinsMatch
    <3>3. v # t
      BY <3>2, <1>1
    <3> QED BY <3>1, <3>2, <3>3, <2>4, <1>5
  <2>8. ASSUME NEW u \in Task, pc[u] \in JoinLabel, s.state[u] = "WAIT"
        PROVE  /\ s.task_queue[u] = u
               /\ \E v \in Task : j[v] = u /\ s.state[v] \in {"RUNNING", "READY", "WAIT"}
    <3>1. u # t
      BY <2>2, <2>8 DEF JoinLabel
    <3>2. PICK v \in Task : tq.task_queue[u] = u /\ j[v] = u
                           /\ tq.state[v] \in {"RUNNING", "READY", "WAIT"}
      BY <3>1, <2>1, <2>8, <1>5 DEF JoinsMatch
    <3>3. v # t
      BY <3>2, <1>1
    <3> QED BY <3>1, <3>2, <3>3, <1>5
  <2>9. JoinsMatch(s, pc, j, b2)
    BY <2>5, <2>6, <2>7, <2>8 DEF JoinsMatch
  <2> QED BY <2>3, <2>9 DEF b2
<1>8. pc[c] \in Label /\ 1 \in {0, 1}
  BY <1>2
<1>9. StayEffect
  <2>1. pc[t] = "run" /\ join_sem[t] = NULL /\ join_sem \in [Task -> Task \cup {NULL}]
    BY <1>1 DEF SchedCore, TypeOK, JoinsMatch
  <2>2. join_sem' = join_sem
    BY <1>1, <2>1
  <2>3. \A u \in Task : SameObject(tq, s, u)
    BY <1>2, <1>4, <1>5, NullAssumption DEF SameObject, ObjectQueue
  <2>4. FieldsKept
    BY <1>1, <1>3, <2>1 DEF FieldsKept, OwnLabel, TcbTypeOK, cpuVars, SchedCore, TypeOK
  <2>5. /\ Frame /\ (sched_lock' # 0 => UNCHANGED task_current)
        /\ \A u \in Task : SameLife(s, tq', u)
        /\ tq'.prio_current = s.prio_current
    BY <1>1, <1>6, <1>8, <2>3, <2>4, ScheduleFrame
  <2>6. Born(t)
    BY <1>1, <1>5, <2>2, <2>5 DEF Born, SameLife, Runnable
  <2> QED BY <2>5, <2>6 DEF StayEffect
<1> QED BY <1>1, <1>3, <1>6, <1>7, <1>8, <1>9, ScheduleEnds

\* A task that has exited, other than the one on the CPU, is given up by the
\* task that joins it.
LEMMA Reaped ==
    ASSUME NEW s, NEW c, InPlace(s, c), NEW u \in Task, s.state[u] = "DESTROYED"
    PROVE  LET r == [s EXCEPT !.state[u] = "INVALID"]
           IN  /\ InPlace(r, c)
               /\ r.task_queue = s.task_queue
               /\ r.prio_current = s.prio_current
               /\ r.state = [s.state EXCEPT ![u] = "INVALID"]
<1> DEFINE r == [s EXCEPT !.state[u] = "INVALID"]
<1>1. /\ s \in TaskQueueType /\ Coherent(s) /\ c \in Task /\ c # u
      /\ "INVALID" \in TaskState /\ s.state \in [Task -> TaskState]
  BY DEF InPlace, TaskState, TaskQueueType, Runnable
<1>2. /\ r \in TaskQueueType /\ Coherent(r)
      /\ r.task_queue = s.task_queue /\ r.prio_current = s.prio_current
      /\ r.state = [s.state EXCEPT ![u] = "INVALID"]
  BY <1>1, SetState
<1> HIDE DEF r
<1>3. r.state[u] = "INVALID" /\ \A t \in Task \ {u} : r.state[t] = s.state[t]
  BY <1>1, <1>2
<1>4. ASSUME NEW t \in Task
      PROVE  /\ r.task_queue[t] \in Queue \ {ready_queue} <=> r.state[t] = "WAIT"
             /\ r.task_queue[t] = ready_queue => r.state[t] = "READY"
             /\ t # c => \/ r.task_queue[t] = ready_queue
                         \/ r.state[t] \in {"WAIT", "DESTROYED", "INVALID"}
  <2>1. CASE t = u
    BY <2>1, <1>2, <1>3 DEF InPlace
  <2>2. CASE t # u
    BY <2>2, <1>2, <1>3 DEF InPlace
  <2> QED BY <2>1, <2>2
<1>5. InPlace(r, c)
  BY <1>1, <1>2, <1>3, <1>4 DEF InPlace
<1> QED BY <1>2, <1>5 DEF r

\* u is given up by the task c, which goes on if it waited for u.
GivenUp(s, r, p, p2, c, u, j) ==
    /\ s.state[u] = "DESTROYED" /\ r.state[u] = "INVALID"
    /\ s.state[c] \in Runnable /\ r.state[c] \in Runnable
    /\ s.task_queue[c] = NULL
    /\ (j[u] = NULL /\ p[c] \notin JoinLabel) \/ j[u] = c
    /\ p2[c] = "run"
    /\ \A t \in Task \ {c} : p2[t] = p[t]
    /\ \A t \in Task \ {c, u} : r.state[t] = s.state[t]
    /\ r.task_queue = s.task_queue

LEMMA JoinDone ==
    ASSUME NEW s, NEW r, NEW p, NEW p2, NEW c \in Task, NEW u \in Task,
           NEW j \in [Task -> Task \cup {NULL}], NEW b,
           JoinsMatch(s, p, j, b),
           GivenUp(s, r, p, p2, c, u, j)
    PROVE  JoinsMatch(r, p2, [j EXCEPT ![u] = NULL], b)
<1> USE DEF GivenUp
<1> DEFINE k == [j EXCEPT ![u] = NULL]
<1>1. c # u /\ NULL \notin Task /\ p[u] = "run"
  BY NullAssumption DEF Runnable, JoinsMatch
<1>2. k[u] = NULL /\ \A t \in Task \ {u} : k[t] = j[t]
  OBVIOUS
<1>3. \A t \in Task \ {u} : j[t] # c
  <2> SUFFICES ASSUME NEW t \in Task \ {u}, j[t] = c PROVE FALSE
    OBVIOUS
  <2>1. p[c] \in JoinLabel
    BY <1>1 DEF JoinsMatch
  <2> QED BY <2>1, <1>1 DEF JoinsMatch
<1> HIDE DEF k
<1>4. /\ \A t \in Task : r.state[t] \in {"DESTROYED", "INVALID"} => p2[t] = "run"
      /\ \A t \in Task : r.state[t] = "WAIT" => p2[t] \in WaitLabel
      /\ \A t \in Task : r.task_queue[t] \in Task => r.task_queue[t] = t /\ p2[t] = "join_wait"
  BY <1>1 DEF JoinsMatch, Runnable
<1>5. \A t \in Task : k[t] # NULL => p2[k[t]] \in JoinLabel /\ r.state[t] # "INVALID"
  <2> SUFFICES ASSUME NEW t \in Task, k[t] # NULL
               PROVE  p2[k[t]] \in JoinLabel /\ r.state[t] # "INVALID"
    OBVIOUS
  <2>1. t # u /\ k[t] = j[t] /\ j[t] \in Task /\ j[t] # c
    BY <1>2, <1>3
  <2> QED BY <2>1 DEF JoinsMatch, Runnable
<1>6. \A t \in Task, v \in Task : k[t] = k[v] /\ k[t] # NULL => t = v
  BY <1>2 DEF JoinsMatch
<1>7. ASSUME NEW t \in Task, p2[t] \in JoinLabel, r.state[t] # "WAIT"
      PROVE  /\ b[t] = "OK"
             /\ \E v \in Task : k[v] = t /\ r.state[v] = "DESTROYED" /\ b[v] = "EXIT"
  <2>1. t # c /\ t # u
    BY <1>1, <1>7 DEF JoinLabel
  <2>2. PICK v \in Task : b[t] = "OK" /\ j[v] = t /\ s.state[v] = "DESTROYED" /\ b[v] = "EXIT"
    BY <2>1, <1>7 DEF JoinsMatch
  <2>3. v # u /\ v # c
    BY <2>1, <2>2, <1>1 DEF Runnable
  <2> QED BY <2>2, <2>3, <1>2
<1>8. ASSUME NEW t \in Task, p2[t] \in JoinLabel, r.state[t] = "WAIT"
      PROVE  /\ r.task_queue[t] = t
             /\ \E v \in Task : k[v] = t /\ r.state[v] \in {"RUNNING", "READY", "WAIT"}
  <2>1. t # c /\ t # u
    BY <1>1, <1>8 DEF JoinLabel
  <2>2. PICK v \in Task : s.task_queue[t] = t /\ j[v] = t
                         /\ s.state[v] \in {"RUNNING", "READY", "WAIT"}
    BY <2>1, <1>8 DEF JoinsMatch
  <2>3. v # u
    BY <2>2
  <2> QED BY <2>2, <2>3, <1>2 DEF Runnable
<1>9. JoinsMatch(r, p2, k, b)
  BY <1>4, <1>5, <1>6, <1>7, <1>8 DEF JoinsMatch
<1> QED BY <1>9 DEF k

LEMMA ReapStep ==
    ASSUME SchedCore, NEW u \in Task, os_task_join_reap(u)
    PROVE  SchedCore' /\ StayEffect
<1> DEFINE c == task_current
<1>1. /\ pc[c] = "run" /\ u # c /\ join_sem[u] = NULL /\ tq.state[u] = "DESTROYED"
      /\ tq' = [tq EXCEPT !.state[u] = "INVALID"]
      /\ UNCHANGED <<tcbVars, task_current, cpuVars, pc, deferred>>
  BY DEF os_task_join_reap, MayJoin, InTask
<1>2. /\ InPlace(tq, c) /\ c \in Task /\ tq.state \in [Task -> TaskState]
      /\ tq.state[c] \in Runnable /\ tq.task_queue[c] = NULL
      /\ join_sem \in [Task -> Task \cup {NULL}] /\ JoinsMatch(tq, pc, join_sem, block_code)
  BY DEF SchedCore, TypeOK, InPlace, TaskQueueType
<1>3. /\ InPlace(tq', c) /\ tq'.task_queue = tq.task_queue
      /\ tq'.prio_current = tq.prio_current
      /\ tq'.state = [tq.state EXCEPT ![u] = "INVALID"]
  BY <1>1, <1>2, Reaped
<1>4. TypeOK'
  <2>1. tq' \in TaskQueueType
    BY <1>3 DEF InPlace
  <2> QED BY <2>1, <1>1 DEF SchedCore, TypeOK, tcbVars, cpuVars
<1>5. JoinsMatch(tq', pc, [join_sem EXCEPT ![u] = NULL], block_code)
  <2>1. /\ tq'.state[u] = "INVALID" /\ tq'.state[c] \in Runnable
        /\ \A t \in Task \ {c, u} : tq'.state[t] = tq.state[t]
        /\ pc[c] \notin JoinLabel
    BY <1>1, <1>2, <1>3 DEF JoinLabel
  <2>2. GivenUp(tq, tq', pc, pc, c, u, join_sem)
    BY <1>1, <1>2, <1>3, <2>1 DEF GivenUp
  <2> QED BY <1>2, <2>2, JoinDone
<1>6. [join_sem EXCEPT ![u] = NULL] = join_sem
  BY <1>1, <1>2
<1>7. LocksMatch'
  <2>1. \A t \in Task : pc[t] # "boot" /\ pc'[t] # "boot"
    BY <1>1, <1>2 DEF SchedCore, LocksMatch
  <2> QED BY <2>1, <1>1, <1>2, LocksFrame DEF SchedCore, cpuVars
<1>8. StayEffect
  <2>1. Frame
    BY <1>1, <1>3 DEF Frame, FieldsKept, JoinLabel, SameObject, tcbVars, cpuVars
  <2>2. Freed(u)
    BY <1>1, <1>2, <1>3, <1>6 DEF Freed, SameLife, tcbVars
  <2> QED BY <1>1, <2>1, <2>2 DEF StayEffect
<1> QED BY <1>1, <1>3, <1>4, <1>5, <1>6, <1>7, <1>8 DEF SchedCore, tcbVars

LEMMA JoinEndStep == SchedCore /\ os_task_join_end => SchedCore' /\ StayEffect
<1> SUFFICES ASSUME SchedCore, os_task_join_end PROVE SchedCore' /\ StayEffect
  OBVIOUS
<1> DEFINE c == task_current
           m == [tq EXCEPT !.state[c] = "RUNNING"]
<1>1. PICK u \in Task : /\ join_sem[u] = c
                       /\ tq' = [m EXCEPT !.state[u] = "INVALID"]
                       /\ join_sem' = [join_sem EXCEPT ![u] = NULL]
  BY DEF os_task_join_end
<1>2. /\ pc[c] = "join_end" /\ pc' = [pc EXCEPT ![c] = "run"] /\ task_current' = c
      /\ UNCHANGED <<prio_base, block_type, block_code, cpuVars, deferred>>
  BY DEF os_task_join_end
<1>3. /\ c \in Task /\ tq.state \in [Task -> TaskState] /\ pc \in [Task -> Label]
      /\ tq.state[c] \in Runnable /\ tq.task_queue[c] = NULL
      /\ join_sem \in [Task -> Task \cup {NULL}] /\ JoinsMatch(tq, pc, join_sem, block_code)
  BY DEF SchedCore, TypeOK, InPlace, TaskQueueType
<1>4. tq.state[u] = "DESTROYED" /\ u # c
  <2>1. PICK v \in Task : join_sem[v] = c /\ tq.state[v] = "DESTROYED"
    BY <1>2, <1>3 DEF JoinsMatch, JoinLabel, Runnable
  <2>2. u = v
    BY <1>1, <1>3, <2>1, NullAssumption DEF JoinsMatch
  <2> QED BY <2>1, <2>2, <1>3 DEF Runnable
<1>5. /\ InPlace(m, c) /\ m.task_queue = tq.task_queue /\ m.prio_current = tq.prio_current
      /\ m.state = [tq.state EXCEPT ![c] = "RUNNING"]
  BY MarkRunning
<1> HIDE DEF m
<1>6. m.state[u] = "DESTROYED"
  BY <1>3, <1>4, <1>5
<1>7. /\ InPlace(tq', c) /\ tq'.task_queue = m.task_queue
      /\ tq'.prio_current = m.prio_current
      /\ tq'.state = [m.state EXCEPT ![u] = "INVALID"]
  BY <1>1, <1>5, <1>6, Reaped
<1>8. TypeOK'
  <2>1. tq' \in TaskQueueType
    BY <1>7 DEF InPlace
  <2>2. pc' \in [Task -> Label] /\ join_sem' \in [Task -> Task \cup {NULL}]
    BY <1>1, <1>2, <1>3 DEF Label, Interruptible
  <2> QED BY <2>1, <2>2, <1>2 DEF SchedCore, TypeOK, cpuVars
<1>9. JoinsMatch(tq', pc', join_sem', block_code)
  <2>1. /\ tq'.state[u] = "INVALID" /\ tq'.state[c] \in Runnable
        /\ \A t \in Task \ {c, u} : tq'.state[t] = tq.state[t]
        /\ tq'.task_queue = tq.task_queue
    BY <1>3, <1>4, <1>5, <1>7 DEF Runnable
  <2>2. pc'[c] = "run" /\ \A t \in Task \ {c} : pc'[t] = pc[t]
    BY <1>2, <1>3
  <2>3. GivenUp(tq, tq', pc, pc', c, u, join_sem)
    BY <1>1, <1>3, <1>4, <2>1, <2>2 DEF GivenUp
  <2> QED BY <1>1, <1>3, <2>3, JoinDone
<1>10. LocksMatch'
  <2>1. \A t \in Task : pc[t] # "boot" /\ pc'[t] # "boot"
    BY <1>2, <1>3 DEF SchedCore, LocksMatch
  <2> QED BY <2>1, <1>2, <1>3, LocksFrame DEF SchedCore, cpuVars
<1>11. StayEffect
  <2>1. /\ tq'.state[u] = "INVALID" /\ tq'.state[c] \in Runnable
        /\ \A t \in Task \ {c, u} : tq'.state[t] = tq.state[t]
        /\ tq'.task_queue = tq.task_queue /\ tq'.prio_current = tq.prio_current
    BY <1>3, <1>4, <1>5, <1>7 DEF Runnable
  <2>2. Frame
    BY <1>2, <1>3, <2>1 DEF Frame, FieldsKept, JoinLabel, SameObject, cpuVars, OwnLabel
  <2>3. Freed(u)
    BY <1>1, <1>2, <1>3, <1>4, <2>1, NullAssumption DEF Freed, SameLife
  <2> QED BY <1>2, <2>2, <2>3 DEF StayEffect
<1> QED BY <1>2, <1>7, <1>8, <1>9, <1>10, <1>11 DEF SchedCore

\* os_task_makewait takes task_current off the CPU.
LEMMA BlockQueues ==
    ASSUME NEW s, InPlace(s, task_current), task_current # Idle, NEW q \in Queue \ {ready_queue}
    PROVE  /\ Linked(s, os_task_makewait(s, q), q, task_current, "WAIT")
           /\ Vacant(os_task_makewait(s, q))
<1> DEFINE c == task_current
           r == os_task_makewait(s, q)
<1>1. /\ s \in TaskQueueType /\ Coherent(s) /\ c \in Task /\ Idle \in Task
      /\ s.task_queue \in [Task -> Queue \cup {NULL}] /\ s.state \in [Task -> TaskState]
      /\ "WAIT" \in TaskState /\ s.task_queue[c] = NULL
  BY IdleAssumption DEF InPlace, TaskQueueType, TaskState
<1>2. Linked(s, r, q, c, "WAIT")
  BY <1>1, LinkTask DEF os_task_makewait
<1> HIDE DEF r
<1>3. /\ r \in TaskQueueType /\ Coherent(r)
      /\ r.task_queue[c] = q /\ r.state[c] = "WAIT"
      /\ \A t \in Task \ {c} : r.task_queue[t] = s.task_queue[t] /\ r.state[t] = s.state[t]
  BY <1>1, <1>2 DEF Linked
<1>4. ASSUME NEW t \in Task
      PROVE  /\ r.task_queue[t] \in Queue \ {ready_queue} <=> r.state[t] = "WAIT"
             /\ r.task_queue[t] = ready_queue => r.state[t] = "READY"
             /\ \/ r.task_queue[t] = ready_queue
                \/ r.state[t] \in {"WAIT", "DESTROYED", "INVALID"}
  <2>1. CASE t = c
    BY <2>1, <1>1, <1>3
  <2>2. CASE t # c
    BY <2>2, <1>1, <1>3 DEF InPlace
  <2> QED BY <2>1, <2>2
<1>5. r.task_queue[Idle] = ready_queue
  BY <1>1, <1>3 DEF InPlace
<1>6. Vacant(r)
  BY <1>3, <1>4, <1>5 DEF Vacant
<1> QED BY <1>2, <1>6 DEF r

\* The caller blocks on its own semaphore until u exits.
LEMMA JoinWaitStep ==
    ASSUME SchedCore, NEW u \in Task, os_task_join_wait(u)
    PROVE  SchedCore' /\ LeaveEffect
<1> DEFINE c == task_current
           s == os_task_makewait(tq, c)
           p2 == [pc EXCEPT ![c] = "join_wait"]
           j == join_sem
           k == join_sem'
           b == block_code
<1>1. /\ pc[c] = "run" /\ c \in Joining /\ u # c /\ j[u] = NULL
      /\ tq.state[u] \in {"RUNNING", "READY", "WAIT"}
      /\ k = [j EXCEPT ![u] = c]
      /\ UNCHANGED <<prio_base, block_code, cpuVars>>
      /\ SwitchAway(s, "join_wait")
      /\ block_type' = [block_type EXCEPT ![c] = "SEM"]
  BY DEF os_task_join_wait, MayJoin, InTask, os_task_block_switch
<1>2. /\ InPlace(tq, c) /\ tq \in TaskQueueType /\ Coherent(tq) /\ c \in Task
      /\ tq.task_queue \in [Task -> Queue \cup {NULL}] /\ tq.state \in [Task -> TaskState]
      /\ c \in Queue /\ c # ready_queue /\ c # Idle /\ Idle \in Task /\ NULL \notin Task
      /\ "WAIT" \in TaskState /\ tq.task_queue[c] = NULL
      /\ j \in [Task -> Task \cup {NULL}] /\ pc \in [Task -> Label]
  BY <1>1, ProfileAssumption, QueueAssumption, IdleAssumption, NullAssumption
     DEF SchedCore, TypeOK, InPlace, TaskQueueType, TaskState
<1>3. Linked(tq, s, c, c, "WAIT") /\ Vacant(s)
  BY <1>2, BlockQueues
<1> HIDE DEF s
<1>4. /\ s \in TaskQueueType /\ Coherent(s)
      /\ s.task_queue[c] = c /\ s.state[c] = "WAIT"
      /\ \A t \in Task \ {c} : s.task_queue[t] = tq.task_queue[t] /\ s.state[t] = tq.state[t]
      /\ s.prio_current = tq.prio_current
  BY <1>2, <1>3 DEF Linked
<1>5. LeaveEffect
  <2>1. \A t \in Task : SameObject(tq, s, t)
    BY <1>2, <1>4, NullAssumption DEF SameObject, ObjectQueue
  <2>2. FieldsKept
    BY <1>1, <1>2 DEF FieldsKept, OwnLabel, cpuVars, SchedCore, TypeOK
  <2>3. Frame /\ (\A t \in Task : SameLife(s, tq', t)) /\ tq'.prio_current = s.prio_current
    <3>1. block_type'[c] # "MTX"
      BY <1>1, <1>2 DEF SchedCore, TypeOK
    <3> QED BY <1>1, <1>3, <2>1, <2>2, <3>1, SwitchFrame DEF OwnLabel
  <2>4. Waits(u)
    BY <1>1, <1>2, <1>4, <2>3 DEF Waits, SameLife, Runnable
  <2> QED BY <1>1, <2>3, <2>4 DEF LeaveEffect
<1>6. TcbTypeOK'
  BY <1>1, <1>2 DEF SchedCore, TypeOK, TcbTypeOK
<1>7. JoinsMatch(s, p2, k, b)
  <2>1. JoinsMatch(tq, pc, j, b)
    BY DEF SchedCore
  <2>2. p2[c] = "join_wait" /\ \A t \in Task \ {c} : p2[t] = pc[t]
    BY <1>2
  <2>3. k[u] = c /\ \A t \in Task \ {u} : k[t] = j[t]
    BY <1>1, <1>2
  <2>4. \A t \in Task : j[t] # c
    BY <1>1, <1>2, <2>1 DEF JoinsMatch, JoinLabel
  <2> HIDE DEF p2, k, j, b
  <2>5. /\ \A t \in Task : s.state[t] \in {"DESTROYED", "INVALID"} => p2[t] = "run"
        /\ \A t \in Task : s.state[t] = "WAIT" => p2[t] \in WaitLabel
        /\ \A t \in Task : s.task_queue[t] \in Task => s.task_queue[t] = t /\ p2[t] = "join_wait"
    BY <1>4, <2>1, <2>2 DEF JoinsMatch, WaitLabel
  <2>6. ASSUME NEW t \in Task, k[t] # NULL
        PROVE  p2[k[t]] \in JoinLabel /\ s.state[t] # "INVALID"
    <3>1. CASE t = u
      BY <3>1, <2>2, <2>3, <1>1, <1>4 DEF JoinLabel
    <3>2. CASE t # u
      BY <3>2, <2>1, <2>2, <2>3, <2>4, <2>6, <1>2, <1>4 DEF JoinsMatch
    <3> QED BY <3>1, <3>2
  <2>7. \A t \in Task, v \in Task : k[t] = k[v] /\ k[t] # NULL => t = v
    BY <2>1, <2>3, <2>4 DEF JoinsMatch
  <2>8. ASSUME NEW t \in Task, p2[t] \in JoinLabel, s.state[t] # "WAIT"
        PROVE  /\ b[t] = "OK"
               /\ \E v \in Task : k[v] = t /\ s.state[v] = "DESTROYED" /\ b[v] = "EXIT"
    <3>1. t # c
      BY <2>8, <1>4
    <3>2. PICK v \in Task : b[t] = "OK" /\ j[v] = t /\ tq.state[v] = "DESTROYED" /\ b[v] = "EXIT"
      BY <3>1, <2>1, <2>2, <2>8, <1>4 DEF JoinsMatch
    <3>3. v # u /\ v # c
      BY <3>2, <1>1, <1>2 DEF InPlace, Runnable
    <3> QED BY <3>2, <3>3, <2>3, <1>4
  <2>9. ASSUME NEW t \in Task, p2[t] \in JoinLabel, s.state[t] = "WAIT"
        PROVE  /\ s.task_queue[t] = t
               /\ \E v \in Task : k[v] = t /\ s.state[v] \in {"RUNNING", "READY", "WAIT"}
    <3>1. CASE t = c
      BY <3>1, <2>3, <1>1, <1>4
    <3>2. CASE t # c
      <4>1. PICK v \in Task : tq.task_queue[t] = t /\ j[v] = t
                             /\ tq.state[v] \in {"RUNNING", "READY", "WAIT"}
        BY <3>2, <2>1, <2>2, <2>9, <1>4 DEF JoinsMatch
      <4>2. v # u
        BY <4>1, <1>1, <1>2
      <4> QED BY <4>1, <4>2, <3>2, <2>3, <1>4
    <3> QED BY <3>1, <3>2
  <2> QED BY <2>5, <2>6, <2>7, <2>8, <2>9 DEF JoinsMatch
<1>8. "join_wait" \in Label \ {"boot"}
  BY DEF Label
<1> QED BY <1>1, <1>3, <1>5, <1>6, <1>7, <1>8, SwitchEnds

\* What os_task_exit makes of the queues before the switch: the task that
\* joins c, if there is one, is READY.
Exited(r, c, sem) ==
    /\ r \in TaskQueueType
    /\ Coherent(r)
    /\ r.state[c] = "DESTROYED"
    /\ r.task_queue[c] = NULL
    /\ r.prio_current = tq.prio_current
    /\ sem # NULL => r.state[sem] = "READY" /\ r.task_queue[sem] = ready_queue
    /\ \A t \in Task \ {c, sem} : /\ r.state[t] = tq.state[t]
                                 /\ r.task_queue[t] = tq.task_queue[t]

\* os_sem_up_sync finds the joining task on its semaphore.
LEMMA JoiningTaskWaits ==
    ASSUME SchedCore, pc[task_current] = "run", join_sem[task_current] # NULL
    PROVE  LET t == join_sem[task_current]
           IN  /\ t \in Task \ {task_current}
               /\ tq.state[t] = "WAIT"
               /\ tq.task_queue[t] = t
               /\ pc[t] \in JoinLabel
<1> DEFINE c == task_current
           t == join_sem[c]
<1>1. /\ c \in Task /\ t \in Task /\ tq.state[c] \in Runnable
      /\ JoinsMatch(tq, pc, join_sem, block_code)
  BY DEF SchedCore, TypeOK, InPlace
<1>2. pc[t] \in JoinLabel
  BY <1>1 DEF JoinsMatch
<1>3. t # c
  BY <1>2 DEF JoinLabel
<1>4. tq.state[t] = "WAIT"
  <2> SUFFICES ASSUME tq.state[t] # "WAIT" PROVE FALSE
    OBVIOUS
  <2>1. PICK u \in Task : join_sem[u] = t /\ tq.state[u] = "DESTROYED"
    BY <1>1, <1>2 DEF JoinsMatch
  <2>2. u = c
    BY <1>1, <2>1 DEF JoinsMatch
  <2> QED BY <2>1, <2>2, <1>1 DEF Runnable
<1>5. tq.task_queue[t] = t
  BY <1>1, <1>2, <1>4 DEF JoinsMatch
<1> QED BY <1>1, <1>2, <1>3, <1>4, <1>5

LEMMA ExitQueues ==
    ASSUME SchedCore, pc[task_current] = "run"
    PROVE  Exited(WakeJoining([tq EXCEPT !.state[task_current] = "DESTROYED"],
                              join_sem[task_current]),
                  task_current, join_sem[task_current])
<1> DEFINE c == task_current
           sem == join_sem[c]
           m == [tq EXCEPT !.state[c] = "DESTROYED"]
           r == WakeJoining(m, sem)
           d == os_taskqueue_dequeue(m, sem)
<1>1. /\ tq \in TaskQueueType /\ Coherent(tq) /\ c \in Task /\ sem \in Task \cup {NULL}
      /\ tq.task_queue \in [Task -> Queue \cup {NULL}] /\ tq.state \in [Task -> TaskState]
      /\ tq.task_queue[c] = NULL /\ "DESTROYED" \in TaskState /\ NULL \notin Task
      /\ Task \subseteq Queue /\ ready_queue \notin Task
      /\ JoinsMatch(tq, pc, join_sem, block_code)
  BY NullAssumption, QueueAssumption DEF SchedCore, TypeOK, InPlace, TaskQueueType, TaskState
<1>2. /\ m \in TaskQueueType /\ Coherent(m) /\ m.task_queue = tq.task_queue
      /\ m.state = [tq.state EXCEPT ![c] = "DESTROYED"] /\ m.prio_current = tq.prio_current
  BY <1>1, SetState
<1> HIDE DEF m
<1>3. m.state[c] = "DESTROYED" /\ \A t \in Task \ {c} : m.state[t] = tq.state[t]
  BY <1>1, <1>2
<1>4. CASE sem = NULL
  <2>1. r = m
    BY <1>4 DEF WakeJoining
  <2> HIDE DEF r
  <2>2. Exited(r, c, sem)
    BY <2>1, <1>1, <1>2, <1>3, <1>4 DEF Exited
  <2> QED BY <2>2 DEF r, m
<1>5. CASE sem # NULL
  <2>1. sem \in Task \ {c} /\ tq.task_queue[sem] = sem
    BY <1>5, JoiningTaskWaits
  <2>2. sem \in Queue
    BY <1>1, <2>1
  <2>3. TopTaken(m, sem, d)
    <3>1. \E u \in Task : m.task_queue[u] = sem
      BY <1>2, <2>1
    <3> QED BY <3>1, <1>2, <2>2, DequeueProperties
  <2> HIDE DEF d
  <2>4. d.task = sem
    <3>1. d.task \in Task /\ tq.task_queue[d.task] = sem
      BY <2>3, <1>2 DEF TopTaken
    <3> QED BY <3>1, <2>1, <1>1 DEF JoinsMatch
  <2>5. /\ d.s \in TaskQueueType /\ Coherent(d.s)
        /\ d.s.task_queue = [tq.task_queue EXCEPT ![sem] = NULL]
        /\ d.s.state = m.state /\ d.s.prio_current = tq.prio_current
    BY <2>3, <2>4, <1>2 DEF TopTaken, Removed
  <2>6. d.s.task_queue[sem] = NULL
    BY <2>5, <2>1, <1>1
  <2>7. r = os_task_makeready(d.s, sem)
    BY <1>1, <1>5, <2>1, <2>4 DEF WakeJoining, d
  <2>8. Linked(d.s, r, ready_queue, sem, "READY")
    <3> HIDE DEF r, sem
    <3> QED BY <2>1, <2>5, <2>6, <2>7, MakeReady
  <2> HIDE DEF r
  <2>9. /\ r \in TaskQueueType /\ Coherent(r)
        /\ r.task_queue = [[tq.task_queue EXCEPT ![sem] = NULL] EXCEPT ![sem] = ready_queue]
        /\ r.state = [[tq.state EXCEPT ![c] = "DESTROYED"] EXCEPT ![sem] = "READY"]
        /\ r.prio_current = tq.prio_current
    BY <2>5, <2>8, <1>2 DEF Linked
  <2>10. Exited(r, c, sem)
    <3> HIDE DEF sem
    <3> QED BY <2>1, <2>9, <1>1 DEF Exited
  <2> QED BY <2>10 DEF r, m
<1> QED BY <1>4, <1>5, <1>1

LEMMA ExitStep == SchedCore /\ os_task_exit => SchedCore' /\ LeaveEffect
<1> SUFFICES ASSUME SchedCore, os_task_exit PROVE SchedCore' /\ LeaveEffect
  OBVIOUS
<1> DEFINE c == task_current
           sem == join_sem[c]
           s == WakeJoining([tq EXCEPT !.state[c] = "DESTROYED"], sem)
           p2 == [pc EXCEPT ![c] = "run"]
           j == join_sem
           b == block_code
           b2 == block_code'
<1>1. /\ pc[c] = "run" /\ c \in Exiting /\ b2 = ExitCodes
      /\ UNCHANGED <<prio_base, block_type, join_sem, cpuVars>>
      /\ SwitchAway(s, "run")
  BY DEF os_task_exit, InTask
<1>2. /\ InPlace(tq, c) /\ c \in Task /\ c # Idle /\ Idle \in Task
      /\ NULL \notin Task /\ NULL \notin Queue /\ ready_queue \notin Task
      /\ tq.state[c] \in Runnable /\ sem \in Task \cup {NULL}
      /\ j \in [Task -> Task \cup {NULL}] /\ pc \in [Task -> Label]
      /\ JoinsMatch(tq, pc, j, b)
  BY <1>1, ProfileAssumption, QueueAssumption, IdleAssumption, NullAssumption
     DEF SchedCore, TypeOK, InPlace
<1>3. Exited(s, c, sem)
  BY <1>1, ExitQueues
<1>4. sem # NULL => /\ sem \in Task \ {c} /\ tq.state[sem] = "WAIT"
                    /\ tq.task_queue[sem] = sem /\ pc[sem] \in JoinLabel
  BY <1>1, JoiningTaskWaits
<1>5. /\ b2[c] = "EXIT"
      /\ \A t \in Task \ {c} : b2[t] = IF t = sem THEN "OK" ELSE b[t]
  BY <1>1, <1>2 DEF ExitCodes
<1>6. TcbTypeOK'
  <2>1. b2 \in [Task -> {"OK", "DESTROYED", "TIMEOUT", "EXIT"}]
    BY <1>1 DEF SchedCore, TypeOK, ExitCodes
  <2> QED BY <2>1, <1>1 DEF SchedCore, TypeOK, TcbTypeOK
<1> HIDE DEF s, sem, b2
<1>7. Vacant(s)
  <2>1. ASSUME NEW t \in Task
        PROVE  /\ s.task_queue[t] \in Queue \ {ready_queue} <=> s.state[t] = "WAIT"
               /\ s.task_queue[t] = ready_queue => s.state[t] = "READY"
               /\ \/ s.task_queue[t] = ready_queue
                  \/ s.state[t] \in {"WAIT", "DESTROYED", "INVALID"}
    <3>1. CASE t = c
      BY <3>1, <1>2, <1>3, QueueAssumption DEF Exited
    <3>2. CASE t = sem
      BY <3>2, <1>2, <1>3 DEF Exited
    <3>3. CASE t \notin {c, sem}
      BY <3>3, <1>2, <1>3 DEF Exited, InPlace
    <3> QED BY <3>1, <3>2, <3>3
  <2>2. s.task_queue[Idle] = ready_queue
    <3>1. Idle # sem
      BY <1>2, <1>4, QueueAssumption DEF InPlace
    <3> QED BY <3>1, <1>2, <1>3 DEF Exited, InPlace
  <2> QED BY <2>1, <2>2, <1>3 DEF Vacant, Exited
<1>8. JoinsMatch(s, p2, j, b2)
  <2>1. p2 = pc
    BY <1>1, <1>2
  <2>2. j[c] = sem
    BY DEF sem
  <2>3. /\ s.state[c] = "DESTROYED" /\ s.task_queue[c] = NULL
        /\ sem # NULL => s.state[sem] = "READY" /\ s.task_queue[sem] = ready_queue
        /\ \A t \in Task \ {c, sem} : s.state[t] = tq.state[t] /\ s.task_queue[t] = tq.task_queue[t]
    BY <1>3 DEF Exited
  <2> HIDE DEF j, b, p2
  <2>4. /\ \A t \in Task : s.state[t] \in {"DESTROYED", "INVALID"} => pc[t] = "run"
        /\ \A t \in Task : s.state[t] = "WAIT" => pc[t] \in WaitLabel
        /\ \A t \in Task : s.task_queue[t] \in Task => s.task_queue[t] = t /\ pc[t] = "join_wait"
    BY <1>1, <1>2, <2>3 DEF JoinsMatch
  <2>5. \A t \in Task : j[t] # NULL => pc[j[t]] \in JoinLabel /\ s.state[t] # "INVALID"
    BY <1>2, <2>3 DEF JoinsMatch
  <2>6. \A t \in Task, v \in Task : j[t] = j[v] /\ j[t] # NULL => t = v
    BY <1>2 DEF JoinsMatch
  <2>7. ASSUME NEW t \in Task, pc[t] \in JoinLabel, s.state[t] # "WAIT"
        PROVE  /\ b2[t] = "OK"
               /\ \E v \in Task : j[v] = t /\ s.state[v] = "DESTROYED" /\ b2[v] = "EXIT"
    <3>1. t # c
      BY <2>7, <1>1 DEF JoinLabel
    <3>2. CASE t = sem
      BY <3>1, <3>2, <2>2, <2>3, <1>2, <1>5
    <3>3. CASE t # sem
      <4>1. PICK v \in Task : b[t] = "OK" /\ j[v] = t /\ tq.state[v] = "DESTROYED" /\ b[v] = "EXIT"
        BY <3>1, <3>3, <2>3, <2>7, <1>2 DEF JoinsMatch
      <4>2. v # c /\ v # sem
        BY <4>1, <1>2, <1>4 DEF Runnable
      <4> QED BY <4>1, <4>2, <3>1, <3>3, <2>3, <1>5
    <3> QED BY <3>2, <3>3
  <2>8. ASSUME NEW t \in Task, pc[t] \in JoinLabel, s.state[t] = "WAIT"
        PROVE  /\ s.task_queue[t] = t
               /\ \E v \in Task : j[v] = t /\ s.state[v] \in {"RUNNING", "READY", "WAIT"}
    <3>1. t # c /\ t # sem
      BY <2>3, <2>8, <1>2
    <3>2. PICK v \in Task : tq.task_queue[t] = t /\ j[v] = t
                           /\ tq.state[v] \in {"RUNNING", "READY", "WAIT"}
      BY <3>1, <2>3, <2>8, <1>2 DEF JoinsMatch
    <3>3. v # c
      BY <3>1, <3>2, <2>2
    <3>4. s.state[v] \in {"RUNNING", "READY", "WAIT"}
      BY <3>2, <3>3, <2>3, <1>2
    <3> QED BY <3>1, <3>2, <3>4, <2>3
  <2>9. JoinsMatch(s, pc, j, b2)
    BY <2>4, <2>5, <2>6, <2>7, <2>8 DEF JoinsMatch
  <2> QED BY <2>1, <2>9
<1>9. "run" \in Label \ {"boot"} /\ join_sem' = j /\ block_code' = b2
  BY <1>1 DEF Label, Interruptible, b2
<1>10. LeaveEffect
  <2>1. \A t \in Task : SameObject(tq, s, t)
    BY <1>2, <1>3, <1>4, QueueAssumption DEF SameObject, ObjectQueue, Exited, InPlace
  <2>2. FieldsKept
    BY <1>1, <1>2, <1>4, <1>5 DEF FieldsKept, OwnLabel, JoinLabel, cpuVars, b2
  <2>3. Frame /\ (\A t \in Task : SameLife(s, tq', t)) /\ tq'.prio_current = s.prio_current
    BY <1>1, <1>7, <2>1, <2>2, SwitchFrame DEF OwnLabel, JoinLabel
  <2>4. Dies
    BY <1>1, <1>2, <1>3, <1>4, <2>3 DEF Dies, Exited, SameLife, Runnable, sem
  <2> QED BY <1>1, <2>3, <2>4 DEF LeaveEffect
<1> QED BY <1>1, <1>6, <1>7, <1>8, <1>9, <1>10, SwitchEnds

---------------------------------------------------------------------------
(* The loop of the destroy functions.                                      *)

\* r is s with some tasks of queue q made READY.
Woken(s, r, q) ==
    /\ r \in TaskQueueType
    /\ Coherent(r)
    /\ r.prio_current = s.prio_current
    /\ \A t \in Task :
          \/ r.task_queue[t] = s.task_queue[t] /\ r.state[t] = s.state[t]
          \/ s.task_queue[t] = q /\ r.task_queue[t] = ready_queue /\ r.state[t] = "READY"

\* One turn wakes one more task, if there is one.
LEMMA WakeTurn ==
    ASSUME NEW s, NEW q \in Queue \ {ready_queue}, NEW r, Woken(s, r, q)
    PROVE  LET d == os_taskqueue_dequeue(r, q)
               n == IF d.task = NULL THEN d.s ELSE os_task_makeready(d.s, d.task)
           IN  /\ Woken(s, n, q)
               /\ \/ d.task = NULL /\ OnQueue(n, q) = {} /\ OnQueue(r, q) = {} /\ n = r
                  \/ /\ d.task \in OnQueue(r, q)
                     /\ OnQueue(n, q) = OnQueue(r, q) \ {d.task}
                     /\ \A u \in OnQueue(r, q) : r.prio_current[u] <= r.prio_current[d.task]
<1> DEFINE d == os_taskqueue_dequeue(r, q)
           n == IF d.task = NULL THEN d.s ELSE os_task_makeready(d.s, d.task)
<1>1. /\ r \in TaskQueueType /\ Coherent(r) /\ ready_queue \in Queue /\ NULL \notin Task
      /\ r.task_queue \in [Task -> Queue \cup {NULL}] /\ r.state \in [Task -> TaskState]
  BY QueueAssumption, NullAssumption DEF Woken, TaskQueueType
<1>2. \/ d.task = NULL /\ d.s = r /\ \A u \in Task : r.task_queue[u] # q
      \/ TopTaken(r, q, d)
  BY <1>1, DequeueProperties
<1> HIDE DEF d
<1>3. CASE d.task = NULL
  <2>1. n = r /\ \A u \in Task : r.task_queue[u] # q
    BY <1>1, <1>2, <1>3 DEF TopTaken
  <2>2. OnQueue(n, q) = {} /\ OnQueue(r, q) = {}
    BY <2>1 DEF OnQueue
  <2> QED BY <1>3, <2>1, <2>2 DEF d
<1>4. CASE d.task # NULL
  <2>1. TopTaken(r, q, d)
    BY <1>2, <1>4
  <2>2. /\ d.task \in Task /\ r.task_queue[d.task] = q
        /\ d.s \in TaskQueueType /\ Coherent(d.s)
        /\ d.s.task_queue = [r.task_queue EXCEPT ![d.task] = NULL]
        /\ d.s.prio_current = r.prio_current /\ d.s.state = r.state
        /\ \A u \in OnQueue(r, q) : r.prio_current[u] <= r.prio_current[d.task]
    BY <2>1 DEF TopTaken, Removed, OnQueue
  <2>3. d.s.task_queue[d.task] = NULL
    BY <1>1, <2>2
  <2>4. Linked(d.s, n, ready_queue, d.task, "READY")
    BY <1>4, <2>2, <2>3, MakeReady
  <2> HIDE DEF n
  <2>5. /\ n \in TaskQueueType /\ Coherent(n) /\ n.prio_current = r.prio_current
        /\ n.task_queue[d.task] = ready_queue /\ n.state[d.task] = "READY"
        /\ \A t \in Task \ {d.task} : n.task_queue[t] = r.task_queue[t] /\ n.state[t] = r.state[t]
    BY <1>1, <2>2, <2>4 DEF Linked
  <2>6. Woken(s, n, q)
    <3>1. s.task_queue[d.task] = q
      BY <2>2 DEF Woken
    <3> QED BY <2>5, <3>1 DEF Woken
  <2>7. OnQueue(n, q) = OnQueue(r, q) \ {d.task} /\ d.task \in OnQueue(r, q)
    BY <2>2, <2>5 DEF OnQueue
  <2> QED BY <2>2, <2>6, <2>7 DEF n, d
<1> QED BY <1>3, <1>4

\* One turn of the loop of WakeAll.
WakeNext(r, q) ==
    LET d == os_taskqueue_dequeue(r, q)
    IN  IF d.task = NULL THEN d.s ELSE os_task_makeready(d.s, d.task)

\* The states that the loop of WakeAll goes through.
LEMMA WakeAllTurns ==
    ASSUME NEW s \in TaskQueueType, Coherent(s), NEW q \in Queue \ {ready_queue}
    PROVE  \E w : /\ w[0] = s
                  /\ w[Cardinality(Task)] = WakeAll(s, q)
                  /\ \A n \in 1 .. Cardinality(Task) : w[n] = WakeNext(w[n - 1], q)
<1> DEFINE N == Cardinality(Task)
           Turn(r) == WakeNext(r, q)
           S == {r \in TaskQueueType : Woken(s, r, q)}
           g == [n \in 1 .. N |-> [r \in S |-> Turn(r)]]
           w == CHOOSE w : w = [n \in 0 .. N |-> IF n = 0 THEN s ELSE Turn(w[n - 1])]
<1>1. WakeAll(s, q) = w[N]
  BY DEF WakeAll, WakeNext
<1>2. N \in Nat
  BY TaskAssumption, FS_CardinalityType
<1>3. s \in S
  BY DEF Woken
<1>4. ASSUME NEW r \in S PROVE Turn(r) \in S
  BY <1>4, WakeTurn DEF Woken, WakeNext
<1> HIDE DEF N, Turn, S
<1>5. PICK f : Turns(N, S, s, g, f)
  <2>1. g \in [1 .. N -> [S -> S]]
    BY <1>4
  <2> HIDE DEF g
  <2> QED BY <1>2, <1>3, <2>1, Loop, Zenon
<1>6. f = [n \in 0 .. N |-> IF n = 0 THEN s ELSE Turn(f[n - 1])]
  <2>1. \A n \in 1 .. N : \A r \in S : g[n][r] = Turn(r)
    OBVIOUS
  <2> HIDE DEF g
  <2>2. f \in [0 .. N -> S] /\ f[0] = s /\ \A n \in 1 .. N : f[n] = g[n][f[n - 1]]
    BY <1>5 DEF Turns
  <2>3. \A n \in 0 .. N : f[n] = IF n = 0 THEN s ELSE Turn(f[n - 1])
    BY <1>2, <2>1, <2>2
  <2> QED BY <2>2, <2>3
<1>7. w = [n \in 0 .. N |-> IF n = 0 THEN s ELSE Turn(w[n - 1])]
  BY <1>6
<1> HIDE DEF w
<1>8. w[0] = s /\ \A n \in 1 .. N : w[n] = Turn(w[n - 1])
  BY <1>2, <1>7
<1> QED BY <1>1, <1>8 DEF N, Turn

\* WakeAll wakes every waiter of q and nobody else.
LEMMA WakeAllProperties ==
    ASSUME NEW s \in TaskQueueType, Coherent(s), NEW q \in Queue \ {ready_queue}
    PROVE  Woken(s, WakeAll(s, q), q) /\ OnQueue(WakeAll(s, q), q) = {}
<1> DEFINE N == Cardinality(Task)
           Turn(r) == WakeNext(r, q)
           S == {r \in TaskQueueType : Woken(s, r, q)}
<1>1. PICK w : /\ w[0] = s
               /\ w[N] = WakeAll(s, q)
               /\ \A n \in 1 .. N : w[n] = Turn(w[n - 1])
  BY WakeAllTurns
<1>2. N \in Nat
  BY TaskAssumption, FS_CardinalityType
<1>3. s \in S
  BY DEF Woken
<1>4. ASSUME NEW r \in S PROVE Turn(r) \in S
  BY <1>4, WakeTurn DEF Woken, WakeNext
<1> HIDE DEF N, Turn, S
<1>8. w[0] = s /\ \A n \in 1 .. N : w[n] = Turn(w[n - 1])
  BY <1>1
<1> DEFINE left(n) == OnQueue(w[n], q)
           P == {n \in 0 .. N : w[n] \in S /\ Cardinality(left(n)) <= N - n}
<1>9. \A n \in Nat : IsFiniteSet(left(n)) /\ Cardinality(left(n)) \in Nat
  <2>1. \A n \in Nat : left(n) \subseteq Task
    BY DEF OnQueue
  <2> QED BY <2>1, TaskAssumption, FS_Subset, FS_CardinalityType
<1>10. 0 \in P
  <2>1. Cardinality(left(0)) <= N
    <3>1. left(0) \subseteq Task
      BY DEF OnQueue
    <3> QED BY <3>1, TaskAssumption, FS_Subset DEF N
  <2> QED BY <2>1, <1>2, <1>3, <1>8, <1>9
<1>11. ASSUME NEW n \in 1 .. N, n - 1 \in P PROVE n \in P
  <2>1. /\ w[n - 1] \in S /\ Cardinality(left(n - 1)) <= N - (n - 1)
        /\ n - 1 \in Nat /\ n \in Nat
    BY <1>11
  <2>2. w[n] = Turn(w[n - 1]) /\ w[n] \in S
    BY <1>4, <1>8, <2>1
  <2>3. \/ left(n) = {}
        \/ \E t \in left(n - 1) : left(n) = left(n - 1) \ {t}
    BY <2>1, <2>2, WakeTurn DEF S, Turn, WakeNext
  <2>4. CASE left(n) = {}
    BY <1>2, <2>1, <2>2, <2>4, FS_EmptySet
  <2>5. CASE \E t \in left(n - 1) : left(n) = left(n - 1) \ {t}
    <3>1. PICK t \in left(n - 1) : left(n) = left(n - 1) \ {t}
      BY <2>5
    <3>2. IsFiniteSet(left(n - 1)) /\ Cardinality(left(n - 1)) \in Nat
      BY <1>9, <2>1
    <3> HIDE DEF left
    <3>3. Cardinality(left(n)) = Cardinality(left(n - 1)) - 1
      BY <3>1, <3>2, FS_RemoveElement
    <3> QED BY <1>2, <2>1, <2>2, <3>2, <3>3 DEF P
  <2> QED BY <2>3, <2>4, <2>5
<1>12. N \in P
  <2> HIDE DEF P
  <2>1. 0 .. N \subseteq P
    BY <1>2, <1>10, <1>11, CountUp
  <2> QED BY <1>2, <2>1
<1>13. Cardinality(left(N)) = 0
  BY <1>2, <1>9, <1>12
<1>14. left(N) = {}
  BY <1>2, <1>9, <1>13, FS_EmptySet
<1> QED BY <1>1, <1>12, <1>14 DEF S

---------------------------------------------------------------------------
(* The functions of mutexes, semaphores and wait queues change the queues  *)
(* in two ways only: tasks that wait on an object are made READY, and      *)
(* task_current blocks on an object.                                       *)

\* r is tq with the tasks W taken from objects and made READY; priorities may
\* differ.
Released(r, W) ==
    /\ r \in TaskQueueType
    /\ Coherent(r)
    /\ W \subseteq {t \in Task : tq.task_queue[t] \in ObjectQueue}
    /\ \A t \in W : r.task_queue[t] = ready_queue /\ r.state[t] = "READY"
    /\ \A t \in Task \ W : r.task_queue[t] = tq.task_queue[t] /\ r.state[t] = tq.state[t]

LEMMA ReleasedPlace ==
    ASSUME SchedCore, NEW r, NEW W, Released(r, W)
    PROVE  InPlace(r, task_current)
<1> DEFINE c == task_current
<1>1. InPlace(tq, c) /\ c \in Task /\ ready_queue \in Queue /\ Idle \in Task
      /\ NULL \notin ObjectQueue /\ ready_queue \notin ObjectQueue
  BY QueueAssumption, IdleAssumption, NullAssumption DEF SchedCore, TypeOK, ObjectQueue
<1>2. c \notin W /\ (c = Idle \/ Idle \notin W)
  BY <1>1 DEF Released, InPlace
<1>3. ASSUME NEW t \in Task
      PROVE  /\ r.task_queue[t] \in Queue \ {ready_queue} <=> r.state[t] = "WAIT"
             /\ r.task_queue[t] = ready_queue => r.state[t] = "READY"
             /\ t # c => \/ r.task_queue[t] = ready_queue
                         \/ r.state[t] \in {"WAIT", "DESTROYED", "INVALID"}
  <2>1. CASE t \in W
    BY <2>1 DEF Released
  <2>2. CASE t \notin W
    BY <2>2, <1>1 DEF Released, InPlace
  <2> QED BY <2>1, <2>2
<1> QED BY <1>1, <1>2, <1>3 DEF Released, InPlace

\* A task that waits on an object does not join.
LEMMA ReleasedJoins ==
    ASSUME SchedCore, NEW r, NEW W, Released(r, W),
           NEW b, \A t \in Task \ W : b[t] = block_code[t]
    PROVE  JoinsMatch(r, pc, join_sem, b)
<1> DEFINE j == join_sem
<1>1. /\ JoinsMatch(tq, pc, j, block_code) /\ j \in [Task -> Task \cup {NULL}]
      /\ InPlace(tq, task_current)
  BY DEF SchedCore, TypeOK
<1>2. ready_queue \notin Task /\ \A q \in ObjectQueue : q \notin Task /\ q \in Queue \ {ready_queue}
  BY QueueAssumption DEF ObjectQueue
<1>3. \A t \in W : t \in Task /\ tq.state[t] = "WAIT" /\ pc[t] \notin JoinLabel
  <2> SUFFICES ASSUME NEW t \in W
               PROVE  t \in Task /\ tq.state[t] = "WAIT" /\ pc[t] \notin JoinLabel
    OBVIOUS
  <2>1. t \in Task /\ tq.task_queue[t] \in ObjectQueue
    BY DEF Released
  <2>2. tq.state[t] = "WAIT" /\ tq.task_queue[t] # t
    BY <2>1, <1>1, <1>2 DEF InPlace
  <2> QED BY <2>1, <2>2, <1>1 DEF JoinsMatch
<1>4. /\ \A t \in Task : r.state[t] \in {"DESTROYED", "INVALID"} => pc[t] = "run"
      /\ \A t \in Task : r.state[t] = "WAIT" => pc[t] \in WaitLabel
      /\ \A t \in Task : r.task_queue[t] \in Task => r.task_queue[t] = t /\ pc[t] = "join_wait"
  BY <1>1, <1>2 DEF Released, JoinsMatch
<1>5. /\ \A u \in Task : j[u] # NULL => pc[j[u]] \in JoinLabel /\ r.state[u] # "INVALID"
      /\ \A u \in Task, v \in Task : j[u] = j[v] /\ j[u] # NULL => u = v
  BY <1>1 DEF Released, JoinsMatch
<1>6. ASSUME NEW t \in Task, pc[t] \in JoinLabel, r.state[t] # "WAIT"
      PROVE  /\ b[t] = "OK"
             /\ \E u \in Task : j[u] = t /\ r.state[u] = "DESTROYED" /\ b[u] = "EXIT"
  <2>1. t \notin W /\ tq.state[t] # "WAIT"
    BY <1>3, <1>6 DEF Released
  <2>2. PICK u \in Task : /\ block_code[t] = "OK" /\ j[u] = t
                          /\ tq.state[u] = "DESTROYED" /\ block_code[u] = "EXIT"
    BY <1>1, <1>6, <2>1 DEF JoinsMatch
  <2>3. u \notin W
    BY <1>3, <2>2
  <2> QED BY <2>1, <2>2, <2>3 DEF Released
<1>7. ASSUME NEW t \in Task, pc[t] \in JoinLabel, r.state[t] = "WAIT"
      PROVE  /\ r.task_queue[t] = t
             /\ \E u \in Task : j[u] = t /\ r.state[u] \in {"RUNNING", "READY", "WAIT"}
  <2>1. t \notin W /\ tq.state[t] = "WAIT"
    BY <1>3, <1>7 DEF Released
  <2>2. PICK u \in Task : /\ tq.task_queue[t] = t /\ j[u] = t
                          /\ tq.state[u] \in {"RUNNING", "READY", "WAIT"}
    BY <1>1, <1>7, <2>1 DEF JoinsMatch
  <2>3. r.state[u] \in {"RUNNING", "READY", "WAIT"}
    BY <2>2 DEF Released
  <2> QED BY <2>1, <2>2, <2>3 DEF Released
<1> QED BY <1>4, <1>5, <1>6, <1>7 DEF JoinsMatch

\* What the release of W means for the tasks and for the scheduler.
ReleaseEffect(W) ==
    /\ \A t \in W : tq'.task_queue[t] \notin ObjectQueue /\ tq'.state[t] \in Runnable
    /\ \A t \in Task \ W : SameObject(tq, tq', t) /\ SameLife(tq, tq', t)
    /\ \A t \in Task :
          pc'[t] = pc[t] \/ (pc'[t] \in OwnLabel \ JoinLabel /\ pc[t] \in OwnLabel)
    /\ sched_lock' # 0 => UNCHANGED task_current

\* Tasks are released and os_schedule decides who runs.
LEMMA ReleaseAndSchedule ==
    ASSUME SchedCore, NEW r, NEW W, Released(r, W),
           NEW h \in {0, 1}, os_schedule(r, pc[task_current], h),
           UNCHANGED <<prio_base, block_type, join_sem, cpuVars>>,
           block_code' \in [Task -> {"OK", "DESTROYED", "TIMEOUT", "EXIT"}],
           \A t \in Task \ W : block_code'[t] = block_code[t]
    PROVE  /\ SchedCore'
           /\ ReleaseEffect(W)
           /\ deferred' \/ NotOutranked(tq', task_current')
           /\ tq'.prio_current = r.prio_current
<1> DEFINE c == task_current
           ret == pc[c]
<1>1. InPlace(r, c) /\ JoinsMatch(r, pc, join_sem', block_code')
  BY ReleasedPlace, ReleasedJoins
<1>2. c \in Task /\ pc \in [Task -> Label] /\ ret \in Label /\ TcbTypeOK'
      /\ NULL \notin ObjectQueue /\ ready_queue \notin ObjectQueue
  BY NullAssumption DEF SchedCore, TypeOK, TcbTypeOK, ObjectQueue
<1>3. Scheduled(r, ret)
  BY <1>1, ScheduleStep
<1>4. SchedCore'
  <2> HIDE DEF ret
  <2>1. UNCHANGED cpuVars /\ (ret = "boot" <=> pc[c] = "boot")
        /\ (ret \in JoinLabel <=> pc[c] \in JoinLabel)
    BY DEF ret
  <2>2. os_schedule(r, ret, h)
    BY DEF ret
  <2> QED BY <1>1, <1>2, <2>1, <2>2, ScheduleEnds
<1>5. /\ SameBut(r, tq') /\ tq'.prio_current = r.prio_current
      /\ \/ pc' = pc
         \/ pc' = [pc EXCEPT ![c] = ret]
         \/ pc' = [pc EXCEPT ![c] = "sched"] /\ ret = "run"
      /\ sched_lock' # 0 => UNCHANGED task_current
      /\ deferred' \/ NotOutranked(tq', task_current')
  BY <1>3 DEF Scheduled
<1>6. \A t \in W : tq'.task_queue[t] \notin ObjectQueue /\ tq'.state[t] \in Runnable
  BY <1>2, <1>5 DEF SameBut, Released, Runnable
<1>7. \A t \in Task \ W : SameObject(tq, tq', t) /\ SameLife(tq, tq', t)
  BY <1>2, <1>5 DEF SameBut, Released, SameObject, SameLife
<1>8. \A t \in Task : pc'[t] = pc[t] \/ (pc'[t] \in OwnLabel \ JoinLabel /\ pc[t] \in OwnLabel)
  BY <1>2, <1>5 DEF OwnLabel, JoinLabel
<1> QED BY <1>4, <1>5, <1>6, <1>7, <1>8 DEF ReleaseEffect

\* Tasks are released and the caller keeps the CPU.
LEMMA ReleaseOnly ==
    ASSUME SchedCore, NEW W, Released(tq', W),
           UNCHANGED <<prio_base, block_type, join_sem, task_current, pc, cpuVars>>,
           deferred' \in BOOLEAN,
           block_code' \in [Task -> {"OK", "DESTROYED", "TIMEOUT", "EXIT"}],
           \A t \in Task \ W : block_code'[t] = block_code[t]
    PROVE  SchedCore' /\ ReleaseEffect(W)
<1>1. InPlace(tq', task_current) /\ JoinsMatch(tq', pc, join_sem', block_code')
  BY ReleasedPlace, ReleasedJoins
<1>2. TypeOK'
  BY <1>1 DEF SchedCore, TypeOK, InPlace, cpuVars
<1>3. LocksMatch'
  BY DEF SchedCore, LocksMatch, LocksAreCounted, OpenLocks, cpuVars
<1>4. NULL \notin ObjectQueue /\ ready_queue \notin ObjectQueue
  BY NullAssumption DEF ObjectQueue
<1>5. ReleaseEffect(W)
  BY <1>4 DEF ReleaseEffect, Released, SameObject, SameLife, Runnable
<1> QED BY <1>1, <1>2, <1>3, <1>5 DEF SchedCore

\* s is tq with other priorities.
Reprioritised(s) ==
    /\ s \in TaskQueueType
    /\ Coherent(s)
    /\ s.task_queue = tq.task_queue
    /\ s.state = tq.state

\* The top waiter of an object is made READY.
LEMMA ReleaseOne ==
    ASSUME NEW s, Reprioritised(s), NEW q \in ObjectQueue
    PROVE  LET d == os_taskqueue_dequeue(s, q)
           IN  \/ d.task = NULL /\ d.s = s /\ OnQueue(tq, q) = {}
               \/ /\ d.task \in OnQueue(tq, q)
                  /\ \A t \in OnQueue(tq, q) : s.prio_current[t] <= s.prio_current[d.task]
                  /\ Released(os_task_makeready(d.s, d.task), {d.task})
                  /\ os_task_makeready(d.s, d.task).prio_current = s.prio_current
<1> DEFINE d == os_taskqueue_dequeue(s, q)
           r == os_task_makeready(d.s, d.task)
<1>1. /\ s \in TaskQueueType /\ Coherent(s) /\ q \in Queue /\ q # NULL
      /\ s.task_queue = tq.task_queue /\ s.state = tq.state
      /\ s.task_queue \in [Task -> Queue \cup {NULL}] /\ s.state \in [Task -> TaskState]
  BY NullAssumption DEF Reprioritised, ObjectQueue, TaskQueueType
<1>2. \/ d.task = NULL /\ d.s = s /\ \A u \in Task : s.task_queue[u] # q
      \/ TopTaken(s, q, d)
  BY <1>1, DequeueProperties
<1> HIDE DEF d
<1>3. CASE TopTaken(s, q, d)
  <2>1. /\ d.task \in Task /\ s.task_queue[d.task] = q
        /\ d.s \in TaskQueueType /\ Coherent(d.s)
        /\ d.s.task_queue = [s.task_queue EXCEPT ![d.task] = NULL] /\ d.s.state = s.state
        /\ d.s.prio_current = s.prio_current
        /\ \A t \in OnQueue(tq, q) : s.prio_current[t] <= s.prio_current[d.task]
    BY <1>1, <1>3 DEF TopTaken, Removed, OnQueue
  <2>2. Linked(d.s, r, ready_queue, d.task, "READY")
    BY <1>1, <2>1, MakeReady
  <2> HIDE DEF r
  <2>3. /\ r \in TaskQueueType /\ Coherent(r) /\ r.prio_current = s.prio_current
        /\ r.task_queue[d.task] = ready_queue /\ r.state[d.task] = "READY"
        /\ \A t \in Task \ {d.task} : r.task_queue[t] = tq.task_queue[t] /\ r.state[t] = tq.state[t]
    BY <1>1, <2>1, <2>2 DEF Linked
  <2>4. Released(r, {d.task})
    BY <1>1, <2>1, <2>3 DEF Released
  <2>5. d.task \in OnQueue(tq, q)
    BY <1>1, <2>1 DEF OnQueue
  <2> QED BY <2>1, <2>3, <2>4, <2>5 DEF d, r
<1>4. CASE d.task = NULL /\ d.s = s /\ \A u \in Task : s.task_queue[u] # q
  BY <1>1, <1>4 DEF OnQueue, d
<1> QED BY <1>2, <1>3, <1>4

\* All waiters of an object are made READY.
LEMMA ReleaseAll ==
    ASSUME NEW s, Reprioritised(s), NEW q \in ObjectQueue
    PROVE  /\ Released(WakeAll(s, q), OnQueue(tq, q))
           /\ WakeAll(s, q).prio_current = s.prio_current
<1> DEFINE r == WakeAll(s, q)
<1>1. s \in TaskQueueType /\ Coherent(s) /\ q \in Queue \ {ready_queue}
      /\ s.task_queue = tq.task_queue /\ s.state = tq.state
  BY DEF Reprioritised, ObjectQueue
<1>2. Woken(s, r, q) /\ OnQueue(r, q) = {}
  BY <1>1, WakeAllProperties
<1> HIDE DEF r
<1>3. ASSUME NEW t \in OnQueue(tq, q)
      PROVE  t \in Task /\ tq.task_queue[t] \in ObjectQueue
             /\ r.task_queue[t] = ready_queue /\ r.state[t] = "READY"
  BY <1>1, <1>2 DEF OnQueue, Woken
<1>4. \A t \in Task \ OnQueue(tq, q) : r.task_queue[t] = tq.task_queue[t] /\ r.state[t] = tq.state[t]
  BY <1>1, <1>2 DEF OnQueue, Woken
<1>5. Released(r, OnQueue(tq, q))
  BY <1>2, <1>3, <1>4 DEF Released, Woken
<1> QED BY <1>2, <1>5 DEF r, Woken

\* task_current blocks on the object with queue q, in a function that goes on
\* at ret.
BlockEffect(q, ret) ==
    /\ tq'.task_queue[task_current] = q /\ tq'.state[task_current] = "WAIT"
    /\ \A t \in Task \ {task_current} : SameObject(tq, tq', t) /\ SameLife(tq, tq', t)
    /\ pc' = [pc EXCEPT ![task_current] = ret]

LEMMA BlockStep ==
    ASSUME SchedCore, pc[task_current] \notin JoinLabel, task_current # Idle,
           NEW s, Reprioritised(s), NEW q \in ObjectQueue, NEW ret \in WaitLabel \ JoinLabel,
           NEW type \in {"SEM", "MTX", "WAITQUEUE"},
           os_task_block_switch(s, q, type, ret),
           UNCHANGED <<prio_base, block_code, join_sem, isr_nesting>>,
           sched_lock' \in Nat, lock_depth' \in [Task -> Nat],
           task_current' \in Task /\ pc' = [pc EXCEPT ![task_current] = ret] => LocksMatch'
    PROVE  /\ SchedCore'
           /\ BlockEffect(q, ret)
           /\ NotOutranked(tq', task_current')
           /\ tq'.prio_current = s.prio_current
<1> DEFINE c == task_current
           w == os_task_makewait(s, q)
           p2 == [pc EXCEPT ![c] = ret]
           j == join_sem
           b == block_code
<1>1. /\ InPlace(tq, c) /\ c \in Task /\ j \in [Task -> Task \cup {NULL}]
      /\ pc \in [Task -> Label] /\ q \in Queue \ {ready_queue} /\ q \notin Task
      /\ tq.state[c] \in Runnable /\ JoinsMatch(tq, pc, j, b)
      /\ s.task_queue \in [Task -> Queue \cup {NULL}] /\ s.state \in [Task -> TaskState]
      /\ NULL \notin ObjectQueue /\ ready_queue \notin ObjectQueue /\ tq.task_queue[c] = NULL
  BY NullAssumption DEF SchedCore, TypeOK, InPlace, ObjectQueue, TaskQueueType, Reprioritised
<1>2. InPlace(s, c)
  BY <1>1 DEF InPlace, Reprioritised
<1>3. Linked(s, w, q, c, "WAIT") /\ Vacant(w)
  BY <1>1, <1>2, BlockQueues
<1>4. SwitchAway(w, ret) /\ block_type' = [block_type EXCEPT ![c] = type]
  BY DEF os_task_block_switch
<1> HIDE DEF w
<1>5. /\ w.task_queue[c] = q /\ w.state[c] = "WAIT"
      /\ \A t \in Task \ {c} : w.task_queue[t] = tq.task_queue[t] /\ w.state[t] = tq.state[t]
  BY <1>1, <1>3 DEF Linked, Reprioritised
<1>6. /\ InPlace(tq', task_current') /\ NotOutranked(tq', task_current')
      /\ SameBut(w, tq') /\ pc' = [pc EXCEPT ![c] = ret]
      /\ tq'.prio_current = s.prio_current
  BY <1>3, <1>4, SwitchStep DEF Linked
<1>7. BlockEffect(q, ret)
  BY <1>1, <1>5, <1>6 DEF BlockEffect, SameBut, SameObject, SameLife, Runnable
<1>8. p2[c] = ret /\ \A t \in Task \ {c} : p2[t] = pc[t]
  BY <1>1
<1>9. JoinsMatch(w, p2, j, b)
  <2> HIDE DEF p2, j, b
  <2>1. \A t \in Task : j[t] # c
    BY <1>1, NullAssumption DEF JoinsMatch
  <2>2. /\ \A t \in Task : w.state[t] \in {"DESTROYED", "INVALID"} => p2[t] = "run"
        /\ \A t \in Task : w.state[t] = "WAIT" => p2[t] \in WaitLabel
        /\ \A t \in Task : w.task_queue[t] \in Task => w.task_queue[t] = t /\ p2[t] = "join_wait"
    BY <1>1, <1>5, <1>8 DEF JoinsMatch
  <2>3. /\ \A u \in Task : j[u] # NULL => p2[j[u]] \in JoinLabel /\ w.state[u] # "INVALID"
        /\ \A u \in Task, v \in Task : j[u] = j[v] /\ j[u] # NULL => u = v
    BY <1>1, <1>5, <1>8, <2>1 DEF JoinsMatch
  <2>4. ASSUME NEW t \in Task, p2[t] \in JoinLabel, w.state[t] # "WAIT"
        PROVE  /\ b[t] = "OK"
               /\ \E u \in Task : j[u] = t /\ w.state[u] = "DESTROYED" /\ b[u] = "EXIT"
    <3>1. t # c /\ pc[t] \in JoinLabel /\ tq.state[t] # "WAIT"
      BY <1>5, <1>8, <2>4
    <3>2. PICK u \in Task : b[t] = "OK" /\ j[u] = t /\ tq.state[u] = "DESTROYED" /\ b[u] = "EXIT"
      BY <1>1, <3>1 DEF JoinsMatch
    <3>3. u # c
      BY <1>1, <3>2 DEF Runnable
    <3> QED BY <1>5, <3>2, <3>3
  <2>5. ASSUME NEW t \in Task, p2[t] \in JoinLabel, w.state[t] = "WAIT"
        PROVE  /\ w.task_queue[t] = t
               /\ \E u \in Task : j[u] = t /\ w.state[u] \in {"RUNNING", "READY", "WAIT"}
    <3>1. t # c /\ pc[t] \in JoinLabel /\ tq.state[t] = "WAIT"
      BY <1>5, <1>8, <2>5
    <3>2. PICK u \in Task : /\ tq.task_queue[t] = t /\ j[u] = t
                            /\ tq.state[u] \in {"RUNNING", "READY", "WAIT"}
      BY <1>1, <3>1 DEF JoinsMatch
    <3> QED BY <1>5, <3>1, <3>2
  <2> QED BY <2>2, <2>3, <2>4, <2>5 DEF JoinsMatch
<1>10. TcbTypeOK' /\ isr_nesting' \in Nat /\ ret \in Label
  BY <1>1, <1>4 DEF SchedCore, TypeOK, TcbTypeOK, Label, WaitLabel
<1>11. LocksMatch'
  BY <1>6 DEF InPlace
<1>12. SchedCore'
  BY <1>3, <1>4, <1>9, <1>10, <1>11, SwitchEndsWith
<1> QED BY <1>6, <1>7, <1>12

\* The same for a caller that leaves the locks alone.
LEMMA BlockStepUnlocked ==
    ASSUME SchedCore, pc[task_current] = "run", task_current # Idle,
           NEW s, Reprioritised(s), NEW q \in ObjectQueue, NEW ret \in WaitLabel \ JoinLabel,
           NEW type \in {"SEM", "MTX", "WAITQUEUE"},
           os_task_block_switch(s, q, type, ret),
           UNCHANGED <<prio_base, block_code, join_sem, cpuVars>>
    PROVE  /\ SchedCore' /\ BlockEffect(q, ret) /\ NotOutranked(tq', task_current')
           /\ tq'.prio_current = s.prio_current
<1>1. /\ task_current \in Task /\ pc \in [Task -> Label] /\ "run" \notin JoinLabel
      /\ isr_nesting' = isr_nesting /\ sched_lock' \in Nat /\ lock_depth' \in [Task -> Nat]
  BY DEF SchedCore, TypeOK, cpuVars, JoinLabel
<1>2. ASSUME task_current' \in Task, pc' = [pc EXCEPT ![task_current] = ret]
      PROVE  LocksMatch'
  <2>1. \A t \in Task : pc[t] # "boot" /\ pc'[t] # "boot"
    BY <1>1, <1>2 DEF SchedCore, LocksMatch, WaitLabel
  <2> QED BY <1>1, <1>2, <2>1, LocksFrame DEF SchedCore, cpuVars
<1> QED BY <1>1, <1>2, BlockStep

---------------------------------------------------------------------------
(* The theorems.                                                           *)

\* The queues as they are.
LEMMA PlainQueues == SchedCore => Reprioritised(tq)
BY DEF SchedCore, InPlace, Reprioritised

\* A step that compared the priorities, or noted that it has not, keeps SchedInv.
LEMMA RanksNext ==
    ASSUME SchedCore', deferred' \/ NotOutranked(tq', task_current')
    PROVE  SchedInv'
BY DEF SchedInv, HighestPrioRuns, TopRuns, NotOutranked, OnQueue

LEMMA StutterStep == SchedCore /\ UNCHANGED vars => SchedCore'
BY DEF SchedCore, vars, TypeOK, InPlace, JoinsMatch, LocksMatch,
       LocksAreCounted, OpenLocks

\* The steps that move no task but task_current.
LEMMA QuietEffect ==
    ASSUME SchedCore,
           \/ os_scheduler_lock \/ Unlock \/ os_start
           \/ arch_contextstore_i \/ arch_contextrestore_i
           \/ os_schedule_return
    PROVE  StayEffect
<1> DEFINE c == task_current
<1>1. c \in Task /\ pc \in [Task -> Label] /\ lock_depth \in [Task -> Nat]
  BY DEF SchedCore, TypeOK
<1>2. CASE ~os_schedule_return
  <2>1. /\ UNCHANGED <<tq, tcbVars, task_current, deferred>>
        /\ pc' = pc \/ \E l \in OwnLabel \ JoinLabel :
                          pc' = [pc EXCEPT ![c] = l] /\ pc[c] \in OwnLabel
        /\ \A t \in Task : lock_depth'[t] = lock_depth[t] \/ pc[t] \in {"boot", "run"}
    BY <1>1, <1>2
       DEF os_scheduler_lock, Unlock, os_scheduler_unlock, os_start, arch_contextstore_i,
           arch_contextrestore_i, InTask, OwnLabel, JoinLabel
  <2>2. Frame
    BY <1>1, <2>1 DEF Frame, FieldsKept, JoinLabel, SameObject, tcbVars, OwnLabel
  <2>3. Steady
    BY <2>1 DEF Steady, SameLife, tcbVars
  <2> QED BY <2>1, <2>2, <2>3 DEF StayEffect
<1>3. CASE os_schedule_return
  <2>1. /\ tq' = [tq EXCEPT !.state[c] = "RUNNING"] /\ pc[c] = "sched"
        /\ pc' = [pc EXCEPT ![c] = "run"]
        /\ UNCHANGED <<tcbVars, task_current, cpuVars, deferred>>
    BY <1>3 DEF os_schedule_return
  <2>2. /\ SameBut(tq, tq') /\ tq'.task_queue = tq.task_queue
        /\ tq'.prio_current = tq.prio_current
    BY <2>1, MarkRunning
  <2>3. Frame
    BY <1>1, <2>1, <2>2 DEF Frame, FieldsKept, JoinLabel, SameObject, tcbVars, cpuVars, OwnLabel
  <2>4. Steady
    BY <2>1, <2>2 DEF Steady, SameLife, SameBut, tcbVars
  <2> QED BY <2>1, <2>3, <2>4 DEF StayEffect
<1> QED BY <1>2, <1>3

\* The steps that are a call of os_schedule.
LEMMA ScheduleEffect ==
    ASSUME SchedCore,
           \/ os_scheduler_unlock_schedule \/ os_start_schedule
           \/ os_yield \/ os_tick \/ os_task_join_woken
    PROVE  StayEffect
<1> SUFFICES ASSUME NEW s, NEW ret, NEW h \in {0, 1}, os_schedule(s, ret, h),
                    s = tq \/ s = [tq EXCEPT !.state[task_current] = "RUNNING"],
                    ret = pc[task_current] \/ (ret \in OwnLabel /\ pc[task_current] \in OwnLabel),
                    ret \in JoinLabel => pc[task_current] \in JoinLabel,
                    UNCHANGED <<tcbVars, cpuVars>>
             PROVE  StayEffect
  BY DEF os_scheduler_unlock_schedule, os_start_schedule, os_yield, os_tick,
         os_task_join_woken, InTask, OwnLabel, JoinLabel
<1>1. InPlace(tq, task_current) /\ task_current \in Task
  BY DEF SchedCore, InPlace
<1>2. /\ InPlace(s, task_current) /\ s.task_queue = tq.task_queue
      /\ s.prio_current = tq.prio_current /\ SameBut(tq, s)
  <2>1. SameBut(tq, tq)
    BY DEF SameBut
  <2> QED BY <1>1, <2>1, MarkRunning
<1>3. /\ Frame /\ (sched_lock' # 0 => UNCHANGED task_current)
      /\ \A t \in Task : SameLife(s, tq', t)
      /\ tq'.prio_current = s.prio_current
  <2>1. /\ \A t \in Task : SameObject(tq, s, t)
        /\ FieldsKept
    BY <1>2 DEF SameObject, FieldsKept, tcbVars, cpuVars
  <2> QED BY <1>2, <2>1, ScheduleFrame
<1>4. Steady
  BY <1>2, <1>3 DEF Steady, SameLife, SameBut, tcbVars
<1> QED BY <1>3, <1>4 DEF StayEffect

LEMMA StayStep == SchedCore /\ Stay => SchedCore' /\ StayEffect
<1> SUFFICES ASSUME SchedCore, Stay PROVE SchedCore' /\ StayEffect
  OBVIOUS
<1>1. CASE Create
  <2>1. PICK t \in Task \ {Idle} : \E prio \in AppPrio[t] : os_task_create(t, prio)
    BY <1>1 DEF Create
  <2>2. PICK prio \in AppPrio[t] : os_task_create(t, prio)
    BY <2>1
  <2>3. prio \in Prio
    BY AppPrioAssumption
  <2> QED BY <2>2, <2>3, CreateStep
<1>2. CASE Reap
  BY <1>2, ReapStep DEF Reap
<1>3. CASE Unlock
  BY <1>3, UnlockStep, QuietEffect DEF Unlock
<1>4. CASE os_scheduler_unlock_schedule \/ os_start_schedule \/ os_yield \/ os_tick
  BY <1>4, ScheduleOnly, ScheduleEffect
<1>5. CASE arch_contextstore_i \/ arch_contextrestore_i
  BY <1>5, IsrStep, QuietEffect
<1>6. CASE os_start \/ os_scheduler_lock
  BY <1>6, StartStep, LockStep, QuietEffect
<1>7. CASE os_task_join_woken
  BY <1>7, JoinWokenStep, ScheduleEffect
<1>8. CASE os_task_join_end \/ os_schedule_return
  BY <1>8, JoinEndStep, ReturnStep, QuietEffect
<1> QED BY <1>1, <1>2, <1>3, <1>4, <1>5, <1>6, <1>7, <1>8 DEF Stay, Calls

LEMMA LeaveStep == SchedCore /\ Leave => SchedCore' /\ LeaveEffect
BY JoinWaitStep, ExitStep DEF Leave, Join

LEMMA NextStep == SchedCore /\ Next => SchedCore' /\ Frame
BY StayStep, LeaveStep DEF Next, StayEffect, LeaveEffect

\* A step that has not compared the priorities has noted it.
LEMMA PrioStep ==
    ASSUME SchedInv, Frame
    PROVE  HighestPrioRuns'
<1>1. CASE deferred' \/ NotOutranked(tq', task_current')
  BY <1>1 DEF HighestPrioRuns, TopRuns, NotOutranked, OnQueue
<1>2. CASE /\ UNCHANGED <<task_current, deferred>>
           /\ tq'.task_queue = tq.task_queue /\ tq'.prio_current = tq.prio_current
  BY <1>2 DEF SchedInv, HighestPrioRuns, TopRuns, OnQueue
<1> QED BY <1>1, <1>2 DEF Frame

\* SchedInv is an invariant of the scheduler.
THEOREM SchedInvariant == Spec => []SchedInv
<1>1. SchedInv /\ Next => SchedInv'
  BY NextStep, PrioStep DEF SchedInv
<1>2. SchedInv /\ UNCHANGED vars => SchedInv'
  BY StutterStep DEF SchedInv, vars, HighestPrioRuns, TopRuns, OnQueue
<1> QED BY InitHolds, <1>1, <1>2, PTL DEF Spec

\* The fields of the TCBs and the variables of the scheduler have their types;
\* task_current always points to a task and sched_lock never drops below zero.
THEOREM TypeCorrect == Spec => []TypeOK
<1>1. SchedInv => TypeOK
  BY DEF SchedInv, SchedCore
<1> QED BY <1>1, SchedInvariant, PTL

\* The masks, buckets and TCB fields of all task queues agree after every step
\* of the functions of os_sched.c.
THEOREM QueuesStayCoherent == Spec => []QueuesCoherent
<1>1. SchedInv => QueuesCoherent
  BY DEF SchedInv, SchedCore, InPlace, QueuesCoherent
<1> QED BY <1>1, SchedInvariant, PTL

\* No task is ever lost or in two places, whatever order of preemption,
\* blocking, exit and join: a task that can go on is task_current, on no queue
\* and READY or RUNNING, or it is READY on the ready queue; a task that waits is
\* on the queue of an object.  os_sched.h:40-43, by which task_current would
\* always be RUNNING, is not what is proved.
THEOREM PlacesAreExact == Spec => []EachTaskInItsPlace
<1>1. SchedInv => EachTaskInItsPlace
  BY NullAssumption, QueueAssumption
     DEF SchedInv, SchedCore, InPlace, EachTaskInItsPlace, Runnable
<1> QED BY <1>1, SchedInvariant, PTL

\* task_idle is READY whenever another task runs, so that the dequeue in
\* os_task_block_switch and os_task_exit never returns NULL.
THEOREM IdleStaysAvailable == Spec => []IdleIsAvailable
<1>1. SchedInv => IdleIsAvailable
  BY DEF SchedInv, SchedCore, InPlace, IdleIsAvailable
<1> QED BY <1>1, SchedInvariant, PTL

\* Strict priorities: after every call of os_schedule that was not skipped, no
\* READY task outranks the running one.
THEOREM StrictPriorities == Spec => []HighestPrioRuns
<1>1. SchedInv => HighestPrioRuns
  BY DEF SchedInv, SchedCore
<1> QED BY <1>1, SchedInvariant, PTL

\* The lock word says what the tasks have called.
LEMMA LockWord == SchedCore => (Locked <=> sched_lock # 0)
<1> SUFFICES ASSUME SchedCore PROVE Locked <=> sched_lock # 0
  OBVIOUS
<1>1. /\ IsFiniteSet(OpenLocks) /\ Cardinality(OpenLocks) \in Nat /\ LocksAreCounted
      /\ OpenLocks = {} <=> Cardinality(OpenLocks) = 0
  BY FS_EmptySet, FS_CardinalityType DEF SchedCore, LocksMatch
<1> QED BY <1>1 DEF Locked, LocksAreCounted

\* Nobody moves.
Still ==
    /\ UNCHANGED task_current
    /\ \A t \in Task : tq'.task_queue[t] = tq.task_queue[t]
    /\ tq'.prio_current = tq.prio_current

\* os_schedule was called, and skipped for a reason only.
Called ==
    /\ UNCHANGED sched_lock
    /\ sched_lock' # 0 => UNCHANGED task_current
    /\ TopRuns' \/ isr_nesting > 1 \/ sched_lock' # 0

\* task_current has given up the CPU.
GivesUp == tq'.state[task_current] \in {"WAIT", "DESTROYED"} /\ TopRuns'

\* Each kind of step obeys the lock.
LEMMA LockRule ==
    ASSUME SchedCore, Still \/ Called \/ GivesUp
    PROVE  LockStops /\ LockEnds
<1>1. Locked <=> sched_lock # 0
  BY LockWord
<1>2. CASE Still
  BY <1>2 DEF Still, LockStops, LockEnds, TopRuns, OnQueue
<1>3. CASE Called
  BY <1>1, <1>3 DEF Called, LockStops, LockEnds
<1>4. CASE GivesUp
  BY <1>4 DEF GivesUp, LockStops, LockEnds
<1> QED BY <1>2, <1>3, <1>4

\* A call of os_schedule that is skipped says so, and has its reason.
LEMMA ScheduleObeys ==
    ASSUME NEW s, NEW ret, NEW h, os_schedule(s, ret, h), UNCHANGED cpuVars,
           SchedCore, HighestPrioRuns'
    PROVE  Called
<1>1. isr_nesting \in Nat /\ UNCHANGED sched_lock
  BY DEF SchedCore, TypeOK, cpuVars
<1>2. deferred' => ~(isr_nesting <= 1 /\ sched_lock' = 0)
  BY Zenon DEF os_schedule
<1>3. ~(isr_nesting <= 1 /\ sched_lock' = 0) => isr_nesting > 1 \/ sched_lock' # 0
  BY <1>1
<1>4. sched_lock' # 0 => UNCHANGED task_current
  BY DEF os_schedule
<1> QED BY <1>1, <1>2, <1>3, <1>4, Zenon DEF Called, HighestPrioRuns

\* A switch away goes to the top READY task.
LEMMA SwitchObeys ==
    ASSUME NEW s, NEW ret, SwitchAway(s, ret), HighestPrioRuns',
           tq'.state[task_current] \in {"WAIT", "DESTROYED"}
    PROVE  GivesUp
<1>1. deferred' = FALSE
  BY DEF SwitchAway
<1> QED BY <1>1, Zenon DEF GivesUp, HighestPrioRuns

LEMMA StayObeys ==
    ASSUME SchedCore, Stay, HighestPrioRuns'
    PROVE  Still \/ Called
<1>1. CASE Create
  <2>1. PICK t \in Task, prio \in Prio : os_task_create(t, prio)
    BY <1>1, AppPrioAssumption DEF Create
  <2> QED BY <2>1, ScheduleObeys DEF os_task_create
<1>2. CASE \/ os_start_schedule \/ os_scheduler_unlock_schedule \/ os_yield
           \/ os_task_join_woken \/ os_tick
  BY <1>2, ScheduleObeys
     DEF os_start_schedule, os_scheduler_unlock_schedule, os_yield, os_task_join_woken, os_tick
<1>3. CASE Reap \/ os_schedule_return
  <2>1. PICK t \in Task, v \in TaskState : tq' = [tq EXCEPT !.state[t] = v]
    BY <1>3 DEF Reap, os_task_join_reap, os_schedule_return, TaskState, SchedCore, TypeOK
  <2>2. tq'.task_queue = tq.task_queue /\ tq'.prio_current = tq.prio_current
    BY <2>1, SetState DEF SchedCore, InPlace
  <2> QED BY <1>3, <2>2 DEF Reap, os_task_join_reap, os_schedule_return, Still
<1>4. CASE os_task_join_end
  <2> DEFINE m == [tq EXCEPT !.state[task_current] = "RUNNING"]
  <2>1. PICK u \in Task : tq' = [m EXCEPT !.state[u] = "INVALID"]
    BY <1>4, Zenon DEF os_task_join_end
  <2>2. InPlace(m, task_current) /\ m.task_queue = tq.task_queue /\ m.prio_current = tq.prio_current
    BY MarkRunning DEF SchedCore
  <2> HIDE DEF m
  <2>3. tq'.task_queue = m.task_queue /\ tq'.prio_current = m.prio_current
    BY <2>1, <2>2, SetState DEF InPlace, TaskState
  <2> QED BY <1>4, <2>2, <2>3 DEF os_task_join_end, Still
<1>5. CASE \/ os_start \/ os_scheduler_lock \/ Unlock
           \/ arch_contextstore_i \/ arch_contextrestore_i
  BY <1>5 DEF os_start, os_scheduler_lock, Unlock, os_scheduler_unlock, arch_contextstore_i,
              arch_contextrestore_i, Still
<1> QED BY <1>1, <1>2, <1>3, <1>4, <1>5 DEF Stay, Calls

LEMMA LeaveObeys ==
    ASSUME SchedCore, Leave, HighestPrioRuns'
    PROVE  GivesUp
<1>1. tq'.state[task_current] \in {"WAIT", "DESTROYED"}
  BY LeaveStep DEF LeaveEffect, Dies, Waits
<1>2. \E s, ret : SwitchAway(s, ret)
  BY DEF Leave, Join, os_task_join_wait, os_task_block_switch, os_task_exit
<1> QED BY <1>1, <1>2, SwitchObeys

\* The scheduler lock, seen from the calls of all tasks: while one is not undone
\* nobody is preempted, and once all are undone os_schedule gives the CPU to a
\* more urgent task in the step that makes it READY.
THEOREM LockIsObeyed == Spec => LockObeyed
<1>1. SchedInv /\ Next => LockStops /\ LockEnds
  <2> SUFFICES ASSUME SchedInv, Next PROVE LockStops /\ LockEnds
    OBVIOUS
  <2>1. SchedCore /\ HighestPrioRuns'
    BY NextStep, PrioStep DEF SchedInv
  <2> QED BY <2>1, StayObeys, LeaveObeys, LockRule DEF Next
<1>2. SchedInv /\ [Next]_vars => [LockStops /\ LockEnds]_vars
  BY <1>1
<1> QED BY <1>2, SchedInvariant, PTL DEF Spec, LockObeyed

\* The assertions of os_task_join hold: a task goes on behind the join
\* semaphore only after the exit of the task it joins.
THEOREM JoinIsSound == Spec => []JoinedTaskHasExited
<1>1. SchedInv => JoinedTaskHasExited
  BY DEF SchedInv, SchedCore, JoinsMatch, JoinLabel, JoinedTaskHasExited
<1> QED BY <1>1, SchedInvariant, PTL

\* A task that waits in os_task_join waits for a task that has not exited yet
\* and will signal it.
THEOREM JoinsAreKept == Spec => []JoinIsNeverLost
<1>1. SchedInv => JoinIsNeverLost
  BY DEF SchedInv, SchedCore, JoinsMatch, JoinLabel, JoinIsNeverLost
<1> QED BY <1>1, SchedInvariant, PTL

---------------------------------------------------------------------------
(* First come first served.                                                *)

\* Every bucket of r keeps the order of the bucket in s.
BucketsInOrder(s, r) ==
    \A q \in Queue, p \in Prio : KeepsOrder(s.tasks[q][p], r.tasks[q][p])

LEMMA SameOrder ==
    ASSUME NEW s \in TaskQueueType, NEW r, r.tasks = s.tasks
    PROVE  BucketsInOrder(s, r)
<1> SUFFICES ASSUME NEW q \in Queue, NEW p \in Prio
             PROVE  KeepsOrder(s.tasks[q][p], s.tasks[q][p])
  BY DEF BucketsInOrder
<1>1. s.tasks[q][p] \in Seq(Task)
  BY DEF TaskQueueType
<1> QED BY <1>1 DEF KeepsOrder

\* A newcomer goes behind everybody.
LEMMA AppendOrder ==
    ASSUME NEW old \in Seq(Task), NEW new \in Seq(Task), KeepsOrder(old, new),
           NEW t \in Task, t \notin ToSet(old)
    PROVE  KeepsOrder(old, Append(new, t))
<1> DEFINE n == Len(new)
           b == Append(new, t)
<1>1. /\ n \in Nat /\ DOMAIN new = 1 .. n /\ DOMAIN b = 1 .. (n + 1)
      /\ \A i \in 1 .. n : b[i] = new[i]
      /\ b[n + 1] = t
  OBVIOUS
<1> HIDE DEF n, b
<1> SUFFICES KeepsOrder(old, b)
  BY DEF b
<1>2. SUFFICES ASSUME NEW i \in 1 .. (n + 1), NEW j \in 1 .. (n + 1), i < j, b[j] \in ToSet(old)
               PROVE  \E k, l \in DOMAIN old : k < l /\ old[k] = b[i] /\ old[l] = b[j]
  BY <1>1 DEF KeepsOrder
<1>3. j # n + 1
  BY <1>1, <1>2
<1>4. i \in 1 .. n /\ j \in 1 .. n
  BY <1>1, <1>2, <1>3
<1>5. b[i] = new[i] /\ b[j] = new[j]
  BY <1>1, <1>4
<1> QED BY <1>1, <1>2, <1>4, <1>5 DEF KeepsOrder

\* Taking the first one does not change the order of the others.
LEMMA TailOrder ==
    ASSUME NEW old \in Seq(Task), NEW new \in Seq(Task), KeepsOrder(old, new), new # <<>>
    PROVE  KeepsOrder(old, Tail(new))
<1> DEFINE n == Len(new)
           b == Tail(new)
<1>1. /\ n \in Nat /\ n > 0 /\ DOMAIN new = 1 .. n /\ DOMAIN b = 1 .. (n - 1)
      /\ \A i \in 1 .. (n - 1) : b[i] = new[i + 1]
  OBVIOUS
<1> HIDE DEF n, b
<1> SUFFICES KeepsOrder(old, b)
  BY DEF b
<1>2. SUFFICES ASSUME NEW i \in 1 .. (n - 1), NEW j \in 1 .. (n - 1), i < j, b[j] \in ToSet(old)
               PROVE  \E k, l \in DOMAIN old : k < l /\ old[k] = b[i] /\ old[l] = b[j]
  BY <1>1 DEF KeepsOrder
<1>3. i + 1 \in 1 .. n /\ j + 1 \in 1 .. n /\ i + 1 < j + 1
  BY <1>1, <1>2
<1>4. b[i] = new[i + 1] /\ b[j] = new[j + 1]
  BY <1>1
<1> DEFINE x == i + 1
           y == j + 1
<1>5. x \in DOMAIN new /\ y \in DOMAIN new /\ x < y /\ b[i] = new[x] /\ b[j] = new[y]
  BY <1>1, <1>3, <1>4
<1> HIDE DEF x, y
<1> QED BY <1>2, <1>5 DEF KeepsOrder

\* os_taskqueue_enqueue on a queue, or in a bucket of it, that did not have t
\* when the step began.
LEMMA EnqueueOrder ==
    ASSUME NEW o \in TaskQueueType, Coherent(o), NEW s \in TaskQueueType, BucketsInOrder(o, s),
           NEW q \in Queue, NEW t \in Task,
           o.task_queue[t] # q \/ o.prio_current[t] # s.prio_current[t]
    PROVE  BucketsInOrder(o, os_taskqueue_enqueue(s, q, t))
<1> DEFINE r == os_taskqueue_enqueue(s, q, t)
           p == s.prio_current[t]
<1>1. /\ p \in Prio /\ s.tasks \in [Queue -> [Prio -> Seq(Task)]]
      /\ o.tasks \in [Queue -> [Prio -> Seq(Task)]]
  BY DEF TaskQueueType
<1>2. r.tasks = [s.tasks EXCEPT ![q][p] = Append(@, t)]
  BY DEF os_taskqueue_enqueue, TaskQueueType
<1>3. t \notin ToSet(o.tasks[q][p])
  BY <1>1 DEF Coherent, BucketsExact
<1> HIDE DEF r, p
<1>4. /\ r.tasks[q][p] = Append(s.tasks[q][p], t)
      /\ \A qq \in Queue, pp \in Prio : ~(qq = q /\ pp = p) =>
            r.tasks[qq][pp] = s.tasks[qq][pp]
  BY <1>1, <1>2
<1>5. KeepsOrder(o.tasks[q][p], r.tasks[q][p])
  <2> DEFINE old == o.tasks[q][p]
             new == s.tasks[q][p]
  <2>1. old \in Seq(Task) /\ new \in Seq(Task) /\ KeepsOrder(old, new)
    BY <1>1 DEF BucketsInOrder
  <2>2. t \notin ToSet(old) /\ r.tasks[q][p] = Append(new, t)
    BY <1>3, <1>4
  <2> HIDE DEF old, new
  <2>3. KeepsOrder(old, r.tasks[q][p])
    BY <2>1, <2>2, AppendOrder
  <2> QED BY <2>3 DEF old
<1>6. BucketsInOrder(o, r)
  <2> SUFFICES ASSUME NEW qq \in Queue, NEW pp \in Prio
               PROVE  KeepsOrder(o.tasks[qq][pp], r.tasks[qq][pp])
    BY DEF BucketsInOrder
  <2>1. CASE qq = q /\ pp = p
    BY <2>1, <1>5
  <2>2. CASE ~(qq = q /\ pp = p)
    BY <2>2, <1>4 DEF BucketsInOrder
  <2> QED BY <2>1, <2>2
<1> QED BY <1>6 DEF r

\* os_taskqueue_intdequeue takes the first task of a bucket.
LEMMA IntDequeueOrder ==
    ASSUME NEW o \in TaskQueueType, NEW s \in TaskQueueType, Coherent(s), BucketsInOrder(o, s),
           NEW q \in Queue, s.mask[q] # {}
    PROVE  BucketsInOrder(o, os_taskqueue_intdequeue(s, q, arch_bitmask_fls(s.mask[q]) - 1).s)
<1> DEFINE p == arch_bitmask_fls(s.mask[q]) - 1
           r == os_taskqueue_intdequeue(s, q, p).s
<1>1. /\ s.tasks \in [Queue -> [Prio -> Seq(Task)]]
      /\ o.tasks \in [Queue -> [Prio -> Seq(Task)]]
      /\ s.mask[q] \in SUBSET Prio
  BY DEF TaskQueueType
<1>2. p \in s.mask[q]
  BY <1>1, FlsProperties
<1> HIDE DEF p
<1>3. p \in Prio /\ s.tasks[q][p] # <<>>
  BY <1>1, <1>2 DEF Coherent, MaskExact
<1>4. r.tasks = [s.tasks EXCEPT ![q][p] = Tail(s.tasks[q][p])]
  BY DEF os_taskqueue_intdequeue, TaskQueueType
<1> HIDE DEF r
<1>5. /\ r.tasks[q][p] = Tail(s.tasks[q][p])
      /\ \A qq \in Queue, pp \in Prio : ~(qq = q /\ pp = p) =>
            r.tasks[qq][pp] = s.tasks[qq][pp]
  BY <1>1, <1>3, <1>4
<1>6. KeepsOrder(o.tasks[q][p], r.tasks[q][p])
  <2> DEFINE old == o.tasks[q][p]
             new == s.tasks[q][p]
  <2>1. old \in Seq(Task) /\ new \in Seq(Task) /\ KeepsOrder(old, new)
    BY <1>1, <1>3 DEF BucketsInOrder
  <2>2. new # <<>> /\ r.tasks[q][p] = Tail(new)
    BY <1>3, <1>5
  <2> HIDE DEF old, new
  <2>3. KeepsOrder(old, r.tasks[q][p])
    BY <2>1, <2>2, TailOrder
  <2> QED BY <2>3 DEF old
<1>7. BucketsInOrder(o, r)
  <2> SUFFICES ASSUME NEW qq \in Queue, NEW pp \in Prio
               PROVE  KeepsOrder(o.tasks[qq][pp], r.tasks[qq][pp])
    BY DEF BucketsInOrder
  <2>1. CASE qq = q /\ pp = p
    BY <2>1, <1>6
  <2>2. CASE ~(qq = q /\ pp = p)
    BY <2>2, <1>5 DEF BucketsInOrder
  <2> QED BY <2>1, <2>2
<1> QED BY <1>7 DEF r, p

LEMMA DequeueOrder ==
    ASSUME NEW o \in TaskQueueType, NEW s \in TaskQueueType, Coherent(s), BucketsInOrder(o, s),
           NEW q \in Queue, NEW prio
    PROVE  /\ BucketsInOrder(o, os_taskqueue_dequeue(s, q).s)
           /\ BucketsInOrder(o, os_taskqueue_dequeue_prio(s, q, prio).s)
<1> DEFINE fls == arch_bitmask_fls(s.mask[q])
           d == os_taskqueue_intdequeue(s, q, fls - 1)
<1>1. s.mask[q] \in SUBSET Prio
  BY DEF TaskQueueType
<1>2. \/ fls = 0
      \/ BucketsInOrder(o, d.s)
  <2>1. CASE s.mask[q] = {}
    BY <2>1, <1>1, FlsProperties
  <2>2. CASE s.mask[q] # {}
    BY <2>2, IntDequeueOrder
  <2> QED BY <2>1, <2>2
<1>3. /\ os_taskqueue_dequeue(s, q) = IF fls = 0 THEN [task |-> NULL, s |-> s] ELSE d
      /\ os_taskqueue_dequeue_prio(s, q, prio) =
            IF fls = 0 \/ fls - 1 < prio THEN [task |-> NULL, s |-> s] ELSE d
  BY DEF os_taskqueue_dequeue, os_taskqueue_dequeue_prio
<1>4. [task |-> NULL, s |-> s].s = s
  OBVIOUS
<1> HIDE DEF fls, d
<1> QED BY <1>2, <1>3, <1>4

\* list_unlink takes one task out and leaves the order of the others.
LEMMA RemoveOrder ==
    ASSUME NEW old \in Seq(Task), NEW new \in Seq(Task), KeepsOrder(old, new),
           NEW t \in Task, t \in ToSet(new)
    PROVE  KeepsOrder(old, list_unlink(new, t))
<1> DEFINE n == Len(new)
           b == list_unlink(new, t)
<1>1. \E i \in 1 .. n : new[i] = t
  BY DEF ToSet
<1>2. PICK c \in 1 .. n :
         /\ b \in Seq(Task) /\ Len(b) = n - 1
         /\ \A j \in 1 .. (n - 1) : b[j] = IF j < c THEN new[j] ELSE new[j + 1]
  BY <1>1, UnlinkProperties
<1>3. n \in Nat /\ DOMAIN new = 1 .. n /\ DOMAIN b = 1 .. (n - 1)
  BY <1>2
<1> HIDE DEF n, b
<1> SUFFICES KeepsOrder(old, b)
  BY DEF b
<1> DEFINE from(j) == IF j < c THEN j ELSE j + 1
<1>4. SUFFICES ASSUME NEW i \in 1 .. (n - 1), NEW j \in 1 .. (n - 1), i < j, b[j] \in ToSet(old)
               PROVE  \E k, l \in DOMAIN old : k < l /\ old[k] = b[i] /\ old[l] = b[j]
  BY <1>3 DEF KeepsOrder
<1>5. from(i) \in 1 .. n /\ from(j) \in 1 .. n /\ from(i) < from(j)
  BY <1>2, <1>3, <1>4
<1>6. b[i] = new[from(i)] /\ b[j] = new[from(j)]
  BY <1>2
<1> DEFINE x == from(i)
           y == from(j)
<1>7. x \in DOMAIN new /\ y \in DOMAIN new /\ x < y /\ b[i] = new[x] /\ b[j] = new[y]
  BY <1>3, <1>5, <1>6
<1> HIDE DEF x, y
<1> QED BY <1>4, <1>7 DEF KeepsOrder

LEMMA UnlinkOrder ==
    ASSUME NEW o \in TaskQueueType, NEW s \in TaskQueueType, Coherent(s), BucketsInOrder(o, s),
           NEW t \in Task, s.task_queue[t] # NULL
    PROVE  BucketsInOrder(o, os_taskqueue_unlink(s, t))
<1> DEFINE q == s.task_queue[t]
           p == s.prio_current[t]
           r == os_taskqueue_unlink(s, t)
<1>1. /\ q \in Queue /\ p \in Prio
      /\ s.tasks \in [Queue -> [Prio -> Seq(Task)]]
      /\ o.tasks \in [Queue -> [Prio -> Seq(Task)]]
  BY DEF TaskQueueType
<1>2. t \in ToSet(s.tasks[q][p])
  BY <1>1 DEF Coherent, BucketsExact
<1>3. r.tasks = [s.tasks EXCEPT ![q][p] = list_unlink(s.tasks[q][p], t)]
  BY DEF os_taskqueue_unlink, TaskQueueType
<1> HIDE DEF r, p, q
<1>4. /\ r.tasks[q][p] = list_unlink(s.tasks[q][p], t)
      /\ \A qq \in Queue, pp \in Prio : ~(qq = q /\ pp = p) =>
            r.tasks[qq][pp] = s.tasks[qq][pp]
  BY <1>1, <1>3
<1>5. KeepsOrder(o.tasks[q][p], r.tasks[q][p])
  <2> DEFINE old == o.tasks[q][p]
             new == s.tasks[q][p]
  <2>1. old \in Seq(Task) /\ new \in Seq(Task) /\ KeepsOrder(old, new)
    BY <1>1 DEF BucketsInOrder
  <2>2. t \in ToSet(new) /\ r.tasks[q][p] = list_unlink(new, t)
    BY <1>2, <1>4
  <2> HIDE DEF old, new
  <2>3. KeepsOrder(old, r.tasks[q][p])
    BY <2>1, <2>2, RemoveOrder
  <2> QED BY <2>3 DEF old
<1>6. BucketsInOrder(o, r)
  <2> SUFFICES ASSUME NEW qq \in Queue, NEW pp \in Prio
               PROVE  KeepsOrder(o.tasks[qq][pp], r.tasks[qq][pp])
    BY DEF BucketsInOrder
  <2>1. CASE qq = q /\ pp = p
    BY <2>1, <1>5
  <2>2. CASE ~(qq = q /\ pp = p)
    BY <2>2, <1>4 DEF BucketsInOrder
  <2> QED BY <2>1, <2>2
<1> QED BY <1>6 DEF r

\* os_taskqueue_reprio of a task that had another priority when the step
\* began: it leaves its bucket and goes behind the tasks of the new one.
LEMMA ReprioOrder ==
    ASSUME NEW o \in TaskQueueType, Coherent(o), NEW s \in TaskQueueType, Coherent(s),
           BucketsInOrder(o, s), NEW t \in Task, NEW prio \in Prio,
           s.prio_current[t] = prio \/ o.prio_current[t] # prio
    PROVE  BucketsInOrder(o, os_taskqueue_reprio(s, t, prio))
<1> DEFINE r == os_taskqueue_reprio(s, t, prio)
           q == s.task_queue[t]
           u == os_taskqueue_unlink(s, t)
           v == [u EXCEPT !.prio_current[t] = prio]
<1>1. r = IF s.prio_current[t] = prio THEN s
          ELSE IF q = NULL THEN [s EXCEPT !.prio_current[t] = prio]
          ELSE os_taskqueue_enqueue(v, q, t)
  BY DEF os_taskqueue_reprio
<1>2. CASE s.prio_current[t] = prio
  BY <1>1, <1>2
<1>3. CASE s.prio_current[t] # prio /\ q = NULL
  <2>1. r.tasks = s.tasks
    BY <1>1, <1>3 DEF TaskQueueType
  <2> QED BY <2>1 DEF BucketsInOrder
<1>4. CASE s.prio_current[t] # prio /\ q # NULL
  <2>1. u \in TaskQueueType /\ BucketsInOrder(o, u)
    BY <1>4, UnlinkFromQueue, UnlinkOrder DEF Removed
  <2>2. q \in Queue
    BY <1>4 DEF TaskQueueType
  <2> HIDE DEF u, q
  <2>3. v \in TaskQueueType /\ v.tasks = u.tasks /\ v.prio_current[t] = prio
    BY <2>1 DEF TaskQueueType
  <2> HIDE DEF v
  <2>4. BucketsInOrder(o, v)
    BY <2>1, <2>3 DEF BucketsInOrder
  <2>5. BucketsInOrder(o, os_taskqueue_enqueue(v, q, t))
    BY <1>4, <2>2, <2>3, <2>4, EnqueueOrder
  <2> QED BY <1>1, <1>4, <2>5
<1> QED BY <1>2, <1>3, <1>4

\* WakeAll puts the waiters of q behind the READY tasks, one by one.
LEMMA WakeAllOrder ==
    ASSUME NEW o \in TaskQueueType, Coherent(o), NEW s \in TaskQueueType, Coherent(s),
           BucketsInOrder(o, s), s.task_queue = o.task_queue, NEW q \in Queue \ {ready_queue}
    PROVE  BucketsInOrder(o, WakeAll(s, q))
<1> DEFINE N == Cardinality(Task)
<1>1. PICK w : /\ w[0] = s
               /\ w[N] = WakeAll(s, q)
               /\ \A n \in 1 .. N : w[n] = WakeNext(w[n - 1], q)
  BY WakeAllTurns
<1>2. N \in Nat
  BY TaskAssumption, FS_CardinalityType
<1> HIDE DEF N
<1> DEFINE P == {n \in 0 .. N : Woken(s, w[n], q) /\ BucketsInOrder(o, w[n])}
<1>3. 0 \in P
  BY <1>1, <1>2 DEF Woken
<1>4. ASSUME NEW n \in 1 .. N, n - 1 \in P PROVE n \in P
  <2> DEFINE r == w[n - 1]
             d == os_taskqueue_dequeue(r, q)
             v == [d.s EXCEPT !.state[d.task] = "READY"]
  <2>1. /\ Woken(s, r, q) /\ BucketsInOrder(o, r) /\ w[n] = WakeNext(r, q)
        /\ n \in 0 .. N
    BY <1>1, <1>2, <1>4
  <2> HIDE DEF r
  <2>2. Woken(s, w[n], q)
    <3>1. Woken(s, WakeNext(r, q), q)
      BY <2>1, WakeTurn DEF WakeNext
    <3> QED BY <2>1, <3>1
  <2>3. /\ r \in TaskQueueType /\ Coherent(r) /\ q \in Queue
        /\ ready_queue \in Queue /\ "READY" \in TaskState
    BY <2>1, QueueAssumption DEF Woken, TaskState
  <2>4. BucketsInOrder(o, d.s)
    BY <2>1, <2>3, DequeueOrder
  <2>5. \/ d.task = NULL
        \/ TopTaken(r, q, d)
    BY <2>3, DequeueProperties
  <2>6. w[n] = IF d.task = NULL THEN d.s ELSE os_taskqueue_enqueue(v, ready_queue, d.task)
    BY <2>1 DEF WakeNext, os_task_makeready
  <2> HIDE DEF d
  <2>7. CASE d.task = NULL
    BY <2>1, <2>2, <2>4, <2>6, <2>7
  <2>8. CASE d.task # NULL
    <3>1. /\ d.task \in Task /\ r.task_queue[d.task] = q /\ d.s \in TaskQueueType
      BY <2>5, <2>8 DEF TopTaken, Removed
    <3>2. o.task_queue[d.task] # ready_queue
      BY <2>1, <3>1 DEF Woken
    <3>3. v \in TaskQueueType /\ v.tasks = d.s.tasks
      BY <2>3, <3>1 DEF TaskQueueType
    <3> HIDE DEF v
    <3>4. BucketsInOrder(o, v)
      BY <2>4, <3>3 DEF BucketsInOrder
    <3>5. BucketsInOrder(o, os_taskqueue_enqueue(v, ready_queue, d.task))
      BY <2>3, <3>1, <3>2, <3>3, <3>4, EnqueueOrder
    <3> QED BY <2>1, <2>2, <2>6, <2>8, <3>5
  <2> QED BY <2>7, <2>8
<1>5. N \in P
  <2> HIDE DEF P
  <2>1. 0 .. N \subseteq P
    BY <1>2, <1>3, <1>4, CountUp
  <2> QED BY <1>2, <2>1
<1> QED BY <1>1, <1>5

\* os_schedule puts task_current behind its peers and takes the first of the
\* tasks with the highest priority.
LEMMA ScheduleOrder ==
    ASSUME SchedCore, NEW s, InPlace(s, task_current), BucketsInOrder(tq, s),
           NEW ret, NEW h \in {0, 1}, os_schedule(s, ret, h)
    PROVE  BucketsInOrder(tq, tq')
<1> DEFINE c == task_current
           next == NextTask(s, h)
           m == [next.s EXCEPT !.state[c] = "READY"]
           out == os_taskqueue_enqueue(m, ready_queue, c)
<1>1. /\ tq \in TaskQueueType /\ Coherent(tq) /\ c \in Task /\ tq.task_queue[c] = NULL
      /\ s \in TaskQueueType /\ Coherent(s)
      /\ ready_queue \in Queue /\ ready_queue # NULL /\ "READY" \in TaskState
  BY QueueAssumption, NullAssumption DEF SchedCore, InPlace, TaskState
<1>2. \/ tq' = s
      \/ tq' = out
      \/ tq' = [out EXCEPT !.state[next.task] = "RUNNING"]
  BY DEF os_schedule, os_task_makeready
<1>3. BucketsInOrder(tq, next.s)
  BY <1>1, DequeueOrder DEF NextTask
<1>4. next.s \in TaskQueueType
  <2> DEFINE prio == s.prio_current[c] + h
  <2>1. prio \in Nat
    BY <1>1, PrioAssumption DEF TaskQueueType, Prio
  <2>2. \/ next.task = NULL /\ next.s = s
        \/ TopTaken(s, ready_queue, next)
    BY <1>1, <2>1, DequeuePrioProperties DEF NextTask
  <2> HIDE DEF next
  <2> QED BY <1>1, <2>2 DEF TopTaken, Removed
<1> HIDE DEF next
<1>5. m \in TaskQueueType /\ m.tasks = next.s.tasks
  BY <1>1, <1>4 DEF TaskQueueType
<1> HIDE DEF m
<1>6. BucketsInOrder(tq, m)
  BY <1>3, <1>5 DEF BucketsInOrder
<1>7. BucketsInOrder(tq, out)
  BY <1>1, <1>5, <1>6, EnqueueOrder
<1>8. [out EXCEPT !.state[next.task] = "RUNNING"].tasks = out.tasks
  BY <1>5 DEF os_taskqueue_enqueue, TaskQueueType
<1> HIDE DEF out
<1>9. CASE tq' = s
  BY <1>9
<1>10. CASE tq' = out
  BY <1>7, <1>10
<1>11. CASE tq' = [out EXCEPT !.state[next.task] = "RUNNING"]
  <2>1. tq'.tasks = out.tasks
    BY <1>8, <1>11
  <2> QED BY <1>7, <2>1 DEF BucketsInOrder
<1> QED BY <1>2, <1>9, <1>10, <1>11

LEMMA SwitchOrder ==
    ASSUME SchedCore, NEW s \in TaskQueueType, Coherent(s), BucketsInOrder(tq, s),
           NEW ret, SwitchAway(s, ret)
    PROVE  BucketsInOrder(tq, tq')
<1>1. tq \in TaskQueueType /\ ready_queue \in Queue
  BY QueueAssumption DEF SchedCore, TypeOK
<1>2. tq' = os_taskqueue_dequeue(s, ready_queue).s
  BY DEF SwitchAway
<1>3. BucketsInOrder(tq, os_taskqueue_dequeue(s, ready_queue).s)
  BY <1>1, DequeueOrder
<1> QED BY <1>2, <1>3

\* A task in a new TCB goes behind the READY tasks of its priority.
LEMMA CreateOrder ==
    ASSUME SchedCore, NEW t \in Task \ {Idle}, NEW prio \in Prio, os_task_create(t, prio)
    PROVE  BucketsInOrder(tq, tq')
<1> DEFINE c == task_current
           m == [tq EXCEPT !.prio_current[t] = prio]
           v == [m EXCEPT !.state[t] = "READY"]
           s == os_taskqueue_enqueue(v, ready_queue, t)
<1>1. tq.state[t] = "INVALID" /\ os_schedule(s, pc[c], 1)
  BY DEF os_task_create
<1>2. InPlace(s, c) /\ tq.task_queue[t] = NULL
  BY <1>1, CreatePlace
<1>3. /\ tq \in TaskQueueType /\ Coherent(tq)
      /\ ready_queue \in Queue /\ ready_queue # NULL
      /\ v \in TaskQueueType /\ v.tasks = tq.tasks
  BY QueueAssumption, NullAssumption DEF SchedCore, InPlace, TaskQueueType, TaskState
<1> HIDE DEF v
<1>4. BucketsInOrder(tq, v)
  BY <1>3, SameOrder
<1>5. BucketsInOrder(tq, s)
  BY <1>2, <1>3, <1>4, EnqueueOrder
<1> HIDE DEF s
<1> QED BY <1>1, <1>2, <1>5, ScheduleOrder

\* The task that blocks in os_task_join goes on the queue of its semaphore.
LEMMA JoinWaitOrder ==
    ASSUME SchedCore, NEW u \in Task, os_task_join_wait(u)
    PROVE  BucketsInOrder(tq, tq')
<1> DEFINE c == task_current
           m == [tq EXCEPT !.state[c] = "WAIT"]
           s == os_taskqueue_enqueue(m, c, c)
<1>1. c \in Joining /\ SwitchAway(s, "join_wait")
  BY DEF os_task_join_wait, MayJoin, os_task_block_switch, os_task_makewait
<1>2. /\ InPlace(tq, c) /\ tq \in TaskQueueType /\ Coherent(tq) /\ c \in Task
      /\ c \in Queue /\ c # NULL /\ tq.task_queue[c] = NULL /\ "WAIT" \in TaskState
  BY <1>1, QueueAssumption, NullAssumption DEF SchedCore, InPlace, TaskState
<1>3. m \in TaskQueueType /\ m.tasks = tq.tasks
  BY <1>2 DEF TaskQueueType
<1>4. Linked(tq, s, c, c, "WAIT")
  BY <1>2, LinkTask
<1> HIDE DEF m
<1>5. BucketsInOrder(tq, m)
  BY <1>2, <1>3, SameOrder
<1>6. BucketsInOrder(tq, s)
  BY <1>2, <1>3, <1>5, EnqueueOrder
<1> HIDE DEF s
<1>7. s \in TaskQueueType /\ Coherent(s)
  BY <1>4 DEF Linked
<1> QED BY <1>1, <1>6, <1>7, SwitchOrder

\* os_task_exit puts the joining task behind the READY tasks of its priority.
LEMMA ExitOrder ==
    ASSUME SchedCore, os_task_exit
    PROVE  BucketsInOrder(tq, tq')
<1> DEFINE c == task_current
           sem == join_sem[c]
           m == [tq EXCEPT !.state[c] = "DESTROYED"]
           r == WakeJoining(m, sem)
           d == os_taskqueue_dequeue(m, sem)
           v == [d.s EXCEPT !.state[d.task] = "READY"]
           w == os_taskqueue_enqueue(v, ready_queue, d.task)
<1>1. pc[c] = "run" /\ SwitchAway(r, "run")
  BY DEF os_task_exit, InTask
<1>2. /\ tq \in TaskQueueType /\ Coherent(tq) /\ c \in Task /\ sem \in Task \cup {NULL}
      /\ "DESTROYED" \in TaskState /\ "READY" \in TaskState /\ NULL \notin Task
      /\ Task \subseteq Queue /\ ready_queue \in Queue /\ ready_queue \notin Task
  BY NullAssumption, QueueAssumption DEF SchedCore, TypeOK, InPlace, TaskState
<1>3. r \in TaskQueueType /\ Coherent(r)
  BY <1>1, ExitQueues DEF Exited
<1>4. m \in TaskQueueType /\ Coherent(m) /\ m.task_queue = tq.task_queue
  BY <1>2, SetState
<1>5. m.tasks = tq.tasks
  BY <1>2 DEF TaskQueueType
<1>6. r = IF sem = NULL \/ d.task = NULL THEN m ELSE w
  BY DEF WakeJoining, os_task_makeready
<1> HIDE DEF m, r, sem
<1>7. BucketsInOrder(tq, m)
  BY <1>2, <1>5, SameOrder
<1>8. ASSUME sem # NULL, d.task # NULL PROVE BucketsInOrder(tq, w)
  <2>1. sem \in Queue /\ sem # ready_queue
    BY <1>2, <1>8
  <2>2. TopTaken(m, sem, d)
    BY <1>4, <1>8, <2>1, DequeueProperties
  <2>3. BucketsInOrder(tq, d.s)
    BY <1>2, <1>4, <1>7, <2>1, DequeueOrder
  <2> HIDE DEF d
  <2>4. d.task \in Task /\ tq.task_queue[d.task] = sem /\ d.s \in TaskQueueType
    BY <2>2, <1>4 DEF TopTaken, Removed
  <2>5. v \in TaskQueueType /\ v.tasks = d.s.tasks
    BY <1>2, <2>4 DEF TaskQueueType
  <2> HIDE DEF v
  <2>6. BucketsInOrder(tq, v)
    BY <2>3, <2>5 DEF BucketsInOrder
  <2> QED BY <1>2, <2>1, <2>4, <2>5, <2>6, EnqueueOrder
<1> HIDE DEF d, w
<1>9. BucketsInOrder(tq, r)
  BY <1>6, <1>7, <1>8
<1> QED BY <1>1, <1>3, <1>9, SwitchOrder

\* Every step of the scheduler.
LEMMA NextOrder ==
    SchedCore /\ [Next]_vars => FifoStep
<1> SUFFICES ASSUME SchedCore, [Next]_vars PROVE BucketsInOrder(tq, tq')
  BY DEF FifoStep, BucketsInOrder
<1> DEFINE c == task_current
<1>1. tq \in TaskQueueType /\ InPlace(tq, c)
  BY DEF SchedCore, TypeOK
<1>2. BucketsInOrder(tq, tq)
  BY <1>1, SameOrder
<1>3. ASSUME NEW ret, NEW h \in {0, 1}, os_schedule(tq, ret, h) PROVE BucketsInOrder(tq, tq')
  BY <1>1, <1>2, <1>3, ScheduleOrder
<1>4. ASSUME NEW r, r.tasks = tq.tasks, tq' = r PROVE BucketsInOrder(tq, tq')
  BY <1>1, <1>4, SameOrder
<1>5. CASE Create
  <2>1. PICK t \in Task \ {Idle} : \E prio \in AppPrio[t] : os_task_create(t, prio)
    BY <1>5 DEF Create
  <2>2. PICK prio \in AppPrio[t] : os_task_create(t, prio)
    BY <2>1
  <2>3. prio \in Prio
    BY AppPrioAssumption
  <2> QED BY <2>2, <2>3, CreateOrder
<1>6. CASE os_start \/ os_scheduler_lock \/ Unlock \/ arch_contextstore_i
           \/ arch_contextrestore_i \/ UNCHANGED vars
  <2>1. tq' = tq
    BY <1>6 DEF os_start, os_scheduler_lock, Unlock, os_scheduler_unlock,
                arch_contextstore_i, arch_contextrestore_i, vars
  <2> QED BY <2>1, <1>2
<1>7. CASE os_start_schedule \/ os_scheduler_unlock_schedule \/ os_yield \/ os_tick
  BY <1>3, <1>7 DEF os_start_schedule, os_scheduler_unlock_schedule, os_yield, os_tick
<1>8. CASE Reap \/ os_schedule_return
  <2>1. PICK u \in Task, x \in TaskState : tq' = [tq EXCEPT !.state[u] = x]
    BY <1>1, <1>8 DEF Reap, os_task_join_reap, os_schedule_return, InPlace, TaskState
  <2>2. [tq EXCEPT !.state[u] = x].tasks = tq.tasks
    BY <1>1 DEF TaskQueueType
  <2> QED BY <1>4, <2>1, <2>2
<1>9. CASE os_task_join_end
  <2>1. PICK u \in Task : tq' = [tq EXCEPT !.state[c] = "RUNNING", !.state[u] = "INVALID"]
    BY <1>9 DEF os_task_join_end
  <2>2. [tq EXCEPT !.state[c] = "RUNNING", !.state[u] = "INVALID"].tasks = tq.tasks
    BY <1>1 DEF TaskQueueType
  <2> QED BY <1>4, <2>1, <2>2
<1>10. CASE os_task_join_woken
  <2> DEFINE s == [tq EXCEPT !.state[c] = "RUNNING"]
  <2>1. os_schedule(s, "join_end", 1) /\ pc[c] = "join_wait"
    BY <1>10 DEF os_task_join_woken
  <2>2. s.tasks = tq.tasks
    BY <1>1 DEF TaskQueueType
  <2>3. InPlace(s, c)
    BY MarkRunning
  <2> HIDE DEF s
  <2>4. BucketsInOrder(tq, s)
    BY <1>1, <2>2, SameOrder
  <2> QED BY <2>1, <2>3, <2>4, ScheduleOrder
<1>11. CASE Leave
  BY <1>11, JoinWaitOrder, ExitOrder DEF Leave, Join
<1> QED BY <1>5, <1>6, <1>7, <1>8, <1>9, <1>10, <1>11 DEF Next, Stay, Calls

\* FifoOrder: a step of the scheduler leaves the tasks of one priority in the
\* order in which they came, on the ready queue and on every object, and puts
\* a newcomer behind them.
THEOREM FirstComeFirstServed == Spec => FifoOrder
<1>1. SchedInv /\ [Next]_vars => [FifoStep]_vars
  BY NextOrder DEF SchedInv
<1> QED BY <1>1, SchedInvariant, PTL DEF Spec, FifoOrder

---------------------------------------------------------------------------
(***************************************************************************)
(* The scheduler implements AbstractSched.                                 *)
(*                                                                         *)
(* The lemmas above say what a step of the scheduler does to the tasks     *)
(* (StayEffect and LeaveEffect).  Here each of these effects is matched    *)
(* with an action of AbstractSched under the refinement mapping, for which *)
(* the joins have to be unambiguous: awaits is read off join_sem, a field  *)
(* of the task that is joined.                                             *)
(***************************************************************************)

\* What the mapping says of a task in terms of its TCB.
LEMMA LifeValue ==
    ASSUME NEW t \in Task
    PROVE  /\ tq.state[t] = "INVALID" => Life(t) = "none"
           /\ tq.state[t] \in Runnable => Life(t) = "ready"
           /\ tq.state[t] = "WAIT" => Life(t) = "join"
           /\ tq.state[t] = "DESTROYED" => Life(t) = "done"
BY DEF Life, Runnable

LEMMA LifeValueNext ==
    ASSUME NEW t \in Task
    PROVE  /\ tq'.state[t] = "INVALID" => Life(t)' = "none"
           /\ tq'.state[t] \in Runnable => Life(t)' = "ready"
           /\ tq'.state[t] = "WAIT" => Life(t)' = "join"
           /\ tq'.state[t] = "DESTROYED" => Life(t)' = "done"
BY DEF Life, Runnable

\* A task with the same place in life counts as the same.
LEMMA LifeKept ==
    ASSUME SchedCore, SchedCore', NEW t \in Task, SameLife(tq, tq', t)
    PROVE  Life(t)' = Life(t)
<1>1. tq.state[t] \in TaskState /\ tq'.state[t] \in TaskState
  BY DEF SchedCore, InPlace, TaskQueueType
<1>2. CASE tq'.state[t] = tq.state[t]
  BY <1>1, <1>2, LifeValue, LifeValueNext DEF TaskState, Runnable
<1>3. CASE tq'.state[t] \in Runnable /\ tq.state[t] \in Runnable
  BY <1>3, LifeValue, LifeValueNext
<1> QED BY <1>2, <1>3 DEF SameLife

\* A task joins one task at most, so awaits is join_sem read backwards.
LEMMA JoinsValue ==
    ASSUME SchedCore, NEW t \in Task
    PROVE  /\ \A u \in Task : Joins(t) = u <=> join_sem[u] = t
           /\ Joins(t) = NULL <=> \A u \in Task : join_sem[u] # t
           /\ Joins(t) \in Task \cup {NULL}
<1>1. /\ \A u \in Task, v \in Task : join_sem[u] = t /\ join_sem[v] = t => u = v
      /\ NULL \notin Task
  BY NullAssumption DEF SchedCore, JoinsMatch
<1>2. CASE \E u \in Task : join_sem[u] = t
  <2>1. Joins(t) = CHOOSE u \in Task : join_sem[u] = t
    BY <1>2 DEF Joins
  <2>2. Joins(t) \in Task /\ join_sem[Joins(t)] = t
    BY <1>2, <2>1
  <2> QED BY <1>1, <1>2, <2>2
<1>3. CASE ~\E u \in Task : join_sem[u] = t
  BY <1>1, <1>3 DEF Joins
<1> QED BY <1>2, <1>3

LEMMA JoinsValueNext ==
    ASSUME SchedCore', NEW t \in Task
    PROVE  /\ \A u \in Task : Joins(t)' = u <=> join_sem'[u] = t
           /\ Joins(t)' = NULL <=> \A u \in Task : join_sem'[u] # t
           /\ Joins(t)' \in Task \cup {NULL}
<1>1. /\ \A u \in Task, v \in Task : join_sem'[u] = t /\ join_sem'[v] = t => u = v
      /\ NULL \notin Task
  BY NullAssumption DEF SchedCore, JoinsMatch
<1>2. CASE \E u \in Task : join_sem'[u] = t
  <2>1. Joins(t)' = CHOOSE u \in Task : join_sem'[u] = t
    BY <1>2 DEF Joins
  <2>2. Joins(t)' \in Task /\ join_sem'[Joins(t)'] = t
    BY <1>2, <2>1
  <2> QED BY <1>1, <1>2, <2>2
<1>3. CASE ~\E u \in Task : join_sem'[u] = t
  BY <1>1, <1>3 DEF Joins
<1> QED BY <1>2, <1>3

\* Every step leaves the CPU with a task that can run, and gives it to no
\* task that another one outranks.
LEMMA DispatchHolds == ASSUME SchedCore', Frame PROVE Tasks!Dispatch
<1>1. /\ task_current' \in Task /\ tq'.state[task_current'] \in Runnable
      /\ InPlace(tq', task_current')
  BY DEF SchedCore, InPlace
<1>2. [t \in Task |-> Life(t)]'[task_current'] = "ready"
  BY <1>1, LifeValueNext
<1>3. ASSUME task_current' # task_current, NEW t \in Task, [u \in Task |-> Life(u)]'[t] = "ready"
      PROVE  tq'.prio_current[t] <= tq'.prio_current[task_current']
  <2>1. NotOutranked(tq', task_current')
    BY <1>3 DEF Frame
  <2>2. tq'.prio_current \in [Task -> Prio] /\ tq'.state \in [Task -> TaskState]
    BY <1>1 DEF InPlace, TaskQueueType
  <2>3. CASE t = task_current'
    BY <1>1, <2>2, <2>3 DEF Prio
  <2>4. CASE t # task_current'
    <3>1. Life(t)' = "ready"
      BY <1>3
    <3>2. tq'.state[t] \notin {"WAIT", "DESTROYED", "INVALID"}
      BY <3>1, LifeValueNext
    <3>3. tq'.task_queue[t] = ready_queue
      BY <1>1, <2>4, <3>2 DEF InPlace
    <3> QED BY <2>1, <3>3 DEF NotOutranked
  <2> QED BY <2>3, <2>4
<1> QED BY <1>2, <1>3 DEF Tasks!Dispatch

---------------------------------------------------------------------------
(* Each effect is an action of AbstractSched.                              *)

LEMMA InitMaps == Init => Tasks!AInit
<1> SUFFICES ASSUME Init PROVE Tasks!AInit
  OBVIOUS
<1>1. \A t \in Task : Life(t) = IF t = Idle THEN "ready" ELSE "none"
  <2>1. \A t \in Task : tq.state[t] = IF t = Idle THEN "RUNNING" ELSE "INVALID"
    BY DEF Init
  <2> QED BY <2>1, LifeValue DEF Runnable
<1>2. \A t \in Task : Joins(t) = NULL
  BY NullAssumption DEF Init, Joins
<1>3. tq.prio_current = [t \in Task |-> 0] /\ task_current = Idle
  BY DEF Init
<1> QED BY <1>1, <1>2, <1>3 DEF Tasks!AInit

\* Joins that do not change.
LEMMA JoinsKept ==
    ASSUME SchedCore, join_sem' = join_sem
    PROVE  [t \in Task |-> Joins(t)]' = [t \in Task |-> Joins(t)]
BY DEF Joins

LEMMA SteadyMaps ==
    ASSUME SchedCore, SchedCore', Frame, Steady
    PROVE  Tasks!Preempt
<1>1. [t \in Task |-> Life(t)]' = [t \in Task |-> Life(t)]
  BY LifeKept DEF Steady
<1>2. [t \in Task |-> Joins(t)]' = [t \in Task |-> Joins(t)]
  BY JoinsKept DEF Steady
<1> QED BY <1>1, <1>2, DispatchHolds DEF Tasks!Preempt, Steady

LEMMA BornMaps ==
    ASSUME SchedCore, SchedCore', Frame, NEW t \in Task, Born(t)
    PROVE  Tasks!Create(t)
<1> DEFINE life == [u \in Task |-> Life(u)]
<1>1. Life(t) = "none" /\ Life(t)' = "ready" /\ \A u \in Task \ {t} : Life(u)' = Life(u)
  BY LifeValue, LifeValueNext, LifeKept DEF Born
<1>2. life' = [life EXCEPT ![t] = "ready"]
  BY <1>1
<1>3. [u \in Task |-> Joins(u)]' = [u \in Task |-> Joins(u)]
  BY JoinsKept DEF Born
<1> QED BY <1>1, <1>2, <1>3, DispatchHolds DEF Tasks!Create, Born

LEMMA FreedMaps ==
    ASSUME SchedCore, SchedCore', Frame, NEW u \in Task, Freed(u)
    PROVE  Tasks!Reap(u)
<1> DEFINE life == [t \in Task |-> Life(t)]
           awaits == [t \in Task |-> Joins(t)]
<1>0. PICK c \in Task : c = task_current
  BY DEF SchedCore, TypeOK
<1>1. join_sem \in [Task -> Task \cup {NULL}] /\ NULL \notin Task
  BY NullAssumption DEF SchedCore, TypeOK
<1>2. Life(u) = "done" /\ Life(u)' = "none" /\ \A t \in Task \ {u} : Life(t)' = Life(t)
  BY <1>0, LifeValue, LifeValueNext, LifeKept DEF Freed
<1>3. life' = [life EXCEPT ![u] = "none"]
  BY <1>2
<1>4. join_sem[u] \in {NULL, c} /\ join_sem' = [join_sem EXCEPT ![u] = NULL]
  BY <1>0 DEF Freed
<1>5. Joins(c) = u \/ \A t \in Task : Joins(t) # u
  BY <1>0, <1>1, <1>4, JoinsValue
<1>6. \A v \in Task \ {u} : join_sem[v] # c
  <2>1. CASE join_sem[u] = c
    BY <1>0, <1>1, <2>1 DEF SchedCore, JoinsMatch
  <2>2. CASE join_sem[u] = NULL
    <3>1. pc[c] = "run"
      BY <1>0, <2>2 DEF Freed
    <3> QED BY <1>1, <3>1 DEF SchedCore, JoinsMatch, JoinLabel
  <2> QED BY <1>4, <2>1, <2>2
<1>7. Joins(c)' = NULL
  BY <1>0, <1>1, <1>4, <1>6, JoinsValueNext
<1>8. ASSUME NEW t \in Task \ {c} PROVE Joins(t)' = Joins(t)
  <2>1. \A v \in Task : join_sem'[v] = t <=> join_sem[v] = t
    BY <1>0, <1>1, <1>4
  <2>2. CASE Joins(t) = NULL
    BY <2>1, <2>2, JoinsValue, JoinsValueNext
  <2>3. CASE Joins(t) \in Task
    BY <2>1, <2>3, JoinsValue, JoinsValueNext
  <2> QED BY <2>2, <2>3, JoinsValue
<1>9. awaits' = [awaits EXCEPT ![c] = NULL]
  BY <1>0, <1>1, <1>7, <1>8
<1> QED BY <1>0, <1>1, <1>2, <1>3, <1>5, <1>9 DEF Tasks!Reap, Freed

LEMMA WaitsMaps ==
    ASSUME SchedCore, SchedCore', Frame, pc[task_current] = "run", NEW u \in Task, Waits(u)
    PROVE  Tasks!Join(u)
<1> DEFINE life == [t \in Task |-> Life(t)]
           awaits == [t \in Task |-> Joins(t)]
<1>0. PICK c \in Task : c = task_current
  BY DEF SchedCore, TypeOK
<1>1. join_sem \in [Task -> Task \cup {NULL}] /\ NULL \notin Task
  BY NullAssumption DEF SchedCore, TypeOK
<1>2. Life(c)' = "join" /\ \A t \in Task \ {c} : Life(t)' = Life(t)
  BY <1>0, <1>1, LifeValueNext, LifeKept DEF Waits
<1>3. life' = [life EXCEPT ![c] = "join"]
  BY <1>0, <1>1, <1>2
<1>4. Life(u) \in {"ready", "join"}
  BY <1>0, LifeValue DEF Waits, Runnable
<1>5. join_sem[u] = NULL /\ join_sem' = [join_sem EXCEPT ![u] = c] /\ u # c /\ c # Idle
  BY <1>0 DEF Waits
<1>6. \A t \in Task : Joins(t) # u
  BY <1>0, <1>1, <1>5, JoinsValue
<1>7. Joins(c)' = u
  BY <1>0, <1>1, <1>5, JoinsValueNext
<1>8. ASSUME NEW t \in Task \ {c} PROVE Joins(t)' = Joins(t)
  <2>1. \A v \in Task : join_sem'[v] = t <=> join_sem[v] = t
    BY <1>0, <1>1, <1>5
  <2>2. CASE Joins(t) = NULL
    BY <2>1, <2>2, JoinsValue, JoinsValueNext
  <2>3. CASE Joins(t) \in Task
    BY <2>1, <2>3, JoinsValue, JoinsValueNext
  <2> QED BY <2>2, <2>3, JoinsValue
<1>9. awaits' = [awaits EXCEPT ![c] = u]
  BY <1>0, <1>1, <1>7, <1>8
<1>10. tq'.prio_current = tq.prio_current
  BY <1>0 DEF Waits
<1> QED BY <1>0, <1>3, <1>4, <1>5, <1>6, <1>9, <1>10, DispatchHolds DEF Tasks!Join

LEMMA DiesMaps ==
    ASSUME SchedCore, SchedCore', Frame, Dies
    PROVE  Tasks!Exit
<1> DEFINE life == [t \in Task |-> Life(t)]
           awaits == [t \in Task |-> Joins(t)]
<1>0. PICK c \in Task : c = task_current
  BY DEF SchedCore, TypeOK
<1>1. c # Idle /\ join_sem' = join_sem /\ tq'.prio_current = tq.prio_current
  BY <1>0 DEF Dies
<1>2. Life(c)' = "done"
  BY <1>0, <1>1, LifeValueNext DEF Dies
<1>3. ASSUME NEW t \in Task \ {c}
      PROVE  Life(t)' = IF awaits[t] = c THEN "ready" ELSE Life(t)
  <2>1. awaits[t] = c <=> join_sem[c] = t
    BY <1>0, <1>1, JoinsValue
  <2>2. CASE join_sem[c] = t
    BY <1>0, <2>1, <2>2, LifeValueNext DEF Dies
  <2>3. CASE join_sem[c] # t
    BY <1>0, <2>1, <2>3, LifeKept DEF Dies
  <2> QED BY <2>2, <2>3
<1>4. life' = [t \in Task |-> IF t = c THEN "done"
                              ELSE IF awaits[t] = c THEN "ready"
                              ELSE life[t]]
  BY <1>0, <1>2, <1>3
<1>5. awaits' = awaits
  BY <1>0, <1>1, JoinsKept
<1> QED BY <1>0, <1>1, <1>4, <1>5, DispatchHolds DEF Tasks!Exit

---------------------------------------------------------------------------
\* The scheduler implements AbstractSched: whatever the queues, locks,
\* interrupts and cut joins of os_sched.c do, its users see a CPU that a task
\* loses only to the most urgent one that can run, an exit that lets the
\* joining task run in the same step, and a join that ends once and after it.
THEOREM SchedRefines == Spec => ImplementsAbstractSched
<1> DEFINE abs == <<[t \in Task |-> Life(t)], tq.prio_current, [t \in Task |-> Joins(t)],
                    task_current>>
<1>1. SchedInv /\ SchedInv' /\ Next => Tasks!ANext
  <2> SUFFICES ASSUME SchedCore, SchedCore', Next PROVE Tasks!ANext
    BY DEF SchedInv
  <2>1. CASE Stay
    <3>1. Frame /\ (Steady \/ \E t \in Task : Born(t) \/ Freed(t))
      BY <2>1, StayStep DEF StayEffect
    <3>2. CASE Steady
      BY <3>1, <3>2, SteadyMaps DEF Tasks!ANext
    <3>3. CASE \E t \in Task : Born(t) \/ Freed(t)
      BY <3>1, <3>3, BornMaps, FreedMaps DEF Tasks!ANext
    <3> QED BY <3>1, <3>2, <3>3
  <2>2. CASE Leave
    <3>1. Frame /\ pc[task_current] = "run" /\ (Dies \/ \E u \in Task : Waits(u))
      BY <2>2, LeaveStep DEF LeaveEffect
    <3>2. CASE Dies
      BY <3>1, <3>2, DiesMaps DEF Tasks!ANext
    <3>3. CASE \E u \in Task : Waits(u)
      BY <3>1, <3>3, WaitsMaps DEF Tasks!ANext
    <3> QED BY <3>1, <3>2, <3>3
  <2> QED BY <2>1, <2>2 DEF Next
<1>2. UNCHANGED vars => UNCHANGED abs
  BY DEF vars, Life, Joins
<1> QED BY InitMaps, SchedInvariant, <1>1, <1>2, PTL DEF Spec, ImplementsAbstractSched, Tasks!ASpec
=============================================================================
