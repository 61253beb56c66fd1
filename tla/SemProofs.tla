------------------------------ MODULE SemProofs ------------------------------
(***************************************************************************)
(* The safety properties of the semaphores, for any number of tasks,       *)
(* semaphores, values and guard times: nobody sleeps while there are       *)
(* signals, the guard timers are safe, priorities stay strict, and the     *)
(* semaphores implement AbstractSem.                                       *)
(*                                                                         *)
(* The inductive invariant joins those of the scheduler and of the guards; *)
(* it adds that whoever is on the queue of an object is in os_sem_down on  *)
(* a semaphore.                                                            *)
(***************************************************************************)
EXTENDS Sem, GuardProofs

SemWaits ==
    \A t \in Task : tq.task_queue[t] \in ObjectQueue =>
        tq.task_queue[t] \in Semaphore /\ pc[t] = "sem_wait"

SemInv ==
    /\ SchedInv
    /\ GuardInv
    /\ SemTypeOK
    /\ SemWaits
    /\ NoSleepWithSignals

---------------------------------------------------------------------------
(* What AbstractSem sees of a step.                                        *)

AbsWaiters == [s \in Semaphore |-> Waiters(s)]

AbsResult == [t \in Task |-> IF pc[t] = "sem_wait" /\ tq.state[t] # "WAIT"
                             THEN block_code[t] ELSE "NONE"]

LEMMA SemaphoreQueues == Semaphore \subseteq ObjectQueue /\ NULL \notin Semaphore
BY SemaphoreAssumption, NullAssumption DEF ObjectQueue

\* A task in os_sem_down waits exactly while it is on the queue of an object.
LEMMA ResultValue ==
    ASSUME SchedCore, NEW t \in Task
    PROVE  AbsResult[t] = IF pc[t] = "sem_wait" /\ tq.task_queue[t] \notin ObjectQueue
                          THEN block_code[t] ELSE "NONE"
<1>1. ASSUME pc[t] = "sem_wait"
      PROVE  tq.state[t] = "WAIT" <=> tq.task_queue[t] \in ObjectQueue
  BY <1>1 DEF SchedCore, InPlace, JoinsMatch, ObjectQueue
<1> QED BY <1>1 DEF AbsResult

LEMMA ResultValueNext ==
    ASSUME SchedCore', NEW t \in Task
    PROVE  AbsResult'[t] = IF pc'[t] = "sem_wait" /\ tq'.task_queue[t] \notin ObjectQueue
                           THEN block_code'[t] ELSE "NONE"
<1>1. ASSUME pc'[t] = "sem_wait"
      PROVE  tq'.state[t] = "WAIT" <=> tq'.task_queue[t] \in ObjectQueue
  BY <1>1 DEF SchedCore, InPlace, JoinsMatch, ObjectQueue
<1> QED BY <1>1 DEF AbsResult

\* The tasks W get the result code and stop waiting; nothing that AbstractSem
\* sees happens to the others.
Answers(W, code) ==
    /\ W \subseteq {t \in Task : tq.task_queue[t] \in ObjectQueue}
    /\ \A t \in W : /\ tq'.task_queue[t] \notin ObjectQueue
                    /\ pc'[t] = pc[t] /\ block_code'[t] = code
    /\ \A t \in Task \ W :
          /\ SameObject(tq, tq', t)
          /\ pc'[t] = pc[t] \/ (pc'[t] \in OwnLabel /\ pc[t] \in OwnLabel)
          /\ pc[t] \notin OwnLabel => block_code'[t] = block_code[t]

LEMMA Answered ==
    ASSUME SemInv, SchedCore', NEW W, NEW code, Answers(W, code)
    PROVE  /\ SemWaits'
           /\ AbsWaiters' = [s \in Semaphore |-> AbsWaiters[s] \ W]
           /\ AbsResult' = [t \in Task |-> IF t \in W THEN code ELSE AbsResult[t]]
           /\ \A t \in Task, s \in Semaphore :
                 tq'.task_queue[t] = s <=> tq.task_queue[t] = s /\ t \notin W
<1>1. SchedCore /\ SemWaits /\ "sem_wait" \notin OwnLabel
  BY DEF SemInv, SchedInv, OwnLabel
<1>2. SemWaits'
  BY <1>1 DEF SemWaits, Answers, SameObject
<1>3. \A t \in Task, s \in Semaphore :
         tq'.task_queue[t] = s <=> tq.task_queue[t] = s /\ t \notin W
  BY SemaphoreQueues DEF Answers, SameObject
<1>4. AbsWaiters' = [s \in Semaphore |-> AbsWaiters[s] \ W]
  <2>1. \A s \in Semaphore : Waiters(s)' = Waiters(s) \ W
    BY <1>3 DEF Waiters, OnQueue
  <2> QED BY <2>1 DEF AbsWaiters
<1>5. ASSUME NEW t \in Task PROVE AbsResult'[t] = IF t \in W THEN code ELSE AbsResult[t]
  <2>1. CASE t \in W
    BY <1>1, <2>1, ResultValueNext DEF Answers, SemWaits
  <2>2. CASE t \notin W
    BY <1>1, <2>2, ResultValue, ResultValueNext DEF Answers, SameObject
  <2> QED BY <2>1, <2>2
<1>6. AbsResult' = [t \in Task |-> AbsResult'[t]]
  BY DEF AbsResult
<1> QED BY <1>2, <1>3, <1>4, <1>5, <1>6

\* Nobody is answered.
LEMMA Unanswered ==
    ASSUME SemInv, SchedCore', NEW code, Answers({}, code)
    PROVE  SemWaits' /\ AbsWaiters' = AbsWaiters /\ AbsResult' = AbsResult
           /\ \A s \in Semaphore : Waiters(s)' = Waiters(s)
<1>1. /\ SemWaits'
      /\ AbsWaiters' = [s \in Semaphore |-> AbsWaiters[s] \ {}]
      /\ AbsResult' = [t \in Task |-> IF t \in {} THEN code ELSE AbsResult[t]]
      /\ \A t \in Task, s \in Semaphore :
            tq'.task_queue[t] = s <=> tq.task_queue[t] = s /\ t \notin {}
  BY Answered
<1>2. \A s \in Semaphore : Waiters(s)' = Waiters(s)
  BY <1>1 DEF Waiters, OnQueue
<1> QED BY <1>1, <1>2 DEF AbsWaiters, AbsResult

LEMMA ReleaseAnswers ==
    ASSUME SchedCore, SemWaits, NEW W \in SUBSET {t \in Task : tq.task_queue[t] \in ObjectQueue},
           NEW code, ReleaseEffect(W), \A t \in W : block_code'[t] = code,
           \A t \in Task \ W : block_code'[t] = block_code[t]
    PROVE  Answers(W, code)
BY DEF ReleaseEffect, Answers, SemWaits, OwnLabel

---------------------------------------------------------------------------
(* The steps.                                                              *)

Abs == <<value, AbsWaiters, AbsResult>>

\* The scheduler's own steps.
LEMMA SchedCallsKeep ==
    ASSUME SemInv, SchedCalls
    PROVE  SemInv' /\ UNCHANGED Abs
<1>1. /\ SchedInv /\ SchedCore /\ GuardInv /\ SemTypeOK /\ NoSleepWithSignals
      /\ value' = value /\ live' = live /\ UNCHANGED guardVars /\ Next
  BY DEF SemInv, SchedInv, SchedCalls, semVars, Next, Stay
<1>2. SchedCore' /\ Frame
  BY <1>1, NextStep
<1>3. SchedInv' /\ GuardInv'
  BY <1>1, <1>2, PrioStep, GuardsFramed DEF SchedInv
<1>4. Answers({}, "OK")
  BY <1>2 DEF Frame, FieldsKept, Answers
<1>5. /\ SemWaits' /\ AbsWaiters' = AbsWaiters /\ AbsResult' = AbsResult
      /\ \A s \in Semaphore : Waiters(s)' = Waiters(s)
  BY <1>2, <1>4, Unanswered
<1>6. SemTypeOK' /\ NoSleepWithSignals'
  BY <1>1, <1>3, <1>5 DEF SemTypeOK, NoSleepWithSignals, SchedInv, SchedCore, GuardInv
<1> QED BY <1>1, <1>3, <1>5, <1>6 DEF SemInv, Abs

\* os_sem_create, and an os_sem_down that finds a signal.
LEMMA CountingKeeps ==
    ASSUME SemInv, UNCHANGED <<vars, guardVars>>, NEW s \in Semaphore, Waiters(s) = {},
           NEW n \in 0 .. MaxValue, value' = [value EXCEPT ![s] = n],
           live' = [live EXCEPT ![s] = TRUE]
    PROVE  SemInv' /\ UNCHANGED <<AbsWaiters, AbsResult>>
<1>1. /\ SchedInv /\ SchedCore /\ GuardInv /\ SemTypeOK /\ NoSleepWithSignals /\ UNCHANGED vars
      /\ UNCHANGED guardVars /\ tq' = tq /\ pc' = pc /\ block_code' = block_code
      /\ deferred' = deferred /\ task_current' = task_current
  BY DEF SemInv, SchedInv, vars
<1>2. SchedCore' /\ SchedInv'
  BY <1>1, StutterStep DEF SchedInv, HighestPrioRuns, TopRuns
<1>3. GuardInv'
  BY <1>1, <1>2, GuardsQuiet DEF SameObject
<1>4. SemWaits' /\ AbsWaiters' = AbsWaiters /\ AbsResult' = AbsResult
  BY <1>1 DEF SemInv, SemWaits, AbsWaiters, AbsResult, Waiters
<1>5. SemTypeOK'
  BY <1>1, <1>2, <1>3 DEF SemTypeOK, SchedInv, SchedCore, GuardInv
<1>6. NoSleepWithSignals'
  BY <1>1 DEF NoSleepWithSignals, Waiters, SemTypeOK
<1> QED BY <1>2, <1>3, <1>4, <1>5, <1>6 DEF SemInv

LEMMA CreateKeepsSem ==
    ASSUME SemInv, NEW s \in Semaphore, NEW n \in 0 .. MaxValue, os_sem_create(s, n)
    PROVE  SemInv' /\ Abstract!ANext
<1>1. /\ UNCHANGED <<vars, guardVars>> /\ live' = [live EXCEPT ![s] = TRUE]
      /\ value' = [value EXCEPT ![s] = n] /\ ~live[s]
  BY DEF os_sem_create
<1>2. Waiters(s) = {}
  BY <1>1 DEF SemInv, NoSleepWithSignals
<1>3. SemInv' /\ UNCHANGED <<AbsWaiters, AbsResult>>
  BY <1>1, <1>2, CountingKeeps
<1>4. value'[s] = n /\ n \in Nat
  BY <1>1, ValueAssumption DEF SemInv, SemTypeOK
<1>5. Abstract!Create(s)
  BY <1>1, <1>2, <1>3, <1>4 DEF Abstract!Create, AbsWaiters, AbsResult
<1> QED BY <1>3, <1>5 DEF Abstract!ANext

LEMMA TakeKeeps ==
    ASSUME SemInv, NEW s \in Semaphore, os_sem_down_take(s)
    PROVE  SemInv' /\ Abstract!ANext
<1>1. /\ UNCHANGED <<vars, guardVars>> /\ live' = live /\ live[s]
      /\ value' = [value EXCEPT ![s] = @ - 1] /\ value[s] > 0
      /\ value \in [Semaphore -> 0 .. MaxValue] /\ live \in [Semaphore -> BOOLEAN]
  BY DEF os_sem_down_take, MayDown, SemInv, SemTypeOK
<1>2. Waiters(s) = {} /\ value[s] - 1 \in 0 .. MaxValue /\ live' = [live EXCEPT ![s] = TRUE]
  BY <1>1, ValueAssumption DEF SemInv, NoSleepWithSignals
<1>3. SemInv' /\ UNCHANGED <<AbsWaiters, AbsResult>>
  BY <1>1, <1>2, CountingKeeps
<1>4. Abstract!Take(s)
  BY <1>1, <1>2, <1>3 DEF Abstract!Take, AbsWaiters, AbsResult
<1> QED BY <1>3, <1>4 DEF Abstract!ANext

LEMMA DownWaitKeeps ==
    ASSUME SemInv, NEW s \in Semaphore, NEW timeout \in Timeouts \cup {NULL},
           os_sem_down_wait(s, timeout)
    PROVE  SemInv' /\ Abstract!ANext
<1>0. PICK c \in Task : c = task_current
  BY DEF SemInv, SchedInv, SchedCore, TypeOK
<1>1. /\ pc[c] = "run" /\ c # Idle /\ live[s] /\ value[s] = 0
      /\ os_blocktimer_create(timeout) /\ value' = value /\ live' = live
      /\ UNCHANGED <<prio_base, block_code, join_sem, cpuVars>> /\ block_code' = block_code
      /\ os_task_block_switch(tq, s, "SEM", "sem_wait")
  BY <1>0 DEF os_sem_down_wait, MayDown, InTask
<1>2. /\ SchedCore /\ GuardInv /\ SemTypeOK /\ SemWaits /\ NoSleepWithSignals
      /\ s \in ObjectQueue /\ tq.task_queue[c] = NULL /\ pc \in [Task -> Label]
      /\ NULL \notin ObjectQueue
  BY <1>0, SemaphoreQueues, NullAssumption
     DEF SemInv, SchedInv, SchedCore, InPlace, TypeOK, ObjectQueue
<1>3. SchedCore' /\ BlockEffect(s, "sem_wait") /\ NotOutranked(tq', task_current')
  <2>1. "sem_wait" \in WaitLabel \ JoinLabel
    BY DEF WaitLabel, JoinLabel
  <2> QED BY <1>0, <1>1, <1>2, <2>1, PlainQueues, BlockStepUnlocked
<1>4. SchedInv' /\ GuardInv'
  BY <1>0, <1>1, <1>2, <1>3, RanksNext, GuardsStart
<1>5. /\ tq'.task_queue[c] = s /\ pc'[c] = "sem_wait"
      /\ \A t \in Task \ {c} : SameObject(tq, tq', t) /\ pc'[t] = pc[t]
  BY <1>0, <1>2, <1>3 DEF BlockEffect
<1>6. SemWaits'
  BY <1>2, <1>5 DEF SemWaits, SameObject
<1>7. \A t \in Task, o \in Semaphore :
         tq'.task_queue[t] = o <=> tq.task_queue[t] = o \/ (t = c /\ o = s)
  BY <1>2, <1>5, SemaphoreQueues DEF SameObject
<1>8. \A o \in Semaphore : Waiters(o)' = IF o = s THEN Waiters(o) \cup {c} ELSE Waiters(o)
  BY <1>7 DEF Waiters, OnQueue
<1>9. AbsWaiters' = [AbsWaiters EXCEPT ![s] = @ \cup {c}]
  BY <1>8 DEF AbsWaiters
<1>10. \A o \in Semaphore : c \notin AbsWaiters[o]
  BY <1>2, SemaphoreQueues DEF AbsWaiters, Waiters, OnQueue
<1>11. AbsResult[c] = "NONE" /\ AbsResult' = AbsResult
  <2>1. AbsResult[c] = "NONE" /\ AbsResult'[c] = "NONE"
    BY <1>1, <1>2, <1>3, <1>5, ResultValue, ResultValueNext
  <2>2. \A t \in Task \ {c} : AbsResult'[t] = AbsResult[t]
    BY <1>1, <1>2, <1>3, <1>5, ResultValue, ResultValueNext DEF SameObject
  <2>3. AbsResult' = [t \in Task |-> AbsResult'[t]] /\ AbsResult = [t \in Task |-> AbsResult[t]]
    BY DEF AbsResult
  <2> QED BY <2>1, <2>2, <2>3
<1>12. Abstract!Wait(c, s)
  BY <1>1, <1>9, <1>10, <1>11 DEF Abstract!Wait, AbsWaiters, AbsResult
<1>13. SemTypeOK' /\ NoSleepWithSignals'
  BY <1>1, <1>2, <1>4, <1>8 DEF SemTypeOK, NoSleepWithSignals, SchedInv, SchedCore, GuardInv
<1> QED BY <1>4, <1>6, <1>12, <1>13 DEF SemInv, Abstract!ANext

LEMMA DownWokenKeeps ==
    ASSUME SemInv, os_sem_down_woken
    PROVE  SemInv' /\ Abstract!ANext
<1>0. PICK c \in Task : c = task_current
  BY DEF SemInv, SchedInv, SchedCore, TypeOK
<1>1. /\ pc[c] = "sem_wait" /\ tq' = [tq EXCEPT !.state[c] = "RUNNING"]
      /\ os_blocktimer_destroy({c}) /\ pc' = [pc EXCEPT ![c] = "run"]
      /\ UNCHANGED <<tcbVars, task_current, cpuVars, deferred>>
      /\ block_code' = block_code /\ value' = value /\ live' = live
      /\ deferred' = deferred /\ task_current' = task_current
  BY <1>0 DEF os_sem_down_woken, tcbVars
<1>2. /\ SchedInv /\ SchedCore /\ GuardInv /\ SemTypeOK /\ SemWaits /\ NoSleepWithSignals
      /\ tq.task_queue[c] = NULL /\ pc \in [Task -> Label] /\ NULL \notin ObjectQueue
      /\ block_code \in [Task -> {"OK", "DESTROYED", "TIMEOUT", "EXIT"}]
  BY <1>0, NullAssumption DEF SemInv, SchedInv, SchedCore, InPlace, TypeOK, ObjectQueue
<1>3. SchedCore' /\ tq'.task_queue = tq.task_queue /\ tq'.prio_current = tq.prio_current
  <2>1. Resumes
    BY <1>0, <1>1 DEF Resumes, JoinLabel
  <2> QED BY <1>2, <2>1, ResumeStep
<1>4. SchedInv'
  BY <1>1, <1>2, <1>3 DEF SchedInv, HighestPrioRuns, TopRuns, OnQueue
<1>5. GuardInv'
  BY <1>1, <1>2, <1>3, GuardsEnd DEF SameObject
<1>6. SemWaits' /\ \A s \in Semaphore : Waiters(s)' = Waiters(s)
  BY <1>1, <1>2, <1>3 DEF SemWaits, Waiters, OnQueue
<1>7. AbsResult[c] # "NONE" /\ AbsResult' = [AbsResult EXCEPT ![c] = "NONE"]
  <2>1. AbsResult[c] = block_code[c] /\ AbsResult'[c] = "NONE"
    BY <1>1, <1>2, <1>3, ResultValue, ResultValueNext
  <2>2. \A t \in Task \ {c} : AbsResult'[t] = AbsResult[t]
    BY <1>1, <1>2, <1>3, ResultValue, ResultValueNext
  <2>3. AbsResult' = [t \in Task |-> AbsResult'[t]] /\ AbsResult = [t \in Task |-> AbsResult[t]]
    BY DEF AbsResult
  <2> QED BY <1>2, <2>1, <2>2, <2>3
<1>8. Abstract!Return(c)
  <2>1. AbsWaiters' = AbsWaiters
    BY <1>6 DEF AbsWaiters
  <2> QED BY <1>1, <1>7, <2>1 DEF Abstract!Return, AbsWaiters, AbsResult
<1>9. SemTypeOK' /\ NoSleepWithSignals'
  BY <1>1, <1>2, <1>3, <1>5, <1>6 DEF SemTypeOK, NoSleepWithSignals, SchedCore, GuardInv
<1> QED BY <1>4, <1>5, <1>6, <1>8, <1>9 DEF SemInv, Abstract!ANext

\* The functions that answer tasks: os_sem_up, os_sem_destroy and the tick.
LEMMA AnswerKeeps ==
    ASSUME SemInv, SchedInv', GuardInv', NEW W, NEW code, Answers(W, code),
           value' \in [Semaphore -> 0 .. MaxValue], live' \in [Semaphore -> BOOLEAN],
           \A s \in Semaphore : \/ value'[s] = value[s] /\ live'[s] = live[s]
                                \/ Waiters(s) \subseteq W
    PROVE  SemInv' /\ Abstract!Answer(W, code)
<1>1. SchedCore' /\ NoSleepWithSignals
  BY DEF SchedInv, SemInv
<1>2. /\ SemWaits'
      /\ AbsWaiters' = [s \in Semaphore |-> AbsWaiters[s] \ W]
      /\ AbsResult' = [t \in Task |-> IF t \in W THEN code ELSE AbsResult[t]]
      /\ \A t \in Task, s \in Semaphore :
            tq'.task_queue[t] = s <=> tq.task_queue[t] = s /\ t \notin W
  BY <1>1, Answered
<1>3. \A s \in Semaphore : Waiters(s)' = Waiters(s) \ W
  BY <1>2 DEF Waiters, OnQueue
<1>4. NoSleepWithSignals'
  BY <1>1, <1>3 DEF NoSleepWithSignals
<1>5. SemTypeOK'
  BY <1>1 DEF SemTypeOK, SchedCore, GuardInv
<1>6. Abstract!Answer(W, code)
  BY <1>2 DEF Abstract!Answer, AbsWaiters, AbsResult
<1> QED BY <1>2, <1>4, <1>5, <1>6 DEF SemInv

LEMMA UpKeeps ==
    ASSUME SemInv, NEW s \in Semaphore, NEW sync \in BOOLEAN, os_sem_up_sync(s, sync)
    PROVE  SemInv' /\ Abstract!ANext
<1> DEFINE d == os_taskqueue_dequeue(tq, s)
           r == os_task_makeready(d.s, d.task)
           Codes == {"OK", "DESTROYED", "TIMEOUT", "EXIT"}
<1>1. /\ live[s] /\ value[s] < MaxValue /\ live' = live
      /\ UNCHANGED <<prio_base, block_type, join_sem, cpuVars>>
      /\ value' = Upped(s, d.task) /\ os_blocktimer_destroy({d.task})
      /\ IF d.task = NULL
         THEN UNCHANGED <<tq, block_code, task_current, pc, deferred>>
         ELSE /\ block_code' = [block_code EXCEPT ![d.task] = "OK"]
              /\ IF sync
                 THEN /\ tq' = r /\ deferred' = TRUE
                      /\ UNCHANGED <<task_current, pc>>
                 ELSE os_schedule(r, pc[task_current], 1)
  BY DEF os_sem_up_sync
<1>2. /\ SchedInv /\ SchedCore /\ GuardInv /\ SemTypeOK /\ SemWaits /\ NoSleepWithSignals
      /\ s \in ObjectQueue /\ NULL \notin Task /\ block_code \in [Task -> Codes]
      /\ value \in [Semaphore -> 0 .. MaxValue] /\ live \in [Semaphore -> BOOLEAN]
  BY SemaphoreQueues, NullAssumption DEF SemInv, SemTypeOK, SchedInv, SchedCore, TypeOK
<1>3. \/ d.task = NULL /\ d.s = tq /\ OnQueue(tq, s) = {}
      \/ d.task \in OnQueue(tq, s) /\ Released(r, {d.task})
  BY <1>2, PlainQueues, ReleaseOne
<1> HIDE DEF d, r
<1>4. OnQueue(tq, s) \subseteq Task
  BY DEF OnQueue
<1>5. CASE d.task = NULL
  <2>1. /\ Waiters(s) = {} /\ tq' = tq /\ block_code' = block_code /\ pc' = pc
        /\ task_current' = task_current /\ deferred' = deferred
        /\ value' = [value EXCEPT ![s] = @ + 1] /\ value[s] + 1 \in 0 .. MaxValue
    BY <1>1, <1>2, <1>3, <1>4, <1>5, ValueAssumption DEF Waiters, Upped
  <2>2. SchedCore' /\ SchedInv'
    <3>1. UNCHANGED vars
      BY <1>1, <2>1 DEF vars, tcbVars, cpuVars
    <3> QED BY <1>2, <2>1, <3>1, StutterStep DEF SchedInv, HighestPrioRuns, TopRuns
  <2>3. GuardInv'
    BY <1>1, <1>2, <2>1, <2>2, GuardsEnd DEF SameObject
  <2>4. Answers({}, "OK")
    BY <2>1 DEF Answers, SameObject
  <2>5. SemInv' /\ AbsWaiters' = AbsWaiters /\ AbsResult' = AbsResult
    <3>1. SemWaits' /\ AbsWaiters' = AbsWaiters /\ AbsResult' = AbsResult
          /\ \A o \in Semaphore : Waiters(o)' = Waiters(o)
      BY <2>2, <2>4, Unanswered
    <3>2. SemTypeOK' /\ NoSleepWithSignals'
      BY <1>1, <1>2, <2>1, <2>2, <2>3, <3>1
         DEF SemTypeOK, NoSleepWithSignals, SchedCore, GuardInv
    <3> QED BY <2>2, <2>3, <3>1, <3>2 DEF SemInv
  <2>6. Abstract!Keep(s)
    BY <2>1, <2>5 DEF Abstract!Keep, AbsWaiters, AbsResult
  <2> QED BY <2>5, <2>6 DEF Abstract!ANext
<1>6. CASE d.task # NULL
  <2> DEFINE W == {d.task}
  <2>1. /\ d.task \in Waiters(s) /\ d.task \in Task /\ Released(r, W)
        /\ value' = value
    BY <1>1, <1>3, <1>4, <1>6 DEF Waiters, Upped
  <2>2. /\ block_code' \in [Task -> Codes]
        /\ \A t \in W : block_code'[t] = "OK"
        /\ \A t \in Task \ W : block_code'[t] = block_code[t]
    BY <1>1, <1>2, <1>6, <2>1
  <2> HIDE DEF W
  <2>3. SchedCore' /\ ReleaseEffect(W) /\ (deferred' \/ NotOutranked(tq', task_current'))
    <3>1. CASE sync
      <4>1. /\ tq' = r /\ deferred' = TRUE
            /\ UNCHANGED <<prio_base, block_type, join_sem, task_current, pc, cpuVars>>
        BY <1>1, <1>6, <3>1
      <4>2. SchedCore' /\ ReleaseEffect(W)
        BY <1>2, <2>1, <2>2, <4>1, ReleaseOnly
      <4> QED BY <4>1, <4>2
    <3>2. CASE ~sync
      <4>1. os_schedule(r, pc[task_current], 1)
        BY <1>1, <1>6, <3>2
      <4> QED BY <1>1, <1>2, <2>1, <2>2, <4>1, ReleaseAndSchedule
    <3> QED BY <3>1, <3>2
  <2>4. SchedInv' /\ GuardInv'
    BY <1>1, <1>2, <2>3, RanksNext, GuardsReleased DEF W
  <2>5. Answers(W, "OK")
    <3>1. W \in SUBSET {t \in Task : tq.task_queue[t] \in ObjectQueue}
      BY <2>1 DEF Released
    <3> QED BY <1>2, <2>2, <2>3, <3>1, ReleaseAnswers
  <2>6. SemInv' /\ Abstract!Answer(W, "OK")
    BY <1>1, <1>2, <2>1, <2>4, <2>5, AnswerKeeps
  <2>7. PICK t \in Task : t = d.task
    BY <2>1
  <2>8. Abstract!Signal(t, s)
    BY <2>1, <2>6, <2>7 DEF Abstract!Signal, W
  <2> QED BY <2>6, <2>8 DEF Abstract!ANext
<1> QED BY <1>5, <1>6

LEMMA DestroyKeepsSem ==
    ASSUME SemInv, NEW s \in Semaphore, os_sem_destroy(s)
    PROVE  SemInv' /\ Abstract!ANext
<1> DEFINE W == Waiters(s)
           r == WakeAll(tq, s)
           Codes == {"OK", "DESTROYED", "TIMEOUT", "EXIT"}
<1>1. /\ pc[task_current] = "run"
      /\ live' = [live EXCEPT ![s] = FALSE] /\ value' = [value EXCEPT ![s] = 0]
      /\ os_blocktimer_destroy(W)
      /\ block_code' = [t \in Task |-> IF t \in W THEN "DESTROYED" ELSE block_code[t]]
      /\ UNCHANGED <<prio_base, block_type, join_sem, cpuVars>>
      /\ os_schedule(r, pc[task_current], 1)
  BY DEF os_sem_destroy, InTask
<1>2. /\ SchedCore /\ GuardInv /\ SemTypeOK /\ SemWaits
      /\ s \in ObjectQueue /\ block_code \in [Task -> Codes]
      /\ value \in [Semaphore -> 0 .. MaxValue] /\ live \in [Semaphore -> BOOLEAN]
  BY SemaphoreQueues DEF SemInv, SemTypeOK, SchedInv, SchedCore, TypeOK
<1>3. Released(r, W) /\ W \subseteq Task
  BY <1>2, PlainQueues, ReleaseAll DEF Waiters, OnQueue
<1>4. /\ block_code' \in [Task -> Codes]
      /\ \A t \in W : block_code'[t] = "DESTROYED"
      /\ \A t \in Task \ W : block_code'[t] = block_code[t]
  BY <1>1, <1>2, <1>3
<1> HIDE DEF W, r
<1>5. SchedCore' /\ ReleaseEffect(W) /\ (deferred' \/ NotOutranked(tq', task_current'))
  BY <1>1, <1>2, <1>3, <1>4, ReleaseAndSchedule
<1>6. SchedInv' /\ GuardInv'
  BY <1>1, <1>2, <1>5, RanksNext, GuardsReleased
<1>7. Answers(W, "DESTROYED")
  <2>1. W \in SUBSET {t \in Task : tq.task_queue[t] \in ObjectQueue}
    BY <1>3 DEF Released
  <2> QED BY <1>2, <1>4, <1>5, <2>1, ReleaseAnswers
<1>8. /\ value' \in [Semaphore -> 0 .. MaxValue] /\ live' \in [Semaphore -> BOOLEAN]
      /\ \A o \in Semaphore \ {s} : value'[o] = value[o] /\ live'[o] = live[o]
  BY <1>1, <1>2, ValueAssumption
<1>9. SemInv' /\ Abstract!Answer(W, "DESTROYED")
  BY <1>6, <1>7, <1>8, AnswerKeeps DEF W
<1>10. Abstract!Destroy(s)
  BY <1>1, <1>9 DEF Abstract!Destroy, W
<1> QED BY <1>9, <1>10 DEF Abstract!ANext

LEMMA TickKeeps ==
    ASSUME SemInv, os_tick_guards, UNCHANGED <<value, live>>
    PROVE  SemInv' /\ Abstract!ANext
<1>1. SchedCore /\ GuardInv /\ SemTypeOK /\ SemWaits
  BY DEF SemInv, SchedInv
<1>2. SchedCore' /\ GuardInv' /\ \E W : TickEffect(W)
  BY <1>1, TickStep
<1>3. PICK W : TickEffect(W)
  BY <1>2
<1>4. SchedInv'
  BY <1>2, <1>3, RanksNext DEF TickEffect
<1>5. W \in SUBSET {t \in Task : tq.task_queue[t] \in ObjectQueue}
  BY <1>1, <1>3, GuardedWaits DEF TickEffect
<1>6. Answers(W, "TIMEOUT")
  BY <1>1, <1>3, <1>5, ReleaseAnswers DEF TickEffect
<1>7. SemInv' /\ Abstract!Answer(W, "TIMEOUT")
  BY <1>1, <1>2, <1>4, <1>6, AnswerKeeps DEF SemTypeOK
<1>8. W \in SUBSET UNION {AbsWaiters[s] : s \in Semaphore}
  BY <1>1, <1>5 DEF SemWaits, AbsWaiters, Waiters, OnQueue
<1>9. Abstract!Expire
  BY <1>7, <1>8 DEF Abstract!Expire, AbsWaiters
<1> QED BY <1>7, <1>9 DEF Abstract!ANext

---------------------------------------------------------------------------
(* The invariant and the refinement.                                       *)

LEMMA SemInitHolds == SemInit => SemInv /\ Abstract!AInit
<1> SUFFICES ASSUME SemInit PROVE SemInv /\ Abstract!AInit
  OBVIOUS
<1>1. SchedInv /\ GuardInv
  BY InitHolds, GuardInitHolds DEF SemInit
<1>2. /\ \A t \in Task : tq.task_queue[t] = NULL /\ pc[t] \in {"boot", "run"}
      /\ value = [s \in Semaphore |-> 0] /\ live = [s \in Semaphore |-> FALSE]
  BY DEF SemInit, Init
<1>3. \A s \in Semaphore : Waiters(s) = {}
  BY <1>2, SemaphoreQueues DEF Waiters, OnQueue
<1>4. SemTypeOK
  BY <1>1, <1>2, ValueAssumption DEF SemTypeOK, SchedInv, SchedCore, GuardInv
<1>5. SemWaits /\ NoSleepWithSignals
  BY <1>2, <1>3, NullAssumption DEF SemWaits, NoSleepWithSignals, ObjectQueue
<1>6. Abstract!AInit
  BY <1>2, <1>3 DEF Abstract!AInit
<1> QED BY <1>1, <1>4, <1>5, <1>6 DEF SemInv

LEMMA SemStep == SemInv /\ SemNext => SemInv' /\ (Abstract!ANext \/ UNCHANGED Abs)
<1> SUFFICES ASSUME SemInv, SemNext PROVE SemInv' /\ (Abstract!ANext \/ UNCHANGED Abs)
  OBVIOUS
<1>1. CASE SchedCalls
  BY <1>1, SchedCallsKeep
<1>2. CASE os_sem_down_woken
  BY <1>2, DownWokenKeeps
<1>3. CASE os_tick_guards /\ UNCHANGED <<value, live>>
  BY <1>3, TickKeeps
<1>4. ASSUME NEW s \in Semaphore,
             \/ \E n \in 0 .. MaxValue : os_sem_create(s, n)
             \/ os_sem_destroy(s)
             \/ Down(s)
             \/ \E sync \in BOOLEAN : os_sem_up_sync(s, sync)
      PROVE  SemInv' /\ Abstract!ANext
  BY <1>4, CreateKeepsSem, DestroyKeepsSem, TakeKeeps, DownWaitKeeps, UpKeeps DEF Down
<1> QED BY <1>1, <1>2, <1>3, <1>4 DEF SemNext

LEMMA SemStutter == SemInv /\ UNCHANGED allVars => SemInv' /\ UNCHANGED Abs
<1> SUFFICES ASSUME SemInv, UNCHANGED allVars PROVE SemInv' /\ UNCHANGED Abs
  OBVIOUS
<1>1. /\ UNCHANGED vars /\ UNCHANGED guardVars /\ value' = value /\ live' = live
      /\ tq' = tq /\ pc' = pc /\ block_code' = block_code /\ deferred' = deferred
      /\ task_current' = task_current
  BY DEF allVars, semVars, vars
<1>2. SchedCore' /\ SchedInv'
  BY <1>1, StutterStep DEF SemInv, SchedInv, HighestPrioRuns, TopRuns
<1>3. GuardInv'
  BY <1>1, <1>2, GuardsQuiet DEF SemInv, SchedInv, SameObject
<1>4. SemTypeOK' /\ SemWaits' /\ NoSleepWithSignals'
  BY <1>1, <1>2, <1>3
     DEF SemInv, SemTypeOK, SemWaits, NoSleepWithSignals, Waiters, SchedCore, GuardInv
<1>5. UNCHANGED Abs
  BY <1>1 DEF Abs, AbsWaiters, AbsResult, Waiters
<1> QED BY <1>2, <1>3, <1>4, <1>5 DEF SemInv

\* SemInv is an invariant of the semaphores.
THEOREM SemInvariant == SemSpec => []SemInv
<1> QED BY SemInitHolds, SemStep, SemStutter, PTL DEF SemSpec

\* The value of a semaphore stays within its limit, and the guard of a task is
\* a number of ticks or none.
THEOREM SemTypeCorrect == SemSpec => []SemTypeOK
<1>1. SemInv => SemTypeOK
  BY DEF SemInv
<1> QED BY <1>1, SemInvariant, PTL

\* No lost signal: whatever the order of os_sem_up from tasks and ISRs, of
\* timeouts and preemption, nobody sleeps in os_sem_down on a semaphore with
\* signals left, nor on one that is destroyed.
THEOREM NoSleep == SemSpec => []NoSleepWithSignals
<1>1. SemInv => NoSleepWithSignals
  BY DEF SemInv
<1> QED BY <1>1, SemInvariant, PTL

\* No guard timer outlives the os_sem_down on whose stack it is, and no timeout
\* hits a task that a signal has already woken.
THEOREM SemGuardsSafe == SemSpec => []GuardsAreSafe
<1>1. SemInv => GuardsAreSafe
  BY DEF SemInv, GuardInv
<1> QED BY <1>1, SemInvariant, PTL

\* Strict priorities with semaphores: after a signal, a timeout or a destroy
\* no READY task outranks the running one, unless the scheduling point was put
\* off (sync, nested ISR, locked scheduler).
THEOREM SemStrictPriorities == SemSpec => []HighestPrioRuns
<1>1. SemInv => HighestPrioRuns
  BY DEF SemInv, SchedInv
<1> QED BY <1>1, SemInvariant, PTL

\* The semaphores implement AbstractSem: a signal is kept or given to one
\* task, and the first of signal, timeout and destruction decides the result
\* of os_sem_down.
THEOREM SemRefines == SemSpec => ImplementsAbstractSem
<1>1. SemInv /\ SemNext => Abstract!ANext \/ UNCHANGED Abs
  BY SemStep
<1>2. SemInv /\ UNCHANGED allVars => UNCHANGED Abs
  BY SemStutter
<1>3. UNCHANGED Abs => UNCHANGED <<value, [s \in Semaphore |-> Waiters(s)],
              [t \in Task |-> IF pc[t] = "sem_wait" /\ tq.state[t] # "WAIT"
                              THEN block_code[t] ELSE "NONE"]>>
  BY DEF Abs, AbsWaiters, AbsResult
<1> QED BY SemInitHolds, <1>1, <1>2, <1>3, SemInvariant, PTL
        DEF SemSpec, ImplementsAbstractSem, Abstract!ASpec
=============================================================================
