-------------------------------- MODULE Timer --------------------------------
(***************************************************************************)
(* The timers of RadOs (os_timer.c).  Active timers are on a list sorted   *)
(* by remaining ticks; the ticks since the list was last walked are in     *)
(* timer_tick_unsynch, and the list is walked when its head is due or that *)
(* counter gets too large.                                                 *)
(*                                                                         *)
(* All of it runs with interrupts off, so nothing comes between os_tick    *)
(* and the end of timer_trigger but the callbacks, which may themselves    *)
(* create and destroy timers.  Each loop is one step per turn, the calls   *)
(* of a callback are steps of their own.                                   *)
(***************************************************************************)
EXTENDS Integers, SequencesExt

CONSTANTS
    Timer,
    Timeouts,              \* the timeout_ticks the application uses
    Reloads,               \* the reload_ticks the application uses
    OS_TIMER_UNSYNCH_MAX,
    TICKS_MOD,             \* range of os_ticks_t: 2^16 on the AVR and MSP430
    NULL,
    CallbackCreates,       \* callbacks may call os_timer_create
    CallbackDestroysNext,  \* ... os_timer_destroy of the timer walked next
    CallbackDestroysReload \* ... os_timer_destroy of an expired auto reload timer

Ticks == 0 .. (TICKS_MOD - 1)

\* os_timer_create asserts 0 < timeout_ticks < OS_TIMER_TICKSREM_MAX, which is
\* the largest tick count less OS_TIMER_UNSYNCH_MAX.
OS_TIMER_TICKSREM_MAX == TICKS_MOD - 1 - OS_TIMER_UNSYNCH_MAX

ASSUME TimerAssumption == NULL \notin Timer /\ NULL \notin Int
ASSUME TicksAssumption ==
    /\ TICKS_MOD \in Nat \ {0}
    /\ OS_TIMER_UNSYNCH_MAX \in Ticks
    /\ Timeouts \subseteq 1 .. (OS_TIMER_TICKSREM_MAX - 1)
    /\ Reloads \subseteq Ticks
ASSUME CallbackAssumption ==
    {CallbackCreates, CallbackDestroysNext, CallbackDestroysReload} \subseteq BOOLEAN

VARIABLES
    timer_list,
    ticks_rem,           \* timer->ticks_rem
    ticks_reload,        \* timer->ticks_reload
    magic,               \* timer->magic; "NONE" for memory never used
    timer_tick_unsynch,
    triggering,          \* timer_trigger is at work
    itr,                 \* its iterator; NULL is the head of the list
    running,             \* the timer whose callback it has called, or NULL
    list_autoreload,     \* its list of expired auto reload timers
    left                 \* history: ticks until the callback is due, or NULL

timerVars == <<timer_list, ticks_rem, ticks_reload, magic, timer_tick_unsynch,
               triggering, itr, running, list_autoreload, left>>

TimerTypeOK ==
    /\ timer_list \in Seq(Timer)
    /\ ticks_rem \in [Timer -> Ticks]
    /\ ticks_reload \in [Timer -> Ticks]
    /\ magic \in [Timer -> {"NONE", "MAGIC1", "MAGIC2"}]
    /\ timer_tick_unsynch \in 0 .. (OS_TIMER_UNSYNCH_MAX + 1)
    /\ triggering \in BOOLEAN
    /\ itr \in Timer \cup {NULL}
    /\ running \in Timer \cup {NULL}
    /\ list_autoreload \in Seq(Timer)
    /\ \A t \in Timer : left[t] = NULL \/ left[t] \in Int

\* os_timers_init.
TimerInit ==
    /\ timer_list = <<>>
    /\ ticks_rem = [t \in Timer |-> 0]
    /\ ticks_reload = [t \in Timer |-> 0]
    /\ magic = [t \in Timer |-> "NONE"]
    /\ timer_tick_unsynch = 0
    /\ triggering = FALSE
    /\ itr = NULL
    /\ running = NULL
    /\ list_autoreload = <<>>
    /\ left = [t \in Timer |-> NULL]

---------------------------------------------------------------------------
\* Mutant: the list is not sorted.
timer_add_last(list, rem, t) == Append(list, t)

\* The new timer goes before the first one with more ticks to go.
timer_add(list, rem, t) ==
    LET later == SelectInSeq(list, LAMBDA o : rem[o] > rem[t])
    IN  IF later = 0 THEN Append(list, t) ELSE InsertAt(list, later, t)

\* Mutant: the successor is read after the timer was unlinked.
Successor_unlinked(t) ==
    LET i == SelectInSeq(timer_list, LAMBDA o : o = t)
    IN  IF i = 0 \/ ticks_rem[t] <= timer_tick_unsynch THEN t
        ELSE IF i = Len(timer_list) THEN NULL
        ELSE timer_list[i + 1]

\* itr->next; a timer that was unlinked is its own successor (list_unlink).
Successor(t) ==
    LET i == SelectInSeq(timer_list, LAMBDA o : o = t)
    IN  IF i = 0 THEN t
        ELSE IF i = Len(timer_list) THEN NULL
        ELSE timer_list[i + 1]

\* Mutant: the ticks that the list has not seen yet are forgotten.
Compensated_not(n) == n

\* A new timer is older than the list by the ticks the list has not seen yet.
Compensated(n) == (n + timer_tick_unsynch) % TICKS_MOD

\* Calls come from tasks and ISRs outside of os_tick, or from a callback.
MayCall == ~triggering \/ running # NULL

(***************************************************************************)
(* os_timer_create.  A timer may be used again only after it was           *)
(* destroyed; a callback does not create its own timer anew.               *)
(***************************************************************************)
os_timer_create(t, timeout_ticks, reload_ticks) ==
    /\ MayCall
    /\ running # NULL => CallbackCreates /\ t # running
    /\ magic[t] # "MAGIC1"
    /\ ticks_rem' = [ticks_rem EXCEPT ![t] = Compensated(timeout_ticks)]
    /\ ticks_reload' = [ticks_reload EXCEPT ![t] = reload_ticks]
    /\ magic' = [magic EXCEPT ![t] = "MAGIC1"]
    /\ timer_list' = timer_add(timer_list, ticks_rem', t)
    /\ left' = [left EXCEPT ![t] = timeout_ticks]
    /\ UNCHANGED <<timer_tick_unsynch, triggering, itr, running, list_autoreload>>

\* Mutant: the timer stays on the list.
Detached_linked(t) == timer_list

\* The list without a timer that is still active.
Detached(t) == IF ticks_rem[t] > 0 THEN RemoveFirst(timer_list, t) ELSE timer_list

\* A timer that has expired (ticks_rem = 0) only gets its magic changed.
os_timer_destroy(t) ==
    /\ MayCall
    /\ running # NULL =>
          /\ t = itr => CallbackDestroysNext
          /\ ticks_rem[t] = 0 /\ ticks_reload[t] > 0 => CallbackDestroysReload
    /\ magic[t] # "NONE"
    /\ timer_list' = Detached(t)
    /\ ticks_rem' = [ticks_rem EXCEPT ![t] = 0]
    /\ ticks_reload' = [ticks_reload EXCEPT ![t] = IF ticks_rem[t] > 0 THEN 0 ELSE @]
    /\ magic' = [magic EXCEPT ![t] = "MAGIC2"]
    /\ timer_tick_unsynch' = IF timer_list' = <<>> THEN 0 ELSE timer_tick_unsynch
    /\ left' = [left EXCEPT ![t] = NULL]
    /\ UNCHANGED <<triggering, itr, running, list_autoreload>>

\* Mutant: the counter is not bounded.
TriggerDue_head(unsynch) == unsynch >= ticks_rem[Head(timer_list)]

TriggerDue(unsynch) ==
    \/ unsynch >= ticks_rem[Head(timer_list)]
    \/ unsynch > OS_TIMER_UNSYNCH_MAX

\* os_tick up to the call of timer_trigger.  With an empty list nothing
\* happens here.
os_tick_timers ==
    /\ ~triggering
    /\ timer_list # <<>>
    /\ timer_tick_unsynch' = timer_tick_unsynch + 1
    /\ triggering' = TriggerDue(timer_tick_unsynch')
    /\ itr' = IF triggering' THEN Head(timer_list) ELSE NULL
    /\ left' = [t \in Timer |-> IF left[t] = NULL THEN NULL ELSE left[t] - 1]
    /\ UNCHANGED <<timer_list, ticks_rem, ticks_reload, magic, running, list_autoreload>>

\* One turn of the loop of timer_trigger.  ticks_rem is unsigned.
timer_trigger_walk ==
    /\ triggering
    /\ running = NULL
    /\ itr # NULL
    /\ itr' = Successor(itr)
    /\ ticks_rem' = [ticks_rem EXCEPT ![itr] = (@ - timer_tick_unsynch) % TICKS_MOD]
    /\ IF ticks_rem'[itr] > 0
       THEN UNCHANGED <<timer_list, running, left>>
       ELSE /\ timer_list' = RemoveFirst(timer_list, itr)
            /\ running' = itr
            /\ left' = [left EXCEPT ![itr] =
                           IF ticks_reload[itr] > 0 THEN ticks_reload[itr] ELSE NULL]
    /\ UNCHANGED <<ticks_reload, magic, timer_tick_unsynch, triggering, list_autoreload>>

\* Back from the callback.
timer_trigger_called ==
    /\ running # NULL
    /\ running' = NULL
    /\ list_autoreload' = IF ticks_reload[running] > 0
                          THEN Append(list_autoreload, running) ELSE list_autoreload
    /\ UNCHANGED <<timer_list, ticks_rem, ticks_reload, magic, timer_tick_unsynch,
                   triggering, itr, left>>

\* One turn of the second loop: an expired auto reload timer starts anew.
timer_trigger_reload ==
    /\ triggering
    /\ running = NULL
    /\ itr = NULL
    /\ list_autoreload # <<>>
    /\ LET t == Head(list_autoreload)
       IN  /\ ticks_rem' = [ticks_rem EXCEPT ![t] = ticks_reload[t]]
           /\ timer_list' = timer_add(timer_list, ticks_rem', t)
    /\ list_autoreload' = Tail(list_autoreload)
    /\ timer_tick_unsynch' = 0
    /\ UNCHANGED <<ticks_reload, magic, triggering, itr, running, left>>

timer_trigger_end ==
    /\ triggering
    /\ running = NULL
    /\ itr = NULL
    /\ list_autoreload = <<>>
    /\ timer_tick_unsynch' = 0
    /\ triggering' = FALSE
    /\ UNCHANGED <<timer_list, ticks_rem, ticks_reload, magic, itr, running,
                   list_autoreload, left>>

timer_trigger ==
    \/ timer_trigger_walk \/ timer_trigger_called
    \/ timer_trigger_reload \/ timer_trigger_end

TimerCreate ==
    \E t \in Timer, timeout \in Timeouts, reload \in Reloads : os_timer_create(t, timeout, reload)

TimerDestroy == \E t \in Timer : os_timer_destroy(t)

TimerNext ==
    \/ TimerCreate \/ TimerDestroy
    \/ os_tick_timers
    \/ timer_trigger

TimerSpec == TimerInit /\ [][TimerNext]_timerVars

\* The difference of two readings of the tick counter, which wraps.
os_ticks_diff(ticks_start, ticks_end) ==
    IF ticks_start > ticks_end THEN (TICKS_MOD - 1) - ticks_start + 1 + ticks_end
    ELSE ticks_end - ticks_start

---------------------------------------------------------------------------
(* Properties.                                                             *)

\* Between ticks the list is sorted, holds every timer once, and none of its
\* timers is due: it is enough that os_tick looks at the head.
ListIsSorted ==
    ~triggering =>
        /\ IsInjective(timer_list)
        /\ \A i, j \in DOMAIN timer_list :
              i < j => ticks_rem[timer_list[i]] <= ticks_rem[timer_list[j]]
        /\ \A t \in ToSet(timer_list) : ticks_rem[t] > timer_tick_unsynch

\* Every timer expires exactly timeout_ticks ticks after os_timer_create and
\* reload_ticks after its last expiry, however ticks were accumulated and
\* whatever other timers came and went: a callback is called only when it is
\* due, and before the next tick.
OnTime ==
    [][ /\ running = NULL /\ running' # NULL => left[running'] = 0
        /\ ~triggering => \A t \in Timer : left[t] # NULL => left[t] > 0 ]_timerVars

\* The callback of a timer is never called once os_timer_destroy has returned
\* for it (os_timer.h: it "prevents from future timeout").
DestroyedNeverFires ==
    [][running = NULL /\ running' # NULL => magic[running'] = "MAGIC1"]_timerVars

\* Fairness: the loop runs with interrupts off and callbacks return.
TimerFairSpec ==
    TimerSpec /\ WF_timerVars(timer_trigger)

\* timer_trigger ends, though callbacks change the list under its iterator.
TriggerEnds == triggering ~> ~triggering
=============================================================================
