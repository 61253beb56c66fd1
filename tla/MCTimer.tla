------------------------------- MODULE MCTimer -------------------------------
(***************************************************************************)
(* Instances of the timers for TLC: three timers, a 3 bit tick counter and *)
(* at most two unsynchronised ticks; the timeouts and reloads have the     *)
(* smallest and the largest allowed value among them.                      *)
(***************************************************************************)
EXTENDS Timer

CONSTANTS x, y, z

MCTimers   == {x, y, z}
MCTimeouts == {1, 2, OS_TIMER_TICKSREM_MAX - 1}
MCReloads  == {0, 2, TICKS_MOD - 1}

---------------------------------------------------------------------------
(* The lists of list.h, on which the timers are kept, for short lists:     *)
(* built with list_append and taken apart with list_unlink they are the    *)
(* sequences that the models use.                                          *)
Pointers == INSTANCE List WITH Node <- 1 .. 4, NULL <- 0

ListOf(s) ==
    FoldLeft(LAMBDA m, e : Pointers!list_append(m, 1, e),
             [next |-> [n \in 1 .. 4 |-> n], prev |-> [n \in 1 .. 4 |-> n]], s)

ASSUME ListsAreSequences ==
    \A s \in UNION {[1 .. n -> 2 .. 4] : n \in 0 .. 3} : IsInjective(s) =>
        /\ Pointers!Linked(ListOf(s), 1, s)
        /\ \A i \in 1 .. Len(s) :
              Pointers!Linked(Pointers!list_unlink(ListOf(s), s[i]), 1, RemoveAt(s, i))
=============================================================================
