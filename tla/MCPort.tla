------------------------------- MODULE MCPort -------------------------------
(***************************************************************************)
(* Instances of the ports for TLC: task_idle and a task that is created,   *)
(* ends and is created again, and two levels of interrupts.               *)
(***************************************************************************)
EXTENDS Atomic, Bitmask, TLC

CONSTANTS idle, a

MCTask == {idle, a}
=============================================================================
