------------------------------- MODULE MCSched -------------------------------
(***************************************************************************)
(* Instances of the scheduler for TLC: task_idle and three user tasks; two *)
(* of them may share a priority, any of them may preempt another.          *)
(***************************************************************************)
EXTENDS Sched

CONSTANTS idle, a, b, c, rq

MCTask  == {idle, a, b, c}
MCQueue == MCTask \cup {rq}
MCPrio  == (a :> {1, 2}) @@ (b :> {1, 2}) @@ (c :> {2})
=============================================================================
