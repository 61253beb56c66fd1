----------------------------- MODULE MCWaitQueue -----------------------------
(***************************************************************************)
(* Instances of the wait queues for TLC: task_idle and two user tasks of   *)
(* different priority; one or two wait queues.                             *)
(***************************************************************************)
EXTENDS WaitQueue

CONSTANTS idle, a, b, rq, q1, q2

MCTask    == {idle, a, b}
MCQueue   == MCTask \cup {rq, q1, q2}
MCPrio    == (a :> {1}) @@ (b :> {2})
=============================================================================
