-------------------------------- MODULE MCSem --------------------------------
(***************************************************************************)
(* An instance of the semaphores for TLC: task_idle and two user tasks of  *)
(* equal or different priority around one semaphore.                       *)
(***************************************************************************)
EXTENDS Sem

CONSTANTS idle, a, b, rq, s1

MCTask   == {idle, a, b}
MCSems   == {s1}
MCQueue  == MCTask \cup MCSems \cup {rq}
MCPrio   == (a :> {1}) @@ (b :> {1, 2})
=============================================================================
