-------------------------------- MODULE MCMtx --------------------------------
(***************************************************************************)
(* Instances of the mutexes for TLC: task_idle, three user tasks, the top  *)
(* one above a medium task or above two equal ones, and two mutexes, which *)
(* is enough for a blocking chain of three tasks.                          *)
(***************************************************************************)
EXTENDS Mtx

CONSTANTS idle, a, b, c, rq, m1, m2

MCTask   == {idle, a, b, c}
MCMutex  == {m1, m2}
MCQueue  == MCTask \cup MCMutex \cup {rq}
Steps    == (a :> {1}) @@ (b :> {2}) @@ (c :> {3})
Mixed    == (a :> {1}) @@ (b :> {1, 2}) @@ (c :> {3})
InOrder  == (m1 :> 1) @@ (m2 :> 2)
=============================================================================
