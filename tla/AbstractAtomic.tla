-------------------------- MODULE AbstractAtomic ---------------------------
(***************************************************************************)
(* What the os_atomic_ macros promise: a word that several programs share, *)
(* each operation on it one step, with the result of that step.            *)
(***************************************************************************)
CONSTANTS Program,       \* who calls the macros
          Request,       \* the calls
          Effect(_, _),  \* [new, res] for a request and the value of the word
          None           \* no result

VARIABLES value, ret

AInit == value = 0 /\ ret = [o \in Program |-> None]

\* The operation happens; its result waits for the caller.
Operate(o, req) ==
    /\ ret[o] = None
    /\ value' = Effect(req, value).new
    /\ ret' = [ret EXCEPT ![o] = Effect(req, value).res]

\* The same, with the result in the hands of the caller at once.
OperateAndReturn(req) ==
    /\ value' = Effect(req, value).new
    /\ UNCHANGED ret

Return(o) ==
    /\ ret[o] # None
    /\ ret' = [ret EXCEPT ![o] = None]
    /\ UNCHANGED value

ANext ==
    \/ \E o \in Program : Return(o) \/ \E req \in Request : Operate(o, req)
    \/ \E req \in Request : OperateAndReturn(req)

ASpec == AInit /\ [][ANext]_<<value, ret>>
=============================================================================
