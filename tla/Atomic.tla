------------------------------- MODULE Atomic -------------------------------
(***************************************************************************)
(* The os_atomic_ macros of the ports, on the processor of module Port: a  *)
(* word of two bytes that tasks and handlers share.  AVR moves one byte at *)
(* a time and MSP430 one word; where that is not enough the macros use a   *)
(* critical section.                                                       *)
(***************************************************************************)
EXTENDS Port

CONSTANTS BYTE,       \* the values of a byte (256)
          Arguments,  \* the values that are stored
          Expected    \* the values that os_atomic_cmp_exch expects

ASSUME ByteAssumption ==
    /\ BYTE \in Nat \ {0}
    /\ Arguments \cup Expected \subseteq 0 .. (BYTE * BYTE - 1)

VARIABLES word,  \* <<low byte, high byte>>
          op     \* the macro each program is in

atomicVars == <<word, op>>

Idling == [at |-> "none"]

Value(w) == w[1] + BYTE * w[2]
Bytes(n) == <<n % BYTE, n \div BYTE>>
WORD     == BYTE * BYTE

AtomicInit ==
    /\ PortInit
    /\ word = Bytes(0)
    /\ op = [o \in Program |-> Idling]

---------------------------------------------------------------------------
(* What the macros compute from the value they find: the value they leave  *)
(* and their result.                                                       *)

os_atomic_inc_load(old)         == [new |-> (old + 1) % WORD, res |-> (old + 1) % WORD]
os_atomic_dec_load(old)         == [new |-> (old + WORD - 1) % WORD,
                                    res |-> (old + WORD - 1) % WORD]
\* Without a result; the caller drops it here.
os_atomic_inc(old)              == os_atomic_inc_load(old)
os_atomic_dec(old)              == os_atomic_dec_load(old)
os_atomic_load(old)             == [new |-> old, res |-> old]
os_atomic_store(old, val)       == [new |-> val, res |-> val]
os_atomic_exch(old, val)        == [new |-> val, res |-> old]
\* On failure the caller gets the value that was found.
os_atomic_cmp_exch(old, exp, val) == [new |-> IF old = exp THEN val ELSE old, res |-> old]

Request ==
    [call : {"inc_load", "dec_load", "inc", "dec", "load"}]
      \cup [call : {"store", "exch"}, val : Arguments]
      \cup [call : {"cmp_exch"}, exp : Expected, val : Arguments]

Effect(req, old) ==
    CASE req.call = "inc_load" -> os_atomic_inc_load(old)
      [] req.call = "dec_load" -> os_atomic_dec_load(old)
      [] req.call = "inc"      -> os_atomic_inc(old)
      [] req.call = "dec"      -> os_atomic_dec(old)
      [] req.call = "load"     -> os_atomic_load(old)
      [] req.call = "store"    -> os_atomic_store(old, req.val)
      [] req.call = "exch"     -> os_atomic_exch(old, req.val)
      [] req.call = "cmp_exch" -> os_atomic_cmp_exch(old, req.exp, req.val)

---------------------------------------------------------------------------
(* How they do it.                                                         *)

\* The macros with a critical section: on MSP430 a load, a store and an
\* increment in memory are one instruction, on Linux all macros are builtins of
\* the compiler.
Guarded(req) ==
    \/ port = "avr"
    \/ port = "msp430" /\ req.call \notin {"load", "store", "inc", "dec"}

\* Whether the word is written once it is known to be old.
Writes(req, old) ==
    /\ req.call # "load"
    /\ req.call = "cmp_exch" => old = req.exp

To(state) == op' = [op EXCEPT ![Running] = state]

\* After the load: store the new value, if there is one.
Loaded(req, old) ==
    LET e == Effect(req, old)
    IN  To([at  |-> IF Writes(req, old) THEN "store" ELSE "done",
            val |-> e.new, res |-> e.res])

\* The kernel uses the macros outside of its critical sections; to bound the
\* model, only in one of the states of the registers.
MayCall == ~InCritical /\ cpu.reg[PC] = Datum(Running, "v0", PC)

Whole(req) ==
    /\ op[Running] = Idling
    /\ MayCall
    /\ ~Guarded(req)
    /\ word' = Bytes(Effect(req, Value(word)).new)
    /\ UNCHANGED <<portVars, op>>

\* Mutant: the critical section is missing.
Guard_missing == UNCHANGED <<cpu, cristate>>

Guard == arch_critical_enter

Begin(req) ==
    /\ op[Running] = Idling
    /\ MayCall
    /\ Guarded(req)
    /\ Guard
    /\ view' = [view EXCEPT ![Running].ie = cpu'.ie]
    /\ IF req.call = "store" THEN Loaded(req, 0) ELSE To([at |-> "load", req |-> req])
    /\ UNCHANGED <<port, stack, ctx, task_current, isr_nesting, created, word>>

\* AVR reads the low byte, then the high one.
Load ==
    /\ op[Running].at = "load"
    /\ IF port = "avr"
       THEN To([at |-> "load_high", req |-> op[Running].req, low |-> word[1]])
       ELSE Loaded(op[Running].req, Value(word))
    /\ UNCHANGED <<portVars, word>>

LoadHigh ==
    /\ op[Running].at = "load_high"
    /\ Loaded(op[Running].req, Value(<<op[Running].low, word[2]>>))
    /\ UNCHANGED <<portVars, word>>

Store ==
    /\ op[Running].at = "store"
    /\ LET new == Bytes(op[Running].val)
       IN  IF port = "avr"
           THEN /\ word' = <<new[1], word[2]>>
                /\ To([op[Running] EXCEPT !.at = "store_high"])
           ELSE /\ word' = new
                /\ To([op[Running] EXCEPT !.at = "done"])
    /\ UNCHANGED portVars

StoreHigh ==
    /\ op[Running].at = "store_high"
    /\ word' = <<word[1], Bytes(op[Running].val)[2]>>
    /\ To([op[Running] EXCEPT !.at = "done"])
    /\ UNCHANGED portVars

\* The end of the critical section; the result is in a register.
End ==
    /\ op[Running].at = "done"
    /\ IF InCritical THEN arch_critical_exit ELSE UNCHANGED <<cpu, cristate>>
    /\ view' = [view EXCEPT ![Running].ie = cpu'.ie]
    /\ To(Idling)
    /\ UNCHANGED <<port, stack, ctx, task_current, isr_nesting, created, word>>

AtomicNext ==
    \/ arch_contextstore_i /\ UNCHANGED atomicVars
    \/ op[Running] = Idling /\ ProgramStep /\ UNCHANGED atomicVars
    \/ \E req \in Request : Whole(req) \/ Begin(req)
    \/ Load \/ LoadHigh \/ Store \/ StoreHigh \/ End

AtomicSpec == AtomicInit /\ [][AtomicNext]_<<portVars, atomicVars>>

---------------------------------------------------------------------------
(* The macros implement the abstract word.  A store takes effect with its  *)
(* first byte, before it is complete: the old value can not be seen after  *)
(* that, nor the half of the new one before the second byte is there.      *)

Half == {o \in Program : op[o].at = "store_high"}

Abstract == INSTANCE AbstractAtomic WITH
    value <- IF Half = {} THEN Value(word) ELSE op[CHOOSE o \in Half : TRUE].val,
    ret   <- [o \in Program |-> IF op[o].at \in {"store_high", "done"}
                                THEN op[o].res ELSE WORD],
    None  <- WORD

\* No update of a shared word is lost and nobody reads one that is half
\* written, though an interrupt may come between any two instructions.
ImplementsAtomic == Abstract!ASpec
=============================================================================
