------------------------------ MODULE Bitmask ------------------------------
(***************************************************************************)
(* The bit fields of the ports, arch_bitmask_t, an unsigned integer of 8   *)
(* bits.  The task queues (TaskQueue) have sets of priorities instead.     *)
(***************************************************************************)
EXTENDS Port, FiniteSetsExt

ARCH_BITFIELD_MAX == 8

Bit(m, b)  == (m \div 2^b) % 2 = 1
Bits(m)    == {b \in 0 .. (ARCH_BITFIELD_MAX - 1) : Bit(m, b)}
Masks      == 0 .. (2^ARCH_BITFIELD_MAX - 1)

arch_bitmask_set(m, b)   == IF Bit(m, b) THEN m ELSE m + 2^b

\* Mutant: the bit is toggled.
arch_bitmask_clear_toggle(m, b) == IF Bit(m, b) THEN m - 2^b ELSE m + 2^b

arch_bitmask_clear(m, b) == IF Bit(m, b) THEN m - 2^b ELSE m

\* The table of AVR and MSP430, by the runs of equal entries in it.
log2lkup ==
    LET run(n, x) == [i \in 1 .. n |-> x]
    IN  <<0, 1>> \o run(2, 2) \o run(4, 3) \o run(8, 4) \o run(16, 5)
          \o run(32, 6) \o run(64, 7) \o run(128, 8)

fls_table(m) == log2lkup[m + 1]

\* Linux: __builtin_clz counts the zeros above the highest bit of an int.
clz(m) == Cardinality({b \in 0 .. 31 : \A c \in Bits(m) : b > c})

fls_clz(m) == IF m = 0 THEN 0 ELSE 32 - clz(m)

\* The operations do to a bit field what they should do to a set.
ChangesOneBit ==
    \A m \in Masks, b \in 0 .. (ARCH_BITFIELD_MAX - 1) :
        /\ Bits(arch_bitmask_set(m, b)) = Bits(m) \cup {b}
        /\ Bits(arch_bitmask_clear(m, b)) = Bits(m) \ {b}

Top(m) == IF Bits(m) = {} THEN 0 ELSE 1 + Max(Bits(m))

TableFindsTop == \A m \in Masks : fls_table(m) = Top(m)
ClzFindsTop   == \A m \in Masks : fls_clz(m) = Top(m)

\* The bit fields are the sets that the task queues have in the models: setting
\* and clearing a bit do the same to both, for every value and bit, and on
\* every port the top priority found by arch_bitmask_fls is the largest member,
\* counted from 1.
BitmaskIsASet == ChangesOneBit /\ IF port = "linux" THEN ClzFindsTop ELSE TableFindsTop
=============================================================================
