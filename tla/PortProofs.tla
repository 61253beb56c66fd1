----------------------------- MODULE PortProofs -----------------------------
(***************************************************************************)
(* The context switch of the three ports, their interrupts, critical       *)
(* sections and atomic macros, for any tasks, any depth of nested          *)
(* interrupts and any word that the macros share.                          *)
(*                                                                         *)
(* ContextKept compares the registers of the running program with what it  *)
(* left in them, so it says nothing yet of the programs that do not run.   *)
(* ContextInv adds where each of them is saved and that the frames found   *)
(* there are those that the port will pop: the context of a switched-out   *)
(* task on its own stack (SavedTasks), the context of the interrupted task *)
(* and of each interrupted handler one above the other on the stack of     *)
(* that task, the frame of level k at Depth(port, k) (Handlers).           *)
(* FlagInv and Sections say the same of the interrupt flag and of the      *)
(* critical sections, MacroInv that a macro which is under way is alone    *)
(* and has the interrupts off, with what it has read of the shared bytes.  *)
(***************************************************************************)
EXTENDS Atomic, SequenceTheorems, TLAPS

---------------------------------------------------------------------------
(* Sequences.                                                              *)

\* s is a sequence of n cells, whatever these are.
Row(s, n) == s = [i \in 1 .. n |-> s[i]]

LEMMA RowIsSeq ==
    ASSUME NEW s, NEW n \in Nat, Row(s, n)
    PROVE  /\ s \in Seq({s[i] : i \in 1 .. n})
           /\ Len(s) = n
<1> DEFINE S == {s[i] : i \in 1 .. n}
           f == [i \in 1 .. n |-> s[i]]
<1>1. f \in [1 .. n -> S]
  OBVIOUS
<1>2. s = f
  BY DEF Row
<1>3. s \in [1 .. n -> S]
  BY <1>1, <1>2
<1> HIDE DEF S, f
<1>4. s \in Seq(S) /\ Len(s) = n
  BY <1>3
<1> QED BY <1>4 DEF S

\* What the concatenation of two sequences consists of.
Cat(s, t) == s \o t

Halves(r, m, s, t, k) == \A i \in 1 .. k : r[i] = IF i <= m THEN s[i] ELSE t[i - m]

LEMMA Joined ==
    ASSUME NEW m \in Nat, NEW s, Row(s, m), NEW n \in Nat, NEW t, Row(t, n),
           NEW k \in Nat, k = m + n
    PROVE  Row(Cat(s, t), k) /\ Halves(Cat(s, t), m, s, t, k)
<1> DEFINE S == {s[i] : i \in 1 .. m} \cup {t[i] : i \in 1 .. n}
<1>1. s \in Seq({s[i] : i \in 1 .. m}) /\ t \in Seq({t[i] : i \in 1 .. n}) /\ Len(s) = m /\ Len(t) = n
  BY RowIsSeq
<1>2. s \in Seq(S) /\ t \in Seq(S)
  BY <1>1
<1> HIDE DEF S
<1>3. /\ Len(s \o t) = Len(s) + Len(t)
      /\ \A i \in 1 .. Len(s) + Len(t) : (s \o t)[i] = IF i <= Len(s) THEN s[i] ELSE t[i - Len(s)]
  BY <1>2, ConcatProperties
<1>4. s \o t \in Seq(S)
  BY <1>2, ConcatProperties
<1>5. s \o t = [i \in 1 .. Len(s \o t) |-> (s \o t)[i]]
  <2> DEFINE r == s \o t
  <2>1. r \in Seq(S)
    BY <1>4
  <2> HIDE DEF r
  <2>2. r = [i \in 1 .. Len(r) |-> r[i]]
    BY <2>1
  <2> QED BY <2>2 DEF r
<1> DEFINE r == Cat(s, t)
<1>6. /\ Len(r) = Len(s) + Len(t)
      /\ \A i \in 1 .. Len(s) + Len(t) : r[i] = IF i <= Len(s) THEN s[i] ELSE t[i - Len(s)]
      /\ r = [i \in 1 .. Len(r) |-> r[i]]
  BY <1>3, <1>5 DEF Cat
<1> HIDE DEF r
<1>7. \A i \in 1 .. k : r[i] = IF i <= m THEN s[i] ELSE t[i - m]
  BY <1>1, <1>6
<1>8. Row(r, k)
  BY <1>1, <1>6 DEF Row
<1> QED BY <1>7, <1>8 DEF r, Halves

\* The part of a stack below position n.
LEMMA Below ==
    ASSUME NEW s, NEW n \in Nat
    PROVE  /\ Row(SubSeq(s, 1, n), n)
           /\ \A i \in 1 .. n : SubSeq(s, 1, n)[i] = s[i]
<1> DEFINE S == {s[i] : i \in 1 .. n}
           a == SubSeq(s, 1, n)
<1>1. /\ a \in Seq(S) /\ Len(a) = IF 1 <= n THEN n - 1 + 1 ELSE 0
      /\ \A i \in 1 .. n - 1 + 1 : a[i] = s[1 + i - 1]
  BY SubSeqProperties
<1>2. a \in Seq(S) /\ Len(a) = n /\ \A i \in 1 .. n : a[i] = s[i]
  BY <1>1
<1> HIDE DEF a, S
<1>3. a = [i \in 1 .. Len(a) |-> a[i]]
  BY <1>2
<1>4. Row(a, n) /\ \A i \in 1 .. n : a[i] = s[i]
  BY <1>2, <1>3 DEF Row
<1> QED BY <1>4 DEF a

\* Cells pushed at position n of a stack leave what lies below.
LEMMA PushedCells ==
    ASSUME NEW s, NEW n \in Nat, NEW m \in Nat, NEW f, Row(f, m)
    PROVE  LET r == SubSeq(s, 1, n) \o f
           IN  Row(r, n + m) /\ Halves(r, n, s, f, n + m)
<1> DEFINE a == SubSeq(s, 1, n)
<1>1. Row(a, n) /\ \A i \in 1 .. n : a[i] = s[i]
  BY Below
<1> HIDE DEF a
<1> DEFINE r == Cat(a, f)
<1>2. Row(r, n + m) /\ Halves(r, n, a, f, n + m)
  BY <1>1, Joined
<1>4. SubSeq(s, 1, n) \o f = r
  BY DEF a, Cat
<1> HIDE DEF r
<1>3. Halves(r, n, s, f, n + m)
  BY <1>1, <1>2 DEF Halves
<1> QED BY <1>2, <1>3, <1>4

\* The places of an order in which no register comes twice.
LEMMA AvrPlacesOf ==
    ASSUME NEW n \in Nat, NEW o, Row(o, n), NEW R, NEW P \in [R -> 1 .. n],
           \A r \in R : o[P[r]] = r,
           \A i \in 1 .. n : o[i] \in R /\ P[o[i]] = i
    PROVE  Avr!Places(o) = P
<1>0. DOMAIN o = 1 .. n /\ Len(o) = n
  BY RowIsSeq DEF Row
<1>1. Avr!Range(o) = R
  BY <1>0 DEF Avr!Range
<1>2. ASSUME NEW r \in R PROVE Avr!SelectInSeq(o, LAMBDA x : x = r) = P[r]
  <2>1. {i \in 1 .. n : o[i] = r} = {P[r]}
    OBVIOUS
  <2>2. P[r] \in Nat
    OBVIOUS
  <2> QED BY <1>0, <2>1, <2>2 DEF Avr!SelectInSeq, Avr!Min
<1> QED BY <1>1, <1>2 DEF Avr!Places

LEMMA Msp430PlacesOf ==
    ASSUME NEW n \in Nat, NEW o, Row(o, n), NEW R, NEW P \in [R -> 1 .. n],
           \A r \in R : o[P[r]] = r,
           \A i \in 1 .. n : o[i] \in R /\ P[o[i]] = i
    PROVE  Msp430!Places(o) = P
<1>0. DOMAIN o = 1 .. n /\ Len(o) = n
  BY RowIsSeq DEF Row
<1>1. Msp430!Range(o) = R
  BY <1>0 DEF Msp430!Range
<1>2. ASSUME NEW r \in R PROVE Msp430!SelectInSeq(o, LAMBDA x : x = r) = P[r]
  <2>1. {i \in 1 .. n : o[i] = r} = {P[r]}
    OBVIOUS
  <2>2. P[r] \in Nat
    OBVIOUS
  <2> QED BY <1>0, <2>1, <2>2 DEF Msp430!SelectInSeq, Msp430!Min
<1> QED BY <1>1, <1>2 DEF Msp430!Places

---------------------------------------------------------------------------
(* Frames.                                                                 *)

\* Where a register lies in a frame of 35 cells, counted from the top.
AvrPlace(r) ==
    CASE r = 31 -> 1 [] r = 30 -> 2
      [] r \in 17 .. 27 -> 30 - r
      [] r \in 0 .. 15 -> 29 - r
      [] r = 29 -> 30 [] r = 28 -> 31 [] r = 32 -> 32 [] r = 91 -> 33
      [] r = 16 -> 34 [] r = 90 -> 35

\* The same in a frame of MSP430, which has 14.
MspPlace(r) ==
    CASE r \in 4 .. 15 -> r - 3 [] r = 91 -> 13 [] r = 90 -> 14

---------------------------------------------------------------------------
(* Saved contexts.                                                         *)

\* The cells of a frame.
Size(p) == CASE p = "avr" -> 35 [] p = "msp430" -> 14 [] p = "linux" -> 1

\* The cells below the k-th handler, when the task has none.
Depth(p, k) == k * Size(p)

Place(p, r) == IF p = "avr" THEN AvrPlace(r) ELSE MspPlace(r)

\* The processor that is saved in the top frame of the stack s.
Image(p, s, sp) ==
    IF p = "linux" THEN s[sp.at]
    ELSE [reg |-> [r \in RegistersOf(p) |->
                      IF r = STATUS THEN s[sp.at + 1 - Place(p, r)][1]
                      ELSE s[sp.at + 1 - Place(p, r)]],
          ie  |-> s[sp.at + 1 - Place(p, STATUS)][2],
          sp  |-> Sp(sp.of, sp.at - Size(p))]

\* The processor that is saved in the context of t.
SavedAs(p, st, c, t) == IF p = "linux" THEN c[t] ELSE Image(p, st[c[t].of], c[t])

IsView(v) == v = [reg |-> v.reg, ie |-> v.ie, sp |-> v.sp]

IsCpu(p, c) ==
    /\ IsView(c)
    /\ c.reg = [r \in RegistersOf(p) |-> c.reg[r]]
    /\ c.ie \in BOOLEAN

---------------------------------------------------------------------------
(* The inductive invariant of ContextKept and SavedContextIntact.          *)

PortTypeOK ==
    /\ port \in Ports
    /\ isr_nesting \in 0 .. MaxNesting
    /\ created \subseteq Task
    /\ task_current \in created
    /\ stack = [t \in Task |-> stack[t]]
    /\ ctx = [t \in Task |-> ctx[t]]
    /\ view = [o \in Program |-> view[o]]
    /\ cristate \in [Program -> Seq(BOOLEAN)]
    /\ IsCpu(port, cpu)
    /\ \A o \in Program : IsView(view[o])

\* Tasks have nothing on their stack but their own data, which is not modelled.
TaskViews == \A t \in created : view[t].sp = Sp(t, 0) /\ PC \in DOMAIN view[t].reg

\* A task that does not run has its frame at the bottom of its stack.
SavedOK(p, st, c, v, t) ==
    /\ Finds(v, SavedAs(p, st, c, t))
    /\ IsCpu(p, SavedAs(p, st, c, t))
    /\ p # "linux" => c[t] = Sp(t, Size(p))

SavedTasks ==
    \A t \in created : (isr_nesting > 0 \/ t # task_current) => SavedOK(port, stack, ctx, view[t], t)

\* The handlers are on the stack of the task that was interrupted, each above
\* the frame of the one it interrupted.
NestedOK(p, s, q, v, k) ==
    /\ Finds(v, Image(p, s, Sp(q, Depth(p, k + 1))))
    /\ IsCpu(p, Image(p, s, Sp(q, Depth(p, k + 1))))
    /\ Image(p, s, Sp(q, Depth(p, k + 1))).ie = TRUE

Handlers ==
    isr_nesting > 0 =>
        /\ cpu.sp.of \in created
        /\ Row(stack[cpu.sp.of], Depth(port, isr_nesting))
        /\ \A k \in 1 .. isr_nesting : view[k].sp = Sp(cpu.sp.of, Depth(port, k))
        /\ \A k \in 1 .. (isr_nesting - 1) : NestedOK(port, stack[cpu.sp.of], cpu.sp.of, view[k], k)

ContextInv == PortTypeOK /\ TaskViews /\ SavedTasks /\ Handlers /\ ContextKept

---------------------------------------------------------------------------
(* The interrupt flag.                                                     *)

\* What the saved flag of a task has to do with the one the task left.
SavedFlag(p, c, v, cs, t) ==
    CASE p = "avr"    -> c.ie = v.ie
      [] p = "msp430" -> cs # <<>> \/ (c.ie = v.ie /\ v.ie = TRUE)
      [] p = "linux"  -> c.ie = v.ie \/ v.reg[PC] = task_start(t)

SavedFlags ==
    \A t \in created : (isr_nesting > 0 \/ t # task_current) =>
        SavedFlag(port, SavedAs(port, stack, ctx, t), view[t], cristate[t], t)

\* A handler that is interrupted has enabled the interrupts.
HandlerFlags ==
    /\ isr_nesting > 0 => cpu.ie = view[isr_nesting].ie \/ (port = "linux" /\ cpu.ie = FALSE)
    /\ \A k \in 1 .. (isr_nesting - 1) : view[k].ie = TRUE

TaskFlag ==
    isr_nesting = 0 => \/ cpu.ie = view[task_current].ie
                       \/ port = "linux" /\ ~Started
                       \/ port = "msp430" /\ InCritical

FlagInv == SavedFlags /\ HandlerFlags /\ TaskFlag

\* Critical sections: what they will restore, but for the outermost one, is
\* that the interrupts are off.
SectionOK(cs, v) ==
    cs # <<>> => v.ie = FALSE /\ \A i \in 2 .. Len(cs) : cs[i] = FALSE

Sections ==
    /\ port # "msp430" => \A o \in Program : SectionOK(cristate[o], view[o])
    /\ \A t \in created : view[t].reg[PC] = task_start(t) => cristate[t] = <<>>
    /\ \A t \in Task \ created : cristate[t] = <<>>
    /\ \A k \in 1 .. MaxNesting : k > isr_nesting => cristate[k] = <<>>

---------------------------------------------------------------------------
(* The frames of AVR.                                                      *)

LEMMA AvrPopOrder ==
    /\ Row(Avr!PopOrder, 35)
    /\ \A i \in 1 .. 35 : Avr!PopOrder[i] \in Avr!Registers /\ AvrPlace(Avr!PopOrder[i]) = i
    /\ \A r \in Avr!Registers : AvrPlace(r) \in 1 .. 35 /\ Avr!PopOrder[AvrPlace(r)] = r
<1> DEFINE a == <<31, 30>>
           b == Avr!Down(27, 17)
           c == Avr!Down(15, 0)
           d == <<29, 28, 32, 91, 16, 90>>
<1>1. Row(a, 2) /\ a[1] = 31 /\ a[2] = 30
  BY DEF Row
<1>2. Row(b, 11) /\ \A i \in 1 .. 11 : b[i] = 28 - i
  BY DEF Row, Avr!Down, Avr!Up, Avr!Reverse
<1>3. Row(c, 16) /\ \A i \in 1 .. 16 : c[i] = 16 - i
  BY DEF Row, Avr!Down, Avr!Up, Avr!Reverse
<1>4. /\ Row(d, 6)
      /\ d[1] = 29 /\ d[2] = 28 /\ d[3] = 32 /\ d[4] = 91 /\ d[5] = 16 /\ d[6] = 90
  BY DEF Row
<1> DEFINE ab == Cat(a, b)
           abc == Cat(ab, c)
           o == Cat(abc, d)
<1>5. Avr!PopOrder = o
  BY DEF Cat, Avr!PopOrder, Avr!RAMPZ, Avr!STATUS, Avr!PC
<1> HIDE DEF a, b, c, d
<1>6. Row(ab, 13) /\ Halves(ab, 2, a, b, 13)
  BY <1>1, <1>2, Joined
<1> HIDE DEF ab
<1>7. Row(abc, 29) /\ Halves(abc, 13, ab, c, 29)
  BY <1>3, <1>6, Joined
<1> HIDE DEF abc
<1>8. Row(o, 35) /\ Halves(o, 29, abc, d, 35)
  BY <1>4, <1>7, Joined
<1> HIDE DEF o
<1>9. /\ o[1] = 31 /\ o[2] = 30
      /\ \A i \in 3 .. 13 : o[i] = 30 - i
      /\ \A i \in 14 .. 29 : o[i] = 29 - i
      /\ o[30] = 29 /\ o[31] = 28 /\ o[32] = 32 /\ o[33] = 91 /\ o[34] = 16 /\ o[35] = 90
  <2>1. o[1] = 31 /\ o[2] = 30
    BY <1>1, <1>6, <1>7, <1>8 DEF Halves
  <2>2. \A i \in 3 .. 13 : o[i] = 30 - i
    BY <1>2, <1>6, <1>7, <1>8 DEF Halves
  <2>3. \A i \in 14 .. 29 : o[i] = 29 - i
    BY <1>3, <1>7, <1>8 DEF Halves
  <2>4. o[30] = 29 /\ o[31] = 28 /\ o[32] = 32 /\ o[33] = 91 /\ o[34] = 16 /\ o[35] = 90
    BY <1>4, <1>8 DEF Halves
  <2> QED BY <2>1, <2>2, <2>3, <2>4
<1>10. \A i \in 1 .. 35 : o[i] \in Avr!Registers /\ AvrPlace(o[i]) = i
  BY <1>9 DEF AvrPlace, Avr!Registers, Avr!RAMPZ, Avr!STATUS, Avr!PC
<1>11. \A r \in Avr!Registers : AvrPlace(r) \in 1 .. 35 /\ o[AvrPlace(r)] = r
  BY <1>9 DEF AvrPlace, Avr!Registers, Avr!RAMPZ, Avr!STATUS, Avr!PC
<1> QED BY <1>5, <1>8, <1>10, <1>11

LEMMA AvrPlaces == Avr!Places(Avr!PopOrder) = [r \in Avr!Registers |-> AvrPlace(r)]
<1> DEFINE o == Avr!PopOrder
           P == [r \in Avr!Registers |-> AvrPlace(r)]
<1>1. Row(o, 35)
  BY AvrPopOrder
<1>2. P \in [Avr!Registers -> 1 .. 35]
  BY AvrPopOrder
<1>3. \A r \in Avr!Registers : o[P[r]] = r
  BY AvrPopOrder
<1>4. \A i \in 1 .. 35 : o[i] \in Avr!Registers /\ P[o[i]] = i
  BY AvrPopOrder
<1> HIDE DEF o, P
<1>5. Avr!Places(o) = P
  BY <1>1, <1>2, <1>3, <1>4, AvrPlacesOf
<1> QED BY <1>5 DEF o, P

LEMMA AvrPopped ==
    ASSUME NEW sp, port = "avr", IsCpu(port, cpu)
    PROVE  Avr!Popped(sp) = Image(port, stack[sp.of], sp)
<1>1. DOMAIN cpu.reg = Avr!Registers
  BY DEF IsCpu, RegistersOf
<1>2. Len(Avr!PopOrder) = 35
  BY AvrPopOrder, RowIsSeq
<1> DEFINE s == stack[sp.of]
           reg == [r \in Avr!Registers |-> s[sp.at + 1 - AvrPlace(r)]]
<1>3. Avr!PopInto(cpu.reg, sp, Avr!Places(Avr!PopOrder)) = reg
  BY <1>1, AvrPlaces DEF Avr!PopInto
<1>4. 91 \in Avr!Registers
  BY DEF Avr!Registers, Avr!STATUS
<1>5. Avr!Popped(sp) = [reg |-> [reg EXCEPT ![91] = @[1]], ie |-> reg[91][2],
                        sp |-> [of |-> sp.of, at |-> sp.at - 35]]
  BY <1>2, <1>3 DEF Avr!Popped, Avr!STATUS, Avr!Sp
<1>6. [reg EXCEPT ![91] = @[1]] =
        [r \in Avr!Registers |-> IF r = 91 THEN s[sp.at + 1 - AvrPlace(r)][1]
                                 ELSE s[sp.at + 1 - AvrPlace(r)]]
  BY <1>4
<1>7. reg[91][2] = s[sp.at + 1 - AvrPlace(91)][2]
  BY <1>4
<1> HIDE DEF s
<1>8. \A r : Place(port, r) = AvrPlace(r)
  BY DEF Place
<1>9. Size(port) = 35 /\ RegistersOf(port) = Avr!Registers /\ port # "linux"
  BY DEF Size, RegistersOf
<1>10. Image(port, s, sp) =
         [reg |-> [r \in Avr!Registers |-> IF r = 91 THEN s[sp.at + 1 - AvrPlace(r)][1]
                                    ELSE s[sp.at + 1 - AvrPlace(r)]],
          ie |-> s[sp.at + 1 - AvrPlace(91)][2],
          sp |-> [of |-> sp.of, at |-> sp.at - 35]]
  BY <1>8, <1>9 DEF Image, STATUS, Sp
<1> QED BY <1>5, <1>6, <1>7, <1>10 DEF s

---------------------------------------------------------------------------
(* The frames of MSP430.                                                   *)

LEMMA MspPopOrder ==
    /\ Row(Msp430!PopOrder, 14)
    /\ \A i \in 1 .. 14 : Msp430!PopOrder[i] \in Msp430!Registers /\ MspPlace(Msp430!PopOrder[i]) = i
    /\ \A r \in Msp430!Registers : MspPlace(r) \in 1 .. 14 /\ Msp430!PopOrder[MspPlace(r)] = r
<1> DEFINE a == Msp430!Up(4, 15)
           b == <<91, 90>>
           o == Cat(a, b)
<1>1. Row(a, 12) /\ \A i \in 1 .. 12 : a[i] = i + 3
  BY DEF Row, Msp430!Up
<1>2. Row(b, 2) /\ b[1] = 91 /\ b[2] = 90
  BY DEF Row
<1>3. Msp430!PopOrder = o
  BY DEF Cat, Msp430!PopOrder, Msp430!STATUS, Msp430!PC
<1> HIDE DEF a, b
<1>4. Row(o, 14) /\ Halves(o, 12, a, b, 14)
  BY <1>1, <1>2, Joined
<1> HIDE DEF o
<1>5. (\A i \in 1 .. 12 : o[i] = i + 3) /\ o[13] = 91 /\ o[14] = 90
  BY <1>1, <1>2, <1>4 DEF Halves
<1>6. \A i \in 1 .. 14 : o[i] \in Msp430!Registers /\ MspPlace(o[i]) = i
  BY <1>5 DEF MspPlace, Msp430!Registers, Msp430!STATUS, Msp430!PC
<1>7. \A r \in Msp430!Registers : MspPlace(r) \in 1 .. 14 /\ o[MspPlace(r)] = r
  BY <1>5 DEF MspPlace, Msp430!Registers, Msp430!STATUS, Msp430!PC
<1> QED BY <1>3, <1>4, <1>6, <1>7

LEMMA MspPlaces == Msp430!Places(Msp430!PopOrder) = [r \in Msp430!Registers |-> MspPlace(r)]
<1> DEFINE o == Msp430!PopOrder
           P == [r \in Msp430!Registers |-> MspPlace(r)]
<1>1. Row(o, 14)
  BY MspPopOrder
<1>2. P \in [Msp430!Registers -> 1 .. 14]
  BY MspPopOrder
<1>3. \A r \in Msp430!Registers : o[P[r]] = r
  BY MspPopOrder
<1>4. \A i \in 1 .. 14 : o[i] \in Msp430!Registers /\ P[o[i]] = i
  BY MspPopOrder
<1> HIDE DEF o, P
<1>5. Msp430!Places(o) = P
  BY <1>1, <1>2, <1>3, <1>4, Msp430PlacesOf
<1> QED BY <1>5 DEF o, P

LEMMA MspPopped ==
    ASSUME NEW sp, port = "msp430", IsCpu(port, cpu)
    PROVE  Msp430!Popped(sp) = Image(port, stack[sp.of], sp)
<1>1. DOMAIN cpu.reg = Msp430!Registers
  BY DEF IsCpu, RegistersOf
<1> DEFINE s == stack[sp.of]
           reg == [r \in Msp430!Registers |-> s[sp.at + 1 - MspPlace(r)]]
<1>3. Msp430!PopInto(cpu.reg, sp, Msp430!Places(Msp430!PopOrder)) = reg
  BY <1>1, MspPlaces DEF Msp430!PopInto
<1>4. 91 \in Msp430!Registers
  BY DEF Msp430!Registers, Msp430!STATUS
<1>5. Msp430!Popped(sp) = [reg |-> [reg EXCEPT ![91] = @[1]], ie |-> reg[91][2],
                           sp |-> [of |-> sp.of, at |-> sp.at - 14]]
  BY <1>3 DEF Msp430!Popped, Msp430!STATUS, Msp430!Sp
<1>6. [reg EXCEPT ![91] = @[1]] =
        [r \in Msp430!Registers |-> IF r = 91 THEN s[sp.at + 1 - MspPlace(r)][1]
                                    ELSE s[sp.at + 1 - MspPlace(r)]]
  BY <1>4
<1>7. reg[91][2] = s[sp.at + 1 - MspPlace(91)][2]
  BY <1>4
<1> HIDE DEF s
<1>8. \A r : Place(port, r) = MspPlace(r)
  BY DEF Place
<1>9. Size(port) = 14 /\ RegistersOf(port) = Msp430!Registers /\ port # "linux"
  BY DEF Size, RegistersOf
<1>10. Image(port, s, sp) =
         [reg |-> [r \in Msp430!Registers |-> IF r = 91 THEN s[sp.at + 1 - MspPlace(r)][1]
                                    ELSE s[sp.at + 1 - MspPlace(r)]],
          ie |-> s[sp.at + 1 - MspPlace(91)][2],
          sp |-> [of |-> sp.of, at |-> sp.at - 14]]
  BY <1>8, <1>9 DEF Image, STATUS, Sp
<1> QED BY <1>5, <1>6, <1>7, <1>10 DEF s

---------------------------------------------------------------------------
(* Frames that are pushed.                                                 *)

\* Every register has its place in a frame.
LEMMA PlaceInFrame ==
    ASSUME NEW p \in {"avr", "msp430"}, NEW r \in RegistersOf(p)
    PROVE  Place(p, r) \in 1 .. Size(p)
<1>1. CASE p = "avr"
  BY <1>1, AvrPopOrder DEF Place, Size, RegistersOf
<1>2. CASE p = "msp430"
  BY <1>2, MspPopOrder DEF Place, Size, RegistersOf
<1> QED BY <1>1, <1>2

\* What a frame f that is pushed at position n restores.
Restores(p, f, q, n) ==
    [reg |-> [r \in RegistersOf(p) |->
                 IF r = STATUS THEN f[(Size(p) + 1) - Place(p, r)][1]
                 ELSE f[(Size(p) + 1) - Place(p, r)]],
     ie  |-> f[(Size(p) + 1) - Place(p, STATUS)][2],
     sp  |-> Sp(q, n)]

LEMMA PushedImage ==
    ASSUME NEW p \in {"avr", "msp430"}, NEW x, NEW s, NEW f, NEW q, NEW n \in Nat,
           NEW k \in Nat, k = n + Size(p), Halves(x, n, s, f, k)
    PROVE  Image(p, x, Sp(q, k)) = Restores(p, f, q, n)
<1>1. STATUS \in RegistersOf(p)
  BY DEF RegistersOf, Avr!Registers, Msp430!Registers, STATUS, Avr!STATUS, Msp430!STATUS
<1>2. Size(p) \in Nat
  BY DEF Size
<1>3. ASSUME NEW r \in RegistersOf(p)
      PROVE  x[k + 1 - Place(p, r)] = f[(Size(p) + 1) - Place(p, r)]
  <2>1. Place(p, r) \in 1 .. Size(p)
    BY PlaceInFrame
  <2> DEFINE i == k + 1 - Place(p, r)
  <2>2. i \in 1 .. k /\ ~(i <= n) /\ i - n = (Size(p) + 1) - Place(p, r)
    BY <1>2, <2>1
  <2> HIDE DEF i
  <2>3. x[i] = f[i - n]
    BY <2>2 DEF Halves
  <2> QED BY <2>2, <2>3 DEF i
<1>4. k - Size(p) = n
  BY <1>2
<1> QED BY <1>1, <1>3, <1>4 DEF Image, Restores, Sp

LEMMA AvrRestores ==
    ASSUME port = "avr", NEW f, NEW q, NEW n
    PROVE  Restores(port, f, q, n) =
             [reg |-> [r \in Avr!Registers |-> IF r = 91 THEN f[36 - AvrPlace(r)][1]
                                               ELSE f[36 - AvrPlace(r)]],
              ie  |-> f[36 - AvrPlace(91)][2],
              sp  |-> Sp(q, n)]
<1>1. Size(port) + 1 = 36 /\ RegistersOf(port) = Avr!Registers
  BY DEF Size, RegistersOf
<1>2. \A r : Place(port, r) = AvrPlace(r)
  BY DEF Place
<1> DEFINE c == Size(port) + 1
<1> HIDE DEF c
<1>3. [r \in RegistersOf(port) |-> IF r = 91 THEN f[c - Place(port, r)][1] ELSE f[c - Place(port, r)]]
        = [r \in Avr!Registers |-> IF r = 91 THEN f[c - AvrPlace(r)][1] ELSE f[c - AvrPlace(r)]]
  BY <1>1, <1>2
<1>4. f[c - Place(port, 91)][2] = f[c - AvrPlace(91)][2]
  BY <1>2
<1>5. c = 36
  BY <1>1 DEF c
<1>6. Restores(port, f, q, n) =
        [reg |-> [r \in RegistersOf(port) |-> IF r = 91 THEN f[c - Place(port, r)][1]
                                              ELSE f[c - Place(port, r)]],
         ie |-> f[c - Place(port, 91)][2], sp |-> Sp(q, n)]
  BY Zenon DEF Restores, STATUS, c
<1> QED BY <1>3, <1>4, <1>5, <1>6

LEMMA MspRestores ==
    ASSUME port = "msp430", NEW f, NEW q, NEW n
    PROVE  Restores(port, f, q, n) =
             [reg |-> [r \in Msp430!Registers |-> IF r = 91 THEN f[15 - MspPlace(r)][1]
                                                  ELSE f[15 - MspPlace(r)]],
              ie  |-> f[15 - MspPlace(91)][2],
              sp  |-> Sp(q, n)]
<1>1. Size(port) + 1 = 15 /\ RegistersOf(port) = Msp430!Registers
  BY DEF Size, RegistersOf
<1>2. \A r : Place(port, r) = MspPlace(r)
  BY DEF Place
<1> DEFINE c == Size(port) + 1
<1> HIDE DEF c
<1>3. [r \in RegistersOf(port) |-> IF r = 91 THEN f[c - Place(port, r)][1] ELSE f[c - Place(port, r)]]
        = [r \in Msp430!Registers |-> IF r = 91 THEN f[c - MspPlace(r)][1] ELSE f[c - MspPlace(r)]]
  BY <1>1, <1>2
<1>4. f[c - Place(port, 91)][2] = f[c - MspPlace(91)][2]
  BY <1>2
<1>5. c = 15
  BY <1>1 DEF c
<1>6. Restores(port, f, q, n) =
        [reg |-> [r \in RegistersOf(port) |-> IF r = 91 THEN f[c - Place(port, r)][1]
                                              ELSE f[c - Place(port, r)]],
         ie |-> f[c - Place(port, 91)][2], sp |-> Sp(q, n)]
  BY Zenon DEF Restores, STATUS, c
<1> QED BY <1>3, <1>4, <1>5, <1>6

\* The order of the registers that arch_contextstore_i pushes after the PC is
\* the reverse of the one in which they are popped.
LEMMA AvrStoreOrder ==
    /\ Row(Avr!StoreOrder, 34)
    /\ \A r \in Avr!Registers \ {PC} :
          35 - AvrPlace(r) \in 1 .. 34 /\ Avr!StoreOrder[35 - AvrPlace(r)] = r
<1> DEFINE a == <<16, 91, 32, 28, 29>>
           b == Avr!Up(0, 15)
           c == Avr!Up(17, 27)
           d == <<30, 31>>
           ab == Cat(a, b)
           abc == Cat(ab, c)
           o == Cat(abc, d)
<1>1. /\ Row(a, 5)
      /\ a[1] = 16 /\ a[2] = 91 /\ a[3] = 32 /\ a[4] = 28 /\ a[5] = 29
  BY DEF Row
<1>2. Row(b, 16) /\ \A i \in 1 .. 16 : b[i] = i - 1
  BY DEF Row, Avr!Up
<1>3. Row(c, 11) /\ \A i \in 1 .. 11 : c[i] = i + 16
  BY DEF Row, Avr!Up
<1>4. Row(d, 2) /\ d[1] = 30 /\ d[2] = 31
  BY DEF Row
<1>5. Avr!StoreOrder = o
  BY DEF Cat, Avr!StoreOrder, Avr!RAMPZ, Avr!STATUS
<1> HIDE DEF a, b, c, d
<1>6. Row(ab, 21) /\ Halves(ab, 5, a, b, 21)
  BY <1>1, <1>2, Joined
<1> HIDE DEF ab
<1>7. Row(abc, 32) /\ Halves(abc, 21, ab, c, 32)
  BY <1>3, <1>6, Joined
<1> HIDE DEF abc
<1>8. Row(o, 34) /\ Halves(o, 32, abc, d, 34)
  BY <1>4, <1>7, Joined
<1> HIDE DEF o
<1>9. /\ o[1] = 16 /\ o[2] = 91 /\ o[3] = 32 /\ o[4] = 28 /\ o[5] = 29
      /\ \A i \in 6 .. 21 : o[i] = i - 6
      /\ \A i \in 22 .. 32 : o[i] = i - 5
      /\ o[33] = 30 /\ o[34] = 31
  <2>1. o[1] = 16 /\ o[2] = 91 /\ o[3] = 32 /\ o[4] = 28 /\ o[5] = 29
    BY <1>1, <1>6, <1>7, <1>8 DEF Halves
  <2>2. \A i \in 6 .. 21 : o[i] = i - 6
    BY <1>2, <1>6, <1>7, <1>8 DEF Halves
  <2>3. \A i \in 22 .. 32 : o[i] = i - 5
    BY <1>3, <1>7, <1>8 DEF Halves
  <2>4. o[33] = 30 /\ o[34] = 31
    BY <1>4, <1>8 DEF Halves
  <2> QED BY <2>1, <2>2, <2>3, <2>4
<1>10. \A r \in Avr!Registers \ {PC} : 35 - AvrPlace(r) \in 1 .. 34 /\ o[35 - AvrPlace(r)] = r
  BY <1>9 DEF AvrPlace, Avr!Registers, Avr!RAMPZ, Avr!STATUS, Avr!PC, PC
<1> QED BY <1>5, <1>8, <1>10

\* The frame of an interrupt restores the processor as it was, with the
\* interrupts enabled.
LEMMA AvrStoreFrame ==
    ASSUME port = "avr", IsCpu(port, cpu), NEW q, NEW n
    PROVE  LET f == <<cpu.reg[PC]>> \o Avr!Stored(Avr!StoreOrder, <<cpu.reg[STATUS], TRUE>>)
           IN  /\ Row(f, 35)
               /\ Restores(port, f, q, n) = [reg |-> cpu.reg, ie |-> TRUE, sp |-> Sp(q, n)]
<1> DEFINE reg == cpu.reg
           h == <<reg[PC]>>
           o == Avr!StoreOrder
           g == Avr!Stored(o, <<reg[STATUS], TRUE>>)
           f == Cat(h, g)
<1>1. Row(h, 1) /\ h[1] = reg[PC]
  BY DEF Row
<1>2. Row(o, 34)
  BY AvrStoreOrder
<1>3. g = [i \in 1 .. 34 |-> IF o[i] = 91 THEN <<reg[91], TRUE>> ELSE reg[o[i]]]
  BY <1>2 DEF Avr!Stored, Avr!STATUS, STATUS, Row
<1>4. Row(g, 34) /\ \A i \in 1 .. 34 : g[i] = IF o[i] = 91 THEN <<reg[91], TRUE>> ELSE reg[o[i]]
  BY <1>3 DEF Row
<1>5. \A r \in Avr!Registers \ {PC} : 35 - AvrPlace(r) \in 1 .. 34 /\ o[35 - AvrPlace(r)] = r
  BY AvrStoreOrder
<1>f. <<cpu.reg[PC]>> \o Avr!Stored(Avr!StoreOrder, <<cpu.reg[STATUS], TRUE>>) = f
  BY DEF Cat
<1>r. reg = [r \in Avr!Registers |-> reg[r]]
  BY DEF IsCpu, RegistersOf
<1> HIDE DEF h, g, o, reg
<1>6. Row(f, 35) /\ Halves(f, 1, h, g, 35)
  BY <1>1, <1>4, Joined
<1> HIDE DEF f
<1>7. f[1] = reg[PC]
  BY <1>1, <1>6 DEF Halves
<1>8. \A r \in Avr!Registers \ {PC} :
          f[36 - AvrPlace(r)] = IF r = 91 THEN <<reg[91], TRUE>> ELSE reg[r]
  <2> SUFFICES ASSUME NEW r \in Avr!Registers \ {PC}
               PROVE  f[36 - AvrPlace(r)] = IF r = 91 THEN <<reg[91], TRUE>> ELSE reg[r]
    OBVIOUS
  <2> DEFINE i == 35 - AvrPlace(r)
  <2>1. i \in 1 .. 34 /\ o[i] = r
    BY <1>5
  <2>2. AvrPlace(r) \in 1 .. 35
    BY AvrPopOrder
  <2>3. 36 - AvrPlace(r) = i + 1
    BY <2>2
  <2> HIDE DEF i
  <2>4. f[i + 1] = g[i]
    BY <1>6, <2>1 DEF Halves
  <2> QED BY <1>4, <2>1, <2>3, <2>4
<1>9. AvrPlace(PC) = 35 /\ 91 # PC /\ 91 \in Avr!Registers
  BY DEF AvrPlace, PC, Avr!Registers, Avr!STATUS
<1>10. /\ f[36 - AvrPlace(91)] = <<reg[91], TRUE>>
       /\ \A r \in Avr!Registers : r # 91 => f[36 - AvrPlace(r)] = reg[r]
  <2>0. 91 \in Avr!Registers \ {PC}
    BY <1>9
  <2> DEFINE y == <<reg[91], TRUE>>
  <2> HIDE DEF y
  <2>4. \A r \in Avr!Registers \ {PC} : r = 91 => f[36 - AvrPlace(r)] = y
    BY <1>8 DEF y
  <2>5. f[36 - AvrPlace(91)] = y
    BY <2>0, <2>4
  <2>1. f[36 - AvrPlace(91)] = <<reg[91], TRUE>>
    BY <2>5 DEF y
  <2>2. f[36 - AvrPlace(PC)] = reg[PC]
    BY <1>7, <1>9
  <2>3. \A r \in Avr!Registers \ {PC} : r # 91 => f[36 - AvrPlace(r)] = reg[r]
    BY <1>8
  <2> QED BY <2>1, <2>2, <2>3
<1>11. [r \in Avr!Registers |-> IF r = 91 THEN f[36 - AvrPlace(r)][1] ELSE f[36 - AvrPlace(r)]] = reg
  BY <1>r, <1>10
<1>12. f[36 - AvrPlace(91)][2] = TRUE
  BY <1>10
<1>13. Restores(port, f, q, n) = [reg |-> reg, ie |-> TRUE, sp |-> Sp(q, n)]
  BY <1>11, <1>12, AvrRestores
<1> QED BY <1>6, <1>13, <1>f DEF reg

\* What a frame restores is a state of the processor.
LEMMA RestoresCpu ==
    ASSUME NEW p, NEW f, NEW q, NEW n,
           f[(Size(p) + 1) - Place(p, STATUS)][2] \in BOOLEAN
    PROVE  IsCpu(p, Restores(p, f, q, n))
<1> DEFINE c == Restores(p, f, q, n)
           x == f[(Size(p) + 1) - Place(p, STATUS)][2]
           reg == [r \in RegistersOf(p) |->
                      IF r = STATUS THEN f[(Size(p) + 1) - Place(p, r)][1]
                      ELSE f[(Size(p) + 1) - Place(p, r)]]
<1>1. c = [reg |-> reg, ie |-> x, sp |-> Sp(q, n)]
  BY Zenon DEF Restores
<1>2. reg = [r \in RegistersOf(p) |-> reg[r]]
  OBVIOUS
<1> HIDE DEF c, x, reg
<1>3. c.reg = reg /\ c.ie = x /\ c.sp = Sp(q, n)
  BY <1>1
<1>4. IsView(c)
  BY <1>1, <1>3 DEF IsView
<1>5. x \in BOOLEAN
  BY DEF x
<1>6. c.ie \in BOOLEAN
  BY <1>3, <1>5
<1>7. c.reg = [r \in RegistersOf(p) |-> c.reg[r]]
  BY <1>2, <1>3
<1> QED BY <1>4, <1>6, <1>7 DEF IsCpu, c

\* The frame of arch_context_switch restores the registers that survive a call.
LEMMA AvrSwitchFrame ==
    ASSUME port = "avr", NEW q, NEW n
    PROVE  /\ Row(Avr!SwitchFrame, 35)
           /\ IsCpu(port, Restores(port, Avr!SwitchFrame, q, n))
           /\ ~Restores(port, Avr!SwitchFrame, q, n).ie
           /\ Restores(port, Avr!SwitchFrame, q, n).sp = Sp(q, n)
           /\ \A r \in Avr!CallSaved : Restores(port, Avr!SwitchFrame, q, n).reg[r] = cpu.reg[r]
<1> DEFINE reg == cpu.reg
           st == <<Avr!Zero, FALSE>>
           a == <<16, 91, 32, 28, 29>>
           b == Avr!Up(0, 15)
           d == <<17>>
           ab == Cat(a, b)
           o == Cat(ab, d)
           h == <<reg[PC]>>
           g == Avr!Stored(o, st)
           hg == Cat(h, g)
           j == Avr!Times(12, Avr!Junk)
           f == Cat(hg, j)
<1>1. /\ Row(a, 5)
      /\ a[1] = 16 /\ a[2] = 91 /\ a[3] = 32 /\ a[4] = 28 /\ a[5] = 29
  BY DEF Row
<1>2. Row(b, 16) /\ \A i \in 1 .. 16 : b[i] = i - 1
  BY DEF Row, Avr!Up
<1>3. Row(d, 1) /\ d[1] = 17
  BY DEF Row
<1>4. Avr!SwitchFrame = f
  BY DEF Cat, Avr!SwitchFrame, Avr!RAMPZ, Avr!STATUS, PC, Avr!PC
<1>g. g = [i \in DOMAIN o |-> IF o[i] = 91 THEN st ELSE reg[o[i]]]
  BY DEF Avr!Stored, Avr!STATUS
<1>h. Row(h, 1) /\ h[1] = reg[PC]
  BY DEF Row
<1>j. Row(j, 12)
  BY DEF Row, Avr!Times
<1>s. st[2] = FALSE
  OBVIOUS
<1> HIDE DEF a, b, d, h, g, j, st, reg
<1>6. Row(ab, 21) /\ Halves(ab, 5, a, b, 21)
  BY <1>1, <1>2, Joined
<1> HIDE DEF ab
<1>7. Row(o, 22) /\ Halves(o, 21, ab, d, 22)
  BY <1>3, <1>6, Joined
<1> HIDE DEF o
<1>8. /\ o[1] = 16 /\ o[2] = 91 /\ o[3] = 32 /\ o[4] = 28 /\ o[5] = 29
      /\ \A i \in 6 .. 21 : o[i] = i - 6
      /\ o[22] = 17
  <2>1. o[1] = 16 /\ o[2] = 91 /\ o[3] = 32 /\ o[4] = 28 /\ o[5] = 29
    BY <1>1, <1>6, <1>7 DEF Halves
  <2>2. \A i \in 6 .. 21 : o[i] = i - 6
    BY <1>2, <1>6, <1>7 DEF Halves
  <2>3. o[22] = 17
    BY <1>3, <1>7 DEF Halves
  <2> QED BY <2>1, <2>2, <2>3
<1>9. Row(g, 22) /\ \A i \in 1 .. 22 : g[i] = IF o[i] = 91 THEN st ELSE reg[o[i]]
  BY <1>g, <1>7 DEF Row
<1>10. Row(hg, 23) /\ Halves(hg, 1, h, g, 23)
  BY <1>h, <1>9, Joined
<1> HIDE DEF hg
<1>11. Row(f, 35) /\ Halves(f, 23, hg, j, 35)
  BY <1>j, <1>10, Joined
<1> HIDE DEF f
<1>12. f[1] = reg[PC] /\ \A i \in 1 .. 22 : f[i + 1] = g[i]
  BY <1>h, <1>10, <1>11 DEF Halves
<1>13. f[3] = st
  BY <1>8, <1>9, <1>12
<1>14. \A r \in Avr!CallSaved \ {PC} : /\ 35 - AvrPlace(r) \in 1 .. 22
                                     /\ o[35 - AvrPlace(r)] = r
                                     /\ 36 - AvrPlace(r) = (35 - AvrPlace(r)) + 1
                                     /\ r # 91
  BY <1>8 DEF AvrPlace, Avr!CallSaved, Avr!RAMPZ, Avr!PC, PC
<1>15. \A r \in Avr!CallSaved \ {PC} : f[36 - AvrPlace(r)] = reg[r]
  BY <1>9, <1>12, <1>14
<1>16. \A r \in Avr!CallSaved : r # 91 /\ r \in Avr!Registers /\ f[36 - AvrPlace(r)] = reg[r]
  <2>1. 36 - AvrPlace(PC) = 1 /\ PC # 91
    BY DEF AvrPlace, PC
  <2>2. Avr!CallSaved \subseteq Avr!Registers
    BY DEF Avr!CallSaved, Avr!Registers, Avr!STATUS
  <2> QED BY <1>12, <1>14, <1>15, <2>1, <2>2
<1>17. 36 - AvrPlace(91) = 3
  BY DEF AvrPlace
<1> DEFINE c == Restores(port, f, q, n)
           reg2 == [r \in Avr!Registers |-> IF r = 91 THEN f[36 - AvrPlace(r)][1] ELSE f[36 - AvrPlace(r)]]
<1>18. c = [reg |-> reg2, ie |-> f[36 - AvrPlace(91)][2], sp |-> Sp(q, n)]
  BY AvrRestores
<1>19. \A r \in Avr!CallSaved : reg2[r] = reg[r]
  BY <1>16
<1>20. f[36 - AvrPlace(91)][2] = FALSE
  BY <1>13, <1>17, <1>s
<1> HIDE DEF reg2
<1>21. c.reg = reg2 /\ c.ie = FALSE /\ c.sp = Sp(q, n)
  BY <1>18, <1>20
<1>22. IsCpu(port, c)
  <2>1. (Size(port) + 1) - Place(port, STATUS) = 3
    BY DEF Size, Place, STATUS, AvrPlace
  <2>2. f[(Size(port) + 1) - Place(port, STATUS)][2] \in BOOLEAN
    BY <1>13, <1>s, <2>1
  <2> QED BY <2>2, RestoresCpu
<1> QED BY <1>4, <1>11, <1>19, <1>21, <1>22 DEF reg

\* The frame of a new task has the arguments of arch_task_start.
LEMMA AvrInitFrame ==
    ASSUME port = "avr", NEW t, NEW n
    PROVE  /\ Row(Avr!InitFrame(t), 35)
           /\ IsCpu(port, Restores(port, Avr!InitFrame(t), t, n))
           /\ Restores(port, Avr!InitFrame(t), t, n).ie
           /\ Restores(port, Avr!InitFrame(t), t, n).sp = Sp(t, n)
           /\ \A r \in DOMAIN Avr!StartArgs(t) :
                 Restores(port, Avr!InitFrame(t), t, n).reg[r] = Avr!StartArgs(t)[r]
<1> DEFINE st == <<Avr!Zero, TRUE>>
           a == <<Avr!task_start(t), Avr!Zero, st, Avr!Zero>>
           b == Avr!Times(2, Avr!Datum(t, "sp", 0))
           c == Avr!Times(16, Avr!Zero)
           d == Avr!Times(5, Avr!Zero)
           e == Avr!Times(2, Avr!Param(t))
           g == Avr!Times(2, Avr!Proc(t))
           h == Avr!Times(4, Avr!Zero)
           ab == Cat(a, b)
           abc == Cat(ab, c)
           ad == Cat(abc, d)
           ae == Cat(ad, e)
           ag == Cat(ae, g)
           f == Cat(ag, h)
<1>s. st[2] = TRUE
  OBVIOUS
<1> HIDE DEF st
<1>1. Row(a, 4) /\ a[1] = Avr!task_start(t) /\ a[3] = st
  BY DEF Row
<1>2. /\ Row(b, 2)
      /\ Row(c, 16) /\ (\A i \in 1 .. 16 : c[i] = Avr!Zero)
      /\ Row(d, 5)
      /\ Row(e, 2) /\ (\A i \in 1 .. 2 : e[i] = Avr!Param(t))
      /\ Row(g, 2) /\ (\A i \in 1 .. 2 : g[i] = Avr!Proc(t))
      /\ Row(h, 4)
  BY DEF Row, Avr!Times
<1>3. Avr!InitFrame(t) = f
  BY DEF Cat, Avr!InitFrame, st
<1> HIDE DEF a, b, c, d, e, g, h
<1>4. Row(ab, 6) /\ Halves(ab, 4, a, b, 6)
  BY <1>1, <1>2, Joined
<1> HIDE DEF ab
<1>5. Row(abc, 22) /\ Halves(abc, 6, ab, c, 22)
  BY <1>2, <1>4, Joined
<1> HIDE DEF abc
<1>6. Row(ad, 27) /\ Halves(ad, 22, abc, d, 27)
  BY <1>2, <1>5, Joined
<1> HIDE DEF ad
<1>7. Row(ae, 29) /\ Halves(ae, 27, ad, e, 29)
  BY <1>2, <1>6, Joined
<1> HIDE DEF ae
<1>8. Row(ag, 31) /\ Halves(ag, 29, ae, g, 31)
  BY <1>2, <1>7, Joined
<1> HIDE DEF ag
<1>9. Row(f, 35) /\ Halves(f, 31, ag, h, 35)
  BY <1>2, <1>8, Joined
<1> HIDE DEF f
<1>10. f[1] = Avr!task_start(t) /\ f[3] = st
  BY <1>1, <1>4, <1>5, <1>6, <1>7, <1>8, <1>9 DEF Halves
<1>11. f[8] = Avr!Zero
  BY <1>2, <1>5, <1>6, <1>7, <1>8, <1>9 DEF Halves
<1>12. f[28] = Avr!Param(t) /\ f[29] = Avr!Param(t)
  BY <1>2, <1>7, <1>8, <1>9 DEF Halves
<1>13. f[30] = Avr!Proc(t) /\ f[31] = Avr!Proc(t)
  BY <1>2, <1>8, <1>9 DEF Halves
<1>14. /\ 36 - AvrPlace(91) = 3 /\ 36 - AvrPlace(PC) = 1 /\ 36 - AvrPlace(1) = 8
       /\ 36 - AvrPlace(22) = 28 /\ 36 - AvrPlace(23) = 29
       /\ 36 - AvrPlace(24) = 30 /\ 36 - AvrPlace(25) = 31
  BY DEF AvrPlace, PC
<1> DEFINE R == {1, 22, 23, 24, 25, PC}
<1>15. R \subseteq Avr!Registers /\ 91 \notin R
  BY DEF PC, Avr!Registers, Avr!PC
<1>16. /\ DOMAIN Avr!StartArgs(t) = R
       /\ \A r \in R : f[36 - AvrPlace(r)] = Avr!StartArgs(t)[r]
  <2>1. /\ Avr!StartArgs(t)[1] = Avr!Zero /\ Avr!StartArgs(t)[PC] = Avr!task_start(t)
        /\ Avr!StartArgs(t)[22] = Avr!Param(t) /\ Avr!StartArgs(t)[23] = Avr!Param(t)
        /\ Avr!StartArgs(t)[24] = Avr!Proc(t) /\ Avr!StartArgs(t)[25] = Avr!Proc(t)
    BY DEF Avr!StartArgs, Avr!PC, PC
  <2>2. DOMAIN Avr!StartArgs(t) = R
    BY DEF Avr!StartArgs, Avr!PC, PC
  <2> QED BY <1>10, <1>11, <1>12, <1>13, <1>14, <2>1, <2>2
<1> DEFINE x == Restores(port, f, t, n)
           reg == [r \in Avr!Registers |-> IF r = 91 THEN f[36 - AvrPlace(r)][1] ELSE f[36 - AvrPlace(r)]]
<1>17. x = [reg |-> reg, ie |-> f[36 - AvrPlace(91)][2], sp |-> Sp(t, n)]
  BY AvrRestores
<1>18. \A r \in DOMAIN Avr!StartArgs(t) : reg[r] = Avr!StartArgs(t)[r]
  <2> HIDE DEF R
  <2> QED BY <1>15, <1>16
<1>19. f[36 - AvrPlace(91)][2] = TRUE
  BY <1>10, <1>14, <1>s
<1> HIDE DEF reg
<1>20. x.reg = reg /\ x.ie = TRUE /\ x.sp = Sp(t, n)
  BY <1>17, <1>19
<1>21. IsCpu(port, x)
  <2>1. (Size(port) + 1) - Place(port, STATUS) = 3
    BY DEF Size, Place, STATUS, AvrPlace
  <2>2. f[(Size(port) + 1) - Place(port, STATUS)][2] \in BOOLEAN
    BY <1>10, <1>s, <2>1
  <2> QED BY <2>2, RestoresCpu
<1> QED BY <1>3, <1>9, <1>18, <1>20, <1>21

\* The frame of an interrupt, and of arch_context_switch, on MSP430.
LEMMA MspFrame ==
    ASSUME port = "msp430", IsCpu(port, cpu), NEW q, NEW n, NEW ie
    PROVE  /\ Row(Msp430!Frame(ie), 14)
           /\ Restores(port, Msp430!Frame(ie), q, n) = [reg |-> cpu.reg, ie |-> ie, sp |-> Sp(q, n)]
<1> DEFINE reg == cpu.reg
           st == <<reg[STATUS], ie>>
           a == <<reg[PC], st>>
           b == [i \in 1 .. 12 |-> reg[16 - i]]
           f == Cat(a, b)
<1>1. Row(a, 2) /\ a[1] = reg[PC] /\ a[2] = st
  BY DEF Row
<1>2. Row(b, 12) /\ \A i \in 1 .. 12 : b[i] = reg[16 - i]
  BY DEF Row
<1>3. Msp430!Frame(ie) = f
  BY DEF Cat, Msp430!Frame, Msp430!PC, Msp430!STATUS, PC, STATUS
<1>4. st[1] = reg[STATUS] /\ st[2] = ie
  OBVIOUS
<1>5. reg = [r \in Msp430!Registers |-> reg[r]]
  BY DEF IsCpu, RegistersOf
<1> HIDE DEF reg, st, a, b
<1>6. Row(f, 14) /\ Halves(f, 2, a, b, 14)
  BY <1>1, <1>2, Joined
<1> HIDE DEF f
<1>7. f[1] = reg[PC] /\ f[2] = st /\ \A i \in 3 .. 14 : f[i] = reg[18 - i]
  <2>1. f[1] = reg[PC] /\ f[2] = st
    BY <1>1, <1>6 DEF Halves
  <2>2. \A i \in 3 .. 14 : f[i] = b[i - 2] /\ 16 - (i - 2) = 18 - i /\ i - 2 \in 1 .. 12
    BY <1>6 DEF Halves
  <2> QED BY <1>2, <2>1, <2>2
<1>8. \A r \in Msp430!Registers :
         \/ r = 91 /\ 15 - MspPlace(r) = 2
         \/ r = PC /\ 15 - MspPlace(r) = 1
         \/ r # 91 /\ 15 - MspPlace(r) \in 3 .. 14 /\ 18 - (15 - MspPlace(r)) = r
  BY DEF MspPlace, Msp430!Registers, Msp430!PC, Msp430!STATUS, PC
<1>9. \A r \in Msp430!Registers : r # 91 => f[15 - MspPlace(r)] = reg[r]
  BY <1>7, <1>8
<1>10. 15 - MspPlace(91) = 2
  BY DEF MspPlace
<1>11. f[15 - MspPlace(91)][1] = reg[91] /\ f[15 - MspPlace(91)][2] = ie
  BY <1>4, <1>7, <1>10 DEF STATUS
<1>12. [r \in Msp430!Registers |-> IF r = 91 THEN f[15 - MspPlace(r)][1] ELSE f[15 - MspPlace(r)]] = reg
  BY <1>5, <1>9, <1>11
<1>13. Restores(port, f, q, n) = [reg |-> reg, ie |-> ie, sp |-> Sp(q, n)]
  BY <1>11, <1>12, MspRestores
<1> QED BY <1>3, <1>6, <1>13 DEF reg

LEMMA MspInitFrame ==
    ASSUME port = "msp430", NEW t, NEW n
    PROVE  /\ Row(Msp430!InitFrame(t), 14)
           /\ IsCpu(port, Restores(port, Msp430!InitFrame(t), t, n))
           /\ Restores(port, Msp430!InitFrame(t), t, n).ie
           /\ Restores(port, Msp430!InitFrame(t), t, n).sp = Sp(t, n)
           /\ \A r \in DOMAIN Msp430!StartArgs(t) :
                 Restores(port, Msp430!InitFrame(t), t, n).reg[r] = Msp430!StartArgs(t)[r]
<1> DEFINE st == <<Msp430!Zero, TRUE>>
           a == <<Msp430!task_start(t), st, Msp430!Proc(t), Msp430!Param(t)>>
           b == Msp430!Times(10, Msp430!Zero)
           f == Cat(a, b)
<1>s. st[2] = TRUE
  OBVIOUS
<1> HIDE DEF st
<1>1. Row(a, 4) /\ a[1] = Msp430!task_start(t) /\ a[2] = st /\ a[3] = Msp430!Proc(t) /\ a[4] = Msp430!Param(t)
  BY DEF Row
<1>2. Row(b, 10)
  BY DEF Row, Msp430!Times
<1>3. Msp430!InitFrame(t) = f
  BY DEF Cat, Msp430!InitFrame, st
<1> HIDE DEF a, b
<1>4. Row(f, 14) /\ Halves(f, 4, a, b, 14)
  BY <1>1, <1>2, Joined
<1> HIDE DEF f
<1>5. f[1] = Msp430!task_start(t) /\ f[2] = st /\ f[3] = Msp430!Proc(t) /\ f[4] = Msp430!Param(t)
  BY <1>1, <1>4 DEF Halves
<1>6. 15 - MspPlace(91) = 2 /\ 15 - MspPlace(PC) = 1 /\ 15 - MspPlace(15) = 3 /\ 15 - MspPlace(14) = 4
  BY DEF MspPlace, PC
<1> DEFINE R == {14, 15, PC}
<1>7. R \subseteq Msp430!Registers /\ 91 \notin R
  BY DEF PC, Msp430!Registers, Msp430!PC
<1>8. /\ DOMAIN Msp430!StartArgs(t) = R
      /\ \A r \in R : f[15 - MspPlace(r)] = Msp430!StartArgs(t)[r]
  <2>1. /\ Msp430!StartArgs(t)[15] = Msp430!Proc(t) /\ Msp430!StartArgs(t)[14] = Msp430!Param(t)
        /\ Msp430!StartArgs(t)[PC] = Msp430!task_start(t)
    BY DEF Msp430!StartArgs, Msp430!PC, PC
  <2>2. DOMAIN Msp430!StartArgs(t) = R
    BY DEF Msp430!StartArgs, Msp430!PC, PC
  <2> QED BY <1>5, <1>6, <2>1, <2>2
<1> DEFINE x == Restores(port, f, t, n)
           reg == [r \in Msp430!Registers |-> IF r = 91 THEN f[15 - MspPlace(r)][1] ELSE f[15 - MspPlace(r)]]
<1>9. x = [reg |-> reg, ie |-> f[15 - MspPlace(91)][2], sp |-> Sp(t, n)]
  BY MspRestores
<1>10. \A r \in DOMAIN Msp430!StartArgs(t) : reg[r] = Msp430!StartArgs(t)[r]
  <2> HIDE DEF R
  <2> QED BY <1>7, <1>8
<1>11. f[15 - MspPlace(91)][2] = TRUE
  BY <1>5, <1>6, <1>s
<1> HIDE DEF reg
<1>12. x.reg = reg /\ x.ie = TRUE /\ x.sp = Sp(t, n)
  BY <1>9, <1>11
<1>13. IsCpu(port, x)
  <2>1. (Size(port) + 1) - Place(port, STATUS) = 2
    BY DEF Size, Place, STATUS, MspPlace
  <2>2. f[(Size(port) + 1) - Place(port, STATUS)][2] \in BOOLEAN
    BY <1>5, <1>s, <2>1
  <2> QED BY <2>2, RestoresCpu
<1> QED BY <1>3, <1>4, <1>10, <1>12, <1>13

---------------------------------------------------------------------------
(* What the ports do, in the terms of saved contexts.                      *)

\* What is below a frame does not matter to it.
LEMMA ImageStable ==
    ASSUME NEW p \in {"avr", "msp430", "linux"}, NEW s, NEW s2, NEW q, NEW k \in Nat,
           Size(p) <= k, \A i \in 1 .. k : s2[i] = s[i]
    PROVE  Image(p, s2, Sp(q, k)) = Image(p, s, Sp(q, k))
<1>1. CASE p = "linux"
  BY <1>1 DEF Image, Sp, Size
<1>2. CASE p # "linux"
  <2>0. p \in {"avr", "msp430"} /\ Size(p) \in Nat
    BY <1>2 DEF Size
  <2>1. STATUS \in RegistersOf(p)
    BY <1>2 DEF RegistersOf, Avr!Registers, Msp430!Registers, STATUS, Avr!STATUS, Msp430!STATUS
  <2>2. \A r \in RegistersOf(p) : s2[k + 1 - Place(p, r)] = s[k + 1 - Place(p, r)]
    <3> SUFFICES ASSUME NEW r \in RegistersOf(p)
                 PROVE  s2[k + 1 - Place(p, r)] = s[k + 1 - Place(p, r)]
      OBVIOUS
    <3>1. Place(p, r) \in 1 .. Size(p)
      BY <2>0, PlaceInFrame
    <3>2. k + 1 - Place(p, r) \in 1 .. k
      BY <2>0, <3>1
    <3> QED BY <3>2
  <2> QED BY <1>2, <2>1, <2>2 DEF Image, Sp
<1> QED BY <1>1, <1>2

\* The stack s with the frame f at position n.
Over(s, n, f) == SubSeq(s, 1, n) \o f

SameBelow(x, s, n) == \A i \in 1 .. n : x[i] = s[i]

\* The effect of an interrupt, when k cells are on the stack after it.
Stores(k) ==
    /\ isr_nesting' = isr_nesting + 1
    /\ task_current' = task_current
    /\ stack' = [stack EXCEPT ![cpu.sp.of] = stack'[cpu.sp.of]]
    /\ Row(stack'[cpu.sp.of], k)
    /\ SameBelow(stack'[cpu.sp.of], stack[cpu.sp.of], cpu.sp.at)
    /\ Image(port, stack'[cpu.sp.of], Sp(cpu.sp.of, k)) = cpu
    /\ ctx' = IF isr_nesting = 0
              THEN [ctx EXCEPT ![task_current] = IF port = "linux" THEN cpu ELSE Sp(cpu.sp.of, k)]
              ELSE ctx
    /\ IsCpu(port, cpu') /\ cpu'.ie = FALSE /\ cpu'.sp = Sp(cpu.sp.of, k)
    /\ cpu'.reg[PC] = Handler(isr_nesting + 1)
    /\ port = "avr" => /\ cpu'.reg[1] = Zero
                       /\ cpu'.reg[28] = Datum(cpu.sp.of, "sp", k)
                       /\ cpu'.reg[29] = Datum(cpu.sp.of, "sp", k)

\* The effect of a frame f that is pushed.
LEMMA PushedFrame ==
    ASSUME NEW p \in {"avr", "msp430"}, NEW s, NEW f, Row(f, Size(p)),
           NEW q, NEW n \in Nat, NEW k \in Nat, k = n + Size(p)
    PROVE  /\ Row(Over(s, n, f), k)
           /\ SameBelow(Over(s, n, f), s, n)
           /\ Image(p, Over(s, n, f), Sp(q, k)) = Restores(p, f, q, n)
<1> DEFINE x == Over(s, n, f)
<1>1. Size(p) \in Nat
  BY DEF Size
<1>2. Row(x, k) /\ Halves(x, n, s, f, k)
  BY <1>1, PushedCells DEF Over
<1> HIDE DEF x
<1>3. Image(p, x, Sp(q, k)) = Restores(p, f, q, n)
  BY <1>1, <1>2, PushedImage
<1>4. SameBelow(x, s, n)
  BY <1>1, <1>2 DEF Halves, SameBelow
<1> QED BY <1>2, <1>3, <1>4 DEF x

LEMMA AvrStores ==
    ASSUME port = "avr", IsCpu(port, cpu), cpu.ie, NEW q \in Task, NEW n \in Nat,
           cpu.sp = Sp(q, n), stack = [t \in Task |-> stack[t]], isr_nesting \in Nat,
           Avr!arch_contextstore_i
    PROVE  Stores(n + Size(port))
<1> DEFINE f == <<cpu.reg[PC]>> \o Avr!Stored(Avr!StoreOrder, <<cpu.reg[STATUS], TRUE>>)
           x == Over(stack[q], n, f)
           k == n + 35
           y == Avr!Datum(q, "sp", k)
           c == [reg |-> [cpu.reg EXCEPT ![PC] = Handler(isr_nesting + 1), ![1] = Zero,
                               ![16] = Avr!Junk, ![STATUS] = Avr!Junk, ![28] = y, ![29] = y,
                               ![30] = IF isr_nesting + 1 = 1 THEN Avr!Junk ELSE @,
                               ![31] = IF isr_nesting + 1 = 1 THEN Avr!Junk ELSE @],
                   ie  |-> FALSE,
                   sp  |-> Sp(q, k)]
<1>1. Row(f, 35) /\ Restores(port, f, q, n) = [reg |-> cpu.reg, ie |-> TRUE, sp |-> Sp(q, n)]
  BY AvrStoreFrame
<1>2. Size(port) = 35 /\ port \in {"avr", "msp430"}
  BY DEF Size
<1>3. cpu.sp.of = q /\ cpu.sp.at = n
  BY DEF Sp
<1>4. Avr!PC = PC /\ Avr!STATUS = STATUS
  BY DEF Avr!PC, PC, Avr!STATUS, STATUS
<1>5. Len(f) = 35
  BY <1>1, RowIsSeq
<1>6. /\ stack' = Avr!Pushed(cpu.sp, f)
      /\ isr_nesting' = isr_nesting + 1
      /\ ctx' = IF isr_nesting + 1 = 1 THEN [ctx EXCEPT ![task_current] = Sp(q, k)] ELSE ctx
      /\ cpu' = c
      /\ task_current' = task_current
  <2> HIDE DEF f
  <2> QED BY <1>3, <1>4, <1>5 DEF Avr!arch_contextstore_i, f, Avr!Sp, Sp, Avr!Handler, Handler,
                                Avr!Zero, Zero, Avr!Datum, Datum
<1> HIDE DEF f
<1>7. /\ Row(x, k)
      /\ SameBelow(x, stack[q], n)
      /\ Image(port, x, Sp(q, k)) = Restores(port, f, q, n)
  BY <1>1, <1>2, PushedFrame
<1>8. Image(port, x, Sp(q, k)) = cpu
  <2>1. cpu = [reg |-> cpu.reg, ie |-> TRUE, sp |-> Sp(q, n)]
    BY DEF IsCpu, IsView
  <2> QED BY <1>1, <1>7, <2>1
<1>9. stack' = [stack EXCEPT ![q] = x]
  BY <1>3, <1>6 DEF Avr!Pushed, Over
<1> HIDE DEF x
<1>10. stack'[q] = x
  BY <1>9
<1>11. stack' = [stack EXCEPT ![q] = stack'[q]]
  BY <1>9, <1>10
<1>12. DOMAIN cpu.reg = Avr!Registers
  BY DEF IsCpu, RegistersOf
<1>13. /\ PC \in Avr!Registers /\ 1 \in Avr!Registers /\ 28 \in Avr!Registers /\ 29 \in Avr!Registers
       /\ PC \notin {1, 16, 28, 29, 30, 31, STATUS} /\ STATUS \notin {1, 28, 29}
  BY DEF PC, STATUS, Avr!PC, Avr!Registers
<1>14. IsCpu(port, cpu')
  <2> DEFINE reg == c.reg
  <2>1. c = [reg |-> reg, ie |-> FALSE, sp |-> Sp(q, k)]
    OBVIOUS
  <2>2. reg = [r \in Avr!Registers |-> reg[r]]
    BY <1>12
  <2> HIDE DEF c, reg
  <2>3. cpu'.reg = reg /\ cpu'.ie = FALSE /\ cpu'.sp = Sp(q, k)
    BY <1>6, <2>1
  <2>4. IsView(cpu')
    BY <1>6, <2>1, <2>3 DEF IsView
  <2>5. cpu'.reg = [r \in RegistersOf(port) |-> cpu'.reg[r]]
    BY <2>2, <2>3 DEF RegistersOf
  <2> QED BY <2>3, <2>4, <2>5 DEF IsCpu
<1>15. cpu'.ie = FALSE /\ cpu'.sp = Sp(q, k)
  BY <1>6
<1>16. /\ cpu'.reg[PC] = Handler(isr_nesting + 1) /\ cpu'.reg[1] = Zero
       /\ cpu'.reg[28] = y /\ cpu'.reg[29] = y
  BY <1>6, <1>12, <1>13
<1>17. y = Datum(q, "sp", k)
  BY DEF Datum, Avr!Datum
<1>18. ctx' = IF isr_nesting = 0 THEN [ctx EXCEPT ![task_current] = IF port = "linux" THEN cpu ELSE Sp(q, k)] ELSE ctx
  BY <1>6
<1> HIDE DEF c, y
<1> QED BY <1>2, <1>3, <1>6, <1>7, <1>8, <1>10, <1>11, <1>14, <1>15, <1>16, <1>17, <1>18 DEF Stores

LEMMA MspStores ==
    ASSUME port = "msp430", IsCpu(port, cpu), cpu.ie, NEW q \in Task, NEW n \in Nat,
           cpu.sp = Sp(q, n), stack = [t \in Task |-> stack[t]], isr_nesting \in Nat,
           Msp430!arch_contextstore_i
    PROVE  Stores(n + Size(port))
<1> DEFINE f == Msp430!Frame(cpu.ie)
           x == Over(stack[q], n, f)
           k == n + 14
           c == [reg |-> [cpu.reg EXCEPT ![PC] = Handler(isr_nesting + 1), ![STATUS] = Msp430!Junk,
                               ![15] = IF isr_nesting + 1 = 1 THEN Msp430!Junk ELSE @],
                   ie  |-> FALSE,
                   sp  |-> Sp(q, k)]
<1>1. Row(f, 14) /\ Restores(port, f, q, n) = [reg |-> cpu.reg, ie |-> cpu.ie, sp |-> Sp(q, n)]
  BY MspFrame
<1>2. Size(port) = 14 /\ port \in {"avr", "msp430"}
  BY DEF Size
<1>3. cpu.sp.of = q /\ cpu.sp.at = n
  BY DEF Sp
<1>4. Msp430!PC = PC /\ Msp430!STATUS = STATUS
  BY DEF Msp430!PC, PC, Msp430!STATUS, STATUS
<1> HIDE DEF f
<1>6. /\ stack' = Msp430!Pushed(cpu.sp, f)
      /\ isr_nesting' = isr_nesting + 1
      /\ ctx' = IF isr_nesting + 1 = 1 THEN [ctx EXCEPT ![task_current] = Sp(q, k)] ELSE ctx
      /\ cpu' = c
      /\ task_current' = task_current
  BY <1>3, <1>4 DEF Msp430!arch_contextstore_i, f, Msp430!Sp, Sp, Msp430!Handler, Handler,
                    Msp430!Datum, Datum, Msp430!StoredSp
<1>7. /\ Row(x, k)
      /\ SameBelow(x, stack[q], n)
      /\ Image(port, x, Sp(q, k)) = Restores(port, f, q, n)
  BY <1>1, <1>2, PushedFrame
<1>8. Image(port, x, Sp(q, k)) = cpu
  <2>1. cpu = [reg |-> cpu.reg, ie |-> cpu.ie, sp |-> Sp(q, n)]
    BY DEF IsCpu, IsView
  <2> QED BY <1>1, <1>7, <2>1
<1>9. stack' = [stack EXCEPT ![q] = x]
  BY <1>3, <1>6 DEF Msp430!Pushed, Over
<1> HIDE DEF x
<1>10. stack'[q] = x
  BY <1>9
<1>11. stack' = [stack EXCEPT ![q] = stack'[q]]
  BY <1>9, <1>10
<1>12. DOMAIN cpu.reg = Msp430!Registers
  BY DEF IsCpu, RegistersOf
<1>13. PC \in Msp430!Registers /\ PC \notin {15, STATUS}
  BY DEF PC, STATUS, Msp430!PC, Msp430!Registers
<1>14. IsCpu(port, cpu')
  BY <1>6, <1>12 DEF IsCpu, IsView, RegistersOf
<1>15. cpu'.ie = FALSE /\ cpu'.sp = Sp(q, k)
  BY <1>6
<1>16. cpu'.reg[PC] = Handler(isr_nesting + 1)
  BY <1>6, <1>12, <1>13
<1>18. ctx' = IF isr_nesting = 0 THEN [ctx EXCEPT ![task_current] = IF port = "linux" THEN cpu ELSE Sp(q, k)] ELSE ctx
  BY <1>6
<1> HIDE DEF c
<1> QED BY <1>2, <1>3, <1>6, <1>7, <1>8, <1>10, <1>11, <1>14, <1>15, <1>16, <1>18 DEF Stores

LEMMA LinuxStores ==
    ASSUME port = "linux", IsCpu(port, cpu), cpu.ie, NEW q \in Task, NEW n \in Nat,
           cpu.sp = Sp(q, n), stack = [t \in Task |-> stack[t]], isr_nesting \in Nat,
           Linux!arch_contextstore_i
    PROVE  Stores(n + Size(port))
<1> DEFINE f == <<cpu>>
           x == Over(stack[q], n, f)
           k == n + 1
           c == [reg |-> [r \in Linux!Registers |-> IF r = PC THEN Handler(isr_nesting + 1) ELSE Linux!Junk],
                   ie  |-> FALSE,
                   sp  |-> Sp(q, k)]
<1>1. Row(f, 1) /\ f[1] = cpu
  BY DEF Row
<1>2. Size(port) = 1
  BY DEF Size
<1>3. cpu.sp.of = q /\ cpu.sp.at = n
  BY DEF Sp
<1>6. /\ stack' = Linux!Pushed(cpu.sp, f)
      /\ isr_nesting' = isr_nesting + 1
      /\ ctx' = IF isr_nesting = 0 THEN [ctx EXCEPT ![task_current] = cpu] ELSE ctx
      /\ cpu' = c
      /\ task_current' = task_current
  BY <1>3 DEF Linux!arch_contextstore_i, Linux!Sp, Sp, Linux!Handler, Handler,
              Linux!Datum, Datum, Linux!PC, PC
<1> HIDE DEF f
<1>7. Row(x, k) /\ Halves(x, n, stack[q], f, k)
  BY <1>1, PushedCells DEF Over
<1>9. stack' = [stack EXCEPT ![q] = x]
  BY <1>3, <1>6 DEF Linux!Pushed, Over
<1> HIDE DEF x
<1>8. SameBelow(x, stack[q], n) /\ x[k] = cpu
  BY <1>1, <1>7 DEF Halves, SameBelow
<1>10. stack'[q] = x
  BY <1>9
<1>11. stack' = [stack EXCEPT ![q] = stack'[q]]
  BY <1>9, <1>10
<1>13. PC \in Linux!Registers
  BY DEF PC, Linux!PC, Linux!Registers
<1>14. IsCpu(port, cpu')
  BY <1>6 DEF IsCpu, IsView, RegistersOf
<1>15. cpu'.ie = FALSE /\ cpu'.sp = Sp(q, k)
  BY <1>6
<1>16. cpu'.reg[PC] = Handler(isr_nesting + 1)
  BY <1>6, <1>13
<1>17. Image(port, x, Sp(q, k)) = cpu
  BY <1>8 DEF Image, Sp
<1>18. ctx' = IF isr_nesting = 0 THEN [ctx EXCEPT ![task_current] = IF port = "linux" THEN cpu ELSE Sp(q, k)] ELSE ctx
  BY <1>6
<1> HIDE DEF c
<1> QED BY <1>2, <1>3, <1>6, <1>7, <1>8, <1>10, <1>11, <1>14, <1>15, <1>16, <1>17, <1>18 DEF Stores

\* The effect of the return from the first handler.
ResumesTask(c) ==
    /\ isr_nesting' = isr_nesting - 1
    /\ task_current' = task_current
    /\ ctx' = ctx
    /\ IsCpu(port, cpu') /\ cpu'.reg = c.reg /\ cpu'.sp = c.sp
    /\ cpu'.ie = IF port = "msp430" THEN TRUE ELSE c.ie
    /\ stack' = [t \in Task |-> stack'[t]]
    /\ port # "linux" => \A t \in Task : t # task_current => stack'[t] = stack[t]

LEMMA FirstRestore ==
    ASSUME port \in {"avr", "msp430", "linux"}, IsCpu(port, cpu), isr_nesting = 1,
           IsCpu(port, SavedAs(port, stack, ctx, task_current)),
           port # "linux" => ctx[task_current] = Sp(task_current, Size(port)),
           stack = [t \in Task |-> stack[t]],
           arch_contextrestore_i
    PROVE  ResumesTask(SavedAs(port, stack, ctx, task_current))
<1> DEFINE c == SavedAs(port, stack, ctx, task_current)
<1>1. CASE port = "avr"
  <2>1. Avr!arch_contextrestore_i
    BY <1>1 DEF arch_contextrestore_i
  <2>2. Avr!Popped(ctx[task_current]) = c
    BY <1>1, AvrPopped DEF SavedAs
  <2>3. c.sp.of = task_current
    <3>1. ctx[task_current].of = task_current
      BY <1>1 DEF Sp
    <3>2. c.sp = Sp(ctx[task_current].of, ctx[task_current].at - Size(port))
      BY <1>1 DEF SavedAs, Image
    <3> QED BY <3>1, <3>2 DEF Sp
  <2> HIDE DEF c
  <2>4. /\ isr_nesting' = isr_nesting - 1 /\ task_current' = task_current /\ ctx' = ctx
        /\ cpu' = c
        /\ stack' = Avr!Cut(c.sp)
    BY <2>1, <2>2 DEF Avr!arch_contextrestore_i
  <2>5. /\ stack' = [t \in Task |-> stack'[t]]
        /\ \A t \in Task : t # task_current => stack'[t] = stack[t]
    BY <2>3, <2>4 DEF Avr!Cut
  <2>6. IsCpu(port, c)
    BY DEF c
  <2>7. cpu'.ie = IF port = "msp430" THEN TRUE ELSE c.ie
    BY <1>1, <2>4
  <2> QED BY <2>4, <2>5, <2>6, <2>7 DEF ResumesTask, c
<1>2. CASE port = "msp430"
  <2>1. Msp430!arch_contextrestore_i
    BY <1>2 DEF arch_contextrestore_i
  <2>2. Msp430!Popped(ctx[task_current]) = c
    BY <1>2, MspPopped DEF SavedAs
  <2>3. c.sp.of = task_current
    <3>1. ctx[task_current].of = task_current
      BY <1>2 DEF Sp
    <3>2. c.sp = Sp(ctx[task_current].of, ctx[task_current].at - Size(port))
      BY <1>2 DEF SavedAs, Image
    <3> QED BY <3>1, <3>2 DEF Sp
  <2>6. IsCpu(port, c)
    OBVIOUS
  <2> HIDE DEF c
  <2>4. /\ isr_nesting' = isr_nesting - 1 /\ task_current' = task_current /\ ctx' = ctx
        /\ cpu' = [c EXCEPT !.ie = TRUE]
        /\ stack' = Msp430!Cut(c.sp)
    BY <2>1, <2>2 DEF Msp430!arch_contextrestore_i
  <2>5. /\ stack' = [t \in Task |-> stack'[t]]
        /\ \A t \in Task : t # task_current => stack'[t] = stack[t]
    BY <2>3, <2>4 DEF Msp430!Cut
  <2>7. c = [reg |-> c.reg, ie |-> c.ie, sp |-> c.sp]
    BY <2>6 DEF IsCpu, IsView
  <2>8. cpu' = [reg |-> c.reg, ie |-> TRUE, sp |-> c.sp]
    BY <2>4, <2>7
  <2>9. IsCpu(port, cpu') /\ cpu'.reg = c.reg /\ cpu'.sp = c.sp /\ cpu'.ie = TRUE
    BY <2>6, <2>8 DEF IsCpu, IsView
  <2> QED BY <1>2, <2>4, <2>5, <2>9 DEF ResumesTask, c
<1>3. CASE port = "linux"
  <2>1. Linux!arch_contextrestore_i
    BY <1>3 DEF arch_contextrestore_i
  <2>2. c = ctx[task_current]
    BY <1>3 DEF SavedAs
  <2> HIDE DEF c
  <2>4. /\ isr_nesting' = isr_nesting - 1 /\ task_current' = task_current /\ ctx' = ctx
        /\ cpu' = c
        /\ stack' = Linux!Cut(Linux!Sp(cpu.sp.of, cpu.sp.at - 1))
    BY <2>1, <2>2 DEF Linux!arch_contextrestore_i, Linux!Resumed
  <2>5. stack' = [t \in Task |-> stack'[t]]
    BY <2>4 DEF Linux!Cut
  <2>6. IsCpu(port, c)
    BY DEF c
  <2>7. cpu'.ie = IF port = "msp430" THEN TRUE ELSE c.ie
    BY <1>3, <2>4
  <2> QED BY <1>3, <2>4, <2>5, <2>6, <2>7 DEF ResumesTask, c
<1> QED BY <1>1, <1>2, <1>3

\* The effect of the return from a nested handler on the stack of task q.
ResumesHandler(c, q, n) ==
    /\ isr_nesting' = isr_nesting - 1
    /\ task_current' = task_current
    /\ ctx' = ctx
    /\ IsCpu(port, cpu') /\ cpu'.reg = c.reg /\ cpu'.sp = c.sp
    /\ cpu'.ie = CASE port = "avr" -> c.ie
                   [] port = "msp430" -> TRUE
                   [] port = "linux" -> ctx[task_current].ie
    /\ stack' = [stack EXCEPT ![q] = SubSeq(@, 1, n)]

LEMMA NestedRestore ==
    ASSUME port \in {"avr", "msp430", "linux"}, IsCpu(port, cpu),
           isr_nesting \in Nat, isr_nesting > 1,
           NEW q \in Task, NEW n \in Nat, NEW k \in Nat, k = n + Size(port), cpu.sp = Sp(q, k),
           Row(stack[q], k), IsCpu(port, Image(port, stack[q], Sp(q, k))),
           port = "linux" => ctx[task_current].ie \in BOOLEAN,
           arch_contextrestore_i
    PROVE  ResumesHandler(Image(port, stack[q], Sp(q, k)), q, n)
<1> DEFINE c == Image(port, stack[q], Sp(q, k))
<1>0. cpu.sp.of = q /\ cpu.sp.at = k /\ isr_nesting # 1
  BY DEF Sp
<1>c. IsCpu(port, c)
  OBVIOUS
<1>1. CASE port = "avr"
  <2>1. Avr!arch_contextrestore_i
    BY <1>1 DEF arch_contextrestore_i
  <2>2. Avr!Popped(cpu.sp) = c
    BY <1>0, <1>1, AvrPopped
  <2>3. c.sp.of = q /\ c.sp.at = n
    <3>1. Size(port) = 35
      BY <1>1 DEF Size
    <3>2. c.sp = Sp(q, k - Size(port))
      BY <1>1 DEF Image, Sp
    <3> QED BY <3>1, <3>2 DEF Sp
  <2> HIDE DEF c
  <2>4. /\ isr_nesting' = isr_nesting - 1 /\ task_current' = task_current /\ ctx' = ctx
        /\ cpu' = c
        /\ stack' = Avr!Cut(c.sp)
    BY <1>0, <2>1, <2>2 DEF Avr!arch_contextrestore_i
  <2>5. stack' = [stack EXCEPT ![q] = SubSeq(@, 1, n)]
    BY <2>3, <2>4 DEF Avr!Cut
  <2>6. IsCpu(port, cpu') /\ cpu'.reg = c.reg /\ cpu'.sp = c.sp /\ cpu'.ie = c.ie
    BY <1>c, <2>4
  <2> QED BY <1>1, <2>4, <2>5, <2>6 DEF ResumesHandler, c
<1>2. CASE port = "msp430"
  <2>1. Msp430!arch_contextrestore_i
    BY <1>2 DEF arch_contextrestore_i
  <2>2. Msp430!Popped(cpu.sp) = c
    BY <1>0, <1>2, MspPopped
  <2>3. c.sp.of = q /\ c.sp.at = n
    <3>1. Size(port) = 14
      BY <1>2 DEF Size
    <3>2. c.sp = Sp(q, k - Size(port))
      BY <1>2 DEF Image, Sp
    <3> QED BY <3>1, <3>2 DEF Sp
  <2> HIDE DEF c
  <2>4. /\ isr_nesting' = isr_nesting - 1 /\ task_current' = task_current /\ ctx' = ctx
        /\ cpu' = [c EXCEPT !.ie = TRUE]
        /\ stack' = Msp430!Cut(c.sp)
    BY <1>0, <2>1, <2>2 DEF Msp430!arch_contextrestore_i
  <2>5. stack' = [stack EXCEPT ![q] = SubSeq(@, 1, n)]
    BY <2>3, <2>4 DEF Msp430!Cut
  <2>7. c = [reg |-> c.reg, ie |-> c.ie, sp |-> c.sp]
    BY <1>c DEF IsCpu, IsView
  <2>8. cpu' = [reg |-> c.reg, ie |-> TRUE, sp |-> c.sp]
    BY <2>4, <2>7
  <2>9. IsCpu(port, cpu') /\ cpu'.reg = c.reg /\ cpu'.sp = c.sp /\ cpu'.ie = TRUE
    BY <1>c, <2>8 DEF IsCpu, IsView
  <2> QED BY <1>2, <2>4, <2>5, <2>9 DEF ResumesHandler, c
<1>3. CASE port = "linux"
  <2>1. Linux!arch_contextrestore_i
    BY <1>3 DEF arch_contextrestore_i
  <2>2. Linux!Last(stack[q]) = c
    <3>1. Len(stack[q]) = k
      BY RowIsSeq
    <3> QED BY <1>3, <3>1 DEF Linux!Last, Image, Sp
  <2>3. k - 1 = n
    BY <1>3 DEF Size
  <2> HIDE DEF c
  <2> DEFINE ie == ctx[task_current].ie
  <2>i. ie \in BOOLEAN
    BY <1>3
  <2>4. /\ isr_nesting' = isr_nesting - 1 /\ task_current' = task_current /\ ctx' = ctx
        /\ cpu' = [c EXCEPT !.ie = ie]
        /\ stack' = Linux!Cut(Linux!Sp(q, n))
    BY <1>0, <2>1, <2>2, <2>3 DEF Linux!arch_contextrestore_i, Linux!Resumed
  <2> HIDE DEF ie
  <2>5. stack' = [stack EXCEPT ![q] = SubSeq(@, 1, n)]
    BY <2>4 DEF Linux!Cut, Linux!Sp
  <2>7. c = [reg |-> c.reg, ie |-> c.ie, sp |-> c.sp]
    BY <1>c DEF IsCpu, IsView
  <2>8. cpu' = [reg |-> c.reg, ie |-> ie, sp |-> c.sp]
    BY <2>4, <2>7
  <2>9. IsCpu(port, cpu') /\ cpu'.reg = c.reg /\ cpu'.sp = c.sp /\ cpu'.ie = ie
    BY <1>c, <2>i, <2>8 DEF IsCpu, IsView
  <2> QED BY <1>3, <2>4, <2>5, <2>9 DEF ResumesHandler, c, ie
<1> QED BY <1>1, <1>2, <1>3

\* The effect of a switch from task_current to new_task.
Switches(new_task) ==
    /\ isr_nesting' = isr_nesting
    /\ task_current' = new_task
    /\ cpu' = SavedAs(port, stack, ctx, new_task)
    /\ stack' = [t \in Task |-> stack'[t]]
    /\ \A t \in Task : t \notin {task_current, new_task} => stack'[t] = stack[t]
    /\ ctx' = [ctx EXCEPT ![task_current] = ctx'[task_current]]
    /\ port # "linux" => ctx'[task_current] = Sp(task_current, Size(port))
    /\ IsCpu(port, SavedAs(port, stack', ctx', task_current))
    /\ SavedAs(port, stack', ctx', task_current).ie = cpu.ie
    /\ SavedAs(port, stack', ctx', task_current).sp = cpu.sp
    /\ \A r \in CallSaved : SavedAs(port, stack', ctx', task_current).reg[r] = cpu.reg[r]

LEMMA AvrSwitches ==
    ASSUME port = "avr", IsCpu(port, cpu), ~cpu.ie,
           task_current \in Task, NEW new \in Task, new # task_current,
           cpu.sp = Sp(task_current, 0), ctx[new] = Sp(new, Size(port)),
           stack = [t \in Task |-> stack[t]], ctx = [t \in Task |-> ctx[t]],
           Avr!arch_context_switch(new)
    PROVE  Switches(new)
<1> DEFINE f == Avr!SwitchFrame
           x == Over(stack[task_current], 0, f)
           c == SavedAs(port, stack, ctx, new)
           s == Restores(port, f, task_current, 0)
<1>1. /\ Row(f, 35) /\ IsCpu(port, s) /\ ~s.ie /\ s.sp = Sp(task_current, 0)
      /\ \A r \in Avr!CallSaved : s.reg[r] = cpu.reg[r]
  BY AvrSwitchFrame
<1>2. Size(port) = 35 /\ port \in {"avr", "msp430"} /\ 35 \in Nat /\ 0 \in Nat /\ 35 = 0 + 35
  BY DEF Size
<1>3. cpu.sp.of = task_current /\ cpu.sp.at = 0
  BY DEF Sp
<1>4. Avr!Popped(ctx[new]) = c
  BY AvrPopped DEF SavedAs
<1>5. Len(f) = 35
  BY <1>1, RowIsSeq
<1> HIDE DEF f, c
<1>6. /\ ctx' = [ctx EXCEPT ![task_current] = Sp(task_current, 35)]
      /\ task_current' = new
      /\ cpu' = c
      /\ isr_nesting' = isr_nesting
  BY <1>3, <1>4, <1>5 DEF Avr!arch_context_switch, f, Avr!Sp, Sp
<1>7. stack' = [Avr!Pushed(cpu.sp, f) EXCEPT ![new] = SubSeq(@, 1, c.sp.at)]
  BY <1>4 DEF Avr!arch_context_switch, f
<1>8. Avr!Pushed(cpu.sp, f) = [stack EXCEPT ![task_current] = x]
  BY <1>3 DEF Avr!Pushed, Over
<1>9. Row(x, 35) /\ Image(port, x, Sp(task_current, 35)) = s
  BY <1>1, <1>2, PushedFrame
<1> HIDE DEF x, s
<1>10. /\ stack' = [t \in Task |-> stack'[t]]
       /\ \A t \in Task : t \notin {task_current, new} => stack'[t] = stack[t]
       /\ stack'[task_current] = x
  BY <1>7, <1>8
<1>11. ctx'[task_current] = Sp(task_current, 35) /\ ctx' = [ctx EXCEPT ![task_current] = ctx'[task_current]]
  BY <1>6
<1>12. SavedAs(port, stack', ctx', task_current) = s
  BY <1>9, <1>10, <1>11 DEF SavedAs, Sp
<1>13. s.ie = cpu.ie
  <2>1. s.ie \in BOOLEAN /\ cpu.ie \in BOOLEAN
    BY <1>1 DEF IsCpu
  <2> QED BY <1>1, <2>1
<1>14. CallSaved = Avr!CallSaved
  BY DEF CallSaved
<1> QED BY <1>1, <1>2, <1>6, <1>10, <1>11, <1>12, <1>13, <1>14 DEF Switches, c

LEMMA MspSwitches ==
    ASSUME port = "msp430", IsCpu(port, cpu),
           task_current \in Task, NEW new \in Task, new # task_current,
           cpu.sp = Sp(task_current, 0), ctx[new] = Sp(new, Size(port)),
           stack = [t \in Task |-> stack[t]], ctx = [t \in Task |-> ctx[t]],
           Msp430!arch_context_switch(new)
    PROVE  Switches(new)
<1> DEFINE f == Msp430!Frame(cpu.ie)
           x == Over(stack[task_current], 0, f)
           c == SavedAs(port, stack, ctx, new)
<1>1. Row(f, 14) /\ Restores(port, f, task_current, 0) = [reg |-> cpu.reg, ie |-> cpu.ie, sp |-> Sp(task_current, 0)]
  BY MspFrame
<1>s. Restores(port, f, task_current, 0) = cpu
  BY <1>1 DEF IsCpu, IsView
<1>2. Size(port) = 14 /\ port \in {"avr", "msp430"} /\ 14 \in Nat /\ 0 \in Nat /\ 14 = 0 + 14
  BY DEF Size
<1>3. cpu.sp.of = task_current /\ cpu.sp.at = 0
  BY DEF Sp
<1>4. Msp430!Popped(ctx[new]) = c
  BY MspPopped DEF SavedAs
<1> HIDE DEF f, c
<1>6. /\ ctx' = [ctx EXCEPT ![task_current] = Sp(task_current, 14)]
      /\ task_current' = new
      /\ cpu' = c
      /\ isr_nesting' = isr_nesting
  BY <1>3, <1>4 DEF Msp430!arch_context_switch, f, Msp430!Sp, Sp
<1>7. stack' = [Msp430!Pushed(cpu.sp, f) EXCEPT ![new] = SubSeq(@, 1, c.sp.at)]
  BY <1>4 DEF Msp430!arch_context_switch, f
<1>8. Msp430!Pushed(cpu.sp, f) = [stack EXCEPT ![task_current] = x]
  BY <1>3 DEF Msp430!Pushed, Over
<1>9. Row(x, 14) /\ Image(port, x, Sp(task_current, 14)) = cpu
  <2>1. Row(f, 14)
    BY <1>1
  <2>2. /\ Row(x, 14)
        /\ Image(port, x, Sp(task_current, 14)) = Restores(port, f, task_current, 0)
    BY <1>2, <2>1, PushedFrame
  <2> QED BY <1>s, <2>2
<1> HIDE DEF x
<1>10. /\ stack' = [t \in Task |-> stack'[t]]
       /\ \A t \in Task : t \notin {task_current, new} => stack'[t] = stack[t]
       /\ stack'[task_current] = x
  BY <1>7, <1>8
<1>11. ctx'[task_current] = Sp(task_current, 14) /\ ctx' = [ctx EXCEPT ![task_current] = ctx'[task_current]]
  BY <1>6
<1>12. SavedAs(port, stack', ctx', task_current) = cpu
  BY <1>9, <1>10, <1>11 DEF SavedAs, Sp
<1> QED BY <1>2, <1>6, <1>10, <1>11, <1>12 DEF Switches, c

LEMMA LinuxSwitches ==
    ASSUME port = "linux", IsCpu(port, cpu),
           task_current \in Task, NEW new \in Task, new # task_current,
           stack = [t \in Task |-> stack[t]], ctx = [t \in Task |-> ctx[t]],
           Linux!arch_context_switch(new)
    PROVE  Switches(new)
<1> DEFINE reg == [r \in Linux!Registers |-> IF r \in Linux!CallSaved THEN cpu.reg[r] ELSE Linux!Junk]
           s == [cpu EXCEPT !.reg = reg]
           c == SavedAs(port, stack, ctx, new)
<1>1. /\ ctx' = [ctx EXCEPT ![task_current] = s]
      /\ task_current' = new
      /\ cpu' = c
      /\ stack' = stack
      /\ isr_nesting' = isr_nesting
  BY DEF Linux!arch_context_switch, Linux!arch_sig_switch, SavedAs
<1>2. SavedAs(port, stack', ctx', task_current) = s /\ ctx' = [ctx EXCEPT ![task_current] = ctx'[task_current]]
  BY <1>1 DEF SavedAs
<1> HIDE DEF c
<1>3. cpu = [reg |-> cpu.reg, ie |-> cpu.ie, sp |-> cpu.sp] /\ cpu.ie \in BOOLEAN
  BY DEF IsCpu, IsView
<1>4. reg = [r \in Linux!Registers |-> reg[r]] /\ \A r \in Linux!CallSaved : reg[r] = cpu.reg[r]
  BY DEF Linux!CallSaved, Linux!Registers, Linux!PC, Linux!FP
<1> HIDE DEF reg
<1>5. s = [reg |-> reg, ie |-> cpu.ie, sp |-> cpu.sp]
  BY <1>3
<1> HIDE DEF s
<1>6. s.reg = reg /\ s.ie = cpu.ie /\ s.sp = cpu.sp
  BY <1>5
<1>7. IsCpu(port, s)
  BY <1>3, <1>4, <1>5, <1>6 DEF IsCpu, IsView, RegistersOf
<1>8. CallSaved = Linux!CallSaved
  BY DEF CallSaved
<1> QED BY <1>1, <1>2, <1>4, <1>6, <1>7, <1>8 DEF Switches, c

\* The effect of arch_task_init.
Creates(t) ==
    /\ UNCHANGED <<cpu, task_current, isr_nesting>>
    /\ stack' = [stack EXCEPT ![t] = stack'[t]]
    /\ ctx' = [ctx EXCEPT ![t] = ctx'[t]]
    /\ port # "linux" => ctx'[t] = Sp(t, Size(port))
    /\ IsCpu(port, SavedAs(port, stack', ctx', t))
    /\ SavedAs(port, stack', ctx', t).ie = IF port = "linux" THEN cpu.ie ELSE TRUE
    /\ SavedAs(port, stack', ctx', t).sp = Sp(t, 0)
    /\ \A r \in DOMAIN StartArgs(t) : SavedAs(port, stack', ctx', t).reg[r] = StartArgs(t)[r]

\* A frame is a stack that nothing is below.
LEMMA FrameAlone ==
    ASSUME NEW p \in {"avr", "msp430"}, NEW f, NEW t
    PROVE  Image(p, f, Sp(t, Size(p))) = Restores(p, f, t, 0)
<1>1. Size(p) \in Nat /\ Size(p) = 0 + Size(p) /\ 0 \in Nat
  BY DEF Size
<1>2. Halves(f, 0, f, f, Size(p))
  BY <1>1 DEF Halves
<1> QED BY <1>1, <1>2, PushedImage

LEMMA AvrCreates ==
    ASSUME port = "avr", NEW t \in Task,
           stack = [u \in Task |-> stack[u]], ctx = [u \in Task |-> ctx[u]],
           Avr!arch_task_init(t)
    PROVE  Creates(t)
<1> DEFINE f == Avr!InitFrame(t)
           s == Restores(port, f, t, 0)
<1>1. /\ Row(f, 35) /\ IsCpu(port, s) /\ s.ie /\ s.sp = Sp(t, 0)
      /\ \A r \in DOMAIN Avr!StartArgs(t) : s.reg[r] = Avr!StartArgs(t)[r]
  BY AvrInitFrame
<1>2. Size(port) = 35 /\ port \in {"avr", "msp430"}
  BY DEF Size
<1>3. Len(f) = 35
  BY <1>1, RowIsSeq
<1> HIDE DEF f
<1>4. /\ stack' = [stack EXCEPT ![t] = f]
      /\ ctx' = [ctx EXCEPT ![t] = Sp(t, 35)]
      /\ UNCHANGED <<cpu, task_current, isr_nesting>>
  BY <1>3 DEF Avr!arch_task_init, f, Avr!Sp, Sp
<1>5. stack'[t] = f /\ ctx'[t] = Sp(t, 35)
  BY <1>4
<1>6. Image(port, f, Sp(t, 35)) = s
  BY <1>2, FrameAlone
<1> HIDE DEF s
<1>7. SavedAs(port, stack', ctx', t) = s
  BY <1>5, <1>6 DEF SavedAs, Sp
<1>8. StartArgs(t) = Avr!StartArgs(t)
  BY DEF StartArgs
<1>9. s.ie = TRUE
  <2>1. s.ie \in BOOLEAN
    BY <1>1 DEF IsCpu
  <2> QED BY <1>1, <2>1
<1>10. stack' = [stack EXCEPT ![t] = stack'[t]] /\ ctx' = [ctx EXCEPT ![t] = ctx'[t]]
  BY <1>4, <1>5
<1>11. SavedAs(port, stack', ctx', t).ie = IF port = "linux" THEN cpu.ie ELSE TRUE
  BY <1>7, <1>9
<1>12. /\ IsCpu(port, SavedAs(port, stack', ctx', t))
       /\ SavedAs(port, stack', ctx', t).sp = Sp(t, 0)
       /\ \A r \in DOMAIN StartArgs(t) : SavedAs(port, stack', ctx', t).reg[r] = StartArgs(t)[r]
  BY <1>1, <1>7, <1>8
<1>13. port # "linux" => ctx'[t] = Sp(t, Size(port))
  BY <1>2, <1>5
<1> QED BY <1>4, <1>10, <1>11, <1>12, <1>13 DEF Creates

LEMMA MspCreates ==
    ASSUME port = "msp430", NEW t \in Task,
           stack = [u \in Task |-> stack[u]], ctx = [u \in Task |-> ctx[u]],
           Msp430!arch_task_init(t)
    PROVE  Creates(t)
<1> DEFINE f == Msp430!InitFrame(t)
           s == Restores(port, f, t, 0)
<1>1. /\ Row(f, 14) /\ IsCpu(port, s) /\ s.ie /\ s.sp = Sp(t, 0)
      /\ \A r \in DOMAIN Msp430!StartArgs(t) : s.reg[r] = Msp430!StartArgs(t)[r]
  BY MspInitFrame
<1>2. Size(port) = 14 /\ port \in {"avr", "msp430"}
  BY DEF Size
<1>3. Len(f) = 14
  BY <1>1, RowIsSeq
<1> HIDE DEF f
<1>4. /\ stack' = [stack EXCEPT ![t] = f]
      /\ ctx' = [ctx EXCEPT ![t] = Sp(t, 14)]
      /\ UNCHANGED <<cpu, task_current, isr_nesting>>
  BY <1>3 DEF Msp430!arch_task_init, f, Msp430!Sp, Sp
<1>5. stack'[t] = f /\ ctx'[t] = Sp(t, 14)
  BY <1>4
<1>6. Image(port, f, Sp(t, 14)) = s
  BY <1>2, FrameAlone
<1> HIDE DEF s
<1>7. SavedAs(port, stack', ctx', t) = s
  BY <1>5, <1>6 DEF SavedAs, Sp
<1>8. StartArgs(t) = Msp430!StartArgs(t)
  BY DEF StartArgs
<1>9. s.ie = TRUE
  <2>1. s.ie \in BOOLEAN
    BY <1>1 DEF IsCpu
  <2> QED BY <1>1, <2>1
<1>10. stack' = [stack EXCEPT ![t] = stack'[t]] /\ ctx' = [ctx EXCEPT ![t] = ctx'[t]]
  BY <1>4, <1>5
<1>11. SavedAs(port, stack', ctx', t).ie = IF port = "linux" THEN cpu.ie ELSE TRUE
  BY <1>7, <1>9
<1>12. /\ IsCpu(port, SavedAs(port, stack', ctx', t))
       /\ SavedAs(port, stack', ctx', t).sp = Sp(t, 0)
       /\ \A r \in DOMAIN StartArgs(t) : SavedAs(port, stack', ctx', t).reg[r] = StartArgs(t)[r]
  BY <1>1, <1>7, <1>8
<1>13. port # "linux" => ctx'[t] = Sp(t, Size(port))
  BY <1>2, <1>5
<1> QED BY <1>4, <1>10, <1>11, <1>12, <1>13 DEF Creates

LEMMA LinuxCreates ==
    ASSUME port = "linux", IsCpu(port, cpu), NEW t \in Task,
           stack = [u \in Task |-> stack[u]], ctx = [u \in Task |-> ctx[u]],
           Linux!arch_task_init(t)
    PROVE  Creates(t)
<1> DEFINE A == Linux!StartArgs(t)
           reg == [r \in Linux!Registers |-> IF r \in DOMAIN A THEN A[r] ELSE Linux!Junk]
           s == [reg |-> reg, ie |-> cpu.ie, sp |-> Sp(t, 0)]
<1>1. /\ stack' = [stack EXCEPT ![t] = <<>>]
      /\ ctx' = [ctx EXCEPT ![t] = s]
      /\ UNCHANGED <<cpu, task_current, isr_nesting>>
  BY DEF Linux!arch_task_init, Linux!Sp, Sp
<1>2. DOMAIN A \subseteq Linux!Registers
  BY DEF Linux!StartArgs, Linux!Registers, Linux!RDI, Linux!RSI, Linux!PC
<1> HIDE DEF A
<1>3. reg = [r \in Linux!Registers |-> reg[r]] /\ \A r \in DOMAIN A : reg[r] = A[r]
  BY <1>2
<1> HIDE DEF reg
<1>4. s.reg = reg /\ s.ie = cpu.ie /\ s.sp = Sp(t, 0) /\ cpu.ie \in BOOLEAN
  BY DEF IsCpu
<1>5. IsCpu(port, s)
  BY <1>3, <1>4 DEF IsCpu, IsView, RegistersOf
<1> HIDE DEF s
<1>6. SavedAs(port, stack', ctx', t) = s
  BY <1>1 DEF SavedAs
<1>7. StartArgs(t) = A
  BY DEF StartArgs, A
<1>8. stack' = [stack EXCEPT ![t] = stack'[t]] /\ ctx' = [ctx EXCEPT ![t] = ctx'[t]]
  BY <1>1
<1> QED BY <1>1, <1>3, <1>4, <1>5, <1>6, <1>7, <1>8 DEF Creates

---------------------------------------------------------------------------
(* Every action preserves the invariant.                                   *)

LEMMA SizeOf ==
    ASSUME NEW p \in {"avr", "msp430", "linux"}
    PROVE  Size(p) \in Nat \ {0}
BY DEF Size

LEMMA DepthFacts ==
    ASSUME NEW p \in {"avr", "msp430", "linux"}
    PROVE  /\ Depth(p, 0) = 0
           /\ \A k \in Nat : Depth(p, k) \in Nat /\ Depth(p, k + 1) = Depth(p, k) + Size(p)
           /\ \A j, k \in Nat : j < k => Depth(p, j) + Size(p) <= Depth(p, k)
<1>1. CASE p = "avr"
  BY <1>1 DEF Depth, Size
<1>2. CASE p = "msp430"
  BY <1>2 DEF Depth, Size
<1>3. CASE p = "linux"
  BY <1>3 DEF Depth, Size
<1> QED BY <1>1, <1>2, <1>3

\* The programs do not overlap.
LEMMA Programs ==
    ASSUME PortTypeOK
    PROVE  /\ Running \in Program
           /\ task_current \in Task
           /\ \A t \in Task : t \in Program /\ t \notin 1 .. MaxNesting
           /\ \A k \in 1 .. MaxNesting : k \in Program /\ k \notin Task
           /\ \A k \in 1 .. isr_nesting : k \in 1 .. MaxNesting
           /\ \A k \in 1 .. (isr_nesting - 1) : k \in 1 .. isr_nesting /\ k # isr_nesting /\ k + 1 \in 1 .. isr_nesting
           /\ isr_nesting \in Nat /\ (isr_nesting > 0 => isr_nesting \in 1 .. MaxNesting)
           /\ isr_nesting = 0 => Running = task_current
           /\ isr_nesting > 0 => Running = isr_nesting
BY NestingAssumption, ProgramAssumption DEF PortTypeOK, Program, Running

LEMMA ContextInit == AtomicInit => ContextInv
<1> SUFFICES ASSUME AtomicInit PROVE ContextInv
  OBVIOUS
<1>1. /\ port \in {"avr", "msp430", "linux"} /\ port \in Ports
      /\ cpu = [reg |-> Work(port, Idle, "v0"), ie |-> FALSE, sp |-> Sp(Idle, 0)]
      /\ stack = [t \in Task |-> <<>>]
      /\ ctx = [t \in Task |-> Sp(t, 0)]
      /\ task_current = Idle
      /\ isr_nesting = 0
      /\ cristate = [o \in Program |-> <<>>]
      /\ created = {Idle}
      /\ view = [o \in Program |-> IF o = Idle THEN cpu ELSE NoView]
  BY PortsAssumption DEF AtomicInit, PortInit
<1>2. IsCpu(port, cpu)
  BY <1>1 DEF IsCpu, IsView, Work
<1>3. Idle \in Task /\ Idle \in Program /\ Running = Idle /\ view[Idle] = cpu
  BY <1>1, IdleAssumption DEF Program, Running
<1>4. \A o \in Program : IsView(view[o])
  BY <1>1, <1>2 DEF IsCpu, IsView, NoView
<1>5. PortTypeOK
  <2>1. cristate \in [Program -> Seq(BOOLEAN)]
    BY <1>1
  <2>2. stack = [t \in Task |-> stack[t]] /\ ctx = [t \in Task |-> ctx[t]] /\ view = [o \in Program |-> view[o]]
    BY <1>1
  <2>3. isr_nesting \in 0 .. MaxNesting
    BY <1>1, NestingAssumption
  <2> QED BY <1>1, <1>2, <1>3, <1>4, <2>1, <2>2, <2>3 DEF PortTypeOK
<1>6. TaskViews
  <2>1. PC \in RegistersOf(port)
    BY <1>1 DEF RegistersOf, PC, Avr!Registers, Avr!PC, Msp430!Registers, Msp430!PC,
                Linux!Registers, Linux!PC
  <2> QED BY <1>1, <1>3, <2>1 DEF TaskViews, Work
<1>7. SavedTasks /\ Handlers
  BY <1>1 DEF SavedTasks, Handlers
<1>8. ContextKept
  BY <1>3 DEF ContextKept, Finds
<1> QED BY <1>5, <1>6, <1>7, <1>8 DEF ContextInv

\* The program that runs changes the processor and its own view of it.
LocalStep ==
    /\ UNCHANGED <<port, stack, ctx, task_current, isr_nesting, created>>
    /\ cristate' \in [Program -> Seq(BOOLEAN)]
    /\ IsCpu(port, cpu') /\ cpu'.sp = cpu.sp
    /\ view' = [view EXCEPT ![Running] = view'[Running]]
    /\ IsView(view'[Running])
    /\ view'[Running].sp = view[Running].sp
    /\ PC \in DOMAIN view[Running].reg => PC \in DOMAIN view'[Running].reg
    /\ Finds(view'[Running], cpu')

LEMMA LocalInv == ContextInv /\ LocalStep => ContextInv'
<1> SUFFICES ASSUME ContextInv, LocalStep PROVE ContextInv'
  OBVIOUS
<1>0. PortTypeOK /\ TaskViews /\ SavedTasks /\ Handlers
  BY DEF ContextInv
<1> USE Programs
<1>1. \A o \in Program : o # Running => view'[o] = view[o]
  BY <1>0 DEF LocalStep, PortTypeOK
<1>2. Running' = Running
  BY DEF LocalStep, Running
<1>3. PortTypeOK'
  <2>1. \A o \in Program : IsView(view'[o])
    BY <1>0, <1>1 DEF LocalStep, PortTypeOK
  <2>2. view' = [o \in Program |-> view'[o]]
    BY <1>0 DEF LocalStep, PortTypeOK
  <2> QED BY <1>0, <2>1, <2>2 DEF LocalStep, PortTypeOK
<1>4. TaskViews'
  BY <1>0, <1>1 DEF LocalStep, TaskViews, PortTypeOK
<1>5. SavedTasks'
  <2>1. \A t \in created : (isr_nesting > 0 \/ t # task_current) => view'[t] = view[t]
    BY <1>0, <1>1 DEF PortTypeOK
  <2> QED BY <1>0, <2>1 DEF LocalStep, SavedTasks
<1>6. Handlers'
  <2>1. \A k \in 1 .. (isr_nesting - 1) : view'[k] = view[k]
    BY <1>0, <1>1
  <2>2. \A k \in 1 .. isr_nesting : view'[k].sp = view[k].sp
    BY <1>0, <1>1 DEF LocalStep
  <2> QED BY <1>0, <2>1, <2>2 DEF LocalStep, Handlers
<1>7. ContextKept'
  BY <1>2 DEF LocalStep, ContextKept
<1> QED BY <1>3, <1>4, <1>5, <1>6, <1>7 DEF ContextInv

LEMMA SetIe ==
    ASSUME NEW v, IsView(v), NEW x
    PROVE  /\ IsView([v EXCEPT !.ie = x])
           /\ [v EXCEPT !.ie = x].reg = v.reg
           /\ [v EXCEPT !.ie = x].ie = x
           /\ [v EXCEPT !.ie = x].sp = v.sp
<1> DEFINE w == [v EXCEPT !.ie = x]
<1>1. w = [reg |-> v.reg, ie |-> x, sp |-> v.sp]
  BY DEF IsView
<1> HIDE DEF w
<1>2. w.reg = v.reg /\ w.ie = x /\ w.sp = v.sp
  BY <1>1
<1>3. IsView(w)
  BY <1>1, <1>2 DEF IsView
<1> QED BY <1>2, <1>3 DEF w

LEMMA SetReg ==
    ASSUME NEW v, IsView(v), NEW x
    PROVE  /\ IsView([v EXCEPT !.reg = x])
           /\ [v EXCEPT !.reg = x].reg = x
           /\ [v EXCEPT !.reg = x].ie = v.ie
           /\ [v EXCEPT !.reg = x].sp = v.sp
<1> DEFINE w == [v EXCEPT !.reg = x]
<1>1. w = [reg |-> x, ie |-> v.ie, sp |-> v.sp]
  BY DEF IsView
<1> HIDE DEF w
<1>2. w.reg = x /\ w.ie = v.ie /\ w.sp = v.sp
  BY <1>1
<1>3. IsView(w)
  BY <1>1, <1>2 DEF IsView
<1> QED BY <1>2, <1>3 DEF w

LEMMA SetBoth ==
    ASSUME NEW v, IsView(v), NEW x, NEW y
    PROVE  [v EXCEPT !.reg = x, !.ie = y] = [reg |-> x, ie |-> y, sp |-> v.sp]
<1>1. DOMAIN v = {"reg", "ie", "sp"}
  BY DEF IsView
<1> DEFINE w == [v EXCEPT !.reg = x, !.ie = y]
<1>2. w.reg = x /\ w.ie = y /\ w.sp = v.sp /\ w = [i \in {"reg", "ie", "sp"} |-> w[i]]
  BY <1>1
<1> HIDE DEF w
<1>3. w = [reg |-> x, ie |-> y, sp |-> v.sp]
  BY <1>2
<1> QED BY <1>3 DEF w

\* A step that changes the interrupt flag, and the view of it.
LEMMA FlagStep ==
    ASSUME ContextInv, NEW x \in BOOLEAN, NEW y,
           UNCHANGED <<port, stack, ctx, task_current, isr_nesting, created>>,
           cristate' \in [Program -> Seq(BOOLEAN)],
           cpu' = [cpu EXCEPT !.ie = x],
           view' = [view EXCEPT ![Running] = [view[Running] EXCEPT !.ie = y]]
    PROVE  /\ LocalStep
           /\ cpu'.ie = x /\ cpu'.reg = cpu.reg
           /\ view'[Running].ie = y /\ view'[Running].reg = view[Running].reg
<1>1. /\ PortTypeOK /\ Running \in Program /\ IsView(view[Running]) /\ IsView(cpu)
      /\ view = [o \in Program |-> view[o]]
  BY Programs DEF ContextInv, PortTypeOK, IsCpu
<1> DEFINE w == [view[Running] EXCEPT !.ie = y]
           c == [cpu EXCEPT !.ie = x]
<1>2. IsView(w) /\ w.reg = view[Running].reg /\ w.sp = view[Running].sp /\ w.ie = y
  BY <1>1, SetIe
<1>3. IsView(c) /\ c.reg = cpu.reg /\ c.sp = cpu.sp /\ c.ie = x
  BY <1>1, SetIe
<1>4. view'[Running] = w
  BY <1>1
<1>5. view' = [view EXCEPT ![Running] = view'[Running]]
  BY <1>4
<1> HIDE DEF w, c
<1>6. cpu' = c
  BY DEF c
<1>7. IsCpu(port, c)
  BY <1>1, <1>3 DEF PortTypeOK, IsCpu
<1>8. Finds(w, c)
  BY <1>2, <1>3 DEF ContextInv, ContextKept, Finds
<1> QED BY <1>2, <1>3, <1>4, <1>5, <1>6, <1>7, <1>8 DEF LocalStep

LEMMA RegistersHavePc ==
    ASSUME NEW p \in {"avr", "msp430", "linux"} PROVE PC \in RegistersOf(p)
BY DEF RegistersOf, PC, Avr!Registers, Avr!PC, Msp430!Registers, Msp430!PC,
       Linux!Registers, Linux!PC

LEMMA PortIs ==
    ASSUME PortTypeOK PROVE port \in {"avr", "msp430", "linux"}
BY PortsAssumption DEF PortTypeOK

LEMMA ComputeLocal ==
    ASSUME ContextInv, NEW tag, Compute(tag)
    PROVE  /\ LocalStep
           /\ cpu'.ie = cpu.ie /\ view'[Running].ie = view[Running].ie
           /\ cpu'.reg = Work(port, Running, tag) /\ view'[Running].reg = cpu'.reg
           /\ cristate' = cristate
<1>1. /\ PortTypeOK /\ Running \in Program /\ IsView(view[Running]) /\ IsView(cpu) /\ cpu.ie \in BOOLEAN
      /\ view = [o \in Program |-> view[o]]
  BY Programs DEF ContextInv, PortTypeOK, IsCpu
<1> DEFINE W == Work(port, Running, tag)
           w == [view[Running] EXCEPT !.reg = W]
           c == [cpu EXCEPT !.reg = W]
<1>2. IsView(w) /\ w.reg = W /\ w.sp = view[Running].sp /\ w.ie = view[Running].ie
  BY <1>1, SetReg
<1>3. IsView(c) /\ c.reg = W /\ c.sp = cpu.sp /\ c.ie = cpu.ie
  BY <1>1, SetReg
<1>w. W = [r \in RegistersOf(port) |-> W[r]] /\ PC \in DOMAIN W
  BY <1>1, PortIs, RegistersHavePc DEF Work
<1> HIDE DEF W
<1>6. cpu' = c
  BY DEF Compute, W
<1> HIDE DEF c
<1>4. view'[Running] = w /\ view' = [view EXCEPT ![Running] = w]
  BY <1>1, <1>3, <1>6 DEF Compute
<1> HIDE DEF w
<1>7. IsCpu(port, c)
  BY <1>1, <1>3, <1>w DEF IsCpu
<1>8. Finds(w, c)
  BY <1>2, <1>3 DEF ContextInv, ContextKept, Finds
<1>9. UNCHANGED <<port, stack, ctx, task_current, isr_nesting, created>> /\ cristate' = cristate
  BY DEF Compute
<1>10. cristate' \in [Program -> Seq(BOOLEAN)]
  BY <1>1, <1>9 DEF PortTypeOK
<1> QED BY <1>2, <1>3, <1>4, <1>w, <1>6, <1>7, <1>8, <1>9, <1>10 DEF LocalStep, W

LEMMA TaskStartLocal ==
    ASSUME ContextInv, arch_task_start
    PROVE  /\ LocalStep
           /\ isr_nesting = 0
           /\ cpu'.ie = ((port = "linux") \/ cpu.ie)
           /\ cpu'.reg = Work(port, task_current, "v0")
           /\ view'[Running] = cpu'
           /\ cristate' = cristate
<1>1. /\ PortTypeOK /\ Running \in Program /\ IsView(view[Running]) /\ IsView(cpu) /\ cpu.ie \in BOOLEAN
      /\ view = [o \in Program |-> view[o]] /\ isr_nesting = 0 /\ Running = task_current
  BY Programs DEF ContextInv, PortTypeOK, IsCpu, arch_task_start
<1> DEFINE W == Work(port, task_current, "v0")
           x == (port = "linux") \/ cpu.ie
           c == [cpu EXCEPT !.reg = W, !.ie = x]
<1>x. x \in BOOLEAN
  OBVIOUS
<1>w. W = [r \in RegistersOf(port) |-> W[r]] /\ PC \in DOMAIN W
  BY <1>1, PortIs, RegistersHavePc DEF Work
<1>6. cpu' = c
  BY DEF arch_task_start
<1> HIDE DEF W, x
<1>3. c = [reg |-> W, ie |-> x, sp |-> cpu.sp]
  BY <1>1, SetBoth
<1> HIDE DEF c
<1>5. c.reg = W /\ c.ie = x /\ c.sp = cpu.sp
  BY <1>3
<1>4. view'[Running] = c /\ view' = [view EXCEPT ![Running] = c]
  BY <1>1, <1>6 DEF arch_task_start
<1>7. IsCpu(port, c)
  BY <1>3, <1>5, <1>w, <1>x DEF IsCpu, IsView
<1>8. Finds(c, c)
  BY DEF Finds
<1>9. UNCHANGED <<port, stack, ctx, task_current, isr_nesting, created>> /\ cristate' = cristate
  BY DEF arch_task_start
<1>10. cristate' \in [Program -> Seq(BOOLEAN)]
  BY <1>1, <1>9 DEF PortTypeOK
<1>11. cpu.sp = view[Running].sp
  BY DEF ContextInv, ContextKept, Finds
<1>12. IsView(c)
  BY <1>7 DEF IsCpu
<1>13. LocalStep
  BY <1>4, <1>5, <1>w, <1>6, <1>7, <1>8, <1>9, <1>10, <1>11, <1>12 DEF LocalStep
<1> QED BY <1>1, <1>4, <1>5, <1>6, <1>9, <1>13 DEF W, x

\* The stacks of saved flags.
LEMMA FlagStack ==
    ASSUME NEW s \in Seq(BOOLEAN), NEW b \in BOOLEAN
    PROVE  /\ Append(s, b) \in Seq(BOOLEAN)
           /\ Append(s, b) # <<>>
           /\ Len(Append(s, b)) = Len(s) + 1
           /\ \A i \in 1 .. Len(s) : Append(s, b)[i] = s[i]
           /\ Append(s, b)[Len(s) + 1] = b
           /\ s # <<>> => /\ Front(s) \in Seq(BOOLEAN)
                          /\ Last(s) = s[Len(s)]
                          /\ Last(s) \in BOOLEAN
                          /\ Len(s) \in Nat \ {0}
                          /\ Len(Front(s)) = Len(s) - 1
                          /\ \A i \in 1 .. Len(s) - 1 : Front(s)[i] = s[i]
           /\ Len(s) = 0 <=> s = <<>>
<1>1. /\ Append(s, b) \in Seq(BOOLEAN)
      /\ Append(s, b) # <<>>
      /\ Len(Append(s, b)) = Len(s) + 1
      /\ \A i \in 1 .. Len(s) : Append(s, b)[i] = s[i]
      /\ Append(s, b)[Len(s) + 1] = b
  BY AppendProperties
<1>2. Len(s) = 0 <=> s = <<>>
  BY EmptySeq
<1>3. ASSUME s # <<>>
      PROVE  /\ Front(s) \in Seq(BOOLEAN)
             /\ Last(s) = s[Len(s)]
             /\ Last(s) \in BOOLEAN
             /\ Len(s) \in Nat \ {0}
             /\ Len(Front(s)) = Len(s) - 1
             /\ \A i \in 1 .. Len(s) - 1 : Front(s)[i] = s[i]
  <2>1. Len(s) \in Nat \ {0}
    BY <1>2, <1>3, LenProperties
  <2>2. Last(s) = s[Len(s)]
    BY DEF Last
  <2>3. s[Len(s)] \in BOOLEAN
    BY <2>1, ElementOfSeq
  <2>4. Front(s) = SubSeq(s, 1, Len(s) - 1)
    BY DEF Front
  <2>5. SubSeq(s, 1, Len(s) - 1) \in Seq(BOOLEAN)
    BY <2>1, SubSeqProperties
  <2> DEFINE m == Len(s) - 1
             u == SubSeq(s, 1, m)
  <2>m. m \in Nat
    BY <2>1
  <2> HIDE DEF m
  <2>6. Row(u, m) /\ \A i \in 1 .. m : u[i] = s[i]
    BY <2>m, Below
  <2> HIDE DEF u
  <2>7. Len(u) = m
    BY <2>m, <2>6, RowIsSeq
  <2> QED BY <2>1, <2>2, <2>3, <2>4, <2>5, <2>6, <2>7 DEF m, u
<1> QED BY <1>1, <1>2, <1>3

LEMMA EnterLocal ==
    ASSUME ContextInv, arch_critical_enter, NEW y,
           UNCHANGED <<port, stack, ctx, task_current, isr_nesting, created>>,
           view' = [view EXCEPT ![Running].ie = y]
    PROVE  /\ LocalStep
           /\ cpu'.ie = FALSE /\ cpu'.reg = cpu.reg
           /\ view'[Running].ie = y /\ view'[Running].reg = view[Running].reg
           /\ cristate' = [cristate EXCEPT ![Running] = Append(cristate[Running], cpu.ie)]
<1>1. /\ PortTypeOK /\ Running \in Program /\ cpu.ie \in BOOLEAN /\ IsView(cpu) /\ IsView(view[Running])
      /\ view = [o \in Program |-> view[o]]
  BY Programs DEF ContextInv, PortTypeOK, IsCpu
<1>2. cpu' = [cpu EXCEPT !.ie = FALSE]
  BY DEF arch_critical_enter
<1>3. cristate' = [cristate EXCEPT ![Running] = Append(cristate[Running], cpu.ie)]
  BY <1>1 DEF arch_critical_enter, PortTypeOK
<1>4. Append(cristate[Running], cpu.ie) \in Seq(BOOLEAN)
  BY <1>1, FlagStack DEF PortTypeOK
<1>5. cristate' \in [Program -> Seq(BOOLEAN)]
  BY <1>1, <1>3, <1>4 DEF PortTypeOK
<1>6. view' = [view EXCEPT ![Running] = [view[Running] EXCEPT !.ie = y]]
  BY <1>1
<1>7. /\ LocalStep /\ cpu'.ie = FALSE /\ view'[Running].ie = y
      /\ cpu'.reg = cpu.reg /\ view'[Running].reg = view[Running].reg
  BY <1>2, <1>5, <1>6, FlagStep
<1> QED BY <1>3, <1>7

LEMMA ExitLocal ==
    ASSUME ContextInv, InCritical, arch_critical_exit,
           UNCHANGED <<port, stack, ctx, task_current, isr_nesting, created>>,
           view' = [view EXCEPT ![Running].ie = cpu'.ie]
    PROVE  /\ LocalStep
           /\ cpu'.ie = Last(cristate[Running]) /\ cpu'.reg = cpu.reg
           /\ view'[Running].ie = cpu'.ie /\ view'[Running].reg = view[Running].reg
           /\ cristate' = [cristate EXCEPT ![Running] = Front(cristate[Running])]
<1> DEFINE x == Last(cristate[Running])
           y == cpu'.ie
<1>1. /\ PortTypeOK /\ Running \in Program /\ IsView(cpu) /\ IsView(view[Running])
      /\ view = [o \in Program |-> view[o]]
  BY Programs DEF ContextInv, PortTypeOK, IsCpu
<1>2. cpu' = [cpu EXCEPT !.ie = x]
  BY DEF arch_critical_exit
<1>3. cristate' = [cristate EXCEPT ![Running] = Front(cristate[Running])]
  BY <1>1 DEF arch_critical_exit, PortTypeOK
<1>4. Front(cristate[Running]) \in Seq(BOOLEAN) /\ x \in BOOLEAN
  BY <1>1, FlagStack DEF PortTypeOK, InCritical
<1>5. cristate' \in [Program -> Seq(BOOLEAN)]
  BY <1>1, <1>3, <1>4 DEF PortTypeOK
<1>6. view' = [view EXCEPT ![Running] = [view[Running] EXCEPT !.ie = y]]
  BY <1>1
<1> HIDE DEF x, y
<1>7. /\ LocalStep /\ cpu'.ie = x /\ view'[Running].ie = y
      /\ cpu'.reg = cpu.reg /\ view'[Running].reg = view[Running].reg
  BY <1>2, <1>4, <1>5, <1>6, FlagStep
<1> QED BY <1>3, <1>7 DEF x, y

LEMMA EnableLocal ==
    ASSUME ContextInv, EnableNesting
    PROVE  /\ LocalStep
           /\ isr_nesting > 0 /\ ~InCritical
           /\ cpu'.ie = TRUE /\ view'[Running].ie = TRUE
           /\ cristate' = cristate
<1>1. /\ PortTypeOK /\ Running \in Program /\ isr_nesting > 0 /\ Running = isr_nesting
      /\ view = [o \in Program |-> view[o]]
  BY Programs DEF ContextInv, PortTypeOK, EnableNesting
<1>2. cpu' = [cpu EXCEPT !.ie = TRUE] /\ cristate' = cristate
  BY DEF EnableNesting, arch_eint
<1>3. cristate' \in [Program -> Seq(BOOLEAN)]
  BY <1>1, <1>2 DEF PortTypeOK
<1>4. view' = [view EXCEPT ![Running] = [view[Running] EXCEPT !.ie = TRUE]]
  BY <1>1 DEF EnableNesting
<1>5. UNCHANGED <<port, stack, ctx, task_current, isr_nesting, created>> /\ ~InCritical
  BY DEF EnableNesting
<1>6. LocalStep /\ cpu'.ie = TRUE /\ view'[Running].ie = TRUE
  BY <1>2, <1>3, <1>4, <1>5, FlagStep
<1> QED BY <1>1, <1>2, <1>5, <1>6

LEMMA StartLocal ==
    ASSUME ContextInv, os_start
    PROVE  /\ LocalStep
           /\ ~InCritical
           /\ cpu'.ie = TRUE /\ view'[Running].ie = TRUE
           /\ cristate' = cristate
<1>1. /\ PortTypeOK /\ Running \in Program /\ isr_nesting = 0 /\ Running = Idle
      /\ view = [o \in Program |-> view[o]]
  BY Programs DEF ContextInv, PortTypeOK, os_start
<1>2. cpu' = [cpu EXCEPT !.ie = TRUE] /\ cristate' = cristate
  BY DEF os_start, arch_eint
<1>3. cristate' \in [Program -> Seq(BOOLEAN)]
  BY <1>1, <1>2 DEF PortTypeOK
<1>4. view' = [view EXCEPT ![Running] = [view[Running] EXCEPT !.ie = TRUE]]
  BY <1>1 DEF os_start
<1>5. UNCHANGED <<port, stack, ctx, task_current, isr_nesting, created>> /\ ~InCritical
  BY DEF os_start
<1>6. LocalStep /\ cpu'.ie = TRUE /\ view'[Running].ie = TRUE
  BY <1>2, <1>3, <1>4, <1>5, FlagStep
<1> QED BY <1>2, <1>5, <1>6

\* The stack pointer of the program that runs.
LEMMA CpuSp ==
    ASSUME ContextInv
    PROVE  /\ cpu.sp = Sp(cpu.sp.of, Depth(port, isr_nesting))
           /\ cpu.sp.of \in created /\ cpu.sp.of \in Task
           /\ isr_nesting = 0 => cpu.sp.of = task_current
<1>1. PortTypeOK /\ TaskViews /\ Handlers /\ cpu.sp = view[Running].sp /\ created \subseteq Task
  BY DEF ContextInv, ContextKept, Finds, PortTypeOK
<1>2. CASE isr_nesting = 0
  <2>1. cpu.sp = Sp(task_current, 0) /\ task_current \in created
    BY <1>1, <1>2, Programs DEF TaskViews, PortTypeOK
  <2>2. Depth(port, isr_nesting) = 0
    BY <1>1, <1>2, PortIs, DepthFacts
  <2> QED BY <1>1, <2>1, <2>2 DEF Sp
<1>3. CASE isr_nesting > 0
  <2>1. view[isr_nesting].sp = Sp(cpu.sp.of, Depth(port, isr_nesting)) /\ cpu.sp.of \in created
    BY <1>1, <1>3, Programs DEF Handlers
  <2> QED BY <1>1, <1>3, <2>1, Programs
<1> QED BY <1>1, <1>2, <1>3, Programs

LEMMA StoreStep ==
    ASSUME ContextInv, arch_contextstore_i
    PROVE  /\ Stores(Depth(port, isr_nesting + 1))
           /\ UNCHANGED <<port, cristate, created>>
           /\ isr_nesting + 1 \in 1 .. MaxNesting
           /\ view' = [view EXCEPT ![isr_nesting + 1] = view'[isr_nesting + 1]]
           /\ IsView(view'[isr_nesting + 1])
           /\ view'[isr_nesting + 1].sp = cpu'.sp /\ view'[isr_nesting + 1].ie = FALSE
           /\ Finds(view'[isr_nesting + 1], cpu')
<1>1. /\ PortTypeOK /\ IsCpu(port, cpu) /\ cpu.ie /\ stack = [t \in Task |-> stack[t]]
      /\ isr_nesting \in Nat /\ isr_nesting + 1 \in 1 .. MaxNesting
      /\ view = [o \in Program |-> view[o]]
  BY Programs, NestingAssumption DEF ContextInv, PortTypeOK, arch_contextstore_i
<1>2. port \in {"avr", "msp430", "linux"}
  BY <1>1, PortIs
<1> DEFINE n == Depth(port, isr_nesting)
           k == Depth(port, isr_nesting + 1)
           q == cpu.sp.of
<1>3. cpu.sp = Sp(q, n) /\ q \in Task
  BY CpuSp
<1>4. n \in Nat /\ k = n + Size(port)
  BY <1>1, <1>2, DepthFacts
<1>5. Stores(k)
  <2> HIDE DEF n, k
  <2>1. CASE port = "avr"
    <3>1. Avr!arch_contextstore_i
      BY <2>1 DEF arch_contextstore_i
    <3> QED BY <1>1, <1>3, <1>4, <2>1, <3>1, AvrStores
  <2>2. CASE port = "msp430"
    <3>1. Msp430!arch_contextstore_i
      BY <2>2 DEF arch_contextstore_i
    <3> QED BY <1>1, <1>3, <1>4, <2>2, <3>1, MspStores
  <2>3. CASE port = "linux"
    <3>1. Linux!arch_contextstore_i
      BY <2>3 DEF arch_contextstore_i
    <3> QED BY <1>1, <1>3, <1>4, <2>3, <3>1, LinuxStores
  <2> QED BY <1>2, <2>1, <2>2, <2>3
<1> DEFINE R == [r \in HandlerRegs |->
                      IF r = PC THEN Handler(isr_nesting + 1)
                      ELSE IF r = 1 THEN Zero
                      ELSE Datum(cpu'.sp.of, "sp", cpu'.sp.at)]
           c == cpu'
           w == [c EXCEPT !.reg = R]
<1>6. view' = [view EXCEPT ![isr_nesting + 1] = w] /\ UNCHANGED <<port, cristate, created>>
  BY DEF arch_contextstore_i
<1>7. /\ IsView(c) /\ c.ie = FALSE /\ c.sp = Sp(q, k) /\ c.reg[PC] = Handler(isr_nesting + 1)
      /\ port = "avr" => /\ c.reg[1] = Zero
                         /\ c.reg[28] = Datum(q, "sp", k)
                         /\ c.reg[29] = Datum(q, "sp", k)
  BY <1>5 DEF Stores, IsCpu
<1>8. \A r \in DOMAIN R : c.reg[r] = R[r]
  <2>1. CASE port = "avr"
    <3>1. HandlerRegs = {1, 28, 29, PC}
      BY <2>1 DEF HandlerRegs, Avr!HandlerRegs, Avr!PC, PC
    <3>2. PC = 90
      BY DEF PC
    <3>3. c.sp.of = q /\ c.sp.at = k
      BY <1>7 DEF Sp
    <3> HIDE DEF c, k, q
    <3> QED BY <1>7, <2>1, <3>1, <3>2, <3>3 DEF c
  <2>2. CASE port = "msp430"
    <3>1. HandlerRegs = {PC}
      BY <2>2 DEF HandlerRegs, Msp430!HandlerRegs, Msp430!PC, PC
    <3> QED BY <1>7, <3>1
  <2>3. CASE port = "linux"
    <3>1. HandlerRegs = {PC}
      BY <2>3 DEF HandlerRegs, Linux!HandlerRegs, Linux!PC, PC
    <3> QED BY <1>7, <3>1
  <2> QED BY <1>2, <2>1, <2>2, <2>3
<1> HIDE DEF R, c
<1>9. IsView(w) /\ w.reg = R /\ w.sp = c.sp /\ w.ie = c.ie
  BY <1>7, SetReg
<1> HIDE DEF w
<1>10. view'[isr_nesting + 1] = w
  BY <1>1, <1>6 DEF Program
<1>11. Finds(w, c)
  BY <1>8, <1>9 DEF Finds
<1> QED BY <1>1, <1>5, <1>6, <1>7, <1>9, <1>10, <1>11 DEF c

\* The contexts that are saved once an interrupt has come.
LEMMA StoreSaved ==
    ASSUME ContextInv, arch_contextstore_i, NEW t \in created
    PROVE  /\ isr_nesting = 0 /\ t = task_current =>
                  /\ SavedAs(port, stack', ctx', t) = cpu
                  /\ port # "linux" => ctx'[t] = Sp(t, Size(port))
           /\ isr_nesting > 0 \/ t # task_current =>
                  SavedAs(port, stack', ctx', t) = SavedAs(port, stack, ctx, t) /\ ctx'[t] = ctx[t]
<1> DEFINE n == isr_nesting
           p == port
           q == cpu.sp.of
           k == Depth(p, n + 1)
<1>0. PortTypeOK /\ SavedTasks /\ t \in Task
  BY DEF ContextInv, PortTypeOK
<1>1. p \in {"avr", "msp430", "linux"} /\ n \in Nat
  BY <1>0, PortIs, Programs
<1>4. cpu.sp = Sp(q, Depth(p, n)) /\ q \in created /\ q \in Task /\ (n = 0 => q = task_current)
  BY CpuSp
<1>5. /\ stack' = [stack EXCEPT ![q] = stack'[q]]
      /\ SameBelow(stack'[q], stack[q], Depth(p, n))
      /\ Image(p, stack'[q], Sp(q, k)) = cpu
  BY <1>4, StoreStep DEF Stores, Sp
<1>2. ASSUME n = 0, t = task_current
      PROVE  SavedAs(p, stack', ctx', t) = cpu /\ (p # "linux" => ctx'[t] = Sp(t, Size(p)))
  <2>1. ctx'[t] = IF p = "linux" THEN cpu ELSE Sp(q, k)
    BY <1>0, <1>2, StoreStep DEF Stores, PortTypeOK
  <2>2. q = t /\ k = Size(p)
    <3>1. Depth(p, 0 + 1) = Depth(p, 0) + Size(p) /\ Depth(p, 0) = 0 /\ 0 \in Nat
      BY <1>1, DepthFacts
    <3> QED BY <1>1, <1>2, <1>4, <3>1, SizeOf
  <2>3. CASE p = "linux"
    BY <2>1, <2>3 DEF SavedAs
  <2>4. CASE p # "linux"
    <3>1. ctx'[t] = Sp(q, k) /\ ctx'[t].of = q
      BY <2>1, <2>4 DEF Sp
    <3> QED BY <1>5, <2>2, <2>4, <3>1 DEF SavedAs
  <2> QED BY <2>3, <2>4
<1>3. ASSUME n > 0 \/ t # task_current
      PROVE  SavedAs(p, stack', ctx', t) = SavedAs(p, stack, ctx, t) /\ ctx'[t] = ctx[t]
  <2>1. SavedOK(p, stack, ctx, view[t], t)
    BY <1>0, <1>3 DEF SavedTasks
  <2>2. ctx'[t] = ctx[t]
    BY <1>0, <1>1, <1>3, StoreStep DEF Stores, PortTypeOK
  <2>3. CASE p = "linux"
    BY <2>2, <2>3 DEF SavedAs
  <2>4. CASE p # "linux" /\ t # q
    <3>1. ctx[t].of = t /\ stack'[t] = stack[t]
      BY <1>0, <1>5, <2>1, <2>4 DEF SavedOK, Sp, PortTypeOK
    <3> QED BY <2>2, <2>4, <3>1 DEF SavedAs
  <2>5. CASE p # "linux" /\ t = q
    <3>1. ctx[t] = Sp(q, Size(p)) /\ ctx[t].of = q
      BY <2>1, <2>5 DEF SavedOK, Sp
    <3>2. n > 0
      BY <1>1, <1>3, <1>4, <2>5
    <3>3. Depth(p, 0) + Size(p) <= Depth(p, n) /\ Depth(p, 0) = 0 /\ Depth(p, n) \in Nat /\ Size(p) \in Nat
      BY <1>1, <3>2, DepthFacts, SizeOf
    <3>4. \A i \in 1 .. Size(p) : stack'[q][i] = stack[q][i]
      BY <1>5, <3>3 DEF SameBelow
    <3>5. Image(p, stack'[q], Sp(q, Size(p))) = Image(p, stack[q], Sp(q, Size(p)))
      BY <1>1, <3>3, <3>4, ImageStable
    <3> QED BY <2>2, <2>5, <3>1, <3>5 DEF SavedAs
  <2> QED BY <2>2, <2>3, <2>4, <2>5
<1> QED BY <1>2, <1>3

LEMMA StoreInv == ContextInv /\ arch_contextstore_i => ContextInv'
<1> SUFFICES ASSUME ContextInv, arch_contextstore_i PROVE ContextInv'
  OBVIOUS
<1> DEFINE n == isr_nesting
           p == port
           q == cpu.sp.of
           k == Depth(p, n + 1)
<1>0. PortTypeOK /\ TaskViews /\ SavedTasks /\ Handlers /\ ContextKept
  BY DEF ContextInv
<1>1. p \in {"avr", "msp430", "linux"} /\ n \in Nat /\ isr_nesting' = n + 1
  BY <1>0, PortIs, Programs, StoreStep DEF Stores
<1>2. /\ \A o \in Program : o # n + 1 => view'[o] = view[o]
      /\ view' = [o \in Program |-> view'[o]]
  BY <1>0, StoreStep DEF PortTypeOK
<1>3. n + 1 \in 1 .. MaxNesting /\ n + 1 \in Program /\ n + 1 \notin Task
  BY <1>0, Programs, StoreStep
<1>4. cpu.sp = Sp(q, Depth(p, n)) /\ q \in created /\ q \in Task /\ (n = 0 => q = task_current)
  BY CpuSp
<1>5. /\ stack' = [stack EXCEPT ![q] = stack'[q]]
      /\ SameBelow(stack'[q], stack[q], Depth(p, n))
      /\ Row(stack'[q], k)
      /\ Image(p, stack'[q], Sp(q, k)) = cpu
  BY <1>4, StoreStep DEF Stores, Sp
<1>6. PortTypeOK'
  <2>1. \A o \in Program : IsView(view'[o])
    BY <1>0, <1>2, StoreStep DEF PortTypeOK
  <2>2. stack' = [t \in Task |-> stack'[t]]
    BY <1>0, <1>5 DEF PortTypeOK
  <2>3. ctx' = [t \in Task |-> ctx'[t]]
    BY <1>0, StoreStep DEF PortTypeOK, Stores
  <2>4. isr_nesting' \in 0 .. MaxNesting
    BY <1>1, <1>3
  <2>5. IsCpu(port', cpu')
    BY StoreStep DEF Stores
  <2>6. UNCHANGED <<port, cristate, created, task_current>>
    BY StoreStep DEF Stores
  <2> QED BY <1>0, <1>2, <2>1, <2>2, <2>3, <2>4, <2>5, <2>6 DEF PortTypeOK
<1>t. \A t \in created : view'[t] = view[t]
  BY <1>0, <1>2, <1>3, Programs DEF PortTypeOK
<1>7. TaskViews'
  BY <1>0, <1>t, StoreStep DEF TaskViews
<1>8. \A t \in created : SavedOK(p, stack', ctx', view[t], t)
  <2> SUFFICES ASSUME NEW t \in created PROVE SavedOK(p, stack', ctx', view[t], t)
    OBVIOUS
  <2>1. CASE n = 0 /\ t = task_current
    <3>1. SavedAs(p, stack', ctx', t) = cpu /\ (p # "linux" => ctx'[t] = Sp(t, Size(p)))
      BY <2>1, StoreSaved
    <3>2. Finds(view[t], cpu) /\ IsCpu(p, cpu)
      BY <1>0, <2>1, Programs DEF ContextKept, PortTypeOK
    <3> QED BY <3>1, <3>2 DEF SavedOK
  <2>2. CASE n > 0 \/ t # task_current
    <3>1. SavedOK(p, stack, ctx, view[t], t)
      BY <1>0, <2>2 DEF SavedTasks
    <3>2. SavedAs(p, stack', ctx', t) = SavedAs(p, stack, ctx, t) /\ ctx'[t] = ctx[t]
      BY <2>2, StoreSaved
    <3> QED BY <3>1, <3>2 DEF SavedOK
  <2> QED BY <1>1, <2>1, <2>2
<1>9. SavedTasks'
  BY <1>8, <1>t, StoreStep DEF SavedTasks
<1>10. Handlers'
  <2>1. cpu'.sp = Sp(q, k) /\ cpu'.sp.of = q /\ port' = p /\ created' = created
    BY StoreStep DEF Stores, Sp
  <2>2. \A j \in 1 .. n + 1 : view'[j].sp = Sp(q, Depth(p, j))
    <3>1. view'[n + 1].sp = Sp(q, k)
      BY <2>1, StoreStep
    <3>2. \A j \in 1 .. n : j \in Program /\ j # n + 1
      BY <1>0, <1>1, Programs
    <3>3. \A j \in 1 .. n : view[j].sp = Sp(q, Depth(p, j))
      BY <1>0, <1>1 DEF Handlers
    <3>4. \A j \in 1 .. n : view'[j].sp = Sp(q, Depth(p, j))
      BY <1>2, <3>2, <3>3
    <3>5. \A j \in 1 .. n + 1 : j = n + 1 \/ j \in 1 .. n
      BY <1>1
    <3> QED BY <3>1, <3>4, <3>5
  <2>3. \A j \in 1 .. n : NestedOK(p, stack'[q], q, view'[j], j)
    <3> SUFFICES ASSUME NEW j \in 1 .. n PROVE NestedOK(p, stack'[q], q, view'[j], j)
      OBVIOUS
    <3>1. j \in Program /\ j # n + 1 /\ view'[j] = view[j]
      BY <1>0, <1>1, <1>2, Programs
    <3>2. CASE j = n
      <4>1. Finds(view[n], cpu) /\ IsCpu(p, cpu) /\ cpu.ie = TRUE
        BY <1>0, <1>1, <3>2, Programs DEF ContextKept, PortTypeOK, IsCpu, arch_contextstore_i
      <4> QED BY <1>5, <3>1, <3>2, <4>1 DEF NestedOK
    <3>3. CASE j # n
      <4>1. j \in 1 .. (n - 1) /\ j + 1 \in Nat
        BY <1>1, <3>3
      <4>2. NestedOK(p, stack[q], q, view[j], j)
        BY <1>0, <1>1, <4>1 DEF Handlers
      <4>3. /\ Depth(p, j + 1) \in Nat /\ Depth(p, n) \in Nat /\ Size(p) \in Nat
            /\ Size(p) <= Depth(p, j + 1) /\ Depth(p, j + 1) <= Depth(p, n)
        <5>1. 0 < j + 1 /\ (j + 1 = n \/ j + 1 < n) /\ 0 \in Nat
          BY <1>1, <4>1
        <5>2. Depth(p, 0) = 0 /\ Depth(p, j + 1) \in Nat /\ Depth(p, n) \in Nat /\ Size(p) \in Nat
          BY <1>1, <4>1, DepthFacts, SizeOf
        <5>3. Depth(p, 0) + Size(p) <= Depth(p, j + 1)
          BY <1>1, <4>1, <5>1, DepthFacts
        <5>4. j + 1 < n => Depth(p, j + 1) + Size(p) <= Depth(p, n)
          BY <1>1, <4>1, <5>1, DepthFacts
        <5> QED BY <5>1, <5>2, <5>3, <5>4
      <4>4. \A i \in 1 .. Depth(p, j + 1) : stack'[q][i] = stack[q][i]
        BY <1>5, <4>3 DEF SameBelow
      <4>5. Image(p, stack'[q], Sp(q, Depth(p, j + 1))) = Image(p, stack[q], Sp(q, Depth(p, j + 1)))
        BY <1>1, <4>3, <4>4, ImageStable
      <4> QED BY <3>1, <4>2, <4>5 DEF NestedOK
    <3> QED BY <3>2, <3>3
  <2>4. (isr_nesting - 1)' = n /\ isr_nesting' = n + 1
    BY <1>1
  <2> QED BY <1>4, <1>5, <2>1, <2>2, <2>3, <2>4 DEF Handlers
<1>11. ContextKept'
  <2>1. Running' = n + 1
    BY <1>1 DEF Running
  <2> QED BY <2>1, StoreStep DEF ContextKept
<1> QED BY <1>6, <1>7, <1>9, <1>10, <1>11 DEF ContextInv

LEMMA ScheduleInv ==
    ASSUME ContextInv, NEW t, os_schedule(t) PROVE ContextInv'
<1>1. PortTypeOK /\ TaskViews /\ SavedTasks /\ Handlers /\ ContextKept
  BY DEF ContextInv
<1>2. /\ UNCHANGED <<port, cpu, stack, ctx, isr_nesting, cristate, created, view>>
      /\ isr_nesting = 1 /\ task_current' \in created
  BY DEF os_schedule
<1>3. Running' = Running
  BY <1>2 DEF Running
<1>4. PortTypeOK'
  BY <1>1, <1>2 DEF PortTypeOK
<1>5. TaskViews' /\ Handlers' /\ ContextKept'
  BY <1>1, <1>2, <1>3 DEF TaskViews, Handlers, ContextKept
<1>6. SavedTasks'
  BY <1>1, <1>2 DEF SavedTasks
<1> QED BY <1>4, <1>5, <1>6 DEF ContextInv

LEMMA RestoreFirstStep ==
    ASSUME ContextInv, arch_contextrestore_i, isr_nesting = 1
    PROVE  /\ ResumesTask(SavedAs(port, stack, ctx, task_current))
           /\ UNCHANGED <<port, cristate, created>>
           /\ view' = [view EXCEPT ![1] = NoView]
           /\ SavedOK(port, stack, ctx, view[task_current], task_current)
<1>1. /\ PortTypeOK /\ SavedTasks /\ IsCpu(port, cpu) /\ task_current \in created
      /\ stack = [t \in Task |-> stack[t]]
  BY DEF ContextInv, PortTypeOK
<1>2. SavedOK(port, stack, ctx, view[task_current], task_current)
  BY <1>1 DEF SavedTasks
<1>3. ResumesTask(SavedAs(port, stack, ctx, task_current))
  BY <1>1, <1>2, PortIs, FirstRestore DEF SavedOK
<1> QED BY <1>2, <1>3 DEF arch_contextrestore_i

LEMMA RestoreFirstSaved ==
    ASSUME ContextInv, arch_contextrestore_i, isr_nesting = 1, NEW t \in created, t # task_current
    PROVE  SavedAs(port, stack', ctx', t) = SavedAs(port, stack, ctx, t)
<1>1. SavedOK(port, stack, ctx, view[t], t) /\ t \in Task
  BY DEF ContextInv, SavedTasks, PortTypeOK
<1>2. ResumesTask(SavedAs(port, stack, ctx, task_current))
  BY RestoreFirstStep
<1>3. ctx' = ctx
  BY <1>2 DEF ResumesTask
<1>4. CASE port = "linux"
  BY <1>3, <1>4 DEF SavedAs
<1>5. CASE port # "linux"
  <2>1. ctx[t].of = t /\ stack'[t] = stack[t]
    BY <1>1, <1>2, <1>5 DEF SavedOK, Sp, ResumesTask
  <2> QED BY <1>3, <1>5, <2>1 DEF SavedAs
<1> QED BY <1>4, <1>5

LEMMA RestoreFirstInv ==
    ASSUME ContextInv, arch_contextrestore_i, isr_nesting = 1 PROVE ContextInv'
<1> DEFINE c == SavedAs(port, stack, ctx, task_current)
<1>1. PortTypeOK /\ TaskViews /\ SavedTasks
  BY DEF ContextInv
<1>2. /\ ResumesTask(c)
      /\ UNCHANGED <<port, cristate, created>>
      /\ view' = [view EXCEPT ![1] = NoView]
      /\ SavedOK(port, stack, ctx, view[task_current], task_current)
  BY RestoreFirstStep
<1> HIDE DEF c
<1>3. isr_nesting' = 0 /\ task_current' = task_current /\ ctx' = ctx /\ Running' = task_current
  BY <1>2 DEF ResumesTask, Running
<1>4. /\ \A t \in Task : t \in Program /\ view'[t] = view[t]
      /\ task_current \in created /\ created \subseteq Task
  <2>1. 1 \in 1 .. MaxNesting
    BY <1>1, Programs
  <2>2. \A t \in Task : t \in Program /\ t # 1
    BY <1>1, <2>1, Programs
  <2> QED BY <1>1, <1>2, <2>2 DEF PortTypeOK
<1>5. PortTypeOK'
  <2>1. IsView(NoView)
    BY DEF IsView, NoView
  <2>2. view' = [o \in Program |-> view'[o]] /\ \A o \in Program : IsView(view'[o])
    BY <1>1, <1>2, <2>1 DEF PortTypeOK
  <2>3. isr_nesting' \in 0 .. MaxNesting
    BY <1>3, NestingAssumption
  <2>4. IsCpu(port', cpu') /\ stack' = [t \in Task |-> stack'[t]]
    BY <1>2 DEF ResumesTask
  <2> QED BY <1>1, <1>2, <1>3, <2>2, <2>3, <2>4 DEF PortTypeOK
<1>6. TaskViews'
  BY <1>1, <1>2, <1>4 DEF TaskViews
<1>7. SavedTasks'
  <2> SUFFICES ASSUME NEW t \in created, t # task_current PROVE SavedOK(port, stack', ctx', view'[t], t)
    BY <1>2, <1>3 DEF SavedTasks
  <2>1. SavedOK(port, stack, ctx, view[t], t) /\ t \in Task
    BY <1>1, <1>4 DEF SavedTasks
  <2>2. SavedAs(port, stack', ctx', t) = SavedAs(port, stack, ctx, t)
    BY RestoreFirstSaved
  <2> QED BY <1>3, <1>4, <2>1, <2>2 DEF SavedOK
<1>8. Handlers'
  BY <1>3 DEF Handlers
<1>9. ContextKept'
  <2>1. Finds(view[task_current], c)
    BY <1>2 DEF SavedOK, c
  <2> QED BY <1>2, <1>3, <1>4, <2>1 DEF ContextKept, Finds, ResumesTask
<1> QED BY <1>5, <1>6, <1>7, <1>8, <1>9 DEF ContextInv

LEMMA RestoreNestedStep ==
    ASSUME ContextInv, arch_contextrestore_i, isr_nesting # 1
    PROVE  /\ isr_nesting - 1 \in Nat \ {0}
           /\ ResumesHandler(Image(port, stack[cpu.sp.of], Sp(cpu.sp.of, Depth(port, isr_nesting))),
                             cpu.sp.of, Depth(port, isr_nesting - 1))
           /\ UNCHANGED <<port, cristate, created>>
           /\ view' = [view EXCEPT ![isr_nesting] = NoView]
           /\ NestedOK(port, stack[cpu.sp.of], cpu.sp.of, view[isr_nesting - 1], isr_nesting - 1)
<1> DEFINE q == cpu.sp.of
           k == Depth(port, isr_nesting)
           m == isr_nesting - 1
           n == Depth(port, m)
<1>1. /\ PortTypeOK /\ SavedTasks /\ Handlers /\ IsCpu(port, cpu) /\ task_current \in created
      /\ isr_nesting \in Nat /\ isr_nesting > 1 /\ m \in Nat \ {0} /\ m \in 1 .. (isr_nesting - 1)
      /\ m + 1 = isr_nesting
  BY Programs DEF ContextInv, PortTypeOK, arch_contextrestore_i
<1>2. port \in {"avr", "msp430", "linux"}
  BY <1>1, PortIs
<1>3. cpu.sp = Sp(q, k) /\ q \in Task
  BY CpuSp
<1>4. Row(stack[q], k) /\ NestedOK(port, stack[q], q, view[m], m)
  BY <1>1 DEF Handlers
<1>5. n \in Nat /\ k = n + Size(port) /\ k \in Nat
  <2>1. Depth(port, m) \in Nat /\ Depth(port, m + 1) = Depth(port, m) + Size(port) /\ Size(port) \in Nat
    BY <1>1, <1>2, DepthFacts, SizeOf
  <2> QED BY <1>1, <2>1
<1>6. IsCpu(port, Image(port, stack[q], Sp(q, k)))
  BY <1>1, <1>4 DEF NestedOK
<1>7. port = "linux" => ctx[task_current].ie \in BOOLEAN
  <2>1. SavedOK(port, stack, ctx, view[task_current], task_current)
    BY <1>1 DEF SavedTasks
  <2> QED BY <2>1 DEF SavedOK, SavedAs, IsCpu
<1> HIDE DEF n, k
<1>8. ResumesHandler(Image(port, stack[q], Sp(q, k)), q, n)
  BY <1>1, <1>2, <1>3, <1>4, <1>5, <1>6, <1>7, NestedRestore
<1> QED BY <1>1, <1>4, <1>8 DEF arch_contextrestore_i, n, k

\* The cells that a nested restore leaves.
LEMMA RestoreNestedCells ==
    ASSUME ContextInv, arch_contextrestore_i, isr_nesting # 1
    PROVE  /\ Depth(port, isr_nesting - 1) \in Nat /\ Size(port) \in Nat
           /\ Size(port) <= Depth(port, isr_nesting - 1) /\ Depth(port, 0) = 0
           /\ stack' = [stack EXCEPT ![cpu.sp.of] = stack'[cpu.sp.of]]
           /\ Row(stack'[cpu.sp.of], Depth(port, isr_nesting - 1))
           /\ \A m \in Nat : Size(port) <= m /\ m <= Depth(port, isr_nesting - 1) =>
                 Image(port, stack'[cpu.sp.of], Sp(cpu.sp.of, m)) = Image(port, stack[cpu.sp.of], Sp(cpu.sp.of, m))
<1> DEFINE q == cpu.sp.of
           p == port
           n == isr_nesting - 1
           s == SubSeq(stack[q], 1, Depth(p, n))
<1>1. n \in Nat \ {0} /\ p \in {"avr", "msp430", "linux"} /\ q \in Task /\ stack = [t \in Task |-> stack[t]]
  BY RestoreNestedStep, PortIs, CpuSp DEF ContextInv, PortTypeOK
<1>2. stack' = [stack EXCEPT ![q] = s]
  BY RestoreNestedStep DEF ResumesHandler
<1> HIDE DEF n
<1>6. Depth(p, n) \in Nat /\ Size(p) \in Nat /\ Size(p) <= Depth(p, n) /\ Depth(p, 0) = 0
  <2>1. Depth(p, 0) = 0 /\ Depth(p, n) \in Nat /\ Size(p) \in Nat
    BY <1>1, DepthFacts, SizeOf
  <2>2. 0 \in Nat /\ n \in Nat /\ 0 < n
    BY <1>1
  <2>3. Depth(p, 0) + Size(p) <= Depth(p, n)
    BY <1>1, <2>2, DepthFacts
  <2> QED BY <2>1, <2>3
<1>7. stack'[q] = s
  BY <1>1, <1>2
<1>8. Row(s, Depth(p, n)) /\ \A i \in 1 .. Depth(p, n) : s[i] = stack[q][i]
  BY <1>6, Below
<1> HIDE DEF s
<1>9. ASSUME NEW m \in Nat, Size(p) <= m, m <= Depth(p, n)
      PROVE  Image(p, s, Sp(q, m)) = Image(p, stack[q], Sp(q, m))
  <2>1. \A i \in 1 .. m : s[i] = stack[q][i]
    BY <1>6, <1>8, <1>9
  <2> QED BY <1>1, <1>9, <2>1, ImageStable
<1> QED BY <1>2, <1>6, <1>7, <1>8, <1>9 DEF n

LEMMA RestoreNestedSaved ==
    ASSUME ContextInv, arch_contextrestore_i, isr_nesting # 1, NEW t \in created
    PROVE  SavedAs(port, stack', ctx', t) = SavedAs(port, stack, ctx, t)
<1> DEFINE q == cpu.sp.of
           p == port
<1>1. /\ SavedOK(p, stack, ctx, view[t], t) /\ t \in Task /\ stack = [u \in Task |-> stack[u]]
      /\ q \in Task
  BY CpuSp, Programs DEF ContextInv, SavedTasks, PortTypeOK, arch_contextrestore_i
<1>2. ctx' = ctx
  BY RestoreNestedStep DEF ResumesHandler
<1>3. /\ stack' = [stack EXCEPT ![q] = stack'[q]]
      /\ Image(p, stack'[q], Sp(q, Size(p))) = Image(p, stack[q], Sp(q, Size(p)))
  BY RestoreNestedCells
<1>4. CASE p = "linux"
  BY <1>2, <1>4 DEF SavedAs
<1>5. CASE p # "linux" /\ t # q
  <2>1. ctx[t].of = t /\ stack'[t] = stack[t]
    BY <1>1, <1>3, <1>5 DEF SavedOK, Sp
  <2> QED BY <1>2, <1>5, <2>1 DEF SavedAs
<1>6. CASE p # "linux" /\ t = q
  <2>1. ctx[t] = Sp(q, Size(p)) /\ ctx[t].of = q
    BY <1>1, <1>6 DEF SavedOK, Sp
  <2> QED BY <1>2, <1>3, <1>6, <2>1 DEF SavedAs
<1> QED BY <1>4, <1>5, <1>6

LEMMA RestoreNestedInv ==
    ASSUME ContextInv, arch_contextrestore_i, isr_nesting # 1 PROVE ContextInv'
<1> DEFINE q == cpu.sp.of
           p == port
           n == isr_nesting - 1
           c == Image(p, stack[q], Sp(q, Depth(p, isr_nesting)))
<1>0. PortTypeOK /\ TaskViews /\ SavedTasks /\ Handlers
  BY DEF ContextInv
<1>1. /\ n \in Nat \ {0} /\ isr_nesting \in Nat /\ isr_nesting = n + 1 /\ isr_nesting \in 1 .. MaxNesting
      /\ p \in {"avr", "msp430", "linux"}
  BY <1>0, RestoreNestedStep, PortIs, Programs
<1>2. /\ ResumesHandler(c, q, Depth(p, n))
      /\ UNCHANGED <<port, cristate, created>>
      /\ view' = [view EXCEPT ![isr_nesting] = NoView]
      /\ NestedOK(p, stack[q], q, view[n], n)
  BY RestoreNestedStep
<1>3. isr_nesting' = n /\ task_current' = task_current /\ ctx' = ctx /\ Running' = n
  BY <1>1, <1>2 DEF ResumesHandler, Running
<1>4. /\ \A t \in Task : t \in Program /\ view'[t] = view[t]
      /\ \A j \in 1 .. n : j \in Program /\ view'[j] = view[j]
      /\ created \subseteq Task
  BY <1>0, <1>1, <1>2, Programs DEF PortTypeOK
<1>5. q \in created /\ q \in Task
  BY CpuSp
<1>6. Depth(p, n) \in Nat /\ Size(p) \in Nat /\ Size(p) <= Depth(p, n) /\ Depth(p, 0) = 0
  BY RestoreNestedCells
<1>7. stack' = [stack EXCEPT ![q] = stack'[q]] /\ Row(stack'[q], Depth(p, n))
  BY RestoreNestedCells
<1>8. \A m \in Nat : Size(p) <= m /\ m <= Depth(p, n) =>
          Image(p, stack'[q], Sp(q, m)) = Image(p, stack[q], Sp(q, m))
  BY RestoreNestedCells
<1>9. PortTypeOK'
  <2>1. IsView(NoView)
    BY DEF IsView, NoView
  <2>2. view' = [o \in Program |-> view'[o]] /\ \A o \in Program : IsView(view'[o])
    BY <1>0, <1>2, <2>1 DEF PortTypeOK
  <2>3. isr_nesting' \in 0 .. MaxNesting
    BY <1>1, <1>3, NestingAssumption
  <2>4. IsCpu(port', cpu') /\ stack' = [t \in Task |-> stack'[t]]
    BY <1>0, <1>2 DEF ResumesHandler, PortTypeOK
  <2> QED BY <1>0, <1>2, <1>3, <2>2, <2>3, <2>4 DEF PortTypeOK
<1>10. TaskViews'
  BY <1>0, <1>2, <1>4 DEF TaskViews
<1>11. SavedTasks'
  <2> SUFFICES ASSUME NEW t \in created PROVE SavedOK(p, stack', ctx', view'[t], t)
    BY <1>2 DEF SavedTasks
  <2>1. SavedOK(p, stack, ctx, view[t], t) /\ t \in Task
    BY <1>0, <1>1, <1>4 DEF SavedTasks
  <2>2. SavedAs(p, stack', ctx', t) = SavedAs(p, stack, ctx, t)
    BY RestoreNestedSaved
  <2> QED BY <1>3, <1>4, <2>1, <2>2 DEF SavedOK
<1>c. cpu'.reg = c.reg /\ cpu'.sp = c.sp /\ Finds(view[n], c)
  BY <1>1, <1>2 DEF ResumesHandler, NestedOK
<1>12. ContextKept'
  BY <1>1, <1>3, <1>4, <1>c DEF ContextKept, Finds
<1>13. \A j \in 1 .. n : view[j].sp = Sp(q, Depth(p, j))
  BY <1>0, <1>1 DEF Handlers
<1>14. cpu'.sp.of = q
  <2>1. view[n].sp = Sp(q, Depth(p, n))
    BY <1>1, <1>13
  <2>2. cpu'.sp = view[n].sp
    BY <1>c DEF Finds
  <2> QED BY <2>1, <2>2 DEF Sp
<1>15. \A j \in 1 .. (n - 1) : NestedOK(p, stack'[q], q, view[j], j)
  <2> SUFFICES ASSUME NEW j \in 1 .. (n - 1) PROVE NestedOK(p, stack'[q], q, view[j], j)
    OBVIOUS
  <2>1. NestedOK(p, stack[q], q, view[j], j)
    BY <1>0, <1>1 DEF Handlers
  <2>2. Depth(p, j + 1) \in Nat /\ Size(p) <= Depth(p, j + 1) /\ Depth(p, j + 1) <= Depth(p, n)
    <3>1. j + 1 \in Nat /\ 0 < j + 1 /\ (j + 1 = n \/ j + 1 < n) /\ 0 \in Nat /\ n \in Nat
      BY <1>1
    <3>2. Depth(p, j + 1) \in Nat
      BY <1>1, <3>1, DepthFacts
    <3>3. Depth(p, 0) + Size(p) <= Depth(p, j + 1)
      BY <1>1, <3>1, DepthFacts
    <3>4. j + 1 < n => Depth(p, j + 1) + Size(p) <= Depth(p, n)
      BY <1>1, <3>1, DepthFacts
    <3> QED BY <1>6, <3>1, <3>2, <3>3, <3>4
  <2>3. Image(p, stack'[q], Sp(q, Depth(p, j + 1))) = Image(p, stack[q], Sp(q, Depth(p, j + 1)))
    BY <1>8, <2>2
  <2> QED BY <2>1, <2>3 DEF NestedOK
<1>16. Handlers'
  <2>1. /\ cpu'.sp.of \in created' /\ Row(stack'[q], Depth(p, n))
        /\ \A j \in 1 .. n : view'[j].sp = Sp(q, Depth(p, j))
    BY <1>2, <1>4, <1>5, <1>7, <1>13, <1>14
  <2>2. \A j \in 1 .. (n - 1) : NestedOK(p, stack'[q], q, view'[j], j)
    BY <1>1, <1>4, <1>7, <1>15
  <2>3. port' = p
    BY <1>2
  <2> QED BY <1>3, <1>14, <2>1, <2>2, <2>3 DEF Handlers
<1> QED BY <1>9, <1>10, <1>11, <1>12, <1>16 DEF ContextInv

LEMMA StartArgsPc ==
    ASSUME port \in {"avr", "msp430", "linux"}, NEW t
    PROVE  PC \in DOMAIN StartArgs(t) /\ StartArgs(t)[PC] = task_start(t)
<1>1. CASE port = "avr"
  BY <1>1 DEF StartArgs, Avr!StartArgs, PC, Avr!PC, task_start, Avr!task_start, Datum, Avr!Datum
<1>2. CASE port = "msp430"
  BY <1>2 DEF StartArgs, Msp430!StartArgs, PC, Msp430!PC, task_start, Msp430!task_start, Datum, Msp430!Datum
<1>3. CASE port = "linux"
  BY <1>3 DEF StartArgs, Linux!StartArgs, PC, Linux!PC, task_start, Linux!task_start, Datum, Linux!Datum,
              Linux!RDI, Linux!RSI
<1> QED BY <1>1, <1>2, <1>3

LEMMA CreateStep ==
    ASSUME ContextInv, NEW t \in Task, arch_task_init(t)
    PROVE  /\ Creates(t)
           /\ t \notin created /\ created' = created \cup {t}
           /\ UNCHANGED <<port, cristate>>
           /\ isr_nesting = 0
           /\ view' = [view EXCEPT ![t] = [reg |-> StartArgs(t), ie |-> TRUE, sp |-> Sp(t, 0)]]
<1>1. /\ PortTypeOK /\ IsCpu(port, cpu)
      /\ stack = [u \in Task |-> stack[u]] /\ ctx = [u \in Task |-> ctx[u]]
  BY DEF ContextInv, PortTypeOK
<1>2. Creates(t)
  <2>1. CASE port = "avr"
    <3>1. Avr!arch_task_init(t)
      BY <2>1 DEF arch_task_init
    <3> QED BY <1>1, <2>1, <3>1, AvrCreates
  <2>2. CASE port = "msp430"
    <3>1. Msp430!arch_task_init(t)
      BY <2>2 DEF arch_task_init
    <3> QED BY <1>1, <2>2, <3>1, MspCreates
  <2>3. CASE port = "linux"
    <3>1. Linux!arch_task_init(t)
      BY <2>3 DEF arch_task_init
    <3> QED BY <1>1, <2>3, <3>1, LinuxCreates
  <2> QED BY <1>1, <2>1, <2>2, <2>3, PortIs
<1> QED BY <1>2 DEF arch_task_init

\* A context stays as it is with its stack.
LEMMA OtherSaved ==
    ASSUME NEW u, SavedOK(port, stack, ctx, view[u], u), ctx'[u] = ctx[u], stack'[u] = stack[u]
    PROVE  SavedAs(port, stack', ctx', u) = SavedAs(port, stack, ctx, u)
<1>1. CASE port = "linux"
  BY <1>1 DEF SavedAs
<1>2. CASE port # "linux"
  <2>1. ctx[u].of = u
    BY <1>2 DEF SavedOK, Sp
  <2> QED BY <1>2, <2>1 DEF SavedAs
<1> QED BY <1>1, <1>2

LEMMA CreateSaved ==
    ASSUME ContextInv, NEW t \in Task, arch_task_init(t), NEW u \in created, u # task_current
    PROVE  SavedAs(port, stack', ctx', u) = SavedAs(port, stack, ctx, u) /\ ctx'[u] = ctx[u]
<1>1. /\ SavedOK(port, stack, ctx, view[u], u) /\ u \in Task
      /\ stack = [v \in Task |-> stack[v]] /\ ctx = [v \in Task |-> ctx[v]]
  BY DEF ContextInv, SavedTasks, PortTypeOK
<1>2. Creates(t) /\ u # t
  BY CreateStep
<1>3. ctx'[u] = ctx[u] /\ stack'[u] = stack[u]
  BY <1>1, <1>2 DEF Creates
<1> QED BY <1>1, <1>3, OtherSaved

LEMMA CreateInv ==
    ASSUME ContextInv, NEW t \in Task, arch_task_init(t) PROVE ContextInv'
<1> DEFINE w == [reg |-> StartArgs(t), ie |-> TRUE, sp |-> Sp(t, 0)]
<1>0. PortTypeOK /\ TaskViews /\ SavedTasks /\ ContextKept
  BY DEF ContextInv
<1>1. /\ Creates(t)
      /\ t \notin created /\ created' = created \cup {t}
      /\ UNCHANGED <<port, cristate>>
      /\ isr_nesting = 0
      /\ view' = [view EXCEPT ![t] = w]
  BY CreateStep
<1>2. UNCHANGED <<cpu, task_current, isr_nesting>> /\ Running' = Running /\ Running = task_current
  BY <1>1 DEF Creates, Running
<1>3. IsView(w) /\ w.sp = Sp(t, 0) /\ w.reg = StartArgs(t)
  BY DEF IsView
<1> HIDE DEF w
<1>4. /\ \A o \in Program : o # t => view'[o] = view[o]
      /\ view'[t] = w /\ view' = [o \in Program |-> view'[o]]
  BY <1>0, <1>1, Programs DEF PortTypeOK
<1>5. \A u \in created : u # t /\ u \in Task /\ view'[u] = view[u]
  BY <1>0, <1>1, <1>4, Programs DEF PortTypeOK
<1>6. PortTypeOK'
  <2>1. \A o \in Program : IsView(view'[o])
    BY <1>0, <1>3, <1>4 DEF PortTypeOK
  <2>2. stack' = [u \in Task |-> stack'[u]] /\ ctx' = [u \in Task |-> ctx'[u]]
    BY <1>0, <1>1 DEF PortTypeOK, Creates
  <2> QED BY <1>0, <1>1, <1>2, <1>4, <2>1, <2>2 DEF PortTypeOK
<1>7. TaskViews'
  <2>1. PC \in DOMAIN w.reg
    BY <1>0, <1>3, PortIs, StartArgsPc
  <2> QED BY <1>0, <1>1, <1>3, <1>4, <1>5, <2>1 DEF TaskViews
<1>8. SavedTasks'
  <2>1. SavedOK(port, stack', ctx', w, t)
    BY <1>1, <1>3 DEF Creates, SavedOK, Finds
  <2>2. \A u \in created : u # task_current => SavedOK(port, stack', ctx', view[u], u)
    <3> SUFFICES ASSUME NEW u \in created, u # task_current PROVE SavedOK(port, stack', ctx', view[u], u)
      OBVIOUS
    <3>1. SavedOK(port, stack, ctx, view[u], u)
      BY <1>0 DEF SavedTasks
    <3>2. SavedAs(port, stack', ctx', u) = SavedAs(port, stack, ctx, u) /\ ctx'[u] = ctx[u]
      BY CreateSaved
    <3> QED BY <3>1, <3>2 DEF SavedOK
  <2> QED BY <1>1, <1>2, <1>4, <1>5, <2>1, <2>2 DEF SavedTasks
<1>9. Handlers'
  BY <1>1, <1>2 DEF Handlers
<1>10. ContextKept'
  <2>1. view'[task_current] = view[task_current]
    BY <1>0, <1>5 DEF PortTypeOK
  <2> QED BY <1>0, <1>2, <2>1 DEF ContextKept
<1> QED BY <1>6, <1>7, <1>8, <1>9, <1>10 DEF ContextInv

LEMMA SwitchStep ==
    ASSUME ContextInv, NEW new, Switch(new)
    PROVE  /\ Switches(new)
           /\ isr_nesting = 0
           /\ new \in created /\ new # task_current /\ new \in Task
           /\ SavedOK(port, stack, ctx, view[new], new)
<1>1. /\ PortTypeOK /\ SavedTasks /\ IsCpu(port, cpu) /\ ~cpu.ie /\ isr_nesting = 0
      /\ stack = [u \in Task |-> stack[u]] /\ ctx = [u \in Task |-> ctx[u]]
      /\ new \in created /\ new # task_current /\ new \in Task /\ task_current \in Task
  BY DEF ContextInv, PortTypeOK, Switch
<1>2. SavedOK(port, stack, ctx, view[new], new)
  BY <1>1 DEF SavedTasks
<1>3. cpu.sp = Sp(task_current, 0)
  <2>1. Depth(port, 0) = 0
    BY <1>1, PortIs, DepthFacts
  <2>2. cpu.sp = Sp(task_current, Depth(port, 0))
    BY <1>1, CpuSp
  <2> QED BY <2>1, <2>2
<1>4. Switches(new)
  <2>1. CASE port = "avr"
    <3>1. Avr!arch_context_switch(new)
      BY <2>1 DEF Switch
    <3>2. ctx[new] = Sp(new, Size(port))
      BY <1>2, <2>1 DEF SavedOK
    <3> QED BY <1>1, <1>3, <2>1, <3>1, <3>2, AvrSwitches
  <2>2. CASE port = "msp430"
    <3>1. Msp430!arch_context_switch(new)
      BY <2>2 DEF Switch
    <3>2. ctx[new] = Sp(new, Size(port))
      BY <1>2, <2>2 DEF SavedOK
    <3> QED BY <1>1, <1>3, <2>2, <3>1, <3>2, MspSwitches
  <2>3. CASE port = "linux"
    <3>1. Linux!arch_context_switch(new)
      BY <2>3 DEF Switch
    <3> QED BY <1>1, <2>3, <3>1, LinuxSwitches
  <2> QED BY <1>1, <2>1, <2>2, <2>3, PortIs
<1> QED BY <1>1, <1>2, <1>4

LEMMA SwitchSaved ==
    ASSUME ContextInv, NEW new, Switch(new), NEW u \in created, u \notin {task_current, new}
    PROVE  SavedAs(port, stack', ctx', u) = SavedAs(port, stack, ctx, u) /\ ctx'[u] = ctx[u]
<1>1. /\ SavedOK(port, stack, ctx, view[u], u) /\ u \in Task
      /\ stack = [v \in Task |-> stack[v]] /\ ctx = [v \in Task |-> ctx[v]]
  BY DEF ContextInv, SavedTasks, PortTypeOK
<1>2. Switches(new)
  BY SwitchStep
<1>3. ctx'[u] = ctx[u] /\ stack'[u] = stack[u]
  BY <1>1, <1>2 DEF Switches
<1> QED BY <1>1, <1>3, OtherSaved

\* What arch_context_switch and os_task_exit have in common.
LEMMA SwitchInv ==
    ASSUME ContextInv, NEW new, Switch(new), port' = port,
           NEW w, IsView(w), view' = [view EXCEPT ![task_current] = w],
           cristate' \in [Program -> Seq(BOOLEAN)],
           \/ created' = created \ {task_current}
           \/ /\ created' = created
              /\ w.sp = cpu.sp /\ w.reg = [r \in CallSaved |-> cpu.reg[r]]
    PROVE  ContextInv'
<1>0. PortTypeOK /\ TaskViews /\ SavedTasks /\ ContextKept /\ port \in {"avr", "msp430", "linux"}
  BY PortIs DEF ContextInv
<1>1. /\ Switches(new)
      /\ isr_nesting = 0
      /\ new \in created /\ new # task_current /\ new \in Task
      /\ SavedOK(port, stack, ctx, view[new], new)
  BY SwitchStep
<1>2. isr_nesting' = 0 /\ task_current' = new /\ Running' = new
  BY <1>1 DEF Switches, Running
<1>4. /\ \A o \in Program : o # task_current => view'[o] = view[o]
      /\ view'[task_current] = w /\ view' = [o \in Program |-> view'[o]]
      /\ task_current \in Task /\ created \subseteq Task
  BY <1>0, Programs DEF PortTypeOK
<1>5. \A u \in created : u # task_current => view'[u] = view[u] /\ u \in Task
  BY <1>0, <1>4, Programs
<1>6. PortTypeOK'
  <2>1. \A o \in Program : IsView(view'[o])
    BY <1>0, <1>4 DEF PortTypeOK
  <2>2. stack' = [u \in Task |-> stack'[u]] /\ ctx' = [u \in Task |-> ctx'[u]]
    BY <1>0, <1>1 DEF PortTypeOK, Switches
  <2>3. IsCpu(port', cpu')
    BY <1>1 DEF SavedOK, Switches
  <2>4. isr_nesting' \in 0 .. MaxNesting
    BY <1>2, NestingAssumption
  <2>5. created' \subseteq Task /\ task_current' \in created'
    BY <1>1, <1>2, <1>4
  <2> QED BY <1>0, <1>4, <2>1, <2>2, <2>3, <2>4, <2>5 DEF PortTypeOK
<1>7. task_current \in created' => /\ w.sp = cpu.sp /\ w.reg = [r \in CallSaved |-> cpu.reg[r]]
                                   /\ task_current \in created
  BY <1>0 DEF PortTypeOK
<1>8. TaskViews'
  <2>1. ASSUME task_current \in created' PROVE w.sp = Sp(task_current, 0) /\ PC \in DOMAIN w.reg
    <3>1. w.sp = Sp(task_current, 0)
      BY <1>0, <1>1, <1>7, <2>1, Programs DEF TaskViews, ContextKept, Finds
    <3>2. PC \in CallSaved
      BY <1>0 DEF CallSaved, PC, Avr!CallSaved, Avr!PC, Msp430!CallSaved, Msp430!PC, Linux!CallSaved, Linux!PC
    <3> QED BY <1>7, <2>1, <3>1, <3>2
  <2>2. \A u \in created' : u # task_current => u \in created
    OBVIOUS
  <2> QED BY <1>0, <1>4, <1>5, <2>1, <2>2 DEF TaskViews
<1>9. SavedTasks'
  <2>1. ASSUME task_current \in created' PROVE SavedOK(port, stack', ctx', w, task_current)
    BY <1>1, <1>7, <2>1 DEF SavedOK, Switches, Finds
  <2>2. \A u \in created : u \notin {task_current, new} => SavedOK(port, stack', ctx', view[u], u)
    <3> SUFFICES ASSUME NEW u \in created, u \notin {task_current, new}
                 PROVE  SavedOK(port, stack', ctx', view[u], u)
      OBVIOUS
    <3>1. SavedOK(port, stack, ctx, view[u], u)
      BY <1>0 DEF SavedTasks
    <3>2. SavedAs(port, stack', ctx', u) = SavedAs(port, stack, ctx, u) /\ ctx'[u] = ctx[u]
      BY SwitchSaved
    <3> QED BY <3>1, <3>2 DEF SavedOK
  <2>3. \A u \in created' : u # task_current => u \in created
    OBVIOUS
  <2> QED BY <1>2, <1>4, <1>5, <2>1, <2>2, <2>3 DEF SavedTasks
<1>10. Handlers'
  BY <1>2 DEF Handlers
<1>11. ContextKept'
  <2>1. Finds(view[new], cpu')
    BY <1>1 DEF SavedOK, Switches
  <2> QED BY <1>1, <1>2, <1>5, <2>1 DEF ContextKept
<1> QED BY <1>6, <1>8, <1>9, <1>10, <1>11 DEF ContextInv

LEMMA ContextSwitchInv ==
    ASSUME ContextInv, NEW t, arch_context_switch(t) PROVE ContextInv'
<1> DEFINE R == [r \in CallSaved |-> cpu.reg[r]]
           w == [cpu EXCEPT !.reg = R]
<1>1. IsView(cpu) /\ cristate \in [Program -> Seq(BOOLEAN)]
  BY DEF ContextInv, PortTypeOK, IsCpu
<1>2. IsView(w) /\ w.sp = cpu.sp /\ w.reg = R
  BY <1>1, SetReg
<1>3. /\ Switch(t) /\ port' = port /\ view' = [view EXCEPT ![task_current] = w]
      /\ cristate' = cristate /\ created' = created
  BY DEF arch_context_switch
<1> HIDE DEF w
<1> QED BY <1>1, <1>2, <1>3, SwitchInv

LEMMA TaskExitInv ==
    ASSUME ContextInv, NEW t, os_task_exit(t) PROVE ContextInv'
<1>1. cristate \in [Program -> Seq(BOOLEAN)]
  BY DEF ContextInv, PortTypeOK
<1>2. IsView(NoView)
  BY DEF IsView, NoView
<1>3. /\ Switch(t) /\ port' = port /\ view' = [view EXCEPT ![task_current] = NoView]
      /\ cristate' = [cristate EXCEPT ![task_current] = <<>>] /\ created' = created \ {task_current}
  BY DEF os_task_exit
<1>4. cristate' \in [Program -> Seq(BOOLEAN)]
  <2>1. <<>> \in Seq(BOOLEAN)
    OBVIOUS
  <2> DEFINE e == <<>>
  <2> HIDE DEF e
  <2>2. cristate' = [cristate EXCEPT ![task_current] = e] /\ e \in Seq(BOOLEAN)
    BY <1>3, <2>1 DEF e
  <2> QED BY <1>1, <2>2
<1> QED BY <1>2, <1>3, <1>4, SwitchInv

LEMMA EnterStep ==
    ASSUME ContextInv, Enter
    PROVE  /\ LocalStep
           /\ cpu'.ie = FALSE /\ cpu'.reg = cpu.reg
           /\ view'[Running].ie = FALSE /\ view'[Running].reg = view[Running].reg
           /\ cristate' = [cristate EXCEPT ![Running] = Append(cristate[Running], cpu.ie)]
<1>1. /\ arch_critical_enter /\ view' = [view EXCEPT ![Running].ie = FALSE]
      /\ UNCHANGED <<port, stack, ctx, task_current, isr_nesting, created>>
  BY DEF Enter
<1> QED BY <1>1, EnterLocal

LEMMA BeginStep ==
    ASSUME ContextInv, NEW req, Begin(req)
    PROVE  /\ LocalStep
           /\ cpu'.ie = FALSE /\ cpu'.reg = cpu.reg
           /\ view'[Running].ie = FALSE /\ view'[Running].reg = view[Running].reg
           /\ cristate' = [cristate EXCEPT ![Running] = Append(cristate[Running], cpu.ie)]
<1>1. /\ arch_critical_enter /\ view' = [view EXCEPT ![Running].ie = cpu'.ie]
      /\ UNCHANGED <<port, stack, ctx, task_current, isr_nesting, created>>
  BY DEF Begin, Guard
<1>2. IsView(cpu)
  BY DEF ContextInv, PortTypeOK, IsCpu
<1>3. cpu'.ie = FALSE
  BY <1>1, <1>2, SetIe DEF arch_critical_enter
<1>4. view' = [view EXCEPT ![Running].ie = FALSE]
  BY <1>1, <1>3
<1> QED BY <1>1, <1>4, EnterLocal

LEMMA ExitStep ==
    ASSUME ContextInv, InCritical, Exit \/ End
    PROVE  /\ LocalStep
           /\ cpu'.ie = Last(cristate[Running]) /\ cpu'.reg = cpu.reg
           /\ view'[Running].ie = cpu'.ie /\ view'[Running].reg = view[Running].reg
           /\ cristate' = [cristate EXCEPT ![Running] = Front(cristate[Running])]
<1>1. /\ arch_critical_exit /\ view' = [view EXCEPT ![Running].ie = cpu'.ie]
      /\ UNCHANGED <<port, stack, ctx, task_current, isr_nesting, created>>
  BY DEF Exit, End
<1> QED BY <1>1, ExitLocal

LEMMA EndOutside ==
    ASSUME ContextInv, ~InCritical, End
    PROVE  /\ LocalStep /\ cristate' = cristate /\ cpu'.ie = view'[Running].ie
           /\ view'[Running].reg = view[Running].reg
<1>1. /\ cpu' = cpu /\ cristate' = cristate /\ view' = [view EXCEPT ![Running].ie = cpu'.ie]
      /\ UNCHANGED <<port, stack, ctx, task_current, isr_nesting, created>>
  BY DEF End
<1>2. /\ cpu = [reg |-> cpu.reg, ie |-> cpu.ie, sp |-> cpu.sp] /\ cpu.ie \in BOOLEAN
      /\ cristate \in [Program -> Seq(BOOLEAN)] /\ view = [o \in Program |-> view[o]] /\ Running \in Program
  BY Programs DEF ContextInv, PortTypeOK, IsCpu, IsView
<1>3. PICK x \in BOOLEAN : x = cpu.ie
  BY <1>2
<1>4. cpu' = [cpu EXCEPT !.ie = x]
  BY <1>1, <1>2, <1>3
<1>5. view' = [view EXCEPT ![Running] = [view[Running] EXCEPT !.ie = x]]
  BY <1>1, <1>2, <1>3
<1>6. cristate' \in [Program -> Seq(BOOLEAN)]
  BY <1>1, <1>2
<1>7. UNCHANGED <<port, stack, ctx, task_current, isr_nesting, created>>
  BY <1>1
<1>8. /\ LocalStep /\ cpu'.ie = x /\ view'[Running].ie = x
      /\ cpu'.reg = cpu.reg /\ view'[Running].reg = view[Running].reg
  BY <1>4, <1>5, <1>6, <1>7, FlagStep
<1> QED BY <1>1, <1>8

LEMMA ContextUnchanged == ContextInv /\ UNCHANGED portVars => ContextInv'
BY DEF ContextInv, PortTypeOK, TaskViews, SavedTasks, Handlers, ContextKept, Running, portVars

LEMMA ContextStep == ContextInv /\ [AtomicNext]_<<portVars, atomicVars>> => ContextInv'
<1> SUFFICES ASSUME ContextInv, [AtomicNext]_<<portVars, atomicVars>> PROVE ContextInv'
  OBVIOUS
<1>1. CASE arch_contextstore_i
  BY <1>1, StoreInv
<1>2. CASE ProgramStep
  <2>1. ASSUME NEW tag \in Tags, Compute(tag) PROVE ContextInv'
    BY <2>1, ComputeLocal, LocalInv
  <2>2. CASE Enter
    BY <2>2, EnterStep, LocalInv
  <2>3. CASE Exit
    <3>1. InCritical
      BY <2>3 DEF Exit
    <3> QED BY <2>3, <3>1, ExitStep, LocalInv
  <2>4. CASE EnableNesting
    BY <2>4, EnableLocal, LocalInv
  <2>5. CASE arch_task_start
    BY <2>5, TaskStartLocal, LocalInv
  <2>6. CASE arch_contextrestore_i
    BY <2>6, RestoreFirstInv, RestoreNestedInv
  <2>7. ASSUME NEW t \in Task, os_schedule(t) PROVE ContextInv'
    BY <2>7, ScheduleInv
  <2>8. ASSUME NEW t \in Task, arch_task_init(t) PROVE ContextInv'
    BY <2>8, CreateInv
  <2>9. ASSUME NEW t \in Task, arch_context_switch(t) PROVE ContextInv'
    BY <2>9, ContextSwitchInv
  <2>10. ASSUME NEW t \in Task, os_task_exit(t) PROVE ContextInv'
    BY <2>10, TaskExitInv
  <2>11. CASE os_start
    BY <2>11, StartLocal, LocalInv
  <2> QED BY <1>2, <2>1, <2>2, <2>3, <2>4, <2>5, <2>6, <2>7, <2>8, <2>9, <2>10, <2>11 DEF ProgramStep
<1>3. ASSUME NEW req, Begin(req) PROVE ContextInv'
  BY <1>3, BeginStep, LocalInv
<1>4. CASE End
  BY <1>4, ExitStep, EndOutside, LocalInv
<1>5. CASE UNCHANGED portVars
  BY <1>5, ContextUnchanged
<1>6. ASSUME NEW req, Whole(req) PROVE UNCHANGED portVars
  BY <1>6 DEF Whole
<1>7. Load \/ LoadHigh \/ Store \/ StoreHigh => UNCHANGED portVars
  BY DEF Load, LoadHigh, Store, StoreHigh
<1> QED BY <1>1, <1>2, <1>3, <1>4, <1>5, <1>6, <1>7 DEF AtomicNext

\* The programs always find their registers and their stack: no order of
\* interrupts, switches and exits, on any port, mixes up the contexts.
THEOREM AtomicContextInv == AtomicSpec => []ContextInv
<1>1. AtomicInit => ContextInv
  BY ContextInit
<1>2. ContextInv /\ [AtomicNext]_<<portVars, atomicVars>> => ContextInv'
  BY ContextStep
<1> QED BY <1>1, <1>2, PTL DEF AtomicSpec

LEMMA SavedIs ==
    ASSUME PortTypeOK, NEW t PROVE Saved(t) = SavedAs(port, stack, ctx, t)
<1>1. IsCpu(port, cpu) /\ port \in {"avr", "msp430", "linux"}
  BY PortIs DEF PortTypeOK
<1>2. CASE port = "avr"
  BY <1>1, <1>2, AvrPopped DEF Saved, SavedAs
<1>3. CASE port = "msp430"
  BY <1>1, <1>3, MspPopped DEF Saved, SavedAs
<1>4. CASE port = "linux"
  BY <1>4 DEF Saved, SavedAs
<1> QED BY <1>1, <1>2, <1>3, <1>4

\* Whatever interrupts a task or a handler, however deep the nesting, and
\* whichever tasks run in between, it goes on with the registers and the stack
\* pointer it had (arch_contextstore_i, arch_contextrestore_i,
\* arch_context_switch and arch_task_init of all three ports).
THEOREM ContextIsKept == AtomicSpec => []ContextKept
<1>1. ContextInv => ContextKept
  BY DEF ContextInv
<1> QED BY <1>1, AtomicContextInv, PTL

\* The frame of a task that does not run stays whole until a restore takes it:
\* handlers stack theirs above it and other tasks have stacks of their own.
THEOREM SavedContextIsIntact == AtomicSpec => []SavedContextIntact
<1>1. ContextInv => SavedContextIntact
  <2> SUFFICES ASSUME ContextInv, NEW t \in created, isr_nesting > 0 \/ t # task_current
               PROVE  Finds(view[t], Saved(t))
    BY DEF SavedContextIntact
  <2>1. PortTypeOK /\ SavedOK(port, stack, ctx, view[t], t)
    BY DEF ContextInv, SavedTasks
  <2> QED BY <2>1, SavedIs DEF SavedOK
<1> QED BY <1>1, AtomicContextInv, PTL
---------------------------------------------------------------------------
(* The interrupt flag.                                                     *)

\* A task or handler that was not touched has its flag as before.
LEMMA FlagStays ==
    ASSUME NEW t, SavedFlag(port, SavedAs(port, stack, ctx, t), view[t], cristate[t], t),
           port' = port, SavedAs(port, stack', ctx', t) = SavedAs(port, stack, ctx, t),
           view'[t] = view[t], cristate'[t] = cristate[t]
    PROVE  SavedFlag(port', SavedAs(port', stack', ctx', t), view'[t], cristate'[t], t)
OBVIOUS

LEMMA FlagInit == AtomicInit => FlagInv
<1> SUFFICES ASSUME AtomicInit PROVE FlagInv
  OBVIOUS
<1>1. isr_nesting = 0 /\ task_current = Idle /\ created = {Idle} /\ view[Idle] = cpu
  BY IdleAssumption DEF AtomicInit, PortInit, Program
<1>2. SavedFlags /\ TaskFlag
  BY <1>1 DEF SavedFlags, TaskFlag
<1>3. HandlerFlags
  BY <1>1 DEF HandlerFlags
<1> QED BY <1>2, <1>3 DEF FlagInv

\* A step of the program that runs leaves the flag and its view of it alone or
\* makes them the same.
LEMMA LocalFlag ==
    ASSUME ContextInv, FlagInv, LocalStep,
           \A o \in Program : o # Running => cristate'[o] = cristate[o],
           \/ cpu'.ie = view'[Running].ie
           \/ /\ cpu'.ie = cpu.ie /\ view'[Running].ie = view[Running].ie
              /\ cristate' = cristate /\ Started
    PROVE  FlagInv'
<1>1. PortTypeOK /\ SavedFlags /\ HandlerFlags /\ TaskFlag
  BY DEF ContextInv, FlagInv
<1>2. UNCHANGED <<port, stack, ctx, task_current, isr_nesting, created>> /\ Running' = Running
  BY DEF LocalStep, Running
<1>3. \A o \in Program : o # Running => view'[o] = view[o]
  BY <1>1 DEF LocalStep, PortTypeOK
<1>4. SavedFlags'
  <2> SUFFICES ASSUME NEW t \in created, isr_nesting > 0 \/ t # task_current
               PROVE  SavedFlag(port', SavedAs(port', stack', ctx', t), view'[t], cristate'[t], t)
    BY <1>2 DEF SavedFlags
  <2>1. t \in Program /\ t # Running
    BY <1>1, Programs DEF PortTypeOK
  <2>2. view'[t] = view[t] /\ cristate'[t] = cristate[t]
    BY <1>3, <2>1
  <2>3. SavedFlag(port, SavedAs(port, stack, ctx, t), view[t], cristate[t], t)
    BY <1>1 DEF SavedFlags
  <2> QED BY <1>2, <2>2, <2>3, FlagStays
<1>5. HandlerFlags'
  <2>1. \A k \in 1 .. (isr_nesting - 1) : k \in Program /\ k # Running
    BY <1>1, Programs
  <2>2. \A k \in 1 .. (isr_nesting - 1) : view'[k].ie = TRUE
    BY <1>1, <1>3, <2>1 DEF HandlerFlags
  <2>3. isr_nesting > 0 => cpu'.ie = view'[isr_nesting].ie \/ (port = "linux" /\ cpu'.ie = FALSE)
    BY <1>1, Programs DEF HandlerFlags
  <2> QED BY <1>2, <2>2, <2>3 DEF HandlerFlags
<1>6. TaskFlag'
  <2> SUFFICES ASSUME isr_nesting = 0, cpu'.ie # view'[task_current].ie
               PROVE  port = "msp430" /\ InCritical'
    BY <1>2 DEF TaskFlag
  <2>1. Running = task_current
    BY <1>1, Programs
  <2>2. port = "msp430" /\ InCritical /\ cristate' = cristate
    BY <1>1, <2>1 DEF TaskFlag
  <2> QED BY <1>2, <2>2 DEF InCritical
<1> QED BY <1>4, <1>5, <1>6 DEF FlagInv

LEMMA StoreFlag == ContextInv /\ FlagInv /\ arch_contextstore_i => FlagInv'
<1> SUFFICES ASSUME ContextInv, FlagInv, arch_contextstore_i PROVE FlagInv'
  OBVIOUS
<1> DEFINE n == isr_nesting
<1>0. PortTypeOK /\ TaskViews /\ ContextKept /\ SavedFlags /\ HandlerFlags /\ TaskFlag
  BY DEF ContextInv, FlagInv
<1>1. /\ n \in Nat /\ isr_nesting' = n + 1 /\ port' = port /\ created' = created /\ cristate' = cristate
      /\ cpu.ie = TRUE /\ n + 1 \in 1 .. MaxNesting
      /\ cpu'.ie = FALSE /\ view'[n + 1].ie = FALSE
      /\ view' = [view EXCEPT ![n + 1] = view'[n + 1]]
      /\ port \in {"avr", "msp430", "linux"}
  BY <1>0, Programs, PortIs, StoreStep DEF Stores, PortTypeOK, IsCpu, arch_contextstore_i
<1>2. \A o \in Program : o # n + 1 => view'[o] = view[o]
  BY <1>0, <1>1 DEF PortTypeOK
<1>3. SavedFlags'
  <2> SUFFICES ASSUME NEW t \in created
               PROVE  SavedFlag(port', SavedAs(port', stack', ctx', t), view'[t], cristate'[t], t)
    BY <1>1 DEF SavedFlags
  <2>1. t \in Program /\ t # n + 1
    BY <1>0, <1>1, Programs DEF PortTypeOK
  <2>2. view'[t] = view[t] /\ cristate'[t] = cristate[t]
    BY <1>1, <1>2, <2>1
  <2>3. CASE n = 0 /\ t = task_current
    <3>1. SavedAs(port, stack', ctx', t) = cpu
      BY <2>3, StoreSaved
    <3>2. \/ cpu.ie = view[t].ie
          \/ port = "linux" /\ cpu.reg[PC] = task_start(t)
          \/ port = "msp430" /\ cristate[t] # <<>>
      BY <1>0, <2>3, Programs DEF TaskFlag, Started, InCritical
    <3>3. cpu.reg[PC] = view[t].reg[PC]
      BY <1>0, <2>3, Programs DEF ContextKept, Finds, TaskViews
    <3>4. SavedFlag(port, cpu, view[t], cristate[t], t)
      BY <1>1, <3>2, <3>3 DEF SavedFlag
    <3> QED BY <1>1, <2>2, <3>1, <3>4
  <2>4. CASE n > 0 \/ t # task_current
    <3>1. SavedAs(port, stack', ctx', t) = SavedAs(port, stack, ctx, t)
      BY <2>4, StoreSaved
    <3>2. SavedFlag(port, SavedAs(port, stack, ctx, t), view[t], cristate[t], t)
      BY <1>0, <2>4 DEF SavedFlags
    <3> QED BY <1>1, <2>2, <3>1, <3>2, FlagStays
  <2> QED BY <1>1, <2>3, <2>4
<1>4. HandlerFlags'
  <2>1. \A k \in 1 .. n : k \in Program /\ k # n + 1
    BY <1>0, <1>1, Programs
  <2>2. n > 0 => view[n].ie = TRUE
    BY <1>0, <1>1 DEF HandlerFlags
  <2>3. \A k \in 1 .. n : view[k].ie = TRUE
    <3>1. \A k \in 1 .. n : k = n \/ k \in 1 .. (n - 1)
      BY <1>1
    <3>2. \A k \in 1 .. (n - 1) : view[k].ie = TRUE
      BY <1>0 DEF HandlerFlags
    <3>3. \A k \in 1 .. n : n > 0
      BY <1>1
    <3> QED BY <2>2, <3>1, <3>2, <3>3
  <2>4. \A k \in 1 .. n : view'[k].ie = TRUE
    BY <1>2, <2>1, <2>3
  <2>5. (isr_nesting - 1)' = n
    BY <1>1
  <2>6. cpu'.ie = view'[isr_nesting'].ie
    BY <1>1
  <2> QED BY <2>4, <2>5, <2>6 DEF HandlerFlags
<1>5. TaskFlag'
  BY <1>1 DEF TaskFlag
<1> QED BY <1>3, <1>4, <1>5 DEF FlagInv

LEMMA ScheduleFlag ==
    ASSUME FlagInv, NEW t, os_schedule(t) PROVE FlagInv'
<1>1. /\ UNCHANGED <<port, cpu, stack, ctx, isr_nesting, cristate, created, view>>
      /\ isr_nesting = 1
  BY DEF os_schedule
<1>2. SavedFlags' /\ HandlerFlags' /\ TaskFlag'
  BY <1>1 DEF FlagInv, SavedFlags, HandlerFlags, TaskFlag
<1> QED BY <1>2 DEF FlagInv

\* The task that goes on has its flag, or one of the exceptions holds.
LEMMA TaskGoesOn ==
    ASSUME ContextInv', isr_nesting' = 0, port' \in {"avr", "msp430", "linux"}, NEW c,
           SavedFlag(port', c, view'[task_current'], cristate'[task_current'], task_current'),
           cpu'.ie = c.ie \/ (port' = "msp430" /\ cpu'.ie = TRUE)
    PROVE  TaskFlag'
<1> DEFINE t == task_current'
           v == view'[task_current']
<1>1. Running' = t
  BY DEF Running
<1>2. cpu'.reg[PC] = v.reg[PC]
  <2>1. t \in created' /\ PC \in DOMAIN v.reg
    BY DEF ContextInv, PortTypeOK, TaskViews
  <2> QED BY <1>1, <2>1 DEF ContextInv, ContextKept, Finds
<1>3. CASE port' = "avr"
  BY <1>3 DEF SavedFlag, TaskFlag
<1>4. CASE port' = "msp430"
  <2>1. cristate'[t] # <<>> \/ cpu'.ie = v.ie
    BY <1>4 DEF SavedFlag
  <2> QED BY <1>1, <1>4, <2>1 DEF TaskFlag, InCritical
<1>5. CASE port' = "linux"
  <2>1. v.reg[PC] = task_start(t) \/ cpu'.ie = v.ie
    BY <1>5 DEF SavedFlag
  <2> QED BY <1>2, <1>5, <2>1 DEF TaskFlag, Started, task_start
<1> QED BY <1>3, <1>4, <1>5

LEMMA RestoreFirstFlag ==
    ASSUME ContextInv, FlagInv, arch_contextrestore_i, isr_nesting = 1 PROVE FlagInv'
<1> DEFINE c == SavedAs(port, stack, ctx, task_current)
<1>0. PortTypeOK /\ SavedFlags /\ ContextInv' /\ port \in {"avr", "msp430", "linux"}
  BY RestoreFirstInv, PortIs DEF ContextInv, FlagInv
<1>1. /\ isr_nesting' = 0 /\ task_current' = task_current
      /\ UNCHANGED <<port, cristate, created>>
      /\ view' = [view EXCEPT ![1] = NoView]
  BY RestoreFirstStep DEF ResumesTask
<1>c. cpu'.ie = c.ie \/ (port = "msp430" /\ cpu'.ie = TRUE)
  <2>1. ResumesTask(c)
    BY RestoreFirstStep
  <2> HIDE DEF c
  <2> QED BY <2>1 DEF ResumesTask
<1>2. \A t \in created : view'[t] = view[t]
  <2>1. 1 \in 1 .. MaxNesting
    BY <1>0, Programs
  <2>2. \A t \in created : t \in Program /\ t # 1
    BY <1>0, <2>1, Programs DEF PortTypeOK
  <2> QED BY <1>0, <1>1, <2>2 DEF PortTypeOK
<1>3. SavedFlags'
  <2> SUFFICES ASSUME NEW t \in created, t # task_current
               PROVE  SavedFlag(port', SavedAs(port', stack', ctx', t), view'[t], cristate'[t], t)
    BY <1>1 DEF SavedFlags
  <2>1. SavedAs(port, stack', ctx', t) = SavedAs(port, stack, ctx, t)
    BY RestoreFirstSaved
  <2>2. SavedFlag(port, SavedAs(port, stack, ctx, t), view[t], cristate[t], t)
    BY <1>0 DEF SavedFlags
  <2>3. view'[t] = view[t] /\ cristate'[t] = cristate[t] /\ port' = port
    BY <1>1, <1>2
  <2> QED BY <2>1, <2>2, <2>3, FlagStays
<1>4. HandlerFlags'
  BY <1>1 DEF HandlerFlags
<1>5. TaskFlag'
  <2>1. task_current \in created
    BY <1>0 DEF PortTypeOK
  <2>2. SavedFlag(port, c, view[task_current], cristate[task_current], task_current)
    BY <1>0, <2>1 DEF SavedFlags
  <2> HIDE DEF c
  <2>3. view'[task_current] = view[task_current] /\ cristate' = cristate /\ port' = port
    BY <1>1, <1>2, <2>1
  <2> QED BY <1>0, <1>1, <1>c, <2>2, <2>3, TaskGoesOn
<1> QED BY <1>3, <1>4, <1>5 DEF FlagInv

LEMMA RestoreNestedFlag ==
    ASSUME ContextInv, FlagInv, arch_contextrestore_i, isr_nesting # 1 PROVE FlagInv'
<1> DEFINE n == isr_nesting - 1
           q == cpu.sp.of
           c == Image(port, stack[q], Sp(q, Depth(port, isr_nesting)))
<1>0. PortTypeOK /\ SavedTasks /\ SavedFlags /\ HandlerFlags /\ port \in {"avr", "msp430", "linux"}
  BY PortIs DEF ContextInv, FlagInv
<1>1. /\ n \in Nat \ {0} /\ isr_nesting' = n /\ task_current' = task_current
      /\ isr_nesting = n + 1 /\ isr_nesting \in 1 .. MaxNesting
      /\ UNCHANGED <<port, cristate, created>>
      /\ view' = [view EXCEPT ![isr_nesting] = NoView]
  BY <1>0, RestoreNestedStep, Programs DEF ResumesHandler
<1>c. /\ ResumesHandler(c, q, Depth(port, n))
      /\ NestedOK(port, stack[q], q, view[n], n)
  BY RestoreNestedStep
<1>2. /\ \A t \in created : view'[t] = view[t]
      /\ \A k \in 1 .. n : view'[k] = view[k]
  <2>1. \A t \in created : t \in Program /\ t # isr_nesting
    BY <1>0, <1>1, Programs DEF PortTypeOK
  <2>2. \A k \in 1 .. n : k \in Program /\ k # isr_nesting
    BY <1>0, <1>1, Programs
  <2> QED BY <1>0, <1>1, <2>1, <2>2 DEF PortTypeOK
<1>3. SavedFlags'
  <2> SUFFICES ASSUME NEW t \in created
               PROVE  SavedFlag(port', SavedAs(port', stack', ctx', t), view'[t], cristate'[t], t)
    BY <1>1 DEF SavedFlags
  <2>1. SavedAs(port, stack', ctx', t) = SavedAs(port, stack, ctx, t)
    BY RestoreNestedSaved
  <2>2. isr_nesting > 0
    BY <1>1
  <2>3. SavedFlag(port, SavedAs(port, stack, ctx, t), view[t], cristate[t], t)
    BY <1>0, <2>2 DEF SavedFlags
  <2>4. view'[t] = view[t] /\ cristate'[t] = cristate[t] /\ port' = port
    BY <1>1, <1>2
  <2> QED BY <2>1, <2>3, <2>4, FlagStays
<1>4. HandlerFlags'
  <2>1. \A k \in 1 .. n : view[k].ie = TRUE
    BY <1>0 DEF HandlerFlags
  <2>2. \A k \in 1 .. (n - 1) : k \in 1 .. n
    BY <1>1
  <2>3. \A k \in 1 .. (n - 1) : view'[k].ie = TRUE
    BY <1>2, <2>1, <2>2
  <2>4. view'[n].ie = TRUE
    BY <1>1, <1>2, <2>1
  <2>5. c.ie = TRUE
    BY <1>1, <1>c DEF NestedOK
  <2>6. port = "linux" => ctx[task_current].ie \in BOOLEAN
    <3>1. isr_nesting > 0 /\ task_current \in created
      BY <1>0, <1>1 DEF PortTypeOK
    <3>2. SavedOK(port, stack, ctx, view[task_current], task_current)
      BY <1>0, <3>1 DEF SavedTasks
    <3> QED BY <3>2 DEF SavedOK, SavedAs, IsCpu
  <2>7. cpu'.ie = TRUE \/ (port = "linux" /\ cpu'.ie = FALSE)
    <3> HIDE DEF c
    <3>1. CASE port = "avr"
      BY <1>c, <2>5, <3>1 DEF ResumesHandler
    <3>2. CASE port = "msp430"
      BY <1>c, <3>2 DEF ResumesHandler
    <3>3. CASE port = "linux"
      <4>1. cpu'.ie = ctx[task_current].ie
        BY <1>c, <3>3 DEF ResumesHandler
      <4> QED BY <2>6, <3>3, <4>1
    <3> QED BY <1>0, <3>1, <3>2, <3>3
  <2> QED BY <1>1, <2>3, <2>4, <2>7 DEF HandlerFlags
<1>5. TaskFlag'
  BY <1>1 DEF TaskFlag
<1> QED BY <1>3, <1>4, <1>5 DEF FlagInv

LEMMA CreateFlag ==
    ASSUME ContextInv, FlagInv, NEW t \in Task, arch_task_init(t) PROVE FlagInv'
<1> DEFINE w == [reg |-> StartArgs(t), ie |-> TRUE, sp |-> Sp(t, 0)]
<1>0. PortTypeOK /\ SavedFlags /\ HandlerFlags /\ TaskFlag /\ port \in {"avr", "msp430", "linux"}
  BY PortIs DEF ContextInv, FlagInv
<1>1. /\ Creates(t)
      /\ t \notin created /\ created' = created \cup {t}
      /\ UNCHANGED <<port, cristate, cpu, task_current, isr_nesting>>
      /\ isr_nesting = 0
      /\ view' = [view EXCEPT ![t] = w]
  BY CreateStep DEF Creates
<1>2. w.ie = TRUE /\ w.reg = StartArgs(t)
  OBVIOUS
<1> HIDE DEF w
<1>3. /\ \A u \in created : u # t /\ view'[u] = view[u]
      /\ view'[t] = w /\ task_current \in created
  BY <1>0, <1>1, Programs DEF PortTypeOK
<1>4. SavedFlags'
  <2>1. SavedFlag(port, SavedAs(port, stack', ctx', t), w, cristate[t], t)
    <3>1. port # "linux" => SavedAs(port, stack', ctx', t).ie = TRUE
      BY <1>1 DEF Creates
    <3>2. w.reg[PC] = task_start(t)
      BY <1>0, <1>2, StartArgsPc
    <3> QED BY <1>0, <1>2, <3>1, <3>2 DEF SavedFlag
  <2>2. ASSUME NEW u \in created, u # task_current
        PROVE  SavedFlag(port', SavedAs(port', stack', ctx', u), view'[u], cristate'[u], u)
    <3>1. SavedAs(port, stack', ctx', u) = SavedAs(port, stack, ctx, u)
      BY <2>2, CreateSaved
    <3>2. SavedFlag(port, SavedAs(port, stack, ctx, u), view[u], cristate[u], u)
      BY <1>0, <2>2 DEF SavedFlags
    <3>3. view'[u] = view[u] /\ cristate'[u] = cristate[u] /\ port' = port
      BY <1>1, <1>3
    <3> QED BY <3>1, <3>2, <3>3, FlagStays
  <2> QED BY <1>1, <1>3, <2>1, <2>2 DEF SavedFlags
<1>5. HandlerFlags'
  BY <1>1 DEF HandlerFlags
<1>6. TaskFlag'
  <2>1. view'[task_current] = view[task_current]
    BY <1>3
  <2> QED BY <1>0, <1>1, <2>1 DEF TaskFlag, Started, InCritical, Running
<1> QED BY <1>4, <1>5, <1>6 DEF FlagInv

\* A task that is switched out is in a critical section and has the interrupts
\* off; unless it has ended, that is also what is saved.
LEMMA SwitchFlag ==
    ASSUME ContextInv, ContextInv', FlagInv, NEW new, Switch(new), port' = port, InCritical,
           NEW w, view' = [view EXCEPT ![task_current] = w],
           \A o \in Program : o # task_current => cristate'[o] = cristate[o],
           \/ created' = created \ {task_current}
           \/ created' = created /\ w.ie = cpu.ie /\ cristate' = cristate
    PROVE  FlagInv'
<1>0. PortTypeOK /\ SavedFlags /\ port \in {"avr", "msp430", "linux"}
  BY PortIs DEF ContextInv, FlagInv
<1>1. /\ Switches(new)
      /\ isr_nesting = 0 /\ isr_nesting' = 0 /\ task_current' = new
      /\ cpu' = SavedAs(port, stack, ctx, new)
      /\ SavedAs(port, stack', ctx', task_current).ie = cpu.ie
      /\ new \in created /\ new # task_current /\ new \in Task /\ task_current \in Task
  BY <1>0, SwitchStep, Programs DEF Switches
<1>2. /\ \A u \in created : u # task_current => u \in Program /\ view'[u] = view[u] /\ cristate'[u] = cristate[u]
      /\ view'[task_current] = w
      /\ cristate[task_current] # <<>>
  BY <1>0, <1>1, Programs DEF PortTypeOK, InCritical
<1>3. SavedFlags'
  <2>1. ASSUME task_current \in created'
        PROVE  SavedFlag(port', SavedAs(port', stack', ctx', task_current), view'[task_current],
                         cristate'[task_current], task_current)
    <3>1. w.ie = cpu.ie /\ cristate' = cristate
      BY <2>1
    <3> QED BY <1>0, <1>1, <1>2, <3>1 DEF SavedFlag
  <2>2. ASSUME NEW u \in created, u \notin {task_current, new}
        PROVE  SavedFlag(port', SavedAs(port', stack', ctx', u), view'[u], cristate'[u], u)
    <3>1. SavedAs(port, stack', ctx', u) = SavedAs(port, stack, ctx, u)
      BY <2>2, SwitchSaved
    <3>2. SavedFlag(port, SavedAs(port, stack, ctx, u), view[u], cristate[u], u)
      BY <1>0, <2>2 DEF SavedFlags
    <3>3. view'[u] = view[u] /\ cristate'[u] = cristate[u]
      BY <1>2, <2>2
    <3> QED BY <3>1, <3>2, <3>3, FlagStays
  <2>3. \A u \in created' : u # task_current => u \in created
    OBVIOUS
  <2> QED BY <1>1, <2>1, <2>2, <2>3 DEF SavedFlags
<1>4. HandlerFlags'
  BY <1>1 DEF HandlerFlags
<1>5. TaskFlag'
  <2>1. SavedFlag(port, cpu', view[new], cristate[new], new)
    BY <1>0, <1>1 DEF SavedFlags
  <2>2. view'[new] = view[new] /\ cristate'[new] = cristate[new]
    BY <1>1, <1>2
  <2>3. SavedFlag(port', cpu', view'[task_current'], cristate'[task_current'], task_current')
    BY <1>1, <2>1, <2>2
  <2> QED BY <1>0, <1>1, <2>3, TaskGoesOn
<1> QED BY <1>3, <1>4, <1>5 DEF FlagInv

LEMMA FlagInvStep ==
    ASSUME ContextInv, ContextInv', FlagInv, [AtomicNext]_<<portVars, atomicVars>> PROVE FlagInv'
<1>0. /\ PortTypeOK /\ IsView(cpu) /\ cristate = [o \in Program |-> cristate[o]]
      /\ Running \in Program
  BY Programs DEF ContextInv, PortTypeOK, IsCpu
<1>1. CASE arch_contextstore_i
  BY <1>1, StoreFlag
<1>2. CASE ProgramStep
  <2>1. ASSUME NEW tag \in Tags, Compute(tag) PROVE FlagInv'
    <3>1. Started
      BY <2>1 DEF Compute
    <3> QED BY <2>1, <3>1, ComputeLocal, LocalFlag
  <2>2. CASE Enter
    <3>1. \A o \in Program : o # Running => cristate'[o] = cristate[o]
      BY <1>0, <2>2, EnterStep
    <3>2. LocalStep /\ cpu'.ie = view'[Running].ie
      BY <2>2, EnterStep
    <3> QED BY <3>1, <3>2, LocalFlag
  <2>3. CASE Exit
    <3>0. InCritical
      BY <2>3 DEF Exit
    <3>1. \A o \in Program : o # Running => cristate'[o] = cristate[o]
      BY <1>0, <2>3, <3>0, ExitStep
    <3>2. LocalStep /\ cpu'.ie = view'[Running].ie
      BY <2>3, <3>0, ExitStep
    <3> QED BY <3>1, <3>2, LocalFlag
  <2>4. CASE EnableNesting
    BY <2>4, EnableLocal, LocalFlag
  <2>5. CASE arch_task_start
    BY <2>5, TaskStartLocal, LocalFlag
  <2>6. CASE arch_contextrestore_i
    BY <2>6, RestoreFirstFlag, RestoreNestedFlag
  <2>7. ASSUME NEW t \in Task, os_schedule(t) PROVE FlagInv'
    BY <2>7, ScheduleFlag
  <2>8. ASSUME NEW t \in Task, arch_task_init(t) PROVE FlagInv'
    BY <2>8, CreateFlag
  <2>9. ASSUME NEW t \in Task, arch_context_switch(t) PROVE FlagInv'
    <3> DEFINE w == [cpu EXCEPT !.reg = [r \in CallSaved |-> cpu.reg[r]]]
    <3>1. w.ie = cpu.ie
      BY <1>0, SetReg
    <3>2. /\ Switch(t) /\ InCritical /\ port' = port /\ view' = [view EXCEPT ![task_current] = w]
          /\ cristate' = cristate /\ created' = created
      BY <2>9 DEF arch_context_switch
    <3> HIDE DEF w
    <3> QED BY <3>1, <3>2, SwitchFlag
  <2>10. ASSUME NEW t \in Task, os_task_exit(t) PROVE FlagInv'
    <3>1. /\ Switch(t) /\ InCritical /\ port' = port /\ view' = [view EXCEPT ![task_current] = NoView]
          /\ cristate' = [cristate EXCEPT ![task_current] = <<>>] /\ created' = created \ {task_current}
      BY <2>10 DEF os_task_exit
    <3>2. \A o \in Program : o # task_current => cristate'[o] = cristate[o]
      BY <1>0, <3>1
    <3> QED BY <3>1, <3>2, SwitchFlag
  <2>11. CASE os_start
    BY <2>11, StartLocal, LocalFlag
  <2> QED BY <1>2, <2>1, <2>2, <2>3, <2>4, <2>5, <2>6, <2>7, <2>8, <2>9, <2>10, <2>11 DEF ProgramStep
<1>3. ASSUME NEW req, Begin(req) PROVE FlagInv'
  <2>1. \A o \in Program : o # Running => cristate'[o] = cristate[o]
    BY <1>0, <1>3, BeginStep
  <2>2. LocalStep /\ cpu'.ie = view'[Running].ie
    BY <1>3, BeginStep
  <2> QED BY <2>1, <2>2, LocalFlag
<1>4. CASE End
  <2>1. CASE InCritical
    <3>1. \A o \in Program : o # Running => cristate'[o] = cristate[o]
      BY <1>0, <1>4, <2>1, ExitStep
    <3>2. LocalStep /\ cpu'.ie = view'[Running].ie
      BY <1>4, <2>1, ExitStep
    <3> QED BY <3>1, <3>2, LocalFlag
  <2>2. CASE ~InCritical
    <3>1. LocalStep /\ cristate' = cristate /\ cpu'.ie = view'[Running].ie
      BY <1>4, <2>2, EndOutside
    <3> QED BY <3>1, LocalFlag
  <2> QED BY <2>1, <2>2
<1>5. CASE UNCHANGED portVars
  BY <1>5 DEF FlagInv, SavedFlags, HandlerFlags, TaskFlag, Started, InCritical, Running, portVars
<1>6. ASSUME NEW req, Whole(req) PROVE UNCHANGED portVars
  BY <1>6 DEF Whole
<1>7. Load \/ LoadHigh \/ Store \/ StoreHigh => UNCHANGED portVars
  BY DEF Load, LoadHigh, Store, StoreHigh
<1> QED BY <1>1, <1>2, <1>3, <1>4, <1>5, <1>6, <1>7 DEF AtomicNext

---------------------------------------------------------------------------
(* Critical sections.                                                      *)

\* On AVR and Linux the flag is off in a critical section.
LEMMA SectionsHold ==
    ASSUME ContextInv, FlagInv, Sections, port # "msp430", InCritical PROVE cpu.ie = FALSE
<1>1. PortTypeOK /\ TaskViews /\ ContextKept /\ HandlerFlags /\ TaskFlag
  BY DEF ContextInv, FlagInv
<1>2. Running \in Program /\ cristate[Running] # <<>>
  BY <1>1, Programs DEF InCritical
<1>3. view[Running].ie = FALSE
  BY <1>2 DEF Sections, SectionOK
<1>4. CASE isr_nesting > 0
  BY <1>1, <1>3, <1>4, Programs DEF HandlerFlags
<1>5. CASE isr_nesting = 0
  <2>1. Running = task_current /\ task_current \in created
    BY <1>1, <1>5, Programs DEF PortTypeOK
  <2>2. cpu.reg[PC] = view[task_current].reg[PC]
    BY <1>1, <2>1 DEF ContextKept, Finds, TaskViews
  <2>3. Started
    BY <1>2, <2>1, <2>2 DEF Started, Sections
  <2>4. cpu.ie = view[task_current].ie
    BY <1>1, <1>5, <2>3 DEF TaskFlag
  <2> QED BY <1>3, <2>1, <2>4
<1>6. isr_nesting = 0 \/ isr_nesting > 0
  BY <1>1, Programs
<1> QED BY <1>4, <1>5, <1>6

LEMMA SectionsInit == AtomicInit => Sections
<1> SUFFICES ASSUME AtomicInit PROVE Sections
  OBVIOUS
<1>1. \A o \in Program : cristate[o] = <<>>
  BY DEF AtomicInit, PortInit
<1>2. \A o \in Task \cup (1 .. MaxNesting) : cristate[o] = <<>>
  BY <1>1 DEF Program
<1>3. created \subseteq Task
  BY IdleAssumption DEF AtomicInit, PortInit
<1> QED BY <1>1, <1>2, <1>3 DEF Sections, SectionOK

\* A step of the program that runs concerns its own sections.
LEMMA LocalSections ==
    ASSUME ContextInv, Sections, LocalStep,
           \A o \in Program : o # Running => cristate'[o] = cristate[o],
           port # "msp430" => SectionOK(cristate'[Running], view'[Running]),
           isr_nesting = 0 /\ view'[Running].reg[PC] = task_start(task_current) => cristate'[Running] = <<>>
    PROVE  Sections'
<1>1. PortTypeOK
  BY DEF ContextInv
<1>2. UNCHANGED <<port, task_current, isr_nesting, created>>
  BY DEF LocalStep
<1>3. \A o \in Program : o # Running => view'[o] = view[o]
  BY <1>1 DEF LocalStep, PortTypeOK
<1>4. port # "msp430" => \A o \in Program : SectionOK(cristate'[o], view'[o])
  BY <1>3 DEF Sections
<1>5. \A t \in created : view'[t].reg[PC] = task_start(t) => cristate'[t] = <<>>
  <2> SUFFICES ASSUME NEW t \in created, view'[t].reg[PC] = task_start(t) PROVE cristate'[t] = <<>>
    OBVIOUS
  <2>1. t \in Program /\ (t = Running => isr_nesting = 0 /\ t = task_current)
    BY <1>1, Programs DEF PortTypeOK
  <2> QED BY <1>3, <2>1 DEF Sections
<1>6. \A t \in Task \ created : cristate'[t] = <<>>
  <2>1. \A t \in Task \ created : t \in Program /\ t # Running
    BY <1>1, Programs DEF PortTypeOK
  <2> QED BY <2>1 DEF Sections
<1>7. \A k \in 1 .. MaxNesting : k > isr_nesting => cristate'[k] = <<>>
  <2>1. \A k \in 1 .. MaxNesting : k > isr_nesting => k \in Program /\ k # Running
    BY <1>1, Programs
  <2> QED BY <2>1 DEF Sections
<1> QED BY <1>2, <1>4, <1>5, <1>6, <1>7 DEF Sections, task_start

\* A program that is past its start is no longer at arch_task_start.
LEMMA NotAtStart ==
    ASSUME NEW t, NEW tag \in Tags PROVE Datum(t, tag, PC) # task_start(t)
BY DEF Datum, task_start, Tags

LEMMA ComputeSections ==
    ASSUME ContextInv, Sections, NEW tag \in Tags, Compute(tag) PROVE Sections'
<1>1. /\ LocalStep /\ view'[Running].ie = view[Running].ie /\ cristate' = cristate
      /\ view'[Running].reg = Work(port, Running, tag)
  BY ComputeLocal
<1>2. PortTypeOK /\ Running \in Program /\ port \in {"avr", "msp430", "linux"}
  BY Programs, PortIs DEF ContextInv
<1>3. view'[Running].reg[PC] = Datum(Running, tag, PC)
  BY <1>1, <1>2, RegistersHavePc DEF Work
<1>4. port # "msp430" => SectionOK(cristate'[Running], view'[Running])
  BY <1>1, <1>2 DEF Sections, SectionOK
<1>5. isr_nesting = 0 => view'[Running].reg[PC] # task_start(task_current)
  BY <1>2, <1>3, NotAtStart, Programs
<1> QED BY <1>1, <1>4, <1>5, LocalSections

\* The program that runs enters a section; it is past its start.
LEMMA EnterSections ==
    ASSUME ContextInv, FlagInv, Sections, LocalStep,
           view'[Running].ie = FALSE, view'[Running].reg = view[Running].reg,
           cristate' = [cristate EXCEPT ![Running] = Append(cristate[Running], cpu.ie)],
           Started
    PROVE  Sections'
<1>1. PortTypeOK /\ Running \in Program /\ cpu.ie \in BOOLEAN /\ cristate[Running] \in Seq(BOOLEAN)
  BY Programs DEF ContextInv, PortTypeOK, IsCpu
<1>2. /\ cristate'[Running] = Append(cristate[Running], cpu.ie)
      /\ \A o \in Program : o # Running => cristate'[o] = cristate[o]
  BY <1>1 DEF PortTypeOK
<1>3. ASSUME isr_nesting = 0 PROVE view'[Running].reg[PC] # task_start(task_current)
  <2>1. Running = task_current /\ task_current \in created
    BY <1>1, <1>3, Programs DEF PortTypeOK
  <2>2. cpu.reg[PC] = view[Running].reg[PC]
    BY <2>1 DEF ContextInv, TaskViews, ContextKept, Finds
  <2> QED BY <2>2 DEF Started
<1>4. ASSUME port # "msp430" PROVE SectionOK(cristate'[Running], view'[Running])
  <2> DEFINE s == cristate[Running]
             e == Append(s, cpu.ie)
  <2>1. /\ Len(e) = Len(s) + 1 /\ Len(s) \in Nat /\ (Len(s) = 0 <=> s = <<>>)
        /\ \A i \in 1 .. Len(s) : e[i] = s[i]
        /\ e[Len(s) + 1] = cpu.ie
    BY <1>1, FlagStack, LenProperties
  <2>2. s # <<>> => cpu.ie = FALSE
    BY <1>4, SectionsHold DEF InCritical
  <2>3. \A i \in 2 .. Len(s) : s[i] = FALSE
    <3>1. CASE s # <<>>
      BY <1>1, <1>4, <3>1 DEF Sections, SectionOK
    <3>2. CASE s = <<>>
      BY <2>1, <3>2
    <3> QED BY <3>1, <3>2
  <2> HIDE DEF s, e
  <2>4. \A i \in 2 .. Len(e) : e[i] = FALSE
    <3> SUFFICES ASSUME NEW i \in 2 .. Len(e) PROVE e[i] = FALSE
      OBVIOUS
    <3>1. CASE i = Len(s) + 1
      <4>1. s # <<>>
        BY <2>1, <3>1
      <4> QED BY <2>1, <2>2, <3>1, <4>1
    <3>2. CASE i # Len(s) + 1
      <4>1. i \in 2 .. Len(s) /\ i \in 1 .. Len(s)
        BY <2>1, <3>2
      <4> QED BY <2>1, <2>3, <4>1
    <3> QED BY <3>1, <3>2
  <2>5. cristate'[Running] = e
    BY <1>2 DEF e, s
  <2> QED BY <2>4, <2>5 DEF SectionOK
<1> QED BY <1>2, <1>3, <1>4, LocalSections

\* It leaves the innermost section.
LEMMA ExitSections ==
    ASSUME ContextInv, Sections, LocalStep, InCritical,
           cpu'.ie = Last(cristate[Running]), view'[Running].ie = cpu'.ie,
           view'[Running].reg = view[Running].reg,
           cristate' = [cristate EXCEPT ![Running] = Front(cristate[Running])]
    PROVE  Sections'
<1>1. PortTypeOK /\ Running \in Program /\ cristate[Running] \in Seq(BOOLEAN) /\ cristate[Running] # <<>>
  BY Programs DEF ContextInv, PortTypeOK, InCritical
<1>2. /\ cristate'[Running] = Front(cristate[Running])
      /\ \A o \in Program : o # Running => cristate'[o] = cristate[o]
  BY <1>1 DEF PortTypeOK
<1>3. ASSUME isr_nesting = 0 PROVE view'[Running].reg[PC] # task_start(task_current)
  <2>1. Running = task_current /\ task_current \in created
    BY <1>1, <1>3, Programs DEF PortTypeOK
  <2> QED BY <1>1, <2>1 DEF Sections
<1>4. ASSUME port # "msp430" PROVE SectionOK(cristate'[Running], view'[Running])
  <2> DEFINE s == cristate[Running]
             e == Front(s)
  <2>1. /\ Last(s) = s[Len(s)] /\ Len(s) \in Nat \ {0} /\ Len(e) = Len(s) - 1
        /\ \A i \in 1 .. Len(s) - 1 : e[i] = s[i]
        /\ e \in Seq(BOOLEAN)
    <3>1. TRUE \in BOOLEAN
      OBVIOUS
    <3> QED BY <1>1, <3>1, FlagStack
  <2>2. \A i \in 2 .. Len(s) : s[i] = FALSE
    BY <1>1, <1>4 DEF Sections, SectionOK
  <2>3. view'[Running].ie = Last(s) /\ cristate'[Running] = e
    BY <1>2
  <2> HIDE DEF s, e
  <2>4. ASSUME e # <<>> PROVE view'[Running].ie = FALSE
    <3>1. Len(e) # 0
      <4>1. Len(e) = 0 <=> e = <<>>
        BY <2>1, EmptySeq
      <4> QED BY <2>4, <4>1
    <3>2. Len(s) \in 2 .. Len(s)
      BY <2>1, <3>1
    <3>3. s[Len(s)] = FALSE
      BY <2>2, <3>2
    <3> QED BY <2>1, <2>3, <3>3
  <2>5. \A i \in 2 .. Len(e) : e[i] = FALSE
    <3> SUFFICES ASSUME NEW i \in 2 .. Len(e) PROVE e[i] = FALSE
      OBVIOUS
    <3>1. i \in 2 .. Len(s) /\ i \in 1 .. Len(s) - 1
      BY <2>1
    <3> QED BY <2>1, <2>2, <3>1
  <2> QED BY <2>3, <2>4, <2>5 DEF SectionOK
<1> QED BY <1>2, <1>3, <1>4, LocalSections

LEMMA EnableSections ==
    ASSUME ContextInv, Sections, EnableNesting PROVE Sections'
<1>1. LocalStep /\ isr_nesting > 0 /\ cristate[Running] = <<>> /\ cristate' = cristate
  BY EnableLocal DEF InCritical
<1> QED BY <1>1, LocalSections DEF SectionOK

LEMMA StartSections ==
    ASSUME ContextInv, Sections, os_start PROVE Sections'
<1>1. LocalStep /\ cristate[Running] = <<>> /\ cristate' = cristate
  BY StartLocal DEF InCritical
<1> QED BY <1>1, LocalSections DEF SectionOK

LEMMA TaskStartSections ==
    ASSUME ContextInv, Sections, arch_task_start PROVE Sections'
<1>1. PortTypeOK /\ TaskViews /\ ContextKept /\ isr_nesting = 0 /\ ~Started
  BY DEF ContextInv, arch_task_start
<1>2. Running = task_current /\ task_current \in created
  BY <1>1, Programs DEF PortTypeOK
<1>3. view[task_current].reg[PC] = task_start(task_current)
  BY <1>1, <1>2 DEF ContextKept, Finds, TaskViews, Started
<1>4. cristate[Running] = <<>>
  BY <1>2, <1>3 DEF Sections
<1>5. LocalStep /\ cristate' = cristate
  BY TaskStartLocal
<1> QED BY <1>4, <1>5, LocalSections DEF SectionOK

\* The program that ends its macro outside of a section.
LEMMA EndSections ==
    ASSUME ContextInv, Sections, ~InCritical, End PROVE Sections'
<1>1. LocalStep /\ cristate' = cristate /\ cristate[Running] = <<>>
  BY EndOutside DEF InCritical
<1> QED BY <1>1, LocalSections DEF SectionOK

LEMMA StoreSections ==
    ASSUME ContextInv, Sections, arch_contextstore_i PROVE Sections'
<1> DEFINE n == isr_nesting
<1>1. /\ PortTypeOK /\ n \in Nat /\ isr_nesting' = n + 1 /\ n + 1 \in 1 .. MaxNesting
      /\ UNCHANGED <<port, cristate, created>>
      /\ view' = [view EXCEPT ![n + 1] = view'[n + 1]]
  BY StoreStep, Programs DEF ContextInv, Stores
<1>2. \A o \in Program : o # n + 1 => view'[o] = view[o]
  BY <1>1 DEF PortTypeOK
<1>3. cristate[n + 1] = <<>>
  <2>1. n + 1 > isr_nesting
    BY <1>1
  <2> QED BY <1>1, <2>1 DEF Sections
<1>4. \A t \in created : view'[t] = view[t]
  BY <1>1, <1>2, Programs DEF PortTypeOK
<1>5. port # "msp430" => \A o \in Program : SectionOK(cristate[o], view'[o])
  BY <1>2, <1>3 DEF Sections, SectionOK
<1>6. \A t \in created : view'[t].reg[PC] = task_start(t) => cristate[t] = <<>>
  BY <1>4 DEF Sections
<1>7. \A k \in 1 .. MaxNesting : k > n + 1 => cristate[k] = <<>>
  <2>1. \A k \in 1 .. MaxNesting : k > n + 1 => k > isr_nesting
    BY <1>1
  <2> QED BY <2>1 DEF Sections
<1> QED BY <1>1, <1>5, <1>6, <1>7 DEF Sections, task_start

LEMMA RestoreSections ==
    ASSUME ContextInv, Sections, arch_contextrestore_i PROVE Sections'
<1> DEFINE n == isr_nesting
<1>1. /\ PortTypeOK /\ n \in Nat /\ n > 0 /\ n \in 1 .. MaxNesting /\ cristate[n] = <<>>
      /\ UNCHANGED <<port, cristate, created>>
      /\ view' = [view EXCEPT ![n] = NoView]
  BY Programs DEF ContextInv, arch_contextrestore_i, InCritical
<1>2. isr_nesting' = n - 1
  BY RestoreFirstStep, RestoreNestedStep DEF ResumesTask, ResumesHandler
<1>3. \A o \in Program : o # n => view'[o] = view[o]
  BY <1>1 DEF PortTypeOK
<1>4. \A t \in created : view'[t] = view[t]
  BY <1>1, <1>3, Programs DEF PortTypeOK
<1>5. port # "msp430" => \A o \in Program : SectionOK(cristate[o], view'[o])
  BY <1>1, <1>3 DEF Sections, SectionOK
<1>6. \A t \in created : view'[t].reg[PC] = task_start(t) => cristate[t] = <<>>
  BY <1>4 DEF Sections
<1>7. \A k \in 1 .. MaxNesting : k > n - 1 => cristate[k] = <<>>
  <2>1. \A k \in 1 .. MaxNesting : k > n - 1 => k > isr_nesting \/ k = n
    BY <1>1
  <2> QED BY <1>1, <2>1 DEF Sections
<1> QED BY <1>1, <1>2, <1>5, <1>6, <1>7 DEF Sections, task_start

LEMMA ScheduleSections ==
    ASSUME Sections, NEW t, os_schedule(t) PROVE Sections'
<1>1. UNCHANGED <<port, isr_nesting, cristate, created, view>>
  BY DEF os_schedule
<1> QED BY <1>1 DEF Sections, task_start

LEMMA CreateSections ==
    ASSUME ContextInv, Sections, NEW t \in Task, arch_task_init(t) PROVE Sections'
<1>1. /\ PortTypeOK /\ t \notin created /\ created' = created \cup {t}
      /\ UNCHANGED <<port, cristate, isr_nesting>>
      /\ view' = [view EXCEPT ![t] = view'[t]]
  <2> DEFINE w == [reg |-> StartArgs(t), ie |-> TRUE, sp |-> Sp(t, 0)]
  <2>1. /\ PortTypeOK /\ t \notin created /\ created' = created \cup {t} /\ t \in Program
        /\ UNCHANGED <<port, cristate, isr_nesting>>
        /\ view' = [view EXCEPT ![t] = w]
    BY CreateStep, Programs DEF ContextInv, Creates
  <2> HIDE DEF w
  <2>2. view'[t] = w
    BY <2>1 DEF PortTypeOK
  <2> QED BY <2>1, <2>2
<1>2. cristate[t] = <<>>
  BY <1>1 DEF Sections
<1>3. \A o \in Program : o # t => view'[o] = view[o]
  BY <1>1 DEF PortTypeOK
<1>4. \A u \in created : view'[u] = view[u]
  BY <1>1, <1>3, Programs DEF PortTypeOK
<1>5. port # "msp430" => \A o \in Program : SectionOK(cristate[o], view'[o])
  BY <1>2, <1>3 DEF Sections, SectionOK
<1>6. \A u \in created' : view'[u].reg[PC] = task_start(u) => cristate[u] = <<>>
  BY <1>1, <1>2, <1>4 DEF Sections
<1>7. \A u \in Task \ created' : cristate[u] = <<>>
  BY <1>1 DEF Sections
<1> QED BY <1>1, <1>5, <1>6, <1>7 DEF Sections, task_start

LEMMA SwitchSections ==
    ASSUME ContextInv, Sections, NEW new, arch_context_switch(new) PROVE Sections'
<1> DEFINE R == [r \in CallSaved |-> cpu.reg[r]]
           w == [cpu EXCEPT !.reg = R]
<1>1. /\ PortTypeOK /\ IsView(cpu) /\ cpu.ie = FALSE /\ port \in {"avr", "msp430", "linux"}
      /\ Switch(new) /\ InCritical /\ Started /\ UNCHANGED <<port, cristate, created>>
      /\ view' = [view EXCEPT ![task_current] = w]
  BY PortIs DEF ContextInv, PortTypeOK, IsCpu, arch_context_switch, Switch
<1>2. isr_nesting = 0 /\ isr_nesting' = 0 /\ task_current \in created /\ task_current \in Program /\ Running = task_current
  BY <1>1, SwitchStep, Programs DEF Switches, PortTypeOK
<1>3. w.ie = cpu.ie /\ w.reg = R
  BY <1>1, SetReg
<1>4. PC \in CallSaved
  BY <1>1 DEF CallSaved, PC, Avr!CallSaved, Avr!PC, Msp430!CallSaved, Msp430!PC, Linux!CallSaved, Linux!PC
<1>5. w.reg[PC] # task_start(task_current)
  BY <1>1, <1>3, <1>4 DEF Started
<1> HIDE DEF w
<1>6. view'[task_current] = w /\ \A o \in Program : o # task_current => view'[o] = view[o]
  BY <1>1, <1>2 DEF PortTypeOK
<1>7. port # "msp430" => \A o \in Program : SectionOK(cristate[o], view'[o])
  <2> SUFFICES ASSUME port # "msp430", NEW o \in Program PROVE SectionOK(cristate[o], view'[o])
    OBVIOUS
  <2>1. CASE o = task_current
    <3>1. SectionOK(cristate[o], view[o])
      BY DEF Sections
    <3>2. view'[o].ie = FALSE
      BY <1>1, <1>3, <1>6, <2>1
    <3> QED BY <3>1, <3>2 DEF SectionOK
  <2>2. CASE o # task_current
    BY <1>6, <2>2 DEF Sections
  <2> QED BY <2>1, <2>2
<1>8. \A u \in created : view'[u].reg[PC] = task_start(u) => cristate[u] = <<>>
  <2>1. \A u \in created : u \in Program
    BY <1>1, Programs DEF PortTypeOK
  <2> QED BY <1>5, <1>6, <2>1 DEF Sections
<1> QED BY <1>1, <1>2, <1>7, <1>8 DEF Sections, task_start

LEMMA TaskExitSections ==
    ASSUME ContextInv, Sections, NEW new, os_task_exit(new) PROVE Sections'
<1>1. /\ PortTypeOK /\ Switch(new) /\ port' = port /\ view' = [view EXCEPT ![task_current] = NoView]
      /\ cristate' = [cristate EXCEPT ![task_current] = <<>>] /\ created' = created \ {task_current}
  BY DEF ContextInv, os_task_exit
<1>2. isr_nesting = 0 /\ isr_nesting' = 0 /\ task_current \in created /\ task_current \in Program
  BY <1>1, SwitchStep, Programs DEF Switches, PortTypeOK
<1>3. /\ cristate'[task_current] = <<>>
      /\ \A o \in Program : o # task_current => cristate'[o] = cristate[o] /\ view'[o] = view[o]
  BY <1>1, <1>2 DEF PortTypeOK
<1>4. port # "msp430" => \A o \in Program : SectionOK(cristate'[o], view'[o])
  BY <1>3 DEF Sections, SectionOK
<1>5. \A u \in created' : view'[u].reg[PC] = task_start(u) => cristate'[u] = <<>>
  <2>1. \A u \in created' : u \in created /\ u # task_current /\ u \in Program
    BY <1>1, Programs DEF PortTypeOK
  <2> QED BY <1>3, <2>1 DEF Sections
<1>6. \A u \in Task \ created' : cristate'[u] = <<>>
  <2>1. \A u \in Task \ created' : u = task_current \/ u \in Task \ created
    BY <1>1
  <2>2. \A u \in Task : u \in Program
    BY <1>1, Programs
  <2> QED BY <1>3, <2>1, <2>2 DEF Sections
<1>7. \A k \in 1 .. MaxNesting : k > 0 => cristate'[k] = <<>>
  <2>1. \A k \in 1 .. MaxNesting : k # task_current /\ k \in Program
    BY <1>1, Programs
  <2> QED BY <1>2, <1>3, <2>1 DEF Sections
<1> QED BY <1>1, <1>2, <1>4, <1>5, <1>6, <1>7 DEF Sections, task_start

LEMMA SectionsStep ==
    ASSUME ContextInv, FlagInv, Sections, [AtomicNext]_<<portVars, atomicVars>> PROVE Sections'
<1>1. CASE arch_contextstore_i
  BY <1>1, StoreSections
<1>2. CASE ProgramStep
  <2>1. ASSUME NEW tag \in Tags, Compute(tag) PROVE Sections'
    BY <2>1, ComputeSections
  <2>2. CASE Enter
    <3>1. Started
      BY <2>2 DEF Enter
    <3> QED BY <2>2, <3>1, EnterStep, EnterSections
  <2>3. CASE Exit
    <3>1. InCritical
      BY <2>3 DEF Exit
    <3> QED BY <2>3, <3>1, ExitStep, ExitSections
  <2>4. CASE EnableNesting
    BY <2>4, EnableSections
  <2>5. CASE arch_task_start
    BY <2>5, TaskStartSections
  <2>6. CASE arch_contextrestore_i
    BY <2>6, RestoreSections
  <2>7. ASSUME NEW t \in Task, os_schedule(t) PROVE Sections'
    BY <2>7, ScheduleSections
  <2>8. ASSUME NEW t \in Task, arch_task_init(t) PROVE Sections'
    BY <2>8, CreateSections
  <2>9. ASSUME NEW t \in Task, arch_context_switch(t) PROVE Sections'
    BY <2>9, SwitchSections
  <2>10. ASSUME NEW t \in Task, os_task_exit(t) PROVE Sections'
    BY <2>10, TaskExitSections
  <2>11. CASE os_start
    BY <2>11, StartSections
  <2> QED BY <1>2, <2>1, <2>2, <2>3, <2>4, <2>5, <2>6, <2>7, <2>8, <2>9, <2>10, <2>11 DEF ProgramStep
<1>3. ASSUME NEW req, Begin(req) PROVE Sections'
  <2>1. Started
    <3>1. cpu.reg[PC] = Datum(Running, "v0", PC)
      BY <1>3 DEF Begin, MayCall
    <3>2. PortTypeOK
      BY DEF ContextInv
    <3>3. CASE isr_nesting = 0
      <4>1. Running = task_current
        BY <3>2, <3>3, Programs
      <4> QED BY <3>1, <4>1, NotAtStart DEF Started, Tags
    <3>4. CASE isr_nesting > 0
      <4>1. Running = isr_nesting
        BY <3>2, <3>4, Programs
      <4> QED BY <3>1 DEF Started, Datum, task_start
    <3> QED BY <3>2, <3>3, <3>4, Programs
  <2> QED BY <1>3, <2>1, BeginStep, EnterSections
<1>4. CASE End
  BY <1>4, ExitStep, ExitSections, EndSections
<1>5. CASE UNCHANGED portVars
  BY <1>5 DEF Sections, task_start, portVars
<1>6. ASSUME NEW req, Whole(req) PROVE UNCHANGED portVars
  BY <1>6 DEF Whole
<1>7. Load \/ LoadHigh \/ Store \/ StoreHigh => UNCHANGED portVars
  BY DEF Load, LoadHigh, Store, StoreHigh
<1> QED BY <1>1, <1>2, <1>3, <1>4, <1>5, <1>6, <1>7 DEF AtomicNext

\* The contexts, the flags and the critical sections keep their invariants.
THEOREM AtomicFlagInv == AtomicSpec => [](ContextInv /\ FlagInv /\ Sections)
<1>1. AtomicInit => FlagInv /\ Sections
  BY FlagInit, SectionsInit
<1>2. /\ ContextInv /\ ContextInv' /\ FlagInv /\ Sections
      /\ [AtomicNext]_<<portVars, atomicVars>>
      => FlagInv' /\ Sections'
  BY FlagInvStep, SectionsStep
<1> QED BY <1>1, <1>2, AtomicContextInv, PTL DEF AtomicSpec

\* A program also goes on with the interrupt flag it had when it was
\* interrupted or switched out, but for what the MSP430 port (the restore sets
\* GIE) and the Linux port (a nested handler that returns takes the signal mask
\* of task_current, and arch_task_start sets the mask of a new task) do
\* otherwise.
THEOREM FlagIsKept == AtomicSpec => []FlagKept
<1>1. ContextInv /\ FlagInv => FlagKept
  <2> SUFFICES ASSUME ContextInv, FlagInv PROVE FlagKept
    OBVIOUS
  <2>1. PortTypeOK /\ HandlerFlags /\ TaskFlag
    BY DEF ContextInv, FlagInv
  <2>2. CASE isr_nesting = 0
    BY <2>1, <2>2, Programs DEF TaskFlag, FlagKept
  <2>3. CASE isr_nesting > 0
    BY <2>1, <2>3, Programs DEF HandlerFlags, FlagKept
  <2> QED BY <2>1, <2>2, <2>3, Programs
<1> QED BY <1>1, AtomicFlagInv, PTL

\* On AVR and on Linux no other program changes what a critical section did to
\* the interrupt flag: not a task that runs while the section's task is
\* switched out in it, and not the restore at the end of a handler.  On
\* MSP430 one does, as the run PortMsp430 shows.
THEOREM SectionsAreKept == AtomicSpec => [](port # "msp430" => CriticalSectionKept)
<1>1. ContextInv /\ FlagInv /\ Sections => (port # "msp430" => CriticalSectionKept)
  <2> SUFFICES ASSUME ContextInv, FlagInv, Sections, port # "msp430", InCritical PROVE ~cpu.ie
    BY DEF CriticalSectionKept
  <2>1. cpu.ie = FALSE
    BY SectionsHold
  <2> QED BY <2>1
<1> QED BY <1>1, AtomicFlagInv, PTL
---------------------------------------------------------------------------
(* The macros: what is known of the word and of each macro that is under   *)
(* way.                                                                    *)

IsWord(n) == n \in Nat /\ n < WORD

IsBytes(w) ==
    /\ w = <<w[1], w[2]>>
    /\ w[1] \in Nat /\ w[1] < BYTE
    /\ w[2] \in Nat /\ w[2] < BYTE

\* A number is its high and its low digit.
LEMMA Digits ==
    ASSUME NEW n \in Nat, NEW b \in Nat \ {0}
    PROVE  /\ n % b \in Nat /\ n % b < b
           /\ n \div b \in Nat
           /\ n = (b * (n \div b)) + (n % b)
OBVIOUS

LEMMA DigitBound ==
    ASSUME NEW b \in Nat \ {0}, NEW q \in Nat, NEW r \in Nat, b * q + r < b * b
    PROVE  q < b
<1>1. SUFFICES ASSUME q >= b PROVE FALSE
  OBVIOUS
<1>2. PICK d \in Nat : q = b + d
  <2>1. q - b \in Nat /\ q = b + (q - b)
    BY <1>1
  <2> QED BY <2>1
<1>3. b * q = b * b + b * d
  BY <1>2
<1>4. b * d \in Nat /\ b * b \in Nat
  OBVIOUS
<1> QED BY <1>3, <1>4

LEMMA TwoDigits ==
    ASSUME NEW b \in Nat \ {0}, NEW l \in Nat, l < b, NEW h \in Nat, h < b
    PROVE  l + b * h \in Nat /\ l + b * h < b * b
<1>1. PICK d \in Nat : b = (h + 1) + d
  <2>1. b - (h + 1) \in Nat /\ b = (h + 1) + (b - (h + 1))
    OBVIOUS
  <2> QED BY <2>1
<1>2. b * b = b * h + b + b * d
  BY <1>1
<1>3. b * d \in Nat /\ b * h \in Nat
  OBVIOUS
<1> QED BY <1>2, <1>3

LEMMA BytesOf ==
    ASSUME NEW n, IsWord(n)
    PROVE  IsBytes(Bytes(n)) /\ Value(Bytes(n)) = n
<1> DEFINE l == n % BYTE
           h == n \div BYTE
<1>1. n \in Nat /\ BYTE \in Nat \ {0} /\ n < BYTE * BYTE
  BY ByteAssumption DEF IsWord, WORD
<1>2. l \in Nat /\ l < BYTE /\ h \in Nat /\ n = BYTE * h + l
  BY <1>1, Digits
<1> HIDE DEF l, h
<1>3. h < BYTE
  BY <1>1, <1>2, DigitBound
<1>4. Bytes(n) = <<l, h>>
  BY DEF Bytes, l, h
<1>5. BYTE * h \in Nat
  BY <1>1, <1>2
<1>6. l + BYTE * h = n
  BY <1>2, <1>5
<1> QED BY <1>2, <1>3, <1>4, <1>6 DEF IsBytes, Value

LEMMA ValueOf ==
    ASSUME NEW w, IsBytes(w) PROVE IsWord(Value(w))
<1>1. BYTE \in Nat \ {0}
  BY ByteAssumption
<1> QED BY <1>1, TwoDigits DEF IsBytes, IsWord, Value, WORD

LEMMA WordSize == WORD \in Nat \ {0}
BY ByteAssumption DEF WORD

LEMMA WordMod ==
    ASSUME NEW n \in Nat PROVE IsWord(n % WORD)
BY WordSize, Digits DEF IsWord

LEMMA Requests ==
    ASSUME NEW req \in Request
    PROVE  /\ req.call \in {"inc_load", "dec_load", "inc", "dec", "load", "store", "exch", "cmp_exch"}
           /\ req.call \in {"store", "exch", "cmp_exch"} => IsWord(req.val)
<1>1. \A n \in Arguments : IsWord(n)
  BY ByteAssumption DEF IsWord, WORD
<1> QED BY <1>1 DEF Request

LEMMA EffectIsWord ==
    ASSUME NEW req \in Request, NEW old, IsWord(old)
    PROVE  IsWord(Effect(req, old).new) /\ IsWord(Effect(req, old).res)
<1>1. old + 1 \in Nat /\ old + WORD - 1 \in Nat
  BY WordSize DEF IsWord
<1>2. IsWord((old + 1) % WORD) /\ IsWord((old + WORD - 1) % WORD)
  BY <1>1, WordMod
<1> DEFINE a == (old + 1) % WORD
           b == (old + WORD - 1) % WORD
<1>3. /\ os_atomic_inc_load(old) = [new |-> a, res |-> a] /\ os_atomic_inc(old) = [new |-> a, res |-> a]
      /\ os_atomic_dec_load(old) = [new |-> b, res |-> b] /\ os_atomic_dec(old) = [new |-> b, res |-> b]
  BY DEF os_atomic_inc_load, os_atomic_dec_load, os_atomic_inc, os_atomic_dec
<1> HIDE DEF a, b
<1> QED BY <1>2, <1>3, Requests DEF Effect, os_atomic_load, os_atomic_store, os_atomic_exch,
                                    os_atomic_cmp_exch, a, b

LEMMA EffectOfStore ==
    ASSUME NEW req \in Request, req.call = "store", NEW old, NEW other
    PROVE  Effect(req, old) = Effect(req, other)
BY DEF Effect, os_atomic_store

LEMMA EffectUnwritten ==
    ASSUME NEW req \in Request, NEW old, ~Writes(req, old)
    PROVE  Effect(req, old).new = old
<1>1. req.call = "load" \/ (req.call = "cmp_exch" /\ old # req.exp)
  BY DEF Writes
<1> QED BY <1>1 DEF Effect, os_atomic_load, os_atomic_cmp_exch

---------------------------------------------------------------------------
\* What is known of a macro in the state s when the word is w.
Loading(s) == s = [at |-> "load", req |-> s.req] /\ s.req \in Request
LoadingHigh(s, w) ==
    s = [at |-> "load_high", req |-> s.req, low |-> w[1]] /\ s.req \in Request
Storing(s, w) ==
    /\ s = [at |-> "store", val |-> s.val, res |-> s.res]
    /\ \E req \in Request : LET e == Effect(req, Value(w)) IN s.val = e.new /\ s.res = e.res
StoringHigh(s, w) ==
    /\ s = [at |-> "store_high", val |-> s.val, res |-> s.res]
    /\ IsWord(s.val) /\ IsWord(s.res) /\ w[1] = Bytes(s.val)[1]
Done(s) == s = [at |-> "done", val |-> s.val, res |-> s.res] /\ IsWord(s.res)

MacroOK(s, w) ==
    s = Idling \/ Loading(s) \/ LoadingHigh(s, w) \/ Storing(s, w) \/ StoringHigh(s, w) \/ Done(s)

\* A macro that takes several steps is alone with the word: it runs, and the
\* interrupts are off until its end.
MacroInv ==
    /\ op = [o \in Program |-> op[o]]
    /\ IsBytes(word)
    /\ \A o \in Program : MacroOK(op[o], word)
    /\ \A o \in Program : op[o] # Idling => o = Running /\ cpu.ie = FALSE

LEMMA At ==
    ASSUME NEW s, NEW w, MacroOK(s, w)
    PROVE  /\ s.at = "none" => s = Idling
           /\ s.at = "load" => Loading(s)
           /\ s.at = "load_high" => LoadingHigh(s, w)
           /\ s.at = "store" => Storing(s, w)
           /\ s.at = "store_high" => StoringHigh(s, w)
           /\ s.at = "done" => Done(s)
           /\ s = Idling => s.at = "none"
<1>1. CASE s = Idling
  BY <1>1 DEF Idling
<1>2. CASE Loading(s)
  <2>1. s.at = "load"
    BY <1>2 DEF Loading
  <2> QED BY <1>2, <2>1 DEF Idling
<1>3. CASE LoadingHigh(s, w)
  <2>1. s.at = "load_high"
    BY <1>3 DEF LoadingHigh
  <2> QED BY <1>3, <2>1 DEF Idling
<1>4. CASE Storing(s, w)
  <2>1. s.at = "store"
    BY <1>4 DEF Storing
  <2> QED BY <1>4, <2>1 DEF Idling
<1>5. CASE StoringHigh(s, w)
  <2>1. s.at = "store_high"
    BY <1>5 DEF StoringHigh
  <2> QED BY <1>5, <2>1 DEF Idling
<1>6. CASE Done(s)
  <2>1. s.at = "done"
    BY <1>6 DEF Done
  <2> QED BY <1>6, <2>1 DEF Idling
<1> QED BY <1>1, <1>2, <1>3, <1>4, <1>5, <1>6 DEF MacroOK

---------------------------------------------------------------------------
(* The abstract word.  As only one macro is under way, it is a matter of   *)
(* the state s of that macro and of the bytes w.                           *)

NowValue(s, w) == IF s.at = "store_high" THEN s.val ELSE Value(w)
NowRet(s)      == IF s.at \in {"store_high", "done"} THEN s.res ELSE WORD

HalfIn(f)     == {o \in Program : f[o].at = "store_high"}
ValueIn(f, w) == IF HalfIn(f) = {} THEN Value(w) ELSE f[CHOOSE o \in HalfIn(f) : TRUE].val
RetIn(f)      == [o \in Program |-> IF f[o].at \in {"store_high", "done"} THEN f[o].res ELSE WORD]

LEMMA AloneValue ==
    ASSUME NEW f, NEW w, NEW r \in Program, \A o \in Program : o # r => f[o] = Idling
    PROVE  ValueIn(f, w) = NowValue(f[r], w) /\ RetIn(f)[r] = NowRet(f[r])
<1>1. \A o \in Program : o # r => f[o].at = "none"
  BY DEF Idling
<1>2. HalfIn(f) = IF f[r].at = "store_high" THEN {r} ELSE {}
  BY <1>1 DEF HalfIn
<1>3. f[r].at = "store_high" => (CHOOSE o \in {r} : TRUE) = r
  OBVIOUS
<1>4. ValueIn(f, w) = NowValue(f[r], w)
  <2>1. CASE f[r].at = "store_high"
    <3>1. HalfIn(f) = {r} /\ HalfIn(f) # {}
      BY <1>2, <2>1
    <3> QED BY <1>3, <2>1, <3>1 DEF ValueIn, NowValue
  <2>2. CASE f[r].at # "store_high"
    BY <1>2, <2>2 DEF ValueIn, NowValue
  <2> QED BY <2>1, <2>2
<1> QED BY <1>4 DEF RetIn, NowRet

\* The step of the abstract word, in terms of its value and of the results.
AbsStep(v, ret, v2, ret2) ==
    \/ v2 = v /\ ret2 = ret
    \/ \E o \in Program : ret[o] # WORD /\ ret2 = [ret EXCEPT ![o] = WORD] /\ v2 = v
    \/ \E o \in Program : \E req \in Request :
          ret[o] = WORD /\ v2 = Effect(req, v).new /\ ret2 = [ret EXCEPT ![o] = Effect(req, v).res]
    \/ \E req \in Request : v2 = Effect(req, v).new /\ ret2 = ret

\* The same, for the one macro that is under way.
MacroStep(v, x, v2, x2) ==
    \/ v2 = v /\ x2 = x
    \/ x # WORD /\ x2 = WORD /\ v2 = v
    \/ \E req \in Request : x = WORD /\ v2 = Effect(req, v).new /\ x2 = Effect(req, v).res

LEMMA AloneStep ==
    ASSUME NEW f, NEW w, NEW f2, NEW w2, NEW r \in Program,
           \A o \in Program : o # r => f[o] = Idling,
           f = [o \in Program |-> f[o]], f2 = [f EXCEPT ![r] = f2[r]],
           MacroStep(NowValue(f[r], w), NowRet(f[r]), NowValue(f2[r], w2), NowRet(f2[r]))
    PROVE  AbsStep(ValueIn(f, w), RetIn(f), ValueIn(f2, w2), RetIn(f2))
<1>1. \A o \in Program : o # r => f2[o] = f[o]
  OBVIOUS
<1>2. /\ ValueIn(f, w) = NowValue(f[r], w) /\ RetIn(f)[r] = NowRet(f[r])
      /\ ValueIn(f2, w2) = NowValue(f2[r], w2)
  BY <1>1, AloneValue
<1>3. RetIn(f2) = [RetIn(f) EXCEPT ![r] = NowRet(f2[r])]
  BY <1>1 DEF RetIn, NowRet
<1>4. NowRet(f2[r]) = NowRet(f[r]) => RetIn(f2) = RetIn(f)
  BY <1>1 DEF RetIn, NowRet
<1> DEFINE a == RetIn(f)
           b == RetIn(f2)
           x == NowRet(f[r])
           y == NowRet(f2[r])
           v == NowValue(f[r], w)
           u == NowValue(f2[r], w2)
<1>5. AbsStep(v, a, u, b)
  <2>0. a[r] = x /\ b = [a EXCEPT ![r] = y] /\ (y = x => b = a) /\ MacroStep(v, x, u, y)
    BY <1>2, <1>3, <1>4
  <2> HIDE DEF a, b, x, y, v, u
  <2>1. CASE u = v /\ y = x
    BY <2>0, <2>1 DEF AbsStep
  <2>2. CASE x # WORD /\ y = WORD /\ u = v
    BY <2>0, <2>2 DEF AbsStep
  <2>3. ASSUME NEW req \in Request, x = WORD, u = Effect(req, v).new, y = Effect(req, v).res
        PROVE  AbsStep(v, a, u, b)
    <3>1. a[r] = WORD /\ b = [a EXCEPT ![r] = Effect(req, v).res]
      BY <2>0, <2>3
    <3> QED BY <2>3, <3>1 DEF AbsStep
  <2> QED BY <2>0, <2>1, <2>2, <2>3 DEF MacroStep
<1> QED BY <1>2, <1>5

\* The macro of the program that runs takes a step.
Advances(s2, w2) ==
    /\ op' = [op EXCEPT ![Running] = s2]
    /\ word' = w2
    /\ IsBytes(w2) /\ MacroOK(s2, w2)
    /\ MacroStep(NowValue(op[Running], word), NowRet(op[Running]), NowValue(s2, w2), NowRet(s2))

\* The word has been read.
LEMMA Loads ==
    ASSUME IsBytes(word), NEW req \in Request, Loaded(req, Value(word)), word' = word,
           NowValue(op[Running], word) = Value(word), NowRet(op[Running]) = WORD
    PROVE  \E s2 : Advances(s2, word)
<1> DEFINE old == Value(word)
           e == Effect(req, old)
<1>1. IsWord(e.new) /\ IsWord(e.res)
  BY ValueOf, EffectIsWord
<1>2. CASE Writes(req, old)
  <2> DEFINE s2 == [at |-> "store", val |-> e.new, res |-> e.res]
  <2>1. op' = [op EXCEPT ![Running] = s2]
    BY <1>2 DEF Loaded, To
  <2>2. Storing(s2, word)
    BY DEF Storing
  <2>3. NowValue(s2, word) = old /\ NowRet(s2) = WORD
    BY DEF NowValue, NowRet
  <2> HIDE DEF s2
  <2>4. Advances(s2, word)
    BY <2>1, <2>2, <2>3 DEF Advances, MacroOK, MacroStep
  <2> QED BY <2>4
<1>3. CASE ~Writes(req, old)
  <2> DEFINE s2 == [at |-> "done", val |-> e.new, res |-> e.res]
  <2>1. op' = [op EXCEPT ![Running] = s2]
    BY <1>3 DEF Loaded, To
  <2>2. Done(s2)
    BY <1>1 DEF Done
  <2>3. NowValue(s2, word) = old /\ NowRet(s2) = e.res
    BY DEF NowValue, NowRet
  <2>4. e.new = old
    BY <1>3, EffectUnwritten
  <2> HIDE DEF s2
  <2>5. MacroStep(NowValue(op[Running], word), NowRet(op[Running]), NowValue(s2, word), NowRet(s2))
    BY <2>3, <2>4 DEF MacroStep
  <2>6. Advances(s2, word)
    BY <2>1, <2>2, <2>5 DEF Advances, MacroOK
  <2> QED BY <2>6
<1> QED BY <1>2, <1>3

LEMMA BeginAdvances ==
    ASSUME IsBytes(word), NEW req \in Request, Begin(req) PROVE \E s2 : Advances(s2, word)
<1>0. op[Running].at = "none" /\ word' = word
  BY DEF Begin, Idling
<1>v. NowValue(op[Running], word) = Value(word) /\ NowRet(op[Running]) = WORD
  BY <1>0 DEF NowValue, NowRet
<1>1. CASE req.call = "store"
  <2> DEFINE e == Effect(req, Value(word))
             s2 == [at |-> "store", val |-> e.new, res |-> e.res]
  <2>1. Effect(req, 0) = e
    BY <1>1, EffectOfStore
  <2>2. Writes(req, 0)
    BY <1>1 DEF Writes
  <2>3. op' = [op EXCEPT ![Running] = s2]
    BY <1>1, <2>1, <2>2 DEF Begin, Loaded, To
  <2>4. Storing(s2, word)
    BY DEF Storing
  <2>5. NowValue(s2, word) = Value(word) /\ NowRet(s2) = WORD
    BY DEF NowValue, NowRet
  <2> HIDE DEF s2
  <2>6. Advances(s2, word)
    BY <1>0, <1>v, <2>3, <2>4, <2>5 DEF Advances, MacroOK, MacroStep
  <2> QED BY <2>6
<1>2. CASE req.call # "store"
  <2> DEFINE s2 == [at |-> "load", req |-> req]
  <2>1. op' = [op EXCEPT ![Running] = s2]
    BY <1>2 DEF Begin, To
  <2>2. Loading(s2)
    BY DEF Loading
  <2>3. NowValue(s2, word) = Value(word) /\ NowRet(s2) = WORD
    BY DEF NowValue, NowRet
  <2> HIDE DEF s2
  <2>4. Advances(s2, word)
    BY <1>0, <1>v, <2>1, <2>2, <2>3 DEF Advances, MacroOK, MacroStep
  <2> QED BY <2>4
<1> QED BY <1>1, <1>2

LEMMA LoadAdvances ==
    ASSUME IsBytes(word), MacroOK(op[Running], word), Load PROVE \E s2 : Advances(s2, word)
<1> DEFINE s == op[Running]
<1>0. s.at = "load" /\ word' = word
  BY DEF Load
<1>v. NowValue(s, word) = Value(word) /\ NowRet(s) = WORD
  BY <1>0 DEF NowValue, NowRet
<1>r. s.req \in Request
  BY <1>0, At DEF Loading
<1>1. CASE port = "avr"
  <2> DEFINE s2 == [at |-> "load_high", req |-> s.req, low |-> word[1]]
  <2>1. op' = [op EXCEPT ![Running] = s2]
    BY <1>1 DEF Load, To
  <2>2. LoadingHigh(s2, word)
    BY <1>r DEF LoadingHigh
  <2>3. NowValue(s2, word) = Value(word) /\ NowRet(s2) = WORD
    BY DEF NowValue, NowRet
  <2> HIDE DEF s2
  <2>4. Advances(s2, word)
    BY <1>0, <1>v, <2>1, <2>2, <2>3 DEF Advances, MacroOK, MacroStep
  <2> QED BY <2>4
<1>2. CASE port # "avr"
  <2>1. Loaded(s.req, Value(word))
    BY <1>2 DEF Load
  <2> QED BY <1>0, <1>v, <1>r, <2>1, Loads
<1> QED BY <1>1, <1>2

LEMMA LoadHighAdvances ==
    ASSUME IsBytes(word), MacroOK(op[Running], word), LoadHigh PROVE \E s2 : Advances(s2, word)
<1> DEFINE s == op[Running]
<1>0. s.at = "load_high" /\ word' = word
  BY DEF LoadHigh
<1>v. NowValue(s, word) = Value(word) /\ NowRet(s) = WORD
  BY <1>0 DEF NowValue, NowRet
<1>r. s.req \in Request /\ s.low = word[1]
  BY <1>0, At DEF LoadingHigh
<1>1. Value(<<s.low, word[2]>>) = Value(word)
  BY <1>r DEF Value
<1>2. Loaded(s.req, Value(word))
  BY <1>1 DEF LoadHigh
<1> QED BY <1>0, <1>v, <1>r, <1>2, Loads

LEMMA StoreAdvances ==
    ASSUME IsBytes(word), MacroOK(op[Running], word), Store PROVE \E s2, w2 : Advances(s2, w2)
<1> DEFINE s == op[Running]
           n == Bytes(s.val)
<1>0. s.at = "store" /\ Storing(s, word)
  BY At DEF Store
<1>v. NowValue(s, word) = Value(word) /\ NowRet(s) = WORD
  BY <1>0 DEF NowValue, NowRet
<1>r. PICK req \in Request : s.val = Effect(req, Value(word)).new /\ s.res = Effect(req, Value(word)).res
  BY <1>0 DEF Storing
<1>w. IsWord(s.val) /\ IsWord(s.res)
  BY <1>r, ValueOf, EffectIsWord
<1>n. IsBytes(n) /\ Value(n) = s.val
  BY <1>w, BytesOf
<1>s. s = [at |-> "store", val |-> s.val, res |-> s.res]
  BY <1>0 DEF Storing
<1>1. CASE port = "avr"
  <2> DEFINE s2 == [at |-> "store_high", val |-> s.val, res |-> s.res]
             w2 == <<n[1], word[2]>>
  <2>0. [s EXCEPT !.at = "store_high"] = s2
    BY <1>s
  <2>1. op' = [op EXCEPT ![Running] = s2] /\ word' = w2
    BY <1>1, <2>0 DEF Store, To
  <2>2. w2[1] = n[1] /\ IsBytes(w2)
    BY <1>n DEF IsBytes
  <2>3. StoringHigh(s2, w2)
    BY <1>w, <2>2 DEF StoringHigh
  <2>4. NowValue(s2, w2) = s.val /\ NowRet(s2) = s.res
    BY DEF NowValue, NowRet
  <2> HIDE DEF s2, w2
  <2>5. MacroStep(NowValue(s, word), NowRet(s), NowValue(s2, w2), NowRet(s2))
    BY <1>v, <1>r, <2>4 DEF MacroStep
  <2>6. Advances(s2, w2)
    BY <2>1, <2>2, <2>3, <2>5 DEF Advances, MacroOK
  <2> QED BY <2>6
<1>2. CASE port # "avr"
  <2> DEFINE s2 == [at |-> "done", val |-> s.val, res |-> s.res]
  <2>0. [s EXCEPT !.at = "done"] = s2
    BY <1>s
  <2>1. op' = [op EXCEPT ![Running] = s2] /\ word' = n
    BY <1>2, <2>0 DEF Store, To
  <2>2. Done(s2)
    BY <1>w DEF Done
  <2>3. NowValue(s2, n) = s.val /\ NowRet(s2) = s.res
    BY <1>n DEF NowValue, NowRet
  <2> HIDE DEF s2, n
  <2>4. MacroStep(NowValue(s, word), NowRet(s), NowValue(s2, n), NowRet(s2))
    BY <1>v, <1>r, <2>3 DEF MacroStep
  <2>5. Advances(s2, n)
    BY <1>n, <2>1, <2>2, <2>4 DEF Advances, MacroOK
  <2> QED BY <2>5
<1> QED BY <1>1, <1>2

LEMMA StoreHighAdvances ==
    ASSUME IsBytes(word), MacroOK(op[Running], word), StoreHigh PROVE \E s2, w2 : Advances(s2, w2)
<1> DEFINE s == op[Running]
           n == Bytes(s.val)
           s2 == [at |-> "done", val |-> s.val, res |-> s.res]
<1>0. s.at = "store_high" /\ StoringHigh(s, word)
  BY At DEF StoreHigh
<1>1. s = [at |-> "store_high", val |-> s.val, res |-> s.res]
  BY <1>0 DEF StoringHigh
<1>2. IsWord(s.val) /\ IsWord(s.res) /\ word[1] = n[1]
  BY <1>0 DEF StoringHigh
<1>3. IsBytes(n) /\ Value(n) = s.val
  BY <1>2, BytesOf
<1>4. [s EXCEPT !.at = "done"] = s2
  BY <1>1
<1>5. op' = [op EXCEPT ![Running] = s2] /\ word' = <<word[1], n[2]>>
  BY <1>4 DEF StoreHigh, To
<1>6. word' = n
  <2>1. n = <<n[1], n[2]>>
    BY <1>3 DEF IsBytes
  <2> QED BY <1>2, <1>5, <2>1
<1>7. Done(s2)
  BY <1>2 DEF Done
<1>8. NowValue(s2, n) = s.val /\ NowRet(s2) = s.res /\ NowValue(s, word) = s.val /\ NowRet(s) = s.res
  BY <1>0, <1>3 DEF NowValue, NowRet
<1> HIDE DEF s2, n
<1>9. Advances(s2, n)
  BY <1>3, <1>5, <1>6, <1>7, <1>8 DEF Advances, MacroOK, MacroStep
<1> QED BY <1>9

LEMMA EndAdvances ==
    ASSUME IsBytes(word), MacroOK(op[Running], word), End PROVE Advances(Idling, word)
<1> DEFINE s == op[Running]
<1>0. s.at = "done" /\ Done(s) /\ word' = word
  BY At DEF End
<1>1. op' = [op EXCEPT ![Running] = Idling]
  BY DEF End, To
<1>2. NowRet(s) # WORD
  <2>1. NowRet(s) = s.res /\ IsWord(s.res)
    BY <1>0 DEF NowRet, Done
  <2> QED BY <2>1, WordSize DEF IsWord
<1>3. NowValue(s, word) = Value(word) /\ NowValue(Idling, word) = Value(word) /\ NowRet(Idling) = WORD
  BY <1>0 DEF NowValue, NowRet, Idling
<1> QED BY <1>0, <1>1, <1>2, <1>3 DEF Advances, MacroOK, MacroStep

---------------------------------------------------------------------------
LEMMA MacroInit == AtomicInit => MacroInv /\ ValueIn(op, word) = 0 /\ RetIn(op) = [o \in Program |-> WORD]
<1> SUFFICES ASSUME AtomicInit
             PROVE  MacroInv /\ ValueIn(op, word) = 0 /\ RetIn(op) = [o \in Program |-> WORD]
  OBVIOUS
<1>1. op = [o \in Program |-> Idling] /\ word = Bytes(0)
  BY DEF AtomicInit
<1>2. IsWord(0)
  BY WordSize DEF IsWord
<1>3. IsBytes(word) /\ Value(word) = 0
  BY <1>1, <1>2, BytesOf
<1>4. \A o \in Program : op[o] = Idling /\ op[o].at = "none"
  BY <1>1 DEF Idling
<1>5. MacroInv
  BY <1>1, <1>3, <1>4 DEF MacroInv, MacroOK
<1>6. HalfIn(op) = {} /\ RetIn(op) = [o \in Program |-> WORD]
  BY <1>4 DEF HalfIn, RetIn
<1> QED BY <1>3, <1>5, <1>6 DEF ValueIn

\* No macro is under way when the program that runs is in none, nor when the
\* interrupts are on.
LEMMA Quiet ==
    ASSUME PortTypeOK, MacroInv, op[Running] = Idling \/ cpu.ie = TRUE
    PROVE  \A o \in Program : op[o] = Idling
BY DEF MacroInv

\* A step while no macro is under way and the word is not used.
LEMMA QuietStep ==
    ASSUME MacroInv, \A o \in Program : op[o] = Idling, op' = op, word' = word
    PROVE  MacroInv' /\ AbsStep(ValueIn(op, word), RetIn(op), ValueIn(op', word'), RetIn(op'))
<1>1. MacroInv'
  BY DEF MacroInv
<1> QED BY <1>1 DEF AbsStep

LEMMA WholeStep ==
    ASSUME PortTypeOK, MacroInv, NEW req \in Request, Whole(req)
    PROVE  MacroInv' /\ AbsStep(ValueIn(op, word), RetIn(op), ValueIn(op', word'), RetIn(op'))
<1> DEFINE e == Effect(req, Value(word))
<1>1. op[Running] = Idling /\ op' = op /\ word' = Bytes(e.new)
  BY DEF Whole
<1>2. \A o \in Program : op[o] = Idling /\ op[o].at = "none"
  BY <1>1, Quiet DEF Idling
<1>3. IsWord(e.new)
  BY ValueOf, EffectIsWord DEF MacroInv
<1>4. IsBytes(word') /\ Value(word') = e.new
  BY <1>1, <1>3, BytesOf
<1>5. MacroInv'
  BY <1>1, <1>2, <1>4 DEF MacroInv, MacroOK
<1>6. HalfIn(op) = {}
  BY <1>2 DEF HalfIn
<1>7. ValueIn(op, word) = Value(word) /\ ValueIn(op', word') = e.new /\ RetIn(op') = RetIn(op)
  BY <1>1, <1>4, <1>6 DEF ValueIn
<1> QED BY <1>5, <1>7 DEF AbsStep

LEMMA AdvancesStep ==
    ASSUME PortTypeOK, MacroInv, NEW s2, NEW w2, Advances(s2, w2),
           Running' = Running, s2 # Idling => cpu'.ie = FALSE,
           \A o \in Program : o # Running => op[o] = Idling
    PROVE  MacroInv' /\ AbsStep(ValueIn(op, word), RetIn(op), ValueIn(op', word'), RetIn(op'))
<1>1. Running \in Program /\ op = [o \in Program |-> op[o]]
  BY Programs DEF MacroInv
<1>2. op' = [op EXCEPT ![Running] = s2] /\ word' = w2 /\ op'[Running] = s2
  BY <1>1 DEF Advances
<1>3. \A o \in Program : o # Running => op'[o] = Idling
  BY <1>1, <1>2
<1>4. MacroInv'
  <2>1. op' = [o \in Program |-> op'[o]]
    BY <1>1, <1>2
  <2>2. IsBytes(word') /\ \A o \in Program : MacroOK(op'[o], word')
    BY <1>2, <1>3 DEF Advances, MacroOK
  <2>3. \A o \in Program : op'[o] # Idling => o = Running' /\ cpu'.ie = FALSE
    BY <1>2, <1>3
  <2> QED BY <2>1, <2>2, <2>3 DEF MacroInv
<1>5. MacroStep(NowValue(op[Running], word), NowRet(op[Running]), NowValue(s2, w2), NowRet(s2))
  BY DEF Advances
<1>6. AbsStep(ValueIn(op, word), RetIn(op), ValueIn(op', word'), RetIn(op'))
  <2> DEFINE f2 == [op EXCEPT ![Running] = s2]
  <2>1. f2[Running] = s2 /\ f2 = [op EXCEPT ![Running] = f2[Running]]
    BY <1>1
  <2> HIDE DEF f2
  <2>2. AbsStep(ValueIn(op, word), RetIn(op), ValueIn(f2, w2), RetIn(f2))
    BY <1>1, <1>5, <2>1, AloneStep
  <2> QED BY <1>2, <2>2 DEF f2
<1> QED BY <1>4, <1>6

LEMMA AtomicStep ==
    ASSUME ContextInv, MacroInv, [AtomicNext]_<<portVars, atomicVars>>
    PROVE  MacroInv' /\ AbsStep(ValueIn(op, word), RetIn(op), ValueIn(op', word'), RetIn(op'))
<1> DEFINE Goal == MacroInv' /\ AbsStep(ValueIn(op, word), RetIn(op), ValueIn(op', word'), RetIn(op'))
<1>0. PortTypeOK /\ Running \in Program /\ IsBytes(word) /\ MacroOK(op[Running], word) /\ cpu.ie \in BOOLEAN
  BY Programs DEF ContextInv, MacroInv, PortTypeOK, IsCpu
<1>1. CASE arch_contextstore_i /\ UNCHANGED atomicVars
  <2>1. cpu.ie = TRUE
    BY <1>0, <1>1 DEF arch_contextstore_i
  <2>2. op' = op /\ word' = word
    BY <1>1 DEF atomicVars
  <2> QED BY <1>0, <2>1, <2>2, Quiet, QuietStep
<1>2. CASE op[Running] = Idling /\ ProgramStep /\ UNCHANGED atomicVars
  <2>1. op' = op /\ word' = word
    BY <1>2 DEF atomicVars
  <2> QED BY <1>0, <1>2, <2>1, Quiet, QuietStep
<1>3. ASSUME NEW req \in Request, Whole(req) PROVE Goal
  BY <1>0, <1>3, WholeStep
<1>4. ASSUME NEW req \in Request, Begin(req) PROVE Goal
  <2>1. op[Running] = Idling
    BY <1>4 DEF Begin
  <2>2. cpu'.ie = FALSE /\ Running' = Running
    BY <1>4, BeginStep DEF LocalStep, Running
  <2>3. PICK s2 : Advances(s2, word)
    BY <1>0, <1>4, BeginAdvances
  <2>4. \A o \in Program : op[o] = Idling
    BY <1>0, <2>1, Quiet
  <2> QED BY <1>0, <2>2, <2>3, <2>4, AdvancesStep
<1>5. ASSUME op[Running] # Idling, UNCHANGED portVars, NEW s2, NEW w2, Advances(s2, w2) PROVE Goal
  <2>1. cpu'.ie = FALSE /\ Running' = Running
    BY <1>0, <1>5 DEF MacroInv, portVars, Running
  <2>2. \A o \in Program : o # Running => op[o] = Idling
    BY DEF MacroInv
  <2> QED BY <1>0, <1>5, <2>1, <2>2, AdvancesStep
<1>6. op[Running].at # "none" => op[Running] # Idling
  BY DEF Idling
<1>7. CASE Load
  <2>1. PICK s2 : Advances(s2, word)
    BY <1>0, <1>7, LoadAdvances
  <2>2. op[Running] # Idling /\ UNCHANGED portVars
    BY <1>6, <1>7 DEF Load
  <2> QED BY <1>5, <2>1, <2>2
<1>8. CASE LoadHigh
  <2>1. PICK s2 : Advances(s2, word)
    BY <1>0, <1>8, LoadHighAdvances
  <2>2. op[Running] # Idling /\ UNCHANGED portVars
    BY <1>6, <1>8 DEF LoadHigh
  <2> QED BY <1>5, <2>1, <2>2
<1>9. CASE Store
  <2>1. PICK s2, w2 : Advances(s2, w2)
    BY <1>0, <1>9, StoreAdvances
  <2>2. op[Running] # Idling /\ UNCHANGED portVars
    BY <1>6, <1>9 DEF Store
  <2> QED BY <1>5, <2>1, <2>2
<1>10. CASE StoreHigh
  <2>1. PICK s2, w2 : Advances(s2, w2)
    BY <1>0, <1>10, StoreHighAdvances
  <2>2. op[Running] # Idling /\ UNCHANGED portVars
    BY <1>6, <1>10 DEF StoreHigh
  <2> QED BY <1>5, <2>1, <2>2
<1>11. CASE End
  <2>1. Advances(Idling, word)
    BY <1>0, <1>11, EndAdvances
  <2>2. Running' = Running
    BY <1>11 DEF End, Running
  <2>3. \A o \in Program : o # Running => op[o] = Idling
    BY DEF MacroInv
  <2> QED BY <1>0, <2>1, <2>2, <2>3, AdvancesStep
<1>12. CASE UNCHANGED <<portVars, atomicVars>>
  <2>1. op' = op /\ word' = word /\ cpu' = cpu /\ Running' = Running
    BY <1>12 DEF portVars, atomicVars, Running
  <2>2. MacroInv'
    BY <2>1 DEF MacroInv
  <2> QED BY <2>1, <2>2 DEF AbsStep
<1> QED BY <1>1, <1>2, <1>3, <1>4, <1>7, <1>8, <1>9, <1>10, <1>11, <1>12 DEF AtomicNext

\* The os_atomic_ macros are atomic: though AVR moves one byte at a time and an
\* interrupt may come between any two instructions, every macro has the effect
\* and the result of one indivisible operation on the word.
THEOREM MacrosAreAtomic == AtomicSpec => ImplementsAtomic
<1>1. AtomicInit => MacroInv /\ Abstract!AInit
  BY MacroInit DEF Abstract!AInit, ValueIn, RetIn, HalfIn, Half
<1>2. ContextInv /\ MacroInv /\ [AtomicNext]_<<portVars, atomicVars>>
        => MacroInv' /\ AbsStep(ValueIn(op, word), RetIn(op), ValueIn(op', word'), RetIn(op'))
  BY AtomicStep
<1>3. AbsStep(ValueIn(op, word), RetIn(op), ValueIn(op', word'), RetIn(op'))
        => [Abstract!ANext]_<<IF Half = {} THEN Value(word) ELSE op[CHOOSE o \in Half : TRUE].val,
                              [o \in Program |-> IF op[o].at \in {"store_high", "done"}
                                                 THEN op[o].res ELSE WORD]>>
  BY DEF AbsStep, ValueIn, RetIn, HalfIn, Half, Abstract!ANext, Abstract!Return, Abstract!Operate,
         Abstract!OperateAndReturn
<1> QED BY <1>1, <1>2, <1>3, AtomicContextInv, PTL DEF AtomicSpec, ImplementsAtomic, Abstract!ASpec
=============================================================================
