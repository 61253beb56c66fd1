----------------------------- MODULE TimerProofs -----------------------------
(***************************************************************************)
(* The timers, for any number of timers, any timeouts and reloads and any  *)
(* width of the tick counter: the list stays sorted, every timer expires   *)
(* on time, and a destroyed one never.                                     *)
(*                                                                         *)
(* The hypothesis is CallbacksBehave: callbacks create no timers and       *)
(* destroy neither the timer walked next nor an expired auto reload timer  *)
(* (see run TimerUnlink for what happens otherwise).                       *)
(*                                                                         *)
(* The argument follows left, the ticks until a timer is due.  The list is *)
(* sorted by it at any time, also while timer_trigger has brought only     *)
(* part of the list up to date; ticks_rem is left for a timer the walk has *)
(* passed, and left plus the unsynchronised ticks for one it has not.      *)
(***************************************************************************)
EXTENDS Timer, WellFoundedInduction, SequenceTheorems, TLAPS

Lists == INSTANCE ListProofs WITH Node <- Timer

CallbacksBehave == ~CallbackCreates /\ ~CallbackDestroysNext /\ ~CallbackDestroysReload

Sorted(list, key) ==
    \A i, j \in 1 .. Len(list) : i < j => key[list[i]] <= key[list[j]]

OnList    == ToSet(timer_list)
Reloading == ToSet(list_autoreload)

\* The timers on the list.
ListInv ==
    /\ IsInjective(timer_list)
    /\ Sorted(timer_list, left)
    /\ \A t \in OnList : magic[t] = "MAGIC1" /\ ticks_rem[t] > 0 /\ left[t] \in Nat
    /\ \A t \in Timer \ OnList : ticks_rem[t] = 0

\* The timers that have expired.
ExpiredInv ==
    /\ IsInjective(list_autoreload)
    /\ \A t \in Reloading :
          /\ t \notin OnList /\ t # running /\ magic[t] = "MAGIC1"
          /\ ticks_reload[t] > 0 /\ left[t] = ticks_reload[t]
    /\ running # NULL =>
          /\ triggering /\ running \notin OnList
          /\ IF ticks_reload[running] > 0
             THEN magic[running] = "MAGIC1" /\ left[running] = ticks_reload[running]
             ELSE left[running] = NULL
    /\ \A t \in Timer : left[t] # NULL => t \in OnList \cup Reloading \cup {running}

\* How far timer_trigger has come.
WalkInv ==
    /\ ~triggering =>
          /\ itr = NULL /\ running = NULL /\ list_autoreload = <<>>
          /\ timer_tick_unsynch <= OS_TIMER_UNSYNCH_MAX
          /\ \A t \in OnList : left[t] > 0 /\ ticks_rem[t] = left[t] + timer_tick_unsynch
    /\ triggering /\ itr = NULL =>
          /\ \A t \in OnList : ticks_rem[t] = left[t]
          /\ running # NULL => timer_list = <<>>
    /\ triggering /\ itr # NULL =>
          /\ itr \in OnList
          /\ \A i, k \in 1 .. Len(timer_list) : timer_list[k] = itr =>
                ticks_rem[timer_list[i]] =
                    left[timer_list[i]] + IF i < k THEN 0 ELSE timer_tick_unsynch
          /\ running # NULL => timer_list[1] = itr

TimerInv ==
    /\ TimerTypeOK
    /\ left \in [Timer -> Int \cup {NULL}]
    /\ ListInv
    /\ ExpiredInv
    /\ WalkInv

---------------------------------------------------------------------------
(* Lists.                                                                  *)

\* A set of numbers has a least element, which is its Min.
LEMMA LeastNumber ==
    ASSUME NEW S \in SUBSET Nat, S # {}
    PROVE  Min(S) \in S /\ \A n \in S : Min(S) <= n
<1> DEFINE R == OpToRel(<, Nat)
<1>1. \E x \in S : \A y \in S : ~(<<y, x>> \in R)
  <2> HIDE DEF R
  <2>1. IsWellFoundedOn(R, Nat)
    BY NatLessThanWellFounded DEF R
  <2> QED BY <2>1, WFMin
<1>2. PICK x \in S : \A y \in S : ~(y < x)
  BY <1>1 DEF OpToRel
<1>3. \A y \in S : x <= y
  BY <1>2
<1> QED BY <1>3 DEF Min

\* What ToSet and IsInjective mean.
LEMMA Elements ==
    ASSUME NEW s \in Seq(Timer)
    PROVE  /\ ToSet(s) \subseteq Timer
           /\ \A i \in 1 .. Len(s) : s[i] \in ToSet(s) /\ s[i] \in Timer
           /\ \A t \in ToSet(s) : \E i \in 1 .. Len(s) : s[i] = t
           /\ IsInjective(s) <=> \A i, j \in 1 .. Len(s) : s[i] = s[j] => i = j
           /\ ToSet(s) = {} <=> s = <<>>
           /\ Len(s) \in Nat
<1>1. Len(s) \in Nat /\ DOMAIN s = 1 .. Len(s) /\ \A i \in 1 .. Len(s) : s[i] \in Timer
  OBVIOUS
<1>2. ToSet(s) = {s[i] : i \in 1 .. Len(s)}
  BY <1>1 DEF ToSet
<1>3. IsInjective(s) <=> \A i, j \in 1 .. Len(s) : s[i] = s[j] => i = j
  BY <1>1 DEF IsInjective
<1>4. ToSet(s) = {} <=> s = <<>>
  <2>1. s = <<>> <=> Len(s) = 0
    OBVIOUS
  <2>2. Len(s) # 0 => s[1] \in ToSet(s)
    BY <1>1, <1>2
  <2> QED BY <1>1, <1>2, <2>1, <2>2
<1> QED BY <1>1, <1>2, <1>3, <1>4

\* timer_add keeps a list sorted.
LEMMA AddSorts ==
    ASSUME NEW list \in Seq(Timer), IsInjective(list), NEW key \in [Timer -> Int],
           Sorted(list, key), NEW t \in Timer \ ToSet(list)
    PROVE  LET r == timer_add(list, key, t)
           IN  /\ r \in Seq(Timer) /\ IsInjective(r) /\ ToSet(r) = ToSet(list) \cup {t}
               /\ Sorted(r, key)
<1> DEFINE r == timer_add(list, key, t)
           I == {i \in 1 .. Len(list) : key[list[i]] > key[t]}
           p == IF I = {} THEN Len(list) + 1 ELSE Min(I)
<1>1. /\ Len(list) \in Nat /\ \A i \in 1 .. Len(list) : list[i] \in Timer /\ list[i] # t
      /\ \A i, j \in 1 .. Len(list) : list[i] = list[j] => i = j
  BY Elements
<1>2. I \in SUBSET Nat /\ I \subseteq 1 .. Len(list)
  OBVIOUS
<1>3. p \in 1 .. (Len(list) + 1) /\ \A i \in I : p <= i
  <2>1. CASE I = {}
    <3>1. p = Len(list) + 1
      BY <2>1
    <3> HIDE DEF p, I
    <3> QED BY <1>1, <2>1, <3>1
  <2>2. CASE I # {}
    <3>1. p = Min(I) /\ Min(I) \in I /\ \A i \in I : Min(I) <= i
      BY <1>2, <2>2, LeastNumber
    <3> HIDE DEF p, I
    <3>2. p \in I /\ \A i \in I : p <= i
      BY <3>1
    <3>3. p \in 1 .. Len(list)
      BY <1>2, <3>2
    <3> QED BY <1>1, <3>2, <3>3
  <2> QED BY <2>1, <2>2
<1>4. I # {} => p \in I
  <2>1. ASSUME I # {} PROVE Min(I) \in I
    <3> HIDE DEF I
    <3> QED BY <1>2, <2>1, LeastNumber
  <2> HIDE DEF I
  <2> QED BY <2>1
<1>5. r = IF p = Len(list) + 1 THEN Append(list, t) ELSE InsertAt(list, p, t)
  <2>1. r = IF (IF I # {} THEN Min(I) ELSE 0) = 0 THEN Append(list, t)
            ELSE InsertAt(list, IF I # {} THEN Min(I) ELSE 0, t)
    BY DEF timer_add, SelectInSeq
  <2> HIDE DEF r, I
  <2> QED BY <1>1, <1>2, <1>3, <1>4, <2>1
<1> HIDE DEF r, p
<1>6. /\ r \in Seq(Timer) /\ Len(r) = Len(list) + 1
      /\ \A j \in 1 .. (Len(list) + 1) :
            r[j] = IF j < p THEN list[j] ELSE IF j = p THEN t ELSE list[j - 1]
  <2>1. CASE p = Len(list) + 1
    BY <1>1, <1>5, <2>1
  <2>2. CASE p # Len(list) + 1
    <3>1. /\ Lists!InsertAt(list, p, t) \in Seq(Timer)
          /\ Lists!IsInsertion(Lists!InsertAt(list, p, t), list, p, t)
      BY <1>3, Lists!InsertAtElements
    <3>2. Lists!InsertAt(list, p, t) = InsertAt(list, p, t)
      BY DEF Lists!InsertAt, InsertAt
    <3> QED BY <1>5, <2>2, <3>1, <3>2 DEF Lists!IsInsertion
  <2> QED BY <2>1, <2>2
<1>7. /\ \A i \in 1 .. Len(list) : i < p => key[list[i]] <= key[t]
      /\ \A i \in 1 .. Len(list) : i >= p => key[list[i]] >= key[t]
  <2>1. \A i \in 1 .. Len(list) : key[list[i]] \in Int
    BY <1>1
  <2>2. \A i \in 1 .. Len(list) : i < p => i \notin I
    BY <1>1, <1>2, <1>3
  <2>3. ASSUME NEW i \in 1 .. Len(list), i >= p PROVE key[list[i]] >= key[t]
    <3>1. p \in I
      <4>1. I = {} => p = Len(list) + 1
        BY DEF p
      <4> HIDE DEF I
      <4> QED BY <1>1, <1>4, <2>3, <4>1
    <3>2. key[list[p]] > key[t] /\ p \in 1 .. Len(list)
      BY <3>1
    <3>3. key[list[p]] <= key[list[i]]
      BY <2>1, <2>3, <3>2 DEF Sorted
    <3> QED BY <2>1, <3>2, <3>3
  <2> QED BY <2>1, <2>2, <2>3
<1> HIDE DEF I
<1> DEFINE N == Len(list)
<1>8. /\ N \in Nat /\ Len(r) = N + 1 /\ p \in 1 .. (N + 1)
      /\ \A j \in 1 .. (N + 1) : \/ j < p /\ j \in 1 .. N /\ r[j] = list[j]
                                 \/ j = p /\ r[j] = t
                                 \/ j > p /\ j - 1 \in 1 .. N /\ r[j] = list[j - 1]
  <2>1. N \in Nat /\ Len(r) = N + 1 /\ p \in 1 .. (N + 1)
    BY <1>1, <1>3, <1>6
  <2>2. ASSUME NEW j \in 1 .. (N + 1)
        PROVE  \/ j < p /\ j \in 1 .. N /\ r[j] = list[j]
               \/ j = p /\ r[j] = t
               \/ j > p /\ j - 1 \in 1 .. N /\ r[j] = list[j - 1]
    <3>1. r[j] = IF j < p THEN list[j] ELSE IF j = p THEN t ELSE list[j - 1]
      BY <1>6
    <3> HIDE DEF N
    <3> QED BY <2>1, <3>1
  <2> QED BY <2>1, <2>2
<1>9. /\ \A i \in 1 .. N : list[i] \in Timer /\ list[i] # t
      /\ \A i, j \in 1 .. N : list[i] = list[j] => i = j
      /\ \A i, j \in 1 .. N : i < j => key[list[i]] <= key[list[j]]
      /\ \A i \in 1 .. N : i < p => key[list[i]] <= key[t]
      /\ \A i \in 1 .. N : i >= p => key[t] <= key[list[i]]
  BY <1>1, <1>7 DEF Sorted
<1>10. ToSet(r) = ToSet(list) \cup {t}
  <2>1. \A j \in 1 .. Len(r) : r[j] \in ToSet(list) \cup {t}
    BY <1>8, Elements
  <2>2. t \in ToSet(r)
    BY <1>3, <1>6, Elements
  <2>3. ASSUME NEW i \in 1 .. N PROVE list[i] \in ToSet(r)
    <3>1. (i \in 1 .. Len(r) /\ r[i] = list[i]) \/ (i + 1 \in 1 .. Len(r) /\ r[i + 1] = list[i])
      <4> HIDE DEF N
      <4> QED BY <1>8
    <3> QED BY <1>6, <3>1, Elements
  <2>4. ToSet(r) \subseteq ToSet(list) \cup {t}
    <3>1. \A e \in ToSet(r) : \E j \in 1 .. Len(r) : r[j] = e
      BY <1>6, Elements
    <3> QED BY <2>1, <3>1
  <2>5. ToSet(list) \subseteq ToSet(r)
    <3>1. \A e \in ToSet(list) : \E j \in 1 .. N : list[j] = e
      BY Elements
    <3> QED BY <2>3, <3>1
  <2> QED BY <2>2, <2>4, <2>5
<1>11. IsInjective(r)
  <2>1. ASSUME NEW i \in 1 .. (N + 1), NEW j \in 1 .. (N + 1), r[i] = r[j], i < j
        PROVE  FALSE
    <3>1. /\ i < p => i \in 1 .. N /\ r[i] = list[i]
          /\ i = p => r[i] = t
          /\ i > p => i - 1 \in 1 .. N /\ r[i] = list[i - 1]
          /\ j < p => j \in 1 .. N /\ r[j] = list[j]
          /\ j = p => r[j] = t
          /\ j > p => j - 1 \in 1 .. N /\ r[j] = list[j - 1]
      BY <1>8
    <3> HIDE DEF N
    <3>2. CASE i = p \/ j = p
      BY <1>9, <2>1, <3>1, <3>2
    <3>3. CASE i < p /\ j < p
      BY <1>9, <2>1, <3>1, <3>3
    <3>4. CASE i < p /\ j > p
      BY <1>8, <1>9, <2>1, <3>1, <3>4
    <3>5. CASE i > p
      <4>1. j > p
        BY <1>8, <2>1, <3>5
      <4>2. i - 1 = j - 1
        BY <1>9, <2>1, <3>1, <3>5, <4>1
      <4> QED BY <2>1, <4>2
    <3> QED BY <1>8, <2>1, <3>2, <3>3, <3>4, <3>5
  <2>2. \A i, j \in 1 .. (N + 1) : r[i] = r[j] => i = j
    <3> HIDE DEF N
    <3> QED BY <1>8, <2>1
  <2> QED BY <1>6, <1>8, <2>2, Elements
<1>12. Sorted(r, key)
  <2>1. ASSUME NEW i \in 1 .. (N + 1), NEW j \in 1 .. (N + 1), i < j
        PROVE  key[r[i]] <= key[r[j]]
    <3>1. /\ i < p => i \in 1 .. N /\ r[i] = list[i]
          /\ i = p => r[i] = t
          /\ i > p => i - 1 \in 1 .. N /\ r[i] = list[i - 1]
          /\ j < p => j \in 1 .. N /\ r[j] = list[j]
          /\ j = p => r[j] = t
          /\ j > p => j - 1 \in 1 .. N /\ r[j] = list[j - 1]
      BY <1>8
    <3> HIDE DEF N
    <3>2. CASE j < p
      BY <1>8, <1>9, <2>1, <3>1, <3>2
    <3>3. CASE j = p
      BY <1>8, <1>9, <2>1, <3>1, <3>3
    <3>4. CASE j > p /\ i < p
      <4>1. key[list[i]] <= key[t] /\ key[t] <= key[list[j - 1]]
        BY <1>8, <1>9, <3>1, <3>4
      <4>2. key[list[i]] \in Int /\ key[t] \in Int /\ key[list[j - 1]] \in Int
        BY <1>9, <3>1, <3>4
      <4> QED BY <3>1, <3>4, <4>1, <4>2
    <3>5. CASE j > p /\ i = p
      <4>1. j - 1 >= p
        BY <1>8, <3>5
      <4> QED BY <1>9, <3>1, <3>5, <4>1
    <3>6. CASE j > p /\ i > p
      <4>1. i - 1 < j - 1
        BY <2>1
      <4> QED BY <1>9, <3>1, <3>6, <4>1
    <3> QED BY <1>8, <2>1, <3>2, <3>3, <3>4, <3>5, <3>6
  <2> QED BY <1>8, <2>1 DEF Sorted
<1> QED BY <1>6, <1>10, <1>11, <1>12 DEF r

\* s has elements of list in the order that they have there.
InOrder(s, list) ==
    \A i, j \in 1 .. Len(s) : i < j =>
        \E a, b \in 1 .. Len(list) : a < b /\ list[a] = s[i] /\ list[b] = s[j]

\* RemoveFirst takes one timer from a list.
LEMMA RemoveKeepsOrder ==
    ASSUME NEW list \in Seq(Timer), IsInjective(list), NEW t \in Timer
    PROVE  LET r == RemoveFirst(list, t)
           IN  /\ r \in Seq(Timer) /\ IsInjective(r) /\ ToSet(r) = ToSet(list) \ {t}
               /\ InOrder(r, list)
               /\ Len(list) > 0 /\ list[1] # t => Len(r) > 0 /\ r[1] = list[1]
               /\ Len(list) > 1 /\ list[1] = t => Len(r) > 0 /\ r[1] = list[2]
<1> DEFINE r == RemoveFirst(list, t)
           N == Len(list)
           I == {i \in 1 .. N : list[i] = t}
<1>1. /\ N \in Nat /\ \A i \in 1 .. N : list[i] \in Timer
      /\ \A i, j \in 1 .. N : list[i] = list[j] => i = j
  BY Elements
<1>2. r = IF I = {} THEN list ELSE RemoveAt(list, Min(I))
  BY DEF RemoveFirst, SelectInSeq
<1>3. CASE I = {}
  <2>1. r = list
    BY <1>2, <1>3
  <2>2. \A i \in 1 .. N : list[i] # t
    BY <1>3
  <2>3. t \notin ToSet(list)
    BY <2>2, Elements
  <2>4. InOrder(list, list)
    BY DEF InOrder
  <2>5. ~(Len(list) > 1 /\ list[1] = t)
    BY <1>1, <2>2
  <2> HIDE DEF r
  <2> QED BY <2>1, <2>3, <2>4, <2>5 DEF r
<1>4. CASE I # {}
  <2>1. Min(I) \in I
    <3>1. I \in SUBSET Nat
      OBVIOUS
    <3> HIDE DEF I
    <3> QED BY <1>4, <3>1, LeastNumber
  <2>2. PICK p \in 1 .. N : p = Min(I) /\ list[p] = t
    BY <2>1
  <2>3. r = RemoveAt(list, p)
    BY <1>2, <1>4, <2>2
  <2> HIDE DEF r, I
  <2>4. /\ r \in Seq(Timer) /\ Len(r) = N - 1
        /\ \A j \in 1 .. (N - 1) : r[j] = IF j < p THEN list[j] ELSE list[j + 1]
    <3>1. Lists!RemoveAt(list, p) \in Seq(Timer) /\ Lists!IsRemoval(Lists!RemoveAt(list, p), list, p)
      BY Lists!RemoveAtElements
    <3>2. Lists!RemoveAt(list, p) = RemoveAt(list, p)
      BY DEF Lists!RemoveAt, RemoveAt
    <3> QED BY <2>3, <3>1, <3>2 DEF Lists!IsRemoval
  <2>5. \A j \in 1 .. (N - 1) : \/ j < p /\ j \in 1 .. N /\ r[j] = list[j]
                                \/ j >= p /\ j + 1 \in 1 .. N /\ r[j] = list[j + 1]
    BY <1>1, <2>4
  <2>6. InOrder(r, list)
    <3>1. ASSUME NEW i \in 1 .. (N - 1), NEW j \in 1 .. (N - 1), i < j
          PROVE  \E a, b \in 1 .. N : a < b /\ list[a] = r[i] /\ list[b] = r[j]
      <4> HIDE DEF N
      <4>1. CASE j < p
        BY <1>1, <2>5, <3>1, <4>1
      <4>2. CASE i < p /\ j >= p
        <5>1. i \in 1 .. N /\ j + 1 \in 1 .. N /\ i < j + 1 /\ r[i] = list[i] /\ r[j] = list[j + 1]
          BY <1>1, <2>5, <3>1, <4>2
        <5> QED BY <5>1
      <4>3. CASE i >= p
        <5>1. i + 1 \in 1 .. N /\ j + 1 \in 1 .. N /\ i + 1 < j + 1
              /\ r[i] = list[i + 1] /\ r[j] = list[j + 1]
          BY <1>1, <2>5, <3>1, <4>3
        <5> QED BY <5>1
      <4> QED BY <1>1, <3>1, <4>1, <4>2, <4>3
    <3>2. 1 .. Len(r) = 1 .. (N - 1)
      BY <2>4
    <3>3. ASSUME NEW i \in 1 .. Len(r), NEW j \in 1 .. Len(r), i < j
          PROVE  \E a, b \in 1 .. Len(list) : a < b /\ list[a] = r[i] /\ list[b] = r[j]
      <4>1. i \in 1 .. (N - 1) /\ j \in 1 .. (N - 1)
        BY <3>2
      <4> HIDE DEF N
      <4>2. \E a, b \in 1 .. N : a < b /\ list[a] = r[i] /\ list[b] = r[j]
        BY <3>1, <3>3, <4>1
      <4> QED BY <4>2 DEF N
    <3> QED BY <3>3, Zenon DEF InOrder
  <2>7. ASSUME NEW i \in 1 .. (N - 1), NEW j \in 1 .. (N - 1), r[i] = r[j]
        PROVE  i = j
    <3>1. /\ i < p => i \in 1 .. N /\ r[i] = list[i]
          /\ i >= p => i + 1 \in 1 .. N /\ r[i] = list[i + 1]
          /\ j < p => j \in 1 .. N /\ r[j] = list[j]
          /\ j >= p => j + 1 \in 1 .. N /\ r[j] = list[j + 1]
      BY <1>1, <2>4
    <3> HIDE DEF N
    <3>2. CASE i < p /\ j < p
      BY <1>1, <2>7, <3>1, <3>2
    <3>3. CASE i < p /\ j >= p
      BY <1>1, <2>7, <3>1, <3>3
    <3>4. CASE i >= p /\ j < p
      BY <1>1, <2>7, <3>1, <3>4
    <3>5. CASE i >= p /\ j >= p
      <4>1. i + 1 = j + 1
        BY <1>1, <2>7, <3>1, <3>5
      <4> QED BY <4>1
    <3> QED BY <1>1, <2>7, <3>2, <3>3, <3>4, <3>5
  <2>8. IsInjective(r)
    BY <2>4, <2>7, Elements
  <2>9. ToSet(r) = ToSet(list) \ {t}
    <3>1. \A j \in 1 .. (N - 1) : r[j] \in ToSet(list)
      BY <2>5, Elements
    <3>2. \A j \in 1 .. (N - 1) : r[j] # t
      <4> HIDE DEF N
      <4> QED BY <1>1, <2>2, <2>5
    <3>3. ASSUME NEW i \in 1 .. N, list[i] # t PROVE list[i] \in ToSet(r)
      <4>1. \/ i < p /\ i \in 1 .. (N - 1) /\ r[i] = list[i]
            \/ i > p /\ i - 1 \in 1 .. (N - 1) /\ r[i - 1] = list[i]
        <5>1. i # p
          BY <2>2, <3>3
        <5>2. CASE i < p
          BY <1>1, <2>4, <5>2
        <5>3. CASE i > p
          <6>1. i - 1 \in 1 .. (N - 1) /\ ~(i - 1 < p) /\ (i - 1) + 1 = i
            BY <1>1, <5>3
          <6> QED BY <2>4, <5>3, <6>1
        <5> QED BY <1>1, <5>1, <5>2, <5>3
      <4> QED BY <2>4, <4>1, Elements
    <3>4. \A e \in ToSet(r) : \E j \in 1 .. (N - 1) : r[j] = e
      BY <2>4, Elements
    <3>5. \A e \in ToSet(list) : \E j \in 1 .. N : list[j] = e
      BY Elements
    <3> HIDE DEF N
    <3>6. ToSet(r) \subseteq ToSet(list) \ {t}
      BY <3>1, <3>2, <3>4
    <3>7. ToSet(list) \ {t} \subseteq ToSet(r)
      BY <3>3, <3>5
    <3> QED BY <3>6, <3>7
  <2>10. N > 0 /\ list[1] # t => Len(r) > 0 /\ r[1] = list[1]
    BY <1>1, <2>2, <2>4
  <2>11. N > 1 /\ list[1] = t => Len(r) > 0 /\ r[1] = list[2]
    BY <1>1, <2>2, <2>4
  <2> QED BY <2>4, <2>6, <2>8, <2>9, <2>10, <2>11 DEF r
<1> QED BY <1>3, <1>4

---------------------------------------------------------------------------
(* The tick counter.                                                       *)

\* os_ticks_diff of the counter now and d ticks later is d, whether or not
\* the counter has wrapped meanwhile, as long as d fits into os_ticks_t.
THEOREM TicksDiffIsElapsed ==
    ASSUME NEW start \in Ticks, NEW d \in Ticks
    PROVE  os_ticks_diff(start, (start + d) % TICKS_MOD) = d
<1>1. TICKS_MOD \in Nat /\ TICKS_MOD > 0 /\ start \in Nat /\ d \in Nat
  BY TicksAssumption DEF Ticks
<1>2. start < TICKS_MOD /\ d < TICKS_MOD
  BY <1>1 DEF Ticks
<1>3. CASE start + d < TICKS_MOD
  <2>1. (start + d) % TICKS_MOD = start + d
    BY <1>1, <1>3
  <2>2. QED
    BY <1>1, <2>1 DEF os_ticks_diff
<1>4. CASE start + d >= TICKS_MOD
  <2>1. (start + d) % TICKS_MOD = start + d - TICKS_MOD
    BY <1>1, <1>2, <1>4
  <2>2. QED
    BY <1>1, <1>2, <2>1 DEF os_ticks_diff
<1>5. QED
  BY <1>1, <1>3, <1>4
---------------------------------------------------------------------------
(* What the steps do to the lists.                                         *)

\* A list keeps its order when every key changes by the same amount.
LEMMA SortedByBoth ==
    ASSUME NEW list \in Seq(Timer), NEW key, NEW key2, NEW c \in Int,
           \A t \in ToSet(list) : key[t] \in Int /\ key2[t] = key[t] + c,
           Sorted(list, key)
    PROVE  Sorted(list, key2)
<1>1. Len(list) \in Nat /\ \A i \in 1 .. Len(list) : list[i] \in ToSet(list)
  BY Elements
<1>2. ASSUME NEW i \in 1 .. Len(list), NEW j \in 1 .. Len(list), i < j
      PROVE  key2[list[i]] <= key2[list[j]]
  <2>1. key[list[i]] <= key[list[j]]
    BY <1>2 DEF Sorted
  <2>2. /\ key[list[i]] \in Int /\ key2[list[i]] = key[list[i]] + c
        /\ key[list[j]] \in Int /\ key2[list[j]] = key[list[j]] + c
    BY <1>1
  <2> QED BY <2>1, <2>2
<1> QED BY <1>2 DEF Sorted

\* A part of a sorted list is sorted.
LEMMA SortedPart ==
    ASSUME NEW list \in Seq(Timer), NEW s \in Seq(Timer), NEW key,
           InOrder(s, list), Sorted(list, key)
    PROVE  Sorted(s, key)
BY DEF InOrder, Sorted

\* list_append and list_detach of the list of expired timers.
LEMMA AppendElements ==
    ASSUME NEW s \in Seq(Timer), IsInjective(s), NEW t \in Timer \ ToSet(s)
    PROVE  /\ Append(s, t) \in Seq(Timer) /\ IsInjective(Append(s, t))
           /\ ToSet(Append(s, t)) = ToSet(s) \cup {t}
<1> DEFINE r == Append(s, t)
           N == Len(s)
<1>1. /\ N \in Nat /\ r \in Seq(Timer) /\ Len(r) = N + 1 /\ r[N + 1] = t
      /\ \A i \in 1 .. N : r[i] = s[i] /\ s[i] # t
      /\ \A i, j \in 1 .. N : s[i] = s[j] => i = j
  BY Elements
<1>2. \A i \in 1 .. (N + 1) : i \in 1 .. N \/ i = N + 1
  BY <1>1
<1>3. ToSet(r) = {r[i] : i \in 1 .. (N + 1)} /\ ToSet(s) = {s[i] : i \in 1 .. N}
  BY <1>1 DEF ToSet
<1> HIDE DEF r, N
<1>4. \A i, j \in 1 .. (N + 1) : r[i] = r[j] => i = j
  BY <1>1, <1>2
<1>5. IsInjective(r)
  BY <1>1, <1>4, Elements
<1>6. ToSet(r) = ToSet(s) \cup {t}
  <2>1. \A i \in 1 .. N : i \in 1 .. (N + 1)
    BY <1>1
  <2>2. N + 1 \in 1 .. (N + 1)
    BY <1>1
  <2> QED BY <1>1, <1>2, <1>3, <2>1, <2>2
<1> QED BY <1>1, <1>5, <1>6 DEF r

LEMMA TailElements ==
    ASSUME NEW s \in Seq(Timer), IsInjective(s), s # <<>>
    PROVE  /\ Head(s) = s[1] /\ Head(s) \in ToSet(s) /\ 1 \in 1 .. Len(s)
           /\ Tail(s) \in Seq(Timer) /\ IsInjective(Tail(s))
           /\ ToSet(Tail(s)) = ToSet(s) \ {Head(s)}
<1> DEFINE r == Tail(s)
           N == Len(s)
<1>1. /\ N \in Nat /\ N > 0 /\ r \in Seq(Timer) /\ Len(r) = N - 1
      /\ \A i \in 1 .. (N - 1) : r[i] = s[i + 1]
      /\ \A i, j \in 1 .. N : s[i] = s[j] => i = j
      /\ Head(s) = s[1]
  BY Elements
<1>2. Head(s) \in ToSet(s) /\ 1 \in 1 .. N
  BY <1>1, Elements
<1> HIDE DEF r
<1>3. ToSet(r) = {r[i] : i \in 1 .. (N - 1)} /\ ToSet(s) = {s[i] : i \in 1 .. N}
  <2>1. DOMAIN r = 1 .. (N - 1) /\ DOMAIN s = 1 .. N
    BY <1>1
  <2> QED BY <2>1 DEF ToSet
<1> HIDE DEF N
<1>4. ASSUME NEW i \in 1 .. (N - 1), NEW j \in 1 .. (N - 1), r[i] = r[j]
      PROVE  i = j
  <2>1. i + 1 \in 1 .. N /\ j + 1 \in 1 .. N /\ s[i + 1] = s[j + 1]
    BY <1>1, <1>4
  <2>2. i + 1 = j + 1
    BY <1>1, <2>1
  <2> QED BY <2>2
<1>5. IsInjective(r)
  BY <1>1, <1>4, Elements
<1>6. ASSUME NEW i \in 1 .. (N - 1)
      PROVE  i + 1 \in 1 .. N /\ r[i] = s[i + 1] /\ r[i] # s[1]
  <2>1. i + 1 \in 1 .. N /\ 1 \in 1 .. N /\ i + 1 # 1 /\ r[i] = s[i + 1]
    BY <1>1
  <2> QED BY <1>1, <2>1
<1>7. ASSUME NEW i \in 1 .. N, i # 1
      PROVE  i - 1 \in 1 .. (N - 1) /\ r[i - 1] = s[i]
  <2>1. i - 1 \in 1 .. (N - 1) /\ (i - 1) + 1 = i
    BY <1>1, <1>7
  <2> QED BY <1>1, <2>1
<1>8. ToSet(r) = ToSet(s) \ {s[1]}
  <2>1. ToSet(r) \subseteq ToSet(s) \ {s[1]}
    BY <1>3, <1>6
  <2>2. ToSet(s) \ {s[1]} \subseteq ToSet(r)
    BY <1>3, <1>7
  <2> QED BY <2>1, <2>2
<1> QED BY <1>1, <1>2, <1>5, <1>8 DEF r, N

\* The iterator goes through the list in order.
LEMMA SuccessorIsNext ==
    ASSUME timer_list \in Seq(Timer), IsInjective(timer_list),
           NEW k \in 1 .. Len(timer_list)
    PROVE  Successor(timer_list[k]) =
               IF k = Len(timer_list) THEN NULL ELSE timer_list[k + 1]
<1> DEFINE I == {i \in 1 .. Len(timer_list) : timer_list[i] = timer_list[k]}
           n == IF I # {} THEN Min(I) ELSE 0
<1>1. Successor(timer_list[k]) =
          IF n = 0 THEN timer_list[k]
          ELSE IF n = Len(timer_list) THEN NULL ELSE timer_list[n + 1]
  BY DEF Successor, SelectInSeq
<1>2. I = {k}
  BY Elements
<1>3. n = k
  <2>1. {k} \in SUBSET Nat /\ {k} # {}
    OBVIOUS
  <2>2. Min({k}) \in {k}
    BY <2>1, LeastNumber
  <2> HIDE DEF I
  <2> QED BY <1>2, <2>2
<1>4. k # 0
  OBVIOUS
<1> HIDE DEF n
<1> QED BY <1>1, <1>3, <1>4
---------------------------------------------------------------------------
(* The steps.                                                              *)

LEMMA TickRanges ==
    /\ TICKS_MOD \in Nat /\ TICKS_MOD > 0
    /\ OS_TIMER_UNSYNCH_MAX \in Nat /\ OS_TIMER_UNSYNCH_MAX < TICKS_MOD
    /\ \A n \in Timeouts : n \in Nat /\ n > 0 /\ n + OS_TIMER_UNSYNCH_MAX < TICKS_MOD
    /\ \A n \in Ticks : n \in Nat /\ n < TICKS_MOD /\ n % TICKS_MOD = n
<1>1. /\ TICKS_MOD \in Nat /\ TICKS_MOD > 0
      /\ OS_TIMER_UNSYNCH_MAX \in Nat /\ OS_TIMER_UNSYNCH_MAX < TICKS_MOD
  BY TicksAssumption DEF Ticks
<1>2. \A n \in Timeouts : n \in Nat /\ n > 0 /\ n + OS_TIMER_UNSYNCH_MAX < TICKS_MOD
  BY <1>1, TicksAssumption DEF OS_TIMER_TICKSREM_MAX
<1>3. \A n \in Ticks : n \in Nat /\ n < TICKS_MOD /\ n % TICKS_MOD = n
  BY <1>1 DEF Ticks
<1> QED BY <1>1, <1>2, <1>3

\* os_timer_create: outside of timer_trigger, the new ticks_rem are the ticks
\* that are left and the unsynchronised ones, as those of every other timer.
LEMMA CreateStep ==
    ASSUME CallbacksBehave, TimerInv,
           NEW t \in Timer, NEW timeout \in Timeouts, NEW reload \in Reloads,
           os_timer_create(t, timeout, reload)
    PROVE  TimerInv'
<1> USE DEF OnList, Reloading
<1>1. /\ ~triggering /\ itr = NULL /\ running = NULL /\ list_autoreload = <<>>
      /\ timer_tick_unsynch \in Nat /\ timer_tick_unsynch <= OS_TIMER_UNSYNCH_MAX
      /\ t \notin OnList
      /\ \A o \in OnList : left[o] \in Nat /\ left[o] > 0
                           /\ ticks_rem[o] = left[o] + timer_tick_unsynch
  BY TickRanges DEF CallbacksBehave, TimerInv, WalkInv, ListInv, TimerTypeOK, os_timer_create, MayCall
<1>2. ToSet(<<>>) = {}
  BY DEF ToSet
<1>3. timeout + timer_tick_unsynch \in Ticks
  BY <1>1, TickRanges DEF Ticks
<1>4. /\ ticks_rem' = [ticks_rem EXCEPT ![t] = timeout + timer_tick_unsynch]
      /\ left' = [left EXCEPT ![t] = timeout]
      /\ magic' = [magic EXCEPT ![t] = "MAGIC1"]
      /\ ticks_reload' = [ticks_reload EXCEPT ![t] = reload]
      /\ timer_list' = timer_add(timer_list, ticks_rem', t)
      /\ UNCHANGED <<timer_tick_unsynch, triggering, itr, running, list_autoreload>>
  BY <1>3, TickRanges DEF os_timer_create, Compensated
<1>5. /\ timeout \in Nat /\ timeout > 0 /\ timeout \in Int
      /\ timeout + timer_tick_unsynch \in Nat /\ timeout + timer_tick_unsynch > 0
      /\ reload \in Ticks
  <2>1. reload \in Ticks
    BY TicksAssumption
  <2>2. timeout \in Nat /\ timeout > 0
    BY TickRanges
  <2> QED BY <1>1, <2>1, <2>2
<1>6. TimerTypeOK /\ timer_list \in Seq(Timer) /\ IsInjective(timer_list)
      /\ Sorted(timer_list, left) /\ ToSet(timer_list) \subseteq Timer
      /\ left \in [Timer -> Int \cup {NULL}]
  BY Elements DEF TimerInv, TimerTypeOK, ListInv
<1>7. /\ ticks_rem' \in [Timer -> Ticks] /\ ticks_reload' \in [Timer -> Ticks]
      /\ magic' \in [Timer -> {"NONE", "MAGIC1", "MAGIC2"}]
      /\ left' \in [Timer -> Int \cup {NULL}]
  BY <1>3, <1>4, <1>5, <1>6 DEF TimerTypeOK
<1>8. /\ ticks_rem'[t] = timeout + timer_tick_unsynch /\ left'[t] = timeout /\ magic'[t] = "MAGIC1"
      /\ \A o \in Timer \ {t} : ticks_rem'[o] = ticks_rem[o] /\ left'[o] = left[o]
                                /\ magic'[o] = magic[o]
  BY <1>4, <1>6 DEF TimerTypeOK
<1>9. \A o \in OnList \cup {t} : left'[o] \in Nat /\ left'[o] > 0
                                 /\ ticks_rem'[o] = left'[o] + timer_tick_unsynch
  BY <1>1, <1>5, <1>6, <1>8
<1>10. Sorted(timer_list, ticks_rem')
  BY <1>1, <1>6, <1>8, SortedByBoth
<1>11. /\ timer_list' \in Seq(Timer) /\ IsInjective(timer_list')
       /\ ToSet(timer_list') = OnList \cup {t}
       /\ Sorted(timer_list', ticks_rem')
  <2>1. ticks_rem' \in [Timer -> Int]
    BY <1>7, TickRanges
  <2> QED BY <1>1, <1>4, <1>6, <1>10, <2>1, AddSorts
<1>12. Sorted(timer_list', left')
  <2>1. -timer_tick_unsynch \in Int
    BY <1>1
  <2>2. \A o \in ToSet(timer_list') :
           ticks_rem'[o] \in Int /\ left'[o] = ticks_rem'[o] + (-timer_tick_unsynch)
    BY <1>1, <1>9, <1>11
  <2> QED BY <1>11, <2>1, <2>2, SortedByBoth
<1>13. TimerTypeOK'
  BY <1>4, <1>6, <1>7, <1>11 DEF TimerTypeOK
<1>14. ListInv'
  <2>1. \A o \in OnList' : magic'[o] = "MAGIC1" /\ ticks_rem'[o] > 0 /\ left'[o] \in Nat
    BY <1>1, <1>5, <1>6, <1>8, <1>9, <1>11 DEF TimerInv, ListInv
  <2>2. \A o \in Timer \ OnList' : ticks_rem'[o] = 0
    BY <1>6, <1>8, <1>11 DEF TimerInv, ListInv
  <2> QED BY <1>11, <1>12, <2>1, <2>2 DEF ListInv
<1>15. ExpiredInv'
  BY <1>1, <1>2, <1>4, <1>6, <1>8, <1>11 DEF TimerInv, ExpiredInv
<1>16. WalkInv'
  BY <1>1, <1>4, <1>9, <1>11 DEF WalkInv
<1> QED BY <1>7, <1>13, <1>14, <1>15, <1>16 DEF TimerInv

\* os_tick: every timer on the list is one tick nearer to its expiry, and the
\* list has one more tick that it has not seen.
LEMMA TickStep ==
    ASSUME TimerInv, os_tick_timers
    PROVE  TimerInv'
<1> USE DEF OnList, Reloading
<1>1. /\ ~triggering /\ itr = NULL /\ running = NULL /\ list_autoreload = <<>>
      /\ timer_tick_unsynch \in Nat /\ timer_tick_unsynch <= OS_TIMER_UNSYNCH_MAX
      /\ \A o \in OnList : left[o] \in Nat /\ left[o] > 0
                           /\ ticks_rem[o] = left[o] + timer_tick_unsynch
  <2>1. ~triggering
    BY DEF os_tick_timers
  <2> QED BY <2>1, TickRanges DEF TimerInv, WalkInv, ListInv, TimerTypeOK
<1>2. ToSet(<<>>) = {}
  BY DEF ToSet
<1>3. /\ timer_list # <<>>
      /\ timer_tick_unsynch' = timer_tick_unsynch + 1
      /\ triggering' = TriggerDue(timer_tick_unsynch + 1)
      /\ itr' = IF triggering' THEN Head(timer_list) ELSE NULL
      /\ left' = [t \in Timer |-> IF left[t] = NULL THEN NULL ELSE left[t] - 1]
      /\ UNCHANGED <<timer_list, ticks_rem, ticks_reload, magic, running, list_autoreload>>
  BY DEF os_tick_timers
<1>4. TimerTypeOK /\ timer_list \in Seq(Timer) /\ IsInjective(timer_list)
      /\ Sorted(timer_list, left) /\ ToSet(timer_list) \subseteq Timer
      /\ left \in [Timer -> Int \cup {NULL}]
  BY Elements DEF TimerInv, TimerTypeOK, ListInv
<1>5. /\ Head(timer_list) = timer_list[1] /\ Head(timer_list) \in OnList
      /\ 1 \in 1 .. Len(timer_list) /\ Len(timer_list) \in Nat
  BY <1>3, <1>4, TailElements, Elements
<1>6. left' \in [Timer -> Int \cup {NULL}] /\ \A t \in Timer : left[t] = NULL => left'[t] = NULL
  BY <1>3, <1>4
<1>7. \A o \in OnList : /\ left'[o] = left[o] - 1 /\ left'[o] \in Nat
                        /\ ticks_rem'[o] = left'[o] + timer_tick_unsynch'
  <2>1. ASSUME NEW o \in OnList
        PROVE  /\ left'[o] = left[o] - 1 /\ left'[o] \in Nat
               /\ ticks_rem'[o] = left'[o] + timer_tick_unsynch'
    <3>1. left[o] # NULL /\ o \in Timer
      BY <1>1, <1>4, TimerAssumption
    <3>2. left'[o] = left[o] - 1 /\ ticks_rem'[o] = ticks_rem[o]
      BY <1>3, <3>1
    <3>3. /\ left[o] \in Nat /\ left[o] > 0 /\ ticks_rem[o] = left[o] + timer_tick_unsynch
          /\ timer_tick_unsynch \in Nat /\ timer_tick_unsynch' = timer_tick_unsynch + 1
      BY <1>1, <1>3
    <3> QED BY <3>2, <3>3
  <2> QED BY <2>1
<1>8. Sorted(timer_list, left')
  <2>1. \A o \in OnList : left[o] \in Int /\ left'[o] = left[o] + (-1)
    BY <1>1, <1>7
  <2> QED BY <1>4, <2>1, SortedByBoth
<1>9. triggering' \in BOOLEAN
  BY <1>3 DEF TriggerDue
<1>10. TimerTypeOK'
  BY <1>1, <1>3, <1>4, <1>5, <1>6, <1>9, TickRanges DEF TimerTypeOK
<1>11. ListInv'
  BY <1>3, <1>4, <1>7, <1>8 DEF TimerInv, ListInv
<1>12. ExpiredInv'
  BY <1>1, <1>2, <1>3, <1>4, <1>6, <1>11 DEF TimerInv, ExpiredInv
<1>13. WalkInv'
  <2>1. CASE triggering'
    <3>1. itr' = timer_list[1] /\ itr' # NULL
      BY <1>3, <1>4, <1>5, <2>1, TimerAssumption
    <3>2. \A i, k \in 1 .. Len(timer_list) : timer_list[k] = itr' =>
             ~(i < k) /\ ticks_rem'[timer_list[i]] = left'[timer_list[i]] + timer_tick_unsynch'
      BY <1>4, <1>5, <1>7, <3>1, Elements
    <3> QED BY <1>1, <1>3, <1>5, <2>1, <3>1, <3>2 DEF WalkInv
  <2>2. CASE ~triggering'
    <3>1. ~(timer_tick_unsynch + 1 >= ticks_rem[timer_list[1]])
          /\ timer_tick_unsynch' <= OS_TIMER_UNSYNCH_MAX
      BY <1>1, <1>3, <1>5, <2>2, TickRanges DEF TriggerDue
    <3>2. left'[timer_list[1]] > 0
      BY <1>1, <1>3, <1>5, <1>7, <3>1
    <3>3. ASSUME NEW o \in OnList PROVE left'[o] > 0
      <4>1. PICK j \in 1 .. Len(timer_list) : timer_list[j] = o
        BY <1>4, Elements
      <4>2. j = 1 \/ left'[timer_list[1]] <= left'[o]
        BY <1>5, <1>8, <4>1 DEF Sorted
      <4> QED BY <1>5, <1>7, <3>2, <4>1, <4>2
    <3> QED BY <1>1, <1>3, <1>7, <2>2, <3>1, <3>3 DEF WalkInv
  <2> QED BY <1>9, <2>1, <2>2
<1> QED BY <1>6, <1>10, <1>11, <1>12, <1>13 DEF TimerInv

\* os_timer_destroy of a timer that is not active changes only its magic.
LEMMA DestroyIdle ==
    ASSUME CallbacksBehave, TimerInv, NEW t \in Timer, os_timer_destroy(t), ticks_rem[t] = 0
    PROVE  TimerInv'
<1> USE DEF OnList, Reloading
<1>1. /\ timer_list' = timer_list
      /\ ticks_rem' = [ticks_rem EXCEPT ![t] = 0]
      /\ ticks_reload' = [ticks_reload EXCEPT ![t] = @]
      /\ magic' = [magic EXCEPT ![t] = "MAGIC2"]
      /\ timer_tick_unsynch' = IF timer_list = <<>> THEN 0 ELSE timer_tick_unsynch
      /\ left' = [left EXCEPT ![t] = NULL]
      /\ UNCHANGED <<triggering, itr, running, list_autoreload>>
  BY DEF os_timer_destroy, Detached
<1>2. TimerTypeOK /\ ListInv /\ ExpiredInv /\ WalkInv /\ ToSet(timer_list) \subseteq Timer
      /\ timer_list \in Seq(Timer) /\ left \in [Timer -> Int \cup {NULL}]
      /\ ToSet(list_autoreload) \subseteq Timer
  BY Elements DEF TimerInv, TimerTypeOK
<1>3. t \notin OnList
  BY <1>2 DEF ListInv
<1>4. t \notin Reloading /\ (t = running => ~(ticks_reload[t] > 0))
  <2>1. CASE running # NULL
    <3>1. ~(ticks_reload[t] > 0)
      BY <2>1 DEF CallbacksBehave, os_timer_destroy
    <3> QED BY <1>2, <3>1 DEF ExpiredInv
  <2>2. CASE running = NULL
    <3>1. list_autoreload = <<>>
      BY <1>2, <2>2 DEF os_timer_destroy, MayCall, WalkInv
    <3> QED BY <2>2, <3>1, TimerAssumption DEF ToSet
  <2> QED BY <2>1, <2>2
<1>5. /\ ticks_rem' = ticks_rem /\ ticks_reload' = ticks_reload
      /\ magic' \in [Timer -> {"NONE", "MAGIC1", "MAGIC2"}]
      /\ left' \in [Timer -> Int \cup {NULL}] /\ left'[t] = NULL
      /\ \A o \in Timer \ {t} : magic'[o] = magic[o] /\ left'[o] = left[o]
  BY <1>1, <1>2 DEF TimerTypeOK
<1>6. TimerTypeOK'
  <2>1. timer_tick_unsynch' \in 0 .. (OS_TIMER_UNSYNCH_MAX + 1)
    <3>1. timer_tick_unsynch' = timer_tick_unsynch \/ timer_tick_unsynch' = 0
      BY <1>1
    <3>2. timer_tick_unsynch \in 0 .. (OS_TIMER_UNSYNCH_MAX + 1)
      BY <1>2 DEF TimerTypeOK
    <3>3. OS_TIMER_UNSYNCH_MAX \in Nat
      BY TickRanges
    <3> QED BY <3>1, <3>2, <3>3
  <2> QED BY <1>1, <1>2, <1>5, <2>1 DEF TimerTypeOK
<1>7. \A o \in OnList : o # t /\ left'[o] = left[o] /\ magic'[o] = magic[o]
  BY <1>2, <1>3, <1>5
<1>8. ListInv'
  <2>1. \A o \in OnList : left[o] \in Int /\ left'[o] = left[o] + 0
    BY <1>2, <1>7 DEF ListInv
  <2>2. Sorted(timer_list, left')
    BY <1>2, <2>1, SortedByBoth DEF ListInv
  <2> QED BY <1>1, <1>2, <1>5, <1>7, <2>2 DEF ListInv
<1>9. ExpiredInv'
  <2>1. \A o \in Reloading : o # t /\ left'[o] = left[o] /\ magic'[o] = magic[o]
    BY <1>2, <1>4, <1>5
  <2>2. running # NULL => running \in Timer
    BY <1>2 DEF TimerTypeOK
  <2>3. running # NULL =>
          /\ triggering /\ running \notin OnList
          /\ IF ticks_reload[running] > 0
             THEN magic'[running] = "MAGIC1" /\ left'[running] = ticks_reload[running]
             ELSE left'[running] = NULL
    BY <1>2, <1>4, <1>5, <2>2 DEF ExpiredInv
  <2>4. \A o \in Timer : left'[o] # NULL => o \in OnList \cup Reloading \cup {running}
    BY <1>2, <1>5 DEF ExpiredInv
  <2> QED BY <1>1, <1>2, <1>5, <2>1, <2>3, <2>4 DEF ExpiredInv
<1>10. WalkInv'
  <2>1. OnList # {} => timer_tick_unsynch' = timer_tick_unsynch
    BY <1>1, <1>2, Elements
  <2>2. timer_tick_unsynch' = timer_tick_unsynch \/ timer_tick_unsynch' = 0
    BY <1>1
  <2>3. \A i \in 1 .. Len(timer_list) : timer_list[i] \in OnList
    BY <1>2, Elements
  <2>4. ASSUME ~triggering
        PROVE  /\ itr = NULL /\ running = NULL /\ list_autoreload = <<>>
               /\ timer_tick_unsynch' <= OS_TIMER_UNSYNCH_MAX
               /\ \A o \in OnList : left'[o] > 0 /\ ticks_rem[o] = left'[o] + timer_tick_unsynch'
    BY <1>2, <1>7, <2>1, <2>2, <2>4, TickRanges DEF WalkInv
  <2>5. ASSUME triggering, itr = NULL
        PROVE  /\ \A o \in OnList : ticks_rem[o] = left'[o]
               /\ running # NULL => timer_list = <<>>
    BY <1>2, <1>7, <2>5 DEF WalkInv
  <2>6. ASSUME triggering, itr # NULL
        PROVE  /\ itr \in OnList
               /\ \A i, k \in 1 .. Len(timer_list) : timer_list[k] = itr =>
                     ticks_rem[timer_list[i]] =
                         left'[timer_list[i]] + IF i < k THEN 0 ELSE timer_tick_unsynch'
               /\ running # NULL => timer_list[1] = itr
    BY <1>2, <1>7, <2>1, <2>3, <2>6 DEF WalkInv
  <2> QED BY <1>1, <1>5, <2>4, <2>5, <2>6 DEF WalkInv
<1> QED BY <1>5, <1>6, <1>8, <1>9, <1>10 DEF TimerInv

\* os_timer_destroy of an active timer takes it from the list.  A callback
\* runs only while the timer walked next is the head of the list.
LEMMA DestroyActive ==
    ASSUME CallbacksBehave, TimerInv, NEW t \in Timer, os_timer_destroy(t), ticks_rem[t] > 0
    PROVE  TimerInv'
<1> USE DEF OnList, Reloading
<1>1. /\ timer_list' = RemoveFirst(timer_list, t)
      /\ ticks_rem' = [ticks_rem EXCEPT ![t] = 0]
      /\ ticks_reload' = [ticks_reload EXCEPT ![t] = 0]
      /\ magic' = [magic EXCEPT ![t] = "MAGIC2"]
      /\ timer_tick_unsynch' = IF timer_list' = <<>> THEN 0 ELSE timer_tick_unsynch
      /\ left' = [left EXCEPT ![t] = NULL]
      /\ UNCHANGED <<triggering, itr, running, list_autoreload>>
  BY DEF os_timer_destroy, Detached
<1>2. TimerTypeOK /\ ListInv /\ ExpiredInv /\ WalkInv /\ ToSet(timer_list) \subseteq Timer
      /\ timer_list \in Seq(Timer) /\ left \in [Timer -> Int \cup {NULL}]
      /\ ToSet(list_autoreload) \subseteq Timer /\ 0 \in Ticks
  <2>1. 0 \in Ticks
    BY TickRanges DEF Ticks
  <2> QED BY <2>1, Elements DEF TimerInv, TimerTypeOK
<1>3. t \in OnList
  <2>1. ticks_rem[t] # 0
    OBVIOUS
  <2> QED BY <1>2, <2>1 DEF ListInv
<1>4. /\ timer_list' \in Seq(Timer) /\ IsInjective(timer_list')
      /\ ToSet(timer_list') = OnList \ {t} /\ InOrder(timer_list', timer_list)
      /\ Len(timer_list) > 0 /\ timer_list[1] # t => timer_list'[1] = timer_list[1]
  BY <1>1, <1>2, RemoveKeepsOrder DEF ListInv
<1>5. /\ ticks_rem' \in [Timer -> Ticks] /\ ticks_reload' \in [Timer -> Ticks]
      /\ magic' \in [Timer -> {"NONE", "MAGIC1", "MAGIC2"}]
      /\ left' \in [Timer -> Int \cup {NULL}] /\ left'[t] = NULL /\ ticks_rem'[t] = 0
      /\ \A o \in Timer \ {t} : /\ magic'[o] = magic[o] /\ left'[o] = left[o]
                                /\ ticks_rem'[o] = ticks_rem[o]
                                /\ ticks_reload'[o] = ticks_reload[o]
  BY <1>1, <1>2 DEF TimerTypeOK
<1>6. TimerTypeOK'
  <2>1. timer_tick_unsynch' \in 0 .. (OS_TIMER_UNSYNCH_MAX + 1)
    <3>1. timer_tick_unsynch' = timer_tick_unsynch \/ timer_tick_unsynch' = 0
      BY <1>1
    <3>2. timer_tick_unsynch \in 0 .. (OS_TIMER_UNSYNCH_MAX + 1)
      BY <1>2 DEF TimerTypeOK
    <3>3. OS_TIMER_UNSYNCH_MAX \in Nat
      BY TickRanges
    <3> QED BY <3>1, <3>2, <3>3
  <2> QED BY <1>1, <1>2, <1>4, <1>5, <2>1 DEF TimerTypeOK
<1>7. \A o \in OnList' : o # t /\ o \in OnList /\ left'[o] = left[o] /\ magic'[o] = magic[o]
                         /\ ticks_rem'[o] = ticks_rem[o]
  BY <1>2, <1>4, <1>5
<1>8. ListInv'
  <2>1. Sorted(timer_list', left)
    BY <1>2, <1>4, SortedPart DEF ListInv
  <2>2. \A o \in OnList' : left[o] \in Int /\ left'[o] = left[o] + 0
    BY <1>2, <1>7 DEF ListInv
  <2>3. Sorted(timer_list', left')
    <3>1. \A o \in ToSet(timer_list') : left[o] \in Int /\ left'[o] = left[o] + 0
      BY <2>2
    <3> HIDE DEF OnList
    <3> QED BY <1>4, <2>1, <3>1, SortedByBoth
  <2>4. \A o \in Timer \ OnList' : ticks_rem'[o] = 0
    BY <1>2, <1>4, <1>5 DEF ListInv
  <2>5. \A o \in OnList' : magic'[o] = "MAGIC1" /\ ticks_rem'[o] > 0 /\ left'[o] \in Nat
    BY <1>2, <1>7 DEF ListInv
  <2> QED BY <1>4, <2>3, <2>4, <2>5 DEF ListInv
<1>9. ExpiredInv'
  <2>1. \A o \in Reloading : /\ o # t /\ left'[o] = left[o] /\ magic'[o] = magic[o]
                             /\ ticks_reload'[o] = ticks_reload[o]
    BY <1>2, <1>3, <1>5 DEF ExpiredInv
  <2>2. running # NULL => running \in Timer /\ running # t
    BY <1>2, <1>3 DEF TimerTypeOK, ExpiredInv
  <2>3. running # NULL =>
          /\ triggering /\ running \notin OnList
          /\ IF ticks_reload'[running] > 0
             THEN magic'[running] = "MAGIC1" /\ left'[running] = ticks_reload'[running]
             ELSE left'[running] = NULL
    BY <1>2, <1>5, <2>2 DEF ExpiredInv
  <2>4. \A o \in Timer : left'[o] # NULL => o \in OnList' \cup Reloading \cup {running}
    BY <1>2, <1>4, <1>5 DEF ExpiredInv
  <2> QED BY <1>1, <1>2, <1>4, <2>1, <2>3, <2>4 DEF ExpiredInv
<1>10. WalkInv'
  <2>1. OnList' # {} => timer_tick_unsynch' = timer_tick_unsynch
    BY <1>1, <1>4, Elements
  <2>2. timer_tick_unsynch' = timer_tick_unsynch \/ timer_tick_unsynch' = 0
    BY <1>1
  <2>3. CASE ~triggering
    <3>1. \A o \in OnList' : left'[o] > 0 /\ ticks_rem'[o] = left'[o] + timer_tick_unsynch'
      BY <1>2, <1>7, <2>1, <2>3 DEF WalkInv
    <3>2. timer_tick_unsynch' <= OS_TIMER_UNSYNCH_MAX
      BY <1>2, <2>2, <2>3, TickRanges DEF WalkInv
    <3> QED BY <1>1, <1>2, <2>3, <3>1, <3>2 DEF WalkInv
  <2>4. CASE triggering
    <3>1. running # NULL /\ t # itr
      BY <2>4 DEF CallbacksBehave, os_timer_destroy, MayCall
    <3>2. timer_list # <<>>
      BY <1>2, <1>3, Elements
    <3>3. itr # NULL /\ itr \in OnList /\ timer_list[1] = itr
      BY <1>2, <2>4, <3>1, <3>2 DEF WalkInv
    <3>4. 1 \in 1 .. Len(timer_list)
      BY <1>2, <3>2, Elements
    <3>5. itr \in OnList' /\ timer_list'[1] = itr
      BY <1>4, <3>1, <3>3, <3>4
    <3>6. ASSUME NEW o \in OnList' PROVE ticks_rem'[o] = left'[o] + timer_tick_unsynch'
      <4>1. PICK i \in 1 .. Len(timer_list) : timer_list[i] = o
        BY <1>2, <1>7, Elements
      <4>2. ticks_rem[o] = left[o] + IF i < 1 THEN 0 ELSE timer_tick_unsynch
        BY <1>2, <2>4, <3>3, <3>4, <4>1 DEF WalkInv
      <4>3. ~(i < 1) /\ timer_tick_unsynch' = timer_tick_unsynch
        BY <2>1
      <4> QED BY <1>7, <4>2, <4>3
    <3>7. \A i, k \in 1 .. Len(timer_list') : timer_list'[k] = itr => ~(i < k)
      <4>1. 1 \in 1 .. Len(timer_list')
        BY <1>4, <3>5, Elements
      <4>2. \A k \in 1 .. Len(timer_list') : timer_list'[k] = itr => k = 1
        BY <1>4, <3>5, <4>1, Elements
      <4> QED BY <4>2
    <3>8. \A i \in 1 .. Len(timer_list') : timer_list'[i] \in OnList'
      BY <1>4, Elements
    <3> QED BY <1>1, <2>4, <3>3, <3>5, <3>6, <3>7, <3>8 DEF WalkInv
  <2> QED BY <1>2, <2>3, <2>4 DEF TimerTypeOK
<1> QED BY <1>5, <1>6, <1>8, <1>9, <1>10 DEF TimerInv

\* A turn of timer_trigger at a timer that is not due brings its ticks_rem up
\* to date and goes on to the next one.
LEMMA WalkBegins ==
    ASSUME TimerInv, timer_trigger_walk
    PROVE  /\ triggering /\ running = NULL /\ itr \in Timer
           /\ \E k \in 1 .. Len(timer_list) :
                 /\ timer_list[k] = itr
                 /\ itr' = IF k = Len(timer_list) THEN NULL ELSE timer_list[k + 1]
           /\ left[itr] \in Nat
           /\ ticks_rem' = [ticks_rem EXCEPT ![itr] = left[itr]]
           /\ left[itr] \in Ticks
<1>1. /\ triggering /\ running = NULL /\ itr # NULL /\ itr' = Successor(itr)
      /\ ticks_rem' = [ticks_rem EXCEPT ![itr] = (@ - timer_tick_unsynch) % TICKS_MOD]
  BY DEF timer_trigger_walk
<1>2. TimerTypeOK /\ ListInv /\ WalkInv /\ timer_list \in Seq(Timer) /\ IsInjective(timer_list)
      /\ timer_tick_unsynch \in Nat /\ itr \in Timer
  <2>1. OS_TIMER_UNSYNCH_MAX \in Nat
    BY TickRanges
  <2> QED BY <1>1, <2>1 DEF TimerInv, TimerTypeOK, ListInv
<1>3. itr \in OnList
  BY <1>1, <1>2 DEF WalkInv
<1>4. PICK k \in 1 .. Len(timer_list) : timer_list[k] = itr
  BY <1>2, <1>3, Elements DEF OnList
<1>5. itr' = IF k = Len(timer_list) THEN NULL ELSE timer_list[k + 1]
  BY <1>1, <1>2, <1>4, SuccessorIsNext
<1>6. left[itr] \in Nat /\ ticks_rem[itr] = left[itr] + timer_tick_unsynch
  <2>1. ticks_rem[timer_list[k]] =
            left[timer_list[k]] + IF k < k THEN 0 ELSE timer_tick_unsynch
    BY <1>1, <1>2, <1>4 DEF WalkInv
  <2>2. left[itr] \in Nat
    BY <1>2, <1>3 DEF ListInv
  <2> QED BY <1>4, <2>1, <2>2
<1>7. ticks_rem[itr] \in Ticks
  BY <1>2 DEF TimerTypeOK
<1>8. left[itr] \in Ticks
  BY <1>2, <1>6, <1>7, TickRanges DEF Ticks
<1>9. (ticks_rem[itr] - timer_tick_unsynch) % TICKS_MOD = left[itr]
  <2>1. ticks_rem[itr] - timer_tick_unsynch = left[itr]
    BY <1>2, <1>6
  <2> QED BY <1>8, <2>1, TickRanges
<1> QED BY <1>1, <1>2, <1>4, <1>5, <1>6, <1>8, <1>9

LEMMA WalkOn ==
    ASSUME TimerInv, timer_trigger_walk, left[itr] # 0
    PROVE  TimerInv'
<1> USE DEF OnList, Reloading
<1>1. /\ triggering /\ running = NULL /\ itr \in Timer /\ left[itr] \in Nat
      /\ ticks_rem' = [ticks_rem EXCEPT ![itr] = left[itr]] /\ left[itr] \in Ticks
  BY WalkBegins
<1>2. PICK k \in 1 .. Len(timer_list) :
         timer_list[k] = itr /\ itr' = IF k = Len(timer_list) THEN NULL ELSE timer_list[k + 1]
  BY WalkBegins
<1>3. TimerTypeOK /\ ListInv /\ ExpiredInv /\ WalkInv /\ timer_list \in Seq(Timer)
      /\ left \in [Timer -> Int \cup {NULL}] /\ ticks_rem \in [Timer -> Ticks]
      /\ ToSet(timer_list) \subseteq Timer /\ Len(timer_list) \in Nat
      /\ (\A i \in 1 .. Len(timer_list) : timer_list[i] \in ToSet(timer_list) /\ timer_list[i] \in Timer)
      /\ (\A i, j \in 1 .. Len(timer_list) : timer_list[i] = timer_list[j] => i = j)
  BY Elements DEF TimerInv, TimerTypeOK, ListInv
<1>4. ticks_rem' \in [Timer -> Ticks] /\ ticks_rem'[itr] = left[itr] /\ left[itr] > 0
      /\ \A o \in Timer \ {itr} : ticks_rem'[o] = ticks_rem[o]
  BY <1>1, <1>3
<1>5. UNCHANGED <<timer_list, running, left, ticks_reload, magic, timer_tick_unsynch,
                  triggering, list_autoreload>>
  BY <1>4 DEF timer_trigger_walk
<1>6. itr' \in Timer \cup {NULL}
  BY <1>2, <1>3
<1>7. TimerTypeOK'
  BY <1>3, <1>4, <1>5, <1>6 DEF TimerTypeOK
<1>8. itr \in OnList
  BY <1>2, <1>3
<1>9. ListInv'
  BY <1>3, <1>4, <1>5, <1>8 DEF ListInv
<1>10. ExpiredInv'
  BY <1>1, <1>3, <1>5 DEF ExpiredInv
<1>11. WalkInv'
  <2>1. itr # NULL
    BY <1>1, TimerAssumption
  <2>2. \A i \in 1 .. Len(timer_list) :
           /\ i <= k => ticks_rem'[timer_list[i]] = left[timer_list[i]]
           /\ i > k => ticks_rem'[timer_list[i]] = left[timer_list[i]] + timer_tick_unsynch
    <3>1. ASSUME NEW i \in 1 .. Len(timer_list), i # k
          PROVE  ticks_rem'[timer_list[i]] =
                     left[timer_list[i]] + IF i < k THEN 0 ELSE timer_tick_unsynch
      <4>1. timer_list[i] \in Timer \ {itr}
        BY <1>2, <1>3, <3>1
      <4> QED BY <1>1, <1>2, <1>3, <1>4, <2>1, <4>1 DEF WalkInv
    <3>2. \A i \in 1 .. Len(timer_list) : left[timer_list[i]] \in Nat
      BY <1>3 DEF ListInv
    <3>3. ticks_rem'[timer_list[k]] = left[timer_list[k]]
      BY <1>2, <1>4
    <3> QED BY <3>1, <3>2, <3>3
  <2>3. CASE k = Len(timer_list)
    <3>1. itr' = NULL
      BY <1>2, <2>3
    <3>2. \A o \in OnList : ticks_rem'[o] = left[o]
      <4>1. \A i \in 1 .. Len(timer_list) : ticks_rem'[timer_list[i]] = left[timer_list[i]]
        BY <1>3, <2>2, <2>3
      <4> QED BY <1>3, <4>1, Elements
    <3> QED BY <1>1, <1>5, <3>1, <3>2 DEF WalkInv
  <2>4. CASE k # Len(timer_list)
    <3>1. k + 1 \in 1 .. Len(timer_list) /\ itr' = timer_list[k + 1]
      BY <1>2, <1>3, <2>4
    <3>2. itr' # NULL /\ itr' \in OnList
      BY <1>3, <3>1, TimerAssumption
    <3>3. ASSUME NEW i \in 1 .. Len(timer_list), NEW n \in 1 .. Len(timer_list), timer_list[n] = itr'
          PROVE  ticks_rem'[timer_list[i]] =
                     left[timer_list[i]] + IF i < n THEN 0 ELSE timer_tick_unsynch
      <4>1. n = k + 1
        BY <1>3, <3>1, <3>3
      <4>2. left[timer_list[i]] \in Nat
        BY <1>3 DEF ListInv
      <4> QED BY <2>2, <4>1, <4>2
    <3> QED BY <1>1, <1>5, <3>2, <3>3 DEF WalkInv
  <2> QED BY <2>3, <2>4
<1> QED BY <1>3, <1>5, <1>7, <1>9, <1>10, <1>11 DEF TimerInv

\* A timer that is due is the head of the list: those before it would be due
\* as well, and the walk has taken them from the list.
LEMMA DueIsHead ==
    ASSUME TimerInv, timer_trigger_walk, left[itr] = 0
    PROVE  timer_list[1] = itr /\ timer_list # <<>>
<1>1. triggering /\ itr \in Timer
  BY WalkBegins
<1>2. PICK k \in 1 .. Len(timer_list) : timer_list[k] = itr
  BY WalkBegins
<1>3. ListInv /\ WalkInv /\ timer_list \in Seq(Timer) /\ Len(timer_list) \in Nat
      /\ \A i \in 1 .. Len(timer_list) : timer_list[i] \in OnList
  BY Elements DEF TimerInv, TimerTypeOK, OnList
<1>4. ASSUME k # 1 PROVE FALSE
  <2>1. 1 \in 1 .. Len(timer_list) /\ 1 < k
    BY <1>3, <1>4
  <2>2. left[timer_list[1]] <= 0
    BY <1>2, <1>3, <2>1 DEF ListInv, Sorted
  <2>3. itr # NULL
    BY <1>1, TimerAssumption
  <2>4. ticks_rem[timer_list[1]] = left[timer_list[1]] + 0
    BY <1>1, <1>2, <1>3, <2>1, <2>3 DEF WalkInv
  <2>5. left[timer_list[1]] \in Nat /\ ticks_rem[timer_list[1]] > 0
    BY <1>3, <2>1 DEF ListInv
  <2> QED BY <2>2, <2>4, <2>5
<1> QED BY <1>2, <1>3, <1>4

\* A turn at a timer that is due takes it from the list and calls it.
LEMMA WalkExpires ==
    ASSUME TimerInv, timer_trigger_walk, left[itr] = 0
    PROVE  TimerInv'
<1> USE DEF OnList, Reloading
<1>1. /\ triggering /\ running = NULL /\ itr \in Timer
      /\ ticks_rem' = [ticks_rem EXCEPT ![itr] = 0] /\ 0 \in Ticks
  BY WalkBegins
<1>2. TimerTypeOK /\ ListInv /\ ExpiredInv /\ WalkInv /\ timer_list \in Seq(Timer)
      /\ left \in [Timer -> Int \cup {NULL}] /\ ticks_rem \in [Timer -> Ticks]
      /\ ToSet(timer_list) \subseteq Timer /\ Len(timer_list) \in Nat /\ IsInjective(timer_list)
      /\ ToSet(list_autoreload) \subseteq Timer
      /\ (\A i \in 1 .. Len(timer_list) : timer_list[i] \in ToSet(timer_list) /\ timer_list[i] \in Timer)
      /\ (\A i, j \in 1 .. Len(timer_list) : timer_list[i] = timer_list[j] => i = j)
  BY Elements DEF TimerInv, TimerTypeOK, ListInv
<1>3. timer_list[1] = itr /\ 1 \in 1 .. Len(timer_list) /\ itr \in OnList
  BY <1>2, DueIsHead
<1>4. itr' = IF 1 = Len(timer_list) THEN NULL ELSE timer_list[2]
  <2>1. PICK k \in 1 .. Len(timer_list) :
         timer_list[k] = itr /\ itr' = IF k = Len(timer_list) THEN NULL ELSE timer_list[k + 1]
    BY WalkBegins
  <2>2. k = 1
    BY <1>2, <1>3, <2>1
  <2> QED BY <2>1, <2>2
<1>5. ticks_rem' \in [Timer -> Ticks] /\ ticks_rem'[itr] = 0
      /\ \A o \in Timer \ {itr} : ticks_rem'[o] = ticks_rem[o]
  BY <1>1, <1>2
<1>6. /\ timer_list' = RemoveFirst(timer_list, itr) /\ running' = itr
      /\ left' = [left EXCEPT ![itr] = IF ticks_reload[itr] > 0 THEN ticks_reload[itr] ELSE NULL]
      /\ UNCHANGED <<ticks_reload, magic, timer_tick_unsynch, triggering, list_autoreload>>
  BY <1>5 DEF timer_trigger_walk
<1>7. /\ timer_list' \in Seq(Timer) /\ IsInjective(timer_list')
      /\ ToSet(timer_list') = OnList \ {itr} /\ InOrder(timer_list', timer_list)
      /\ Len(timer_list) > 1 => timer_list'[1] = timer_list[2]
  BY <1>1, <1>2, <1>3, <1>6, RemoveKeepsOrder
<1>8. /\ left' \in [Timer -> Int \cup {NULL}]
      /\ left'[itr] = IF ticks_reload[itr] > 0 THEN ticks_reload[itr] ELSE NULL
      /\ \A o \in Timer \ {itr} : left'[o] = left[o]
  <2>1. ticks_reload[itr] \in Int
    BY <1>1, <1>2, TickRanges DEF TimerTypeOK
  <2> QED BY <1>1, <1>2, <1>6, <2>1
<1>9. \/ Len(timer_list) = 1 /\ itr' = NULL
      \/ Len(timer_list) > 1 /\ 2 \in 1 .. Len(timer_list) /\ itr' = timer_list[2]
  <2> DEFINE N == Len(timer_list)
  <2>1. N \in Nat /\ 1 \in 1 .. N /\ itr' = IF 1 = N THEN NULL ELSE timer_list[2]
    BY <1>2, <1>3, <1>4
  <2> HIDE DEF N
  <2>2. N = 1 \/ (N # 1 /\ N > 1 /\ 2 \in 1 .. N)
    BY <2>1
  <2> QED BY <2>1, <2>2 DEF N
<1>10. TimerTypeOK'
  <2>1. itr' \in Timer \cup {NULL}
    BY <1>2, <1>9
  <2> QED BY <1>1, <1>2, <1>5, <1>6, <1>7, <1>8, <2>1 DEF TimerTypeOK
<1>11. \A o \in ToSet(timer_list') : o \in OnList /\ o # itr /\ left'[o] = left[o]
                         /\ ticks_rem'[o] = ticks_rem[o]
  BY <1>2, <1>5, <1>7, <1>8
<1>12. ListInv'
  <2>1. Sorted(timer_list', left)
    BY <1>2, <1>7, SortedPart DEF ListInv
  <2>2. \A o \in ToSet(timer_list') : left[o] \in Int /\ left'[o] = left[o] + 0
    BY <1>2, <1>11 DEF ListInv
  <2>3. Sorted(timer_list', left')
    BY <1>7, <2>1, <2>2, SortedByBoth
  <2>4. \A o \in Timer \ ToSet(timer_list') : ticks_rem'[o] = 0
    BY <1>2, <1>5, <1>7 DEF ListInv
  <2>5. \A o \in ToSet(timer_list') : magic'[o] = "MAGIC1" /\ ticks_rem'[o] > 0 /\ left'[o] \in Nat
    BY <1>2, <1>6, <1>11 DEF ListInv
  <2> QED BY <1>7, <2>3, <2>4, <2>5 DEF ListInv
<1>13. ExpiredInv'
  <2>1. \A o \in Reloading : o # itr /\ left'[o] = left[o] /\ o \notin ToSet(timer_list')
    BY <1>2, <1>3, <1>7, <1>8 DEF ExpiredInv
  <2>2. magic[itr] = "MAGIC1"
    BY <1>2, <1>3 DEF ListInv
  <2>3. \A o \in Timer : left'[o] # NULL => o \in ToSet(timer_list') \cup Reloading \cup {itr}
    BY <1>1, <1>2, <1>7, <1>8, TimerAssumption DEF ExpiredInv
  <2> QED BY <1>1, <1>2, <1>6, <1>7, <1>8, <2>1, <2>2, <2>3 DEF ExpiredInv
<1>14. WalkInv'
  <2>1. \A o \in ToSet(timer_list') : ticks_rem'[o] = left'[o] + timer_tick_unsynch
    <3>1. ASSUME NEW o \in ToSet(timer_list') PROVE ticks_rem[o] = left[o] + timer_tick_unsynch
      <4>1. PICK i \in 1 .. Len(timer_list) : timer_list[i] = o
        BY <1>2, <1>11, Elements
      <4>2. itr # NULL
        BY <1>1, TimerAssumption
      <4>3. ticks_rem[timer_list[i]] =
                left[timer_list[i]] + IF i < 1 THEN 0 ELSE timer_tick_unsynch
        BY <1>1, <1>2, <1>3, <4>2 DEF WalkInv
      <4> QED BY <4>1, <4>3
    <3> QED BY <1>11, <3>1
  <2>2. CASE Len(timer_list) = 1
    <3>1. itr' = NULL
      BY <1>4, <2>2
    <3>2. ASSUME NEW o \in ToSet(timer_list) PROVE o = itr
      <4>1. PICK i \in 1 .. Len(timer_list) : timer_list[i] = o
        BY <1>2, Elements
      <4>2. i = 1
        BY <2>2
      <4> QED BY <1>3, <4>1, <4>2
    <3>3. timer_list' = <<>>
      BY <1>7, <3>2, Elements
    <3>4. ToSet(timer_list') = {}
      BY <1>7, <3>2
    <3> QED BY <1>1, <1>6, <3>1, <3>3, <3>4 DEF WalkInv
  <2>3. CASE Len(timer_list) # 1
    <3>1. Len(timer_list) > 1 /\ 2 \in 1 .. Len(timer_list) /\ itr' = timer_list[2]
      BY <1>9, <2>3
    <3>2. itr' \in Timer /\ itr' # NULL /\ itr' # itr /\ itr' \in ToSet(timer_list')
      BY <1>2, <1>3, <1>7, <3>1, TimerAssumption
    <3>3. timer_list'[1] = itr'
      BY <1>7, <3>1
    <3>4. /\ Len(timer_list') \in Nat /\ 1 \in 1 .. Len(timer_list')
          /\ \A i \in 1 .. Len(timer_list') : timer_list'[i] \in ToSet(timer_list')
          /\ \A i, j \in 1 .. Len(timer_list') : timer_list'[i] = timer_list'[j] => i = j
      BY <1>7, <3>2, Elements
    <3>5. \A i, k \in 1 .. Len(timer_list') : timer_list'[k] = itr' =>
             ~(i < k) /\ ticks_rem'[timer_list'[i]] = left'[timer_list'[i]] + timer_tick_unsynch
      BY <2>1, <3>3, <3>4
    <3> QED BY <1>1, <1>6, <3>2, <3>3, <3>5 DEF WalkInv
  <2> QED BY <2>2, <2>3
<1> QED BY <1>8, <1>10, <1>12, <1>13, <1>14 DEF TimerInv

\* Back from a callback: an auto reload timer waits for its reload.
LEMMA CalledStep ==
    ASSUME TimerInv, timer_trigger_called
    PROVE  TimerInv'
<1> USE DEF OnList, Reloading
<1>1. /\ running # NULL /\ running' = NULL
      /\ list_autoreload' = IF ticks_reload[running] > 0
                            THEN Append(list_autoreload, running) ELSE list_autoreload
      /\ UNCHANGED <<timer_list, ticks_rem, ticks_reload, magic, timer_tick_unsynch,
                     triggering, itr, left>>
  BY DEF timer_trigger_called
<1>2. TimerTypeOK /\ ListInv /\ ExpiredInv /\ WalkInv /\ list_autoreload \in Seq(Timer)
      /\ left \in [Timer -> Int \cup {NULL}] /\ running \in Timer
      /\ IsInjective(list_autoreload) /\ running \notin ToSet(list_autoreload) /\ triggering
      /\ running \notin ToSet(timer_list)
  BY <1>1 DEF TimerInv, TimerTypeOK, ExpiredInv
<1>3. /\ list_autoreload' \in Seq(Timer) /\ IsInjective(list_autoreload')
      /\ ToSet(list_autoreload') =
             Reloading \cup IF ticks_reload[running] > 0 THEN {running} ELSE {}
  <2>1. CASE ticks_reload[running] > 0
    BY <1>1, <1>2, <2>1, AppendElements
  <2>2. CASE ~(ticks_reload[running] > 0)
    BY <1>1, <1>2, <2>2
  <2> QED BY <2>1, <2>2
<1>4. TimerTypeOK'
  BY <1>1, <1>2, <1>3 DEF TimerTypeOK
<1>5. ListInv'
  BY <1>1, <1>2 DEF ListInv
<1>6. ExpiredInv'
  <2>1. IF ticks_reload[running] > 0
        THEN magic[running] = "MAGIC1" /\ left[running] = ticks_reload[running]
        ELSE left[running] = NULL
    BY <1>1, <1>2 DEF ExpiredInv
  <2>2. \A t \in ToSet(list_autoreload') :
          /\ t \notin OnList /\ t # NULL /\ magic[t] = "MAGIC1"
          /\ ticks_reload[t] > 0 /\ left[t] = ticks_reload[t]
    <3>1. ASSUME NEW t \in Reloading
          PROVE  /\ t \notin OnList /\ t # NULL /\ magic[t] = "MAGIC1"
                 /\ ticks_reload[t] > 0 /\ left[t] = ticks_reload[t]
      <4>1. t \in Timer
        BY <1>2, Elements
      <4> QED BY <1>2, <4>1, TimerAssumption DEF ExpiredInv
    <3> QED BY <1>1, <1>2, <1>3, <2>1, <3>1
  <2>3. \A t \in Timer : left[t] # NULL => t \in OnList \cup ToSet(list_autoreload') \cup {NULL}
    BY <1>2, <1>3, <2>1 DEF ExpiredInv
  <2> QED BY <1>1, <1>3, <2>2, <2>3 DEF ExpiredInv
<1>7. WalkInv'
  BY <1>1, <1>2 DEF WalkInv
<1> QED BY <1>1, <1>2, <1>4, <1>5, <1>6, <1>7 DEF TimerInv

\* A turn of the second loop: the list is up to date, and so is ticks_rem of
\* the timer that is added to it.
LEMMA ReloadStep ==
    ASSUME TimerInv, timer_trigger_reload
    PROVE  TimerInv'
<1> USE DEF OnList, Reloading
<1> DEFINE t == Head(list_autoreload)
<1>1. /\ triggering /\ running = NULL /\ itr = NULL /\ list_autoreload # <<>>
      /\ ticks_rem' = [ticks_rem EXCEPT ![t] = ticks_reload[t]]
      /\ timer_list' = timer_add(timer_list, ticks_rem', t)
      /\ list_autoreload' = Tail(list_autoreload)
      /\ timer_tick_unsynch' = 0
      /\ UNCHANGED <<ticks_reload, magic, triggering, itr, running, left>>
  BY DEF timer_trigger_reload
<1>2. TimerTypeOK /\ ListInv /\ ExpiredInv /\ WalkInv /\ timer_list \in Seq(Timer)
      /\ left \in [Timer -> Int \cup {NULL}] /\ ticks_rem \in [Timer -> Ticks]
      /\ list_autoreload \in Seq(Timer) /\ IsInjective(list_autoreload)
      /\ ToSet(timer_list) \subseteq Timer /\ IsInjective(timer_list)
      /\ ToSet(list_autoreload) \subseteq Timer
  BY Elements DEF TimerInv, TimerTypeOK, ListInv, ExpiredInv
<1>3. /\ t \in Reloading /\ t \in Timer
      /\ list_autoreload' \in Seq(Timer) /\ IsInjective(list_autoreload')
      /\ ToSet(list_autoreload') = Reloading \ {t}
  BY <1>1, <1>2, TailElements
<1> HIDE DEF t
<1>4. /\ t \notin OnList /\ magic[t] = "MAGIC1" /\ ticks_reload[t] > 0
      /\ left[t] = ticks_reload[t] /\ ticks_reload[t] \in Ticks
  BY <1>2, <1>3 DEF ExpiredInv, TimerTypeOK
<1>5. /\ ticks_rem' \in [Timer -> Ticks] /\ ticks_rem'[t] = left[t]
      /\ \A o \in Timer \ {t} : ticks_rem'[o] = ticks_rem[o]
  BY <1>1, <1>2, <1>3, <1>4
<1>6. \A o \in OnList \cup {t} :
         magic[o] = "MAGIC1" /\ left[o] \in Nat /\ ticks_rem'[o] = left[o] /\ ticks_rem'[o] > 0
  <2>1. \A o \in OnList : magic[o] = "MAGIC1" /\ left[o] \in Nat /\ ticks_rem[o] > 0
    BY <1>2 DEF ListInv
  <2>2. \A o \in OnList : ticks_rem[o] = left[o]
    BY <1>1, <1>2 DEF WalkInv
  <2>3. left[t] \in Nat
    BY <1>4, TickRanges
  <2> QED BY <1>2, <1>4, <1>5, <2>1, <2>2, <2>3
<1>7. Sorted(timer_list, ticks_rem')
  <2>1. \A o \in OnList : left[o] \in Int /\ ticks_rem'[o] = left[o] + 0
    BY <1>6
  <2> QED BY <1>2, <2>1, SortedByBoth DEF ListInv
<1>8. /\ timer_list' \in Seq(Timer) /\ IsInjective(timer_list')
      /\ ToSet(timer_list') = OnList \cup {t} /\ Sorted(timer_list', ticks_rem')
  <2>1. ticks_rem' \in [Timer -> Int]
    BY <1>5, TickRanges
  <2>2. t \in Timer \ ToSet(timer_list)
    BY <1>3, <1>4
  <2>3. timer_list' = timer_add(timer_list, ticks_rem', t)
    BY <1>1
  <2> QED BY <1>2, <1>7, <2>1, <2>2, <2>3, AddSorts
<1>9. Sorted(timer_list', left)
  <2>1. \A o \in ToSet(timer_list') : ticks_rem'[o] \in Int /\ left[o] = ticks_rem'[o] + 0
    BY <1>6, <1>8
  <2> QED BY <1>8, <2>1, SortedByBoth
<1>10. TimerTypeOK'
  <2>1. 0 \in 0 .. (OS_TIMER_UNSYNCH_MAX + 1)
    BY TickRanges
  <2> QED BY <1>1, <1>2, <1>3, <1>5, <1>8, <2>1 DEF TimerTypeOK
<1>11. ListInv'
  <2>1. \A o \in Timer \ ToSet(timer_list') : ticks_rem'[o] = 0
    BY <1>2, <1>5, <1>8 DEF ListInv
  <2> QED BY <1>1, <1>6, <1>8, <1>9, <2>1 DEF ListInv
<1>12. ExpiredInv'
  <2>1. \A o \in Timer : left[o] # NULL =>
           o \in ToSet(timer_list') \cup ToSet(list_autoreload') \cup {NULL}
    BY <1>1, <1>2, <1>3, <1>8 DEF ExpiredInv
  <2>2. \A o \in ToSet(list_autoreload') : o \notin ToSet(timer_list')
    BY <1>2, <1>3, <1>8 DEF ExpiredInv
  <2> QED BY <1>1, <1>2, <1>3, <2>1, <2>2 DEF ExpiredInv
<1>13. WalkInv'
  <2>1. \A o \in ToSet(timer_list') : ticks_rem'[o] = left[o]
    BY <1>6, <1>8
  <2> QED BY <1>1, <2>1 DEF WalkInv
<1> QED BY <1>1, <1>2, <1>10, <1>11, <1>12, <1>13 DEF TimerInv

LEMMA EndStep ==
    ASSUME TimerInv, timer_trigger_end
    PROVE  TimerInv'
<1> USE DEF OnList, Reloading
<1>1. /\ triggering /\ running = NULL /\ itr = NULL /\ list_autoreload = <<>>
      /\ timer_tick_unsynch' = 0 /\ triggering' = FALSE
      /\ UNCHANGED <<timer_list, ticks_rem, ticks_reload, magic, itr, running,
                     list_autoreload, left>>
  BY DEF timer_trigger_end
<1>2. TimerTypeOK /\ ListInv /\ ExpiredInv /\ WalkInv
      /\ left \in [Timer -> Int \cup {NULL}]
  BY DEF TimerInv
<1>3. TimerTypeOK'
  <2>1. 0 \in 0 .. (OS_TIMER_UNSYNCH_MAX + 1)
    BY TickRanges
  <2> QED BY <1>1, <1>2, <2>1 DEF TimerTypeOK
<1>4. ListInv'
  BY <1>1, <1>2 DEF ListInv
<1>5. ExpiredInv'
  BY <1>1, <1>2 DEF ExpiredInv
<1>6. WalkInv'
  <2>1. \A o \in OnList : left[o] \in Nat /\ left[o] > 0 /\ ticks_rem[o] = left[o] + 0
    BY <1>1, <1>2 DEF ListInv, WalkInv
  <2>2. 0 <= OS_TIMER_UNSYNCH_MAX
    BY TickRanges
  <2> QED BY <1>1, <2>1, <2>2 DEF WalkInv
<1> QED BY <1>1, <1>2, <1>3, <1>4, <1>5, <1>6 DEF TimerInv

---------------------------------------------------------------------------
(* The theorems.                                                           *)

\* TimerInv is inductive.
LEMMA TimerInvInit ==
    ASSUME TimerInit PROVE TimerInv
<1> USE DEF OnList, Reloading
<1>1. /\ ToSet(<<>>) = {} /\ <<>> \in Seq(Timer) /\ Len(<<>>) = 0
      /\ IsInjective(<<>>)
  BY DEF ToSet, IsInjective
<1>2. 0 \in Ticks /\ 0 \in 0 .. (OS_TIMER_UNSYNCH_MAX + 1) /\ 0 <= OS_TIMER_UNSYNCH_MAX
  BY TickRanges DEF Ticks
<1>3. TimerTypeOK /\ left \in [Timer -> Int \cup {NULL}]
  BY <1>1, <1>2 DEF TimerInit, TimerTypeOK
<1>4. ListInv
  BY <1>1 DEF TimerInit, ListInv, Sorted
<1>5. ExpiredInv
  BY <1>1 DEF TimerInit, ExpiredInv
<1>6. WalkInv
  BY <1>1, <1>2 DEF TimerInit, WalkInv
<1> QED BY <1>3, <1>4, <1>5, <1>6 DEF TimerInv

LEMMA TimerInvNext ==
    ASSUME CallbacksBehave, TimerInv, [TimerNext]_timerVars
    PROVE  TimerInv'
<1>1. CASE TimerCreate
  BY <1>1, CreateStep DEF TimerCreate
<1>2. CASE TimerDestroy
  <2>1. PICK t \in Timer : os_timer_destroy(t)
    BY <1>2 DEF TimerDestroy
  <2>2. ticks_rem[t] = 0 \/ ticks_rem[t] > 0
    BY TickRanges DEF TimerInv, TimerTypeOK
  <2> QED BY <2>1, <2>2, DestroyIdle, DestroyActive
<1>3. CASE os_tick_timers
  BY <1>3, TickStep
<1>4. CASE timer_trigger_walk
  BY <1>4, WalkOn, WalkExpires
<1>5. CASE timer_trigger_called
  BY <1>5, CalledStep
<1>6. CASE timer_trigger_reload
  BY <1>6, ReloadStep
<1>7. CASE timer_trigger_end
  BY <1>7, EndStep
<1>8. CASE UNCHANGED timerVars
  BY <1>8 DEF timerVars, TimerInv, TimerTypeOK, ListInv, ExpiredInv, WalkInv, OnList, Reloading
<1> QED BY <1>1, <1>2, <1>3, <1>4, <1>5, <1>6, <1>7, <1>8 DEF TimerNext, timer_trigger

THEOREM TimerInvariant ==
    ASSUME CallbacksBehave PROVE TimerSpec => []TimerInv
<1>1. TimerInit => TimerInv
  BY TimerInvInit
<1>2. TimerInv /\ [TimerNext]_timerVars => TimerInv'
  BY TimerInvNext
<1> QED BY <1>1, <1>2, PTL DEF TimerSpec

\* The variables of os_timer.c keep their types; in particular ticks_rem,
\* which is unsigned, never wraps beyond os_ticks_t.
THEOREM TimerTypeCorrect ==
    ASSUME CallbacksBehave PROVE TimerSpec => []TimerTypeOK
<1>1. TimerInv => TimerTypeOK
  BY DEF TimerInv
<1> QED BY <1>1, TimerInvariant, PTL

\* Between ticks the list of timer_add is sorted by ticks_rem and holds no
\* timer that is due.
THEOREM ListStaysSorted ==
    ASSUME CallbacksBehave PROVE TimerSpec => []ListIsSorted
<1>1. ASSUME TimerInv PROVE ListIsSorted
  <2> SUFFICES ASSUME ~triggering
               PROVE  /\ IsInjective(timer_list)
                      /\ \A i, j \in DOMAIN timer_list :
                            i < j => ticks_rem[timer_list[i]] <= ticks_rem[timer_list[j]]
                      /\ \A t \in ToSet(timer_list) : ticks_rem[t] > timer_tick_unsynch
    BY DEF ListIsSorted
  <2>1. timer_list \in Seq(Timer) /\ IsInjective(timer_list) /\ Sorted(timer_list, left)
    BY <1>1 DEF TimerInv, TimerTypeOK, ListInv
  <2>2. timer_tick_unsynch \in Nat
    <3>1. OS_TIMER_UNSYNCH_MAX \in Nat
      BY TickRanges
    <3> QED BY <1>1, <3>1 DEF TimerInv, TimerTypeOK
  <2>3. \A t \in ToSet(timer_list) : /\ left[t] \in Nat /\ left[t] > 0
                                     /\ ticks_rem[t] = left[t] + timer_tick_unsynch
    BY <1>1 DEF TimerInv, ListInv, WalkInv, OnList
  <2>4. Sorted(timer_list, ticks_rem)
    BY <2>1, <2>2, <2>3, SortedByBoth
  <2>5. DOMAIN timer_list = 1 .. Len(timer_list)
    BY <2>1
  <2> QED BY <2>1, <2>2, <2>3, <2>4, <2>5 DEF Sorted
<1> QED BY <1>1, TimerInvariant, PTL

\* Only a turn of the walk calls a callback: that of a timer which is due and
\* was not destroyed.
LEMMA CallIsDue ==
    ASSUME TimerInv, [TimerNext]_timerVars, running = NULL, running' # NULL
    PROVE  left[running'] = 0 /\ magic[running'] = "MAGIC1"
<1>1. timer_trigger_walk
  BY DEF TimerNext, timer_trigger, TimerCreate, TimerDestroy, os_timer_create, os_timer_destroy,
         os_tick_timers, timer_trigger_called, timer_trigger_reload, timer_trigger_end, timerVars
<1>2. itr \in Timer /\ left[itr] \in Nat /\ ticks_rem' = [ticks_rem EXCEPT ![itr] = left[itr]]
      /\ itr # NULL /\ triggering
  BY <1>1, WalkBegins, TimerAssumption
<1>3. ticks_rem'[itr] = left[itr]
  BY <1>2 DEF TimerInv, TimerTypeOK
<1>4. ~(ticks_rem'[itr] > 0) /\ running' = itr
  BY <1>1 DEF timer_trigger_walk
<1>5. magic[itr] = "MAGIC1"
  BY <1>2 DEF TimerInv, WalkInv, ListInv
<1> QED BY <1>2, <1>3, <1>4, <1>5

\* Every timer expires exactly when it is due, however ticks accumulate in
\* timer_tick_unsynch and whatever timers come and go meanwhile.
THEOREM ExpiresOnTime ==
    ASSUME CallbacksBehave PROVE TimerSpec => OnTime
<1> DEFINE Called == running = NULL /\ running' # NULL => left[running'] = 0
           NoneDue == ~triggering => \A t \in Timer : left[t] # NULL => left[t] > 0
<1>1. TimerInv /\ [TimerNext]_timerVars => Called
  BY CallIsDue
<1>2. TimerInv => NoneDue
  <2> SUFFICES ASSUME TimerInv, ~triggering, NEW t \in Timer, left[t] # NULL
               PROVE  left[t] > 0
    OBVIOUS
  <2>1. running = NULL /\ list_autoreload = <<>> /\ \A o \in OnList : left[o] > 0
    BY DEF TimerInv, WalkInv
  <2>2. t \in OnList \cup ToSet(<<>>) \cup {NULL}
    BY <2>1 DEF TimerInv, ExpiredInv, Reloading
  <2>3. ToSet(<<>>) = {}
    BY DEF ToSet
  <2> QED BY <2>1, <2>2, <2>3, TimerAssumption
<1>3. TimerInv /\ [TimerNext]_timerVars => [Called /\ NoneDue]_timerVars
  BY <1>1, <1>2
<1> QED BY <1>3, TimerInvariant, PTL DEF TimerSpec, OnTime

\* No callback of a timer is called after os_timer_destroy.
THEOREM DestroyedStaysQuiet ==
    ASSUME CallbacksBehave PROVE TimerSpec => DestroyedNeverFires
<1>1. TimerInv /\ [TimerNext]_timerVars =>
          [running = NULL /\ running' # NULL => magic[running'] = "MAGIC1"]_timerVars
  BY CallIsDue
<1> QED BY <1>1, TimerInvariant, PTL DEF TimerSpec, DestroyedNeverFires
=============================================================================
