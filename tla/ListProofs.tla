----------------------------- MODULE ListProofs ------------------------------
(***************************************************************************)
(* Lists of pointers behave like sequences: an operation on one list does  *)
(* to its sequence what its name says, and nothing to any other list.      *)
(***************************************************************************)
EXTENDS List, TLAPS, SequenceTheorems

\* r is s with e inserted at position i, element by element.
IsInsertion(r, s, i, e) ==
    /\ Len(r) = Len(s) + 1
    /\ \A j \in 1 .. (Len(s) + 1) : r[j] = IF j < i THEN s[j] ELSE IF j = i THEN e ELSE s[j - 1]

\* r is s without its element at position i.
IsRemoval(r, s, i) ==
    /\ Len(r) = Len(s) - 1
    /\ \A j \in 1 .. (Len(s) - 1) : r[j] = IF j < i THEN s[j] ELSE s[j + 1]

\* What InsertAt and RemoveAt of the library do.
LEMMA InsertAtElements ==
    ASSUME NEW S, NEW s \in Seq(S), NEW e \in S, NEW i \in 1 .. (Len(s) + 1)
    PROVE  InsertAt(s, i, e) \in Seq(S) /\ IsInsertion(InsertAt(s, i, e), s, i, e)
<1> DEFINE a == SubSeq(s, 1, i - 1)
           b == SubSeq(s, i, Len(s))
           c == a \o <<e>>
<1>1. /\ a \in Seq(S) /\ Len(a) = i - 1
      /\ \A j \in 1 .. (i - 1) : a[j] = s[j]
    BY SubSeqProperties
<1>2. /\ b \in Seq(S) /\ Len(b) = Len(s) + 1 - i
      /\ \A j \in 1 .. (Len(s) + 1 - i) : b[j] = s[i + j - 1]
    BY SubSeqProperties
<1>3. InsertAt(s, i, e) = c \o b
    BY DEF InsertAt
<1>4. <<e>> \in Seq(S) /\ Len(<<e>>) = 1 /\ <<e>>[1] = e
    OBVIOUS
<1> HIDE DEF a, b
<1>5. /\ c \in Seq(S) /\ Len(c) = i
      /\ \A j \in 1 .. i : c[j] = IF j < i THEN s[j] ELSE e
    BY <1>1, <1>4, ConcatProperties
<1> HIDE DEF c
<1>6. /\ c \o b \in Seq(S) /\ Len(c \o b) = Len(s) + 1
      /\ \A j \in 1 .. (Len(s) + 1) : (c \o b)[j] = IF j <= i THEN c[j] ELSE b[j - i]
    BY <1>2, <1>5, ConcatProperties
<1>7. ASSUME NEW j \in 1 .. (Len(s) + 1)
      PROVE  (c \o b)[j] = IF j < i THEN s[j] ELSE IF j = i THEN e ELSE s[j - 1]
    <2>1. CASE j <= i
        BY <2>1, <1>5, <1>6
    <2>2. CASE ~(j <= i)
        <3>1. j - i \in 1 .. (Len(s) + 1 - i) /\ i + (j - i) - 1 = j - 1
            BY <2>2
        <3> QED BY <2>2, <3>1, <1>2, <1>6
    <2> QED BY <2>1, <2>2
<1> QED
    BY <1>3, <1>6, <1>7 DEF IsInsertion

LEMMA RemoveAtElements ==
    ASSUME NEW S, NEW s \in Seq(S), NEW i \in 1 .. Len(s)
    PROVE  RemoveAt(s, i) \in Seq(S) /\ IsRemoval(RemoveAt(s, i), s, i)
<1> DEFINE a == SubSeq(s, 1, i - 1)
           b == SubSeq(s, i + 1, Len(s))
<1>1. /\ a \in Seq(S) /\ Len(a) = i - 1
      /\ \A j \in 1 .. (i - 1) : a[j] = s[j]
    BY SubSeqProperties
<1>2. /\ b \in Seq(S) /\ Len(b) = Len(s) - i
      /\ \A j \in 1 .. (Len(s) - i) : b[j] = s[i + j]
    BY SubSeqProperties
<1>3. RemoveAt(s, i) = a \o b
    BY DEF RemoveAt
<1> HIDE DEF a, b
<1>4. /\ a \o b \in Seq(S) /\ Len(a \o b) = Len(s) - 1
      /\ \A j \in 1 .. (Len(s) - 1) : (a \o b)[j] = IF j <= i - 1 THEN a[j] ELSE b[j - (i - 1)]
    <2>1. Len(a) + Len(b) = Len(s) - 1
        BY <1>1, <1>2
    <2>2. /\ a \o b \in Seq(S)
          /\ Len(a \o b) = Len(a) + Len(b)
          /\ \A j \in 1 .. (Len(a) + Len(b)) :
                (a \o b)[j] = IF j <= Len(a) THEN a[j] ELSE b[j - Len(a)]
        BY <1>1, <1>2, ConcatProperties
    <2> QED BY <2>1, <2>2, <1>1
<1>5. ASSUME NEW j \in 1 .. (Len(s) - 1)
      PROVE  (a \o b)[j] = IF j < i THEN s[j] ELSE s[j + 1]
    <2>1. CASE j < i
        BY <2>1, <1>1, <1>4
    <2>2. CASE ~(j < i)
        <3>1. j - (i - 1) \in 1 .. (Len(s) - i) /\ i + (j - (i - 1)) = j + 1
            BY <2>2
        <3> QED BY <2>2, <3>1, <1>2, <1>4
    <2> QED BY <2>1, <2>2
<1> QED
    BY <1>3, <1>4, <1>5 DEF IsRemoval

---------------------------------------------------------------------------
(* Insertion and removal in the middle, from which the others follow.      *)

\* An element put between two neighbours of a list is inserted there.
LEMMA PutInBetween ==
    ASSUME NEW m \in Memory, NEW h \in Node, NEW s, Linked(m, h, s),
           NEW e \in Node \ Nodes(h, s), NEW i \in 0 .. Len(s)
    PROVE  Linked(put_in_between(m, e, Nth(h, s, i), Nth(h, s, i + 1)),
                  h, InsertAt(s, i + 1, e))
<1> DEFINE left  == Nth(h, s, i)
           right == Nth(h, s, i + 1)
           n == put_in_between(m, e, left, right)
           r == InsertAt(s, i + 1, e)
<1>0. s \in Seq(Node \ {h}) /\ Len(s) \in Nat /\ e \in Node \ {h}
    BY DEF Linked, Nodes
<1>1. /\ r \in Seq(Node \ {h}) /\ Len(r) = Len(s) + 1
      /\ \A j \in 1 .. (Len(s) + 1) :
            r[j] = IF j < i + 1 THEN s[j] ELSE IF j = i + 1 THEN e ELSE s[j - 1]
    <2>1. PICK S, p : S = Node \ {h} /\ p = i + 1
        OBVIOUS
    <2>2. s \in Seq(S) /\ e \in S /\ p \in 1 .. (Len(s) + 1)
        BY <1>0, <2>1
    <2>3. InsertAt(s, p, e) \in Seq(S) /\ IsInsertion(InsertAt(s, p, e), s, p, e)
        BY ONLY <2>2, InsertAtElements
    <2> QED BY <2>1, <2>3 DEF IsInsertion
<1> HIDE DEF r
<1>2. \A j, k \in 1 .. Len(r) : r[j] = r[k] => j = k
    <2> SUFFICES ASSUME NEW j \in 1 .. Len(r), NEW k \in 1 .. Len(r), r[j] = r[k]
                 PROVE  j = k
        OBVIOUS
    <2>1. \A x, y \in 1 .. Len(s) : s[x] = s[y] => x = y
        BY DEF Linked
    <2>2. \A x \in 1 .. Len(s) : s[x] # e
        BY DEF Nodes
    <2> HIDE DEF n, left, right
    <2>3. CASE j = i + 1 \/ k = i + 1
        <3>1. \A x \in 1 .. Len(r) : x # i + 1 => r[x] # e
            <4> SUFFICES ASSUME NEW x \in 1 .. Len(r), x # i + 1
                         PROVE  r[x] # e
                OBVIOUS
            <4>1. CASE x < i + 1
                BY <4>1, <2>2, <1>0, <1>1
            <4>2. CASE x > i + 1
                <5>1. x - 1 \in 1 .. Len(s) /\ r[x] = s[x - 1]
                    BY <4>2, <1>0, <1>1
                <5> QED BY <5>1, <2>2
            <4> QED BY <4>1, <4>2, <1>0
        <3>2. r[i + 1] = e
            BY <1>0, <1>1
        <3> QED BY <2>3, <3>1, <3>2
    <2>4. CASE j # i + 1 /\ k # i + 1
        <3>1. PICK x \in 1 .. Len(s) : r[j] = s[x] /\ x = IF j < i + 1 THEN j ELSE j - 1
            BY <2>4, <1>0, <1>1
        <3>2. PICK y \in 1 .. Len(s) : r[k] = s[y] /\ y = IF k < i + 1 THEN k ELSE k - 1
            BY <2>4, <1>0, <1>1
        <3>3. x = y
            BY <2>1, <3>1, <3>2
        <3> QED BY <3>1, <3>2, <3>3, <2>4, <1>0, <1>1
    <2> QED BY <2>3, <2>4
<1>3. \A j \in 0 .. (Len(s) + 2) :
         Nth(h, r, j) = IF j <= i THEN Nth(h, s, j)
                        ELSE IF j = i + 1 THEN e ELSE Nth(h, s, j - 1)
    BY <1>0, <1>1 DEF Nth
<1>4. \A j \in 0 .. (Len(s) + 1) : Nth(h, s, j) \in Node /\ Nth(h, s, j) # e
    BY <1>0 DEF Nth, Nodes
<1>5. \A j, k \in 0 .. Len(s) : Nth(h, s, j) = Nth(h, s, k) => j = k
    BY <1>0 DEF Nth, Linked
<1>6. \A j, k \in 1 .. (Len(s) + 1) : Nth(h, s, j) = Nth(h, s, k) => j = k
    BY <1>0 DEF Nth, Linked
<1>7. \A j \in 0 .. Len(s) : /\ m.next[Nth(h, s, j)] = Nth(h, s, j + 1)
                             /\ m.prev[Nth(h, s, j + 1)] = Nth(h, s, j)
    BY DEF Linked
<1>8. left \in Node /\ right \in Node /\ left # e /\ right # e
    BY <1>4
<1>9. /\ n.next[left] = e /\ n.next[e] = right
      /\ n.prev[right] = e /\ n.prev[e] = left
      /\ \A x \in Node \ {e, left} : n.next[x] = m.next[x]
      /\ \A x \in Node \ {e, right} : n.prev[x] = m.prev[x]
    BY <1>8 DEF put_in_between, Memory
<1> HIDE DEF n
<1>10. ASSUME NEW j \in 0 .. Len(r)
       PROVE  /\ n.next[Nth(h, r, j)] = Nth(h, r, j + 1)
              /\ n.prev[Nth(h, r, j + 1)] = Nth(h, r, j)
    <2>1. CASE j < i
        <3>1. j \in 0 .. Len(s) /\ j + 1 \in 1 .. (Len(s) + 1) /\ j # i /\ j + 1 # i + 1
            BY <2>1, <1>0
        <3>2. Nth(h, s, j) # left /\ Nth(h, s, j + 1) # right
            BY <3>1, <1>0, <1>5, <1>6
        <3>3. Nth(h, r, j) = Nth(h, s, j) /\ Nth(h, r, j + 1) = Nth(h, s, j + 1)
            BY <2>1, <1>0, <1>3
        <3>4. Nth(h, s, j) \in Node \ {e, left} /\ Nth(h, s, j + 1) \in Node \ {e, right}
            BY <3>1, <3>2, <1>0, <1>4
        <3>5. m.next[Nth(h, s, j)] = Nth(h, s, j + 1) /\ m.prev[Nth(h, s, j + 1)] = Nth(h, s, j)
            BY <3>1, <1>7
        <3>6. /\ n.next[Nth(h, s, j)] = m.next[Nth(h, s, j)]
              /\ n.prev[Nth(h, s, j + 1)] = m.prev[Nth(h, s, j + 1)]
            BY ONLY <3>4, <1>9
        <3> QED BY ONLY <3>3, <3>5, <3>6
    <2>2. CASE j = i
        <3>1. Nth(h, r, j) = left /\ Nth(h, r, j + 1) = e
            BY <2>2, <1>0, <1>3
        <3> QED BY <3>1, <1>9
    <2>3. CASE j = i + 1
        <3>1. Nth(h, r, j) = e /\ Nth(h, r, j + 1) = right
            BY <2>3, <1>0, <1>3
        <3> QED BY <3>1, <1>9
    <2>4. CASE j > i + 1
        <3>1. j - 1 \in 0 .. Len(s) /\ j \in 1 .. (Len(s) + 1) /\ j - 1 # i /\ j # i + 1
              /\ (j - 1) + 1 = j
            BY <2>4, <1>0, <1>1
        <3>2. Nth(h, s, j - 1) # left /\ Nth(h, s, j) # right
            BY <3>1, <1>0, <1>5, <1>6
        <3>3. Nth(h, r, j) = Nth(h, s, j - 1) /\ Nth(h, r, j + 1) = Nth(h, s, j)
            BY <2>4, <1>0, <1>1, <1>3
        <3>4. Nth(h, s, j - 1) \in Node \ {e, left} /\ Nth(h, s, j) \in Node \ {e, right}
            BY <3>1, <3>2, <1>0, <1>4
        <3>5. m.next[Nth(h, s, j - 1)] = Nth(h, s, j) /\ m.prev[Nth(h, s, j)] = Nth(h, s, j - 1)
            BY <3>1, <1>7
        <3>6. /\ n.next[Nth(h, s, j - 1)] = m.next[Nth(h, s, j - 1)]
              /\ n.prev[Nth(h, s, j)] = m.prev[Nth(h, s, j)]
            BY ONLY <3>4, <1>9
        <3> QED BY ONLY <3>3, <3>5, <3>6
    <2> QED BY <2>1, <2>2, <2>3, <2>4, <1>0
<1> QED
    BY <1>1, <1>2, <1>10 DEF Linked, n, r

\* An element that is unlinked leaves its list, and points at itself.
LEMMA Unlink ==
    ASSUME NEW m \in Memory, NEW h \in Node, NEW s, Linked(m, h, s), NEW i \in 1 .. Len(s)
    PROVE  /\ Linked(list_unlink(m, s[i]), h, RemoveAt(s, i))
           /\ list_is_empty(list_unlink(m, s[i]), s[i])
<1> DEFINE e     == s[i]
           left  == Nth(h, s, i - 1)
           right == Nth(h, s, i + 1)
           n == list_unlink(m, e)
           r == RemoveAt(s, i)
<1>0. s \in Seq(Node \ {h}) /\ Len(s) \in Nat /\ e \in Node \ {h} /\ e = Nth(h, s, i)
    BY DEF Linked, Nth
<1>1. /\ r \in Seq(Node \ {h}) /\ Len(r) = Len(s) - 1
      /\ \A j \in 1 .. (Len(s) - 1) : r[j] = IF j < i THEN s[j] ELSE s[j + 1]
    <2>1. PICK S : S = Node \ {h}
        OBVIOUS
    <2>2. s \in Seq(S)
        BY <1>0, <2>1
    <2>3. RemoveAt(s, i) \in Seq(S) /\ IsRemoval(RemoveAt(s, i), s, i)
        BY ONLY <2>2, RemoveAtElements, i \in 1 .. Len(s)
    <2> QED BY <2>1, <2>3 DEF IsRemoval
<1> HIDE DEF r
<1>2. \A j, k \in 1 .. Len(r) : r[j] = r[k] => j = k
    <2> SUFFICES ASSUME NEW j \in 1 .. Len(r), NEW k \in 1 .. Len(r), r[j] = r[k]
                 PROVE  j = k
        OBVIOUS
    <2>1. \A x, y \in 1 .. Len(s) : s[x] = s[y] => x = y
        BY DEF Linked
    <2> HIDE DEF n, left, right, e
    <2>2. PICK x \in 1 .. Len(s) : r[j] = s[x] /\ x = IF j < i THEN j ELSE j + 1
        BY <1>0, <1>1
    <2>3. PICK y \in 1 .. Len(s) : r[k] = s[y] /\ y = IF k < i THEN k ELSE k + 1
        BY <1>0, <1>1
    <2>4. x = y
        BY <2>1, <2>2, <2>3
    <2> QED BY <2>2, <2>3, <2>4, <1>0, <1>1
<1>3. \A j \in 0 .. Len(s) : Nth(h, r, j) = IF j < i THEN Nth(h, s, j) ELSE Nth(h, s, j + 1)
    BY <1>0, <1>1 DEF Nth
<1>4. \A j \in 0 .. (Len(s) + 1) : Nth(h, s, j) \in Node
    BY <1>0 DEF Nth
<1>5. \A j, k \in 0 .. Len(s) : Nth(h, s, j) = Nth(h, s, k) => j = k
    BY <1>0 DEF Nth, Linked
<1>6. \A j, k \in 1 .. (Len(s) + 1) : Nth(h, s, j) = Nth(h, s, k) => j = k
    BY <1>0 DEF Nth, Linked
<1>7. \A j \in 0 .. Len(s) : /\ m.next[Nth(h, s, j)] = Nth(h, s, j + 1)
                             /\ m.prev[Nth(h, s, j + 1)] = Nth(h, s, j)
    BY DEF Linked
<1>8. left \in Node /\ right \in Node /\ left # e /\ right # e
    <2>1. /\ i - 1 \in 0 .. Len(s) /\ i \in 0 .. Len(s) /\ i - 1 # i
          /\ i + 1 \in 1 .. (Len(s) + 1) /\ i \in 1 .. (Len(s) + 1) /\ i + 1 # i
          /\ i - 1 \in 0 .. (Len(s) + 1) /\ i + 1 \in 0 .. (Len(s) + 1)
        BY <1>0
    <2> QED BY <2>1, <1>0, <1>4, <1>5, <1>6
<1>9. m.prev[e] = left /\ m.next[e] = right
    <2>1. i - 1 \in 0 .. Len(s) /\ (i - 1) + 1 = i /\ i \in 0 .. Len(s)
        BY <1>0
    <2> QED BY <2>1, <1>0, <1>7
<1>10. /\ n.next[left] = right /\ n.prev[right] = left /\ n.next[e] = e
       /\ \A x \in Node \ {e, left} : n.next[x] = m.next[x]
       /\ \A x \in Node \ {e, right} : n.prev[x] = m.prev[x]
    BY <1>0, <1>8, <1>9 DEF list_unlink, list_init, connect_together, Memory
<1> HIDE DEF n
<1>11. ASSUME NEW j \in 0 .. Len(r)
       PROVE  /\ n.next[Nth(h, r, j)] = Nth(h, r, j + 1)
              /\ n.prev[Nth(h, r, j + 1)] = Nth(h, r, j)
    <2>1. CASE j < i - 1
        <3>1. /\ j \in 0 .. Len(s) /\ j + 1 \in 1 .. (Len(s) + 1)
              /\ i - 1 \in 0 .. Len(s) /\ i \in 0 .. Len(s) /\ i \in 1 .. (Len(s) + 1)
              /\ i + 1 \in 1 .. (Len(s) + 1)
              /\ j # i - 1 /\ j # i /\ j + 1 # i /\ j + 1 # i + 1
            BY <2>1, <1>0
        <3>2. /\ Nth(h, s, j) # left /\ Nth(h, s, j) # e
              /\ Nth(h, s, j + 1) # right /\ Nth(h, s, j + 1) # e
            BY <3>1, <1>0, <1>5, <1>6
        <3>3. Nth(h, r, j) = Nth(h, s, j) /\ Nth(h, r, j + 1) = Nth(h, s, j + 1)
            BY <2>1, <1>0, <1>3
        <3>4. Nth(h, s, j) \in Node \ {e, left} /\ Nth(h, s, j + 1) \in Node \ {e, right}
            BY <3>1, <3>2, <1>0, <1>4
        <3>5. m.next[Nth(h, s, j)] = Nth(h, s, j + 1) /\ m.prev[Nth(h, s, j + 1)] = Nth(h, s, j)
            BY <3>1, <1>7
        <3>6. /\ n.next[Nth(h, s, j)] = m.next[Nth(h, s, j)]
              /\ n.prev[Nth(h, s, j + 1)] = m.prev[Nth(h, s, j + 1)]
            BY ONLY <3>4, <1>10
        <3> QED BY ONLY <3>3, <3>5, <3>6
    <2>2. CASE j = i - 1
        <3>1. Nth(h, r, j) = left /\ Nth(h, r, j + 1) = right
            BY <2>2, <1>0, <1>3
        <3> QED BY <3>1, <1>10
    <2>3. CASE j > i - 1
        <3>1. /\ j + 1 \in 0 .. Len(s) /\ j + 2 \in 1 .. (Len(s) + 1) /\ (j + 1) + 1 = j + 2
              /\ i - 1 \in 0 .. Len(s) /\ i \in 0 .. Len(s) /\ i \in 1 .. (Len(s) + 1)
              /\ i + 1 \in 1 .. (Len(s) + 1)
              /\ j + 1 # i - 1 /\ j + 1 # i /\ j + 2 # i /\ j + 2 # i + 1
            BY <2>3, <1>0, <1>1
        <3>2. /\ Nth(h, s, j + 1) # left /\ Nth(h, s, j + 1) # e
              /\ Nth(h, s, j + 2) # right /\ Nth(h, s, j + 2) # e
            BY <3>1, <1>0, <1>5, <1>6
        <3>3. Nth(h, r, j) = Nth(h, s, j + 1) /\ Nth(h, r, j + 1) = Nth(h, s, j + 2)
            BY <2>3, <1>0, <1>1, <1>3
        <3>4. Nth(h, s, j + 1) \in Node \ {e, left} /\ Nth(h, s, j + 2) \in Node \ {e, right}
            BY <3>1, <3>2, <1>0, <1>4
        <3>5. m.next[Nth(h, s, j + 1)] = Nth(h, s, j + 2) /\ m.prev[Nth(h, s, j + 2)] = Nth(h, s, j + 1)
            BY <3>1, <1>7
        <3>6. /\ n.next[Nth(h, s, j + 1)] = m.next[Nth(h, s, j + 1)]
              /\ n.prev[Nth(h, s, j + 2)] = m.prev[Nth(h, s, j + 2)]
            BY ONLY <3>4, <1>10
        <3> QED BY ONLY <3>3, <3>5, <3>6
    <2> QED BY <2>1, <2>2, <2>3, <1>0
<1> QED
    BY <1>1, <1>2, <1>10, <1>11 DEF Linked, n, r, list_is_empty

---------------------------------------------------------------------------
(* The functions of list.h.                                                *)

\* list_init makes an empty list, whatever the memory held.
THEOREM InitIsEmpty ==
    ASSUME NEW m \in Memory, NEW h \in Node
    PROVE  Linked(list_init(m, h), h, <<>>)
BY DEF Linked, list_init, Memory, Nth

\* list_is_empty, list_peekfirst and list_peeklast tell the sequence's truth.
THEOREM PeekSeesTheEnds ==
    ASSUME NEW m \in Memory, NEW h \in Node, NEW s, Linked(m, h, s)
    PROVE  /\ list_is_empty(m, h) <=> s = <<>>
           /\ list_peekfirst(m, h) = IF s = <<>> THEN NULL ELSE s[1]
           /\ list_peeklast(m, h) = IF s = <<>> THEN NULL ELSE s[Len(s)]
<1>1. s \in Seq(Node \ {h}) /\ Len(s) \in Nat
    BY DEF Linked
<1>2. CASE s = <<>>
    <2>1. m.next[h] = h /\ m.prev[h] = h
        BY <1>2 DEF Linked, Nth
    <2> QED BY <1>2, <2>1 DEF list_is_empty, list_peekfirst, list_peeklast
<1>3. CASE s # <<>>
    <2>1. Len(s) \in 1 .. Len(s) /\ 1 \in 1 .. Len(s) /\ 0 \in 0 .. Len(s) /\ Len(s) \in 0 .. Len(s)
        BY <1>1, <1>3
    <2>2. m.next[h] = s[1] /\ m.prev[h] = s[Len(s)]
        <3>1. /\ Nth(h, s, 0) = h /\ Nth(h, s, 1) = s[1] /\ 0 + 1 = 1
              /\ Nth(h, s, Len(s)) = s[Len(s)] /\ Nth(h, s, Len(s) + 1) = h
            BY <1>1, <2>1 DEF Nth
        <3>2. m.next[Nth(h, s, 0)] = Nth(h, s, 0 + 1) /\ m.prev[Nth(h, s, Len(s) + 1)] = Nth(h, s, Len(s))
            BY <2>1 DEF Linked
        <3> QED BY <3>1, <3>2
    <2>3. s[1] # h /\ s[Len(s)] # h
        BY <1>1, <2>1
    <2> QED BY <1>3, <2>2, <2>3 DEF list_is_empty, list_peekfirst, list_peeklast
<1> QED BY <1>2, <1>3

\* list_put_after and list_put_before, with an element or the head as
\* iterator; list_append and list_prepend are those of the head.
THEOREM PutInserts ==
    ASSUME NEW m \in Memory, NEW h \in Node, NEW s, Linked(m, h, s),
           NEW e \in Node \ Nodes(h, s), NEW i \in 0 .. Len(s)
    PROVE  /\ Linked(list_put_after(m, Nth(h, s, i), e), h, InsertAt(s, i + 1, e))
           /\ Linked(list_put_before(m, Nth(h, s, i + 1), e), h, InsertAt(s, i + 1, e))
<1>1. m.next[Nth(h, s, i)] = Nth(h, s, i + 1) /\ m.prev[Nth(h, s, i + 1)] = Nth(h, s, i)
    BY DEF Linked
<1>2. Linked(put_in_between(m, e, Nth(h, s, i), Nth(h, s, i + 1)), h, InsertAt(s, i + 1, e))
    BY PutInBetween
<1> QED BY <1>1, <1>2 DEF list_put_after, list_put_before

\* list_append adds at the end, which makes the queues first in first out.
THEOREM AppendAppends ==
    ASSUME NEW m \in Memory, NEW h \in Node, NEW s, Linked(m, h, s),
           NEW e \in Node \ Nodes(h, s)
    PROVE  Linked(list_append(m, h, e), h, Append(s, e))
<1>1. s \in Seq(Node \ {h}) /\ Len(s) \in Nat
    BY DEF Linked
<1>2. Nth(h, s, Len(s) + 1) = h /\ Len(s) \in 0 .. Len(s)
    BY <1>1 DEF Nth
<1>3. Linked(list_append(m, h, e), h, InsertAt(s, Len(s) + 1, e))
    BY <1>2, PutInserts DEF list_put_before, list_append
<1>4. InsertAt(s, Len(s) + 1, e) = Append(s, e)
    <2>1. SubSeq(s, 1, Len(s)) = s
        BY <1>1
    <2>2. SubSeq(s, Len(s) + 1, Len(s)) = <<>>
        BY <1>1, SubSeqEmpty
    <2>3. (s \o <<e>>) \o <<>> = Append(s, e)
        BY <1>1
    <2>4. (Len(s) + 1) - 1 = Len(s)
        BY <1>1
    <2> QED BY <2>1, <2>2, <2>3, <2>4 DEF InsertAt
<1> QED BY <1>3, <1>4

\* list_prepend adds in front.
THEOREM PrependPrepends ==
    ASSUME NEW m \in Memory, NEW h \in Node, NEW s, Linked(m, h, s),
           NEW e \in Node \ Nodes(h, s)
    PROVE  Linked(list_prepend(m, h, e), h, InsertAt(s, 1, e))
<1>1. 0 \in 0 .. Len(s) /\ Nth(h, s, 0) = h /\ 0 + 1 = 1
    BY DEF Linked, Nth
<1>2. Linked(list_put_after(m, Nth(h, s, 0), e), h, InsertAt(s, 0 + 1, e))
    BY <1>1, PutInserts
<1> QED BY <1>1, <1>2 DEF list_put_after, list_prepend

\* list_unlink takes out exactly its argument, which afterwards is on no list.
THEOREM UnlinkRemoves ==
    ASSUME NEW m \in Memory, NEW h \in Node, NEW s, Linked(m, h, s), NEW i \in 1 .. Len(s)
    PROVE  /\ Linked(list_unlink(m, s[i]), h, RemoveAt(s, i))
           /\ list_is_empty(list_unlink(m, s[i]), s[i])
BY Unlink

\* list_detachfirst takes the first element, or NULL from an empty list.
THEOREM DetachTakesFirst ==
    ASSUME NEW m \in Memory, NEW h \in Node, NEW s, Linked(m, h, s)
    PROVE  LET d == list_detachfirst(m, h)
           IN  IF s = <<>> THEN d = [elem |-> NULL, m |-> m]
               ELSE /\ d.elem = Head(s)
                    /\ Linked(d.m, h, Tail(s))
                    /\ list_is_empty(d.m, Head(s))
<1>1. s \in Seq(Node \ {h}) /\ Len(s) \in Nat
    BY DEF Linked
<1>2. CASE s = <<>>
    <2>1. m.next[h] = h
        BY <1>2, PeekSeesTheEnds DEF list_is_empty
    <2> QED BY <1>2, <2>1 DEF list_detachfirst
<1>3. CASE s # <<>>
    <2>1. 1 \in 1 .. Len(s) /\ Head(s) = s[1]
        BY <1>1, <1>3
    <2>2. m.next[h] = s[1] /\ s[1] # h
        BY <1>1, <1>3, <2>1 DEF Linked, Nth
    <2>3. RemoveAt(s, 1) = Tail(s)
        <3>1. SubSeq(s, 1, 0) = <<>> /\ 1 - 1 = 0 /\ 1 + 1 = 2
            BY SubSeqEmpty
        <3>2. SubSeq(s, 2, Len(s)) = Tail(s) /\ Tail(s) \in Seq(Node \ {h})
            BY <1>1, <1>3
        <3>3. <<>> \o Tail(s) = Tail(s)
            BY <3>2, ConcatEmptySeq
        <3> QED BY <3>1, <3>2, <3>3 DEF RemoveAt
    <2>4. /\ Linked(list_unlink(m, s[1]), h, RemoveAt(s, 1))
          /\ list_is_empty(list_unlink(m, s[1]), s[1])
        BY <2>1, Unlink
    <2>5. list_detachfirst(m, h) = [elem |-> s[1], m |-> list_unlink(m, s[1])]
        BY <2>2 DEF list_detachfirst
    <2>6. /\ list_detachfirst(m, h).elem = s[1]
          /\ list_detachfirst(m, h).m = list_unlink(m, s[1])
        BY <2>5
    <2>7. /\ Linked(list_detachfirst(m, h).m, h, Tail(s))
          /\ list_is_empty(list_detachfirst(m, h).m, Head(s))
        BY <2>1, <2>3, <2>4, <2>6, Zenon
    <2> QED BY <1>3, <2>1, <2>6, <2>7, Zenon
<1> QED BY <1>2, <1>3

\* Neither insertion nor removal touches a list that shares no node with the
\* one it works on: a task moved between queues disturbs no third one.
THEOREM OtherListsUntouched ==
    ASSUME NEW m \in Memory, NEW h \in Node, NEW s, Linked(m, h, s),
           NEW g \in Node, NEW r, Linked(m, g, r), Nodes(g, r) \cap Nodes(h, s) = {}
    PROVE  /\ \A e \in Node \ (Nodes(h, s) \cup Nodes(g, r)) :
                 /\ Linked(list_append(m, h, e), g, r)
                 /\ Linked(list_prepend(m, h, e), g, r)
           /\ \A i \in 1 .. Len(s) : Linked(list_unlink(m, s[i]), g, r)
<1>1. r \in Seq(Node \ {g}) /\ Len(r) \in Nat /\ s \in Seq(Node \ {h}) /\ Len(s) \in Nat
    BY DEF Linked
<1>2. \A j \in 0 .. (Len(r) + 1) : Nth(g, r, j) \in Nodes(g, r) /\ Nth(g, r, j) \in Node
    BY <1>1 DEF Nth, Nodes
<1>3. \A j \in 0 .. (Len(s) + 1) : Nth(h, s, j) \in Nodes(h, s) /\ Nth(h, s, j) \in Node
    BY <1>1 DEF Nth, Nodes
<1>4. ASSUME NEW n, \A x \in Nodes(g, r) : n.next[x] = m.next[x] /\ n.prev[x] = m.prev[x]
      PROVE  Linked(n, g, r)
    <2>1. ASSUME NEW j \in 0 .. Len(r)
          PROVE  /\ n.next[Nth(g, r, j)] = Nth(g, r, j + 1)
                 /\ n.prev[Nth(g, r, j + 1)] = Nth(g, r, j)
        <3>1. j \in 0 .. (Len(r) + 1) /\ j + 1 \in 0 .. (Len(r) + 1)
            BY <1>1
        <3>2. m.next[Nth(g, r, j)] = Nth(g, r, j + 1) /\ m.prev[Nth(g, r, j + 1)] = Nth(g, r, j)
            BY DEF Linked
        <3> QED BY <3>1, <3>2, <1>2, <1>4
    <2> QED BY <2>1, <1>1 DEF Linked
<1>5. /\ m.next[h] \in Nodes(h, s) /\ m.prev[h] \in Nodes(h, s) /\ h \in Nodes(h, s)
      /\ Nodes(h, s) \subseteq Node /\ Nodes(g, r) \subseteq Node
    <2>1. 0 \in 0 .. Len(s) /\ Len(s) \in 0 .. Len(s) /\ Nth(h, s, 0) = h
          /\ Nth(h, s, Len(s) + 1) = h /\ 0 + 1 \in 0 .. (Len(s) + 1)
          /\ Len(s) \in 0 .. (Len(s) + 1)
        BY <1>1 DEF Nth
    <2>2. m.next[h] = Nth(h, s, 0 + 1) /\ m.prev[h] = Nth(h, s, Len(s))
        BY <2>1 DEF Linked
    <2> QED BY <2>1, <2>2, <1>1, <1>3 DEF Nodes
<1>6. ASSUME NEW e \in Node \ (Nodes(h, s) \cup Nodes(g, r))
      PROVE  Linked(list_append(m, h, e), g, r) /\ Linked(list_prepend(m, h, e), g, r)
    <2>1. \A x \in Nodes(g, r) : /\ list_append(m, h, e).next[x] = m.next[x]
                                 /\ list_append(m, h, e).prev[x] = m.prev[x]
        BY <1>5 DEF list_append, put_in_between, Memory
    <2>2. \A x \in Nodes(g, r) : /\ list_prepend(m, h, e).next[x] = m.next[x]
                                 /\ list_prepend(m, h, e).prev[x] = m.prev[x]
        BY <1>5 DEF list_prepend, put_in_between, Memory
    <2> QED BY <2>1, <2>2, <1>4
<1>7. ASSUME NEW i \in 1 .. Len(s)
      PROVE  Linked(list_unlink(m, s[i]), g, r)
    <2>1. /\ i - 1 \in 0 .. Len(s) /\ i \in 0 .. Len(s) /\ (i - 1) + 1 = i
          /\ i - 1 \in 0 .. (Len(s) + 1) /\ i + 1 \in 0 .. (Len(s) + 1)
          /\ i \in 0 .. (Len(s) + 1) /\ Nth(h, s, i) = s[i]
        BY <1>1 DEF Nth
    <2>2. m.prev[s[i]] = Nth(h, s, i - 1) /\ m.next[s[i]] = Nth(h, s, i + 1)
        BY <2>1 DEF Linked
    <2>3. /\ s[i] \in Nodes(h, s) /\ m.prev[s[i]] \in Nodes(h, s) /\ m.next[s[i]] \in Nodes(h, s)
        BY <2>1, <2>2, <1>3
    <2>4. \A x \in Nodes(g, r) : /\ list_unlink(m, s[i]).next[x] = m.next[x]
                                 /\ list_unlink(m, s[i]).prev[x] = m.prev[x]
        BY <2>3, <1>5 DEF list_unlink, list_init, connect_together, Memory
    <2> QED BY <2>4, <1>4
<1> QED BY <1>6, <1>7
=============================================================================
