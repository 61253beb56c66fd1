-------------------------------- MODULE List ---------------------------------
(***************************************************************************)
(* The circular doubly linked lists of list.h, at the level of pointers.   *)
(* m is the memory: the next and prev field of every node.  A list is      *)
(* known by its head, a node like the others; an element that is on no     *)
(* list points at itself.                                                  *)
(*                                                                         *)
(* The other modules use sequences for lists.  Linked says when the nodes  *)
(* of m form a list with the elements of a sequence.                       *)
(***************************************************************************)
EXTENDS Integers, Sequences, SequencesExt

CONSTANTS Node, NULL

Memory == [next : [Node -> Node], prev : [Node -> Node]]

\* __list_put_in_between
put_in_between(m, elem, left, right) ==
    [m EXCEPT !.prev[right] = elem, !.next[elem] = right,
              !.prev[elem] = left,  !.next[left] = elem]

\* __list_connect_together
connect_together(m, left, right) ==
    [m EXCEPT !.prev[right] = left, !.next[left] = right]

list_init(m, l) == [m EXCEPT !.next[l] = l, !.prev[l] = l]

list_prepend(m, l, elem) == put_in_between(m, elem, l, m.next[l])

list_append(m, l, elem) == put_in_between(m, elem, m.prev[l], l)

list_put_after(m, itr, ele) == put_in_between(m, ele, itr, m.next[itr])

list_put_before(m, itr, ele) == put_in_between(m, ele, m.prev[itr], itr)

list_unlink(m, elem) == list_init(connect_together(m, m.prev[elem], m.next[elem]), elem)

list_is_empty(m, l) == m.next[l] = l

list_peekfirst(m, l) == IF m.next[l] = l THEN NULL ELSE m.next[l]

list_peeklast(m, l) == IF m.prev[l] = l THEN NULL ELSE m.prev[l]

\* The element and the memory behind it.
list_detachfirst(m, l) ==
    LET elem == m.next[l]
    IN  IF elem = l THEN [elem |-> NULL, m |-> m]
        ELSE [elem |-> elem, m |-> list_unlink(m, elem)]

---------------------------------------------------------------------------
\* The i-th node of the circle of head h and elements s; h is both ends.
Nth(h, s, i) == IF i \in 1 .. Len(s) THEN s[i] ELSE h

\* The nodes of the list.
Nodes(h, s) == {h} \cup {s[i] : i \in 1 .. Len(s)}

\* The nodes of m form the list of head h and elements s.
Linked(m, h, s) ==
    /\ s \in Seq(Node \ {h})
    /\ \A i, j \in 1 .. Len(s) : s[i] = s[j] => i = j
    /\ \A i \in 0 .. Len(s) :
          /\ m.next[Nth(h, s, i)] = Nth(h, s, i + 1)
          /\ m.prev[Nth(h, s, i + 1)] = Nth(h, s, i)
=============================================================================
