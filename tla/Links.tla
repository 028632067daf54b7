------------------------------- MODULE Links -------------------------------
(***************************************************************************)
(* The intrusive lists of the kernel at the level of their pointers        *)
(* (include/ask/col/slist.h and dlist.h).  A list is its head, its tail    *)
(* and its length; the links are the next fields of the elements, which    *)
(* all lists share that an element may be in.  No operation modelled here  *)
(* reads a prev field.                                                     *)
(***************************************************************************)
EXTENDS Integers, Sequences

CONSTANT Null   \* nullptr

EmptyList == [head |-> Null, tail |-> Null, len |-> 0]

(* append, of both kinds of list: the list and the links afterwards.       *)
Appended(l, e) ==
  [head |-> IF l.head = Null THEN e ELSE l.head, tail |-> e, len |-> l.len + 1]

AppendedLinks(l, nx, e) ==
  [IF l.head = Null THEN nx ELSE [nx EXCEPT ![l.tail] = e] EXCEPT ![e] = Null]

(* SList::removeAt for e behind p (Null: e is the head).                   *)
RemovedAt(l, nx, p, e) ==
  [head |-> IF p = Null THEN nx[e] ELSE l.head,
   tail |-> IF nx[e] = Null THEN p ELSE l.tail,
   len  |-> l.len - 1]

RemovedAtLinks(nx, p, e) == IF p = Null THEN nx ELSE [nx EXCEPT ![p] = nx[e]]

(* DList::removeFirst of a list that is not empty.                         *)
Popped(l, nx) ==
  [head |-> nx[l.head],
   tail |-> IF l.head = l.tail THEN Null ELSE l.tail,
   len  |-> l.len - 1]

(* The elements reached from the head within n links, in order.            *)
Chain(l, nx, n) ==
  LET from[i \in 0 .. n] ==
        IF i = 0 \/ l.head = Null
          THEN << >>
          ELSE IF i = 1
                 THEN << l.head >>
                 ELSE LET c == from[i - 1]
                          last == c[Len(c)]
                      IN  IF Len(c) < i - 1 \/ nx[last] = Null
                            THEN c
                            ELSE Append(c, nx[last])
  IN  from[n]

(* Sequence s is what list l stands for under the links nx.                *)
Represents(s, l, nx) ==
  /\ l.len = Len(s)
  /\ IF s = << >>
       THEN l.head = Null /\ l.tail = Null
       ELSE /\ l.head = s[1] /\ l.tail = s[Len(s)]
            /\ nx[s[Len(s)]] = Null
            /\ \A i \in 1 .. Len(s) - 1 : nx[s[i]] = s[i + 1]
=============================================================================
