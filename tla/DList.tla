------------------------------- MODULE DList -------------------------------
(***************************************************************************)
(* The doubly linked list of include/ask/col/dlist.h: the ready queues and *)
(* the event lists of the scheduler are DLists of threads.  A list that    *)
(* holds every element at most once is a sequence of its elements.         *)
(***************************************************************************)
EXTENDS Integers, Sequences

(* The element e is linked into the list s.                                *)
InList(s, e) == \E i \in 1 .. Len(s) : s[i] = e

(* No element occurs twice in s: the links live in the elements, so this   *)
(* is what every list operation relies on.                                 *)
Distinct(s) == \A i, j \in 1 .. Len(s) : s[i] = s[j] => i = j

(* The place of e in s.                                                    *)
Place(s, e) == CHOOSE i \in 1 .. Len(s) : s[i] = e

(* DList::remove: unlinks e, keeping the order of the others.              *)
Unlink(s, e) ==
  IF InList(s, e)
    THEN LET k == Place(s, e)
         IN  [i \in 1 .. (Len(s) - 1) |-> IF i < k THEN s[i] ELSE s[i + 1]]
    ELSE s
=============================================================================
