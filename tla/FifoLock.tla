------------------------------ MODULE FifoLock ------------------------------
(***************************************************************************)
(* What a mutex promises its users: one owner at a time, and those who     *)
(* have to wait get the lock in the order of their arrival, handed over by *)
(* the one who leaves.                                                     *)
(***************************************************************************)
EXTENDS Sequences

CONSTANTS Thread, Nobody

VARIABLES owner, queue

Init == owner = Nobody /\ queue = << >>

Enter(t) ==
  /\ owner = Nobody
  /\ owner' = t
  /\ UNCHANGED queue

Queue(t) ==
  /\ owner # Nobody
  /\ queue' = Append(queue, t)
  /\ UNCHANGED owner

Leave ==
  /\ owner # Nobody
  /\ IF queue = << >>
       THEN owner' = Nobody /\ UNCHANGED queue
       ELSE owner' = Head(queue) /\ queue' = Tail(queue)

Next == Leave \/ \E t \in Thread : Enter(t) \/ Queue(t)

Spec == Init /\ [][Next]_<<owner, queue>>
=============================================================================
