----------------------------- MODULE Deadlines ------------------------------
(***************************************************************************)
(* What the timer promises: every request has a remaining time of its own, *)
(* all of them run down together, and a request is served in the first     *)
(* tick in which its time is over.                                         *)
(***************************************************************************)
EXTENDS Integers, Sequences, SequencesExt

CONSTANTS Thread, Msecs, TimeInc

VARIABLES
  pending,   \* requests in the order in which they end: [tid, block, left]
  blocked    \* threads that wait, for a request or for something else

vars == <<pending, blocked>>

Init == pending = <<>> /\ blocked = {}

(* The first k requests are those that end within m. *)
FirstEnded(k, m) == {i \in DOMAIN pending : pending[i].left <= m} = 1 .. k

(* A new request comes behind those that end before it or with it. *)
Add(t, m, block) ==
  /\ \E k \in 0 .. Len(pending) :
       /\ FirstEnded(k, m)
       /\ pending' = InsertAt(pending, k + 1, [tid |-> t, block |-> block, left |-> m])
  /\ blocked' = IF block THEN blocked \cup {t} ELSE blocked

Drop(t) ==
  /\ \E i \in DOMAIN pending :
       pending[i].tid = t /\ pending' = RemoveAt(pending, i)
  /\ blocked' = blocked

(* A request to block ends with the end of the sleep; one for a signal     *)
(* wakes the thread if it handles the signal.                              *)
Tick ==
  \E k \in 0 .. Len(pending) :
    LET left  == SubSeq(pending, k + 1, Len(pending))
        woken == {pending[i].tid : i \in {j \in 1 .. k : pending[j].block}}
    IN  /\ FirstEnded(k, TimeInc)
        /\ pending' = [i \in DOMAIN left |-> [left[i] EXCEPT !.left = @ - TimeInc]]
        /\ \E alarmed \in SUBSET {pending[i].tid : i \in 1 .. k} :
             blocked' = blocked \ (woken \cup alarmed)

(* Waits that have nothing to do with the timer, and wakeups by others. *)
Other(t) == blocked' \in {blocked \cup {t}, blocked \ {t}} /\ pending' = pending

Next ==
  \/ Tick
  \/ \E t \in Thread :
       \/ \E m \in Msecs, block \in BOOLEAN : Add(t, m, block)
       \/ Drop(t)
       \/ Other(t)

Spec == Init /\ [][Next]_vars
=============================================================================
