------------------------------- MODULE MCSems ------------------------------
(* The constants of the runs of Sems: t1 and t2 belong to p1, the others   *)
(* to p2.                                                                  *)
EXTENDS Sems

CONSTANTS t1, t2, t3, p1, p2

MCHome == [t \in Thread |-> IF t \in {t1, t2} THEN p1 ELSE p2]
=============================================================================
