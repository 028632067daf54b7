------------------------------ MODULE MCSched ------------------------------
(* The model values of the runs of Sched.                                  *)
EXTENDS Sched

CONSTANTS t1, t2, t3, c1, c2, died, o1
=============================================================================
