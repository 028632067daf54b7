------------------------------ MODULE MCMutex ------------------------------
(* The model values of the runs of Mutex.                                  *)
EXTENDS Mutex

CONSTANTS t1, t2, t3, t4
=============================================================================
