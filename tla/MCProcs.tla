------------------------------ MODULE MCProcs -------------------------------
(* The constants of the runs of Procs: t1 is init, t2 the first process,   *)
(* the others are threads to come.                                         *)
EXTENDS Procs

CONSTANTS t0, t1, t2, t3

=============================================================================
