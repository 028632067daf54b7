------------------------------ MODULE MCTimer -------------------------------
(* The constants of the run of Timer. *)
EXTENDS Timer

CONSTANTS t1, t2
=============================================================================
