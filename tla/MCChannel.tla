----------------------------- MODULE MCChannel -----------------------------
(* The model values of the runs of Channel.                                *)
EXTENDS Channel

CONSTANTS t1, t2, h1, h2, c1, c2
=============================================================================
