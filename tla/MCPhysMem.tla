---------------------------- MODULE MCPhysMem -----------------------------
(* The constants of the run of PhysMem.                                    *)
EXTENDS PhysMem

CONSTANTS t1, t2

MCFrames0 == [z \in Zone |-> IF z = "lower" THEN 2 ELSE 1]
=============================================================================
