------------------------------ MODULE MCMemory ------------------------------
(* The constants of the run of Memory.                                     *)
EXTENDS Memory, TLC

(* Processes, regions, frames and blocks are only names.                   *)
Sym == Permutations(Proc) \cup Permutations(Region) \cup Permutations(Frame)
         \cup Permutations(Block)
=============================================================================
