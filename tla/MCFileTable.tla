---------------------------- MODULE MCFileTable -----------------------------
(* The constants of the run of FileTable: two threads of one process and   *)
(* a thread of its child.                                                  *)
EXTENDS FileTable, TLC

CONSTANTS a, b, c, p1, p2

MCProcOf == [t \in {a, b, c} |-> IF t = c THEN p2 ELSE p1]

MCCalls ==
    [t \in {a, b, c} |->
        CASE t = a -> {"open", "lonely", "using", "unassoc", "mount", "dup",
                       "redirect", "fork", "unmount"}
          [] t = b -> {"open", "using", "unassoc", "lookup", "sem"}
          [] t = c -> {"using", "unassoc"}]

(* What a kernel does that has lost track of a file is not explored.       *)
OnTrack == ~strayed

(* Slots and semaphores are only names.                                    *)
Sym == Permutations(Slot) \cup Permutations(Sem)
=============================================================================
