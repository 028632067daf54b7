------------------------------- MODULE Sems --------------------------------
(***************************************************************************)
(* The semaphores of processes (task/sems.cc): one entry, created by the   *)
(* processes of Owner0, inherited by clone, destroyed by each process for  *)
(* itself and freed with its last reference.  down() on it is open to      *)
(* signals.                                                                *)
(***************************************************************************)
EXTENDS Semaphore

CONSTANTS
  Proc,
  Home,        \* the process of each thread
  Owner0,      \* the process that has created the semaphore
  MaxTaken,    \* bound: successful downs
  MaxGiven,    \* bound: ups
  MaxSent      \* bound: signals

ASSUME SemsAssumption ==
  /\ IsFiniteSet(Proc)
  /\ Home \in [Thread -> Proc]
  /\ Owner0 \in Proc
  /\ MaxTaken \in Nat /\ MaxGiven \in Nat /\ MaxSent \in Nat

VARIABLES
  has,          \* has[p]: the entry is in the table of process p
  refs,         \* Entry::refs
  freed,        \* the entry has been deleted
  op,           \* the operation a thread performs
  taken, given, \* downs that have returned 0, ups that have begun
  sent          \* signals sent

entryVars == <<has, refs, freed>>
countVars == <<taken, given, sent>>
semsVars == <<semaphoreVars, entryVars, op, countVars>>

SemsTypeOK ==
  /\ value \in Int /\ lck \in Thread \cup {Null}
  /\ pc \in [Thread -> Points]
  /\ has \in [Proc -> BOOLEAN]
  /\ refs \in Nat
  /\ freed \in BOOLEAN
  /\ op \in [Thread -> {"none", "down", "up"}]
  /\ taken \in 0 .. MaxTaken /\ given \in 0 .. MaxGiven
  /\ sent \in 0 .. MaxSent

SemsInit ==
  /\ SemInit
  /\ has = [p \in Proc |-> p = Owner0]
  /\ refs = 1 /\ freed = FALSE
  /\ op = [t \in Thread |-> "none"]
  /\ taken = 0 /\ given = 0 /\ sent = 0

Idle(t) == Runs(t, "user") /\ op[t] = "none"

(* op, up to the call of down() or up().                                   *)
Op(t, kind) ==
  /\ Idle(t) /\ has[Home[t]]
  /\ IF kind = "up"
       THEN given < MaxGiven
       ELSE taken + Cardinality({u \in Thread : op[u] = "down"}) < MaxTaken
  /\ refs' = refs + 1
  /\ op' = [op EXCEPT ![t] = kind]
  /\ Goto(t, kind)
  /\ given' = IF kind = "up" THEN given + 1 ELSE given
  /\ UNCHANGED <<semVars, schedVars, sigVars, has, freed, taken, sent>>

UnrefEarly ==
  /\ refs' = refs - 1
  /\ freed' = (freed \/ refs = 2)

(* unref.                                                                  *)
Unref ==
  /\ refs' = refs - 1
  /\ freed' = (freed \/ refs = 1)

(* The result of op: -EINTR or 0.                                          *)
Interrupted(t) == op[t] = "down" /\ HasSignal(t)

OpReturn(t) ==
  /\ Runs(t, "acquired") \/ Runs(t, "done")
  /\ taken' = IF op[t] = "up" \/ Interrupted(t) THEN taken ELSE taken + 1
  /\ Unref
  /\ op' = [op EXCEPT ![t] = "none"]
  /\ Goto(t, "user")
  /\ UNCHANGED <<semVars, schedVars, sigVars, has, given, sent>>

(* clone by a thread of process p, for process q.                          *)
Clone(t, q) ==
  /\ Idle(t) /\ has[Home[t]] /\ ~ has[q]
  /\ \A u \in Thread : Home[u] = q => op[u] = "none"
  /\ has' = [has EXCEPT ![q] = TRUE]
  /\ refs' = refs + 1
  /\ UNCHANGED <<semaphoreVars, freed, op, countVars>>

(* destroy and destroyAll.                                                 *)
Destroy(t) ==
  /\ Idle(t) /\ has[Home[t]]
  /\ has' = [has EXCEPT ![Home[t]] = FALSE]
  /\ Unref
  /\ UNCHANGED <<semaphoreVars, op, countVars>>

SemsNext ==
  \/ \E t \in Thread :
       \/ \E kind \in {"down", "up"} : Op(t, kind)
       \/ OpReturn(t)
       \/ \E q \in Proc : Clone(t, q)
       \/ Destroy(t)
       \/ /\ \/ SemStep(t)
             \/ Yield(t)
             \/ HandleSignal(t)
          /\ UNCHANGED <<entryVars, op, countVars>>
       \/ /\ sent < MaxSent
          /\ \E u \in Thread : AddSignal(t, u)
          /\ sent' = sent + 1
          /\ UNCHANGED <<entryVars, op, taken, given>>
  \/ LeaveIdle /\ UNCHANGED <<entryVars, op, countVars>>

SemsSpec == SemsInit /\ [][SemsNext]_semsVars

-----------------------------------------------------------------------------
(* The references are the tables that hold the entry and the operations in *)
(* flight, and the entry is freed with the last of them: no operation uses *)
(* a freed semaphore, whoever destroys it meanwhile.                       *)
RefsExact ==
  /\ SemsTypeOK
  /\ refs = Cardinality({p \in Proc : has[p]})
              + Cardinality({t \in Thread : op[t] # "none"})
  /\ freed <=> refs = 0

(* A signal may cut a waiter out of down() and out of the lists; what      *)
(* follows is promised to processes that are not signalled.                *)
Undisturbed == sent = 0

Sleeps(t) == op[t] = "down" /\ pc[t] = "resume" /\ state[t] = "BLOCKED"

(* No permit comes from nowhere: at most Value0 downs more than ups have   *)
(* succeeded.  And none is lost: if every thread in an operation sleeps,   *)
(* all permits have been taken (Semaphore::down and up, under op).         *)
PermitsExact ==
  Undisturbed =>
    /\ taken <= Value0 + given
    /\ /\ \E t \in Thread : Sleeps(t)
       /\ \A t \in Thread : op[t] # "none" => Sleeps(t)
       => taken = Value0 + given
=============================================================================
