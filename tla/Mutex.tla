------------------------------- MODULE Mutex -------------------------------
(***************************************************************************)
(* class Mutex (mutex.cc): a semaphore of value 1 that signals do not      *)
(* interrupt, with a holder who may take it again.                         *)
(***************************************************************************)
EXTENDS Semaphore

CONSTANT MaxDepth   \* bound: how often a holder takes the mutex

ASSUME MutexAssumption == MaxDepth \in Nat \ {0}

VARIABLES holder, depth

mutexVars == <<holder, depth>>
vars == <<semaphoreVars, mutexVars>>

TypeOK ==
  /\ SemTypeOK
  /\ holder \in Thread \cup {Null}
  /\ depth \in 0 .. MaxDepth

(* The arguments of Semaphore's constructor and of its down().             *)
IsMutex == Value0 = 1 /\ ~ AllowSigs

Init == IsMutex /\ SemInit /\ holder = Null /\ depth = 0

(* down and tryDown of the holder.                                         *)
DownAgain(t) ==
  /\ Runs(t, "user") /\ holder = t
  /\ depth < MaxDepth
  /\ depth' = depth + 1
  /\ UNCHANGED <<semaphoreVars, holder>>

Down(t) ==
  /\ Runs(t, "user") /\ holder # t
  /\ Goto(t, "down")
  /\ UNCHANGED <<semVars, schedVars, sigVars, mutexVars>>

MutexTryDown(t) ==
  /\ holder # t
  /\ TryDown(t, TRUE, "acquired") \/ TryDown(t, FALSE, "user")
  /\ UNCHANGED mutexVars

(* Behind Semaphore::down or a successful Semaphore::tryDown.              *)
Take(t) ==
  /\ Runs(t, "acquired")
  /\ holder' = t
  /\ depth' = depth + 1
  /\ Goto(t, "user")
  /\ UNCHANGED <<semVars, schedVars, sigVars>>

UpDepthKept(t) ==
  /\ Runs(t, "user") /\ holder = t
  /\ holder' = Null /\ Goto(t, "up")
  /\ UNCHANGED <<semVars, schedVars, sigVars, depth>>

Up(t) ==
  /\ Runs(t, "user") /\ holder = t
  /\ depth' = depth - 1
  /\ IF depth = 1
       THEN holder' = Null /\ Goto(t, "up")
       ELSE UNCHANGED <<holder, pc>>
  /\ UNCHANGED <<semVars, schedVars, sigVars>>

UpDone(t) ==
  /\ Runs(t, "done")
  /\ Goto(t, "user")
  /\ UNCHANGED <<semVars, schedVars, sigVars, mutexVars>>

Next ==
  \/ \E t \in Thread :
       \/ DownAgain(t)
       \/ Down(t)
       \/ MutexTryDown(t)
       \/ Take(t)
       \/ Up(t)
       \/ UpDone(t)
       \/ /\ \/ SemStep(t)
             \/ Yield(t)
             \/ \E u \in Thread : AddSignal(t, u)
             \/ holder # t /\ HandleSignal(t)
          /\ UNCHANGED mutexVars
  \/ LeaveIdle /\ UNCHANGED mutexVars

Spec == Init /\ [][Next]_vars

(* A thread in the kernel goes on once it runs, also if it has to spin for *)
(* lck, which is held for one step only.  The timer makes running threads  *)
(* yield and idle processors look for work.  A holder releases the mutex.  *)
Fairness ==
  /\ \A t \in Thread :
       /\ SF_vars(SemStep(t) /\ UNCHANGED mutexVars)
       /\ WF_vars(Take(t)) /\ WF_vars(UpDone(t))
       /\ SF_vars(Up(t)) /\ SF_vars(Up(t) /\ holder' = Null)
       /\ SF_vars(Yield(t) /\ UNCHANGED mutexVars)
  /\ WF_vars(LeaveIdle /\ UNCHANGED mutexVars)

FairSpec == Spec /\ Fairness

-----------------------------------------------------------------------------
(* Threads that sleep in down(), or are about to.                          *)
Sleeping(t) ==
  \/ pc[t] \in {"nosigs", "switch"} /\ newState[t] = "BLOCKED"
  \/ pc[t] = "resume" /\ state[t] = "BLOCKED"

(* Threads that the mutex belongs to: it has been given to them in down(), *)
(* tryDown() or by up(), and they have not given it on.                    *)
Owns(t) ==
  \/ pc[t] \in {"acquired", "relock", "up", "inc"}
  \/ pc[t] \in {"nosigs", "switch"} /\ newState[t] = "READY"
  \/ pc[t] = "resume" /\ state[t] # "BLOCKED"
  \/ holder = t

(* The mutex belongs to one thread at a time, from the moment it is handed *)
(* over until the next hand-over, and to none only if nobody waits.        *)
Exclusive ==
  /\ \A t, u \in Thread : Owns(t) /\ Owns(u) => t = u
  /\ (\A t \in Thread : ~ Owns(t)) => waiters.len = 0

(* The assertion in Mutex::down.                                           *)
FreeWhenTaken ==
  \A t \in Thread : Runs(t, "acquired") => holder = Null /\ depth = 0

(* The value counts the owner and everybody who waits.                     *)
ValueExact ==
  value = (IF \E t \in Thread : Owns(t) THEN 0 ELSE 1) - waiters.len

(* The mutex implements a lock with first-come-first-served hand-over.     *)
Lock1 == INSTANCE FifoLock WITH
  Nobody <- Null,
  owner <- IF \E t \in Thread : Owns(t)
             THEN CHOOSE t \in Thread : Owns(t) ELSE Null,
  queue <- Chain(waiters, next, Cardinality(Thread))

ImplementsLock == Lock1!Spec

(* Who waits for the mutex gets it, on its way through up(), the scheduler *)
(* and the spinlock.                                                       *)
WaiterServed == \A t \in Thread : Sleeping(t) ~> holder = t
=============================================================================
