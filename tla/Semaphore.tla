----------------------------- MODULE Semaphore -----------------------------
(***************************************************************************)
(* The kernel's semaphore: BaseSem::down/tryDown/up with the waiting list  *)
(* (semaphore.cc, blockedlist.cc) under the spinlock of class Semaphore,   *)
(* on a scheduler with one priority and NCPU processors.                   *)
(*                                                                         *)
(* The kernel is not preemptive: a thread inside down() or up() leaves its *)
(* processor only where it switches away.  Steps of two threads interleave *)
(* within these functions only if NCPU > 1.                                *)
(*                                                                         *)
(* The ready queue and the waiting list link threads through the same next *)
(* field, so both are modelled by their pointers.                          *)
(***************************************************************************)
EXTENDS Links, DList, FiniteSets

CONSTANTS
  Thread,
  NCPU,
  Value0,        \* the initial value
  AllowSigs,     \* the argument of down()
  Signallable    \* threads that other threads send signals to

ASSUME SemAssumption ==
  /\ Null \notin Thread
  /\ IsFiniteSet(Thread)
  /\ NCPU \in Nat \ {0}
  /\ Value0 \in Nat
  /\ AllowSigs \in BOOLEAN
  /\ Signallable \subseteq Thread

(* Program points:                                                         *)
(*   user      outside of the semaphore                                    *)
(*   down      wants lck for down()                                        *)
(*   dec       holds lck in down()                                         *)
(*   nosigs    has released lck, enters switchNoSigs                       *)
(*   switch    switches away next                                          *)
(*   resume    behind the switch                                           *)
(*   relock    takes lck again                                             *)
(*   intr      interrupted: leaves the waiting list, without lck           *)
(*   giveback  interrupted: calls up(), without lck                        *)
(*   acquired  down() is over                                              *)
(*   up, inc   wants lck for up(), holds it                                *)
(*   done      behind an interrupted down() or an up()                     *)
(*   signal    between the two steps of addSignalFor                       *)
Points == {"user", "down", "dec", "nosigs", "switch", "resume", "relock",
           "intr", "giveback", "acquired", "up", "inc", "done", "signal"}

VARIABLES
  value, waiters, lck,                 \* the semaphore
  next,                                \* the links of the threads
  ready, state, newState,              \* the scheduler
  ignSigs, sigmask, target,            \* signals
  pc

semVars == <<value, waiters, lck>>
schedVars == <<next, ready, state, newState>>
sigVars == <<ignSigs, sigmask, target>>
semaphoreVars == <<semVars, schedVars, sigVars, pc>>

ListType == [head : Thread \cup {Null}, tail : Thread \cup {Null}, len : Int]

SemTypeOK ==
  /\ value \in Int
  /\ waiters \in ListType /\ ready \in ListType
  /\ lck \in Thread \cup {Null}
  /\ next \in [Thread -> Thread \cup {Null}]
  /\ state \in [Thread -> {"RUNNING", "READY", "BLOCKED"}]
  /\ newState \in [Thread -> {"READY", "BLOCKED"}]
  /\ ignSigs \in [Thread -> BOOLEAN]
  /\ sigmask \in [Thread -> BOOLEAN]
  /\ target \in [Thread -> Thread \cup {Null}]
  /\ pc \in [Thread -> Points]

(* All processors idle, all threads are ready in some order.               *)
SemInit ==
  /\ value = Value0 /\ waiters = EmptyList /\ lck = Null
  /\ state = [t \in Thread |-> "READY"]
  /\ newState = [t \in Thread |-> "READY"]
  /\ ignSigs = [t \in Thread |-> FALSE]
  /\ sigmask = [t \in Thread |-> FALSE]
  /\ target = [t \in Thread |-> Null]
  /\ pc = [t \in Thread |-> "user"]
  /\ next \in [Thread -> Thread \cup {Null}]
  /\ \E q \in [1 .. Cardinality(Thread) -> Thread] :
       /\ Distinct(q)
       /\ \A t \in Thread : InList(q, t)
       /\ ready = [head |-> IF q = << >> THEN Null ELSE q[1],
                   tail |-> IF q = << >> THEN Null ELSE q[Len(q)],
                   len  |-> Len(q)]
       /\ Represents(q, ready, next)

HasSignal(t) == ~ ignSigs[t] /\ sigmask[t]
Runs(t, point) == state[t] = "RUNNING" /\ pc[t] = point
Goto(t, point) == pc' = [pc EXCEPT ![t] = point]

-----------------------------------------------------------------------------
(* The scheduler.                                                          *)

(* Sched::unblock.                                                         *)
SetReady(t) ==
  CASE state[t] = "RUNNING" ->
         /\ newState' = [newState EXCEPT ![t] = "READY"]
         /\ UNCHANGED <<next, ready, state>>
    [] state[t] = "BLOCKED" ->
         /\ state' = [state EXCEPT ![t] = "READY"]
         /\ ready' = Appended(ready, t)
         /\ next' = AppendedLinks(ready, next, t)
         /\ UNCHANGED newState
    [] OTHER -> UNCHANGED schedVars

(* The second half of Sched::perform: the processor takes the first thread *)
(* of the ready queue q under the links nx, or idles; st are the states    *)
(* once the old thread has its new one.                                    *)
TakeNext(q, nx, st) ==
  /\ next' = nx
  /\ IF q.head = Null
       THEN /\ ready' = q /\ state' = st
            /\ UNCHANGED newState
       ELSE /\ ready' = Popped(q, nx)
            /\ state' = [st EXCEPT ![q.head] = "RUNNING"]
            /\ newState' = [newState EXCEPT ![q.head] = "READY"]

PerformKeeps(t) ==
  IF HasSignal(t) \/ newState[t] = "READY"
    THEN /\ newState' = [newState EXCEPT ![t] = "READY"]
         /\ UNCHANGED <<next, ready, state>>
    ELSE TakeNext(ready, next, [state EXCEPT ![t] = newState[t]])

(* switchAway of the running thread t.                                     *)
Perform(t) ==
  IF HasSignal(t)
    THEN /\ newState' = [newState EXCEPT ![t] = "READY"]
         /\ UNCHANGED <<next, ready, state>>
    ELSE LET st == [state EXCEPT ![t] = newState[t]]
         IN  IF newState[t] = "READY"
               THEN TakeNext(Appended(ready, t), AppendedLinks(ready, next, t), st)
               ELSE TakeNext(ready, next, st)

(* The timer interrupt, or a wait for something else that is already over. *)
Yield(t) ==
  /\ Runs(t, "user") /\ ~ HasSignal(t)
  /\ Perform(t)
  /\ UNCHANGED <<semVars, sigVars, pc>>

(* An idle processor finds a thread.                                       *)
LeaveIdle ==
  /\ Cardinality({t \in Thread : state[t] = "RUNNING"}) < NCPU
  /\ ready.head # Null
  /\ TakeNext(ready, next, state)
  /\ UNCHANGED <<semVars, sigVars, pc>>

-----------------------------------------------------------------------------
(* Signals: addSignalFor by thread s, and the delivery to thread t.        *)

AddSignal(s, t) ==
  /\ Runs(s, "user") /\ t \in Signallable \ {s}
  /\ sigmask' = [sigmask EXCEPT ![t] = TRUE]
  /\ target' = [target EXCEPT ![s] = t]
  /\ Goto(s, "signal")
  /\ UNCHANGED <<semVars, schedVars, ignSigs>>

SignalUnblock(s) ==
  /\ Runs(s, "signal")
  /\ IF ignSigs[target[s]] THEN UNCHANGED schedVars ELSE SetReady(target[s])
  /\ target' = [target EXCEPT ![s] = Null]
  /\ Goto(s, "user")
  /\ UNCHANGED <<semVars, ignSigs, sigmask>>

HandleSignal(t) ==
  /\ Runs(t, "user") /\ sigmask[t]
  /\ sigmask' = [sigmask EXCEPT ![t] = FALSE]
  /\ UNCHANGED <<semVars, schedVars, ignSigs, target, pc>>

-----------------------------------------------------------------------------
(* Semaphore::down.                                                        *)

Lock(t, from, to) ==
  /\ Runs(t, from) /\ lck = Null
  /\ lck' = t
  /\ Goto(t, to)
  /\ UNCHANGED <<value, waiters, schedVars, sigVars>>

MustWaitLate(v) == v < -1

(* Whether down() has to wait for a semaphore of value v.                  *)
MustWait(v) == v < 0 \/ waiters.len > 0

DecFirst(t) ==
  /\ Runs(t, "dec")
  /\ value' = value - 1
  /\ lck' = Null
  /\ IF MustWait(value - 1)
       THEN /\ waiters' = [head |-> t, len |-> waiters.len + 1,
                           tail |-> IF waiters.head = Null THEN t ELSE waiters.tail]
            /\ next' = [next EXCEPT ![t] = waiters.head]
            /\ newState' = [newState EXCEPT ![t] = "BLOCKED"]
            /\ Goto(t, IF AllowSigs THEN "switch" ELSE "nosigs")
       ELSE /\ Goto(t, "acquired")
            /\ UNCHANGED <<waiters, next, newState>>
  /\ UNCHANGED <<ready, state, sigVars>>

Dec(t) ==
  /\ Runs(t, "dec")
  /\ value' = value - 1
  /\ lck' = Null
  /\ IF MustWait(value - 1)
       THEN /\ waiters' = Appended(waiters, t)
            /\ next' = AppendedLinks(waiters, next, t)
            /\ newState' = [newState EXCEPT ![t] = "BLOCKED"]
            /\ Goto(t, IF AllowSigs THEN "switch" ELSE "nosigs")
       ELSE /\ Goto(t, "acquired")
            /\ UNCHANGED <<waiters, next, newState>>
  /\ UNCHANGED <<ready, state, sigVars>>

BeginNoSigs(t) ==
  /\ Runs(t, "nosigs")
  /\ ignSigs' = [ignSigs EXCEPT ![t] = TRUE]
  /\ Goto(t, "switch")
  /\ UNCHANGED <<semVars, schedVars, sigmask, target>>

Switch(t) ==
  /\ Runs(t, "switch")
  /\ Perform(t)
  /\ Goto(t, "resume")
  /\ UNCHANGED <<semVars, sigVars>>

Resume(t) ==
  /\ Runs(t, "resume")
  /\ ignSigs' = [ignSigs EXCEPT ![t] = FALSE]
  /\ Goto(t, IF AllowSigs /\ HasSignal(t) THEN "intr" ELSE "relock")
  /\ UNCHANGED <<semVars, schedVars, sigmask, target>>

Relock(t) ==
  /\ Runs(t, "relock") /\ lck = Null
  /\ Goto(t, "acquired")
  /\ UNCHANGED <<semVars, schedVars, sigVars>>

BaseUpLate ==
  /\ value' = value + 1
  /\ IF value + 1 >= 0
       THEN UNCHANGED <<waiters, schedVars>>
       ELSE /\ waiters' = RemovedAt(waiters, next, Null, waiters.head)
            /\ SetReady(waiters.head)

(* BaseSem::up without the lock.                                           *)
BaseUp ==
  /\ value' = value + 1
  /\ IF waiters.len = 0 \/ waiters.head = Null
       THEN UNCHANGED <<waiters, schedVars>>
       ELSE /\ waiters' = RemovedAt(waiters, next, Null, waiters.head)
            /\ SetReady(waiters.head)

(* BlockedList::remove: a linear search for t.                             *)
LeaveWaiters(t) ==
  /\ Runs(t, "intr")
  /\ LET c == Chain(waiters, next, Cardinality(Thread))
         at == {i \in 1 .. Len(c) : c[i] = t}
         i == CHOOSE i \in at : \A j \in at : i <= j
         p == IF i = 1 THEN Null ELSE c[i - 1]
     IN  IF at = {}
           THEN UNCHANGED <<waiters, next>>
           ELSE /\ waiters' = RemovedAt(waiters, next, p, t)
                /\ next' = RemovedAtLinks(next, p, t)
  /\ Goto(t, "giveback")
  /\ UNCHANGED <<value, lck, ready, state, newState, sigVars>>

(* up(), then the LockGuard of Semaphore::down releases lck.               *)
GiveBack(t) ==
  /\ Runs(t, "giveback")
  /\ BaseUp
  /\ lck' = Null
  /\ Goto(t, "done")
  /\ UNCHANGED sigVars

(* Semaphore::tryDown, and what it found.                                  *)
TryDown(t, success, to) ==
  /\ Runs(t, "user") /\ lck = Null
  /\ success = (value > 0 /\ waiters.len = 0)
  /\ value' = IF success THEN value - 1 ELSE value
  /\ Goto(t, to)
  /\ UNCHANGED <<waiters, lck, schedVars, sigVars>>

(* Semaphore::up.                                                          *)
Inc(t) ==
  /\ Runs(t, "inc")
  /\ BaseUp
  /\ lck' = Null
  /\ Goto(t, "done")
  /\ UNCHANGED sigVars

(* What a thread inside the semaphore does next.                           *)
SemStep(t) ==
  \/ Lock(t, "down", "dec")
  \/ Dec(t)
  \/ BeginNoSigs(t)
  \/ Switch(t)
  \/ Resume(t)
  \/ Relock(t)
  \/ LeaveWaiters(t)
  \/ GiveBack(t)
  \/ Lock(t, "up", "inc")
  \/ Inc(t)
  \/ SignalUnblock(t)
=============================================================================
