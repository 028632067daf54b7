------------------------------- MODULE Sched -------------------------------
(***************************************************************************)
(* The kernel's scheduler (kernel/src/task/sched.cc) with the parts of a   *)
(* thread's life that drive it: creation and termination (thread.cc), the  *)
(* switch (doSwitch, switchNoSigs), signals (signals.cc) and the periodic  *)
(* adjustment of priorities (updateRuntimes).                              *)
(*                                                                         *)
(* Every operation of class Sched runs under the spinlock Sched::lock, so  *)
(* it is one action; only wakeup(), which walks a list, is a sequence of   *)
(* steps with the lock held (wk).  Clock readings (waitstart, the blocked  *)
(* time) are abstracted to the class of blocked time adjustPrio sees.      *)
(***************************************************************************)
EXTENDS DList, FiniteSets

CONSTANTS
  Thread,        \* threads other than the idle threads
  CPU,           \* processors
  MaxPrio,       \* MAX_PRIO
  ForgiveCnt,    \* PRIO_FORGIVE_CNT
  Event,         \* the events EV_* without EV_NOEVENT
  EvThreadDied,  \* EV_THREAD_DIED
  Object,        \* event objects other than 0
  InitThread,    \* the first thread (createInitial)
  BootCPU,       \* the processor that runs it
  Mortal,        \* threads that may call Thread::terminate
  Signallable,   \* threads that other threads send signals to
  NoEvent,       \* EV_NOEVENT
  NoObject,      \* object 0: "ignore the object"
  Idle,          \* idleThreads[cpu], seen from cpu
  NoThread       \* a processor before Thread::initialSwitch

ASSUME SchedAssumption ==
  /\ MaxPrio \in Nat
  /\ ForgiveCnt \in Nat \ {0}
  /\ InitThread \in Thread /\ BootCPU \in CPU
  /\ Mortal \subseteq Thread /\ Signallable \subseteq Thread
  /\ EvThreadDied \in Event /\ NoEvent \notin Event
  /\ NoObject \notin Object
  /\ Idle \notin Thread /\ NoThread \notin Thread /\ Idle # NoThread
  /\ IsFiniteSet(Thread)

Prio == 0 .. MaxPrio
States == {"RUNNING", "READY", "BLOCKED", "ZOMBIE"}

(* What a thread is about to do in the kernel:                             *)
(*   none     does not exist                                               *)
(*   run      anything                                                     *)
(*   wait     has blocked itself, switches away next                       *)
(*   nosigs   the same, in switchNoSigs, T_IGNSIGS set                     *)
(*   resumed  back from the switch, T_IGNSIGS not yet cleared              *)
(*   dying    has called Thread::terminate, switches away for good         *)
(*   unreached  the code behind that last switch (A_UNREACHED)             *)
Contexts ==
  {"none", "run", "wait", "nosigs", "resumed", "dying", "unreached"}

VARIABLES
  state, newState,          \* Thread::state, newState
  event, evobject,          \* what the thread waits for
  priority, prioGoodCnt,
  ignSigs,                  \* T_IGNSIGS in Thread::flags
  sigmask,                  \* Thread::sigmask # 0
  ctx,                      \* the thread's program point
  rdyQueues, readyMask, rdyCount, evlists,   \* the static state of Sched
  running,                  \* the thread each processor executes
  wk,                       \* the wakeup() that holds Sched::lock
  signalling                \* threads between the two steps of addSignalFor

thVars == <<state, newState, event, evobject>>
prioVars == <<priority, prioGoodCnt>>
sigVars == <<ignSigs, sigmask, signalling>>
queueVars == <<rdyQueues, readyMask, rdyCount>>
vars == <<thVars, prioVars, sigVars, queueVars, ctx, evlists, running, wk>>

NoWakeup == [event |-> NoEvent, object |-> NoObject, all |-> FALSE, pos |-> 0]

TypeOK ==
  /\ state \in [Thread -> States]
  /\ newState \in [Thread -> States \ {"RUNNING"}]
  /\ event \in [Thread -> Event \cup {NoEvent}]
  /\ evobject \in [Thread -> Object \cup {NoObject}]
  /\ priority \in [Thread -> Prio]
  /\ prioGoodCnt \in [Thread -> 0 .. ForgiveCnt - 1]
  /\ ignSigs \in [Thread -> BOOLEAN]
  /\ sigmask \in [Thread -> BOOLEAN]
  /\ ctx \in [Thread -> Contexts]
  /\ rdyQueues \in [Prio -> Seq(Thread)]
  /\ readyMask \in SUBSET Prio
  /\ rdyCount \in Int
  /\ evlists \in [Event -> Seq(Thread)]
  /\ running \in [CPU -> Thread \cup {Idle, NoThread}]
  /\ wk \in [event : Event \cup {NoEvent}, object : Object \cup {NoObject},
             all : BOOLEAN, pos : Nat]
  /\ signalling \in SUBSET Thread

(* createInitial: the first thread runs on the boot processor; the others  *)
(* wait for initialSwitch.                                                 *)
Init ==
  /\ state = [t \in Thread |-> IF t = InitThread THEN "RUNNING" ELSE "BLOCKED"]
  /\ newState = [t \in Thread |-> "READY"]
  /\ event = [t \in Thread |-> NoEvent]
  /\ evobject = [t \in Thread |-> NoObject]
  /\ priority = [t \in Thread |-> MaxPrio]
  /\ prioGoodCnt = [t \in Thread |-> 0]
  /\ ignSigs = [t \in Thread |-> FALSE]
  /\ sigmask = [t \in Thread |-> FALSE]
  /\ ctx = [t \in Thread |-> IF t = InitThread THEN "run" ELSE "none"]
  /\ rdyQueues = [p \in Prio |-> << >>]
  /\ readyMask = {}
  /\ rdyCount = 0
  /\ evlists = [e \in Event |-> << >>]
  /\ running = [c \in CPU |-> IF c = BootCPU THEN InitThread ELSE NoThread]
  /\ wk = NoWakeup
  /\ signalling = {}

Exists(t) == ctx[t] # "none"
HasSignal(t) == ~ ignSigs[t] /\ sigmask[t]

(* Sched::lock is free.                                                    *)
Unlocked == wk = NoWakeup

-----------------------------------------------------------------------------
(* The queue operations of Sched.                                          *)

EnqueueFirst(t) ==
  /\ rdyQueues' = [rdyQueues EXCEPT ![priority[t]] = << t >> \o @]
  /\ readyMask' = readyMask \cup {priority[t]}
  /\ rdyCount' = rdyCount + 1

Enqueue(t) ==
  /\ rdyQueues' = [rdyQueues EXCEPT ![priority[t]] = Append(@, t)]
  /\ readyMask' = readyMask \cup {priority[t]}
  /\ rdyCount' = rdyCount + 1

(* removeFromEventlist on the lists as they are now.                       *)
UnlinkOnly(t) ==
  /\ evlists' = IF event[t] = NoEvent
                  THEN evlists
                  ELSE [evlists EXCEPT ![event[t]] = Unlink(@, t)]
  /\ UNCHANGED event

RemoveFromEventlist(t) ==
  /\ evlists' = IF event[t] = NoEvent
                  THEN evlists
                  ELSE [evlists EXCEPT ![event[t]] = Unlink(@, t)]
  /\ event' = [event EXCEPT ![t] = NoEvent]

(* setReady with setReadyState: a running thread only drops its intention  *)
(* to block; a blocked one becomes ready; ready and dead ones stay.        *)
SetReady(t) ==
  CASE state[t] = "RUNNING" ->
         /\ RemoveFromEventlist(t)
         /\ newState' = [newState EXCEPT ![t] = "READY"]
         /\ UNCHANGED <<state, evobject, queueVars>>
    [] state[t] = "BLOCKED" ->
         /\ RemoveFromEventlist(t)
         /\ state' = [state EXCEPT ![t] = "READY"]
         /\ Enqueue(t)
         /\ UNCHANGED <<newState, evobject>>
    [] OTHER -> UNCHANGED <<thVars, evlists, queueVars>>

(* setBlocked, whose callers block the running thread only.                *)
SetBlocked(t) == newState' = [newState EXCEPT ![t] = "BLOCKED"]

-----------------------------------------------------------------------------
(* Operations of the running thread.                                       *)

(* Sched::wait.  Between wait() and the switch the callers only release    *)
(* locks.                                                                  *)
Wait(t, e, o) ==
  /\ Unlocked
  /\ state[t] = "RUNNING" /\ ctx[t] = "run"
  /\ event' = [event EXCEPT ![t] = e]
  /\ evobject' = [evobject EXCEPT ![t] = o]
  /\ SetBlocked(t)
  /\ evlists' = [evlists EXCEPT ![e] = Append(@, t)]
  /\ ctx' = [ctx EXCEPT ![t] = "wait"]
  /\ UNCHANGED <<state, prioVars, sigVars, queueVars, running, wk>>

(* Sched::block: a mutex, a semaphore, a timer or a swap job.              *)
Block(t) ==
  /\ Unlocked
  /\ state[t] = "RUNNING" /\ ctx[t] = "run"
  /\ SetBlocked(t)
  /\ ctx' = [ctx EXCEPT ![t] = "wait"]
  /\ UNCHANGED <<state, event, evobject, prioVars, sigVars, queueVars, evlists,
                 running, wk>>

(* switchNoSigs, before and after its switchAway.                          *)
BeginNoSigs(t) ==
  /\ state[t] = "RUNNING" /\ ctx[t] = "wait"
  /\ ignSigs' = [ignSigs EXCEPT ![t] = TRUE]
  /\ ctx' = [ctx EXCEPT ![t] = "nosigs"]
  /\ UNCHANGED <<thVars, prioVars, sigmask, signalling, queueVars, evlists,
                 running, wk>>

EndNoSigs(t) ==
  /\ state[t] = "RUNNING" /\ ctx[t] = "resumed"
  /\ ignSigs' = [ignSigs EXCEPT ![t] = FALSE]
  /\ ctx' = [ctx EXCEPT ![t] = "run"]
  /\ UNCHANGED <<thVars, prioVars, sigmask, signalling, queueVars, evlists,
                 running, wk>>

(* Thread::terminate with Sched::removeThread for the running thread.  A   *)
(* signaller may be between its two steps: the timer (SIGALRM) and a       *)
(* channel (SIGCANCEL) do not take PLOCK_PROG, which the caller holds.     *)
Terminate(t) ==
  /\ Unlocked
  /\ t \in Mortal
  /\ state[t] = "RUNNING" /\ ctx[t] = "run"
  /\ newState' = [newState EXCEPT ![t] = "ZOMBIE"]
  /\ ctx' = [ctx EXCEPT ![t] = "dying"]
  /\ UNCHANGED <<state, event, evobject, prioVars, sigVars, queueVars, evlists,
                 running, wk>>

(* Signals::checkAndStart on the way back to user mode.                    *)
HandleSignal(t) ==
  /\ state[t] = "RUNNING" /\ ctx[t] = "run" /\ HasSignal(t)
  /\ sigmask' = [sigmask EXCEPT ![t] = FALSE]
  /\ UNCHANGED <<thVars, prioVars, ignSigs, signalling, queueVars, ctx, evlists,
                 running, wk>>

-----------------------------------------------------------------------------
(* Operations on other threads.                                            *)

(* Thread::create with initProps; the thread runs once it is unblocked.    *)
Create(t, p) ==
  /\ ctx[t] = "none"
  /\ state' = [state EXCEPT ![t] = "BLOCKED"]
  /\ newState' = [newState EXCEPT ![t] = "READY"]
  /\ event' = [event EXCEPT ![t] = NoEvent]
  /\ evobject' = [evobject EXCEPT ![t] = NoObject]
  /\ priority' = [priority EXCEPT ![t] = p]
  /\ prioGoodCnt' = [prioGoodCnt EXCEPT ![t] = 0]
  /\ ignSigs' = [ignSigs EXCEPT ![t] = FALSE]
  /\ sigmask' = [sigmask EXCEPT ![t] = FALSE]
  /\ ctx' = [ctx EXCEPT ![t] = "run"]
  /\ UNCHANGED <<signalling, queueVars, evlists, running, wk>>

(* Sched::unblock by the owner of what the thread waits for (a lock, a     *)
(* timer, a swap job, its creator).  Nothing of the kind is left to a      *)
(* thread that terminates: Thread::terminate takes its entry from the      *)
(* timer, which is part of the step Terminate here.                        *)
Unblock(t) ==
  /\ Unlocked
  /\ ctx[t] \in {"run", "wait", "nosigs", "resumed"}
  /\ SetReady(t)
  /\ UNCHANGED <<prioVars, sigVars, ctx, running, wk>>

(* Signals::addSignalFor: set the bit, then look at T_IGNSIGS and unblock. *)
(* A thread that terminates is still in its process's list of threads.     *)
AddSignal(t) ==
  /\ t \in Signallable \ signalling
  /\ Exists(t)
  /\ sigmask' = [sigmask EXCEPT ![t] = TRUE]
  /\ signalling' = signalling \cup {t}
  /\ UNCHANGED <<thVars, prioVars, ignSigs, queueVars, ctx, evlists, running,
                 wk>>

SignalUnblock(t) ==
  /\ Unlocked
  /\ t \in signalling
  /\ signalling' = signalling \ {t}
  /\ IF ignSigs[t] THEN UNCHANGED <<thVars, evlists, queueVars>> ELSE SetReady(t)
  /\ UNCHANGED <<prioVars, ignSigs, sigmask, ctx, running, wk>>

(* Sched::wakeup: take the lock, walk the list, release the lock.  Every   *)
(* caller in the kernel wakes up all threads.                              *)
Wakeup(e, o, all) ==
  /\ Unlocked
  /\ wk' = [event |-> e, object |-> o, all |-> all, pos |-> 1]
  /\ UNCHANGED <<thVars, prioVars, sigVars, queueVars, ctx, evlists, running>>

Matches(t) == evobject[t] \in {NoObject, wk.object}

(* Where the walk continues after a thread has been woken up: the list     *)
(* closes the gap.                                                         *)
SkipOne == [wk EXCEPT !.pos = @ + 1]

Resume == IF wk.all THEN wk ELSE NoWakeup

WakeupStep ==
  /\ ~ Unlocked
  /\ LET list == evlists[wk.event]
     IN  IF wk.pos > Len(list)
           THEN /\ wk' = NoWakeup
                /\ UNCHANGED <<thVars, evlists, queueVars>>
           ELSE LET t == list[wk.pos]
                IN  IF Matches(t)
                      THEN SetReady(t) /\ wk' = Resume
                      ELSE /\ wk' = [wk EXCEPT !.pos = @ + 1]
                           /\ UNCHANGED <<thVars, evlists, queueVars>>
  /\ UNCHANGED <<prioVars, sigVars, ctx, running>>

(* The terminator's part (Terminator::start, Thread::kill): once the       *)
(* thread is a zombie, tell its joiners and free it.  What freed memory    *)
(* holds is of no interest: the record is back to its initial value.  A    *)
(* signaller keeps the record until it is done: by the reference a channel *)
(* holds, by Timer::lock (Thread::terminate waits for it) or PLOCK_PROG.   *)
Kill(t, o) ==
  /\ Unlocked
  /\ ctx[t] = "dying" /\ state[t] = "ZOMBIE"
  /\ t \notin signalling
  /\ ctx' = [ctx EXCEPT ![t] = "none"]
  /\ state' = [state EXCEPT ![t] = "BLOCKED"]
  /\ newState' = [newState EXCEPT ![t] = "READY"]
  /\ evobject' = [evobject EXCEPT ![t] = NoObject]
  /\ priority' = [priority EXCEPT ![t] = MaxPrio]
  /\ prioGoodCnt' = [prioGoodCnt EXCEPT ![t] = 0]
  /\ sigmask' = [sigmask EXCEPT ![t] = FALSE]
  /\ wk' = [event |-> EvThreadDied, object |-> o, all |-> TRUE, pos |-> 1]
  /\ UNCHANGED <<event, ignSigs, signalling, queueVars, evlists, running>>

(* Sched::adjustPrio for a blocked time below BAD_BLOCK_TIME ("bad"), of   *)
(* at least GOOD_BLOCK_TIME ("good") or in between ("medium").             *)
SetPriorityInPlace(t, p) ==
  /\ priority' = [priority EXCEPT ![t] = p]
  /\ UNCHANGED <<rdyQueues, readyMask>>

SetPriority(t, p) ==
  /\ priority' = [priority EXCEPT ![t] = p]
  /\ IF state[t] = "READY"
       THEN LET q == [rdyQueues EXCEPT ![priority[t]] = Unlink(@, t)]
            IN  /\ rdyQueues' = [q EXCEPT ![p] = Append(@, t)]
                /\ readyMask' = (IF q[priority[t]] = << >>
                                   THEN readyMask \ {priority[t]}
                                   ELSE readyMask) \cup {p}
       ELSE UNCHANGED <<rdyQueues, readyMask>>

Good(t, blocked) == blocked = "good" /\ priority[t] < MaxPrio
Forgive(t, blocked) == Good(t, blocked) /\ prioGoodCnt[t] + 1 = ForgiveCnt

(* The new prioGoodCnt.                                                    *)
GoodCnt(t, blocked) ==
  CASE blocked = "bad" \/ Forgive(t, blocked) -> 0
    [] Good(t, blocked) /\ ~ Forgive(t, blocked) -> prioGoodCnt[t] + 1
    [] OTHER -> prioGoodCnt[t]

AdjustPrio(t, blocked) ==
  /\ Unlocked
  /\ Exists(t)
  /\ CASE blocked = "bad" /\ priority[t] > 0 -> SetPriority(t, priority[t] - 1)
       [] Forgive(t, blocked) -> SetPriority(t, priority[t] + 1)
       [] OTHER -> UNCHANGED <<priority, rdyQueues, readyMask>>
  /\ prioGoodCnt' = [prioGoodCnt EXCEPT ![t] = GoodCnt(t, blocked)]
  /\ UNCHANGED <<thVars, sigVars, rdyCount, ctx, evlists, running, wk>>

-----------------------------------------------------------------------------
(* Sched::perform, called by doSwitch and initialSwitch.                   *)

(* Where a thread continues behind the switch.                             *)
After(t) ==
  CASE ctx[t] = "wait" -> "run"
    [] ctx[t] = "nosigs" -> "resumed"
    [] ctx[t] = "dying" -> "unreached"
    [] OTHER -> ctx[t]

NeverInterrupted(c) == FALSE

(* The old thread of processor c has a signal that it must not sleep on.   *)
Interrupted(c) ==
  /\ running[c] \in Thread
  /\ newState[running[c]] # "ZOMBIE"
  /\ HasSignal(running[c])

KeepSignalledListed(c) ==
  /\ Unlocked
  /\ Interrupted(c)
  /\ newState' = [newState EXCEPT ![running[c]] = "READY"]
  /\ ctx' = [ctx EXCEPT ![running[c]] = After(running[c])]
  /\ UNCHANGED <<state, event, evobject, evlists, prioVars, sigVars, queueVars,
                 running, wk>>

(* A pending signal: the old thread drops its intention to block and goes  *)
(* on behind the switch.                                                   *)
KeepSignalled(c) ==
  /\ Unlocked
  /\ Interrupted(c)
  /\ LET old == running[c]
     IN  /\ newState' = [newState EXCEPT ![old] = "READY"]
         /\ RemoveFromEventlist(old)
         /\ ctx' = [ctx EXCEPT ![old] = After(old)]
  /\ UNCHANGED <<state, evobject, prioVars, sigVars, queueVars, running, wk>>

(* The scheduler's state once the old thread has got its new state.        *)
Requeue(c) == running[c] \in Thread /\ newState[running[c]] = "READY"

StateKept(c) == state

StateOf(c) == IF running[c] \in Thread
                THEN [state EXCEPT ![running[c]] = newState[running[c]]]
                ELSE state
QueuesOf(c) == IF Requeue(c)
                 THEN [rdyQueues EXCEPT ![priority[running[c]]] =
                         Append(@, running[c])]
                 ELSE rdyQueues
MaskOf(c) == IF Requeue(c) THEN readyMask \cup {priority[running[c]]}
                           ELSE readyMask
CountOf(c) == IF Requeue(c) THEN rdyCount + 1 ELSE rdyCount

AgainAlways(c, p) == Head(QueuesOf(c)[p]) = running[c]

(* The old thread heads queue p again although others are ready: it goes   *)
(* back to the end of its queue and the search continues below.            *)
Again(c, p) == CountOf(c) > 1 /\ Head(QueuesOf(c)[p]) = running[c]

(* The priorities whose first thread may be taken.                         *)
Takeable(c) == {p \in Prio : QueuesOf(c)[p] # << >> /\ ~ Again(c, p)}

Passed(c, p) ==
  IF QueuesOf(c)[p] = << >>
    THEN << >>
    ELSE Append(Tail(QueuesOf(c)[p]), Head(QueuesOf(c)[p]))

(* The search goes from MAX_PRIO down.                                     *)
LowestFirst(c, p) == \A r \in Takeable(c) : r >= p

FirstFound(c, p) == \A r \in Takeable(c) : r <= p

(* The search finds a thread.                                              *)
SwitchTo(c, p) ==
  /\ Unlocked
  /\ ~ Interrupted(c)
  /\ p \in Takeable(c)
  /\ FirstFound(c, p)
  /\ LET t == Head(QueuesOf(c)[p])
         q == [r \in Prio |-> CASE r > p -> Passed(c, r)
                                [] r = p -> Tail(QueuesOf(c)[p])
                                [] OTHER -> QueuesOf(c)[r]]
     IN  /\ rdyQueues' = q
         /\ readyMask' = IF q[p] = << >> THEN MaskOf(c) \ {p} ELSE MaskOf(c)
         /\ rdyCount' = CountOf(c) - 1
         /\ state' = [StateOf(c) EXCEPT ![t] = "RUNNING"]
         /\ newState' = [newState EXCEPT ![t] = "READY"]
         /\ running' = [running EXCEPT ![c] = t]
         /\ ctx' = [ctx EXCEPT ![t] = After(t)]
  /\ UNCHANGED <<event, evobject, prioVars, sigVars, evlists, wk>>

(* The search finds no thread, which leaves the idle thread; had it passed *)
(* over the old thread at priority 0, it would return that one, still      *)
(* queued.                                                                 *)
SwitchToIdle(c) ==
  /\ Unlocked
  /\ ~ Interrupted(c)
  /\ Takeable(c) = {}
  /\ LET t == IF QueuesOf(c)[0] = << >> THEN Idle ELSE running[c]
     IN  /\ rdyQueues' = [p \in Prio |-> Passed(c, p)]
         /\ state' = IF t = Idle THEN StateOf(c)
                                 ELSE [StateOf(c) EXCEPT ![t] = "RUNNING"]
         /\ running' = [running EXCEPT ![c] = t]
  /\ readyMask' = MaskOf(c)
  /\ rdyCount' = CountOf(c)
  /\ UNCHANGED <<newState, event, evobject, prioVars, sigVars, ctx, evlists, wk>>

Switch(c) == (\E p \in Prio : SwitchTo(c, p)) \/ SwitchToIdle(c)

Perform(c) == KeepSignalled(c) \/ Switch(c)

-----------------------------------------------------------------------------
BlockedTime == {"bad", "medium", "good"}

AdjustNext == \E t \in Thread, b \in BlockedTime : AdjustPrio(t, b)

ThreadNext(t) ==
  \/ \E e \in Event, o \in Object \cup {NoObject} : Wait(t, e, o)
  \/ Block(t)
  \/ BeginNoSigs(t)
  \/ EndNoSigs(t)
  \/ HandleSignal(t)
  \/ Terminate(t)
  \/ \E p \in Prio : Create(t, p)
  \/ Unblock(t)
  \/ AddSignal(t)
  \/ SignalUnblock(t)
  \/ \E o \in Object : Kill(t, o)

SchedNext ==
  \/ \E t \in Thread : ThreadNext(t)
  \/ \E e \in Event, o \in Object \cup {NoObject} : Wakeup(e, o, TRUE)
  \/ WakeupStep
  \/ \E c \in CPU : Perform(c)

Next == SchedNext \/ AdjustNext

Spec == Init /\ [][Next]_vars

(* A processor that holds Sched::lock goes on and one that spins for it    *)
(* gets it; the timer interrupt calls switchAway on every processor again  *)
(* and again.                                                              *)
Fairness ==
  /\ WF_vars(WakeupStep)
  /\ \A c \in CPU : SF_vars(Perform(c))

FairSpec == Spec /\ Fairness
-----------------------------------------------------------------------------
(* Safety.                                                                 *)

Ready(st) == {t \in Thread : st[t] = "READY"}

(* The queues q, their mask m and their count n hold exactly the threads   *)
(* that are ready in st, at their priorities pr.                           *)
Exact(q, m, n, st, pr) ==
  /\ \A p \in Prio :
       /\ Distinct(q[p])
       /\ \A t \in Thread : InList(q[p], t) <=> st[t] = "READY" /\ pr[t] = p
  /\ m = {p \in Prio : q[p] # << >>}
  /\ n = Cardinality(Ready(st))

(* Every ready thread is linked exactly once, into the queue of its        *)
(* current priority, and nothing else is linked there; the mask that       *)
(* haveHigherPrio() reads and the count that perform() compares agree with *)
(* the queues.  Priorities change, threads die and signals arrive while    *)
(* threads are queued.                                                     *)
QueuesExact == Exact(rdyQueues, readyMask, rdyCount, state, priority)

(* A thread is linked into an event list iff it waits for that event, and  *)
(* only while it is blocked or about to block (the assertions on event in  *)
(* perform, wait, setReady and wakeup).                                    *)
EventsExact ==
  /\ \A e \in Event :
       /\ Distinct(evlists[e])
       /\ \A t \in Thread : InList(evlists[e], t) <=> event[t] = e
  /\ \A t \in Thread :
       event[t] # NoEvent =>
         \/ state[t] = "BLOCKED"
         \/ state[t] = "RUNNING" /\ newState[t] = "BLOCKED"

(* A thread is RUNNING iff exactly one processor executes it.              *)
OneCPUPerThread ==
  \A t \in Thread :
    /\ state[t] = "RUNNING" <=> \E c \in CPU : running[c] = t
    /\ \A c, d \in CPU : running[c] = t /\ running[d] = t => c = d

(* What the parts of the kernel know of a thread agrees: one that does not *)
(* exist is linked nowhere, runs nowhere and is nobody's target; one that  *)
(* runs and is not about to switch away has no intention but to go on.     *)
Coherent ==
  /\ \A t \in Thread :
       /\ ctx[t] = "none" =>
            state[t] = "BLOCKED" /\ event[t] = NoEvent /\ t \notin signalling
       /\ state[t] = "RUNNING" /\ ctx[t] \in {"run", "resumed", "unreached"} =>
            newState[t] = "READY"
  /\ Unlocked \/ (wk.event \in Event /\ wk.pos > 0)

(* A thread never sleeps on a signal that may interrupt it, except for the *)
(* moment between the two steps of addSignalFor (the scenario that the     *)
(* comment in perform describes).                                          *)
NoLostSignal ==
  \A t \in Thread : state[t] = "BLOCKED" /\ HasSignal(t) => t \in signalling

(* The conjunction is inductive.                                           *)
IndInv ==
  /\ TypeOK
  /\ QueuesExact
  /\ EventsExact
  /\ OneCPUPerThread
  /\ Coherent
  /\ NoLostSignal

(* A wakeup of all threads leaves nobody behind who waits for the event    *)
(* and the object (or for any object), although it unlinks threads from    *)
(* the list it walks.                                                      *)
WakeupComplete ==
  [][wk # NoWakeup /\ wk.all /\ wk' = NoWakeup =>
       \A t \in Thread : event'[t] = wk.event => ~ Matches(t)]_vars

(* A processor turns to its idle thread only if no thread is ready.        *)
WorkConserving ==
  [][\A c \in CPU : running'[c] = Idle /\ running[c] # Idle =>
       \A t \in Thread : state'[t] # "READY"]_vars

(* A processor that turns to another thread takes one of the highest       *)
(* priority among those that were ready.                                   *)
HighestFirst ==
  [][\A c \in CPU, t \in Thread : running'[c] = t /\ running[c] # t =>
       \A u \in Ready(state) : priority[u] <= priority[t]]_vars

(* On its way to ZOMBIE, or there.                                         *)
Doomed(t) ==
  /\ ctx[t] = "dying" /\ newState[t] = "ZOMBIE"
  /\ state[t] \in {"RUNNING", "ZOMBIE"}

(* Has called Thread::terminate, and will go on or has gone on behind the  *)
(* last switch.                                                            *)
Revived(t) == ctx[t] \in {"dying", "unreached"} /\ ~ Doomed(t)

(* Nothing but a signal revives a thread that has called Thread::terminate *)
(* (A_UNREACHED behind the last switch in terminateThread): no wakeup, no  *)
(* entry left in an event list, no tick, no switch.  A signaller does in   *)
(* its second step, since setReady() overwrites the new state ZOMBIE; the  *)
(* signal itself may be an old one that the thread has handled already.    *)
OnlySignalsRevive ==
  [][\A t \in Thread :
       Revived(t)' /\ ~ Revived(t) => t \in signalling \ signalling']_vars

(* The inductive form of WakeupComplete: the walk of a wakeup has left no  *)
(* match behind it.                                                        *)
Walked ==
  ~ Unlocked /\ wk.all =>
    \A i \in 1 .. Len(evlists[wk.event]) :
      i < wk.pos => ~ Matches(evlists[wk.event][i])

(* Liveness: a thread that is ready at the highest priority gets the       *)
(* processor, unless its priority is lowered meanwhile.                    *)
TopReadyRuns ==
  \A t \in Thread :
    (state[t] = "READY" /\ priority[t] = MaxPrio)
      ~> (state[t] # "READY" \/ priority[t] # MaxPrio)
=============================================================================
