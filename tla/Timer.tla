------------------------------- MODULE Timer --------------------------------
(***************************************************************************)
(* The timer (task/timer.cc) with the system calls that use it             *)
(* (syscalls/sthread.cc).  The listeners form a list in which each entry   *)
(* holds the difference to the one before it; the entries come from a pool.*)
(* Every operation runs under one spinlock and is one action.  A call of   *)
(* alarm() is two of them, a call of sleep() as well, with the sleep in    *)
(* between.                                                                *)
(***************************************************************************)
EXTENDS Integers, Sequences, FiniteSets, SequencesExt

CONSTANTS
  Thread,
  Alarmers,        \* threads that call alarm()
  Msecs,           \* times that are asked for
  TimeInc,         \* 1000 / FREQUENCY_DIV
  LISTENER_COUNT

ASSUME TimerAssumption ==
  /\ IsFiniteSet(Thread) /\ Alarmers \subseteq Thread
  /\ Msecs \subseteq Nat
  /\ TimeInc \in Nat \ {0}
  /\ LISTENER_COUNT \in Nat

VARIABLES
  listener,   \* list of entries [tid, time, block]
  free,       \* length of freeList
  pc,         \* what a thread does: "user", "alarm", "sleep", "wait", "dead"
  blocked,    \* threads that do not run
  sig,        \* threads with a pending signal
  armed,      \* threads with an alarm that has been set and has not gone off
  mixed       \* threads that have slept while an alarm was pending

vars == <<listener, free, pc, blocked, sig, armed, mixed>>

Entry == [tid : Thread, time : Nat, block : BOOLEAN]

TypeOK ==
  /\ listener \in Seq(Entry)
  /\ free \in 0 .. LISTENER_COUNT
  /\ pc \in [Thread -> {"user", "alarm", "sleep", "wait", "dead"}]
  /\ blocked \subseteq {t \in Thread : pc[t] \in {"sleep", "wait"}}
  /\ sig \subseteq Thread
  /\ armed \subseteq Alarmers
  /\ mixed \subseteq Thread

Init ==
  /\ listener = <<>>
  /\ free = LISTENER_COUNT
  /\ pc = [t \in Thread |-> "user"]
  /\ blocked = {} /\ sig = {} /\ armed = {} /\ mixed = {}

(* The time from now until entry i: the differences up to it. *)
Until(l) ==
  LET sum[i \in 0 .. Len(l)] == IF i = 0 THEN 0 ELSE sum[i - 1] + l[i].time
  IN  sum

EndedBy(l, m) == Cardinality({i \in DOMAIN l : Until(l)[i] <= m})

EntriesOf(t) == {i \in DOMAIN listener : listener[i].tid = t}

InsertedKeepsNext(l, t, m, block) ==
  LET k == EndedBy(l, m)
  IN  InsertAt(l, k + 1, [tid |-> t, time |-> m - Until(l)[k], block |-> block])

Inserted(l, t, m, block) ==
  LET k    == EndedBy(l, m)
      time == m - Until(l)[k]
      rest == IF k < Len(l) THEN [l EXCEPT ![k + 1].time = @ - time] ELSE l
  IN  InsertAt(rest, k + 1, [tid |-> t, time |-> time, block |-> block])

Removed(l, i) ==
  RemoveAt(IF i < Len(l) THEN [l EXCEPT ![i + 1].time = @ + l[i].time] ELSE l, i)

(* removeThread(): the first entry of the thread, and only that one. *)
RemoveThread(t) ==
  IF EntriesOf(t) = {}
    THEN UNCHANGED <<listener, free>>
    ELSE LET i == CHOOSE j \in EntriesOf(t) : \A k \in EntriesOf(t) : j <= k
         IN  /\ listener' = Removed(listener, i)
             /\ free' = free + 1

(* sleepFor() with an entry from the pool. *)
SleepFor(t, m, block) ==
  /\ free > 0
  /\ free' = free - 1
  /\ listener' = Inserted(listener, t, m, block)

-----------------------------------------------------------------------------
(* System calls. *)

(* alarm() first removes an entry of the thread and then makes a new one. *)
Alarm(t) ==
  /\ pc[t] = "user" /\ t \in Alarmers
  /\ RemoveThread(t)
  /\ pc' = [pc EXCEPT ![t] = "alarm"]
  /\ armed' = armed \ {t}
  /\ UNCHANGED <<blocked, sig, mixed>>

AlarmSet(t, m) ==
  /\ pc[t] = "alarm"
  /\ SleepFor(t, m, FALSE)
  /\ pc' = [pc EXCEPT ![t] = "user"]
  /\ armed' = armed \cup {t}
  /\ UNCHANGED <<blocked, sig, mixed>>

AlarmFails(t) ==
  /\ pc[t] = "alarm" /\ free = 0
  /\ pc' = [pc EXCEPT ![t] = "user"]
  /\ UNCHANGED <<listener, free, blocked, sig, armed, mixed>>

(* sleep() announces to block while it holds the lock.  If the pool is     *)
(* empty, it returns with an error.                                        *)
Sleep(t, m) ==
  /\ pc[t] = "user"
  /\ SleepFor(t, m, TRUE)
  /\ pc' = [pc EXCEPT ![t] = "sleep"]
  /\ blocked' = blocked \cup {t}
  /\ mixed' = IF EntriesOf(t) = {} THEN mixed ELSE mixed \cup {t}
  /\ UNCHANGED <<sig, armed>>

SleepReturnNoRemove(t) ==
  /\ pc[t] = "sleep" /\ t \notin blocked
  /\ pc' = [pc EXCEPT ![t] = "user"]
  /\ UNCHANGED <<listener, free, blocked, sig, armed, mixed>>

(* The sleep is over or a signal has come. *)
SleepReturn(t) ==
  /\ pc[t] = "sleep" /\ t \notin blocked
  /\ RemoveThread(t)
  /\ pc' = [pc EXCEPT ![t] = "user"]
  /\ UNCHANGED <<blocked, sig, armed, mixed>>

(* A wait for something else and its end. *)
Wait(t) ==
  /\ pc[t] = "user"
  /\ pc' = [pc EXCEPT ![t] = "wait"]
  /\ blocked' = blocked \cup {t}
  /\ UNCHANGED <<listener, free, sig, armed, mixed>>

(* The other side wakes the thread, or perform() does not put it to sleep  *)
(* because a signal is pending.                                            *)
Wakeup(t) ==
  /\ t \in blocked
  /\ pc[t] = "wait" \/ t \in sig
  /\ blocked' = blocked \ {t}
  /\ UNCHANGED <<listener, free, pc, sig, armed, mixed>>

WaitReturn(t) ==
  /\ pc[t] = "wait" /\ t \notin blocked
  /\ pc' = [pc EXCEPT ![t] = "user"]
  /\ UNCHANGED <<listener, free, blocked, sig, armed, mixed>>

(* A signal that the thread handles or dies of. *)
Signal(t) ==
  /\ pc[t] # "dead"
  /\ sig' = sig \cup {t}
  /\ blocked' = blocked \ {t}
  /\ UNCHANGED <<listener, free, pc, armed, mixed>>

HandleSignal(t) ==
  /\ pc[t] = "user" /\ t \in sig
  /\ sig' = sig \ {t}
  /\ UNCHANGED <<listener, free, pc, blocked, armed, mixed>>

(* Thread::terminate() removes the thread from the timer. *)
Terminate(t) ==
  /\ pc[t] = "user"
  /\ RemoveThread(t)
  /\ pc' = [pc EXCEPT ![t] = "dead"]
  /\ sig' = sig \ {t} /\ armed' = armed \ {t} /\ mixed' = mixed \ {t}
  /\ UNCHANGED blocked

(* The thread id is used again. *)
Create(t) ==
  /\ pc[t] = "dead"
  /\ pc' = [pc EXCEPT ![t] = "user"]
  /\ UNCHANGED <<listener, free, blocked, sig, armed, mixed>>

-----------------------------------------------------------------------------
TickedStands(l) == SubSeq(l, EndedBy(l, TimeInc) + 1, Len(l))

(* The entries whose time is over leave the list; what is left of the tick *)
(* is taken from the first one that stays.                                 *)
Ticked(l) ==
  LET ended == EndedBy(l, TimeInc)
      rest  == SubSeq(l, ended + 1, Len(l))
  IN  IF rest = <<>> THEN rest
      ELSE [rest EXCEPT ![1].time = Until(l)[ended + 1] - TimeInc]

(* intrpt() on processor 0.  A thread that handles SIGALRM (the threads in *)
(* handlers) gets the signal, the others ignore it.                        *)
Intrpt(handlers) ==
  LET ended   == {listener[i] : i \in 1 .. EndedBy(listener, TimeInc)}
      woken   == {e.tid : e \in {x \in ended : x.block}}
      expired == {e.tid : e \in {x \in ended : ~x.block}}
  IN  /\ handlers \subseteq expired
      /\ listener' = Ticked(listener)
      /\ free' = free + EndedBy(listener, TimeInc)
      /\ sig' = sig \cup handlers
      /\ blocked' = blocked \ (woken \cup handlers)
      /\ armed' = armed \ expired
      /\ UNCHANGED <<pc, mixed>>

Tick == \E handlers \in SUBSET Alarmers : Intrpt(handlers)

Next ==
  \/ Tick
  \/ \E t \in Thread :
       \/ Alarm(t) \/ AlarmFails(t) \/ SleepReturn(t)
       \/ \E m \in Msecs : AlarmSet(t, m) \/ Sleep(t, m)
       \/ Wait(t) \/ Wakeup(t) \/ WaitReturn(t)
       \/ Signal(t) \/ HandleSignal(t) \/ Terminate(t) \/ Create(t)

(* The timer interrupt comes for ever. *)
Spec == Init /\ [][Next]_vars /\ WF_vars(Tick)

-----------------------------------------------------------------------------
(* The requests that the list stands for, with the time that is left.      *)
Pending(l) ==
  [i \in DOMAIN l |->
     [tid |-> l[i].tid, block |-> l[i].block, left |-> Until(l)[i]]]

D == INSTANCE Deadlines WITH pending <- Pending(listener)

(* The list of differences implements the list of remaining times: no      *)
(* insertion, removal or tick shifts another request, and each is served   *)
(* in the first tick at or after its end (sleepFor, removeThread, intrpt). *)
ImplementsDeadlines == D!Spec

(* Although removeThread() stops at the first entry, a thread leaves       *)
(* nothing behind: outside of sleep() it has at most one entry, within at  *)
(* most two, and a dead thread, whose id getById() no longer finds or      *)
(* which is another thread's, has none.                                    *)
NoEntryOfDead ==
  \A t \in Thread :
    Cardinality(EntriesOf(t)) <=
      CASE pc[t] = "dead"  -> 0
        [] pc[t] = "alarm" -> 0
        [] pc[t] = "sleep" -> 2
        [] OTHER           -> 1

(* An alarm is in the list until it goes off, for a thread that does not   *)
(* sleep meanwhile (see the README for one that does).                     *)
AlarmKept ==
  \A t \in armed \ mixed : \E i \in EntriesOf(t) : ~listener[i].block

(* The timer does not wake a thread out of a wait for something else, for  *)
(* a thread that has not slept with an alarm pending.                      *)
NoStrayWakeup ==
  \A t \in Thread \ mixed :
    (\E i \in EntriesOf(t) : listener[i].block) => pc[t] = "sleep"

(* The list holds the entries that its threads have asked for and no       *)
(* others, and shares LISTENER_COUNT entries with the pool: whatever       *)
(* mixture of timeouts, interruptions and deaths, none is lost and none is *)
(* left behind (sleepFor, removeThread).                                   *)
EntriesExact ==
  /\ TypeOK
  /\ free + Len(listener) = LISTENER_COUNT
  /\ NoEntryOfDead /\ AlarmKept /\ NoStrayWakeup

(* Every sleep ends: the time runs down, whatever the others ask for.      *)
SleepEnds ==
  \A t \in Thread : (pc[t] = "sleep" /\ t \in blocked) ~> t \notin blocked
-----------------------------------------------------------------------------
(* An inductive invariant: how many entries a thread has, by what it does; *)
(* who has not slept with an alarm pending has one of them while it sleeps.*)

AtMostOne(t) == \A i, j \in EntriesOf(t) : i = j
AtMostTwo(t) == \A i, j, k \in EntriesOf(t) : i = j \/ j = k \/ i = k

Held(t) ==
  /\ pc[t] \in {"dead", "alarm"} => EntriesOf(t) = {}
  /\ pc[t] \in {"user", "wait"} => AtMostOne(t)
  /\ pc[t] = "sleep" => AtMostTwo(t)
  /\ pc[t] = "sleep" /\ t \notin mixed => AtMostOne(t) /\ t \notin armed
  /\ pc[t] = "alarm" => t \in Alarmers

TimerInv ==
  /\ TypeOK
  /\ free + Len(listener) = LISTENER_COUNT
  /\ \A t \in Thread : Held(t)
  /\ AlarmKept /\ NoStrayWakeup
=============================================================================
