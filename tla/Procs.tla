------------------------------- MODULE Procs --------------------------------
(***************************************************************************)
(* The life of processes (task/proc.cc, task/terminator.cc): clone, threads*)
(* that start and end, termination, the terminator thread, waiting for     *)
(* children, and the references that keep a process in memory.             *)
(*                                                                         *)
(* prog[p] is the mutex PLOCK_PROG of process p.  What a thread does under *)
(* it without asking for a further lock is one action, which requires the  *)
(* mutex to be free; it is held between actions only where the code asks   *)
(* for childLock, procLock or another process while it holds it.  Any      *)
(* number of threads are in the kernel at the same time.                   *)
(***************************************************************************)
EXTENDS Integers, Sequences, FiniteSets

CONSTANTS
  Pid,          \* process 0 is init
  Thread,
  Terminator,   \* the thread that buries the others
  InitThread, FirstThread,   \* the threads of process 0 and of the first process
  FirstPid,
  Waiters,      \* threads that call waitChild
  Starters,     \* threads that call startThread
  Peekers,      \* threads that look at other processes
  None

ASSUME ProcsAssumption ==
  /\ IsFiniteSet(Pid) /\ 0 \in Pid /\ FirstPid \in Pid \ {0}
  /\ IsFiniteSet(Thread)
  /\ {Terminator, InitThread, FirstThread} \subseteq Thread
  /\ Terminator \notin {InitThread, FirstThread} /\ InitThread # FirstThread
  /\ None \notin Thread \cup Pid

VARIABLES
  present,    \* processes in pidToProc
  ppid,       \* parentPid
  life,       \* the flags: none, P_PREZOMBIE, P_ZOMBIE, P_ZOMBIE | P_KILLED
  refs,
  code,       \* stats.exitCode and exitSignal
  released,   \* terminate() has released the resources of the process
  born,       \* processes that have the reference with which they were born
  home,       \* the process in whose list a thread is
  at,         \* what a thread does: [pc, tgt, ret], see below
  sig,        \* threads with a fatal signal
  woken,      \* threads that wait and have been woken
  deadThreads,
  prog, childLock, procLock, refLock,  \* owners of the locks
  kept        \* waitChild() has returned with childLock

procVars == <<present, ppid, life, code, released, born>>
lockVars == <<prog, childLock, kept, procLock>>
vars == <<procVars, refs, home, at, sig, woken, deadThreads, lockVars, refLock>>

(* at[t].tgt is the process the thread has a reference to while it is      *)
(* inside an operation, at[t].ret where it goes after relRef.              *)
At(t, pc) == at[t].pc = pc
Go(t, pc) == at' = [at EXCEPT ![t].pc = pc]

Threads(p) == {t \in Thread : home[t] = p}
Dying(p)   == life[p] # "alive"
Children(p) == {c \in present : ppid[c] = p}

(* Points at which a thread has a reference from getRef. *)
Referring == {"clone", "cl_add", "cl_fill", "start", "exit", "term",
              "join", "finish", "kill", "ki_child", "ki_proc", "ki_loop",
              "ki_note", "ki_end", "kt", "kt_child", "kt_note", "rel"}
Points == Referring \cup
  {"free", "user", "rm", "te_req", "jo_req", "jo_wait", "fin_req", "gone", "cl_end",
   "wc", "wc_again", "wc_get", "wc_get_again", "wc_event", "wc_wait", "ki_req",
   "kt_req", "idle"}

TypeOK ==
  /\ present \subseteq Pid
  /\ ppid \in [Pid -> Pid]
  /\ life \in [Pid -> {"alive", "prezombie", "zombie", "killed"}]
  /\ refs \in [Pid -> Nat]
  /\ code \in [Pid -> {"none", "exit", "signal"}]
  /\ released \subseteq Pid /\ born \subseteq Pid
  /\ home \in [Thread -> Pid \cup {None}]
  /\ at \in [Thread -> [pc : Points, tgt : Pid, ret : Points, arg : Pid \cup Thread \cup {None}]]
  /\ sig \subseteq Thread /\ woken \subseteq Thread
  /\ deadThreads \in Seq(Thread)
  /\ prog \in [Pid -> Thread \cup {None}]
  /\ {childLock, procLock, refLock} \subseteq Thread \cup {None} /\ kept \in BOOLEAN

Loc(pc) == [pc |-> pc, tgt |-> 0, ret |-> "user", arg |-> None]

Init ==
  /\ present = {0, FirstPid}
  /\ ppid = [p \in Pid |-> 0]
  /\ life = [p \in Pid |-> "alive"]
  /\ refs = [p \in Pid |-> CASE p = 0 -> 3 [] p = FirstPid -> 2 [] OTHER -> 0]
  /\ code = [p \in Pid |-> "none"]
  /\ released = {} /\ born = present
  /\ home = [t \in Thread |-> CASE t \in {Terminator, InitThread} -> 0
                                [] t = FirstThread -> FirstPid
                                [] OTHER -> None]
  /\ at = [t \in Thread |-> Loc(CASE t = Terminator -> "idle"
                                  [] t \in {InitThread, FirstThread} -> "user"
                                  [] OTHER -> "free")]
  /\ sig = {} /\ woken = {} /\ deadThreads = <<>>
  /\ prog = [p \in Pid |-> None]
  /\ childLock = None /\ procLock = None /\ refLock = None /\ kept = FALSE

-----------------------------------------------------------------------------
(* childLock.down() and up().  A mutex counts: a thread that has kept it   *)
(* gets it once more at once, and its up() does not make it free again.    *)
ChildDown(t) == childLock \in {None, t} /\ childLock' = t
ChildUp == childLock' = IF kept THEN childLock ELSE None

-----------------------------------------------------------------------------
(* References. *)

(* getRef, as the first half of request. *)
Request(t, p, pc) ==
  /\ refLock = None /\ p \in present
  /\ refs' = [refs EXCEPT ![p] = @ + 1]
  /\ at' = [at EXCEPT ![t].pc = pc, ![t].tgt = p]

(* The second half of release follows the unlock of the mutex. *)
Release(t, ret) == at' = [at EXCEPT ![t].pc = "rel", ![t].ret = ret]

(* What the thread remembers of the operation is forgotten with its end.   *)
Continue(t) == at' = [at EXCEPT ![t] = Loc(at[t].ret)]

(* The last reference takes the process out of the lists, which needs      *)
(* procLock, with refLock held.                                            *)
RelRef(t) ==
  /\ At(t, "rel") /\ refLock = None
  /\ LET p == at[t].tgt
     IN  /\ refs' = [refs EXCEPT ![p] = @ - 1]
         /\ IF refs[p] = 1
              THEN refLock' = t /\ Go(t, "rm")
              ELSE refLock' = refLock /\ Continue(t)
  /\ UNCHANGED <<procVars, home, sig, woken, deadThreads, lockVars>>

Remove(t) ==
  /\ At(t, "rm") /\ procLock = None
  /\ LET p == at[t].tgt
     IN  /\ present' = present \ {p}
         /\ ppid' = [ppid EXCEPT ![p] = 0]
         /\ life' = [life EXCEPT ![p] = "alive"]
         /\ code' = [code EXCEPT ![p] = "none"]
         /\ released' = released \ {p} /\ born' = born
  /\ refLock' = None
  /\ Continue(t)
  /\ UNCHANGED <<refs, home, sig, woken, deadThreads, lockVars>>

(* A system call that looks at a process, for example getppid. *)
Peek(t, p) ==
  /\ At(t, "user") /\ t \in Peekers
  /\ refLock = None /\ p \in present
  /\ refs' = [refs EXCEPT ![p] = @ + 1]
  /\ at' = [at EXCEPT ![t].pc = "rel", ![t].tgt = p, ![t].ret = "user"]
  /\ UNCHANGED <<procVars, home, sig, woken, deadThreads, lockVars, refLock>>

(* The calls of a thread that begin with a request of its own process:     *)
(* clone; exit; terminate, after a fatal signal, a fault or a failed exec; *)
(* and the requests within terminate.  Init is never asked to end.         *)
OwnRequest(t, pc) ==
  /\ \/ At(t, "user") /\ pc = "clone" /\ t \notin sig
     \/ At(t, "user") /\ pc \in {"exit", "term"} /\ home[t] # 0
     \/ <<at[t].pc, pc>> \in {<<"te_req", "term">>, <<"jo_req", "join">>,
                              <<"fin_req", "finish">>}
  /\ Request(t, home[t], pc)
  /\ UNCHANGED <<procVars, home, sig, woken, deadThreads, lockVars, refLock>>

-----------------------------------------------------------------------------
(* clone and startThread. *)

Clone(t) ==
  /\ At(t, "clone") /\ prog[home[t]] = None
  /\ IF Dying(home[t])
       THEN prog' = prog /\ Release(t, "user")
       ELSE prog' = [prog EXCEPT ![home[t]] = t] /\ Go(t, "cl_add")
  /\ UNCHANGED <<procVars, refs, home, sig, woken, deadThreads, childLock, kept, procLock, refLock>>

(* The process gets a free pid and is visible from then on. *)
CloneAdd(t, q) ==
  /\ At(t, "cl_add") /\ procLock = None
  /\ q \notin present
  /\ present' = present \cup {q} /\ born' = born \cup {q}
  /\ ppid' = [ppid EXCEPT ![q] = home[t]]
  /\ refs' = [refs EXCEPT ![q] = 1]
  /\ at' = [at EXCEPT ![t].pc = "cl_fill", ![t].arg = q]
  /\ UNCHANGED <<life, code, released, home, sig, woken, deadThreads, lockVars, refLock>>

CloneNoPid(t) ==
  /\ At(t, "cl_add") /\ procLock = None /\ present = Pid
  /\ prog' = [prog EXCEPT ![home[t]] = None]
  /\ Release(t, "user")
  /\ UNCHANGED <<procVars, refs, home, sig, woken, deadThreads, childLock, kept, procLock, refLock>>

(* The thread of the new process, which holds a reference to it. *)
CloneDone(t, n) ==
  /\ At(t, "cl_fill") /\ refLock = None
  /\ At(n, "free")
  /\ home' = [home EXCEPT ![n] = at[t].arg]
  /\ refs' = [refs EXCEPT ![at[t].arg] = @ + 1]
  /\ at' = [at EXCEPT ![n] = Loc("user"),
                      ![t] = [@ EXCEPT !.pc = "rel", !.ret = "user", !.arg = None]]
  /\ prog' = [prog EXCEPT ![home[t]] = None]
  /\ UNCHANGED <<procVars, sig, woken, deadThreads, childLock, kept, procLock, refLock>>

(* Anything after the process has been added may fail; it is let go again. *)
CloneFails(t) ==
  /\ At(t, "cl_fill")
  /\ at' = [at EXCEPT ![t] = [pc |-> "rel", tgt |-> @.arg, ret |-> "cl_end", arg |-> None]]
  /\ born' = born \ {at[t].arg}
  /\ UNCHANGED <<present, ppid, life, code, released, refs, home, sig, woken, deadThreads, lockVars, refLock>>

CloneEnd(t) ==
  /\ At(t, "cl_end")
  /\ prog' = [prog EXCEPT ![home[t]] = None]
  /\ at' = [at EXCEPT ![t].pc = "rel", ![t].tgt = home[t], ![t].ret = "user"]
  /\ UNCHANGED <<procVars, refs, home, sig, woken, deadThreads, childLock, kept, procLock, refLock>>

(* The flags are looked at before the lock is taken, and not again. *)
StartRequest(t) ==
  /\ At(t, "user") /\ t \in Starters /\ t \notin sig
  /\ ~Dying(home[t])
  /\ Request(t, home[t], "start")
  /\ UNCHANGED <<procVars, home, sig, woken, deadThreads, lockVars, refLock>>

StartThreadNoRef(t, n) ==
  /\ At(t, "start") /\ prog[home[t]] = None /\ refLock = None
  /\ At(n, "free")
  /\ home' = [home EXCEPT ![n] = home[t]]
  /\ at' = [at EXCEPT ![n] = Loc("user"), ![t].pc = "rel", ![t].ret = "user"]
  /\ UNCHANGED <<procVars, refs, sig, woken, deadThreads, lockVars, refLock>>

StartThread(t, n) ==
  /\ At(t, "start") /\ prog[home[t]] = None /\ refLock = None
  /\ At(n, "free")
  /\ home' = [home EXCEPT ![n] = home[t]]
  /\ refs' = [refs EXCEPT ![home[t]] = @ + 1]
  /\ at' = [at EXCEPT ![n] = Loc("user"), ![t].pc = "rel", ![t].ret = "user"]
  /\ UNCHANGED <<procVars, sig, woken, deadThreads, lockVars, refLock>>

StartFails(t) ==
  /\ At(t, "start") /\ prog[home[t]] = None
  /\ Release(t, "user")
  /\ UNCHANGED <<procVars, refs, home, sig, woken, deadThreads, lockVars, refLock>>

-----------------------------------------------------------------------------
(* The end of threads. *)

(* Thread::terminate() and addDead(). *)
Bury(t) == deadThreads' = Append(deadThreads, t) /\ Release(t, "gone")

(* terminateThread: the last thread ends the process. *)
TerminateThread(t) ==
  /\ At(t, "exit") /\ prog[home[t]] = None
  /\ IF Threads(home[t]) = {t}
       THEN Release(t, "te_req") /\ deadThreads' = deadThreads
       ELSE Bury(t)
  /\ UNCHANGED <<procVars, refs, home, sig, woken, lockVars, refLock>>

(* The first one to come marks the process and kills the other threads;    *)
(* the others only end themselves.                                         *)
Terminate(t) ==
  /\ At(t, "term") /\ prog[home[t]] = None
  /\ LET p == home[t]
     IN  IF Dying(p)
           THEN Bury(t) /\ UNCHANGED <<code, sig, life>>
           ELSE /\ code' = [code EXCEPT ![p] = IF t \in sig THEN "signal" ELSE "exit"]
                /\ sig' = (sig \cup Threads(p)) \ {t}
                /\ life' = [life EXCEPT ![p] = "prezombie"]
                /\ Release(t, "jo_req") /\ deadThreads' = deadThreads
  /\ UNCHANGED <<born, refs, present, ppid, released, home, woken, lockVars, refLock>>

JoinLiving(t) ==
  /\ At(t, "join") /\ prog[home[t]] = None
  /\ woken' = woken \ {t}
  /\ Release(t, IF \A u \in Threads(home[t]) : u = t \/ At(u, "gone")
                  THEN "fin_req" ELSE "jo_wait")
  /\ UNCHANGED <<procVars, refs, home, sig, deadThreads, lockVars, refLock>>

(* join(0,false): wait() comes before the release of the lock. *)
Join(t) ==
  /\ At(t, "join") /\ prog[home[t]] = None
  /\ woken' = woken \ {t}
  /\ Release(t, IF Threads(home[t]) = {t} THEN "fin_req" ELSE "jo_wait")
  /\ UNCHANGED <<procVars, refs, home, sig, deadThreads, lockVars, refLock>>

JoinWoken(t) ==
  /\ At(t, "jo_wait") /\ t \in woken
  /\ woken' = woken \ {t}
  /\ Go(t, "jo_req")
  /\ UNCHANGED <<procVars, refs, home, sig, deadThreads, lockVars, refLock>>

(* The rest of terminate(): the resources go, then the thread. *)
Finish(t) ==
  /\ At(t, "finish") /\ prog[home[t]] = None
  /\ released' = released \cup {home[t]}
  /\ Bury(t)
  /\ UNCHANGED <<born, present, ppid, life, code, refs, home, sig, woken, lockVars, refLock>>

(* Proc::addSignalFor with a signal that kills, sent by anybody. *)
SendKill(p) ==
  /\ p \in present \ {0} /\ prog[p] = None /\ ~Dying(p)
  /\ ~(Threads(p) \subseteq sig)
  /\ sig' = sig \cup Threads(p)
  /\ UNCHANGED <<procVars, refs, home, at, woken, deadThreads, lockVars, refLock>>

-----------------------------------------------------------------------------
(* The terminator. *)

TakeDead(t) ==
  /\ At(t, "idle") /\ deadThreads # <<>>
  /\ at' = [at EXCEPT ![t].pc = "kt_req", ![t].arg = Head(deadThreads)]
  /\ deadThreads' = Tail(deadThreads)
  /\ UNCHANGED <<procVars, refs, home, sig, woken, lockVars, refLock>>

(* It waits until the thread has left its processor for the last time. *)
KillThreadRequest(t) ==
  /\ At(t, "kt_req") /\ At(at[t].arg, "gone")
  /\ Request(t, home[at[t].arg], "kt")
  /\ UNCHANGED <<procVars, home, sig, woken, deadThreads, lockVars, refLock>>

Sleepers(p) == {u \in Threads(p) : "jo_wait" \in {at[u].pc, at[u].ret}}

(* The last thread makes the process a zombie. *)
IsLastCounted(d, p) == Cardinality(Threads(p)) <= 2

IsLast(d, p) == Threads(p) = {d}

KillThread(t) ==
  /\ At(t, "kt") /\ prog[at[t].tgt] = None /\ refLock = None
  /\ LET d    == at[t].arg
         p    == at[t].tgt
         last == IsLast(d, p)
     IN  /\ home' = [home EXCEPT ![d] = None]
         /\ sig' = sig \ {d}
         /\ refs' = [refs EXCEPT ![p] = @ - 1]
         /\ woken' = woken \cup Sleepers(p)
         /\ life' = IF last THEN [life EXCEPT ![p] = "zombie"] ELSE life
         /\ prog' = IF last THEN [prog EXCEPT ![p] = t] ELSE prog
         /\ at' = [at EXCEPT ![d] = Loc("free"),
                             ![t] = [@ EXCEPT !.pc = IF last THEN "kt_child" ELSE "rel",
                                              !.ret = "idle", !.arg = None]]
  /\ UNCHANGED <<born, present, ppid, code, released, deadThreads, childLock, kept, procLock, refLock>>

KillThreadUnlocked(t) ==
  /\ At(t, "kt_child")
  /\ Go(t, "kt_note")
  /\ UNCHANGED <<procVars, refs, home, sig, woken, deadThreads, lockVars, refLock>>

KillThreadLock(t) ==
  /\ At(t, "kt_child") /\ ChildDown(t)
  /\ Go(t, "kt_note")
  /\ UNCHANGED <<procVars, refs, home, sig, woken, deadThreads, prog, kept, procLock, refLock>>

(* notifyProcDied: addSignalFor(), which waits for the parent's lock, and  *)
(* the wakeup.  SIGCHLD is ignored.                                        *)
NotifyProcDied(p) ==
  /\ p \in present => prog[p] = None /\ refLock = None
  /\ woken' = woken \cup {u \in Threads(p) : at[u].pc = "wc_wait"}

KillThreadNotify(t) ==
  /\ At(t, "kt_note")
  /\ NotifyProcDied(ppid[at[t].tgt])
  /\ ChildUp
  /\ prog' = [prog EXCEPT ![at[t].tgt] = None]
  /\ Release(t, "idle")
  /\ UNCHANGED <<procVars, refs, home, sig, deadThreads, kept, procLock, refLock>>

-----------------------------------------------------------------------------
(* waitChild and kill. *)

WaitChild(t) ==
  /\ At(t, "user") /\ t \in Waiters /\ t \notin sig
  /\ Go(t, "wc")
  /\ UNCHANGED <<procVars, refs, home, sig, woken, deadThreads, lockVars, refLock>>

WaitLock(t) ==
  /\ at[t].pc \in {"wc", "wc_again"} /\ ChildDown(t)
  /\ Go(t, IF At(t, "wc") THEN "wc_get" ELSE "wc_get_again")
  /\ UNCHANGED <<procVars, refs, home, sig, woken, deadThreads, prog, kept, procLock, refLock>>

GetExitStateLocked(t, c) ==
  /\ at[t].pc \in {"wc_get", "wc_get_again"} /\ procLock = None
  /\ c \in Children(home[t]) /\ life[c] = "zombie"
  /\ life' = [life EXCEPT ![c] = "killed"]
  /\ at' = [at EXCEPT ![t].pc = "ki_req", ![t].arg = c]
  /\ UNCHANGED <<born, present, ppid, code, released, refs, home, sig, woken, deadThreads, lockVars, refLock>>

(* getExitState finds a zombie that nobody has found before, ...           *)
GetExitState(t, c) ==
  /\ at[t].pc \in {"wc_get", "wc_get_again"} /\ procLock = None
  /\ c \in Children(home[t]) /\ life[c] = "zombie"
  /\ life' = [life EXCEPT ![c] = "killed"]
  /\ ChildUp
  /\ at' = [at EXCEPT ![t].pc = "ki_req", ![t].arg = c]
  /\ UNCHANGED <<born, present, ppid, code, released, refs, home, sig, woken, deadThreads, prog, kept, procLock, refLock>>

(* ... children but no zombie, so that the thread announces to wait before *)
(* it releases childLock, ...                                              *)
GetNoZombie(t) ==
  /\ at[t].pc \in {"wc_get", "wc_get_again"} /\ procLock = None
  /\ Children(home[t]) # {}
  /\ \A c \in Children(home[t]) : life[c] # "zombie"
  /\ Go(t, "wc_event")
  /\ UNCHANGED <<procVars, refs, home, sig, woken, deadThreads, lockVars, refLock>>

WaitEvent(t) ==
  /\ At(t, "wc_event")
  /\ woken' = woken \ {t}
  /\ ChildUp
  /\ Go(t, "wc_wait")
  /\ UNCHANGED <<procVars, refs, home, sig, deadThreads, prog, kept, procLock, refLock>>

(* ... or no child: childLock is not released after a wait.                *)
GetNoChild(t) ==
  /\ at[t].pc \in {"wc_get", "wc_get_again"} /\ procLock = None
  /\ Children(home[t]) = {}
  /\ IF At(t, "wc_get")
       THEN ChildUp /\ kept' = kept
       ELSE childLock' = childLock /\ kept' = TRUE
  /\ Go(t, "user")
  /\ UNCHANGED <<procVars, refs, home, sig, woken, deadThreads, prog, procLock, refLock>>

WaitWoken(t) ==
  /\ At(t, "wc_wait") /\ (t \in woken \/ t \in sig)
  /\ woken' = woken \ {t}
  /\ Go(t, IF t \in sig THEN "user" ELSE "wc_again")
  /\ UNCHANGED <<procVars, refs, home, sig, deadThreads, lockVars, refLock>>

KillRequest(t) ==
  /\ At(t, "ki_req")
  /\ Request(t, at[t].arg, "kill")
  /\ UNCHANGED <<procVars, home, sig, woken, deadThreads, lockVars, refLock>>

Kill(t) ==
  /\ At(t, "kill") /\ prog[at[t].tgt] = None
  /\ prog' = [prog EXCEPT ![at[t].tgt] = t]
  /\ at' = [at EXCEPT ![t].pc = "ki_child", ![t].arg = None]
  /\ UNCHANGED <<procVars, refs, home, sig, woken, deadThreads, childLock, kept, procLock, refLock>>

KillLockChild(t) ==
  /\ At(t, "ki_child") /\ ChildDown(t)
  /\ Go(t, "ki_proc")
  /\ UNCHANGED <<procVars, refs, home, sig, woken, deadThreads, prog, kept, procLock, refLock>>

KillLockProc(t) ==
  /\ At(t, "ki_proc") /\ procLock = None
  /\ procLock' = t
  /\ Go(t, "ki_loop")
  /\ UNCHANGED <<procVars, refs, home, sig, woken, deadThreads, prog, childLock, kept, refLock>>

(* The children go to init, which hears of those that are dead. *)
KillAdopt(t, c) ==
  /\ At(t, "ki_loop") /\ c \in Children(at[t].tgt)
  /\ ppid' = [ppid EXCEPT ![c] = 0]
  /\ Go(t, IF life[c] \in {"zombie", "killed"} THEN "ki_note" ELSE "ki_loop")
  /\ UNCHANGED <<born, present, life, code, released, refs, home, sig, woken, deadThreads, lockVars, refLock>>

KillNotify(t) ==
  /\ At(t, "ki_note")
  /\ NotifyProcDied(0)
  /\ Go(t, "ki_loop")
  /\ UNCHANGED <<procVars, refs, home, sig, deadThreads, lockVars, refLock>>

KillUnlockEarly(t) ==
  /\ At(t, "ki_loop")
  /\ ChildUp /\ procLock' = None
  /\ Go(t, "ki_end")
  /\ UNCHANGED <<procVars, refs, home, sig, woken, deadThreads, prog, kept, refLock>>

KillUnlock(t) ==
  /\ At(t, "ki_loop") /\ Children(at[t].tgt) = {}
  /\ ChildUp /\ procLock' = None
  /\ Go(t, "ki_end")
  /\ UNCHANGED <<procVars, refs, home, sig, woken, deadThreads, prog, kept, refLock>>

(* The reference with which the process was born. *)
KillEnd(t) ==
  /\ At(t, "ki_end") /\ refLock = None
  /\ refs' = [refs EXCEPT ![at[t].tgt] = @ - 1]
  /\ born' = born \ {at[t].tgt}
  /\ prog' = [prog EXCEPT ![at[t].tgt] = None]
  /\ Release(t, "user")
  /\ UNCHANGED <<present, ppid, life, code, released, home, sig, woken, deadThreads, childLock, kept, procLock, refLock>>

-----------------------------------------------------------------------------
Step(t) ==
  \/ RelRef(t) \/ Remove(t)
  \/ \E pc \in {"clone", "exit", "term", "join", "finish"} : OwnRequest(t, pc)
  \/ Clone(t) \/ CloneNoPid(t) \/ CloneFails(t) \/ CloneEnd(t)
  \/ StartRequest(t) \/ StartFails(t)
  \/ TerminateThread(t) \/ Terminate(t) \/ Join(t) \/ JoinWoken(t) \/ Finish(t)
  \/ TakeDead(t) \/ KillThreadRequest(t) \/ KillThread(t)
  \/ KillThreadLock(t) \/ KillThreadNotify(t)
  \/ WaitChild(t) \/ WaitLock(t) \/ GetNoZombie(t)
  \/ WaitEvent(t) \/ GetNoChild(t) \/ WaitWoken(t)
  \/ KillRequest(t) \/ Kill(t) \/ KillLockChild(t) \/ KillLockProc(t)
  \/ KillNotify(t) \/ KillUnlock(t) \/ KillEnd(t)
  \/ \E p \in Pid :
       Peek(t, p) \/ CloneAdd(t, p) \/ GetExitState(t, p) \/ KillAdopt(t, p)
  \/ \E n \in Thread : CloneDone(t, n) \/ StartThread(t, n)

Next == (\E t \in Thread : Step(t)) \/ (\E p \in Pid : SendKill(p))

Spec == Init /\ [][Next]_vars

-----------------------------------------------------------------------------
(* The references to a process are exact: one for each of its threads, one *)
(* for each request under way and one until kill() or the failure of       *)
(* clone() gives it back.  So nobody works on a process that is gone, and  *)
(* none stays for ever (getRef, relRef, Thread::create, kill).             *)
Holders(p) ==
  {t \in Thread :
     \/ at[t].pc \in Referring /\ at[t].tgt = p
     \/ "cl_end" \in {at[t].pc, at[t].ret} /\ home[t] = p}

RefsExact ==
  /\ TypeOK
  /\ \A p \in Pid :
       /\ refs[p] = Cardinality(Threads(p)) + Cardinality(Holders(p))
                      + (IF p \in born THEN 1 ELSE 0)
       /\ p \notin present => refs[p] = 0
       /\ p \in present /\ refs[p] = 0 =>
            \E t \in Thread : At(t, "rm") /\ at[t].tgt = p

(* A process is reaped by one thread, after the last of its own threads is *)
(* gone (P_KILLED in getExitState, killThread).                            *)
Reapers(p) ==
  {t \in Thread :
     \/ At(t, "ki_req") /\ at[t].arg = p
     \/ at[t].pc \in {"kill", "ki_child", "ki_proc", "ki_loop", "ki_note", "ki_end"}
          /\ at[t].tgt = p}

ReapedOnce ==
  \A p \in Pid : Reapers(p) # {} =>
    /\ Cardinality(Reapers(p)) = 1
    /\ life[p] = "killed" /\ Threads(p) = {}

(* A thread that sleeps in waitChild() has no zombie as a child unless     *)
(* somebody is about to wake it.                                           *)
NoLostChild ==
  \A t \in Thread : At(t, "wc_wait") /\ t \notin woken =>
    \A c \in Children(home[t]) : life[c] = "zombie" =>
      \E u \in Thread : \/ at[u].pc \in {"kt_child", "kt_note"} /\ at[u].tgt = c
                        \/ At(u, "ki_note") /\ home[t] = 0

(* No death is missed: neither that of a child by waitChild(), nor that of *)
(* a thread by terminate(), which waits for all the others in join().      *)
NoLostDeath ==
  /\ NoLostChild
  /\ \A t \in Thread :
       At(t, "jo_wait") /\ t \notin woken => Threads(home[t]) # {t}

(* The parent of a process exists and has not been reaped: kill() misses   *)
(* no child, not even one that is being cloned or dies.                    *)
OrphansAdopted == \A c \in present : ppid[c] \in born

(* terminate() gives the resources back when the other threads are gone    *)
(* for good (assert(p->threads.length() == 1), after join has returned and *)
(* the lock has been taken again), and where it has been called a zombie   *)
(* has given back everything.  (It need not have been: two threads that    *)
(* leave one after the other may each take the other for the last one.)    *)
ReleasedBeforeZombie ==
  /\ \A t \in Thread : at[t].pc \in {"fin_req", "finish"} => Threads(home[t]) = {t}
  /\ \A p \in present :
       life[p] \in {"zombie", "killed"} /\ code[p] # "none" => p \in released

(* A thread that has returned from a system call holds no lock, unless     *)
(* waitChild() has left it childLock.                                      *)
LocksReturned ==
  \A t \in Thread : at[t].pc \in {"user", "idle", "free"} =>
    /\ t \notin {procLock, refLock} /\ \A p \in Pid : prog[p] # t
    /\ ~ kept => t # childLock

(* The threads whose locks a thread needs for its next step.               *)
WaitsFor(t) ==
  (CASE at[t].pc \in {"clone", "start", "exit", "term", "join", "finish"} -> {prog[home[t]]}
     [] at[t].pc \in {"kt", "kill"} -> {prog[at[t].tgt]}
     [] at[t].pc \in {"kt_child", "wc", "wc_again", "ki_child"} -> {childLock}
     [] at[t].pc \in {"rm", "cl_add", "wc_get", "wc_get_again", "ki_proc"} -> {procLock}
     [] at[t].pc = "kt_note" -> {prog[ppid[at[t].tgt]], refLock}
     [] at[t].pc = "ki_note" -> {prog[0], refLock}
     [] at[t].pc \in {"rel", "cl_fill", "ki_end", "ki_req", "kt_req",
                      "te_req", "jo_req", "fin_req"} -> {refLock}
     [] OTHER -> {}) \ {None}

(* killThread() holds childLock and asks for the lock of the parent, which *)
(* kill() of the parent holds while it asks for childLock.                 *)
TerminatorMeetsReaper ==
  \E t, u \in Thread :
    At(t, "kt_note") /\ At(u, "ki_child") /\ prog[ppid[at[t].tgt]] = u

(* kill() notifies init while it holds procLock, and asks for refLock and  *)
(* for the lock of process 0, while relRef() and clone() in init hold one  *)
(* of these and ask for procLock.                                          *)
ReaperHoldsProcLock ==
  \E t, u \in Thread :
    At(t, "ki_note") /\ (At(u, "rm") \/ (At(u, "cl_add") /\ home[u] = 0))

(* These are the only ways in which threads that create, end and reap      *)
(* processes wait for each other in a circle, as long as childLock has not *)
(* been kept: the mutexes of processes, childLock, procLock and refLock    *)
(* are otherwise taken in an order, and nobody leaves the kernel with one  *)
(* of them.                                                                *)
NoOtherDeadlock ==
  /\ LocksReturned
  /\ \/ kept
     \/ TerminatorMeetsReaper \/ ReaperHoldsProcLock
     \/ \A S \in (SUBSET Thread) \ {{}} : \E t \in S : WaitsFor(t) \cap S = {}
=============================================================================
