----------------------------- MODULE FileTable ------------------------------
(***************************************************************************)
(* The global file table (vfs/openfile.cc), the file descriptors of the    *)
(* processes that point into it (task/filedesc.cc) and the mount point of a *)
(* mountspace (vfs/ms.cc), which is a third kind of pointer.  A slot of the *)
(* table is protected by two counters: refCount counts the pointers,       *)
(* usageCount the threads that are inside a call on the file.  The last    *)
(* close frees the slot, unless somebody is still using it; then the last  *)
(* user does.                                                              *)
(*                                                                         *)
(* The processors interleave between the locks the code takes: PLOCK_FDS,  *)
(* the spinlock of one file, gftLock, semLock and the lock of the          *)
(* mountspace.  What happens under one of them is one step.                *)
(*                                                                         *)
(* strayed is set when a call has closed or used a file that it had no     *)
(* right to, in one of the ways the code leaves open; the properties say   *)
(* that these are the only ways.                                           *)
(***************************************************************************)
EXTENDS Integers, FiniteSets

CONSTANTS
    Thread, Proc, ProcOf,   \* ProcOf[t]: the process of thread t
    Calls,                  \* Calls[t]: the calls the program of t makes
    Init0,                  \* the process that exists in the beginning
    Fd,                     \* the indices of a descriptor table
    Slot,                   \* the objects of gftArray (GFT_AREA_SIZE)
    File,                   \* pairs of a device number and a node number
    FsChan,                 \* the files that are channels of a file system
    Sem,                    \* heap objects for OpenFile::SemTreapNode
    Null

ASSUME FileAssumption ==
    /\ Calls \in [Thread -> SUBSET {"open", "lonely", "using", "unassoc", "sem",
                     "mount", "dup", "redirect", "fork", "lookup", "unmount"}]
    /\ ProcOf \in [Thread -> Proc] /\ Init0 \in Proc
    /\ Fd \subseteq Nat /\ Fd # {}
    /\ IsFiniteSet(Fd) /\ IsFiniteSet(Proc) /\ IsFiniteSet(Thread)
    /\ IsFiniteSet(Slot) /\ FsChan \subseteq File
    /\ Null \notin Slot \cup File \cup Sem

VARIABLES
    slot,      \* slot[s]: flags (none: the slot is unused), file, refCount,
               \* usageCount and sem of the OpenFile; a free slot is stale
    used,      \* usedList: the slots that are open in shared mode
    excl,      \* exclList: the slots that are open with VFS_LONELY
    sems,      \* the treap of the semaphores, by file
    nodeRefs,  \* the references the table holds on the node of a file
    fds,       \* fds[p][i]: Proc::fileDescs
    alive,     \* the processes that have a descriptor table
    mounted,   \* the file at the mount point, or Null
    pc,        \* what a thread is doing: at, the slot s, the descriptor fd
    strayed

vars == <<slot, used, excl, sems, nodeRefs, fds, alive, mounted, pc, strayed>>

idle == [at |-> "idle", s |-> Null, fd |-> 0, file |-> Null]

Init ==
    /\ slot = [s \in Slot |-> [flags |-> "none", file |-> Null, refs |-> 0,
                               usages |-> 0, sem |-> Null]]
    /\ used = {} /\ excl = {}
    /\ sems = [f \in File |-> Null]
    /\ nodeRefs = [f \in File |-> 0]
    /\ fds = [p \in Proc |-> [i \in Fd |-> Null]]
    /\ alive = {Init0}
    /\ mounted = Null
    /\ pc = [t \in Thread |-> idle]
    /\ strayed = FALSE

Descs(t) == fds[ProcOf[t]]
FreeFds(p) == {i \in Fd : fds[p][i] = Null}
Lowest(S) == {i \in S : \A j \in S : i <= j}
Runs(t) == ProcOf[t] \in alive
At(t, a) == Runs(t) /\ pc[t].at = a
Goto(t, a) == pc' = [pc EXCEPT ![t].at = a]
Done(t) == pc' = [pc EXCEPT ![t] = idle]

-----------------------------------------------------------------------------
(* OpenFile: the counters.                                                 *)

(* doClose() decides whether the file goes: refCount does not drop below   *)
(* zero, and one usage is taken for the caller's own.                      *)
Dropped(o) == [o EXCEPT !.refs = IF @ > 0 THEN @ - 1 ELSE @]
(* For a mutant: the usages of other threads are not looked at.            *)
FreesInUse(o) == o.refs = 0
Frees(o) == o.refs = 0 /\ o.usages <= 1

(* node->close() and releaseFile(): the node loses a reference, the        *)
(* semaphore is deleted, the slot leaves its list.  The other fields stay  *)
(* as they are (nobody reads the semaphore of a free slot).                *)
ReleaseFile(table, s) ==
    LET o == table[s]
    IN  /\ s \in used \cup excl                          \* asserted
        /\ slot' = [table EXCEPT ![s].flags = "none", ![s].sem = Null]
        /\ used' = used \ {s}
        /\ excl' = excl \ {s}
        /\ nodeRefs' = [nodeRefs EXCEPT ![o.file] = @ - 1]
        /\ sems' = [f \in File |-> IF o.sem # Null /\ sems[f] = o.sem
                                   THEN Null ELSE sems[f]]

KeepFile(table) == slot' = table /\ UNCHANGED <<used, excl, nodeRefs, sems>>

(* close() of a caller with `own' usages, on the slots as `table' has them.*)
(* Without a usage it may free the file under the feet of the one thread   *)
(* that uses it.                                                           *)
DoClose(table, s, own) ==
    LET after == [table EXCEPT ![s] = Dropped(@)]
        frees == Frees(after[s])
    IN  /\ IF frees THEN ReleaseFile(after, s) ELSE KeepFile(after)
        /\ strayed' = (strayed \/ (frees /\ own = 0 /\ after[s].usages > 0)
                               \/ table[s].flags = "none")

(* decUsages(): the last usage of a file without references closes it.     *)
DecUsages(s) ==
    LET after == [slot EXCEPT ![s].usages = @ - 1]
    IN  /\ slot[s].usages > 0                             \* asserted
        /\ IF after[s].usages = 0 /\ after[s].refs = 0
           THEN ReleaseFile([after EXCEPT ![s] = Dropped(@)], s)
           ELSE KeepFile(after)

-----------------------------------------------------------------------------
(* open(): getFree() looks for conflicts and takes a slot under gftLock,   *)
(* the fields are filled in afterwards.                                    *)

ConflictExclOnly(f, lonely) == f \notin FsChan /\ \E s \in excl : slot[s].file = f
Conflict(f, lonely) ==
    /\ f \notin FsChan
    /\ \E s \in excl \cup (IF lonely THEN used ELSE {}) : slot[s].file = f

GetFree(t, f, lonely) ==
    /\ At(t, "idle") /\ (IF lonely THEN "lonely" ELSE "open") \in Calls[t]
    /\ ~Conflict(f, lonely) /\ ~(lonely /\ f \in FsChan)
    /\ \E s \in Slot \ (used \cup excl) :
          /\ pc' = [pc EXCEPT ![t] = [at |-> "fill", s |-> s, fd |-> 0, file |-> f]]
          /\ IF lonely THEN excl' = excl \cup {s} /\ UNCHANGED used
                       ELSE used' = used \cup {s} /\ UNCHANGED excl
    /\ strayed' = (strayed \/ \E u \in Thread :
                      /\ pc[u].at = "fill" /\ pc[u].file = f
                      /\ lonely \/ pc[u].s \in excl)
    /\ UNCHANGED <<slot, sems, nodeRefs, fds, alive, mounted>>

FillSlot(t) ==
    LET s == pc[t].s  f == pc[t].file
    IN  /\ At(t, "fill")
        /\ slot' = [slot EXCEPT ![s] =
               [flags |-> IF s \in excl THEN "lonely" ELSE "shared",
                file |-> f, refs |-> 1, usages |-> 0, sem |-> Null]]
        /\ nodeRefs' = [nodeRefs EXCEPT ![f] = @ + 1]
        /\ pc' = [pc EXCEPT ![t].at = "assoc", ![t].file = Null]
        /\ UNCHANGED <<used, excl, sems, fds, alive, mounted, strayed>>

(* FileDesc::assoc(), and the close() of open() if the table is full.      *)
Assoc(t) ==
    LET p == ProcOf[t]
    IN  /\ At(t, "assoc")
        /\ Done(t)
        /\ IF FreeFds(p) # {}
           THEN /\ \E i \in Lowest(FreeFds(p)) :
                      fds' = [fds EXCEPT ![p][i] = pc[t].s]
                /\ UNCHANGED <<slot, used, excl, sems, nodeRefs, strayed>>
           ELSE DoClose(slot, pc[t].s, 0) /\ UNCHANGED fds
        /\ UNCHANGED <<alive, mounted>>

-----------------------------------------------------------------------------
(* The system calls on a descriptor: request(), the call itself, release().*)
(* Only close() needs the descriptor again.                                *)

IncUsages(s) == slot' = [slot EXCEPT ![s].usages = @ + 1]

Request(t, i, call) ==
    /\ At(t, "idle") /\ call \in Calls[t] /\ Descs(t)[i] # Null
    /\ IncUsages(Descs(t)[i])
    /\ pc' = [pc EXCEPT ![t] = [at |-> call, s |-> Descs(t)[i], file |-> Null,
                                fd |-> IF call = "unassoc" THEN i ELSE 0]]
    /\ UNCHANGED <<used, excl, sems, nodeRefs, fds, alive, mounted, strayed>>

Release(t) ==
    /\ At(t, "using")
    /\ DecUsages(pc[t].s)
    /\ Done(t)
    /\ UNCHANGED <<fds, alive, mounted, strayed>>

(* close(): whatever unassoc() finds at the descriptor by then, it is the  *)
(* requested file that is closed.                                          *)
Unassoc(t) ==
    /\ At(t, "unassoc")
    /\ fds' = [fds EXCEPT ![ProcOf[t]][pc[t].fd] = Null]
    /\ strayed' = (strayed \/ Descs(t)[pc[t].fd] # pc[t].s)
    /\ pc' = [pc EXCEPT ![t].at = "close", ![t].fd = 0]
    /\ UNCHANGED <<slot, used, excl, sems, nodeRefs, alive, mounted>>

Close(t) ==
    /\ At(t, "close")
    /\ DoClose(slot, pc[t].s, 1)
    /\ IF Frees(Dropped(slot[pc[t].s])) THEN Done(t) ELSE Goto(t, "using")
    /\ UNCHANGED <<fds, alive, mounted>>

(* fcntl(F_SEMUP/F_SEMDOWN): the semaphore of the file is found or made.   *)
FileSem(t) ==
    LET s == pc[t].s  f == slot[s].file
        fresh == {m \in Sem : \A g \in File, r \in Slot :
                                 m # sems[g] /\ m # slot[r].sem}
    IN  /\ At(t, "sem")
        /\ Goto(t, "using")
        /\ \/ slot[s].sem # Null /\ UNCHANGED <<slot, sems>>
           \/ /\ slot[s].sem = Null
              /\ \E m \in (IF sems[f] # Null THEN {sems[f]} ELSE fresh) :
                    /\ sems' = [sems EXCEPT ![f] = m]
                    /\ slot' = [slot EXCEPT ![s].sem = m]
        /\ UNCHANGED <<used, excl, nodeRefs, fds, alive, mounted, strayed>>

Dup(t, i) ==
    LET s == Descs(t)[i]  p == ProcOf[t]
    IN  /\ At(t, "idle") /\ "dup" \in Calls[t] /\ s # Null
        /\ \E j \in Lowest(FreeFds(p)) : fds' = [fds EXCEPT ![p][j] = s]
        /\ slot' = [slot EXCEPT ![s].refs = @ + 1]
        /\ UNCHANGED <<used, excl, sems, nodeRefs, alive, mounted, pc, strayed>>

(* redirect(): src is closed without a usage, and now names dst's file.    *)
Redirect(t, i, j) ==
    LET src == Descs(t)[i]  dst == Descs(t)[j]
    IN  /\ At(t, "idle") /\ "redirect" \in Calls[t] /\ src # Null /\ dst # Null
        /\ DoClose([slot EXCEPT ![dst].refs = @ + 1], src, 0)
        /\ fds' = [fds EXCEPT ![ProcOf[t]][i] = dst]
        /\ UNCHANGED <<alive, mounted, pc>>

-----------------------------------------------------------------------------
(* Processes: clone() copies the table, destroy() closes all of it.        *)

Count(p, s) == Cardinality({i \in Fd : fds[p][i] = s})

CloneOneRef(t, q) ==
    LET p == ProcOf[t]
    IN  /\ At(t, "idle") /\ "fork" \in Calls[t] /\ q \notin alive
        /\ fds' = [fds EXCEPT ![q] = fds[p]]
        /\ slot' = [s \in Slot |-> IF Count(p, s) > 0
                  THEN [slot[s] EXCEPT !.refs = @ + 1] ELSE slot[s]]
        /\ alive' = alive \cup {q}
        /\ UNCHANGED <<used, excl, sems, nodeRefs, mounted, pc, strayed>>
Clone(t, q) ==
    LET p == ProcOf[t]
    IN  /\ At(t, "idle") /\ "fork" \in Calls[t] /\ q \notin alive
        /\ fds' = [fds EXCEPT ![q] = fds[p]]
        /\ slot' = [s \in Slot |-> [slot[s] EXCEPT !.refs = @ + Count(p, s)]]
        /\ alive' = alive \cup {q}
        /\ UNCHANGED <<used, excl, sems, nodeRefs, mounted, pc, strayed>>

(* The threads of the process have finished; each descriptor is closed     *)
(* with a usage, so that a file another process is using stays.  The code  *)
(* locks each file on its own; that the loop is one step hides only what   *)
(* others do between two descriptors of the dying process.                 *)
Destroy(p) ==
    LET left == [s \in Slot |->
                   [slot[s] EXCEPT !.refs = IF @ > Count(p, s)
                                            THEN @ - Count(p, s) ELSE 0]]
        gone == {s \in Slot : Count(p, s) > 0 /\ left[s].refs = 0
                                              /\ left[s].usages = 0}
    IN  /\ p \in alive \ {Init0}
        /\ \A t \in Thread : ProcOf[t] = p => pc[t].at = "idle"
        /\ gone \subseteq used \cup excl
        /\ slot' = [s \in Slot |->
               IF s \in gone THEN [left[s] EXCEPT !.flags = "none", !.sem = Null]
               ELSE IF Count(p, s) > 0 THEN left[s] ELSE slot[s]]
        /\ used' = used \ gone /\ excl' = excl \ gone
        /\ nodeRefs' = [f \in File |->
               nodeRefs[f] - Cardinality({s \in gone : slot[s].file = f})]
        /\ sems' = [f \in File |->
               IF \E s \in gone : slot[s].sem # Null /\ slot[s].sem = sems[f]
               THEN Null ELSE sems[f]]
        /\ fds' = [fds EXCEPT ![p] = [i \in Fd |-> Null]]
        /\ alive' = alive \ {p}
        /\ strayed' = (strayed \/ \E s \in Slot :
                          Count(p, s) > 0 /\ slot[s].flags = "none")
        /\ UNCHANGED <<mounted, pc>>

-----------------------------------------------------------------------------
(* The mountspace.  mount() takes a reference before it knows whether the  *)
(* path is free and does not give it back; request() takes its usage after *)
(* the lock has been released; unmount() closes without a usage.           *)

Mount(t) ==
    LET s == pc[t].s
    IN  /\ At(t, "mount")
        /\ IF slot[s].file \in FsChan
           THEN /\ slot' = [slot EXCEPT ![s].refs = @ + 1]
                /\ mounted' = IF mounted = Null THEN s ELSE mounted
                /\ strayed' = (strayed \/ mounted # Null)
           ELSE UNCHANGED <<slot, mounted, strayed>>
        /\ Goto(t, "using")
        /\ UNCHANGED <<used, excl, sems, nodeRefs, fds, alive>>

Lookup(t) ==
    /\ At(t, "idle") /\ "lookup" \in Calls[t] /\ mounted # Null
    /\ pc' = [pc EXCEPT ![t] = [idle EXCEPT !.at = "found", !.s = mounted]]
    /\ UNCHANGED <<slot, used, excl, sems, nodeRefs, fds, alive, mounted, strayed>>

RequestMounted(t) ==
    /\ At(t, "found")
    /\ IncUsages(pc[t].s)
    /\ strayed' = (strayed \/ mounted # pc[t].s)
    /\ Goto(t, "using")
    /\ UNCHANGED <<used, excl, sems, nodeRefs, fds, alive, mounted>>

Unmount(t) ==
    /\ At(t, "idle") /\ "unmount" \in Calls[t] /\ mounted # Null
    /\ pc' = [pc EXCEPT ![t] = [idle EXCEPT !.at = "unmount", !.s = mounted]]
    /\ mounted' = Null
    /\ UNCHANGED <<slot, used, excl, sems, nodeRefs, fds, alive, strayed>>

CloseUnmounted(t) ==
    /\ At(t, "unmount")
    /\ DoClose(slot, pc[t].s, 0)
    /\ Done(t)
    /\ UNCHANGED <<fds, alive, mounted>>

Next ==
    \/ \E t \in Thread :
          \/ \E f \in File, lonely \in BOOLEAN : GetFree(t, f, lonely)
          \/ \E i \in Fd, call \in {"using", "unassoc", "sem", "mount"} :
                Request(t, i, call)
          \/ FillSlot(t) \/ Assoc(t) \/ Release(t) \/ Unassoc(t) \/ Close(t)
          \/ FileSem(t)
          \/ \E i \in Fd : Dup(t, i)
          \/ \E i, j \in Fd : Redirect(t, i, j)
          \/ \E q \in Proc : Clone(t, q)
          \/ Mount(t) \/ Lookup(t) \/ RequestMounted(t)
          \/ Unmount(t) \/ CloseUnmounted(t)
    \/ \E p \in Proc : Destroy(p)

Spec == Init /\ [][Next]_vars

-----------------------------------------------------------------------------
(* Properties.                                                             *)

Open == {s \in Slot : slot[s].flags # "none"}

(* The variables have the shape of the C structures.                       *)
TypeOK ==
    /\ slot \in [Slot -> [flags : {"none", "shared", "lonely"},
                          file : File \cup {Null}, refs : Nat, usages : Nat,
                          sem : Sem \cup {Null}]]
    /\ used \subseteq Slot /\ excl \subseteq Slot
    /\ sems \in [File -> Sem \cup {Null}]
    /\ nodeRefs \in [File -> Nat]
    /\ fds \in [Proc -> [Fd -> Slot \cup {Null}]]
    /\ alive \subseteq Proc
    /\ mounted \in Slot \cup {Null}
    /\ pc \in [Thread -> [at : {"idle", "fill", "assoc", "using", "unassoc",
                                "close", "sem", "mount", "found", "unmount"},
                          s : Slot \cup {Null}, fd : Nat,
                          file : File \cup {Null}]]
    /\ strayed \in BOOLEAN

(* The descriptors that name the file.                                     *)
Names(s) == {d \in Proc \X Fd : fds[d[1]][d[2]] = s}

(* The threads that carry a pointer of their own: a file that has no       *)
(* descriptor yet, or no descriptor and no mount point any more.           *)
Carriers(s) == {t \in Thread : /\ pc[t].s = s
                               /\ pc[t].at \in {"assoc", "close", "unmount"}}

(* The threads that are inside a call on the file.                         *)
Users(s) == {t \in Thread : /\ pc[t].s = s
                            /\ pc[t].at \in {"using", "unassoc", "close",
                                             "sem", "mount"}}

(* "number of references (file-descriptors)", "number of threads that are  *)
(* currently using this file": refCount is the number of descriptors of    *)
(* all processes, mount points and calls in transit that name the file,    *)
(* usageCount the number of threads in a call on it, over every order of   *)
(* close, dup, redirect, fork, exit, mount and unmount.                    *)
(* node->close() runs once for each file: the node has one reference from  *)
(* each open slot.                                                         *)
CountsExact ==
    ~strayed =>
        /\ TypeOK
        /\ \A s \in Open :
            /\ slot[s].refs = Cardinality(Names(s)) + Cardinality(Carriers(s))
                              + (IF mounted = s THEN 1 ELSE 0)
            /\ slot[s].usages = Cardinality(Users(s))
        /\ \A f \in File :
            nodeRefs[f] = Cardinality({s \in Open : slot[s].file = f})

(* A slot is given back with the last of those who name or use it.  Not    *)
(* before: no descriptor, mount point or call in progress refers to a      *)
(* freed OpenFile.  And then: a file whose last descriptor is closed while *)
(* it is in use is released by its last user, so that no slot is occupied  *)
(* by a file nobody can reach.                                             *)
FreedWithLastUse ==
    ~strayed => /\ \A p \in Proc, i \in Fd : fds[p][i] \in Open \cup {Null}
                /\ mounted \in Open \cup {Null}
                /\ \A s \in Slot : Carriers(s) \cup Users(s) # {} => s \in Open
                /\ \A s \in Open : slot[s].refs > 0 \/ slot[s].usages > 0

(* "disallow other accesses": a file that has been opened with O_LONELY is *)
(* open nowhere else, until that file has been closed for good, and its    *)
(* semaphore is in the treap for as long (a file that is open twice loses  *)
(* its semaphore to the first close, openfile.cc:523).                     *)
LonelyAlone ==
    ~strayed => \A s \in Open : slot[s].flags = "lonely" =>
        /\ \A r \in Open : slot[r].file = slot[s].file => r = s
        /\ slot[s].sem # Null => sems[slot[s].file] = slot[s].sem
=============================================================================
