------------------------------ MODULE Channel ------------------------------
(***************************************************************************)
(* The channels between the clients of a device and its driver             *)
(* (vfs/channel.cc, vfs/device.cc, the getwork system call): requests      *)
(* travel in sendList to the driver, replies in recvList to the client     *)
(* that asked, and a request in flight may be cancelled.                   *)
(*                                                                         *)
(* An action is one critical section: under the spinlock waitLock (send,   *)
(* receive, getWork) or under treeLock (doUnref).  The removal of messages *)
(* in invalidate() holds only treeLock; it reads and writes msgCount in    *)
(* two steps.  The scheduler is asleep[t], the object thread t waits for.  *)
(* User-level drivers serve requests, put some off and answer cancels.     *)
(***************************************************************************)
EXTENDS DList, FiniteSets, FiniteSetsExt

CONSTANTS
  Client,       \* threads of client processes
  Handler,      \* threads of the driver
  Creator,      \* the one that created the device
  Chan,         \* nodes for channels
  Dev,          \* the device as an event object
  None,
  NCPU,         \* number of processors
  RidMod,       \* request ids are counted modulo RidMod, 0x8000 in the code
  Cancellable,  \* whether the driver supports DEV_CANCEL
  NoBlockOps,   \* requests that may be made on files with VFS_NOBLOCK
  Signallable,  \* clients that signals are sent to
  MayDie,       \* whether the driver may die
  MaxSent       \* bound: requests

ASSUME ChannelAssumption ==
  /\ NCPU \in Nat \ {0} /\ RidMod \in Nat \ {0} /\ MaxSent \in Nat
  /\ Client \cap Handler = {} /\ Creator \in Handler
  /\ Dev \notin Chan /\ None \notin Chan \cup {Dev} \cup Client \cup Handler
  /\ Cancellable \in BOOLEAN /\ MayDie \in BOOLEAN
  /\ NoBlockOps \subseteq {"read", "write"} /\ Signallable \subseteq Client
  /\ IsFiniteSet(Chan)
  /\ MayDie => NCPU = 1

Thread == Client \cup Handler

(* Where a thread is.  Clients:                                            *)
(*   user       outside of the kernel                                      *)
(*   recv       receive(), wants waitLock                                  *)
(*   asleep     receive(), has called wait()                               *)
(*   cancel     read() or write(), interrupted                             *)
(*   openfail   open() has failed, closeForDriver() is next                *)
(*   release    openPath() releases the node                               *)
(*   close      close(), only the driver is left                           *)
(*   setclosed  close(), the message is sent                               *)
(* Threads of the driver:                                                  *)
(*   loop       outside of the kernel, nothing to do                       *)
(*   nowork     asleep in getWork()                                        *)
(*   fetch      has a channel from getWork()                               *)
(*   serve      outside of the kernel, has a request                       *)
(*   data       has answered a read, sends the data                        *)
(*   drvclose   closes its file of the channel                             *)
(*   destroy    closes the device                                          *)
(*   closeall   closes the files that are left                             *)
(*   dead                                                                  *)
(* All: inval, in invalidate().                                            *)
Outside == {"user", "asleep", "loop", "nowork", "serve", "data", "dead"}
Points == Outside \cup
  {"recv", "cancel", "openfail", "release", "close", "setclosed",
   "fetch", "drvclose", "destroy", "closeall", "inval"}

VARIABLES
  node,                    \* unused, alive, detached from the tree, freed
  refs,                    \* VFSNode::refCount
  clientFile, driverFile,  \* whether an open file refers to the node
  closed, handler, sendList, recvList,
  devAlive, children, msgCount, lastClient,
  nextRid,
  treeLock,                \* the thread in invalidate()
  pc, chan, req,           \* the threads; chan: the channel they work on
  asleep, sig,
  deferred,                \* requests the driver has put off
  sent                     \* number of requests so far

nodeVars == <<node, refs, clientFile, driverFile>>
chanVars == <<closed, handler>>
listVars == <<sendList, recvList>>
devVars == <<devAlive, children, lastClient>>
threadVars == <<pc, chan, req>>
vars == <<nodeVars, chanVars, listVars, devVars, msgCount, nextRid, treeLock,
          threadVars, asleep, sig, deferred, sent>>

Rids == 0 .. RidMod
Messages == [rid : Rids, op : {"open", "read", "write", "data", "cancel", "close"},
             of : Rids]
Replies == [rid : Rids, res : {"ok", "err", "data", "cancelled", "there"}]

(* What a thread is busy with.  A client: the operation, the reply it      *)
(* wants, its request id, the id it had before a cancel, VFS_NOBLOCK of    *)
(* its file, and whether blocking is forced.  A thread of the driver: op,  *)
(* mid and old are those of the message.  back: where doUnref returns to;  *)
(* seen: msgCount as read by remMsgs in invalidate().                      *)
Reqs == [op : {"none", "open", "read", "write", "data", "cancel", "close"},
         want : {"resp", "data", "cancel"}, mid : Rids, old : Rids,
         nb : BOOLEAN, forced : BOOLEAN, back : Points, seen : Int]

Idle0 == [op |-> "none", want |-> "resp", mid |-> 0, old |-> 0, nb |-> FALSE,
          forced |-> FALSE, back |-> "user", seen |-> 0]

UShort == {n \in Nat : n < 65536}

NodeTypes ==
  /\ node \in [Chan -> {"unused", "alive", "detached", "freed"}]
  /\ refs \in [Chan -> UShort]
  /\ clientFile \in [Chan -> BOOLEAN] /\ driverFile \in [Chan -> BOOLEAN]
  /\ closed \in [Chan -> BOOLEAN] /\ handler \in [Chan -> Handler]
  /\ devAlive \in BOOLEAN /\ lastClient \in Chan \cup {None}

ListTypes ==
  /\ children \in Seq(Chan) /\ Distinct(children)
  /\ sendList \in [Chan -> Seq(Messages)]
  /\ recvList \in [Chan -> Seq(Replies)]
  /\ deferred \in [Chan -> SUBSET Rids]
  /\ msgCount \in Nat /\ nextRid \in 0 .. RidMod - 1 /\ sent \in 0 .. MaxSent

ThreadTypes ==
  /\ treeLock \in Thread \cup {None}
  /\ pc \in [Thread -> Points] /\ chan \in [Thread -> Chan \cup {None}]
  /\ req \in [Thread -> Reqs]
  /\ asleep \in [Thread -> Chan \cup {Dev, None}] /\ sig \in [Client -> BOOLEAN]

TypeOK == NodeTypes /\ ListTypes /\ ThreadTypes

Init ==
  /\ node = [c \in Chan |-> "unused"] /\ refs = [c \in Chan |-> 0]
  /\ clientFile = [c \in Chan |-> FALSE] /\ driverFile = [c \in Chan |-> FALSE]
  /\ closed = [c \in Chan |-> FALSE] /\ handler = [c \in Chan |-> Creator]
  /\ sendList = [c \in Chan |-> << >>] /\ recvList = [c \in Chan |-> << >>]
  /\ devAlive = TRUE /\ children = << >> /\ msgCount = 0 /\ lastClient = None
  /\ nextRid = 1 % RidMod
  /\ treeLock = None
  /\ pc = [t \in Thread |-> IF t \in Client THEN "user" ELSE "loop"]
  /\ chan = [t \in Thread |-> None] /\ req = [t \in Thread |-> Idle0]
  /\ asleep = [t \in Thread |-> None] /\ sig = [t \in Client |-> FALSE]
  /\ deferred = [c \in Chan |-> {}]
  /\ sent = 0

(* Thread t runs, at point p: the kernel is not preemptive, so that on one *)
(* processor nobody else is inside.                                        *)
At(t, p) ==
  /\ pc[t] = p
  /\ NCPU > 1 \/ \A u \in Thread \ {t} : pc[u] \in Outside

Alive(c) == node[c] = "alive"
Goto(t, p) == pc' = [pc EXCEPT ![t] = p]

(* Thread t goes on at p, at some points still with channel c.             *)
GoOn(t, c, p) ==
  /\ Goto(t, p)
  /\ chan' = [chan EXCEPT ![t] = IF p \in {"release", "close"} THEN c ELSE None]
  /\ req' = [req EXCEPT ![t] = Idle0]

Leave(t, p) == GoOn(t, chan[t], p)

(* Sched::wakeup: those who wait for obj.                                  *)
Woken(obj) == [t \in Thread |-> IF asleep[t] = obj THEN None ELSE asleep[t]]
-----------------------------------------------------------------------------
(* send.                                                                   *)

(* The id of the next request.                                             *)
Rid == IF nextRid % RidMod = 0 THEN 1 ELSE nextRid % RidMod

(* A client sends a request o, for a write with its data, for a cancel     *)
(* with the id r of the request to cancel.                                 *)
SendRequest(c, o, r) ==
  LET m == [rid |-> Rid, op |-> o, of |-> r]
      ms == IF o = "write" THEN << m, [m EXCEPT !.op = "data"] >> ELSE << m >>
  IN  /\ sendList' = [sendList EXCEPT ![c] = @ \o ms]
      /\ msgCount' = msgCount + Len(ms)
      /\ nextRid' = (nextRid + 1) % RidMod
      /\ asleep' = Woken(Dev)
      /\ UNCHANGED recvList


(* The driver replies to request r.                                        *)
SendReply(c, r, res) ==
  /\ recvList' = [recvList EXCEPT ![c] = Append(@, [rid |-> r, res |-> res])]
  /\ asleep' = Woken(c)
  /\ UNCHANGED sendList
-----------------------------------------------------------------------------
(* VFSNode::doUnref of a channel.                                          *)

UnrefUnlessRemoved(t, c, remove, p) ==
  /\ treeLock = None
  /\ refs' = IF remove THEN refs ELSE [refs EXCEPT ![c] = (@ - 1) % 65536]
  /\ IF refs[c] = 1
       THEN /\ treeLock' = t
            /\ Goto(t, "inval")
            /\ chan' = [chan EXCEPT ![t] = c]
            /\ req' = [req EXCEPT ![t].back = p, ![t].seen = msgCount]
            /\ asleep' = Woken(c)
            /\ UNCHANGED <<node, children>>
       ELSE /\ IF remove
                 THEN /\ node' = [node EXCEPT ![c] = "detached"]
                      /\ children' = Unlink(children, c)
                 ELSE UNCHANGED <<node, children>>
            /\ GoOn(t, c, p)
            /\ UNCHANGED <<treeLock, asleep>>

(* The last reference leads into invalidate(), up to the access to         *)
(* msgCount.  Otherwise destroy() (remove) takes the node out of the tree. *)
(* refCount is an unsigned short.                                          *)
Unref(t, c, remove, p) ==
  /\ treeLock = None
  /\ refs' = [refs EXCEPT ![c] = (@ - 1) % 65536]
  /\ IF refs[c] = 1
       THEN /\ treeLock' = t
            /\ Goto(t, "inval")
            /\ chan' = [chan EXCEPT ![t] = c]
            /\ req' = [req EXCEPT ![t].back = p, ![t].seen = msgCount]
            /\ asleep' = Woken(c)
            /\ UNCHANGED <<node, children>>
       ELSE /\ IF remove
                 THEN /\ node' = [node EXCEPT ![c] = "detached"]
                      /\ children' = Unlink(children, c)
                 ELSE UNCHANGED <<node, children>>
            /\ GoOn(t, c, p)
            /\ UNCHANGED <<treeLock, asleep>>

ClientKept(c) == UNCHANGED lastClient

(* VFSDevice::clientRemoved.                                               *)
ClientRemoved(c) ==
  lastClient' =
    IF lastClient # c
      THEN lastClient
      ELSE IF ~ InList(children, c) \/ Place(children, c) = Len(children)
             THEN None
             ELSE children[Place(children, c) + 1]

(* The rest of invalidate() and of doUnref.                                *)
Invalidate(t) ==
  /\ At(t, "inval")
  /\ LET c == chan[t]
     IN  /\ msgCount' = req[t].seen - Len(sendList[c])
         /\ ClientRemoved(c)
         /\ sendList' = [sendList EXCEPT ![c] = << >>]
         /\ recvList' = [recvList EXCEPT ![c] = << >>]
         /\ children' = Unlink(children, c)
         /\ node' = [node EXCEPT ![c] = "freed"]
  /\ treeLock' = None
  /\ Leave(t, req[t].back)
  /\ UNCHANGED <<refs, clientFile, driverFile, chanVars, devAlive, nextRid,
                 asleep, sig, deferred, sent>>
-----------------------------------------------------------------------------
(* Clients: open.                                                          *)

(* openPath() and open() up to the message: a new node with the reference  *)
(* of its creator, a file for the driver, and the request.                 *)
Open(t, c) ==
  /\ At(t, "user") /\ t \in Client
  /\ devAlive /\ treeLock = None /\ node[c] = "unused"
  /\ node' = [node EXCEPT ![c] = "alive"]
  /\ refs' = [refs EXCEPT ![c] = 2]
  /\ driverFile' = [driverFile EXCEPT ![c] = TRUE]
  /\ handler' = [handler EXCEPT ![c] = Creator]
  /\ children' = << c >> \o children
  /\ SendRequest(c, "open", 0)
  /\ Goto(t, "recv")
  /\ chan' = [chan EXCEPT ![t] = c]
  /\ req' = [req EXCEPT ![t] = [Idle0 EXCEPT !.op = "open", !.mid = Rid]]
  /\ UNCHANGED <<clientFile, closed, devAlive, lastClient, treeLock, sig,
                 deferred, sent>>

(* closeForDriver: the file may be closed already.                         *)
OpenFail(t) ==
  /\ At(t, "openfail")
  /\ LET c == chan[t]
     IN  /\ driverFile' = [driverFile EXCEPT ![c] = FALSE]
         /\ IF ~ driverFile[c]
              THEN /\ Leave(t, "release")
                   /\ UNCHANGED <<node, refs, children, treeLock, asleep>>
              ELSE Unref(t, c, Alive(c), "release")
  /\ UNCHANGED <<clientFile, chanVars, listVars, devAlive, lastClient, msgCount,
                 nextRid, sig, deferred, sent>>

(* openPath() releases the node.                                           *)
Release(t) ==
  /\ At(t, "release")
  /\ Unref(t, chan[t], FALSE, "user")
  /\ UNCHANGED <<clientFile, driverFile, chanVars, listVars, devAlive, lastClient,
                 msgCount, nextRid, sig, deferred, sent>>
-----------------------------------------------------------------------------
(* Clients: read and write.                                                *)

(* The request of read() or write(); the file may be non-blocking (nb).    *)
Request(t, c, o, nb) ==
  /\ At(t, "user") /\ t \in Client
  /\ clientFile[c] /\ Alive(c)
  /\ nb => o \in NoBlockOps
  /\ sent < MaxSent
  /\ sent' = sent + 1
  /\ SendRequest(c, o, 0)
  /\ Goto(t, "recv")
  /\ chan' = [chan EXCEPT ![t] = c]
  /\ req' = [req EXCEPT ![t] = [Idle0 EXCEPT !.op = o, !.mid = Rid, !.nb = nb]]
  /\ UNCHANGED <<nodeVars, chanVars, devVars, treeLock, sig, deferred>>

(* The flags of getReceiveFlags(), of the receive for the data (0), of     *)
(* cancel() and of the second attempt (VFS_BLOCK).                         *)
Interruptible(t) ==
  /\ req[t].op \in {"read", "write"} /\ req[t].want = "resp"
  /\ Cancellable /\ ~ req[t].forced

NonBlocking(t) == req[t].nb /\ (Interruptible(t) \/ req[t].want = "data")

(* The places of the replies for t: those with its id, or with 0.          *)
Matching(t) ==
  LET l == recvList[chan[t]]
  IN  {i \in 1 .. Len(l) : l[i].rid \in {req[t].mid, 0}}

(* receive() with what read(), write(), open() and cancel() make of it.    *)
ReceiveReply(t) ==
  /\ At(t, "recv") /\ t \in Client
  /\ Matching(t) # {}
  /\ LET c == chan[t]
         l == recvList[c]
         i == Min(Matching(t))
         r == req[t]
     IN  /\ recvList' = [recvList EXCEPT ![c] =
                           SubSeq(l, 1, i - 1) \o SubSeq(l, i + 1, Len(l))]
         /\ \/ /\ r.op = "open" /\ l[i].res = "ok"
               /\ clientFile' = [clientFile EXCEPT ![c] = TRUE]
               /\ Leave(t, "user")
            \/ /\ r.op = "open" /\ l[i].res # "ok"
               /\ Goto(t, "openfail")
               /\ UNCHANGED <<clientFile, chan, req>>
            \/ /\ r.op = "read" /\ r.want = "resp" /\ l[i].res = "ok"
               /\ req' = [req EXCEPT ![t].want = "data"]
               /\ UNCHANGED <<clientFile, chan, pc>>
            \/ /\ r.want = "cancel" /\ l[i].res = "there"
               /\ req' = [req EXCEPT ![t].want = "resp", ![t].mid = r.old,
                                      ![t].forced = TRUE]
               /\ UNCHANGED <<clientFile, chan, pc>>
            \/ /\ r.op # "open"
               /\ r.op = "read" /\ r.want = "resp" => l[i].res # "ok"
               /\ r.want = "cancel" => l[i].res # "there"
               /\ Leave(t, "user")
               /\ UNCHANGED clientFile
  /\ UNCHANGED <<node, refs, driverFile, chanVars, sendList, devVars, msgCount,
                 nextRid, treeLock, asleep, sig, deferred, sent>>

(* -EWOULDBLOCK.                                                           *)
ReceiveNothing(t) ==
  /\ At(t, "recv") /\ t \in Client
  /\ Matching(t) = {} /\ NonBlocking(t)
  /\ IF req[t].want = "resp"
       THEN Goto(t, "cancel") /\ UNCHANGED <<chan, req>>
       ELSE Leave(t, "user")
  /\ UNCHANGED <<nodeVars, chanVars, listVars, devVars, msgCount, nextRid,
                 treeLock, asleep, sig, deferred, sent>>

(* -EDESTROYED.                                                            *)
Destroyed(t) ==
  IF req[t].op = "open"
    THEN Goto(t, "openfail") /\ UNCHANGED <<chan, req>>
    ELSE Leave(t, "user")

(* Otherwise it waits and switches away, unless there is no hope; with a   *)
(* signal the switch comes back at once.                                   *)
ReceiveWait(t) ==
  /\ At(t, "recv") /\ t \in Client
  /\ Matching(t) = {} /\ ~ NonBlocking(t)
  /\ IF closed[chan[t]] \/ ~ Alive(chan[t])
       THEN Destroyed(t) /\ UNCHANGED asleep
       ELSE /\ asleep' = [asleep EXCEPT ![t] =
                            IF Interruptible(t) /\ sig[t] THEN None ELSE chan[t]]
            /\ Goto(t, "asleep")
            /\ UNCHANGED <<chan, req>>
  /\ UNCHANGED <<nodeVars, chanVars, listVars, devVars, msgCount, nextRid,
                 treeLock, sig, deferred, sent>>

(* Behind the switch.                                                      *)
Awake(t) ==
  /\ At(t, "asleep") /\ asleep[t] = None
  /\ IF Interruptible(t) /\ sig[t]
       THEN Goto(t, "cancel") /\ UNCHANGED <<chan, req>>
       ELSE IF ~ Alive(chan[t])
              THEN Destroyed(t)
              ELSE Goto(t, "recv") /\ UNCHANGED <<chan, req>>
  /\ UNCHANGED <<nodeVars, chanVars, listVars, devVars, msgCount, nextRid,
                 treeLock, asleep, sig, deferred, sent>>

CancelUnasked(t) ==
  /\ At(t, "cancel")
  /\ Leave(t, "user")
  /\ UNCHANGED <<nodeVars, chanVars, listVars, devVars, msgCount, nextRid,
                 treeLock, asleep, sig, deferred, sent>>

(* cancel(): asks the driver, unless it is gone.                           *)
Cancel(t) ==
  /\ At(t, "cancel")
  /\ IF Alive(chan[t])
       THEN /\ SendRequest(chan[t], "cancel", req[t].mid)
            /\ req' = [req EXCEPT ![t].want = "cancel", ![t].mid = Rid,
                                   ![t].old = req[t].mid]
            /\ Goto(t, "recv")
            /\ UNCHANGED chan
       ELSE /\ Leave(t, "user")
            /\ UNCHANGED <<listVars, msgCount, nextRid, asleep>>
  /\ UNCHANGED <<nodeVars, chanVars, devVars, treeLock, sig, deferred, sent>>
-----------------------------------------------------------------------------
(* Clients: close and signals.                                             *)

(* VFSChannel::close for a client's file that nobody uses anymore.         *)
Close(t, c) ==
  /\ At(t, "user") /\ t \in Client
  /\ clientFile[c] /\ \A u \in Client : chan[u] # c
  /\ clientFile' = [clientFile EXCEPT ![c] = FALSE]
  /\ Unref(t, c, FALSE, IF Alive(c) /\ refs[c] = 2 THEN "close" ELSE "user")
  /\ UNCHANGED <<driverFile, chanVars, listVars, devAlive, lastClient, msgCount,
                 nextRid, sig, deferred, sent>>

SendClose(t) ==
  /\ At(t, "close")
  /\ SendRequest(chan[t], "close", 0)
  /\ Goto(t, "setclosed")
  /\ UNCHANGED <<nodeVars, chanVars, devVars, treeLock, chan, req, sig, deferred,
                 sent>>

SetClosed(t) ==
  /\ At(t, "setclosed")
  /\ closed' = [closed EXCEPT ![chan[t]] = TRUE]
  /\ Leave(t, "user")
  /\ UNCHANGED <<nodeVars, handler, listVars, devVars, msgCount, nextRid,
                 treeLock, asleep, sig, deferred, sent>>

(* A signal for t, and its delivery.                                       *)
Signal(t) ==
  /\ t \in Signallable /\ ~ sig[t]
  /\ NCPU > 1 \/ \A u \in Thread : pc[u] \in Outside
  /\ sig' = [sig EXCEPT ![t] = TRUE]
  /\ asleep' = IF Interruptible(t) THEN [asleep EXCEPT ![t] = None] ELSE asleep
  /\ UNCHANGED <<nodeVars, chanVars, listVars, devVars, msgCount, nextRid,
                 treeLock, threadVars, deferred, sent>>

HandleSignal(t) ==
  /\ At(t, "user") /\ t \in Client /\ sig[t]
  /\ sig' = [sig EXCEPT ![t] = FALSE]
  /\ UNCHANGED <<nodeVars, chanVars, listVars, devVars, msgCount, nextRid,
                 treeLock, threadVars, asleep, deferred, sent>>
-----------------------------------------------------------------------------
(* The driver: getwork.                                                    *)

SearchOrderBehindLast ==
  IF lastClient = None \/ ~ InList(children, lastClient)
    THEN children
    ELSE SubSeq(children, Place(children, lastClient) + 1, Len(children))

(* The order in which VFSDevice::getWork looks at the channels: from the   *)
(* one behind lastClient to the end, then from the first to lastClient.    *)
SearchOrder ==
  IF lastClient = None \/ ~ InList(children, lastClient)
    THEN children
    ELSE LET i == Place(children, lastClient)
         IN  SubSeq(children, i + 1, Len(children)) \o SubSeq(children, 1, i)

HasWork(h, c) == handler[c] = h /\ sendList[c] # << >>

WithWork(h) == {i \in 1 .. Len(SearchOrder) : HasWork(h, SearchOrder[i])}

Idling(h) == At(h, "loop") \/ (At(h, "nowork") /\ asleep[h] = None)

GetWork(h) ==
  /\ Idling(h) /\ devAlive /\ treeLock = None
  /\ IF msgCount # 0 /\ WithWork(h) # {}
       THEN LET c == SearchOrder[Min(WithWork(h))]
            IN  /\ lastClient' = c
                /\ chan' = [chan EXCEPT ![h] = c]
                /\ Goto(h, "fetch")
                /\ UNCHANGED asleep
       ELSE /\ lastClient' = IF msgCount = 0 THEN lastClient ELSE None
            /\ asleep' = [asleep EXCEPT ![h] = Dev]
            /\ Goto(h, "nowork")
            /\ UNCHANGED chan
  /\ UNCHANGED <<nodeVars, chanVars, listVars, devAlive, children, msgCount,
                 nextRid, treeLock, req, sig, deferred, sent>>

(* -EINTR of OpenFile::getWork: a signal, for example of an interrupt.     *)
GetWorkInterrupted(h) ==
  /\ At(h, "nowork") /\ asleep[h] = Dev
  /\ asleep' = [asleep EXCEPT ![h] = None]
  /\ Goto(h, "loop")
  /\ UNCHANGED <<nodeVars, chanVars, listVars, devVars, msgCount, nextRid,
                 treeLock, chan, req, sig, deferred, sent>>

FetchUncounted(c) ==
  /\ sendList' = [sendList EXCEPT ![c] = Tail(@)]
  /\ UNCHANGED msgCount

(* receive() for the driver takes the first message.                       *)
FetchFirst(c) ==
  /\ sendList' = [sendList EXCEPT ![c] = Tail(@)]
  /\ msgCount' = msgCount - 1

Fetch(h) ==
  /\ At(h, "fetch")
  /\ LET c == chan[h]
         m == Head(sendList[c])
     IN  IF ~ driverFile[c]
           THEN /\ Leave(h, "loop")
                /\ UNCHANGED <<sendList, msgCount>>
           ELSE /\ sendList[c] # << >>
                /\ FetchFirst(c)
                /\ req' = [req EXCEPT ![h] = [Idle0 EXCEPT !.op = m.op,
                             !.mid = m.rid, !.old = m.of]]
                /\ Goto(h, IF m.op = "close" THEN "drvclose" ELSE "serve")
                /\ UNCHANGED chan
  /\ UNCHANGED <<nodeVars, chanVars, recvList, devVars, nextRid, treeLock, asleep,
                 sig, deferred, sent>>
-----------------------------------------------------------------------------
(* The driver: what it does with a message, at user level.                 *)

Serving(h, o) == At(h, "serve") /\ req[h].op = o

(* Accepts or refuses a client; may bind the channel to thread g.          *)
ServeOpen(h, g, res) ==
  /\ Serving(h, "open")
  /\ SendReply(chan[h], req[h].mid, res)
  /\ handler' = [handler EXCEPT ![chan[h]] = g]
  /\ Leave(h, "loop")
  /\ UNCHANGED <<nodeVars, closed, devVars, msgCount, nextRid, treeLock, sig,
                 deferred, sent>>

(* Answers a read; the data is a second message.                           *)
ServeRead(h, res) ==
  /\ Serving(h, "read")
  /\ SendReply(chan[h], req[h].mid, res)
  /\ IF res = "ok"
       THEN Goto(h, "data") /\ UNCHANGED <<chan, req>>
       ELSE Leave(h, "loop")
  /\ UNCHANGED <<nodeVars, chanVars, devVars, msgCount, nextRid, treeLock, sig,
                 deferred, sent>>

SendData(h) ==
  /\ At(h, "data")
  /\ SendReply(chan[h], req[h].mid, "data")
  /\ Leave(h, "loop")
  /\ UNCHANGED <<nodeVars, chanVars, devVars, msgCount, nextRid, treeLock, sig,
                 deferred, sent>>

(* Puts a read off until there is data, and takes it up again.             *)
Defer(h) ==
  /\ Serving(h, "read") /\ Cancellable
  /\ deferred' = [deferred EXCEPT ![chan[h]] = @ \cup {req[h].mid}]
  /\ Leave(h, "loop")
  /\ UNCHANGED <<nodeVars, chanVars, listVars, devVars, msgCount, nextRid,
                 treeLock, asleep, sig, sent>>

Complete(h, c, r) ==
  /\ Idling(h) /\ handler[c] = h /\ r \in deferred[c]
  /\ SendReply(c, r, "ok")
  /\ deferred' = [deferred EXCEPT ![c] = @ \ {r}]
  /\ Goto(h, "data")
  /\ chan' = [chan EXCEPT ![h] = c]
  /\ req' = [req EXCEPT ![h] = [Idle0 EXCEPT !.op = "read", !.mid = r]]
  /\ UNCHANGED <<nodeVars, chanVars, devVars, msgCount, nextRid, treeLock, sig,
                 sent>>

(* Fetches the data of a write, then answers.                              *)
ServeWrite(h) ==
  /\ Serving(h, "write")
  /\ sendList[chan[h]] # << >>
  /\ FetchFirst(chan[h])
  /\ req' = [req EXCEPT ![h].op = "data"]
  /\ UNCHANGED <<nodeVars, chanVars, recvList, devVars, nextRid, treeLock, pc,
                 chan, asleep, sig, deferred, sent>>

ServeData(h, res) ==
  /\ Serving(h, "data")
  /\ SendReply(chan[h], req[h].mid, res)
  /\ Leave(h, "loop")
  /\ UNCHANGED <<nodeVars, chanVars, devVars, msgCount, nextRid, treeLock, sig,
                 deferred, sent>>

(* A request that is not put off anymore has been answered.                *)
ServeCancel(h) ==
  /\ Serving(h, "cancel")
  /\ SendReply(chan[h], req[h].mid,
               IF req[h].old \in deferred[chan[h]] THEN "cancelled" ELSE "there")
  /\ deferred' = [deferred EXCEPT ![chan[h]] = @ \ {req[h].old}]
  /\ Leave(h, "loop")
  /\ UNCHANGED <<nodeVars, chanVars, devVars, msgCount, nextRid, treeLock, sig,
                 sent>>

(* VFSChannel::close for the file of the driver.                           *)
CloseFile(h, c, back) ==
  /\ driverFile[c]
  /\ driverFile' = [driverFile EXCEPT ![c] = FALSE]
  /\ deferred' = [deferred EXCEPT ![c] = {}]
  /\ Unref(h, c, Alive(c), back)
  /\ UNCHANGED <<clientFile, chanVars, listVars, devAlive, lastClient, msgCount,
                 nextRid, sig, sent>>

DriverClose(h) == At(h, "drvclose") /\ CloseFile(h, chan[h], "loop")
-----------------------------------------------------------------------------
(* The driver dies: the device is closed, then the files of the channels.  *)

(* SIGKILL reaches the driver asleep or at any point outside of the        *)
(* kernel: idle, with a request, between a reply and its data, before it   *)
(* closes a file.  VFSDevice::close wakes the clients up,                  *)
Die(h) ==
  /\ MayDie /\ h = Creator /\ devAlive
  /\ \A g \in Handler : pc[g] \in Outside \cup {"drvclose"}
  /\ \A t \in Client : pc[t] \in Outside
  /\ asleep' = [t \in Thread |->
                  IF t \in Handler \/ InList(children, asleep[t]) THEN None
                  ELSE asleep[t]]
  /\ pc' = [t \in Thread |-> IF t = h THEN "destroy"
                             ELSE IF t \in Handler THEN "dead" ELSE pc[t]]
  /\ chan' = [t \in Thread |-> IF t \in Handler THEN None ELSE chan[t]]
  /\ req' = [t \in Thread |-> IF t \in Handler THEN Idle0 ELSE req[t]]
  /\ UNCHANGED <<nodeVars, chanVars, listVars, devVars, msgCount, nextRid,
                 treeLock, sig, deferred, sent>>

(* destroys the channels,                                                  *)
DestroyChild(h) ==
  /\ At(h, "destroy") /\ children # << >>
  /\ Unref(h, Head(children), TRUE, "destroy")
  /\ UNCHANGED <<clientFile, driverFile, chanVars, listVars, devAlive, lastClient,
                 msgCount, nextRid, sig, deferred, sent>>

(* and the device.                                                         *)
DestroyDevice(h) ==
  /\ At(h, "destroy") /\ children = << >>
  /\ devAlive' = FALSE
  /\ Goto(h, "closeall")
  /\ UNCHANGED <<nodeVars, chanVars, listVars, children, lastClient, msgCount,
                 nextRid, treeLock, chan, req, asleep, sig, deferred, sent>>

(* FileDesc::destroy closes the files that are left.                       *)
CloseAll(h) ==
  /\ At(h, "closeall")
  /\ \E c \in Chan : CloseFile(h, c, "closeall")

AllClosed(h) ==
  /\ At(h, "closeall") /\ \A c \in Chan : ~ driverFile[c]
  /\ Goto(h, "dead")
  /\ UNCHANGED <<nodeVars, chanVars, listVars, devVars, msgCount, nextRid,
                 treeLock, chan, req, asleep, sig, deferred, sent>>
-----------------------------------------------------------------------------
(* What a client does next in the kernel.                                  *)
ClientStep(t) ==
  \/ OpenFail(t) \/ Release(t)
  \/ ReceiveReply(t) \/ ReceiveNothing(t)
  \/ ReceiveWait(t) \/ Awake(t) \/ Cancel(t)
  \/ SendClose(t) \/ SetClosed(t) \/ Invalidate(t)

(* What a thread of the driver does next, once there is something to do.   *)
HandlerStep(h) ==
  \/ GetWork(h) \/ Fetch(h)
  \/ \E g \in Handler, res \in {"ok", "err"} : ServeOpen(h, g, res)
  \/ \E res \in {"ok", "err"} : ServeRead(h, res) \/ ServeData(h, res)
  \/ SendData(h) \/ Defer(h) \/ ServeWrite(h) \/ ServeCancel(h)
  \/ DriverClose(h) \/ Invalidate(h)
  \/ DestroyChild(h) \/ DestroyDevice(h) \/ CloseAll(h) \/ AllClosed(h)

Next ==
  \/ \E t \in Client :
       \/ ClientStep(t) \/ Signal(t) \/ HandleSignal(t)
       \/ \E c \in Chan :
            \/ Open(t, c) \/ Close(t, c)
            \/ \E o \in {"read", "write"}, nb \in BOOLEAN : Request(t, c, o, nb)
  \/ \E h \in Handler :
       \/ HandlerStep(h) \/ GetWorkInterrupted(h) \/ Die(h)
       \/ \E c \in Chan, r \in Rids : Complete(h, c, r)

Spec == Init /\ [][Next]_vars

(* A thread in the kernel goes on, as the scheduler guarantees; the driver *)
(* handles its messages, and what it has put off becomes possible at some  *)
(* time, of which a signal tells it.                                       *)
Fairness ==
  /\ \A t \in Client : SF_vars(ClientStep(t))
  /\ \A h \in Handler :
       /\ SF_vars(HandlerStep(h))
       /\ SF_vars(GetWorkInterrupted(h) /\ \E c \in Chan : deferred[c] # {})
       /\ SF_vars(\E c \in Chan, r \in Rids : Complete(h, c, r))

FairSpec == Spec /\ Fairness
-----------------------------------------------------------------------------
(* The places of all messages for the driver.                              *)
Queued == UNION {{c} \X (1 .. Len(sendList[c])) : c \in Chan}

(* device.h: msgCount is the total number of messages in all channels for  *)
(* the device; getWork() trusts it to say that there is nothing to do.     *)
MsgCountExact == treeLock = None => msgCount = Cardinality(Queued)

(* Clients whose open() of c is not finished: the creators of the node.    *)
Openers(c) ==
  {t \in Client : /\ chan[t] = c
                  /\ \/ req[t].op = "open"
                     \/ pc[t] = "release"
                     \/ pc[t] = "inval" /\ req[t].back = "release"}

(* The references of a channel are its open files and its creator, so that *)
(* the last of them destroys it, whoever comes last: client or driver.     *)
RefsExact ==
  /\ TypeOK
  /\ \A c \in Chan : node[c] \in {"alive", "detached"} =>
       refs[c] = (IF clientFile[c] THEN 1 ELSE 0) + (IF driverFile[c] THEN 1 ELSE 0)
                 + Cardinality(Openers(c))

(* The device's pointer to the client served last never dangles, although  *)
(* channels leave the list in different ways.                              *)
LastClientValid ==
  lastClient # None => node[lastClient] \in {"alive", "detached"}

(* A thread of the driver sleeps in getWork() only if none of its channels *)
(* has a message: neither the count nor the wakeup may miss one.           *)
SleepsWithoutWork ==
  \A h \in Handler, c \in Chan :
    pc[h] = "nowork" /\ asleep[h] = Dev /\ driverFile[c] => ~ HasWork(h, c)

(* Whatever is interrupted or cancelled, a reply in a channel is one that  *)
(* a client is still going to fetch ("we have to leave the channel in a    *)
(* consistent state", getReceiveFlags).                                    *)
NoStaleReply ==
  \A c \in Chan : Alive(c) => \A i \in 1 .. Len(recvList[c]) :
    \E t \in Client :
      /\ chan[t] = c
      /\ recvList[c][i].rid \in {req[t].mid} \cup
           (IF req[t].want = "cancel" THEN {req[t].old} ELSE {})

-----------------------------------------------------------------------------
(* An inductive invariant for one processor and a driver that lives.       *)

Solo == \A t, u \in Thread : pc[t] \notin Outside /\ pc[u] \notin Outside => t = u

(* What a client can be busy with.                                         *)
ClientAt(t) ==
  \/ pc[t] = "user" /\ chan[t] = None /\ req[t] = Idle0
  \/ /\ pc[t] \in {"recv", "asleep", "cancel", "openfail"} /\ chan[t] \in Chan
     /\ req[t].op \in {"open", "read", "write"}
     /\ req[t].op = "open" => pc[t] # "cancel" /\ req[t].want = "resp" /\ ~ req[t].nb
     /\ pc[t] = "openfail" => req[t].op = "open"
  \/ pc[t] \in {"release", "close", "setclosed"} /\ chan[t] \in Chan /\ req[t] = Idle0
  \/ pc[t] = "inval" /\ chan[t] \in Chan /\ req[t].op = "none" /\ req[t].back = "user"

HandlerAt(h) ==
  \/ pc[h] \in {"loop", "nowork"} /\ chan[h] = None /\ req[h] = Idle0
  \/ pc[h] \in {"fetch", "serve", "data", "drvclose"} /\ chan[h] \in Chan
  \/ pc[h] = "inval" /\ chan[h] \in Chan /\ req[h].back = "loop"

(* Who is in invalidate() has dropped the last reference.                  *)
Dropping ==
  /\ treeLock # None => pc[treeLock] = "inval"
  /\ \A t \in Thread : pc[t] = "inval" =>
       /\ treeLock = t /\ refs[chan[t]] = 0 /\ req[t].seen = msgCount
       /\ node[chan[t]] \in {"alive", "detached"}

(* A node has its references, one of them for the only client whose open() *)
(* is not finished; it has no file yet.                                    *)
Held(c) ==
  /\ \A t, u \in Openers(c) : t = u
  /\ Openers(c) # {} => ~ clientFile[c]
  /\ refs[c] = (IF clientFile[c] THEN 1 ELSE 0) + (IF driverFile[c] THEN 1 ELSE 0)
                + (IF Openers(c) # {} THEN 1 ELSE 0)
  /\ node[c] \in {"unused", "freed"} => refs[c] = 0
  /\ driverFile[c] => node[c] = "alive"
  /\ \A t \in Client : req[t].op \in {"read", "write"} /\ chan[t] = c => clientFile[c]

(* Nobody knows a node that has not been used.                             *)
Blank(c) ==
  node[c] = "unused" =>
    /\ sendList[c] = << >> /\ recvList[c] = << >> /\ deferred[c] = {}
    /\ \A t \in Thread : chan[t] # c

(* The list of children holds the nodes that are alive.                    *)
Kids == \A c \in Chan : InList(children, c) <=> node[c] = "alive"

Counted == IsFiniteSet(Queued) /\ msgCount = Cardinality(Queued)

(* Until the driver has answered an open, nothing else happens to the      *)
(* channel.                                                                *)
OpenQueued(c) == \E i \in 1 .. Len(sendList[c]) : sendList[c][i].op = "open"
Busy(h, c) == chan[h] = c /\ pc[h] \in {"serve", "data"}
ServesOpen(h, c) == chan[h] = c /\ pc[h] = "serve" /\ req[h].op = "open"
Fresh(c) ==
  /\ recvList[c] = << >> /\ deferred[c] = {} /\ ~ clientFile[c]
  /\ \A t \in Client : chan[t] = c => pc[t] # "close"

Opening(c) ==
  /\ OpenQueued(c) =>
       Fresh(c) /\ Len(sendList[c]) = 1 /\ \A h \in Handler : ~ Busy(h, c)
  /\ \A h \in Handler : ServesOpen(h, c) =>
       Fresh(c) /\ sendList[c] = << >> /\ \A g \in Handler : Busy(g, c) => g = h

ChanInv ==
  /\ TypeOK /\ Solo /\ Dropping /\ Kids /\ Counted
  /\ \A t \in Client : ClientAt(t)
  /\ \A h \in Handler : HandlerAt(h)
  /\ \A c \in Chan : Held(c) /\ Blank(c) /\ Opening(c)
  /\ LastClientValid /\ SleepsWithoutWork
=============================================================================
