------------------------------ MODULE PhysMem ------------------------------
(***************************************************************************)
(* The frames of physical memory (mem/physmem.cc): two stacks of free      *)
(* frames, the counters that keep some of them back for the kernel         *)
(* (kframes, cframes) or announce demand (uframes), threads that reserve   *)
(* frames for themselves (Thread::reserveFrames) and sleep if there are    *)
(* too few, and the swapper, which makes room and swaps pages in on        *)
(* behalf of threads that wait in swapIn().                                *)
(*                                                                         *)
(* Frames are counted per stack.  An action is one section under defLock;  *)
(* the swapper keeps the lock over several of its steps.                   *)
(***************************************************************************)
EXTENDS Integers, Sequences, FiniteSets, FiniteSetsExt

CONSTANTS
  Thread,
  NoThread,
  Frames0,      \* the frames each stack begins with
  Kframes0, Cframes0,
  Share,        \* 100 / KERNEL_MEM_PERCENT
  AtOnce,       \* MAX_SWAP_AT_ONCE
  JobCount,     \* SWAPIN_JOB_COUNT
  Word,         \* size_t is counted modulo Word
  Blocks,       \* blocks of the swap device
  MaxCount,     \* bound: frames of one request
  MaxUframes    \* bound: uframes

Zone == {"lower", "upper"}

ASSUME PhysMemAssumption ==
  /\ IsFiniteSet(Thread) /\ NoThread \notin Thread
  /\ Frames0 \in [Zone -> Nat]
  /\ Kframes0 \in 0 .. Frames0["lower"]
  /\ Cframes0 \in Nat
  /\ Kframes0 + Cframes0 <= Frames0["lower"] + Frames0["upper"]
  /\ Share \in Nat \ {0} /\ AtOnce \in Nat \ {0} /\ JobCount \in Nat \ {0}
  /\ MaxCount \in Nat /\ MaxUframes \in Nat /\ Blocks \in Nat
  /\ Word \in Nat
  /\ Frames0["lower"] + Frames0["upper"] < Word /\ MaxUframes < Word

(* Where a thread is:                                                      *)
(*   idle     needs no frames                                              *)
(*   reserve  reserveFrames(), about to call reserve()                     *)
(*   asleep   reserve(), waits for EV_SWAP_FREE                            *)
(*   retry    reserve(), woken up                                          *)
(*   alloc    reserveFrames(), allocates                                   *)
(*   have     works with its frames                                        *)
(*   getjob   swapIn(), looks for a free job                               *)
(*   nojob    swapIn(), waits for EV_SWAP_JOB                              *)
(*   jobfree  swapIn(), woken up                                           *)
(*   blocked  swapIn(), waits for its job                                  *)
(*   discard  discardFrames()                                              *)
(* The swapper, with the lock: top, wake, jobs; without: out (swapOut),    *)
(* in (swapIn), indone, asleep, woken; panic ends the system.              *)
InSwapIn == {"getjob", "nojob", "jobfree", "blocked"}
Points == {"idle", "reserve", "asleep", "retry", "alloc", "have", "discard"}
            \cup InSwapIn
Locked == {"top", "wake", "jobs"}
SwapperPoints == Locked \cup {"out", "in", "indone", "asleep", "woken", "panic"}

VARIABLES
  free,                       \* the stacks lower and upper: frames - begin
  kframes, cframes, uframes,
  held,                       \* reqFrames of each thread
  mapped,                     \* user frames mapped by some region
  kern, crit,                 \* frames allocated as KERN and CRIT
  swapped,                    \* pages that have been swapped out
  pc, need, swap,             \* count and swap of reserveFrames
  spc, amount, swapping,      \* the swapper
  jobs, current, jobWaiters,  \* swap-in jobs, the one being handled
  unheard,                    \* threads that began to wait while the swapper
                              \* handled a job
  wrapped                     \* the refill of kframes has wrapped around

counters == <<kframes, cframes, uframes>>
uses == <<held, mapped, kern, crit, swapped>>
threadVars == <<pc, need, swap>>
jobVars == <<jobs, current, jobWaiters>>
swapperVars == <<spc, amount, swapping>>
vars == <<free, counters, uses, threadVars, jobVars, swapperVars, unheard,
          wrapped>>

None0 == [z \in Zone |-> 0]

TypeOK ==
  /\ free \in [Zone -> Nat]
  /\ kframes \in Nat /\ cframes \in Nat /\ uframes \in 0 .. MaxUframes
  /\ held \in [Thread -> [Zone -> Nat]]
  /\ mapped \in [Zone -> Nat] /\ kern \in [Zone -> Nat] /\ crit \in [Zone -> Nat]
  /\ swapped \in Nat
  /\ pc \in [Thread -> Points]
  /\ need \in [Thread -> 0 .. MaxCount] /\ swap \in [Thread -> BOOLEAN]
  /\ spc \in SwapperPoints /\ amount \in 0 .. AtOnce /\ swapping \in BOOLEAN
  /\ jobs \in Seq(Thread) /\ current \in Thread \cup {NoThread}
  /\ jobWaiters \in Nat
  /\ unheard \in SUBSET Thread /\ wrapped \in BOOLEAN

(* init: the kernel's part has been taken off, nothing is in use.          *)
Init ==
  /\ free = Frames0
  /\ kframes = Kframes0 /\ cframes = Cframes0 /\ uframes = 0
  /\ held = [t \in Thread |-> None0]
  /\ mapped = None0 /\ kern = None0 /\ crit = None0
  /\ swapped = 0
  /\ pc = [t \in Thread |-> "idle"] /\ need = [t \in Thread |-> 0]
  /\ swap = [t \in Thread |-> FALSE]
  /\ spc = "top" /\ amount = 0 /\ swapping = FALSE
  /\ jobs = << >> /\ current = NoThread /\ jobWaiters = 0
  /\ unheard = {} /\ wrapped = FALSE

-----------------------------------------------------------------------------
Runs == spc # "panic" /\ ~ wrapped
Unlocked == Runs /\ spc \notin Locked
At(t, p) == Unlocked /\ pc[t] = p
Goto(t, p) == pc' = [pc EXCEPT ![t] = p]

GetFreeDef == free["lower"] + free["upper"]
(* What is left for users, in unsigned arithmetic.                         *)
Avail == (GetFreeDef - (kframes + cframes)) % Word

(* allocFrame: the stack to take a frame from.                             *)
AllocFrom(forceLower) ==
  IF ~ forceLower /\ free["lower"] <= kframes THEN "upper" ELSE "lower"
Take(z) == free' = [free EXCEPT ![z] = @ - 1]
(* freeFrame: a frame goes back to the stack of its address.               *)
GiveBack(z) == free' = [free EXCEPT ![z] = @ + 1]

(* Sched::wakeup(EV_SWAP_WORK), which callers skip while it swaps.         *)
NotifySwapper == spc' = IF ~ swapping /\ spc = "asleep" THEN "woken" ELSE spc

-----------------------------------------------------------------------------
(* Thread::reserveFrames.                                                  *)
ReserveFrames(t, n, s) ==
  /\ At(t, "idle")
  /\ need' = [need EXCEPT ![t] = n]
  /\ swap' = [swap EXCEPT ![t] = s]
  /\ Goto(t, "reserve")
  /\ UNCHANGED <<free, counters, uses, jobVars, swapperVars, unheard, wrapped>>

Enough(t) ==
  GetFreeDef >= need[t] /\ GetFreeDef - need[t] >= kframes + cframes

(* The demand is announced first, whether or not there is enough.          *)
Announce(t) == uframes' = uframes + need[t]

ReserveEnough(t) ==
  /\ At(t, "reserve") /\ Enough(t)
  /\ uframes + need[t] <= MaxUframes
  /\ Announce(t)
  /\ Goto(t, "alloc")
  /\ UNCHANGED <<free, kframes, cframes, uses, need, swap, jobVars, swapperVars,
                 unheard, wrapped>>

(* The thread neither swaps nor waits: reserveFrames() gives up.           *)
ReserveFails(t) ==
  /\ At(t, "reserve") /\ ~ Enough(t) /\ ~ swap[t]
  /\ uframes + need[t] <= MaxUframes
  /\ Announce(t)
  /\ need' = [need EXCEPT ![t] = 0]
  /\ Goto(t, "discard")
  /\ UNCHANGED <<free, kframes, cframes, uses, swap, jobVars, swapperVars,
                 unheard, wrapped>>

(* The body of the loop in reserve(): notify and wait.                     *)
WaitForFrames(t) ==
  /\ NotifySwapper
  /\ Goto(t, "asleep")
  /\ unheard' = IF spc \in {"in", "indone"} THEN unheard \cup {t} ELSE unheard
  /\ UNCHANGED <<free, kframes, cframes, uses, need, swap, jobVars, amount,
                 swapping, wrapped>>

ReserveWaits(t) ==
  /\ At(t, "reserve") /\ ~ Enough(t) /\ swap[t]
  /\ uframes + need[t] <= MaxUframes
  /\ Announce(t)
  /\ WaitForFrames(t)

ReserveAgain(t) ==
  /\ At(t, "retry") /\ Avail < need[t]
  /\ UNCHANGED uframes
  /\ WaitForFrames(t)

ReserveServed(t) ==
  /\ At(t, "retry") /\ Avail >= need[t]
  /\ Goto(t, "alloc")
  /\ UNCHANGED <<free, counters, uses, need, swap, jobVars, swapperVars, unheard,
                 wrapped>>

UsrMayLeaveNone == GetFreeDef >= kframes + cframes /\ GetFreeDef > 0

(* allocate(USR): the reserves of the kernel are left alone.               *)
UsrMay == GetFreeDef > kframes + cframes

(* One frame of the loop in reserveFrames().                               *)
AllocateUsr(t) ==
  /\ At(t, "alloc") /\ UsrMay
  /\ LET z == AllocFrom(FALSE)
     IN  /\ free[z] > 0
         /\ Take(z)
         /\ held' = [held EXCEPT ![t][z] = @ + 1]
  /\ uframes' = (uframes - 1) % Word
  /\ need' = [need EXCEPT ![t] = @ - 1]
  /\ IF need[t] = 1
       THEN Goto(t, "have") /\ swap' = [swap EXCEPT ![t] = FALSE]
       ELSE UNCHANGED <<pc, swap>>
  /\ UNCHANGED <<kframes, cframes, mapped, kern, crit, swapped, jobVars,
                 swapperVars, unheard, wrapped>>

(* Another thread has been faster: reserve the rest once more.             *)
AllocateUsrFails(t) ==
  /\ At(t, "alloc") /\ ~ UsrMay
  /\ Goto(t, "reserve")
  /\ UNCHANGED <<free, counters, uses, need, swap, jobVars, swapperVars, unheard,
                 wrapped>>

(* getFrame() for a mapping.                                               *)
Map(t, z) ==
  /\ At(t, "have") /\ held[t][z] > 0
  /\ held' = [held EXCEPT ![t][z] = @ - 1]
  /\ mapped' = [mapped EXCEPT ![z] = @ + 1]
  /\ UNCHANGED <<free, counters, kern, crit, swapped, threadVars, jobVars,
                 swapperVars, unheard, wrapped>>

Discards(t) ==
  /\ At(t, "have")
  /\ Goto(t, "discard")
  /\ UNCHANGED <<free, counters, uses, need, swap, jobVars, swapperVars, unheard,
                 wrapped>>

(* discardFrames.                                                          *)
DiscardFrame(t, z) ==
  /\ At(t, "discard") /\ held[t][z] > 0
  /\ held' = [held EXCEPT ![t][z] = @ - 1]
  /\ GiveBack(z)
  /\ UNCHANGED <<counters, mapped, kern, crit, swapped, threadVars, jobVars,
                 swapperVars, unheard, wrapped>>

Discarded(t) ==
  /\ At(t, "discard") /\ held[t] = None0
  /\ Goto(t, "idle")
  /\ UNCHANGED <<free, counters, uses, need, swap, jobVars, swapperVars, unheard,
                 wrapped>>

(* VirtMem::unmap: a page in memory, or one that is swapped out and that   *)
(* nobody swaps in.                                                        *)
Unmap(z) ==
  /\ Unlocked /\ mapped[z] > 0
  /\ mapped' = [mapped EXCEPT ![z] = @ - 1]
  /\ GiveBack(z)
  /\ UNCHANGED <<counters, held, kern, crit, swapped, threadVars, jobVars,
                 swapperVars, unheard, wrapped>>

SwappingIn == {t \in Thread : pc[t] \in InSwapIn}

UnmapSwapped ==
  /\ Unlocked /\ swapped > Cardinality(SwappingIn)
  /\ swapped' = swapped - 1
  /\ UNCHANGED <<free, counters, held, mapped, kern, crit, threadVars, jobVars,
                 swapperVars, unheard, wrapped>>

-----------------------------------------------------------------------------
(* allocate(CRIT), free(CRIT).                                             *)
AllocateCrit ==
  /\ Unlocked /\ cframes > 0
  /\ cframes' = cframes - 1
  /\ LET z == AllocFrom(FALSE)
     IN  IF free[z] > 0
           THEN Take(z) /\ crit' = [crit EXCEPT ![z] = @ + 1]
           ELSE UNCHANGED <<free, crit>>
  /\ UNCHANGED <<kframes, uframes, held, mapped, kern, swapped, threadVars,
                 jobVars, swapperVars, unheard, wrapped>>

FreeCrit(z) ==
  /\ Unlocked /\ crit[z] > 0
  /\ crit' = [crit EXCEPT ![z] = @ - 1]
  /\ cframes' = cframes + 1
  /\ GiveBack(z)
  /\ UNCHANGED <<kframes, uframes, held, mapped, kern, swapped, threadVars,
                 jobVars, swapperVars, unheard, wrapped>>

(* "if there are no kframes anymore, take away a few uframes".             *)
Refill == (free["lower"] - cframes) \div Share

KframesNow == IF kframes = 0 THEN Refill ELSE kframes

(* allocate(KERN), free(KERN).                                             *)
AllocateKern ==
  /\ Unlocked /\ (kframes = 0 => free["lower"] >= cframes)
  /\ IF KframesNow > 0
       THEN /\ kframes' = KframesNow - 1
            /\ Take(AllocFrom(TRUE))
            /\ kern' = [kern EXCEPT ![AllocFrom(TRUE)] = @ + 1]
       ELSE UNCHANGED <<kframes, free, kern>>
  /\ UNCHANGED <<cframes, uframes, held, mapped, crit, swapped, threadVars,
                 jobVars, swapperVars, unheard, wrapped>>

(* The difference is unsigned: with fewer lower frames than cframes it is  *)
(* huge, and the stack is popped below its beginning.                      *)
AllocateKernWraps ==
  /\ Unlocked /\ kframes = 0 /\ free["lower"] < cframes
  /\ wrapped' = TRUE
  /\ UNCHANGED <<free, counters, uses, threadVars, jobVars, swapperVars, unheard>>

FreeKern(z) ==
  /\ Unlocked /\ kern[z] > 0
  /\ kern' = [kern EXCEPT ![z] = @ - 1]
  /\ kframes' = kframes + 1
  /\ GiveBack(z)
  /\ UNCHANGED <<cframes, uframes, held, mapped, crit, swapped, threadVars,
                 jobVars, swapperVars, unheard, wrapped>>

-----------------------------------------------------------------------------
(* swapIn, called for a page fault, which has reserved a frame.  swapIn()  *)
(* does not check that; populatePages(), for mlockall, may come without    *)
(* one, because lockRegion() counts copy-on-write pages as present when it *)
(* reserves.  That caller is left out.                                     *)
SwapInCall(t) ==
  /\ At(t, "have") /\ held[t] # None0
  /\ swapped > Cardinality(SwappingIn)
  /\ Goto(t, "getjob")
  /\ UNCHANGED <<free, counters, uses, need, swap, jobVars, swapperVars, unheard,
                 wrapped>>

InUse == Len(jobs) + (IF current = NoThread THEN 0 ELSE 1)

WaitForJob(t) ==
  /\ At(t, "getjob") /\ InUse = JobCount
  /\ Goto(t, "nojob")
  /\ jobWaiters' = jobWaiters + 1
  /\ UNCHANGED <<free, counters, uses, need, swap, jobs, current, swapperVars,
                 unheard, wrapped>>

JobIsFree(t) ==
  /\ At(t, "jobfree")
  /\ Goto(t, "getjob")
  /\ jobWaiters' = jobWaiters - 1
  /\ UNCHANGED <<free, counters, uses, need, swap, jobs, current, swapperVars,
                 unheard, wrapped>>

AppendJobQuietly(t) ==
  /\ At(t, "getjob") /\ InUse < JobCount
  /\ jobs' = Append(jobs, t)
  /\ spc' = IF ~ swapping /\ uframes > 0 /\ spc = "asleep" THEN "woken" ELSE spc
  /\ Goto(t, "blocked")
  /\ UNCHANGED <<free, counters, uses, need, swap, current, jobWaiters, amount,
                 swapping, unheard, wrapped>>

AppendJob(t) ==
  /\ At(t, "getjob") /\ InUse < JobCount
  /\ jobs' = Append(jobs, t)
  /\ NotifySwapper
  /\ Goto(t, "blocked")
  /\ UNCHANGED <<free, counters, uses, need, swap, current, jobWaiters, amount,
                 swapping, unheard, wrapped>>

-----------------------------------------------------------------------------
(* swapper.                                                                *)
Amount == Min({AtOnce, uframes - Avail})

SwapperTopSkipsWake ==
  /\ Runs /\ spc = "top"
  /\ IF Avail < uframes
       THEN amount' = Amount /\ swapping' = TRUE /\ spc' = "out"
       ELSE spc' = "jobs" /\ UNCHANGED <<amount, swapping>>
  /\ UNCHANGED <<free, counters, uses, threadVars, jobVars, unheard, wrapped>>

(* "swapping out is more important than swapping in".                      *)
SwapperTop ==
  /\ Runs /\ spc = "top"
  /\ IF Avail < uframes
       THEN amount' = Amount /\ swapping' = TRUE /\ spc' = "out"
       ELSE spc' = "wake" /\ UNCHANGED <<amount, swapping>>
  /\ UNCHANGED <<free, counters, uses, threadVars, jobVars, unheard, wrapped>>

(* VirtMem::swapOut, page by page.                                         *)
SwapOut(z) ==
  /\ Runs /\ spc = "out" /\ amount > 0 /\ mapped[z] > 0
  /\ swapped < Blocks
  /\ mapped' = [mapped EXCEPT ![z] = @ - 1]
  /\ GiveBack(z)
  /\ swapped' = swapped + 1
  /\ amount' = amount - 1
  /\ UNCHANGED <<counters, held, kern, crit, threadVars, jobVars, spc, swapping,
                 unheard, wrapped>>

(* "No pages to swap out", or no block for them.                           *)
SwapOutPanics ==
  /\ Runs /\ spc = "out" /\ amount > 0
  /\ mapped = None0 \/ swapped = Blocks
  /\ spc' = "panic"
  /\ UNCHANGED <<free, counters, uses, threadVars, jobVars, amount, swapping,
                 unheard, wrapped>>

SwapOutDone ==
  /\ Runs /\ spc = "out" /\ amount = 0
  /\ swapping' = FALSE
  /\ spc' = "wake"
  /\ UNCHANGED <<free, counters, uses, threadVars, jobVars, amount, unheard,
                 wrapped>>

Woken(from, to) == [t \in Thread |-> IF pc[t] = from THEN to ELSE pc[t]]

(* Sched::wakeup(EV_SWAP_FREE), "in every case".                           *)
SwapperWakes ==
  /\ Runs /\ spc = "wake"
  /\ pc' = Woken("asleep", "retry")
  /\ unheard' = {}
  /\ spc' = "jobs"
  /\ UNCHANGED <<free, counters, uses, need, swap, jobVars, amount, swapping,
                 wrapped>>

GetJob ==
  /\ Runs /\ spc = "jobs" /\ jobs # << >>
  /\ current' = Head(jobs) /\ jobs' = Tail(jobs)
  /\ swapping' = TRUE
  /\ spc' = "in"
  /\ UNCHANGED <<free, counters, uses, threadVars, jobWaiters, amount, unheard,
                 wrapped>>

(* VirtMem::swapIn: the page gets a frame of the thread.                   *)
SwapIn(z) ==
  /\ Runs /\ spc = "in" /\ held[current][z] > 0
  /\ held' = [held EXCEPT ![current][z] = @ - 1]
  /\ mapped' = [mapped EXCEPT ![z] = @ + 1]
  /\ swapped' = swapped - 1
  /\ spc' = "indone"
  /\ UNCHANGED <<free, counters, kern, crit, threadVars, jobVars, amount,
                 swapping, unheard, wrapped>>

FreeJobSilently(woken) == pc' = [pc EXCEPT ![current] = "have"]

(* unblock() and freeJob().                                                *)
FreeJob(woken) ==
  pc' = [(IF jobWaiters > 0 THEN woken ELSE pc) EXCEPT ![current] = "have"]

SwapInDone ==
  /\ Runs /\ spc = "indone"
  /\ FreeJob(Woken("nojob", "jobfree"))
  /\ current' = NoThread
  /\ swapping' = FALSE
  /\ spc' = "jobs"
  /\ UNCHANGED <<free, counters, uses, need, swap, jobs, jobWaiters, amount,
                 unheard, wrapped>>

(* "we may receive new work now": wait for EV_SWAP_WORK, or begin again.   *)
SwapperSleeps ==
  /\ Runs /\ spc = "jobs" /\ jobs = << >>
  /\ spc' = IF Avail >= uframes THEN "asleep" ELSE "top"
  /\ UNCHANGED <<free, counters, uses, threadVars, jobVars, amount, swapping,
                 unheard, wrapped>>

SwapperWoken ==
  /\ Runs /\ spc = "woken"
  /\ spc' = "top"
  /\ UNCHANGED <<free, counters, uses, threadVars, jobVars, amount, swapping,
                 unheard, wrapped>>

-----------------------------------------------------------------------------
ThreadNext(t) ==
  \/ \E n \in 1 .. MaxCount, s \in BOOLEAN : ReserveFrames(t, n, s)
  \/ ReserveEnough(t) \/ ReserveFails(t) \/ ReserveWaits(t)
  \/ ReserveAgain(t) \/ ReserveServed(t)
  \/ AllocateUsr(t) \/ AllocateUsrFails(t)
  \/ \E z \in Zone : Map(t, z) \/ DiscardFrame(t, z)
  \/ Discards(t) \/ Discarded(t)
  \/ SwapInCall(t) \/ WaitForJob(t) \/ JobIsFree(t) \/ AppendJob(t)

KernelNext ==
  \/ AllocateCrit \/ AllocateKern \/ AllocateKernWraps \/ UnmapSwapped
  \/ \E z \in Zone : FreeCrit(z) \/ FreeKern(z) \/ Unmap(z)

SwapperNext ==
  \/ SwapperTop \/ SwapOutDone \/ SwapOutPanics \/ SwapperWakes
  \/ GetJob \/ SwapInDone \/ SwapperSleeps \/ SwapperWoken
  \/ \E z \in Zone : SwapOut(z) \/ SwapIn(z)

Next == (\E t \in Thread : ThreadNext(t)) \/ KernelNext \/ SwapperNext

Spec == Init /\ [][Next]_vars

(* The swapper has a thread of its own, which runs when it is ready.       *)
FairSpec == Spec /\ WF_vars(SwapperNext)

-----------------------------------------------------------------------------
(* Threads in reserveFrames() that have announced what they need.          *)
Announced == {t \in Thread : pc[t] \in {"asleep", "retry", "alloc"}}

(* The frames that they have asked for and not yet got, one by one.        *)
Demand == {d \in Announced \X (1 .. MaxCount) : d[2] <= need[d[1]]}

(* The frames that are kept back exist, those for the kernel among the     *)
(* lower ones: allocate() can serve every critical and kernel request that *)
(* the counters promise, and free - (kframes + cframes) never wraps.  And  *)
(* uframes covers what has been announced and not yet got, so that the     *)
(* assertion uframes > 0 in allocate() holds and the swapper makes enough  *)
(* room.                                                                   *)
CountersCovered ==
  /\ TypeOK
  /\ kframes <= free["lower"]
  /\ kframes + cframes <= GetFreeDef
  /\ Cardinality(Demand) <= uframes

(* No thread is left asleep in reserve() by a swapper that sleeps as well, *)
(* unless it went to sleep while the swapper handled a swap-in job: such a *)
(* thread notifies nobody, and frames that are freed meanwhile send the    *)
(* swapper to sleep.                                                       *)
NoLostSleeper ==
  spc = "asleep" => \A t \in Thread : pc[t] = "asleep" => t \in unheard

(* The pool of jobs: every thread blocked in swapIn() has exactly one job  *)
(* and still owns the frame that the swapper will take from it             *)
(* (assert(frm != 0) in getFrame), and nobody waits for a job while one is *)
(* free.                                                                   *)
JobsExact ==
  /\ InUse <= JobCount
  /\ jobWaiters = Cardinality({t \in Thread : pc[t] \in {"nojob", "jobfree"}})
  /\ \A t \in Thread :
       /\ (pc[t] = "blocked") <=>
            Cardinality({i \in DOMAIN jobs : jobs[i] = t})
              + (IF current = t THEN 1 ELSE 0) = 1
       /\ pc[t] = "blocked" /\ ~ (current = t /\ spc = "indone")
            => held[t] # None0
       /\ pc[t] = "nojob" => InUse = JobCount

(* Liveness: a thread that waits for a page is served, however many frames *)
(* have to be swapped out before.                                          *)
SwapInServed ==
  \A t \in Thread : (pc[t] = "blocked") ~> (pc[t] # "blocked" \/ ~ Runs)
=============================================================================
