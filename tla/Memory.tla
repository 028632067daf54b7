------------------------------- MODULE Memory -------------------------------
(***************************************************************************)
(* Virtual memory behind the page tables: regions (mem/region.cc), page    *)
(* faults, fork and unmap (mem/virtmem.cc), copy-on-write                  *)
(* (mem/copyonwrite.cc), the swap map (mem/swapmap.cc) and the swapper     *)
(* thread (mem/physmem.cc).                                                *)
(*                                                                         *)
(* A member of Region is a page of a region with its flags.  The pages of  *)
(* a region are mapped, locked and unmapped one by one, which allows more  *)
(* than the code; where they influence each other, in a fork that fails,   *)
(* a step treats a set of pages.                                           *)
(*                                                                         *)
(* A process is one thread.  Its fault takes a frame first                 *)
(* (reserveFrames) and is then handled under the mutexes of its address    *)
(* space and of the region; they are held while it waits for the swapper.  *)
(* The swapper holds the mutex of the region it swaps out until the page   *)
(* is on the disk.                                                         *)
(***************************************************************************)
EXTENDS Integers, FiniteSets

CONSTANTS
    Proc, Region, Frame, Block, Value, Zero, Null,
    MaxPages    \* bound: the pages a process maps

ASSUME MemoryAssumption ==
    /\ IsFiniteSet(Proc) /\ IsFiniteSet(Region)
    /\ Zero \in Value /\ MaxPages \in Nat
    /\ Null \notin Proc \cup Region \cup Frame \cup Block \cup Value

VARIABLES
    users,      \* Region::vms
    shared,     \* the regions with RF_SHAREABLE
    pf,         \* the flags of the page: demand, present (0), cow, swapped;
                \* none if there is no page, empty: 0, but nothing is mapped
    block,      \* the swap block, if the page is swapped
    pte,        \* pte[p][r]: the frame and its mode: none, ro, rw, super (no
                \* access but for the kernel)
    mem, disk,  \* the content of frames and of blocks
    cow,        \* CopyOnWrite::frames, the references by frame
    blkRefs,    \* SwapMap::swapBlocks
    free,       \* the frames on the stacks of PhysMem
    pc,         \* pc[p]: idle, fault (a frame is reserved), swapin
    swapper,    \* the region that is being swapped out, and the buffer
    stored,     \* history: what the program of a region's users expects there
    hurt        \* what has gone wrong, see Damage

vars == <<users, shared, pf, block, pte, mem, disk, cow, blkRefs, free, pc,
          swapper, stored, hurt>>
regVars == <<users, shared>>

idle == [at |-> "idle", r |-> Null, frame |-> Null]
resting == [r |-> Null, buf |-> Null]
noPte == [frame |-> Null, mode |-> "none"]

Init ==
    /\ users = [r \in Region |-> {}]
    /\ shared = {}
    /\ pf = [r \in Region |-> "none"]
    /\ block = [r \in Region |-> Null]
    /\ pte = [p \in Proc |-> [r \in Region |-> noPte]]
    /\ mem \in [Frame -> Value]
    /\ disk = [b \in Block |-> Zero]
    /\ cow = [f \in Frame |-> 0]
    /\ blkRefs = [b \in Block |-> 0]
    /\ free = Frame
    /\ pc = [p \in Proc |-> idle]
    /\ swapper = resting
    /\ stored = [r \in Region |-> Null]
    /\ hurt = {}

(* A failed fork has left pages read-only without a mark ("fork"), an      *)
(* unmap has lost a frame ("unmap").  Behind the others contents are       *)
(* arbitrary, and the model stops: a shrink has freed a frame that others  *)
(* map, a failed fork has taken a reference too many ("undo") or has       *)
(* restored pages wrongly ("clone"), a region has grown without a page.    *)
Fatal == {"shrink", "undo", "clone", "grow"}
Damage == {"fork", "unmap"} \cup Fatal
Whole == hurt \cap Fatal = {}

Unused == {r \in Region : users[r] = {}}
Mine(p) == {r \in Region : p \in users[r]}

(* The mutex of the region is held over a step by the swapper or by a      *)
(* thread that waits for it.                                               *)
Locked(r) == swapper.r = r \/ \E p \in Proc : pc[p].at = "swapin" /\ pc[p].r = r

(* map() into the page tables of everybody who has the region.             *)
MapAll(r, e) == [p \in Proc |-> IF p \in users[r] THEN [pte[p] EXCEPT ![r] = e]
                                                  ELSE pte[p]]

-----------------------------------------------------------------------------
(* The system calls.                                                       *)

(* map() of anonymous memory: the page will be loaded on demand.           *)
Map(p, r, share) ==
    /\ pc[p] = idle /\ r \in Unused
    /\ Cardinality(Mine(p)) < MaxPages
    /\ users' = [users EXCEPT ![r] = {p}]
    /\ shared' = IF share THEN shared \cup {r} ELSE shared
    /\ pf' = [pf EXCEPT ![r] = "demand"]
    /\ stored' = [stored EXCEPT ![r] = Zero]
    /\ UNCHANGED <<block, pte, mem, disk, cow, blkRefs, free, pc, swapper, hurt>>

(* A store goes through if the page table allows it.                       *)
Write(p, r, v) ==
    /\ pc[p] = idle /\ pte[p][r].mode = "rw"
    /\ mem' = [mem EXCEPT ![pte[p][r].frame] = v]
    /\ stored' = [stored EXCEPT ![r] = v]
    /\ UNCHANGED <<regVars, pf, block, pte, disk, cow, blkRefs, free, pc,
                   swapper, hurt>>

(* doUnmap(): the last user gives the page back.  A frame that is marked   *)
(* copy-on-write loses a reference, and only that.                         *)
CowDrop(f) == [cow EXCEPT ![f] = @ - 1]

Unmap(p, r) ==
    LET last == users[r] = {p}
        f == pte[p][r].frame
    IN  /\ pc[p] = idle /\ p \in users[r] /\ ~Locked(r)
        /\ users' = [users EXCEPT ![r] = @ \ {p}]
        /\ pte' = [pte EXCEPT ![p][r] = noPte]
        /\ shared' = IF last THEN shared \ {r} ELSE shared
        /\ pf' = IF last THEN [pf EXCEPT ![r] = "none"] ELSE pf
        /\ block' = IF last THEN [block EXCEPT ![r] = Null] ELSE block
        /\ cow' = IF last /\ pf[r] = "cow" THEN CowDrop(f) ELSE cow
        /\ free' = IF last /\ pf[r] = "present" THEN free \cup {f} ELSE free
        /\ blkRefs' = IF last /\ pf[r] = "swapped"
                      THEN [blkRefs EXCEPT ![block[r]] = @ - 1] ELSE blkRefs
        /\ stored' = IF last THEN [stored EXCEPT ![r] = Null] ELSE stored
        /\ hurt' = IF last /\ pf[r] = "cow" /\ cow[f] = 1
                   THEN hurt \cup {"unmap"} ELSE hurt
        /\ UNCHANGED <<mem, disk, pc, swapper>>

(* doGrow() by a negative amount: Region::grow() frees the swap block, the *)
(* page tables free the frame, also one that is marked copy-on-write.      *)
Shrink(p, r) ==
    /\ pc[p] = idle /\ p \in users[r] /\ r \notin shared /\ ~Locked(r)
    /\ pf[r] # "none"
    /\ pf' = [pf EXCEPT ![r] = "none"]
    /\ pte' = [pte EXCEPT ![p][r] = noPte]
    /\ free' = IF pf[r] \in {"present", "cow"} THEN free \cup {pte[p][r].frame}
               ELSE free
    /\ blkRefs' = IF pf[r] = "swapped"
                  THEN [blkRefs EXCEPT ![block[r]] = @ - 1] ELSE blkRefs
    /\ block' = [block EXCEPT ![r] = Null]
    /\ hurt' = IF pf[r] = "cow" THEN hurt \cup {"shrink"} ELSE hurt
    /\ stored' = [stored EXCEPT ![r] = Null]
    /\ UNCHANGED <<regVars, mem, disk, cow, pc, swapper>>

(* doGrow() by a positive amount: a frame that has been reserved for it is *)
(* mapped as it is, with what its last owner has left there.               *)
Grow(p, r) ==
    /\ pc[p] = idle /\ users[r] \subseteq {p} /\ r \notin shared /\ ~Locked(r)
    /\ pf[r] = "none"
    /\ \E f \in free :
          /\ free' = free \ {f}
          /\ pte' = [pte EXCEPT ![p][r] = [frame |-> f, mode |-> "rw"]]
          /\ stored' = [stored EXCEPT ![r] = mem[f]]
    /\ users' = [users EXCEPT ![r] = {p}]
    /\ pf' = [pf EXCEPT ![r] = "present"]
    /\ UNCHANGED <<shared, block, mem, disk, cow, blkRefs, pc, swapper, hurt>>

(* There is no frame for the page table.  The region has grown already and *)
(* stays so, with a page that counts as present and is mapped nowhere; the *)
(* frame that map() took for it is lost.                                   *)
GrowFails(p, r) ==
    /\ pc[p] = idle /\ users[r] \subseteq {p} /\ r \notin shared /\ ~Locked(r)
    /\ pf[r] = "none"
    /\ \E f \in free : free' = free \ {f}
    /\ users' = [users EXCEPT ![r] = {p}]
    /\ pf' = [pf EXCEPT ![r] = "empty"]
    /\ hurt' = hurt \cup {"grow"}
    /\ UNCHANGED <<shared, block, pte, mem, disk, cow, blkRefs, pc, swapper, stored>>

(* cloneAll(): shared regions are joined, private ones are copied with     *)
(* their flags; a swap block gets a reference, a page that is present is   *)
(* marked copy-on-write on both sides.  copy[r] is the child's region.     *)
Copies(p) == {copy \in [Mine(p) -> Region] :
    /\ \A r \in Mine(p) : IF r \in shared THEN copy[r] = r ELSE copy[r] \in Unused
    /\ \A r, s \in Mine(p) : copy[r] = copy[s] => r = s}

StaysWritable(e) == e
ReadOnly(e) == IF e.mode = "none" THEN e ELSE [e EXCEPT !.mode = "ro"]

(* Region(const Region&): the copy refers to the same swap blocks.         *)
BlkAdded(priv) ==
    [b \in Block |-> blkRefs[b] +
        Cardinality({r \in priv : pf[r] = "swapped" /\ block[r] = b})]

(* CopyOnWrite::add(): once for the child, and once for the parent if the  *)
(* page has not been marked before.                                        *)
CowAdded(priv, p) ==
    [f \in Frame |-> cow[f]
        + 2 * Cardinality({r \in priv : pf[r] = "present" /\ pte[p][r].frame = f})
        + Cardinality({r \in priv : pf[r] = "cow" /\ pte[p][r].frame = f})]

Fork(p, q, copy) ==
    LET priv == Mine(p) \ shared
        kid == {copy[r] : r \in priv}
        orig(s) == CHOOSE r \in priv : copy[r] = s
        marked(r) == IF pf[r] = "present" THEN "cow" ELSE pf[r]
    IN  /\ pc[p] = idle /\ pc[q] = idle /\ Mine(q) = {}
        /\ \A r \in Mine(p) : ~Locked(r)
        /\ users' = [s \in Region |-> IF s \in kid \cup (Mine(p) \cap shared)
                                      THEN users[s] \cup {q} ELSE users[s]]
        /\ pf' = [s \in Region |-> CASE s \in kid  -> marked(orig(s))
                                      [] s \in priv -> marked(s)
                                      [] OTHER      -> pf[s]]
        /\ block' = [s \in Region |-> IF s \in kid THEN block[orig(s)] ELSE block[s]]
        /\ blkRefs' = BlkAdded(priv)
        /\ cow' = CowAdded(priv, p)
        /\ pte' = [pte EXCEPT
              ![p] = [r \in Region |-> IF r \in priv THEN ReadOnly(@[r]) ELSE @[r]],
              ![q] = [s \in Region |-> CASE s \in kid -> ReadOnly(pte[p][orig(s)])
                                         [] s \in Mine(p) \cap shared -> pte[p][s]
                                         [] OTHER -> noPte]]
        /\ stored' = [s \in Region |-> IF s \in kid THEN stored[orig(s)] ELSE stored[s]]
        /\ UNCHANGED <<shared, mem, disk, free, pc, swapper, hurt>>

(* A fork that fails for lack of kernel memory.  In the regions that were  *)
(* complete the pages keep their mark when the child is thrown away        *)
(* (kept).  In the region where CopyOnWrite::add() finds no memory for a   *)
(* page, the page tables have been cloned already and forbid the parent to *)
(* write (bare).  The loop behind errorPages undoes the pages before that  *)
(* one: it takes two references, also from a page that had its mark before *)
(* the fork and got one only (undone).                                     *)
PrivateWith(p, flags) == {r \in Mine(p) \ shared : pf[r] = flags /\ ~Locked(r)}
FramesIn(p, pages) == {pte[p][r].frame : r \in pages}

UndoneOnce(p, kept, undone) ==
    [f \in Frame |-> IF f \in FramesIn(p, kept) THEN cow[f] + 1 ELSE cow[f]]
CowUndone(p, kept, undone) ==
    [f \in Frame |-> CASE f \in FramesIn(p, kept) -> cow[f] + 1
                       [] f \in FramesIn(p, undone) \ FramesIn(p, kept) -> cow[f] - 1
                       [] OTHER -> cow[f]]

ForkFails(p, kept, bare, undone) ==
    LET still == {r \in undone : cow[pte[p][r].frame] > 1}
    IN  /\ pc[p] = idle
        /\ kept \cup bare \subseteq PrivateWith(p, "present") /\ kept \cap bare = {}
        /\ undone \subseteq PrivateWith(p, "cow") /\ (undone # {} => bare # {})
        /\ pf' = [r \in Region |-> CASE r \in kept -> "cow"
                                      [] r \in undone \ still -> "present"
                                      [] OTHER -> pf[r]]
        /\ cow' = CowUndone(p, kept, undone)
        /\ pte' = [pte EXCEPT ![p] = [r \in Region |->
                      IF r \in kept \cup bare THEN ReadOnly(@[r]) ELSE @[r]]]
        /\ hurt' = hurt \cup (IF bare # {} THEN {"fork"} ELSE {})
                        \cup (IF still # {} THEN {"undo"} ELSE {})
        /\ UNCHANGED <<regVars, block, mem, disk, blkRefs, free, pc, swapper, stored>>

(* PageTables::clone() finds no memory for a page table of the child: it   *)
(* makes the pages before that place writable again, whether they were so  *)
(* or not, and takes the right of the program to use them.                 *)
CloneFails(p, kept, done) ==
    /\ pc[p] = idle
    /\ kept \subseteq PrivateWith(p, "present") \ done
    /\ done \subseteq PrivateWith(p, "present") \cup PrivateWith(p, "cow") /\ done # {}
    /\ pf' = [r \in Region |-> IF r \in kept THEN "cow" ELSE pf[r]]
    /\ cow' = CowUndone(p, kept, {})
    /\ pte' = [pte EXCEPT ![p] = [r \in Region |->
                  CASE r \in kept -> ReadOnly(@[r])
                    [] r \in done -> [@[r] EXCEPT !.mode = "super"]
                    [] OTHER      -> @[r]]]
    /\ hurt' = hurt \cup {"clone"}
    /\ UNCHANGED <<regVars, block, mem, disk, blkRefs, free, pc, swapper, stored>>

-----------------------------------------------------------------------------
(* Page faults.                                                            *)

(* pagefault() reserves a frame before it takes any lock; reserve() waits  *)
(* if there is none.                                                       *)
Fault(p, r, write) ==
    /\ pc[p] = idle /\ p \in users[r] /\ pf[r] # "none"
    /\ pte[p][r].mode \in (IF write THEN {"none", "ro"} ELSE {"none"})
    /\ \E f \in free :
          /\ pc' = [pc EXCEPT ![p] = [at |-> "fault", r |-> r, frame |-> f]]
          /\ free' = free \ {f}
    /\ UNCHANGED <<regVars, pf, block, pte, mem, disk, cow, blkRefs, swapper, hurt, stored>>

Handles(p, flags) ==
    pc[p].at = "fault" /\ ~Locked(pc[p].r) /\ pf[pc[p].r] = flags
Done(p) == pc' = [pc EXCEPT ![p] = idle]
Discard(p) == free' = free \cup {pc[p].frame}

(* demandLoad(): the frame is cleared and mapped for all users.            *)
DemandLoadDirty(p) ==
    LET r == pc[p].r  f == pc[p].frame
    IN  /\ Handles(p, "demand")
        /\ pte' = MapAll(r, [frame |-> f, mode |-> "rw"])
        /\ pf' = [pf EXCEPT ![r] = "present"]
        /\ Done(p)
        /\ UNCHANGED <<regVars, block, mem, disk, cow, blkRefs, free, swapper, hurt, stored>>
DemandLoad(p) ==
    LET r == pc[p].r  f == pc[p].frame
    IN  /\ Handles(p, "demand")
        /\ mem' = [mem EXCEPT ![f] = Zero]
        /\ pte' = MapAll(r, [frame |-> f, mode |-> "rw"])
        /\ pf' = [pf EXCEPT ![r] = "present"]
        /\ Done(p)
        /\ UNCHANGED <<regVars, block, disk, cow, blkRefs, free, swapper, hurt, stored>>

(* CopyOnWrite::pagefault(): the last one keeps the frame, the others copy *)
(* it.                                                                     *)
CowFault(p) ==
    LET r == pc[p].r  new == pc[p].frame  old == pte[p][r].frame
        alone == cow[old] = 1
    IN  /\ Handles(p, "cow")
        /\ cow' = CowDrop(old)
        /\ pte' = [pte EXCEPT ![p][r] =
                      [frame |-> IF alone THEN old ELSE new, mode |-> "rw"]]
        /\ IF alone THEN Discard(p) /\ UNCHANGED mem
           ELSE mem' = [mem EXCEPT ![new] = mem[old]] /\ UNCHANGED free
        /\ pf' = [pf EXCEPT ![r] = "present"]
        /\ Done(p)
        /\ UNCHANGED <<regVars, block, disk, blkRefs, swapper, hurt, stored>>

(* "the flags will be zero, because the page-fault has already been        *)
(* handled": nothing is done.                                              *)
Handled(p) ==
    /\ Handles(p, "present")
    /\ Discard(p)
    /\ Done(p)
    /\ UNCHANGED <<regVars, pf, block, pte, mem, disk, cow, blkRefs, swapper, hurt, stored>>

(* PhysMem::swapIn(): the thread hands its frame to the swapper and blocks *)
(* with both mutexes.                                                      *)
AskSwapper(p) ==
    /\ Handles(p, "swapped")
    /\ pc' = [pc EXCEPT ![p].at = "swapin"]
    /\ UNCHANGED <<regVars, pf, block, pte, mem, disk, cow, blkRefs, free,
                   swapper, hurt, stored>>

-----------------------------------------------------------------------------
(* The swapper.                                                            *)

(* VirtMem::swapIn() for the thread of a job: the frame of the thread gets *)
(* the content of the block and is mapped for all users.                   *)
SwapIn(p) ==
    LET r == pc[p].r  f == pc[p].frame
    IN  /\ swapper = resting /\ pc[p].at = "swapin"
        /\ mem' = [mem EXCEPT ![f] = disk[block[r]]]
        /\ pte' = MapAll(r, [frame |-> f, mode |-> "rw"])
        /\ pf' = [pf EXCEPT ![r] = "present"]
        /\ blkRefs' = [blkRefs EXCEPT ![block[r]] = @ - 1]
        /\ block' = [block EXCEPT ![r] = Null]
        /\ Done(p)
        /\ UNCHANGED <<regVars, disk, cow, free, swapper, hurt, stored>>

(* getLRURegion() and getPgIdxForSwap(): a region whose mutex, and an      *)
(* address space whose mutex is free.                                      *)
Victim(r) ==
    /\ ~Locked(r) /\ pf[r] = "present"
    /\ \E p \in users[r] : pc[p].at # "swapin"

SwapOut(r) ==
    LET f == pte[CHOOSE p \in users[r] : TRUE][r].frame
    IN  /\ swapper = resting /\ Victim(r)
        /\ \E b \in Block :
              /\ blkRefs[b] = 0
              /\ blkRefs' = [blkRefs EXCEPT ![b] = 1]
              /\ block' = [block EXCEPT ![r] = b]
        /\ pf' = [pf EXCEPT ![r] = "swapped"]
        /\ pte' = MapAll(r, noPte)
        /\ swapper' = [r |-> r, buf |-> mem[f]]
        /\ free' = free \cup {f}
        /\ UNCHANGED <<regVars, mem, disk, cow, pc, hurt, stored>>

(* The write to the swap device, during which others run.                  *)
SwapWrite ==
    /\ swapper # resting
    /\ disk' = [disk EXCEPT ![block[swapper.r]] = swapper.buf]
    /\ swapper' = resting
    /\ UNCHANGED <<regVars, pf, block, pte, mem, cow, blkRefs, free, pc, hurt, stored>>

ProcNext(p) ==
    \/ \E r \in Region :
          \/ \E share \in BOOLEAN : Map(p, r, share)
          \/ \E v \in Value : Write(p, r, v)
          \/ \E write \in BOOLEAN : Fault(p, r, write)
          \/ Unmap(p, r) \/ Shrink(p, r) \/ Grow(p, r) \/ GrowFails(p, r)
    \/ \E q \in Proc, copy \in Copies(p) : Fork(p, q, copy)
    \/ \E kept, bare, undone \in SUBSET Mine(p) : ForkFails(p, kept, bare, undone)
    \/ \E kept, done \in SUBSET Mine(p) : CloneFails(p, kept, done)
    \/ DemandLoad(p) \/ CowFault(p) \/ Handled(p) \/ AskSwapper(p) \/ SwapIn(p)

Next == Whole /\ \/ \E p \in Proc : ProcNext(p)
                 \/ \E r \in Region : SwapOut(r)
                 \/ SwapWrite

Spec == Init /\ [][Next]_vars

-----------------------------------------------------------------------------
(* Properties.                                                             *)

(* The variables have the shape of the C structures.                       *)
TypeOK ==
    /\ users \in [Region -> SUBSET Proc] /\ shared \subseteq Region
    /\ pf \in [Region -> {"none", "demand", "present", "cow", "swapped", "empty"}]
    /\ block \in [Region -> Block \cup {Null}]
    /\ pte \in [Proc -> [Region -> [frame : Frame \cup {Null},
                                     mode : {"none", "ro", "rw", "super"}]]]
    /\ mem \in [Frame -> Value] /\ disk \in [Block -> Value]
    /\ cow \in [Frame -> Nat] /\ blkRefs \in [Block -> Nat]
    /\ free \subseteq Frame
    /\ pc \in [Proc -> [at : {"idle", "fault", "swapin"},
                        r : Region \cup {Null}, frame : Frame \cup {Null}]]
    /\ swapper \in [r : Region \cup {Null}, buf : Value \cup {Null}]
    /\ stored \in [Region -> Value \cup {Null}]
    /\ hurt \subseteq Damage

Mapped(r) == {p \in users[r] : pte[p][r].mode # "none"}
FramesOf(r) == {pte[p][r].frame : p \in Mapped(r)}
Holders(f) == {r \in Region : f \in FramesOf(r)}

(* A frame is on the free stack or it is mapped or a thread has reserved   *)
(* it, never two of these, and all users of a region see the same frame.   *)
FramesApart ==
    Whole => /\ \A f \in free : Holders(f) = {}
             /\ \A p \in Proc : pc[p] # idle =>
                   /\ pc[p].frame \notin free /\ Holders(pc[p].frame) = {}
                   /\ \A q \in Proc \ {p} : pc[q].frame # pc[p].frame
             /\ \A r \in Region : pf[r] \in {"present", "cow"}
                   => Cardinality(FramesOf(r)) = 1 /\ Mapped(r) = users[r]

(* The copy-on-write entry of a frame counts the regions that are marked,  *)
(* and a frame that somebody may write to belongs to one region only.      *)
CowExact ==
    Whole => /\ \A f \in Frame :
                   cow[f] = Cardinality({r \in Holders(f) : pf[r] = "cow"})
             /\ \A p \in Proc, r \in Region : pte[p][r].mode = "rw" =>
                   Holders(pte[p][r].frame) = {r} /\ pf[r] = "present"

(* "multiple regions will share a block": a block has as many references   *)
(* as there are regions whose page is on it, so that it is reused neither  *)
(* too early nor never.                                                    *)
BlocksExact ==
    \A b \in Block :
        blkRefs[b] = Cardinality({r \in Region : pf[r] = "swapped" /\ block[r] = b})

(* "we can free the frame if there is no other user": a frame that nobody  *)
(* maps and nobody has reserved is free again, on every path but one:      *)
(* doUnmap() finds out that a copy-on-write frame has no other user and    *)
(* then frees only frames of pages without that mark.                      *)
NoFrameLost ==
    Whole /\ "unmap" \notin hurt => \A f \in Frame :
        Holders(f) = {} /\ (\A p \in Proc : pc[p].frame # f) => f \in free

(* Frames, copy-on-write entries and swap blocks are exact: whatever is    *)
(* forked, faulted, unmapped and swapped, every frame has one kind of      *)
(* owner and every count is the number of those who use the thing.         *)
FramesExact == TypeOK /\ FramesApart /\ CowExact /\ BlocksExact /\ NoFrameLost

(* What a user of the region reads.                                        *)
Content(r) ==
    CASE pf[r] \in {"none", "empty"} -> Null
      [] pf[r] = "demand"  -> Zero
      [] pf[r] = "swapped" -> IF swapper.r = r THEN swapper.buf ELSE disk[block[r]]
      [] OTHER             -> mem[CHOOSE f \in FramesOf(r) : TRUE]

(* A process reads what has been stored last through its region, a page    *)
(* loaded on demand is clear and a child finds what its parent had at the  *)
(* fork: nothing gets lost on the way through copies, swap blocks and      *)
(* frames that had other owners before.  (What a page holds that doGrow()  *)
(* has added is not said, but from then on it stays.)  And a page that is  *)
(* present and not marked can be written to; otherwise its owner faults    *)
(* for ever, because the fault finds nothing to do.  (A fork that fails    *)
(* leaves such a page behind.)                                             *)
ReadsOwnWrites ==
    /\ \A r \in Region : Content(r) = stored[r]
    /\ Whole /\ "fork" \notin hurt => \A r \in Region, p \in Proc :
          pf[r] = "present" /\ p \in users[r] => pte[p][r].mode = "rw"

Abs == INSTANCE AddrSpaces WITH content <- [r \in Region |-> Content(r)]

(* Demand loading, copy-on-write and swapping are invisible: no fault and  *)
(* no step of the swapper changes what any process reads, and a store      *)
(* changes one region only, as if a fork had copied everything at once,    *)
(* also between and behind forks that failed, until one of them does fatal *)
(* damage: a page that the fork has undone may then lose its frame to a    *)
(* store of another process.                                               *)
ImplementsAddrSpaces == Abs!ASpec

-----------------------------------------------------------------------------
(* An inductive invariant.  Its parts hold also behind the step that does  *)
(* fatal damage, except for those that speak of who owns a frame.          *)

(* The region shows frame f to its users.                                  *)
Shows(r, f) == \E p \in users[r] : pte[p][r].frame = f
Marked(f) == {r \in Region : pf[r] = "cow" /\ Shows(r, f)}

(* The flags of a page agree with the page tables of the users.            *)
Page(r) ==
    /\ users[r] = {} => pf[r] = "none" /\ r \notin shared
    /\ r \notin shared => \A p, q \in users[r] : p = q
    /\ pf[r] = "cow" => r \notin shared
    /\ block[r] # Null <=> pf[r] = "swapped"
    /\ stored[r] # Null <=> pf[r] \notin {"none", "empty"}
    /\ \A p \in Proc :
          /\ pte[p][r].mode # "none" <=> p \in users[r] /\ pf[r] \in {"present", "cow"}
          /\ pte[p][r].frame # Null <=> pte[p][r].mode # "none"
          /\ pte[p][r].mode = "rw" => pf[r] = "present"
    /\ \A p, q \in users[r] : pte[p][r].frame = pte[q][r].frame

(* A thread in a fault has a frame and a region; one that waits for the    *)
(* swapper has its region's mutex for itself.                              *)
Faulting(p) ==
    pc[p] # idle =>
        /\ pc[p].at \in {"fault", "swapin"} /\ pc[p].frame \in Frame
        /\ pc[p].r \in Region /\ p \in users[pc[p].r]
        /\ pc[p].at = "swapin" =>
              /\ pf[pc[p].r] = "swapped" /\ swapper.r # pc[p].r
              /\ \A q \in Proc : pc[q].at = "swapin" /\ pc[q].r = pc[p].r => q = p

(* The block that is being written belongs to one region only.             *)
Writing ==
    swapper # resting =>
        /\ swapper.r \in Region /\ swapper.buf \in Value
        /\ pf[swapper.r] = "swapped"
        /\ \A s \in Region : block[s] = block[swapper.r] => s = swapper.r

(* A copy-on-write entry has a reference for every region that is marked.  *)
Covered(f) == Cardinality(Marked(f)) = cow[f]

(* A frame has one kind of owner, and several regions only if all of them  *)
(* are marked.                                                             *)
Apart ==
    \A f \in Frame :
        /\ \A r \in Region : Shows(r, f) =>
              /\ f \notin free
              /\ \A p \in Proc : pc[p].frame # f
              /\ \A s \in Region : Shows(s, f) /\ r # s => pf[r] = "cow"
        /\ \A p \in Proc : pc[p].frame = f =>
              /\ f \notin free
              /\ \A q \in Proc : pc[q].frame = f => q = p

(* A frame has an owner.                                                   *)
Owned(f) == f \in free \/ (\E p \in Proc : pc[p].frame = f)
                       \/ (\E r \in Region : Shows(r, f))

(* The page holds what has been stored.                                    *)
Intact(r) ==
    /\ pf[r] = "demand" => stored[r] = Zero
    /\ pf[r] = "swapped" =>
          stored[r] = IF swapper.r = r THEN swapper.buf ELSE disk[block[r]]
    /\ pf[r] \in {"present", "cow"} =>
          \A p \in users[r] : stored[r] = mem[pte[p][r].frame]

Writable(r) ==
    Whole /\ "fork" \notin hurt /\ pf[r] = "present" =>
        \A p \in users[r] : pte[p][r].mode = "rw"

MemInv ==
    /\ TypeOK
    /\ \A r \in Region : Page(r) /\ Writable(r) /\ Intact(r)
    /\ \A p \in Proc : Faulting(p)
    /\ Writing
    /\ BlocksExact
    /\ Whole => Apart /\ \A f \in Frame : Covered(f)
    /\ Whole /\ "unmap" \notin hurt => \A f \in Frame : Owned(f)
=============================================================================
