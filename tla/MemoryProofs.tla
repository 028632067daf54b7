---------------------------- MODULE MemoryProofs ----------------------------
(***************************************************************************)
(* Proofs about virtual memory: MemInv is inductive, so that frames,       *)
(* copy-on-write entries and swap blocks are exact and every process reads *)
(* what it has stored; and Memory implements AddrSpaces.  What holds only  *)
(* up to the step that does fatal damage says so (Whole).                  *)
(***************************************************************************)
EXTENDS Memory, FiniteSetTheorems, TLAPS

PcType == [at : {"idle", "fault", "swapin"}, r : Region \cup {Null},
           frame : Frame \cup {Null}]
PteType == [frame : Frame \cup {Null}, mode : {"none", "ro", "rw", "super"}]

(* The regions whose page is on block b.                                   *)
On(b) == {r \in Region : pf[r] = "swapped" /\ block[r] = b}

(* A step leaves region s alone.                                           *)
Same(s) ==
  /\ users'[s] = users[s] /\ (s \in shared' <=> s \in shared)
  /\ pf'[s] = pf[s] /\ block'[s] = block[s] /\ stored'[s] = stored[s]
  /\ \A q \in Proc : pte'[q][s] = pte[q][s]

(* What there is about a region, for the steps that keep it.               *)
LEMMA SamePage ==
  ASSUME TypeOK, NEW s \in Region, Same(s), Page(s)
  PROVE  Page(s)'
BY DEF Same, Page, TypeOK

LEMMA SameWritable ==
  ASSUME TypeOK, NEW s \in Region, Same(s), Writable(s), hurt \subseteq hurt'
  PROVE  Writable(s)'
BY DEF Same, Writable, Whole, TypeOK

LEMMA SameShows ==
  ASSUME TypeOK, NEW s \in Region, Same(s), NEW f
  PROVE  Shows(s, f)' <=> Shows(s, f)
BY DEF Same, Shows, TypeOK

(* The frame that a region shows is that of each of its users.             *)
LEMMA ShowsOne ==
  ASSUME TypeOK, NEW r \in Region, Page(r), NEW p \in users[r], NEW f
  PROVE  Shows(r, f) <=> f = pte[p][r].frame
BY DEF Shows, Page

(* A region shows a frame iff its page is in memory.                       *)
LEMMA ShowsPresent ==
  ASSUME TypeOK, NEW r \in Region, Page(r), NEW f \in Frame, Shows(r, f)
  PROVE  pf[r] \in {"present", "cow"}
<1>1. PICK p \in users[r] : pte[p][r].frame = f
  BY DEF Shows
<1> QED BY <1>1, MemoryAssumption DEF Page, TypeOK

(* A single entry of a page table is replaced.                             *)
MapOne(p, r, e) == [pte EXCEPT ![p][r] = e]

LEMMA PteOne ==
  ASSUME TypeOK, NEW p \in Proc, NEW r \in Region, NEW e \in PteType,
         pte' = MapOne(p, r, e)
  PROVE  /\ pte' \in [Proc -> [Region -> PteType]]
         /\ pte'[p][r] = e
         /\ \A q \in Proc, s \in Region : q # p \/ s # r => pte'[q][s] = pte[q][s]
<1>1. pte \in [Proc -> [Region -> PteType]]
  BY DEF TypeOK, PteType
<1>2. pte' = [pte EXCEPT ![p] = [pte[p] EXCEPT ![r] = e]]
  BY DEF MapOne
<1>3. [pte[p] EXCEPT ![r] = e] \in [Region -> PteType]
  BY <1>1
<1> QED BY <1>1, <1>2, <1>3

(* map() for all users.                                                    *)
LEMMA PteAll ==
  ASSUME TypeOK, NEW r \in Region, NEW e \in PteType, pte' = MapAll(r, e)
  PROVE  /\ pte' \in [Proc -> [Region -> PteType]]
         /\ \A q \in users[r] : pte'[q][r] = e
         /\ \A q \in Proc : q \notin users[r] => pte'[q][r] = pte[q][r]
         /\ \A q \in Proc, s \in Region : s # r => pte'[q][s] = pte[q][s]
<1>1. pte \in [Proc -> [Region -> PteType]] /\ users[r] \subseteq Proc
  BY DEF TypeOK, PteType
<1>2. pte' = [q \in Proc |-> IF q \in users[r] THEN [pte[q] EXCEPT ![r] = e]
                                               ELSE pte[q]]
  BY DEF MapAll
<1>3. \A q \in Proc : [pte[q] EXCEPT ![r] = e] \in [Region -> PteType]
  BY <1>1
<1>4. \A q \in Proc : pte'[q] \in [Region -> PteType]
  BY <1>1, <1>2, <1>3
<1>5. pte' \in [Proc -> [Region -> PteType]]
  BY <1>2, <1>4
<1>6. \A q \in users[r] : pte'[q] = [pte[q] EXCEPT ![r] = e]
  BY <1>1, <1>2
<1>7. \A q \in Proc : q \notin users[r] => pte'[q] = pte[q]
  BY <1>2
<1>8. \A q \in users[r] : pte'[q][r] = e
  BY <1>1, <1>6
<1>9. \A q \in Proc, s \in Region : s # r => pte'[q][s] = pte[q][s]
  <2> SUFFICES ASSUME NEW q \in Proc, NEW s \in Region, s # r
               PROVE  pte'[q][s] = pte[q][s]
    OBVIOUS
  <2>1. CASE q \in users[r]
    BY <1>1, <1>6, <2>1
  <2>2. CASE q \notin users[r]
    BY <1>7, <2>2
  <2> QED BY <2>1, <2>2
<1> QED BY <1>5, <1>7, <1>8, <1>9

(* The sets that are counted are finite.                                   *)
LEMMA Counted ==
  ASSUME TypeOK
  PROVE  /\ \A f : IsFiniteSet(Marked(f)) /\ Cardinality(Marked(f)) \in Nat
         /\ \A b : IsFiniteSet(On(b)) /\ Cardinality(On(b)) \in Nat
<1>1. ASSUME NEW f PROVE IsFiniteSet(Marked(f)) /\ Cardinality(Marked(f)) \in Nat
  <2>1. Marked(f) \subseteq Region
    BY DEF Marked
  <2> QED BY <2>1, MemoryAssumption, FS_Subset, FS_CardinalityType
<1>2. ASSUME NEW b PROVE IsFiniteSet(On(b)) /\ Cardinality(On(b)) \in Nat
  <2>1. On(b) \subseteq Region
    BY DEF On
  <2> QED BY <2>1, MemoryAssumption, FS_Subset, FS_CardinalityType
<1> QED BY <1>1, <1>2

(* The initial state.                                                      *)
LEMMA InitMem == Init => MemInv
<1> SUFFICES ASSUME Init PROVE MemInv
  OBVIOUS
<1> USE DEF Init
<1>1. TypeOK
  <2>1. Zero \in Value
    BY MemoryAssumption
  <2>2. noPte \in PteType /\ idle \in PcType
    BY DEF noPte, idle, PteType, PcType
  <2>3. resting \in [r : Region \cup {Null}, buf : Value \cup {Null}]
    BY DEF resting
  <2>4. pte \in [Proc -> [Region -> PteType]]
    BY <2>2
  <2>5. pc \in [Proc -> PcType]
    BY <2>2
  <2> QED BY <2>1, <2>3, <2>4, <2>5 DEF TypeOK, PteType, PcType
<1>2. ASSUME NEW r \in Region PROVE Page(r) /\ Writable(r) /\ Intact(r)
  BY DEF Page, Writable, Intact, noPte
<1>3. ASSUME NEW f PROVE \A r \in Region : ~ Shows(r, f)
  BY DEF Shows
<1>4. ASSUME NEW p \in Proc PROVE Faulting(p)
  BY DEF Faulting
<1>5. Writing
  BY DEF Writing
<1>6. BlocksExact
  <2>1. ASSUME NEW b \in Block
        PROVE  blkRefs[b]
                 = Cardinality({r \in Region : pf[r] = "swapped" /\ block[r] = b})
    <3>1. {r \in Region : pf[r] = "swapped" /\ block[r] = b} = {}
      OBVIOUS
    <3> QED BY <3>1, FS_EmptySet
  <2> QED BY <2>1 DEF BlocksExact
<1>7. ASSUME NEW f \in Frame PROVE Covered(f)
  <2>1. Marked(f) = {}
    BY DEF Marked
  <2> QED BY <2>1, FS_EmptySet DEF Covered
<1>8. Apart
  <2>1. \A p \in Proc : pc[p].frame = Null
    BY DEF idle
  <2> QED BY <1>3, <2>1, MemoryAssumption DEF Apart
<1>9. \A f \in Frame : Owned(f)
  BY DEF Owned
<1> QED BY <1>1, <1>2, <1>4, <1>5, <1>6, <1>7, <1>8, <1>9 DEF MemInv

-----------------------------------------------------------------------------
(* Parts of the invariant that most steps keep.                            *)

LEMMA CoveredKept ==
  ASSUME NEW f \in Frame, Covered(f), cow'[f] = cow[f], hurt \subseteq hurt',
         Marked(f)' = Marked(f)
  PROVE  Covered(f)'
BY DEF Covered, Whole

(* No page gets or loses the mark.                                         *)
LEMMA MarkedKept ==
  ASSUME TypeOK, NEW r \in Region, \A s \in Region : s # r => Same(s),
         pf[r] # "cow", pf'[r] # "cow", NEW f
  PROVE  Marked(f)' = Marked(f)
<1>1. ASSUME NEW s \in Region
      PROVE  s \in Marked(f)' <=> s \in Marked(f)
  <2>1. CASE s = r
    BY <2>1 DEF Marked
  <2>2. CASE s # r
    <3>1. Shows(s, f)' <=> Shows(s, f)
      BY <2>2, SameShows
    <3>2. pf'[s] = pf[s]
      BY <2>2 DEF Same
    <3> QED BY <3>1, <3>2 DEF Marked
  <2> QED BY <2>1, <2>2
<1> QED BY <1>1 DEF Marked

(* No page changes its block.                                              *)
LEMMA BlocksKept ==
  ASSUME BlocksExact, blkRefs' = blkRefs,
         \A s \in Region : (pf'[s] = "swapped" <=> pf[s] = "swapped")
                             /\ (pf[s] = "swapped" => block'[s] = block[s])
  PROVE  BlocksExact'
<1>1. \A b \in Block : {r \in Region : pf'[r] = "swapped" /\ block'[r] = b}
                         = {r \in Region : pf[r] = "swapped" /\ block[r] = b}
  OBVIOUS
<1> QED BY <1>1 DEF BlocksExact

(* The regions that a step leaves alone keep their pages.                  *)
LEMMA PagesKept ==
  ASSUME TypeOK, NEW r, \A s \in Region : Page(s) /\ Writable(s),
         \A s \in Region : s # r => Same(s), hurt \subseteq hurt',
         r \in Region => Page(r)' /\ Writable(r)'
  PROVE  \A s \in Region : Page(s)' /\ Writable(s)'
BY SamePage, SameWritable

(* The parts of the invariant.                                             *)
LEMMA Unpack ==
  ASSUME MemInv
  PROVE  /\ TypeOK
         /\ \A r \in Region : Page(r) /\ Writable(r) /\ Intact(r)
         /\ \A p \in Proc : Faulting(p)
         /\ Writing
         /\ BlocksExact
         /\ Whole => Apart /\ \A f \in Frame : Covered(f)
         /\ Whole /\ "unmap" \notin hurt => \A f \in Frame : Owned(f)
BY DEF MemInv

-----------------------------------------------------------------------------
(* map().                                                                  *)
LEMMA MapKeeps ==
  ASSUME MemInv, Whole, NEW p \in Proc, NEW r \in Region, NEW share \in BOOLEAN,
         Map(p, r, share)
  PROVE  MemInv'
<1>0. TypeOK
  BY DEF MemInv
<1>1. /\ users[r] = {} /\ users' = [users EXCEPT ![r] = {p}]
      /\ shared' = IF share THEN shared \cup {r} ELSE shared
      /\ pf' = [pf EXCEPT ![r] = "demand"]
      /\ stored' = [stored EXCEPT ![r] = Zero]
      /\ UNCHANGED <<block, pte, mem, disk, cow, blkRefs, free, pc, swapper, hurt>>
  BY DEF Map, Unused
<1>2. /\ users'[r] = {p} /\ pf'[r] = "demand" /\ stored'[r] = Zero
      /\ \A s \in Region : s # r => Same(s)
  BY <1>0, <1>1 DEF TypeOK, Same
<1>3. Page(r) /\ pf[r] = "none" /\ block[r] = Null /\ r \notin shared
  BY <1>1, Unpack DEF Page
<1>4. TypeOK'
  BY <1>0, <1>1, MemoryAssumption DEF TypeOK
<1>5. \A q \in Proc : pte[q][r].mode = "none" /\ pte[q][r].frame = Null
  BY <1>3 DEF Page
<1>6. Page(r)' /\ Writable(r)'
  <2>1. Zero # Null
    BY MemoryAssumption
  <2> QED BY <1>0, <1>1, <1>2, <1>3, <1>5, <2>1 DEF Page, Writable, TypeOK
<1>7. \A s \in Region : Page(s)' /\ Writable(s)'
  BY <1>0, <1>1, <1>2, <1>6, Unpack, PagesKept
<1>8. ASSUME NEW q \in Proc PROVE Faulting(q)'
  <2>1. Faulting(q)
    BY Unpack
  <2>2. pc[q] # idle => pc[q].r # r
    BY <1>1, <2>1 DEF Faulting
  <2> QED BY <1>1, <1>2, <2>1, <2>2 DEF Faulting, Same
<1>9. Writing'
  <2>1. swapper # resting => swapper.r # r
    BY <1>3, Unpack DEF Writing
  <2> QED BY <1>1, <1>2, <2>1, Unpack DEF Writing, Same
<1>10. BlocksExact'
  <2>1. \A s \in Region : (pf'[s] = "swapped" <=> pf[s] = "swapped")
                            /\ (pf[s] = "swapped" => block'[s] = block[s])
    BY <1>1, <1>2, <1>3 DEF Same
  <2> QED BY <1>1, <2>1, Unpack, BlocksKept
<1>11. ASSUME NEW f \in Frame PROVE Covered(f)'
  <2>1. Marked(f)' = Marked(f)
    BY <1>0, <1>2, <1>3, MarkedKept
  <2> QED BY <1>1, <2>1, Unpack, CoveredKept
<1>12. ASSUME NEW f \in Frame, NEW s \in Region
       PROVE  Shows(s, f)' <=> Shows(s, f)
  <2>1. CASE s = r
    <3>1. f # Null
      BY MemoryAssumption
    <3> QED BY <1>1, <1>2, <1>5, <2>1, <3>1 DEF Shows
  <2>2. CASE s # r
    BY <1>0, <1>2, <2>2, SameShows
  <2> QED BY <2>1, <2>2
<1>13. Whole => Apart'
  <2> SUFFICES ASSUME Apart PROVE Apart'
    BY Unpack
  <2>1. \A q \in Proc : pc[q] # idle => pc[q].frame \in Frame
    BY Unpack DEF Faulting
  <2>2. \A f \in free : f \in Frame
    BY <1>0 DEF TypeOK
  <2>3. \A f \in Frame, s \in Region : Shows(s, f) => s # r
    BY <1>1 DEF Shows
  <2>4. \A s \in Region : s # r => pf'[s] = pf[s]
    BY <1>2 DEF Same
  <2> QED BY <1>1, <1>12, <2>1, <2>2, <2>3, <2>4 DEF Apart
<1>14. Whole => \A s \in Region : Intact(s)'
  <2> SUFFICES ASSUME NEW s \in Region, Intact(s) PROVE Intact(s)'
    BY Unpack
  <2>1. CASE s = r
    BY <1>2, <2>1 DEF Intact
  <2>2. CASE s # r
    BY <1>1, <1>2, <2>2, <1>0 DEF Intact, Same, TypeOK
  <2> QED BY <2>1, <2>2
<1>15. Whole /\ "unmap" \notin hurt => \A f \in Frame : Owned(f)'
  <2> SUFFICES ASSUME NEW f \in Frame, Owned(f) PROVE Owned(f)'
    BY Unpack
  <2> QED BY <1>1, <1>12 DEF Owned
<1>16. Whole' <=> Whole
  BY <1>1 DEF Whole
<1> QED BY <1>1, <1>4, <1>7, <1>8, <1>9, <1>10, <1>11, <1>13, <1>14, <1>15, <1>16 DEF MemInv

(* A store.                                                                *)
LEMMA WriteKeeps ==
  ASSUME MemInv, Whole, NEW p \in Proc, NEW r \in Region, NEW v \in Value,
         Write(p, r, v)
  PROVE  MemInv'
<1>0. TypeOK
  BY DEF MemInv
<1> DEFINE f0 == pte[p][r].frame
<1>1. /\ pte[p][r].mode = "rw"
      /\ mem' = [mem EXCEPT ![f0] = v]
      /\ stored' = [stored EXCEPT ![r] = v]
      /\ UNCHANGED <<users, shared, pf, block, pte, disk, cow, blkRefs, free, pc,
                     swapper, hurt>>
  BY DEF Write, regVars
<1>2. /\ pf[r] = "present" /\ p \in users[r] /\ stored[r] # Null
      /\ f0 # Null /\ \A q \in users[r] : pte[q][r].frame = f0
  BY <1>1, Unpack DEF Page
<1>3. f0 \in Frame /\ Shows(r, f0)
  BY <1>0, <1>2 DEF TypeOK, Shows
<1> HIDE DEF f0
<1>4. TypeOK'
  BY <1>0, <1>1 DEF TypeOK
<1>5. stored'[r] = v /\ \A s \in Region : s # r => Same(s)
  BY <1>0, <1>1 DEF TypeOK, Same
<1>6. Page(r)' /\ Writable(r)'
  <2>1. v # Null
    BY MemoryAssumption
  <2>2. Page(r) /\ Writable(r)
    BY Unpack
  <2> QED BY <1>1, <1>2, <1>5, <2>1, <2>2 DEF Page, Writable
<1>7. \A s \in Region : Page(s)' /\ Writable(s)'
  BY <1>0, <1>1, <1>5, <1>6, Unpack, PagesKept
<1>8. \A q \in Proc : Faulting(q)'
  BY <1>1, Unpack DEF Faulting
<1>9. Writing'
  BY <1>1, Unpack DEF Writing
<1>10. BlocksExact'
  BY <1>1, Unpack, BlocksKept
<1>11. \A s \in Region, f \in Frame : Shows(s, f)' <=> Shows(s, f)
  BY <1>1 DEF Shows
<1>12. ASSUME NEW f \in Frame PROVE Covered(f)'
  <2>1. Marked(f)' = Marked(f)
    BY <1>1, <1>11 DEF Marked
  <2> QED BY <1>1, <2>1, Unpack, CoveredKept
<1>13. Whole => Apart'
  BY <1>1, Unpack DEF Apart, Shows
<1>14. Whole => \A s \in Region : Intact(s)'
  <2> SUFFICES ASSUME Apart, NEW s \in Region, Intact(s) PROVE Intact(s)'
    BY Unpack
  <2>1. CASE s = r
    <3>1. mem'[f0] = v
      BY <1>0, <1>1, <1>3 DEF TypeOK
    <3> QED BY <1>1, <1>2, <1>5, <2>1, <3>1 DEF Intact
  <2>2. CASE s # r
    <3>1. ~ Shows(s, f0)
      BY <1>2, <1>3, <2>2 DEF Apart
    <3>2. \A q \in users[s] : pte[q][s].frame # f0
      BY <3>1 DEF Shows
    <3>3. \A q \in users[s] : pf[s] \in {"present", "cow"} => pte[q][s].frame \in Frame
      <4> SUFFICES ASSUME NEW q \in users[s], pf[s] \in {"present", "cow"}
                   PROVE  pte[q][s].frame \in Frame
        OBVIOUS
      <4>1. q \in Proc /\ pte[q][s].frame # Null
        BY <1>0, Unpack DEF Page, TypeOK
      <4> QED BY <1>0, <4>1 DEF TypeOK
    <3>4. \A q \in users[s] : pf[s] \in {"present", "cow"} =>
            mem'[pte[q][s].frame] = mem[pte[q][s].frame]
      BY <1>0, <1>1, <3>2, <3>3 DEF TypeOK
    <3>5. stored'[s] = stored[s]
      BY <1>5, <2>2 DEF Same
    <3> QED BY <1>1, <3>4, <3>5 DEF Intact
  <2> QED BY <2>1, <2>2
<1>15. Whole /\ "unmap" \notin hurt => \A f \in Frame : Owned(f)'
  BY <1>1, <1>11, Unpack DEF Owned
<1>16. Whole' <=> Whole
  BY <1>1 DEF Whole
<1> QED BY <1>1, <1>4, <1>7, <1>8, <1>9, <1>10, <1>12, <1>13, <1>14, <1>15, <1>16
        DEF MemInv

(* The frame of a page that is in memory.                                  *)
LEMMA FrameThere ==
  ASSUME MemInv, NEW r \in Region, NEW p \in users[r],
         pf[r] \in {"present", "cow"}
  PROVE  /\ p \in Proc /\ pte[p][r].frame \in Frame
         /\ pte[p][r].mode \in {"ro", "rw", "super"}
         /\ \A f \in Frame : Shows(r, f) <=> f = pte[p][r].frame
<1>1. TypeOK /\ Page(r)
  BY DEF MemInv
<1>2. p \in Proc
  BY <1>1 DEF TypeOK
<1>3. pte[p][r].mode # "none" /\ pte[p][r].frame # Null
  BY <1>1, <1>2 DEF Page
<1> QED BY <1>1, <1>2, <1>3, ShowsOne DEF TypeOK

(* A page that is not in memory is shown to nobody.                        *)
LEMMA FrameGone ==
  ASSUME MemInv, NEW r \in Region, pf[r] \notin {"present", "cow"}
  PROVE  \A f \in Frame : ~ Shows(r, f)
BY ShowsPresent DEF MemInv

-----------------------------------------------------------------------------
(* Steps that change no page.                                              *)

QuietStep == UNCHANGED <<users, shared, pf, block, pte, cow, blkRefs, stored, hurt>>

LEMMA QuietKeeps ==
  ASSUME MemInv, Whole, QuietStep
  PROVE  /\ \A s \in Region : Page(s)' /\ Writable(s)'
         /\ BlocksExact'
         /\ \A f \in Frame : Covered(f)'
         /\ \A s \in Region : \A f : Shows(s, f)' <=> Shows(s, f)
         /\ (Whole' <=> Whole)
<1>1. UNCHANGED <<users, shared, pf, block, pte, cow, blkRefs, stored, hurt>>
  BY DEF QuietStep
<1>2. \A s \in Region : Page(s)' /\ Writable(s)'
  BY <1>1, Unpack DEF Page, Writable
<1>3. BlocksExact'
  BY <1>1, Unpack, BlocksKept
<1>4. \A s \in Region : \A f : Shows(s, f)' <=> Shows(s, f)
  BY <1>1 DEF Shows
<1>5. ASSUME NEW f \in Frame PROVE Covered(f)'
  <2>1. Marked(f)' = Marked(f)
    BY <1>1, <1>4 DEF Marked
  <2> QED BY <1>1, <2>1, Unpack, CoveredKept
<1>6. Whole' <=> Whole
  BY <1>1 DEF Whole
<1> QED BY <1>2, <1>3, <1>4, <1>5, <1>6

(* pagefault() reserves a frame.                                           *)
LEMMA FaultKeeps ==
  ASSUME MemInv, Whole, NEW p \in Proc, NEW r \in Region, NEW write \in BOOLEAN,
         Fault(p, r, write)
  PROVE  MemInv'
<1>0. TypeOK
  BY DEF MemInv
<1>1. PICK f \in free :
        /\ pc' = [pc EXCEPT ![p] = [at |-> "fault", r |-> r, frame |-> f]]
        /\ free' = free \ {f}
  BY DEF Fault
<1>2. /\ pc[p] = idle /\ p \in users[r] /\ QuietStep
      /\ UNCHANGED <<mem, disk, swapper>>
  BY DEF Fault, regVars, QuietStep
<1>3. /\ f \in Frame /\ f # Null
      /\ pc'[p] = [at |-> "fault", r |-> r, frame |-> f]
      /\ pc'[p].at = "fault" /\ pc'[p].r = r /\ pc'[p].frame = f
      /\ \A q \in Proc : q # p => pc'[q] = pc[q]
  BY <1>0, <1>1, MemoryAssumption DEF TypeOK
<1>4. TypeOK'
  <2>1. pc' \in [Proc -> PcType]
    BY <1>0, <1>1, <1>3 DEF TypeOK, PcType
  <2> QED BY <1>0, <1>1, <1>2, <2>1 DEF TypeOK, PcType, QuietStep
<1>5. ASSUME NEW q \in Proc PROVE Faulting(q)'
  <2>1. Faulting(q)
    BY Unpack
  <2>2. CASE q = p
    BY <1>2, <1>3, <2>2 DEF Faulting, QuietStep
  <2>3. CASE q # p
    BY <1>2, <1>3, <2>1, <2>3 DEF Faulting, QuietStep
  <2> QED BY <2>2, <2>3
<1>6. Writing'
  BY <1>2, Unpack DEF Writing, QuietStep
<1>7. Whole => Apart'
  <2> SUFFICES ASSUME Apart, NEW g \in Frame
               PROVE  /\ \A s \in Region : Shows(s, g)' =>
                           /\ g \notin free'
                           /\ \A q \in Proc : pc'[q].frame # g
                           /\ \A t \in Region : Shows(t, g)' /\ s # t => pf'[s] = "cow"
                      /\ \A q \in Proc : pc'[q].frame = g =>
                           /\ g \notin free'
                           /\ \A u \in Proc : pc'[u].frame = g => u = q
    BY Unpack DEF Apart
  <2>1. \A s \in Region : Shows(s, g)' <=> Shows(s, g)
    BY <1>2, QuietKeeps
  <2>2. UNCHANGED pf
    BY <1>2 DEF QuietStep
  <2>3. CASE g = f
    <3>1. \A q \in Proc : pc'[q].frame = f => q = p
      BY <1>3 DEF Apart
    <3>2. g \notin free' /\ \A s \in Region : ~ Shows(s, g)
      BY <1>1, <2>3 DEF Apart
    <3> QED BY <2>1, <2>3, <3>1, <3>2
  <2>4. CASE g # f
    <3>1. \A q \in Proc : pc'[q].frame = g => pc[q].frame = g
      BY <1>3, <2>4
    <3>2. g \in free' => g \in free
      BY <1>1
    <3> QED BY <2>1, <2>2, <3>1, <3>2 DEF Apart
  <2> QED BY <2>3, <2>4
<1>8. Whole => \A s \in Region : Intact(s)'
  BY <1>2, Unpack DEF Intact, QuietStep
<1>9. Whole /\ "unmap" \notin hurt => \A g \in Frame : Owned(g)'
  <2> SUFFICES ASSUME NEW g \in Frame, Owned(g) PROVE Owned(g)'
    BY Unpack
  <2>1. \A s \in Region : Shows(s, g)' <=> Shows(s, g)
    BY <1>2, QuietKeeps
  <2>2. pc[p].frame # g
    BY <1>2, MemoryAssumption DEF idle
  <2>3. (\E q \in Proc : pc[q].frame = g) => \E q \in Proc : pc'[q].frame = g
    BY <1>3, <2>2
  <2>4. g \in free => g \in free' \/ \E q \in Proc : pc'[q].frame = g
    BY <1>1, <1>3
  <2> QED BY <2>1, <2>3, <2>4 DEF Owned
<1>10. UNCHANGED hurt
  BY <1>2 DEF QuietStep
<1> QED BY <1>2, <1>4, <1>5, <1>6, <1>7, <1>8, <1>9, <1>10, QuietKeeps DEF MemInv

(* A fault that finds nothing to do gives its frame back.                  *)
LEMMA HandledKeeps ==
  ASSUME MemInv, Whole, NEW p \in Proc, Handled(p)
  PROVE  MemInv'
<1>0. TypeOK
  BY DEF MemInv
<1>1. PICK f : f = pc[p].frame
  OBVIOUS
<1>2. /\ pc[p].at = "fault" /\ pc' = [pc EXCEPT ![p] = idle]
      /\ free' = free \cup {f} /\ QuietStep
      /\ UNCHANGED <<mem, disk, swapper>>
  BY <1>1 DEF Handled, Handles, Discard, Done, regVars, QuietStep
<1>3. /\ f \in Frame /\ f # Null
      /\ pc'[p] = idle /\ \A q \in Proc : q # p => pc'[q] = pc[q]
  <2>1. pc[p] # idle
    BY <1>2 DEF idle
  <2> QED BY <1>0, <1>1, <1>2, <2>1, Unpack, MemoryAssumption DEF TypeOK, Faulting
<1>4. TypeOK'
  <2>1. idle \in PcType
    BY DEF idle, PcType
  <2>2. pc' \in [Proc -> PcType]
    BY <1>0, <1>2, <2>1 DEF TypeOK, PcType
  <2> QED BY <1>0, <1>2, <1>3, <2>2 DEF TypeOK, PcType, QuietStep
<1>5. ASSUME NEW q \in Proc PROVE Faulting(q)'
  <2>1. Faulting(q)
    BY Unpack
  <2>2. idle.at = "idle"
    BY DEF idle
  <2> QED BY <1>2, <1>3, <2>1, <2>2 DEF Faulting, QuietStep
<1>6. Writing'
  BY <1>2, Unpack DEF Writing, QuietStep
<1>7. Whole => Apart'
  <2> SUFFICES ASSUME Apart, NEW g \in Frame
               PROVE  /\ \A s \in Region : Shows(s, g)' =>
                           /\ g \notin free'
                           /\ \A q \in Proc : pc'[q].frame # g
                           /\ \A t \in Region : Shows(t, g)' /\ s # t => pf'[s] = "cow"
                      /\ \A q \in Proc : pc'[q].frame = g =>
                           /\ g \notin free'
                           /\ \A u \in Proc : pc'[u].frame = g => u = q
    BY Unpack DEF Apart
  <2>1. \A s \in Region : Shows(s, g)' <=> Shows(s, g)
    BY <1>2, QuietKeeps
  <2>2. UNCHANGED pf
    BY <1>2 DEF QuietStep
  <2>3. idle.frame # g
    BY MemoryAssumption DEF idle
  <2>4. \A q \in Proc : pc'[q].frame = g => pc[q].frame = g /\ q # p
    BY <1>3, <2>3
  <2>5. CASE g = f
    <3>1. \A s \in Region : ~ Shows(s, g)
      BY <1>1, <2>5 DEF Apart
    <3>2. \A q \in Proc : pc'[q].frame # g
      BY <1>1, <2>4, <2>5 DEF Apart
    <3> QED BY <2>1, <3>1, <3>2
  <2>6. CASE g # f
    <3>1. g \in free' => g \in free
      BY <1>2, <2>6
    <3> QED BY <2>1, <2>2, <2>4, <3>1 DEF Apart
  <2> QED BY <2>5, <2>6
<1>8. Whole => \A s \in Region : Intact(s)'
  BY <1>2, Unpack DEF Intact, QuietStep
<1>9. Whole /\ "unmap" \notin hurt => \A g \in Frame : Owned(g)'
  <2> SUFFICES ASSUME NEW g \in Frame, Owned(g) PROVE Owned(g)'
    BY Unpack
  <2>1. \A s \in Region : Shows(s, g)' <=> Shows(s, g)
    BY <1>2, QuietKeeps
  <2>2. \A q \in Proc : pc[q].frame = g => pc'[q].frame = g \/ g \in free'
    BY <1>1, <1>2, <1>3
  <2>3. g \in free => g \in free'
    BY <1>2
  <2> QED BY <2>1, <2>2, <2>3 DEF Owned
<1>10. UNCHANGED hurt
  BY <1>2 DEF QuietStep
<1> QED BY <1>2, <1>4, <1>5, <1>6, <1>7, <1>8, <1>9, <1>10, QuietKeeps DEF MemInv

(* A thread asks the swapper and keeps the mutexes.                        *)
LEMMA AskSwapperKeeps ==
  ASSUME MemInv, Whole, NEW p \in Proc, AskSwapper(p)
  PROVE  MemInv'
<1>0. TypeOK
  BY DEF MemInv
<1>1. /\ pc[p].at = "fault" /\ ~ Locked(pc[p].r) /\ pf[pc[p].r] = "swapped"
      /\ pc' = [pc EXCEPT ![p].at = "swapin"] /\ QuietStep
      /\ UNCHANGED <<mem, disk, free, swapper>>
  BY DEF AskSwapper, Handles, regVars, QuietStep
<1>2. pc \in [Proc -> PcType] /\ pc[p] \in PcType
  BY <1>0 DEF TypeOK, PcType
<1>3. pc'[p] = [at |-> "swapin", r |-> pc[p].r, frame |-> pc[p].frame]
  BY <1>0, <1>1, <1>2 DEF TypeOK, PcType
<1>4. /\ pc'[p].at = "swapin" /\ pc'[p].r = pc[p].r /\ pc'[p].frame = pc[p].frame
      /\ \A q \in Proc : q # p => pc'[q] = pc[q]
  BY <1>0, <1>1, <1>3 DEF TypeOK
<1>5. TypeOK'
  <2>1. [at |-> "swapin", r |-> pc[p].r, frame |-> pc[p].frame]
          \in PcType
    BY <1>2 DEF PcType
  <2>2. \A q \in Proc : pc'[q] \in PcType
    BY <1>2, <1>3, <1>4, <2>1
  <2>3. pc' = [q \in Proc |-> pc'[q]]
    BY <1>0, <1>1 DEF TypeOK
  <2>4. pc' \in [Proc -> PcType]
    BY <2>2, <2>3
  <2> QED BY <1>0, <1>1, <2>4 DEF TypeOK, PcType, QuietStep
<1>6. pc[p] # idle
  BY <1>1 DEF idle
<1>7. /\ swapper.r # pc[p].r
      /\ \A q \in Proc : ~ (pc[q].at = "swapin" /\ pc[q].r = pc[p].r)
  BY <1>1 DEF Locked
<1>8. ASSUME NEW q \in Proc PROVE Faulting(q)'
  <2>1. Faulting(q) /\ Faulting(p)
    BY Unpack
  <2>2. CASE q = p
    <3>1. \A u \in Proc : pc'[u].at = "swapin" /\ pc'[u].r = pc'[p].r => u = p
      BY <1>4, <1>7
    <3> QED BY <1>1, <1>4, <1>6, <1>7, <2>1, <2>2, <3>1 DEF Faulting, QuietStep
  <2>3. CASE q # p
    <3>1. pc'[q].at = "swapin" => pc'[q].r # pc'[p].r
      BY <1>4, <1>7, <2>3
    <3> QED BY <1>1, <1>4, <2>1, <2>3, <3>1 DEF Faulting, QuietStep
  <2> QED BY <2>2, <2>3
<1>9. Writing'
  BY <1>1, Unpack DEF Writing, QuietStep
<1>10. \A q \in Proc : pc'[q].frame = pc[q].frame
  BY <1>4
<1>11. \A s \in Region : \A f : Shows(s, f)' <=> Shows(s, f)
  BY <1>1, QuietKeeps
<1>12. UNCHANGED <<pf, hurt, free>>
  BY <1>1 DEF QuietStep
<1>13. Whole => Apart'
  BY <1>10, <1>11, <1>12, Unpack DEF Apart
<1>14. Whole => \A s \in Region : Intact(s)'
  BY <1>1, Unpack DEF Intact, QuietStep
<1>15. Whole /\ "unmap" \notin hurt => \A g \in Frame : Owned(g)'
  BY <1>10, <1>11, <1>12, Unpack DEF Owned
<1> QED BY <1>1, <1>5, <1>8, <1>9, <1>12, <1>13, <1>14, <1>15, QuietKeeps DEF MemInv

(* The page reaches the disk.                                              *)
LEMMA SwapWriteKeeps ==
  ASSUME MemInv, Whole, SwapWrite
  PROVE  MemInv'
<1>0. TypeOK
  BY DEF MemInv
<1>1. PICK r : r = swapper.r
  OBVIOUS
<1>2. /\ swapper # resting /\ disk' = [disk EXCEPT ![block[r]] = swapper.buf]
      /\ swapper' = resting /\ QuietStep
      /\ UNCHANGED <<mem, free, pc>>
  BY <1>1 DEF SwapWrite, regVars, QuietStep
<1>3. /\ r \in Region /\ swapper.buf \in Value /\ pf[r] = "swapped"
      /\ \A s \in Region : block[s] = block[r] => s = r
  BY <1>1, <1>2, Unpack DEF Writing
<1>4. block[r] \in Block
  BY <1>0, <1>3, Unpack DEF Page, TypeOK
<1>5. resting \in [r : Region \cup {Null}, buf : Value \cup {Null}] /\ resting.r = Null
  BY DEF resting
<1>6. TypeOK'
  <2>1. disk' \in [Block -> Value]
    BY <1>0, <1>2, <1>3, <1>4 DEF TypeOK
  <2> QED BY <1>0, <1>2, <1>5, <2>1 DEF TypeOK, QuietStep
<1>7. ASSUME NEW q \in Proc PROVE Faulting(q)'
  <2>1. Faulting(q)
    BY Unpack
  <2>2. \A s \in Region : resting.r # s
    BY <1>5, MemoryAssumption
  <2> QED BY <1>2, <2>1, <2>2 DEF Faulting, QuietStep
<1>8. Writing'
  BY <1>2 DEF Writing
<1>9. Whole => Apart'
  <2>1. \A s \in Region : \A f : Shows(s, f)' <=> Shows(s, f)
    BY <1>2, QuietKeeps
  <2>2. UNCHANGED <<pf, free, pc>>
    BY <1>2 DEF QuietStep
  <2> QED BY <2>1, <2>2, Unpack DEF Apart
<1>10. Whole => \A s \in Region : Intact(s)'
  <2> SUFFICES ASSUME NEW s \in Region, Intact(s) PROVE Intact(s)'
    BY Unpack
  <2>1. swapper'.r # s
    BY <1>2, <1>5, MemoryAssumption
  <2>2. ASSUME pf[s] = "swapped"
        PROVE  stored[s] = disk'[block[s]]
    <3>1. block[s] \in Block
      BY <1>0, <2>2, Unpack DEF Page, TypeOK
    <3>2. CASE s = r
      <4>1. disk'[block[s]] = swapper.buf
        BY <1>0, <1>2, <1>4, <3>2 DEF TypeOK
      <4> QED BY <1>1, <2>2, <3>2, <4>1 DEF Intact
    <3>3. CASE s # r
      <4>1. disk'[block[s]] = disk[block[s]]
        BY <1>0, <1>2, <1>3, <3>1, <3>3 DEF TypeOK
      <4> QED BY <1>1, <2>2, <3>3, <4>1 DEF Intact
    <3> QED BY <3>2, <3>3
  <2> QED BY <1>2, <2>1, <2>2 DEF Intact, QuietStep
<1>11. Whole /\ "unmap" \notin hurt => \A g \in Frame : Owned(g)'
  <2>1. \A s \in Region : \A f : Shows(s, f)' <=> Shows(s, f)
    BY <1>2, QuietKeeps
  <2> QED BY <1>2, <2>1, Unpack DEF Owned
<1>12. UNCHANGED hurt
  BY <1>2 DEF QuietStep
<1> QED BY <1>2, <1>6, <1>7, <1>8, <1>9, <1>10, <1>11, <1>12, QuietKeeps DEF MemInv

-----------------------------------------------------------------------------
(* References to blocks and to copy-on-write frames.                       *)

BlkDropped(r) == [blkRefs EXCEPT ![block[r]] = @ - 1]

(* A page leaves its block.                                                *)
LEMMA BlockDropped ==
  ASSUME MemInv, NEW r \in Region, pf[r] = "swapped", pf'[r] # "swapped",
         blkRefs' = BlkDropped(r),
         \A s \in Region : s # r => pf'[s] = pf[s] /\ block'[s] = block[s]
  PROVE  BlocksExact' /\ blkRefs' \in [Block -> Nat]
<1>0. TypeOK
  BY DEF MemInv
<1>1. PICK b : b = block[r]
  OBVIOUS
<1>2. b \in Block
  BY <1>0, <1>1, Unpack DEF Page, TypeOK
<1>3. \A c \in Block : blkRefs[c] = Cardinality(On(c))
  BY Unpack DEF BlocksExact, On
<1>4. r \in On(b) /\ IsFiniteSet(On(b))
  BY <1>0, <1>1, Counted DEF On
<1>5. Cardinality(On(b) \ {r}) = Cardinality(On(b)) - 1
  BY <1>4, FS_RemoveElement
<1>6. Cardinality(On(b) \ {r}) \in Nat
  BY <1>4, FS_RemoveElement, FS_CardinalityType
<1>7. On(b)' = On(b) \ {r}
  BY <1>1 DEF On
<1>8. \A c \in Block : c # b => On(c)' = On(c)
  BY <1>1 DEF On
<1>9. /\ blkRefs \in [Block -> Nat]
      /\ blkRefs' = [blkRefs EXCEPT ![b] = blkRefs[b] - 1]
  BY <1>0, <1>1 DEF TypeOK, BlkDropped
<1>10. blkRefs'[b] = Cardinality(On(b)') /\ blkRefs'[b] \in Nat
  BY <1>2, <1>3, <1>5, <1>6, <1>7, <1>9
<1>11. \A c \in Block : c # b => blkRefs'[c] = Cardinality(On(c)')
  BY <1>3, <1>8, <1>9
<1>12. blkRefs' \in [Block -> Nat]
  BY <1>2, <1>9, <1>10
<1>13. \A c \in Block : blkRefs'[c] = Cardinality(On(c)')
  BY <1>10, <1>11
<1> QED BY <1>12, <1>13 DEF BlocksExact, On

(* A page loses its mark.                                                  *)
LEMMA Unmarked ==
  ASSUME MemInv, NEW r \in Region, pf[r] = "cow", pf'[r] # "cow",
         NEW f \in Frame, Shows(r, f),
         \A s \in Region : s # r => Same(s)
  PROVE  /\ r \in Marked(f) /\ Marked(f)' = Marked(f) \ {r}
         /\ Cardinality(Marked(f)') = Cardinality(Marked(f)) - 1
         /\ Cardinality(Marked(f)') \in Nat
         /\ \A g \in Frame : g # f => Marked(g)' = Marked(g)
<1>0. TypeOK
  BY DEF MemInv
<1>1. r \in Marked(f) /\ IsFiniteSet(Marked(f))
  BY <1>0, Counted DEF Marked
<1>2. \A g \in Frame : Shows(r, g) => g = f
  <2>1. PICK p \in users[r] : pte[p][r].frame = f
    BY DEF Shows
  <2> QED BY <1>0, <2>1, ShowsOne, Unpack
<1>3. \A s \in Region : \A g : s # r =>
        (Shows(s, g)' <=> Shows(s, g)) /\ pf'[s] = pf[s]
  BY <1>0, SameShows DEF Same
<1>4. Marked(f)' = Marked(f) \ {r}
  BY <1>3 DEF Marked
<1>5. \A g \in Frame : g # f => Marked(g)' = Marked(g)
  BY <1>2, <1>3 DEF Marked
<1>6. /\ Cardinality(Marked(f) \ {r}) = Cardinality(Marked(f)) - 1
      /\ Cardinality(Marked(f) \ {r}) \in Nat
  BY <1>1, FS_RemoveElement, FS_CardinalityType
<1> QED BY <1>1, <1>4, <1>5, <1>6

(* The page and its reference go together.                                 *)
LEMMA CowDropped ==
  ASSUME MemInv, Whole, NEW r \in Region, pf[r] = "cow", pf'[r] # "cow",
         NEW f \in Frame, Shows(r, f), cow' = CowDrop(f), hurt \subseteq hurt',
         \A s \in Region : s # r => Same(s)
  PROVE  /\ cow' \in [Frame -> Nat]
         /\ \A g \in Frame : Covered(g)'
<1>0. TypeOK
  BY DEF MemInv
<1>1. /\ Cardinality(Marked(f)') = Cardinality(Marked(f)) - 1
      /\ Cardinality(Marked(f)') \in Nat /\ Cardinality(Marked(f)) \in Nat
      /\ \A g \in Frame : g # f => Marked(g)' = Marked(g)
  BY <1>0, Unmarked, Counted
<1>2. Covered(f)
  BY Unpack
<1>3. cow \in [Frame -> Nat] /\ cow' = [cow EXCEPT ![f] = cow[f] - 1]
  BY <1>0 DEF TypeOK, CowDrop
<1>4. cow'[f] = cow[f] - 1 /\ cow[f] \in Nat /\ cow'[f] \in Nat
  BY <1>1, <1>2, <1>3 DEF Covered
<1>5. cow' \in [Frame -> Nat]
  BY <1>3, <1>4
<1>6. Whole' => Whole
  BY DEF Whole
<1>7. Covered(f)'
  BY <1>1, <1>2, <1>4, <1>6 DEF Covered
<1>8. ASSUME NEW g \in Frame, g # f PROVE Covered(g)'
  <2>1. cow'[g] = cow[g] /\ Marked(g)' = Marked(g)
    BY <1>1, <1>3, <1>8
  <2> QED BY <2>1, Unpack, CoveredKept
<1> QED BY <1>5, <1>7, <1>8

(* A page that is marked, alone with its frame or not.                     *)
LEMMA AloneOrNot ==
  ASSUME MemInv, Whole, NEW r \in Region, pf[r] = "cow", NEW f \in Frame,
         Shows(r, f)
  PROVE  /\ cow[f] = 1 => \A s \in Region : Shows(s, f) => s = r
         /\ cow[f] # 1 => \E s \in Region : Shows(s, f) /\ s # r
<1>0. TypeOK
  BY DEF MemInv
<1>1. r \in Marked(f) /\ IsFiniteSet(Marked(f)) /\ Cardinality(Marked(f)) = cow[f]
  BY <1>0, Counted, Unpack DEF Marked, Covered
<1>2. ASSUME cow[f] = 1, NEW s \in Region, Shows(s, f), s # r PROVE FALSE
  <2>1. pf[s] = "cow"
    BY <1>2, Unpack DEF Apart
  <2>2. s \in Marked(f)
    BY <1>2, <2>1 DEF Marked
  <2>3. PICK x : Marked(f) = {x}
    BY <1>1, <1>2, FS_Singleton
  <2> QED BY <1>1, <1>2, <2>2, <2>3
<1>3. ASSUME cow[f] # 1, \A s \in Region : Shows(s, f) => s = r PROVE FALSE
  <2>1. Marked(f) = {r}
    BY <1>1, <1>3 DEF Marked
  <2>2. Cardinality({r}) = 1
    BY FS_Singleton
  <2> QED BY <1>1, <1>3, <2>1, <2>2
<1> QED BY <1>2, <1>3

-----------------------------------------------------------------------------
(* A page gets the frame that the thread of a fault has reserved.          *)

Loaded(p, r, f, v) ==
  /\ pc[p] # idle /\ pc[p].r = r /\ pc[p].frame = f
  /\ pf[r] \in {"demand", "swapped"} /\ swapper.r # r
  /\ \A q \in Proc : pc[q].at = "swapin" /\ pc[q].r = r => q = p
  /\ mem' = [mem EXCEPT ![f] = v]
  /\ pte' = MapAll(r, [frame |-> f, mode |-> "rw"])
  /\ pf' = [pf EXCEPT ![r] = "present"]
  /\ block' = [block EXCEPT ![r] = Null]
  /\ pc' = [pc EXCEPT ![p] = idle]
  /\ UNCHANGED <<users, shared, disk, cow, free, swapper, hurt, stored>>

LEMMA LoadedKeeps ==
  ASSUME MemInv, Whole, NEW p \in Proc, NEW r \in Region, NEW f \in Frame, NEW v \in Value,
         Loaded(p, r, f, v), Whole => v = stored[r],
         BlocksExact', blkRefs' \in [Block -> Nat]
  PROVE  MemInv'
<1>0. TypeOK
  BY DEF MemInv
<1>1. /\ pc[p] # idle /\ pc[p].r = r /\ pc[p].frame = f
      /\ pf[r] \in {"demand", "swapped"} /\ swapper.r # r
      /\ \A q \in Proc : pc[q].at = "swapin" /\ pc[q].r = r => q = p
      /\ UNCHANGED <<users, shared, disk, cow, free, swapper, hurt, stored>>
  BY DEF Loaded
<1>2. PICK e \in PteType : e = [frame |-> f, mode |-> "rw"]
  BY DEF PteType
<1>3. e.frame = f /\ e.mode = "rw" /\ f # Null
  BY <1>2, MemoryAssumption
<1>4. /\ pte' \in [Proc -> [Region -> PteType]]
      /\ \A q \in users[r] : pte'[q][r] = e
      /\ \A q \in Proc : q \notin users[r] => pte'[q][r] = pte[q][r]
      /\ \A q \in Proc, s \in Region : s # r => pte'[q][s] = pte[q][s]
  <2>1. pte' = MapAll(r, e)
    BY <1>2 DEF Loaded
  <2> QED BY <1>0, <2>1, PteAll
<1>5. /\ mem' \in [Frame -> Value] /\ mem'[f] = v
      /\ \A g \in Frame : g # f => mem'[g] = mem[g]
  BY <1>0 DEF Loaded, TypeOK
<1>6. /\ pf'[r] = "present" /\ block'[r] = Null
      /\ \A s \in Region : s # r => pf'[s] = pf[s] /\ block'[s] = block[s]
  BY <1>0 DEF Loaded, TypeOK
<1>7. /\ pc' \in [Proc -> PcType] /\ pc'[p] = idle
      /\ \A q \in Proc : q # p => pc'[q] = pc[q]
  <2>1. idle \in PcType
    BY DEF idle, PcType
  <2> QED BY <1>0, <2>1 DEF Loaded, TypeOK, PcType
<1>8. TypeOK'
  <2>1. pf' = [pf EXCEPT ![r] = "present"] /\ block' = [block EXCEPT ![r] = Null]
    BY DEF Loaded
  <2> QED BY <1>0, <1>1, <1>4, <1>5, <1>7, <2>1 DEF TypeOK, PteType, PcType
<1>9. \A s \in Region : s # r => Same(s)
  BY <1>1, <1>4, <1>6 DEF Same
<1>10. Page(r) /\ users[r] \subseteq Proc /\ p \in users[r]
  BY <1>0, <1>1, Unpack DEF TypeOK, Faulting
<1>11. Page(r)' /\ Writable(r)'
  <2>1. \A q \in Proc : q \notin users[r] =>
          pte[q][r].mode = "none" /\ pte[q][r].frame = Null
    BY <1>10 DEF Page
  <2>2. \A q \in Proc :
          /\ pte'[q][r].mode # "none" <=> q \in users[r]
          /\ pte'[q][r].frame # Null <=> pte'[q][r].mode # "none"
    BY <1>3, <1>4, <2>1
  <2> QED BY <1>1, <1>3, <1>4, <1>6, <1>10, <2>2 DEF Page, Writable
<1>12. \A s \in Region : Page(s)' /\ Writable(s)'
  BY <1>0, <1>1, <1>9, <1>11, Unpack, PagesKept
<1>13. ASSUME NEW q \in Proc PROVE Faulting(q)'
  <2>1. Faulting(q) /\ idle.at = "idle"
    BY Unpack DEF idle
  <2>2. CASE q = p
    BY <1>7, <2>2 DEF Faulting
  <2>3. CASE q # p
    <3>1. pc[q].at = "swapin" => pc[q].r # r
      BY <1>1, <2>3
    <3>2. \A u \in Proc : pc'[u].at = "swapin" => pc[u].at = "swapin" /\ pc'[u].r = pc[u].r
      BY <1>7, <2>1
    <3> QED BY <1>1, <1>6, <1>7, <2>1, <2>3, <3>1, <3>2 DEF Faulting
  <2> QED BY <2>2, <2>3
<1>14. Writing'
  <2> SUFFICES ASSUME swapper # resting
               PROVE  /\ swapper.r \in Region /\ swapper.buf \in Value
                      /\ pf'[swapper.r] = "swapped"
                      /\ \A s \in Region : block'[s] = block'[swapper.r] => s = swapper.r
    BY <1>1 DEF Writing
  <2>1. /\ swapper.r \in Region /\ swapper.buf \in Value /\ pf[swapper.r] = "swapped"
        /\ \A s \in Region : block[s] = block[swapper.r] => s = swapper.r
    BY Unpack DEF Writing
  <2>2. block[swapper.r] # Null
    BY <2>1, Unpack DEF Page
  <2> QED BY <1>1, <1>6, <2>1, <2>2
<1>15. ASSUME NEW g \in Frame PROVE Covered(g)'
  <2>1. Marked(g)' = Marked(g)
    BY <1>0, <1>1, <1>6, <1>9, MarkedKept
  <2> QED BY <1>1, <2>1, Unpack, CoveredKept
<1>16. \A g \in Frame : ~ Shows(r, g)
  BY <1>1, FrameGone
<1>17. \A g \in Frame : Shows(r, g)' <=> g = f
  BY <1>1, <1>3, <1>4, <1>10 DEF Shows
<1>18. \A s \in Region : \A g \in Frame : s # r => (Shows(s, g)' <=> Shows(s, g))
  BY <1>0, <1>9, SameShows
<1>19. idle.frame = Null
  BY DEF idle
<1>20. \A q \in Proc, g \in Frame : pc'[q].frame = g => pc[q].frame = g /\ q # p
  BY <1>7, <1>19, MemoryAssumption
<1>21. Whole => Apart'
  <2> SUFFICES ASSUME Apart, NEW g \in Frame
               PROVE  /\ \A s \in Region : Shows(s, g)' =>
                           /\ g \notin free'
                           /\ \A q \in Proc : pc'[q].frame # g
                           /\ \A t \in Region : Shows(t, g)' /\ s # t => pf'[s] = "cow"
                      /\ \A q \in Proc : pc'[q].frame = g =>
                           /\ g \notin free'
                           /\ \A u \in Proc : pc'[u].frame = g => u = q
    BY Unpack DEF Apart
  <2>1. CASE g = f
    <3>1. g \notin free /\ \A q \in Proc : pc[q].frame = g => q = p
      BY <1>1, <2>1 DEF Apart
    <3>2. \A s \in Region : ~ Shows(s, g)
      BY <1>1, <2>1 DEF Apart
    <3>3. \A s \in Region : Shows(s, g)' => s = r
      BY <1>18, <3>2
    <3>4. \A q \in Proc : pc'[q].frame # g
      BY <1>20, <3>1
    <3> QED BY <1>1, <3>1, <3>3, <3>4
  <2>2. CASE g # f
    <3>1. \A s \in Region : Shows(s, g)' => Shows(s, g) /\ s # r
      BY <1>17, <1>18, <2>2
    <3> QED BY <1>1, <1>6, <1>20, <3>1 DEF Apart
  <2> QED BY <2>1, <2>2
<1>22. Whole => \A s \in Region : Intact(s)'
  <2> SUFFICES ASSUME Whole, Apart, NEW s \in Region, Intact(s) PROVE Intact(s)'
    BY Unpack
  <2>1. CASE s = r
    <3>1. \A q \in users[r] : mem'[pte'[q][r].frame] = stored[r]
      BY <1>3, <1>4, <1>5
    <3> QED BY <1>1, <1>6, <2>1, <3>1 DEF Intact
  <2>2. CASE s # r
    <3>1. ~ Shows(s, f)
      BY <1>1 DEF Apart
    <3>2. \A q \in users[s] : pf[s] \in {"present", "cow"} =>
            pte[q][s].frame \in Frame /\ pte[q][s].frame # f
      BY <3>1, FrameThere DEF Shows
    <3>3. users[s] \subseteq Proc
      BY <1>0 DEF TypeOK
    <3>4. \A q \in users[s] : pf[s] \in {"present", "cow"} =>
            mem'[pte'[q][s].frame] = mem[pte[q][s].frame]
      BY <1>4, <1>5, <2>2, <3>2, <3>3
    <3> QED BY <1>1, <1>6, <2>2, <3>4 DEF Intact
  <2> QED BY <2>1, <2>2
<1>23. Whole /\ "unmap" \notin hurt => \A g \in Frame : Owned(g)'
  <2> SUFFICES ASSUME NEW g \in Frame, Owned(g) PROVE Owned(g)'
    BY Unpack
  <2>1. CASE g = f
    BY <1>17, <2>1 DEF Owned
  <2>2. CASE g # f
    <3>1. \A q \in Proc : pc[q].frame = g => pc'[q].frame = g
      BY <1>1, <1>7, <2>2
    <3>2. \A s \in Region : Shows(s, g) => Shows(s, g)'
      BY <1>16, <1>18
    <3> QED BY <1>1, <3>1, <3>2 DEF Owned
  <2> QED BY <2>1, <2>2
<1>24. Whole' <=> Whole
  BY <1>1 DEF Whole
<1> QED BY <1>1, <1>8, <1>12, <1>13, <1>14, <1>15, <1>21, <1>22, <1>23, <1>24
        DEF MemInv

(* demandLoad().                                                           *)
LEMMA DemandLoadKeeps ==
  ASSUME MemInv, Whole, NEW p \in Proc, DemandLoad(p)
  PROVE  MemInv'
<1>0. TypeOK
  BY DEF MemInv
<1>1. PICK r, f : r = pc[p].r /\ f = pc[p].frame
  OBVIOUS
<1>2. /\ pc[p].at = "fault" /\ ~ Locked(r) /\ pf[r] = "demand"
      /\ mem' = [mem EXCEPT ![f] = Zero]
      /\ pte' = MapAll(r, [frame |-> f, mode |-> "rw"])
      /\ pf' = [pf EXCEPT ![r] = "present"]
      /\ pc' = [pc EXCEPT ![p] = idle]
      /\ UNCHANGED <<users, shared, block, disk, cow, blkRefs, free, swapper, hurt,
                     stored>>
  BY <1>1 DEF DemandLoad, Handles, Done, regVars
<1>3. pc[p] # idle /\ Faulting(p)
  BY <1>2, Unpack DEF idle
<1>4. r \in Region /\ f \in Frame
  BY <1>1, <1>3 DEF Faulting
<1>5. block' = [block EXCEPT ![r] = Null]
  <2>1. block[r] = Null
    BY <1>2, <1>4, Unpack DEF Page
  <2> QED BY <1>0, <1>2, <1>4, <2>1 DEF TypeOK
<1>6. Loaded(p, r, f, Zero)
  BY <1>1, <1>2, <1>3, <1>5 DEF Loaded, Locked
<1>7. Whole => Zero = stored[r]
  BY <1>2, <1>4, Unpack DEF Intact
<1>8. BlocksExact'
  <2>1. \A s \in Region : pf'[s] = "swapped" <=> pf[s] = "swapped"
    BY <1>0, <1>2, <1>4 DEF TypeOK
  <2> QED BY <1>2, <2>1, Unpack, BlocksKept
<1>9. blkRefs' \in [Block -> Nat] /\ Zero \in Value
  BY <1>0, <1>2, MemoryAssumption DEF TypeOK
<1> QED BY <1>4, <1>6, <1>7, <1>8, <1>9, LoadedKeeps

(* swapIn().                                                               *)
LEMMA SwapInKeeps ==
  ASSUME MemInv, Whole, NEW p \in Proc, SwapIn(p)
  PROVE  MemInv'
<1>0. TypeOK
  BY DEF MemInv
<1>1. PICK r, f : r = pc[p].r /\ f = pc[p].frame
  OBVIOUS
<1>2. /\ swapper = resting /\ pc[p].at = "swapin"
      /\ mem' = [mem EXCEPT ![f] = disk[block[r]]]
      /\ pte' = MapAll(r, [frame |-> f, mode |-> "rw"])
      /\ pf' = [pf EXCEPT ![r] = "present"]
      /\ blkRefs' = BlkDropped(r)
      /\ block' = [block EXCEPT ![r] = Null]
      /\ pc' = [pc EXCEPT ![p] = idle]
      /\ UNCHANGED <<users, shared, disk, cow, free, swapper, hurt, stored>>
  BY <1>1 DEF SwapIn, Done, regVars, BlkDropped
<1>3. pc[p] # idle /\ Faulting(p)
  BY <1>2, Unpack DEF idle
<1>4. /\ r \in Region /\ f \in Frame /\ pf[r] = "swapped" /\ swapper.r # r
      /\ \A q \in Proc : pc[q].at = "swapin" /\ pc[q].r = r => q = p
  BY <1>1, <1>2, <1>3 DEF Faulting
<1>5. block[r] \in Block
  BY <1>0, <1>4, Unpack DEF Page, TypeOK
<1>6. PICK v \in Value : v = disk[block[r]]
  BY <1>0, <1>5 DEF TypeOK
<1>7. Loaded(p, r, f, v)
  BY <1>1, <1>2, <1>3, <1>4, <1>6 DEF Loaded
<1>8. Whole => v = stored[r]
  BY <1>4, <1>6, Unpack DEF Intact
<1>9. BlocksExact' /\ blkRefs' \in [Block -> Nat]
  <2>1. /\ pf'[r] # "swapped"
        /\ \A s \in Region : s # r => pf'[s] = pf[s] /\ block'[s] = block[s]
    BY <1>0, <1>2, <1>4 DEF TypeOK
  <2> QED BY <1>2, <1>4, <2>1, BlockDropped
<1> QED BY <1>4, <1>7, <1>8, <1>9, LoadedKeeps

(* The swapper takes a page out.                                           *)
LEMMA SwapOutKeeps ==
  ASSUME MemInv, Whole, NEW r \in Region, SwapOut(r)
  PROVE  MemInv'
<1>0. TypeOK
  BY DEF MemInv
<1>1. PICK b \in Block :
        /\ blkRefs[b] = 0
        /\ blkRefs' = [blkRefs EXCEPT ![b] = 1]
        /\ block' = [block EXCEPT ![r] = b]
  BY DEF SwapOut
<1>2. PICK f : f = pte[CHOOSE p \in users[r] : TRUE][r].frame
  OBVIOUS
<1>3. /\ swapper = resting /\ ~ Locked(r) /\ pf[r] = "present" /\ users[r] # {}
      /\ pf' = [pf EXCEPT ![r] = "swapped"]
      /\ pte' = MapAll(r, noPte)
      /\ swapper' = [r |-> r, buf |-> mem[f]]
      /\ free' = free \cup {f}
      /\ UNCHANGED <<users, shared, mem, disk, cow, pc, hurt, stored>>
  BY <1>2 DEF SwapOut, Victim, regVars
<1>4. /\ f \in Frame /\ users[r] \subseteq Proc
      /\ \A q \in users[r] : pte[q][r].frame = f
      /\ \A g \in Frame : Shows(r, g) <=> g = f
  <2>1. PICK p \in users[r] : p = CHOOSE q \in users[r] : TRUE
    BY <1>3
  <2>2. f = pte[p][r].frame
    BY <1>2, <2>1
  <2>3. f \in Frame /\ \A g \in Frame : Shows(r, g) <=> g = f
    BY <1>3, <2>2, FrameThere
  <2>4. \A q \in users[r] : pte[q][r].frame = f
    BY <2>2, Unpack DEF Page
  <2> QED BY <1>0, <2>3, <2>4 DEF TypeOK
<1>5. PICK e \in PteType : e = noPte
  BY DEF noPte, PteType
<1>6. e.frame = Null /\ e.mode = "none"
  BY <1>5 DEF noPte
<1>7. /\ pte' \in [Proc -> [Region -> PteType]]
      /\ \A q \in users[r] : pte'[q][r] = e
      /\ \A q \in Proc : q \notin users[r] => pte'[q][r] = pte[q][r]
      /\ \A q \in Proc, s \in Region : s # r => pte'[q][s] = pte[q][s]
  BY <1>0, <1>3, <1>5, PteAll
<1>8. /\ pf'[r] = "swapped" /\ block'[r] = b
      /\ \A s \in Region : s # r => pf'[s] = pf[s] /\ block'[s] = block[s]
  BY <1>0, <1>1, <1>3 DEF TypeOK
<1>9. mem[f] \in Value /\ swapper'.r = r /\ swapper'.buf = mem[f]
  BY <1>0, <1>3, <1>4 DEF TypeOK
<1>10. TypeOK'
  <2>1. swapper' \in [r : Region \cup {Null}, buf : Value \cup {Null}]
    BY <1>3, <1>9
  <2>2. pf' \in [Region -> {"none", "demand", "present", "cow", "swapped", "empty"}]
    BY <1>0, <1>3 DEF TypeOK
  <2>3. /\ block' \in [Region -> Block \cup {Null}] /\ blkRefs' \in [Block -> Nat]
        /\ free' \subseteq Frame
    BY <1>0, <1>1, <1>3, <1>4 DEF TypeOK
  <2> QED BY <1>0, <1>3, <1>7, <2>1, <2>2, <2>3 DEF TypeOK, PteType
<1>11. \A s \in Region : s # r => Same(s)
  BY <1>3, <1>7, <1>8 DEF Same
<1>12. Page(r)' /\ Writable(r)'
  <2>1. Page(r)
    BY Unpack
  <2>2. \A q \in Proc : q \notin users[r] =>
          pte[q][r].mode = "none" /\ pte[q][r].frame = Null
    BY <2>1 DEF Page
  <2>3. \A q \in Proc : pte'[q][r].mode = "none" /\ pte'[q][r].frame = Null
    BY <1>6, <1>7, <2>2
  <2>4. b # Null
    BY MemoryAssumption
  <2> QED BY <1>3, <1>4, <1>8, <2>1, <2>3, <2>4 DEF Page, Writable
<1>13. \A s \in Region : Page(s)' /\ Writable(s)'
  BY <1>0, <1>3, <1>11, <1>12, Unpack, PagesKept
<1>14. ASSUME NEW q \in Proc PROVE Faulting(q)'
  <2>1. Faulting(q)
    BY Unpack
  <2>2. pc[q].at = "swapin" => pc[q].r # r
    BY <1>3 DEF Locked
  <2> QED BY <1>3, <1>8, <1>9, <2>1, <2>2 DEF Faulting
<1>15. On(b) = {}
  <2>1. Cardinality(On(b)) = 0
    BY <1>1, Unpack DEF BlocksExact, On
  <2> QED BY <1>0, <2>1, Counted, FS_EmptySet
<1>16. \A s \in Region : block[s] # b
  <2> SUFFICES ASSUME NEW s \in Region, block[s] = b PROVE FALSE
    OBVIOUS
  <2>1. pf[s] = "swapped"
    BY MemoryAssumption, Unpack DEF Page
  <2> QED BY <1>15, <2>1 DEF On
<1>17. Writing'
  BY <1>8, <1>9, <1>16 DEF Writing
<1>18. BlocksExact'
  <2>1. On(b)' = {r}
    BY <1>8, <1>16 DEF On
  <2>2. \A c \in Block : c # b => On(c)' = On(c)
    BY <1>3, <1>8 DEF On
  <2>3. Cardinality({r}) = 1
    BY FS_Singleton
  <2>4. blkRefs'[b] = 1 /\ \A c \in Block : c # b => blkRefs'[c] = blkRefs[c]
    BY <1>0, <1>1 DEF TypeOK
  <2>5. \A c \in Block : blkRefs[c] = Cardinality(On(c))
    BY Unpack DEF BlocksExact, On
  <2>6. \A c \in Block : blkRefs'[c] = Cardinality(On(c)')
    BY <2>1, <2>2, <2>3, <2>4, <2>5
  <2> QED BY <2>6 DEF BlocksExact, On
<1>19. ASSUME NEW g \in Frame PROVE Covered(g)'
  <2>1. Marked(g)' = Marked(g)
    BY <1>0, <1>3, <1>8, <1>11, MarkedKept
  <2> QED BY <1>3, <2>1, Unpack, CoveredKept
<1>20. \A g \in Frame : ~ Shows(r, g)'
  BY <1>3, <1>4, <1>6, <1>7, MemoryAssumption DEF Shows
<1>21. \A s \in Region : \A g \in Frame : s # r => (Shows(s, g)' <=> Shows(s, g))
  BY <1>0, <1>11, SameShows
<1>22. Whole => Apart'
  <2> SUFFICES ASSUME Apart, NEW g \in Frame
               PROVE  /\ \A s \in Region : Shows(s, g)' =>
                           /\ g \notin free'
                           /\ \A q \in Proc : pc'[q].frame # g
                           /\ \A t \in Region : Shows(t, g)' /\ s # t => pf'[s] = "cow"
                      /\ \A q \in Proc : pc'[q].frame = g =>
                           /\ g \notin free'
                           /\ \A u \in Proc : pc'[u].frame = g => u = q
    BY Unpack DEF Apart
  <2>1. \A s \in Region : Shows(s, g)' => Shows(s, g) /\ s # r
    BY <1>20, <1>21
  <2>2. CASE g = f
    <3>1. Shows(r, g)
      BY <1>4, <2>2
    <3>2. \A s \in Region : ~ Shows(s, g)'
      BY <1>3, <2>1, <3>1 DEF Apart
    <3>3. \A q \in Proc : pc'[q].frame # g
      BY <1>3, <3>1 DEF Apart
    <3> QED BY <3>2, <3>3
  <2>3. CASE g # f
    <3>1. g \in free' => g \in free
      BY <1>3, <2>3
    <3> QED BY <1>3, <1>8, <2>1, <3>1 DEF Apart
  <2> QED BY <2>2, <2>3
<1>23. Whole => \A s \in Region : Intact(s)'
  <2> SUFFICES ASSUME NEW s \in Region, Intact(s) PROVE Intact(s)'
    BY Unpack
  <2>1. CASE s = r
    <3>1. stored[r] = mem[f]
      BY <1>3, <1>4, <2>1 DEF Intact
    <3> QED BY <1>3, <1>8, <1>9, <2>1, <3>1 DEF Intact
  <2>2. CASE s # r
    <3>1. swapper.r # s
      BY <1>3, MemoryAssumption DEF resting
    <3>2. users[s] \subseteq Proc
      BY <1>0 DEF TypeOK
    <3> QED BY <1>3, <1>7, <1>8, <1>9, <2>2, <3>1, <3>2 DEF Intact
  <2> QED BY <2>1, <2>2
<1>24. Whole /\ "unmap" \notin hurt => \A g \in Frame : Owned(g)'
  <2> SUFFICES ASSUME NEW g \in Frame, Owned(g) PROVE Owned(g)'
    BY Unpack
  <2>1. CASE g = f
    BY <1>3, <2>1 DEF Owned
  <2>2. CASE g # f
    <3>1. \A s \in Region : Shows(s, g) => Shows(s, g)'
      BY <1>4, <1>21, <2>2
    <3> QED BY <1>3, <3>1 DEF Owned
  <2> QED BY <2>1, <2>2
<1>25. Whole' <=> Whole
  BY <1>3 DEF Whole
<1> QED BY <1>3, <1>10, <1>13, <1>14, <1>17, <1>18, <1>19, <1>22, <1>23, <1>24, <1>25
        DEF MemInv

(* CopyOnWrite::pagefault().                                               *)
LEMMA CowFaultKeeps ==
  ASSUME MemInv, Whole, NEW p \in Proc, CowFault(p)
  PROVE  MemInv'
<1>0. TypeOK
  BY DEF MemInv
<1>1. PICK r, new, old :
        r = pc[p].r /\ new = pc[p].frame /\ old = pte[p][r].frame
  OBVIOUS
<1>2. PICK f : f = IF cow[old] = 1 THEN old ELSE new
  OBVIOUS
<1>3. /\ pc[p].at = "fault" /\ pf[r] = "cow"
      /\ cow' = CowDrop(old)
      /\ pte' = [pte EXCEPT ![p][r] = [frame |-> f, mode |-> "rw"]]
      /\ pf' = [pf EXCEPT ![r] = "present"]
      /\ pc' = [pc EXCEPT ![p] = idle]
      /\ UNCHANGED <<users, shared, block, disk, blkRefs, swapper, hurt, stored>>
  BY <1>1, <1>2 DEF CowFault, Handles, Done, regVars
<1>4. IF cow[old] = 1 THEN free' = free \cup {new} /\ mem' = mem
      ELSE mem' = [mem EXCEPT ![new] = mem[old]] /\ free' = free
  BY <1>1 DEF CowFault, Discard
<1>5. pc[p] # idle /\ Faulting(p)
  BY <1>3, Unpack DEF idle
<1>6. r \in Region /\ new \in Frame /\ p \in users[r]
  BY <1>1, <1>5 DEF Faulting
<1>7. Page(r) /\ users[r] = {p} /\ r \notin shared
  <2>1. Page(r)
    BY <1>6, Unpack
  <2> QED BY <1>3, <1>6, <2>1 DEF Page
<1>8. old \in Frame /\ Shows(r, old) /\ \A g \in Frame : Shows(r, g) <=> g = old
  BY <1>1, <1>3, <1>6, FrameThere
<1>9. f \in Frame /\ f # Null
  BY <1>2, <1>6, <1>8, MemoryAssumption
<1>10. PICK e \in PteType : e = [frame |-> f, mode |-> "rw"]
  BY <1>9 DEF PteType
<1>11. e.frame = f /\ e.mode = "rw"
  BY <1>10
<1>12. /\ pte' \in [Proc -> [Region -> PteType]]
       /\ pte'[p][r] = e
       /\ \A q \in Proc, s \in Region : q # p \/ s # r => pte'[q][s] = pte[q][s]
  <2>1. pte' = MapOne(p, r, e)
    BY <1>3, <1>10 DEF MapOne
  <2> QED BY <1>0, <1>6, <2>1, PteOne
<1>13. /\ pf'[r] = "present" /\ \A s \in Region : s # r => pf'[s] = pf[s]
       /\ pf' \in [Region -> {"none", "demand", "present", "cow", "swapped", "empty"}]
  BY <1>0, <1>3, <1>6 DEF TypeOK
<1>14. /\ pc' \in [Proc -> PcType] /\ pc'[p] = idle
       /\ \A q \in Proc : q # p => pc'[q] = pc[q]
  <2>1. idle \in PcType
    BY DEF idle, PcType
  <2> QED BY <1>0, <1>3, <2>1 DEF TypeOK, PcType
<1>15. \A s \in Region : s # r => Same(s)
  BY <1>3, <1>12, <1>13 DEF Same
<1>16. cow' \in [Frame -> Nat] /\ \A g \in Frame : Covered(g)'
  BY <1>3, <1>6, <1>8, <1>13, <1>15, CowDropped
<1>17. mem' \in [Frame -> Value] /\ free' \subseteq Frame
  <2>1. CASE cow[old] = 1
    BY <1>0, <1>4, <1>6, <2>1 DEF TypeOK
  <2>2. CASE cow[old] # 1
    BY <1>0, <1>4, <1>6, <1>8, <2>2 DEF TypeOK
  <2> QED BY <2>1, <2>2
<1>18. TypeOK'
  BY <1>0, <1>3, <1>12, <1>13, <1>14, <1>16, <1>17 DEF TypeOK, PteType, PcType
<1>19. Page(r)' /\ Writable(r)'
  <2>1. \A q \in Proc : q # p => pte[q][r].mode = "none" /\ pte[q][r].frame = Null
    BY <1>7 DEF Page
  <2>2. \A q \in Proc :
          /\ pte'[q][r].mode # "none" <=> q = p
          /\ pte'[q][r].frame # Null <=> pte'[q][r].mode # "none"
    BY <1>6, <1>9, <1>11, <1>12, <2>1
  <2> QED BY <1>3, <1>6, <1>7, <1>11, <1>12, <1>13, <2>2 DEF Page, Writable
<1>20. \A s \in Region : Page(s)' /\ Writable(s)'
  BY <1>0, <1>3, <1>15, <1>19, Unpack, PagesKept
<1>21. ASSUME NEW q \in Proc PROVE Faulting(q)'
  <2>1. Faulting(q) /\ idle.at = "idle"
    BY Unpack DEF idle
  <2>2. CASE q = p
    BY <1>14, <2>2 DEF Faulting
  <2>3. CASE q # p
    <3>1. pc[q].at = "swapin" => pc[q].r # r
      BY <1>3, <2>1, <2>3 DEF Faulting, idle
    <3>2. \A u \in Proc : pc'[u].at = "swapin" => pc[u].at = "swapin" /\ pc'[u].r = pc[u].r
      BY <1>14, <2>1
    <3> QED BY <1>3, <1>13, <1>14, <2>1, <2>3, <3>1, <3>2 DEF Faulting
  <2> QED BY <2>2, <2>3
<1>22. Writing'
  <2>1. swapper # resting => swapper.r # r
    BY <1>3, Unpack DEF Writing
  <2> QED BY <1>3, <1>13, <2>1, Unpack DEF Writing
<1>23. BlocksExact'
  <2>1. \A s \in Region : pf'[s] = "swapped" <=> pf[s] = "swapped"
    BY <1>3, <1>13
  <2> QED BY <1>3, <2>1, Unpack, BlocksKept
<1>24. \A g \in Frame : Shows(r, g)' <=> g = f
  BY <1>3, <1>7, <1>11, <1>12 DEF Shows
<1>25. \A s \in Region : \A g \in Frame : s # r => (Shows(s, g)' <=> Shows(s, g))
  BY <1>0, <1>15, SameShows
<1>26. \A q \in Proc, g \in Frame : pc'[q].frame = g => pc[q].frame = g /\ q # p
  <2>1. idle.frame = Null
    BY DEF idle
  <2> QED BY <1>14, <2>1, MemoryAssumption
<1>27. Whole => \A s \in Region : s # r => ~ Shows(s, f)
  <2> SUFFICES ASSUME Whole, NEW s \in Region, s # r, Shows(s, f) PROVE FALSE
    OBVIOUS
  <2>1. CASE cow[old] = 1
    BY <1>2, <1>3, <1>6, <1>8, <2>1, AloneOrNot
  <2>2. CASE cow[old] # 1
    BY <1>1, <1>2, <1>6, <2>2, Unpack DEF Apart
  <2> QED BY <2>1, <2>2
<1>28. Whole => f \notin free' /\ \A q \in Proc : pc'[q].frame # f
  <2> SUFFICES ASSUME Apart PROVE f \notin free' /\ \A q \in Proc : pc'[q].frame # f
    BY Unpack
  <2>1. old \notin free /\ new \notin free /\ old # new
    BY <1>1, <1>6, <1>8 DEF Apart
  <2>2. \A q \in Proc : pc[q].frame # old /\ (pc[q].frame = new => q = p)
    BY <1>1, <1>6, <1>8 DEF Apart
  <2>3. CASE cow[old] = 1
    BY <1>2, <1>4, <1>8, <1>26, <2>1, <2>2, <2>3
  <2>4. CASE cow[old] # 1
    BY <1>2, <1>4, <1>6, <1>26, <2>1, <2>2, <2>4
  <2> QED BY <2>3, <2>4
<1>29. Whole => Apart'
  <2> SUFFICES ASSUME Whole, Apart, NEW g \in Frame
               PROVE  /\ \A s \in Region : Shows(s, g)' =>
                           /\ g \notin free'
                           /\ \A q \in Proc : pc'[q].frame # g
                           /\ \A t \in Region : Shows(t, g)' /\ s # t => pf'[s] = "cow"
                      /\ \A q \in Proc : pc'[q].frame = g =>
                           /\ g \notin free'
                           /\ \A u \in Proc : pc'[u].frame = g => u = q
    BY Unpack DEF Apart
  <2>1. CASE g = f
    <3>1. \A s \in Region : Shows(s, g)' => s = r
      BY <1>25, <1>27, <2>1
    <3> QED BY <1>28, <2>1, <3>1
  <2>2. CASE g # f
    <3>1. \A s \in Region : Shows(s, g)' => Shows(s, g) /\ s # r
      BY <1>24, <1>25, <2>2
    <3>2. g \in free' => g \in free \/ (g = new /\ cow[old] = 1)
      BY <1>4
    <3>3. g = new => (\A s \in Region : ~ Shows(s, g)) /\ \A q \in Proc : pc'[q].frame # g
      BY <1>1, <1>6, <1>26 DEF Apart
    <3>4. CASE g = new
      BY <3>1, <3>3, <3>4
    <3>5. CASE g # new
      BY <1>13, <1>26, <3>1, <3>2, <3>5 DEF Apart
    <3> QED BY <3>4, <3>5
  <2> QED BY <2>1, <2>2
<1>30. Whole => \A s \in Region : Intact(s)'
  <2> SUFFICES ASSUME Whole, Apart, NEW s \in Region, Intact(s) PROVE Intact(s)'
    BY Unpack
  <2>1. \A g \in Frame : g # new => mem'[g] = mem[g]
    BY <1>0, <1>4, <1>6 DEF TypeOK
  <2>2. mem'[f] = mem[old]
    BY <1>0, <1>2, <1>4, <1>6, <1>8 DEF TypeOK
  <2>3. CASE s = r
    <3>1. stored[r] = mem[old]
      BY <1>1, <1>3, <1>6, <2>3 DEF Intact
    <3> QED BY <1>3, <1>7, <1>11, <1>12, <1>13, <2>2, <2>3, <3>1 DEF Intact
  <2>4. CASE s # r
    <3>1. ~ Shows(s, new)
      BY <1>1, <1>6 DEF Apart
    <3>2. \A q \in users[s] : pf[s] \in {"present", "cow"} =>
            pte[q][s].frame \in Frame /\ pte[q][s].frame # new
      BY <3>1, FrameThere DEF Shows
    <3>3. users[s] \subseteq Proc
      BY <1>0 DEF TypeOK
    <3>4. \A q \in users[s] : pf[s] \in {"present", "cow"} =>
            mem'[pte'[q][s].frame] = mem[pte[q][s].frame]
      BY <1>12, <2>1, <2>4, <3>2, <3>3
    <3> QED BY <1>3, <1>13, <2>4, <3>4 DEF Intact
  <2> QED BY <2>3, <2>4
<1>31. Whole /\ "unmap" \notin hurt => \A g \in Frame : Owned(g)'
  <2> SUFFICES ASSUME Whole, NEW g \in Frame, Owned(g) PROVE Owned(g)'
    BY Unpack
  <2>1. CASE g = f
    BY <1>6, <1>24, <2>1 DEF Owned
  <2>2. CASE g # f /\ g = new
    <3>1. cow[old] = 1
      BY <1>2, <2>2
    <3> QED BY <1>4, <2>2, <3>1 DEF Owned
  <2>3. CASE g # f /\ g = old
    <3>1. cow[old] # 1
      BY <1>2, <2>3
    <3>2. PICK s \in Region : Shows(s, old) /\ s # r
      BY <1>3, <1>6, <1>8, <3>1, AloneOrNot
    <3> QED BY <1>25, <2>3, <3>2 DEF Owned
  <2>4. CASE g # f /\ g # new /\ g # old
    <3>1. \A q \in Proc : pc[q].frame = g => pc'[q].frame = g
      BY <1>1, <1>14, <2>4
    <3>2. \A s \in Region : Shows(s, g) => Shows(s, g)'
      BY <1>8, <1>25, <2>4
    <3>3. g \in free => g \in free'
      BY <1>4
    <3> QED BY <3>1, <3>2, <3>3 DEF Owned
  <2> QED BY <2>1, <2>2, <2>3, <2>4
<1>32. Whole' <=> Whole
  BY <1>3 DEF Whole
<1> QED BY <1>3, <1>16, <1>18, <1>20, <1>21, <1>22, <1>23, <1>29, <1>30, <1>31, <1>32
        DEF MemInv

-----------------------------------------------------------------------------
(* A page is given back: the last user unmaps the region, or its only user *)
(* shrinks it.                                                             *)

Dropped(p, r, f) ==
  /\ pc[p] = idle /\ users[r] = {p} /\ ~ Locked(r) /\ pte[p][r].frame = f
  /\ \/ users' = [users EXCEPT ![r] = {}] /\ shared' = shared \ {r}
     \/ users' = users /\ shared' = shared /\ r \notin shared
  /\ pte' = MapOne(p, r, noPte)
  /\ pf' = [pf EXCEPT ![r] = "none"]
  /\ block' = [block EXCEPT ![r] = Null]
  /\ stored' = [stored EXCEPT ![r] = Null]
  /\ blkRefs' = IF pf[r] = "swapped" THEN BlkDropped(r) ELSE blkRefs
  /\ pf[r] = "present" => free' = free \cup {f}
  /\ pf[r] # "present" /\ Whole' => free' = free
  /\ Whole' /\ "unmap" \notin hurt' /\ pf[r] = "cow" => cow[f] # 1
  /\ hurt \subseteq hurt'
  /\ UNCHANGED <<mem, disk, pc, swapper>>

LEMMA DroppedKeeps ==
  ASSUME MemInv, Whole, NEW p \in Proc, NEW r \in Region, NEW f, Dropped(p, r, f),
         cow' \in [Frame -> Nat], Whole' => \A g \in Frame : Covered(g)',
         free' \subseteq Frame, hurt' \subseteq Damage
  PROVE  MemInv'
<1>0. TypeOK
  BY DEF MemInv
<1>1. /\ pc[p] = idle /\ users[r] = {p} /\ ~ Locked(r) /\ pte[p][r].frame = f
      /\ \/ users' = [users EXCEPT ![r] = {}] /\ shared' = shared \ {r}
         \/ users' = users /\ shared' = shared /\ r \notin shared
      /\ hurt \subseteq hurt'
      /\ UNCHANGED <<mem, disk, pc, swapper>>
  BY DEF Dropped
<1>2. /\ pf[r] = "present" => free' = free \cup {f}
      /\ pf[r] # "present" /\ Whole' => free' = free
      /\ Whole' /\ "unmap" \notin hurt' /\ pf[r] = "cow" => cow[f] # 1
  BY DEF Dropped
<1>3. /\ pf'[r] = "none" /\ block'[r] = Null /\ stored'[r] = Null
      /\ \A s \in Region : s # r =>
           pf'[s] = pf[s] /\ block'[s] = block[s] /\ stored'[s] = stored[s]
      /\ pf' \in [Region -> {"none", "demand", "present", "cow", "swapped", "empty"}]
      /\ block' \in [Region -> Block \cup {Null}]
      /\ stored' \in [Region -> Value \cup {Null}]
  BY <1>0 DEF Dropped, TypeOK
<1>4. PICK e \in PteType : e = noPte
  BY DEF noPte, PteType
<1>5. e.frame = Null /\ e.mode = "none"
  BY <1>4 DEF noPte
<1>6. /\ pte' \in [Proc -> [Region -> PteType]]
      /\ pte'[p][r] = e
      /\ \A q \in Proc, s \in Region : q # p \/ s # r => pte'[q][s] = pte[q][s]
  <2>1. pte' = MapOne(p, r, e)
    BY <1>4 DEF Dropped
  <2> QED BY <1>0, <2>1, PteOne
<1>7. /\ users'[r] \subseteq {p} /\ \A s \in Region : s # r => users'[s] = users[s]
      /\ \A s \in Region : s # r => (s \in shared' <=> s \in shared)
      /\ r \notin shared'
      /\ users' \in [Region -> SUBSET Proc] /\ shared' \subseteq Region
  BY <1>0, <1>1 DEF TypeOK
<1>8. BlocksExact' /\ blkRefs' \in [Block -> Nat]
  <2>1. CASE pf[r] = "swapped"
    <3>1. blkRefs' = BlkDropped(r)
      BY <2>1 DEF Dropped
    <3> QED BY <1>3, <2>1, <3>1, BlockDropped
  <2>2. CASE pf[r] # "swapped"
    <3>1. blkRefs' = blkRefs
      BY <2>2 DEF Dropped
    <3>2. \A s \in Region : (pf'[s] = "swapped" <=> pf[s] = "swapped")
                              /\ (pf[s] = "swapped" => block'[s] = block[s])
      BY <1>3, <2>2
    <3> QED BY <1>0, <3>1, <3>2, Unpack, BlocksKept DEF TypeOK
  <2> QED BY <2>1, <2>2
<1>9. TypeOK'
  BY <1>0, <1>1, <1>3, <1>6, <1>7, <1>8 DEF TypeOK, PteType
<1>10. \A s \in Region : s # r => Same(s)
  BY <1>3, <1>6, <1>7 DEF Same
<1>11. Page(r)' /\ Writable(r)'
  <2>1. Page(r)
    BY Unpack
  <2>2. \A q \in Proc : q # p => pte[q][r].mode = "none" /\ pte[q][r].frame = Null
    BY <1>1, <2>1 DEF Page
  <2>3. \A q \in Proc : pte'[q][r].mode = "none" /\ pte'[q][r].frame = Null
    BY <1>5, <1>6, <2>2
  <2> QED BY <1>3, <1>7, <2>3 DEF Page, Writable
<1>12. \A s \in Region : Page(s)' /\ Writable(s)'
  BY <1>0, <1>1, <1>10, <1>11, Unpack, PagesKept
<1>13. ASSUME NEW q \in Proc PROVE Faulting(q)'
  <2>1. Faulting(q)
    BY Unpack
  <2>2. pc[q] # idle => pc[q].r # r
    BY <1>1, <2>1 DEF Faulting
  <2> QED BY <1>1, <1>3, <1>7, <2>1, <2>2 DEF Faulting
<1>14. Writing'
  <2> SUFFICES ASSUME swapper # resting
               PROVE  /\ swapper.r \in Region /\ swapper.buf \in Value
                      /\ pf'[swapper.r] = "swapped"
                      /\ \A s \in Region : block'[s] = block'[swapper.r] => s = swapper.r
    BY <1>1 DEF Writing
  <2>1. /\ swapper.r \in Region /\ swapper.buf \in Value /\ pf[swapper.r] = "swapped"
        /\ \A s \in Region : block[s] = block[swapper.r] => s = swapper.r
    BY Unpack DEF Writing
  <2>2. block[swapper.r] # Null /\ swapper.r # r
    BY <1>1, <2>1, Unpack DEF Page, Locked
  <2> QED BY <1>3, <2>1, <2>2
<1>15. \A g \in Frame : ~ Shows(r, g)'
  BY <1>5, <1>6, <1>7, MemoryAssumption DEF Shows
<1>16. \A s \in Region : \A g \in Frame : s # r => (Shows(s, g)' <=> Shows(s, g))
  BY <1>0, <1>10, SameShows
<1>17. \A g \in Frame : Shows(r, g) <=> g = f
  BY <1>0, <1>1, ShowsOne, Unpack
<1>18. Whole' => Whole
  BY <1>1 DEF Whole
<1>19. Whole' => Apart'
  <2> SUFFICES ASSUME Whole', Apart, NEW g \in Frame
               PROVE  /\ \A s \in Region : Shows(s, g)' =>
                           /\ g \notin free'
                           /\ \A q \in Proc : pc'[q].frame # g
                           /\ \A t \in Region : Shows(t, g)' /\ s # t => pf'[s] = "cow"
                      /\ \A q \in Proc : pc'[q].frame = g =>
                           /\ g \notin free'
                           /\ \A u \in Proc : pc'[u].frame = g => u = q
    BY <1>18, Unpack DEF Apart
  <2>1. \A s \in Region : Shows(s, g)' => Shows(s, g) /\ s # r
    BY <1>15, <1>16
  <2>2. CASE g \in free' => g \in free
    BY <1>1, <1>3, <2>1, <2>2 DEF Apart
  <2>3. CASE g \in free' /\ g \notin free
    <3>1. pf[r] = "present" /\ g = f
      BY <1>2, <2>3
    <3>2. Shows(r, g)
      BY <1>17, <3>1
    <3>3. \A s \in Region : ~ Shows(s, g)'
      BY <2>1, <3>1, <3>2 DEF Apart
    <3>4. \A q \in Proc : pc'[q].frame # g
      BY <1>1, <3>2 DEF Apart
    <3> QED BY <3>3, <3>4
  <2> QED BY <2>2, <2>3
<1>20. \A s \in Region : Intact(s)'
  <2> SUFFICES ASSUME NEW s \in Region, Intact(s) PROVE Intact(s)'
    BY Unpack
  <2>1. CASE s = r
    BY <1>3, <2>1 DEF Intact
  <2>2. CASE s # r
    <3>1. users[s] \subseteq Proc
      BY <1>0 DEF TypeOK
    <3> QED BY <1>1, <1>3, <1>6, <1>7, <2>2, <3>1 DEF Intact
  <2> QED BY <2>1, <2>2
<1>21. Whole' /\ "unmap" \notin hurt' => \A g \in Frame : Owned(g)'
  <2> SUFFICES ASSUME Whole', "unmap" \notin hurt', NEW g \in Frame PROVE Owned(g)'
    OBVIOUS
  <2>1. Whole /\ "unmap" \notin hurt /\ Owned(g)
    BY <1>1, <1>18, Unpack
  <2>2. g \in free => g \in free'
    BY <1>2
  <2>3. ASSUME g = f, Shows(r, g) PROVE Owned(g)'
    <3>1. pf[r] \in {"present", "cow"}
      BY <1>0, <2>3, ShowsPresent, Unpack
    <3>2. CASE pf[r] = "present"
      BY <1>2, <2>3, <3>2 DEF Owned
    <3>3. CASE pf[r] = "cow"
      <4>1. cow[f] # 1
        BY <1>2, <3>3
      <4>2. PICK s \in Region : Shows(s, g) /\ s # r
        BY <2>1, <2>3, <3>3, <4>1, AloneOrNot
      <4> QED BY <1>16, <4>2 DEF Owned
    <3> QED BY <3>1, <3>2, <3>3
  <2>4. ASSUME ~ Shows(r, g) PROVE Owned(g)'
    <3>1. \A s \in Region : Shows(s, g) => Shows(s, g)'
      BY <1>16, <2>4
    <3> QED BY <1>1, <2>1, <2>2, <3>1 DEF Owned
  <2> QED BY <1>17, <2>3, <2>4
<1> QED BY <1>1, <1>8, <1>9, <1>12, <1>13, <1>14, <1>19, <1>20, <1>21 DEF MemInv

(* doUnmap() by the last user.                                             *)
LEMMA UnmapLastKeeps ==
  ASSUME MemInv, Whole, NEW p \in Proc, NEW r \in Region, Unmap(p, r), users[r] = {p}
  PROVE  MemInv'
<1>0. TypeOK
  BY DEF MemInv
<1>1. PICK f : f = pte[p][r].frame
  OBVIOUS
<1>2. /\ pc[p] = idle /\ ~ Locked(r)
      /\ users' = [users EXCEPT ![r] = @ \ {p}]
      /\ pte' = [pte EXCEPT ![p][r] = noPte]
      /\ shared' = shared \ {r}
      /\ pf' = [pf EXCEPT ![r] = "none"]
      /\ block' = [block EXCEPT ![r] = Null]
      /\ stored' = [stored EXCEPT ![r] = Null]
      /\ UNCHANGED <<mem, disk, pc, swapper>>
  BY DEF Unmap
<1>3. /\ cow' = IF pf[r] = "cow" THEN CowDrop(f) ELSE cow
      /\ free' = IF pf[r] = "present" THEN free \cup {f} ELSE free
      /\ blkRefs' = IF pf[r] = "swapped" THEN BlkDropped(r) ELSE blkRefs
      /\ hurt' = IF pf[r] = "cow" /\ cow[f] = 1 THEN hurt \cup {"unmap"} ELSE hurt
  BY <1>1 DEF Unmap, BlkDropped
<1>4. users' = [users EXCEPT ![r] = {}]
  BY <1>0, <1>2 DEF TypeOK
<1>5. Dropped(p, r, f)
  BY <1>1, <1>2, <1>3, <1>4 DEF Dropped, MapOne
<1>6. \A s \in Region : s # r => Same(s)
  <2>1. \A q \in Proc, s \in Region : s # r => pte'[q][s] = pte[q][s]
    BY <1>0, <1>2 DEF TypeOK
  <2> QED BY <1>0, <1>2, <2>1 DEF Same, TypeOK
<1>7. pf'[r] = "none"
  BY <1>0, <1>2 DEF TypeOK
<1>8. cow' \in [Frame -> Nat] /\ \A g \in Frame : Covered(g)'
  <2>1. CASE pf[r] = "cow"
    <3>1. f \in Frame /\ Shows(r, f)
      BY <1>1, <2>1, FrameThere
    <3> QED BY <1>3, <1>6, <1>7, <2>1, <3>1, CowDropped
  <2>2. CASE pf[r] # "cow"
    <3>1. \A g \in Frame : Marked(g)' = Marked(g)
      BY <1>0, <1>6, <1>7, <2>2, MarkedKept
    <3>2. cow' = cow /\ hurt' = hurt
      BY <1>3, <2>2
    <3> QED BY <1>0, <3>1, <3>2, CoveredKept, Unpack DEF TypeOK
  <2> QED BY <2>1, <2>2
<1>9. free' \subseteq Frame /\ hurt' \subseteq Damage
  <2>1. pf[r] = "present" => f \in Frame
    BY <1>1, FrameThere
  <2> QED BY <1>0, <1>3, <2>1 DEF TypeOK, Damage
<1> QED BY <1>5, <1>8, <1>9, DroppedKeeps

(* doUnmap() by one of several users.                                      *)
LEMMA UnmapSomeKeeps ==
  ASSUME MemInv, Whole, NEW p \in Proc, NEW r \in Region, Unmap(p, r), users[r] # {p}
  PROVE  MemInv'
<1>0. TypeOK
  BY DEF MemInv
<1>1. /\ pc[p] = idle /\ p \in users[r]
      /\ users' = [users EXCEPT ![r] = @ \ {p}]
      /\ pte' = [pte EXCEPT ![p][r] = noPte]
      /\ UNCHANGED <<shared, pf, block, cow, free, blkRefs, stored, hurt, mem, disk,
                     pc, swapper>>
  BY DEF Unmap
<1>2. Page(r) /\ users[r] \subseteq Proc
  BY <1>0, Unpack DEF TypeOK
<1>3. PICK u \in users[r] : u # p
  BY <1>1
<1>4. r \in shared /\ pf[r] # "cow" /\ pte[u][r].frame = pte[p][r].frame
  BY <1>1, <1>2, <1>3 DEF Page
<1>5. PICK e \in PteType : e = noPte
  BY DEF noPte, PteType
<1>6. e.frame = Null /\ e.mode = "none"
  BY <1>5 DEF noPte
<1>7. /\ pte' \in [Proc -> [Region -> PteType]]
      /\ pte'[p][r] = e
      /\ \A q \in Proc, s \in Region : q # p \/ s # r => pte'[q][s] = pte[q][s]
  <2>1. pte' = MapOne(p, r, e)
    BY <1>1, <1>5 DEF MapOne
  <2> QED BY <1>0, <2>1, PteOne
<1>8. /\ users'[r] = users[r] \ {p} /\ \A s \in Region : s # r => users'[s] = users[s]
      /\ users' \in [Region -> SUBSET Proc]
  BY <1>0, <1>1 DEF TypeOK
<1>9. TypeOK'
  BY <1>0, <1>1, <1>7, <1>8 DEF TypeOK, PteType
<1>10. \A s \in Region : s # r => Same(s)
  BY <1>1, <1>7, <1>8 DEF Same
<1>11. Page(r)'
  <2>1. \A q \in users'[r] : q \in users[r] /\ q # p /\ pte'[q][r] = pte[q][r]
    BY <1>2, <1>7, <1>8
  <2>2. \A q \in Proc : q # p => pte'[q][r] = pte[q][r] /\ (q \in users'[r] <=> q \in users[r])
    BY <1>7, <1>8
  <2>3. ASSUME NEW q \in Proc
        PROVE  /\ pte'[q][r].mode # "none" <=> q \in users'[r] /\ pf[r] \in {"present", "cow"}
               /\ pte'[q][r].frame # Null <=> pte'[q][r].mode # "none"
               /\ pte'[q][r].mode = "rw" => pf[r] = "present"
    <3>1. CASE q = p
      BY <1>6, <1>7, <1>8, <3>1
    <3>2. CASE q # p
      BY <1>2, <2>2, <3>2 DEF Page
    <3> QED BY <3>1, <3>2
  <2>4. \A q, v \in users'[r] : pte'[q][r].frame = pte'[v][r].frame
    BY <1>2, <2>1 DEF Page
  <2>5. users'[r] # {}
    BY <1>3, <1>8
  <2> QED BY <1>1, <1>2, <1>4, <2>3, <2>4, <2>5 DEF Page
<1>12. Writable(r)'
  <2>1. Writable(r)
    BY Unpack
  <2> QED BY <1>1, <1>2, <1>7, <1>8, <2>1 DEF Writable
<1>13. \A s \in Region : Page(s)' /\ Writable(s)'
  BY <1>0, <1>1, <1>10, <1>11, <1>12, Unpack, PagesKept
<1>14. ASSUME NEW q \in Proc PROVE Faulting(q)'
  <2>1. Faulting(q)
    BY Unpack
  <2>2. pc[q] # idle => q # p
    BY <1>1
  <2>3. pc[q] # idle => q \in users'[pc[q].r]
    BY <1>8, <2>1, <2>2 DEF Faulting
  <2> QED BY <1>1, <2>1, <2>3 DEF Faulting
<1>15. Writing'
  BY <1>1, Unpack DEF Writing
<1>16. BlocksExact'
  BY <1>1, Unpack, BlocksKept
<1>17. \A s \in Region : \A g \in Frame : Shows(s, g)' <=> Shows(s, g)
  <2> SUFFICES ASSUME NEW s \in Region, NEW g \in Frame
               PROVE  Shows(s, g)' <=> Shows(s, g)
    OBVIOUS
  <2>1. CASE s = r
    <3>1. Shows(r, g) <=> g = pte[u][r].frame
      BY <1>0, <1>2, ShowsOne
    <3>2. u \in users'[r] /\ pte'[u][r] = pte[u][r]
      BY <1>2, <1>3, <1>7, <1>8
    <3>3. Shows(r, g)' => Shows(r, g)
      BY <1>2, <1>7, <1>8 DEF Shows
    <3> QED BY <2>1, <3>1, <3>2, <3>3 DEF Shows
  <2>2. CASE s # r
    BY <1>0, <1>10, <2>2, SameShows
  <2> QED BY <2>1, <2>2
<1>18. ASSUME NEW g \in Frame PROVE Covered(g)'
  <2>1. Marked(g)' = Marked(g)
    BY <1>1, <1>17 DEF Marked
  <2> QED BY <1>1, <2>1, Unpack, CoveredKept
<1>19. Whole => Apart'
  BY <1>1, <1>17, Unpack DEF Apart
<1>20. Whole => \A s \in Region : Intact(s)'
  <2> SUFFICES ASSUME NEW s \in Region, Intact(s) PROVE Intact(s)'
    BY Unpack
  <2>1. \A q \in users'[s] : q \in users[s] /\ pte'[q][s] = pte[q][s]
    BY <1>0, <1>7, <1>8 DEF TypeOK
  <2> QED BY <1>1, <2>1 DEF Intact
<1>21. Whole /\ "unmap" \notin hurt => \A g \in Frame : Owned(g)'
  BY <1>1, <1>17, Unpack DEF Owned
<1>22. Whole' <=> Whole
  BY <1>1 DEF Whole
<1> QED BY <1>1, <1>9, <1>13, <1>14, <1>15, <1>16, <1>18, <1>19, <1>20, <1>21, <1>22
        DEF MemInv

(* doGrow() by a negative amount.                                          *)
LEMMA ShrinkKeeps ==
  ASSUME MemInv, Whole, NEW p \in Proc, NEW r \in Region, Shrink(p, r)
  PROVE  MemInv'
<1>0. TypeOK
  BY DEF MemInv
<1>1. PICK f : f = pte[p][r].frame
  OBVIOUS
<1>2. /\ pc[p] = idle /\ p \in users[r] /\ r \notin shared /\ ~ Locked(r)
      /\ pte' = [pte EXCEPT ![p][r] = noPte]
      /\ pf' = [pf EXCEPT ![r] = "none"]
      /\ block' = [block EXCEPT ![r] = Null]
      /\ stored' = [stored EXCEPT ![r] = Null]
      /\ UNCHANGED <<users, shared, mem, disk, cow, pc, swapper>>
  BY DEF Shrink, regVars
<1>3. /\ free' = IF pf[r] \in {"present", "cow"} THEN free \cup {f} ELSE free
      /\ blkRefs' = IF pf[r] = "swapped" THEN BlkDropped(r) ELSE blkRefs
      /\ hurt' = IF pf[r] = "cow" THEN hurt \cup {"shrink"} ELSE hurt
  BY <1>1 DEF Shrink, BlkDropped
<1>4. users[r] = {p}
  BY <1>2, Unpack DEF Page
<1>5. pf[r] = "cow" => ~ Whole'
  BY <1>3 DEF Whole, Fatal
<1>6. Dropped(p, r, f)
  BY <1>1, <1>2, <1>3, <1>4, <1>5 DEF Dropped, MapOne
<1>7. \A s \in Region : s # r => Same(s)
  <2>1. \A q \in Proc, s \in Region : s # r => pte'[q][s] = pte[q][s]
    BY <1>0, <1>2 DEF TypeOK
  <2> QED BY <1>0, <1>2, <2>1 DEF Same, TypeOK
<1>8. pf'[r] = "none"
  BY <1>0, <1>2 DEF TypeOK
<1>9. Whole' => \A g \in Frame : Covered(g)'
  <2>1. CASE pf[r] = "cow"
    BY <1>5, <2>1
  <2>2. CASE pf[r] # "cow"
    <3>1. \A g \in Frame : Marked(g)' = Marked(g)
      BY <1>0, <1>7, <1>8, <2>2, MarkedKept
    <3>2. cow' = cow /\ hurt' = hurt
      BY <1>2, <1>3, <2>2
    <3> QED BY <3>1, <3>2, CoveredKept, Unpack
  <2> QED BY <2>1, <2>2
<1>10. /\ free' \subseteq Frame /\ hurt' \subseteq Damage
       /\ cow' \in [Frame -> Nat]
  <2>1. pf[r] \in {"present", "cow"} => f \in Frame
    BY <1>1, <1>2, FrameThere
  <2> QED BY <1>0, <1>2, <1>3, <2>1 DEF TypeOK, Damage, Fatal
<1> QED BY <1>6, <1>9, <1>10, DroppedKeeps

-----------------------------------------------------------------------------
(* Steps that change marks and modes of pages in memory, and no frame.     *)

Remarked ==
  /\ \A q \in Proc, s \in Region :
        /\ pte'[q][s].frame = pte[q][s].frame
        /\ pte'[q][s].mode = "none" <=> pte[q][s].mode = "none"
        /\ pte'[q][s].mode = "rw" => pte[q][s].mode = "rw" /\ pf'[s] = pf[s]
  /\ \A s \in Region : pf'[s] # pf[s] =>
        /\ s \notin shared
        /\ pf[s] \in {"present", "cow"} /\ pf'[s] \in {"present", "cow"}
  /\ UNCHANGED <<users, shared, block, mem, disk, blkRefs, free, pc, swapper, stored>>

LEMMA RemarkedKeeps ==
  ASSUME MemInv, Whole, Remarked, TypeOK', hurt \subseteq hurt',
         "unmap" \in hurt' => "unmap" \in hurt,
         \A s \in Region : Writable(s)',
         Whole' => \A f \in Frame : Covered(f)',
         Whole' => \A s, t \in Region, f \in Frame :
           pf'[s] = "present" /\ Shows(s, f) /\ Shows(t, f) => t = s
  PROVE  MemInv'
<1>0. TypeOK
  BY DEF MemInv
<1>1. /\ \A q \in Proc, s \in Region :
           /\ pte'[q][s].frame = pte[q][s].frame
           /\ pte'[q][s].mode = "none" <=> pte[q][s].mode = "none"
           /\ pte'[q][s].mode = "rw" => pte[q][s].mode = "rw" /\ pf'[s] = pf[s]
      /\ UNCHANGED <<users, shared, block, mem, disk, blkRefs, free, pc, swapper, stored>>
  BY DEF Remarked
<1>2. \A s \in Region : pf'[s] # pf[s] =>
        s \notin shared /\ pf[s] \in {"present", "cow"} /\ pf'[s] \in {"present", "cow"}
  BY DEF Remarked
<1>3. \A s \in Region : users[s] \subseteq Proc
  BY <1>0 DEF TypeOK
<1>4. ASSUME NEW s \in Region PROVE Page(s)'
  <2>1. Page(s)
    BY Unpack
  <2>2. /\ users'[s] = {} => pf'[s] = "none" /\ s \notin shared'
        /\ s \notin shared' => \A u, v \in users'[s] : u = v
        /\ pf'[s] = "cow" => s \notin shared'
        /\ block'[s] # Null <=> pf'[s] = "swapped"
        /\ stored'[s] # Null <=> pf'[s] \notin {"none", "empty"}
    BY <1>1, <1>2, <2>1 DEF Page
  <2>3. pf'[s] \in {"present", "cow"} <=> pf[s] \in {"present", "cow"}
    BY <1>2
  <2>4. ASSUME NEW q \in Proc
        PROVE  /\ pte'[q][s].mode # "none" <=> q \in users'[s] /\ pf'[s] \in {"present", "cow"}
               /\ pte'[q][s].frame # Null <=> pte'[q][s].mode # "none"
               /\ pte'[q][s].mode = "rw" => pf'[s] = "present"
    BY <1>1, <2>1, <2>3 DEF Page
  <2>5. \A u, v \in users'[s] : pte'[u][s].frame = pte'[v][s].frame
    BY <1>1, <1>3, <2>1 DEF Page
  <2> QED BY <2>2, <2>4, <2>5 DEF Page
<1>5. ASSUME NEW s \in Region PROVE Intact(s)'
  <2>1. Intact(s) /\ users'[s] = users[s] /\ stored'[s] = stored[s] /\ block'[s] = block[s]
    BY <1>1, Unpack
  <2>2. CASE pf'[s] = pf[s]
    BY <1>1, <1>3, <2>1, <2>2 DEF Intact
  <2>3. CASE pf'[s] # pf[s]
    <3>1. pf[s] \in {"present", "cow"} /\ pf'[s] \in {"present", "cow"}
      BY <1>2, <2>3
    <3>2. \A q \in users[s] : stored[s] = mem[pte[q][s].frame]
      BY <2>1, <3>1 DEF Intact
    <3> QED BY <1>1, <1>3, <2>1, <3>1, <3>2 DEF Intact
  <2> QED BY <2>2, <2>3
<1>6. \A s \in Region : pf[s] = "swapped" <=> pf'[s] = "swapped"
  BY <1>2
<1>7. ASSUME NEW q \in Proc PROVE Faulting(q)'
  BY <1>1, <1>6, Unpack DEF Faulting
<1>8. Writing'
  BY <1>1, <1>6, Unpack DEF Writing
<1>9. BlocksExact'
  BY <1>1, <1>6, Unpack, BlocksKept
<1>10. \A s \in Region : \A f : Shows(s, f)' <=> Shows(s, f)
  BY <1>1, <1>3 DEF Shows
<1>11. Whole' => Apart'
  <2> SUFFICES ASSUME Whole', NEW g \in Frame
               PROVE  /\ \A s \in Region : Shows(s, g)' =>
                           /\ g \notin free'
                           /\ \A q \in Proc : pc'[q].frame # g
                           /\ \A t \in Region : Shows(t, g)' /\ s # t => pf'[s] = "cow"
                      /\ \A q \in Proc : pc'[q].frame = g =>
                           /\ g \notin free'
                           /\ \A u \in Proc : pc'[u].frame = g => u = q
    BY DEF Apart
  <2>1. Apart
    BY Unpack
  <2>2. ASSUME NEW s \in Region, NEW t \in Region, Shows(s, g), Shows(t, g), s # t
        PROVE  pf'[s] = "cow"
    <3>1. pf[s] = "cow" /\ pf'[s] # "present"
      BY <2>1, <2>2 DEF Apart
    <3> QED BY <1>2, <3>1
  <2> QED BY <1>1, <1>10, <2>1, <2>2 DEF Apart
<1>12. Whole' /\ "unmap" \notin hurt' => \A f \in Frame : Owned(f)'
  BY <1>1, <1>10, Unpack DEF Owned
<1> QED BY <1>4, <1>5, <1>7, <1>8, <1>9, <1>11, <1>12 DEF MemInv

(* A page that is present and not marked has its frame for itself.         *)
LEMMA PresentAlone ==
  ASSUME MemInv, Whole, NEW r \in Region, pf[r] = "present", NEW f \in Frame,
         Shows(r, f)
  PROVE  (\A s \in Region : Shows(s, f) => s = r) /\ Marked(f) = {} /\ cow[f] = 0
<1>1. \A s \in Region : Shows(s, f) => s = r
  BY Unpack DEF Apart
<1>2. Marked(f) = {}
  BY <1>1 DEF Marked
<1> QED BY <1>1, <1>2, FS_EmptySet, Unpack DEF Covered

(* A page that is marked has a reference.                                  *)
LEMMA MarkedCounted ==
  ASSUME MemInv, Whole, NEW r \in Region, pf[r] = "cow", NEW f \in Frame,
         Shows(r, f)
  PROVE  cow[f] \in Nat /\ cow[f] # 0
<1>1. r \in Marked(f) /\ IsFiniteSet(Marked(f)) /\ cow[f] = Cardinality(Marked(f))
  BY Unpack, Counted DEF Marked, Covered
<1> QED BY <1>1, FS_EmptySet, FS_CardinalityType

(* The pages that a failing fork has treated, and their frames.            *)
LEMMA PrivatePage ==
  ASSUME MemInv, NEW p \in Proc, NEW flags \in {"present", "cow"},
         NEW r \in PrivateWith(p, flags)
  PROVE  /\ r \in Region /\ p \in users[r] /\ r \notin shared /\ pf[r] = flags
         /\ users[r] = {p} /\ pte[p][r].frame \in Frame
         /\ pte[p][r].mode \in {"ro", "rw", "super"}
         /\ \A f \in Frame : Shows(r, f) <=> f = pte[p][r].frame
<1>1. r \in Region /\ p \in users[r] /\ r \notin shared /\ pf[r] = flags
  BY DEF PrivateWith, Mine
<1>2. users[r] = {p}
  BY <1>1, Unpack DEF Page
<1> QED BY <1>1, <1>2, FrameThere

(* A page that becomes read-only.                                          *)
LEMMA ReadOnlyType ==
  ASSUME NEW e \in PteType
  PROVE  /\ ReadOnly(e) \in PteType /\ ReadOnly(e).frame = e.frame
         /\ (ReadOnly(e).mode # "none" <=> e.mode # "none")
         /\ ReadOnly(e).mode # "rw"
<1>1. CASE e.mode = "none"
  BY <1>1 DEF ReadOnly, PteType
<1>2. CASE e.mode # "none"
  <2>1. ReadOnly(e) = [frame |-> e.frame, mode |-> "ro"]
    BY <1>2 DEF ReadOnly, PteType
  <2> QED BY <1>2, <2>1 DEF PteType
<1> QED BY <1>1, <1>2

(* The kernel alone may use the page.                                      *)
LEMMA SuperType ==
  ASSUME NEW e \in PteType
  PROVE  /\ [e EXCEPT !.mode = "super"] \in PteType
         /\ [e EXCEPT !.mode = "super"].frame = e.frame
         /\ [e EXCEPT !.mode = "super"].mode = "super"
BY DEF PteType

(* The references behind a fork that failed.                               *)
LEMMA UndoneCounted ==
  ASSUME MemInv, Whole, NEW p \in Proc, NEW kept \in SUBSET PrivateWith(p, "present"),
         NEW undone \in SUBSET PrivateWith(p, "cow"), cow' = CowUndone(p, kept, undone)
  PROVE  /\ cow' \in [Frame -> Nat]
         /\ \A f \in FramesIn(p, kept) : cow'[f] = 1
         /\ \A f \in FramesIn(p, undone) \ FramesIn(p, kept) : cow'[f] = cow[f] - 1
         /\ \A f \in Frame : f \notin FramesIn(p, kept) \cup FramesIn(p, undone)
              => cow'[f] = cow[f]
<1>0. TypeOK
  BY DEF MemInv
<1>1. FramesIn(p, kept) \subseteq Frame /\ FramesIn(p, undone) \subseteq Frame
  BY PrivatePage DEF FramesIn
<1>2. cow' = [f \in Frame |->
        CASE f \in FramesIn(p, kept) -> cow[f] + 1
          [] f \in FramesIn(p, undone) \ FramesIn(p, kept) -> cow[f] - 1
          [] OTHER -> cow[f]]
  BY DEF CowUndone
<1>3. \A f \in Frame : cow[f] \in Nat
  BY <1>0 DEF TypeOK
<1>4. ASSUME NEW f \in FramesIn(p, kept) PROVE cow[f] = 0
  <2>1. PICK r \in kept : f = pte[p][r].frame
    BY DEF FramesIn
  <2> QED BY <1>1, <2>1, PrivatePage, PresentAlone
<1>5. ASSUME NEW f \in FramesIn(p, undone) PROVE cow[f] # 0
  <2>1. PICK r \in undone : f = pte[p][r].frame
    BY DEF FramesIn
  <2> QED BY <1>1, <2>1, PrivatePage, MarkedCounted
<1>6. \A f \in FramesIn(p, kept) : cow'[f] = cow[f] + 1
  BY <1>1, <1>2
<1>7. \A f \in FramesIn(p, undone) \ FramesIn(p, kept) : cow'[f] = cow[f] - 1
  BY <1>1, <1>2
<1>8. \A f \in Frame : f \notin FramesIn(p, kept) \cup FramesIn(p, undone)
        => cow'[f] = cow[f]
  BY <1>2
<1>9. \A f \in FramesIn(p, kept) : cow'[f] = 1
  BY <1>4, <1>6
<1>10. \A f \in Frame : cow'[f] \in Nat
  <2> SUFFICES ASSUME NEW f \in Frame PROVE cow'[f] \in Nat
    OBVIOUS
  <2>1. CASE f \in FramesIn(p, kept)
    BY <1>9, <2>1
  <2>2. CASE f \in FramesIn(p, undone) \ FramesIn(p, kept)
    <3>1. cow'[f] = cow[f] - 1 /\ cow[f] # 0 /\ cow[f] \in Nat
      BY <1>3, <1>5, <1>7, <2>2
    <3> QED BY <3>1
  <2>3. CASE f \notin FramesIn(p, kept) \cup FramesIn(p, undone)
    BY <1>3, <1>8, <2>3
  <2> QED BY <2>1, <2>2, <2>3
<1>11. cow' \in [Frame -> Nat]
  BY <1>2, <1>10
<1> QED BY <1>7, <1>8, <1>9, <1>11

(* A fork that fails.                                                      *)
LEMMA ForkFailsKeeps ==
  ASSUME MemInv, Whole, NEW p \in Proc, NEW kept, NEW bare, NEW undone,
         ForkFails(p, kept, bare, undone)
  PROVE  MemInv'
<1>0. TypeOK
  BY DEF MemInv
<1>1. PICK still : still = {r \in undone : cow[pte[p][r].frame] > 1}
  OBVIOUS
<1>2. /\ kept \subseteq PrivateWith(p, "present") /\ bare \subseteq PrivateWith(p, "present")
      /\ undone \subseteq PrivateWith(p, "cow") /\ (undone # {} => bare # {})
  BY DEF ForkFails
<1>3. /\ pf' = [r \in Region |-> CASE r \in kept -> "cow"
                                    [] r \in undone \ still -> "present"
                                    [] OTHER -> pf[r]]
      /\ cow' = CowUndone(p, kept, undone)
      /\ pte' = [pte EXCEPT ![p] = [r \in Region |->
                   IF r \in kept \cup bare THEN ReadOnly(pte[p][r]) ELSE pte[p][r]]]
      /\ hurt' = (hurt \cup (IF bare # {} THEN {"fork"} ELSE {}))
                      \cup (IF still # {} THEN {"undo"} ELSE {})
      /\ UNCHANGED <<users, shared, block, mem, disk, blkRefs, free, pc, swapper, stored>>
  BY <1>1 DEF ForkFails, regVars
<1>4. \A r \in kept \cup bare : r \in PrivateWith(p, "present") /\ r \in Region
        /\ pf[r] = "present" /\ r \notin shared /\ r \notin undone
  BY <1>2, PrivatePage
<1>5. \A r \in undone : r \in PrivateWith(p, "cow") /\ r \in Region /\ pf[r] = "cow"
        /\ r \notin shared
  BY <1>2, PrivatePage
<1>6. /\ \A r \in kept : pf'[r] = "cow"
      /\ \A r \in undone \ still : pf'[r] = "present"
      /\ \A r \in Region : r \notin kept \cup (undone \ still) => pf'[r] = pf[r]
      /\ pf' \in [Region -> {"none", "demand", "present", "cow", "swapped", "empty"}]
  <2>1. pf \in [Region -> {"none", "demand", "present", "cow", "swapped", "empty"}]
    BY <1>0 DEF TypeOK
  <2> QED BY <1>3, <1>4, <1>5, <2>1
<1>7. /\ pte \in [Proc -> [Region -> PteType]]
      /\ \A r \in kept \cup bare : pte[p][r] \in PteType /\ pte[p][r].mode # "none"
  BY <1>0, <1>4, PrivatePage DEF TypeOK, PteType
<1>8. \A r \in kept \cup bare :
        /\ ReadOnly(pte[p][r]) \in PteType /\ ReadOnly(pte[p][r]).frame = pte[p][r].frame
        /\ ReadOnly(pte[p][r]).mode \notin {"none", "rw"}
  BY <1>7, ReadOnlyType
<1>9. /\ pte' \in [Proc -> [Region -> PteType]]
      /\ \A r \in kept \cup bare : pte'[p][r] = ReadOnly(pte[p][r])
      /\ \A q \in Proc, s \in Region : q # p \/ s \notin kept \cup bare => pte'[q][s] = pte[q][s]
  <2>1. PICK tab : tab = [r \in Region |->
                     IF r \in kept \cup bare THEN ReadOnly(pte[p][r]) ELSE pte[p][r]]
    OBVIOUS
  <2>2. tab \in [Region -> PteType]
    BY <1>7, <1>8, <2>1
  <2>3. pte' = [pte EXCEPT ![p] = tab]
    BY <1>3, <2>1
  <2>4. pte'[p] = tab /\ pte' \in [Proc -> [Region -> PteType]]
          /\ \A q \in Proc : q # p => pte'[q] = pte[q]
    BY <1>7, <2>2, <2>3
  <2>5. \A r \in Region : r \in kept \cup bare => pte'[p][r] = ReadOnly(pte[p][r])
    BY <2>1, <2>4
  <2>6. \A r \in Region : r \notin kept \cup bare => pte'[p][r] = pte[p][r]
    BY <2>1, <2>4
  <2> QED BY <1>4, <2>4, <2>5, <2>6
<1>10. Remarked
  <2>1. ASSUME NEW q \in Proc, NEW s \in Region
        PROVE  /\ pte'[q][s].frame = pte[q][s].frame
               /\ pte'[q][s].mode = "none" <=> pte[q][s].mode = "none"
               /\ pte'[q][s].mode = "rw" => pte[q][s].mode = "rw" /\ pf'[s] = pf[s]
    <3>1. CASE q = p /\ s \in kept \cup bare
      BY <1>7, <1>8, <1>9, <3>1
    <3>2. CASE q # p \/ s \notin kept \cup bare
      <4>1. pte'[q][s] = pte[q][s]
        BY <1>9, <3>2
      <4>2. ASSUME pte[q][s].mode = "rw" PROVE pf'[s] = pf[s]
        <5>1. pf[s] = "present" /\ q \in users[s]
          BY <4>2, Unpack DEF Page
        <5>2. s \in kept => q = p
          BY <1>2, <5>1, PrivatePage
        <5>3. s \notin kept /\ s \notin undone
          BY <1>5, <3>2, <5>1, <5>2
        <5> QED BY <1>6, <5>3
      <4> QED BY <4>1, <4>2
    <3> QED BY <3>1, <3>2
  <2>2. ASSUME NEW s \in Region, pf'[s] # pf[s]
        PROVE  s \notin shared /\ pf[s] \in {"present", "cow"} /\ pf'[s] \in {"present", "cow"}
    BY <1>4, <1>5, <1>6, <2>2
  <2> QED BY <1>3, <2>1, <2>2 DEF Remarked
<1>11. kept \in SUBSET PrivateWith(p, "present") /\ undone \in SUBSET PrivateWith(p, "cow")
  BY <1>2
<1>12. /\ cow' \in [Frame -> Nat]
       /\ \A f \in FramesIn(p, kept) : cow'[f] = 1
       /\ \A f \in FramesIn(p, undone) \ FramesIn(p, kept) : cow'[f] = cow[f] - 1
       /\ \A f \in Frame : f \notin FramesIn(p, kept) \cup FramesIn(p, undone)
            => cow'[f] = cow[f]
  BY <1>3, <1>11, UndoneCounted
<1>13. /\ hurt \subseteq hurt' /\ hurt' \subseteq Damage
       /\ ("unmap" \in hurt' => "unmap" \in hurt)
       /\ (Whole' => still = {}) /\ (bare # {} => "fork" \in hurt')
  <2>1. hurt \subseteq Damage /\ {"fork", "undo"} \subseteq Damage /\ "undo" \in Fatal
    BY <1>0 DEF TypeOK, Damage, Fatal
  <2> QED BY <1>3, <2>1 DEF Whole
<1>14. TypeOK'
  BY <1>0, <1>3, <1>6, <1>9, <1>12, <1>13 DEF TypeOK, PteType
<1>15. ASSUME NEW s \in Region PROVE Writable(s)'
  <2>1. CASE bare # {}
    BY <1>13, <2>1 DEF Writable
  <2>2. CASE bare = {}
    <3>1. undone = {}
      BY <1>2, <2>2
    <3>2. pf'[s] = "present" => pf[s] = "present" /\ s \notin kept \cup bare
      BY <1>6, <2>2, <3>1
    <3>3. \A q \in Proc : s \notin kept \cup bare => pte'[q][s] = pte[q][s]
      BY <1>9
    <3>4. Writable(s) /\ users' = users /\ users[s] \subseteq Proc
      BY <1>0, <1>3, Unpack DEF TypeOK
    <3>5. Whole' /\ "fork" \notin hurt' => Whole /\ "fork" \notin hurt
      BY <1>13
    <3> QED BY <3>2, <3>3, <3>4, <3>5 DEF Writable
  <2> QED BY <2>1, <2>2
<1>16. \A s \in Region : \A f : Shows(s, f)' <=> Shows(s, f)
  <2>1. \A s \in Region : users[s] \subseteq Proc
    BY <1>0 DEF TypeOK
  <2> QED BY <1>10, <2>1 DEF Remarked, Shows
<1>17. ASSUME Whole', NEW r \in undone, NEW f \in Frame, Shows(r, f)
       PROVE  cow[f] = 1 /\ \A s \in Region : Shows(s, f) => s = r
  <2>1. f = pte[p][r].frame /\ r \in Region /\ pf[r] = "cow"
    BY <1>5, <1>17, PrivatePage
  <2>2. ~ (cow[f] > 1)
    BY <1>1, <1>13, <1>17, <2>1
  <2>3. cow[f] \in Nat /\ cow[f] # 0
    BY <1>17, <2>1, MarkedCounted
  <2>4. cow[f] = 1
    BY <2>2, <2>3
  <2> QED BY <1>17, <2>1, <2>4, AloneOrNot
<1>18. ASSUME Whole', NEW s \in Region, NEW t \in Region, NEW f \in Frame,
              pf'[s] = "present", Shows(s, f), Shows(t, f)
       PROVE  t = s
  <2>1. CASE s \in undone
    BY <1>17, <1>18, <2>1
  <2>2. CASE s \notin undone
    <3>1. pf[s] = "present"
      BY <1>6, <1>18, <2>2
    <3> QED BY <1>18, <3>1, PresentAlone
  <2> QED BY <2>1, <2>2
<1>19. ASSUME Whole', NEW f \in Frame PROVE Covered(f)'
  <2>1. CASE f \in FramesIn(p, kept)
    <3>1. PICK r \in kept : f = pte[p][r].frame
      BY <2>1 DEF FramesIn
    <3>2. r \in Region /\ pf[r] = "present" /\ Shows(r, f)
      BY <1>4, <3>1, PrivatePage
    <3>3. \A s \in Region : Shows(s, f) => s = r
      BY <3>2, PresentAlone
    <3>4. Marked(f)' = {r}
      BY <1>6, <1>16, <3>2, <3>3 DEF Marked
    <3>5. Cardinality(Marked(f)') = 1
      BY <3>4, FS_Singleton
    <3> QED BY <1>12, <2>1, <3>5 DEF Covered
  <2>2. CASE f \in FramesIn(p, undone) \ FramesIn(p, kept)
    <3>1. PICK r \in undone : f = pte[p][r].frame
      BY <2>2 DEF FramesIn
    <3>2. r \in Region /\ pf[r] = "cow" /\ Shows(r, f)
      BY <1>5, <3>1, PrivatePage
    <3>3. cow[f] = 1 /\ \A s \in Region : Shows(s, f) => s = r
      BY <1>17, <1>19, <3>2
    <3>4. pf'[r] = "present"
      BY <1>6, <1>13, <1>19, <3>1
    <3>5. Marked(f)' = {}
      BY <1>16, <3>3, <3>4 DEF Marked
    <3>6. Cardinality(Marked(f)') = 0
      BY <3>5, FS_EmptySet
    <3>7. cow'[f] = 0
      BY <1>12, <2>2, <3>3
    <3> QED BY <3>6, <3>7 DEF Covered
  <2>3. CASE f \notin FramesIn(p, kept) \cup FramesIn(p, undone)
    <3>1. ASSUME NEW s \in Region, Shows(s, f) PROVE pf'[s] = pf[s]
      <4>1. s \in kept \cup undone => f = pte[p][s].frame
        BY <1>4, <1>5, <3>1, PrivatePage
      <4>2. s \notin kept \cup undone
        BY <2>3, <4>1 DEF FramesIn
      <4> QED BY <1>6, <4>2
    <3>2. Marked(f)' = Marked(f)
      BY <1>16, <3>1 DEF Marked
    <3>3. cow'[f] = cow[f] /\ Covered(f)
      BY <1>12, <2>3, Unpack
    <3> QED BY <1>13, <3>2, <3>3, CoveredKept
  <2> QED BY <2>1, <2>2, <2>3
<1> QED BY <1>10, <1>13, <1>14, <1>15, <1>18, <1>19, RemarkedKeeps

(* PageTables::clone() fails.                                              *)
LEMMA CloneFailsKeeps ==
  ASSUME MemInv, Whole, NEW p \in Proc, NEW kept, NEW done, CloneFails(p, kept, done)
  PROVE  MemInv'
<1>0. TypeOK
  BY DEF MemInv
<1>1. /\ kept \in SUBSET PrivateWith(p, "present") /\ kept \cap done = {}
      /\ done \subseteq PrivateWith(p, "present") \cup PrivateWith(p, "cow")
      /\ pf' = [r \in Region |-> IF r \in kept THEN "cow" ELSE pf[r]]
      /\ cow' = CowUndone(p, kept, {})
      /\ hurt' = hurt \cup {"clone"}
      /\ UNCHANGED <<users, shared, block, mem, disk, blkRefs, free, pc, swapper, stored>>
  BY DEF CloneFails, regVars
<1>2. PICK tab : /\ pte' = [pte EXCEPT ![p] = tab]
                 /\ tab = [r \in Region |->
                      CASE r \in kept -> ReadOnly(pte[p][r])
                        [] r \in done -> [pte[p][r] EXCEPT !.mode = "super"]
                        [] OTHER      -> pte[p][r]]
  BY DEF CloneFails
<1>3. \A r \in kept : r \in Region /\ pf[r] = "present" /\ r \notin shared /\ users[r] = {p}
        /\ pte[p][r].mode # "none"
  BY <1>1, PrivatePage
<1>4. \A r \in done : r \in Region /\ pte[p][r].mode # "none"
  BY <1>1, PrivatePage
<1>5. /\ pte \in [Proc -> [Region -> PteType]]
      /\ \A r \in kept \cup done : pte[p][r] \in PteType
  BY <1>0, <1>3, <1>4 DEF TypeOK, PteType
<1>6. ASSUME NEW r \in Region
      PROVE  /\ tab[r] \in PteType /\ tab[r].frame = pte[p][r].frame
             /\ tab[r].mode = "none" <=> pte[p][r].mode = "none"
             /\ tab[r].mode = "rw" => pte[p][r].mode = "rw" /\ r \notin kept
  <2>1. CASE r \in kept
    <3>1. tab[r] = ReadOnly(pte[p][r])
      BY <1>1, <1>2, <2>1
    <3> QED BY <1>3, <1>5, <2>1, <3>1, ReadOnlyType
  <2>2. CASE r \in done
    <3>1. tab[r] = [pte[p][r] EXCEPT !.mode = "super"]
      BY <1>1, <1>2, <2>2
    <3> QED BY <1>1, <1>4, <1>5, <2>2, <3>1, SuperType
  <2>3. CASE r \notin kept \cup done
    <3>1. tab[r] = pte[p][r]
      BY <1>2, <2>3
    <3> QED BY <1>5, <2>3, <3>1
  <2> QED BY <2>1, <2>2, <2>3
<1>7. tab \in [Region -> PteType]
  BY <1>2, <1>6
<1>8. /\ pte' \in [Proc -> [Region -> PteType]] /\ pte'[p] = tab
      /\ \A q \in Proc : q # p => pte'[q] = pte[q]
  BY <1>2, <1>5, <1>7
<1>9. /\ \A r \in kept : pf'[r] = "cow"
      /\ \A r \in Region : r \notin kept => pf'[r] = pf[r]
      /\ pf' \in [Region -> {"none", "demand", "present", "cow", "swapped", "empty"}]
  BY <1>0, <1>1, <1>3 DEF TypeOK
<1>10. Remarked
  <2>1. ASSUME NEW q \in Proc, NEW s \in Region
        PROVE  /\ pte'[q][s].frame = pte[q][s].frame
               /\ pte'[q][s].mode = "none" <=> pte[q][s].mode = "none"
               /\ pte'[q][s].mode = "rw" => pte[q][s].mode = "rw" /\ pf'[s] = pf[s]
    <3>1. CASE q = p
      BY <1>6, <1>8, <1>9, <3>1
    <3>2. CASE q # p
      <4>1. pte'[q][s] = pte[q][s]
        BY <1>8, <3>2
      <4>2. pte[q][s].mode = "rw" => q \in users[s]
        BY Unpack DEF Page
      <4>3. pte[q][s].mode = "rw" => s \notin kept
        BY <1>3, <3>2, <4>2
      <4> QED BY <1>9, <4>1, <4>3
    <3> QED BY <3>1, <3>2
  <2>2. ASSUME NEW s \in Region, pf'[s] # pf[s]
        PROVE  s \notin shared /\ pf[s] \in {"present", "cow"} /\ pf'[s] \in {"present", "cow"}
    BY <1>3, <1>9, <2>2
  <2> QED BY <1>1, <2>1, <2>2 DEF Remarked
<1>11. cow' \in [Frame -> Nat]
  <2>1. {} \in SUBSET PrivateWith(p, "cow")
    OBVIOUS
  <2> QED BY <1>1, <2>1, UndoneCounted
<1>12. /\ hurt \subseteq hurt' /\ hurt' \subseteq Damage /\ ~ Whole'
       /\ ("unmap" \in hurt' => "unmap" \in hurt)
  BY <1>0, <1>1 DEF TypeOK, Damage, Fatal, Whole
<1>13. TypeOK'
  BY <1>0, <1>1, <1>8, <1>9, <1>11, <1>12 DEF TypeOK, PteType
<1>14. \A s \in Region : Writable(s)'
  BY <1>12 DEF Writable
<1> QED BY <1>10, <1>12, <1>13, <1>14, RemarkedKeeps

-----------------------------------------------------------------------------
(* doGrow() by a positive amount.                                          *)

LEMMA GrowKeeps ==
  ASSUME MemInv, Whole, NEW p \in Proc, NEW r \in Region, Grow(p, r)
  PROVE  MemInv'
<1>0. TypeOK
  BY DEF MemInv
<1>1. PICK f \in free :
        /\ free' = free \ {f}
        /\ pte' = [pte EXCEPT ![p][r] = [frame |-> f, mode |-> "rw"]]
        /\ stored' = [stored EXCEPT ![r] = mem[f]]
  BY DEF Grow
<1>2. /\ pc[p] = idle /\ users[r] \subseteq {p} /\ r \notin shared /\ pf[r] = "none"
      /\ users' = [users EXCEPT ![r] = {p}]
      /\ pf' = [pf EXCEPT ![r] = "present"]
      /\ UNCHANGED <<shared, block, mem, disk, cow, blkRefs, pc, swapper, hurt>>
  BY DEF Grow
<1>3. f \in Frame /\ f # Null /\ mem[f] \in Value /\ mem[f] # Null
  BY <1>0, MemoryAssumption DEF TypeOK
<1>4. PICK e \in PteType : e = [frame |-> f, mode |-> "rw"]
  BY <1>3 DEF PteType
<1>5. e.frame = f /\ e.mode = "rw"
  BY <1>4
<1>6. /\ pte' \in [Proc -> [Region -> PteType]] /\ pte'[p][r] = e
      /\ \A q \in Proc, s \in Region : q # p \/ s # r => pte'[q][s] = pte[q][s]
  <2>1. pte' = MapOne(p, r, e)
    BY <1>1, <1>4 DEF MapOne
  <2> QED BY <1>0, <2>1, PteOne
<1>7. /\ users'[r] = {p} /\ pf'[r] = "present" /\ stored'[r] = mem[f]
      /\ \A s \in Region : s # r =>
           users'[s] = users[s] /\ pf'[s] = pf[s] /\ stored'[s] = stored[s]
  BY <1>0, <1>1, <1>2 DEF TypeOK
<1>8. \A s \in Region : s # r => Same(s)
  BY <1>2, <1>6, <1>7 DEF Same
<1>9. TypeOK'
  BY <1>0, <1>1, <1>2, <1>3, <1>6 DEF TypeOK, PteType
<1>10. /\ Page(r) /\ block[r] = Null
       /\ \A q \in Proc : pte[q][r].mode = "none" /\ pte[q][r].frame = Null
  BY <1>2, Unpack DEF Page
<1>11. Page(r)' /\ Writable(r)'
  <2>1. ASSUME NEW q \in Proc
        PROVE  /\ pte'[q][r].mode # "none" <=> q \in users'[r] /\ pf'[r] \in {"present", "cow"}
               /\ pte'[q][r].frame # Null <=> pte'[q][r].mode # "none"
               /\ pte'[q][r].mode = "rw" => pf'[r] = "present"
    <3>1. CASE q = p
      BY <1>3, <1>5, <1>6, <1>7, <3>1
    <3>2. CASE q # p
      BY <1>6, <1>7, <1>10, <3>2
    <3> QED BY <3>1, <3>2
  <2>2. block'[r] = Null /\ r \notin shared' /\ stored'[r] # Null
    BY <1>2, <1>3, <1>7, <1>10
  <2>3. \A q \in users'[r] : q = p /\ pte'[q][r].mode = "rw"
    BY <1>5, <1>6, <1>7
  <2> QED BY <1>7, <2>1, <2>2, <2>3 DEF Page, Writable
<1>12. \A s \in Region : Page(s)' /\ Writable(s)'
  BY <1>0, <1>2, <1>8, <1>11, Unpack, PagesKept
<1>13. ASSUME NEW q \in Proc PROVE Faulting(q)'
  <2>1. Faulting(q)
    BY Unpack
  <2>2. pc[q] # idle => pc[q].r # r
    BY <1>2, <2>1 DEF Faulting
  <2> QED BY <1>2, <1>7, <2>1, <2>2 DEF Faulting
<1>14. Writing'
  <2>1. swapper # resting => swapper.r # r
    BY <1>2, Unpack DEF Writing
  <2> QED BY <1>2, <1>7, <2>1, Unpack DEF Writing
<1>15. BlocksExact'
  <2>1. \A s \in Region : pf'[s] = "swapped" <=> pf[s] = "swapped"
    BY <1>2, <1>7
  <2> QED BY <1>2, <2>1, Unpack, BlocksKept
<1>16. ASSUME NEW g \in Frame PROVE Covered(g)'
  <2>1. Marked(g)' = Marked(g)
    BY <1>0, <1>2, <1>7, <1>8, MarkedKept
  <2> QED BY <1>2, <2>1, Unpack, CoveredKept
<1>17. \A g \in Frame : ~ Shows(r, g)
  BY <1>2, FrameGone
<1>18. \A g \in Frame : Shows(r, g)' <=> g = f
  BY <1>5, <1>6, <1>7 DEF Shows
<1>19. \A s \in Region : \A g \in Frame : s # r => (Shows(s, g)' <=> Shows(s, g))
  BY <1>0, <1>8, SameShows
<1>20. Apart'
  <2> SUFFICES ASSUME NEW g \in Frame
               PROVE  /\ \A s \in Region : Shows(s, g)' =>
                           /\ g \notin free'
                           /\ \A q \in Proc : pc'[q].frame # g
                           /\ \A t \in Region : Shows(t, g)' /\ s # t => pf'[s] = "cow"
                      /\ \A q \in Proc : pc'[q].frame = g =>
                           /\ g \notin free'
                           /\ \A u \in Proc : pc'[u].frame = g => u = q
    BY DEF Apart
  <2>0. Apart
    BY Unpack
  <2>1. CASE g = f
    <3>1. \A q \in Proc : pc[q].frame # g
      BY <2>0, <2>1 DEF Apart
    <3>2. \A s \in Region : ~ Shows(s, g)
      BY <2>0, <2>1 DEF Apart
    <3>3. \A s \in Region : Shows(s, g)' => s = r
      BY <1>19, <3>2
    <3> QED BY <1>1, <1>2, <2>1, <3>1, <3>3
  <2>2. CASE g # f
    <3>1. \A s \in Region : Shows(s, g)' => Shows(s, g) /\ s # r
      BY <1>18, <1>19, <2>2
    <3>2. g \in free' => g \in free
      BY <1>1
    <3> QED BY <1>2, <1>7, <2>0, <3>1, <3>2 DEF Apart
  <2> QED BY <2>1, <2>2
<1>21. ASSUME NEW s \in Region PROVE Intact(s)'
  <2>1. CASE s = r
    BY <1>2, <1>5, <1>6, <1>7, <2>1 DEF Intact
  <2>2. CASE s # r
    <3>1. Intact(s) /\ Same(s) /\ users[s] \subseteq Proc
      BY <1>0, <1>8, <2>2, Unpack DEF TypeOK
    <3> QED BY <1>2, <3>1 DEF Intact, Same
  <2> QED BY <2>1, <2>2
<1>22. "unmap" \notin hurt => \A g \in Frame : Owned(g)'
  <2> SUFFICES ASSUME NEW g \in Frame, Owned(g) PROVE Owned(g)'
    BY Unpack
  <2>1. CASE g = f
    BY <1>18, <2>1 DEF Owned
  <2>2. CASE g # f
    <3>1. g \in free => g \in free'
      BY <1>1, <2>2
    <3>2. \A s \in Region : Shows(s, g) => Shows(s, g)'
      BY <1>17, <1>19
    <3> QED BY <1>2, <3>1, <3>2 DEF Owned
  <2> QED BY <2>1, <2>2
<1> QED BY <1>2, <1>9, <1>12, <1>13, <1>14, <1>15, <1>16, <1>20, <1>21, <1>22 DEF MemInv

LEMMA GrowFailsKeeps ==
  ASSUME MemInv, Whole, NEW p \in Proc, NEW r \in Region, GrowFails(p, r)
  PROVE  MemInv'
<1>0. TypeOK
  BY DEF MemInv
<1>1. /\ pc[p] = idle /\ users[r] \subseteq {p} /\ r \notin shared /\ pf[r] = "none"
      /\ free' \subseteq free
      /\ users' = [users EXCEPT ![r] = {p}]
      /\ pf' = [pf EXCEPT ![r] = "empty"]
      /\ hurt' = hurt \cup {"grow"}
      /\ UNCHANGED <<shared, block, pte, mem, disk, cow, blkRefs, pc, swapper, stored>>
  BY DEF GrowFails
<1>2. /\ users'[r] = {p} /\ pf'[r] = "empty"
      /\ \A s \in Region : s # r => users'[s] = users[s] /\ pf'[s] = pf[s]
  BY <1>0, <1>1 DEF TypeOK
<1>3. \A s \in Region : s # r => Same(s)
  BY <1>1, <1>2 DEF Same
<1>4. hurt \subseteq hurt' /\ hurt' \subseteq Damage /\ ~ Whole'
  BY <1>0, <1>1 DEF TypeOK, Damage, Fatal, Whole
<1>5. TypeOK'
  BY <1>0, <1>1, <1>4 DEF TypeOK
<1>6. /\ block[r] = Null /\ stored[r] = Null
      /\ \A q \in Proc : pte[q][r].mode = "none" /\ pte[q][r].frame = Null
  BY <1>1, Unpack DEF Page
<1>7. Page(r)' /\ Writable(r)'
  BY <1>1, <1>2, <1>6 DEF Page, Writable
<1>8. \A s \in Region : Page(s)' /\ Writable(s)'
  BY <1>0, <1>3, <1>4, <1>7, Unpack, PagesKept
<1>9. ASSUME NEW q \in Proc PROVE Faulting(q)'
  <2>1. Faulting(q)
    BY Unpack
  <2>2. pc[q] # idle => pc[q].r # r
    BY <1>1, <2>1 DEF Faulting
  <2> QED BY <1>1, <1>2, <2>1, <2>2 DEF Faulting
<1>10. Writing'
  <2>1. swapper # resting => swapper.r # r
    BY <1>1, Unpack DEF Writing
  <2> QED BY <1>1, <1>2, <2>1, Unpack DEF Writing
<1>11. BlocksExact'
  <2>1. \A s \in Region : pf'[s] = "swapped" <=> pf[s] = "swapped"
    BY <1>1, <1>2
  <2> QED BY <1>1, <2>1, Unpack, BlocksKept
<1>12. ASSUME NEW s \in Region PROVE Intact(s)'
  <2>1. CASE s = r
    BY <1>2, <2>1 DEF Intact
  <2>2. CASE s # r
    BY <1>1, <1>2, <2>2, Unpack DEF Intact
  <2> QED BY <2>1, <2>2
<1> QED BY <1>4, <1>5, <1>8, <1>9, <1>10, <1>11, <1>12 DEF MemInv

-----------------------------------------------------------------------------
(* cloneAll().                                                             *)

(* As many copies as originals.                                            *)
LEMMA CopyCount ==
  ASSUME NEW S, IsFiniteSet(S), NEW copy,
         \A r, t \in S : copy[r] = copy[t] => r = t
  PROVE  /\ IsFiniteSet({copy[r] : r \in S})
         /\ Cardinality({copy[r] : r \in S}) = Cardinality(S)
<1> DEFINE T == {copy[r] : r \in S}
           F == [r \in S |-> copy[r]]
<1>1. F \in [S -> T] /\ \A r, t \in S : F[r] = F[t] => r = t
  OBVIOUS
<1>2. \A x \in T : \E r \in S : F[r] = x
  OBVIOUS
<1>3. F \in Bijection(S, T)
  BY <1>1, <1>2 DEF Bijection, Injection, Surjection, IsInjective
<1>4. ExistsBijection(S, T)
  BY <1>3 DEF ExistsBijection
<1> QED BY <1>4, FS_Bijection

(* Two sets without a common element.                                      *)
LEMMA CountBoth ==
  ASSUME NEW S, NEW T, IsFiniteSet(S), IsFiniteSet(T), \A x \in S : x \notin T
  PROVE  /\ IsFiniteSet(S \cup T)
         /\ Cardinality(S \cup T) = Cardinality(S) + Cardinality(T)
<1>1. S \cap T = {}
  OBVIOUS
<1>2. Cardinality(S) \in Nat /\ Cardinality(T) \in Nat /\ Cardinality({}) = 0
  BY FS_CardinalityType, FS_EmptySet
<1>3. IsFiniteSet(S \cup T)
  BY FS_Union
<1>4. Cardinality(S \cup T) = Cardinality(S) + Cardinality(T) - Cardinality(S \cap T)
  BY FS_Union
<1>5. Cardinality(S \cap T) = 0
  BY <1>1, <1>2
<1> QED BY <1>2, <1>3, <1>4, <1>5

(* The flags of a page after the fork, in the parent and in the child.     *)
Mark(flags) == IF flags = "present" THEN "cow" ELSE flags

(* The private regions of p are copied, the others are joined.             *)
Parts(p, q, priv, join, copy) ==
  /\ \A s \in Region : s \in priv <=> p \in users[s] /\ s \notin shared
  /\ \A s \in Region : s \in join <=> p \in users[s] /\ s \in shared
  /\ priv \subseteq Region /\ join \subseteq Region
  /\ \A s \in Region : q \notin users[s]
  /\ \A r \in priv : copy[r] \in Region /\ users[copy[r]] = {}
  /\ \A r, t \in priv : copy[r] = copy[t] => r = t
  /\ \A r \in priv \cup join : ~ Locked(r)

Parent(p, r) ==
  /\ users'[r] = users[r] /\ pf'[r] = Mark(pf[r]) /\ block'[r] = block[r]
  /\ stored'[r] = stored[r] /\ pte'[p][r] = ReadOnly(pte[p][r])
  /\ \A u \in Proc : u # p => pte'[u][r] = pte[u][r]
Child(p, q, r, s) ==
  /\ users'[s] = {q} /\ pf'[s] = Mark(pf[r]) /\ block'[s] = block[r]
  /\ stored'[s] = stored[r] /\ pte'[q][s] = ReadOnly(pte[p][r])
  /\ \A u \in Proc : u # q => pte'[u][s] = pte[u][s]
Joined(p, q, s) ==
  /\ users'[s] = users[s] \cup {q} /\ pf'[s] = pf[s] /\ block'[s] = block[s]
  /\ stored'[s] = stored[s] /\ pte'[q][s] = pte[p][s]
  /\ \A u \in Proc : u # q => pte'[u][s] = pte[u][s]

Cloned(p, q, priv, join, copy) ==
  /\ \A r \in priv : Parent(p, r) /\ Child(p, q, r, copy[r])
  /\ \A s \in join : Joined(p, q, s)
  /\ \A s \in Region : s \notin priv \cup join /\ (\A r \in priv : copy[r] # s)
       => Same(s)
  /\ blkRefs' = BlkAdded(priv) /\ cow' = CowAdded(priv, p)
  /\ UNCHANGED <<shared, mem, disk, free, pc, swapper, hurt>>

(* What Fork does, region by region.                                       *)
LEMMA ForkEffects ==
  ASSUME MemInv, NEW p \in Proc, NEW q \in Proc, NEW copy \in Copies(p),
         Fork(p, q, copy)
  PROVE  \E priv, join :
           /\ Parts(p, q, priv, join, copy)
           /\ Cloned(p, q, priv, join, copy)
           /\ pte' \in [Proc -> [Region -> PteType]]
           /\ users' = [s \in Region |-> users'[s]] /\ pf' = [s \in Region |-> pf'[s]]
           /\ block' = [s \in Region |-> block'[s]] /\ stored' = [s \in Region |-> stored'[s]]
<1>0. TypeOK
  BY DEF MemInv
<1> DEFINE priv == Mine(p) \ shared
           join == Mine(p) \cap shared
           kid == {copy[r] : r \in priv}
           orig(s) == CHOOSE r \in priv : copy[r] = s
           parent == [r \in Region |-> IF r \in priv THEN ReadOnly(pte[p][r]) ELSE pte[p][r]]
           child == [s \in Region |-> CASE s \in kid -> ReadOnly(pte[p][orig(s)])
                                        [] s \in join -> pte[p][s]
                                        [] OTHER -> noPte]
<1>1. users' = [s \in Region |-> IF s \in kid \cup join THEN users[s] \cup {q} ELSE users[s]]
  BY DEF Fork
<1>2. /\ pf' = [s \in Region |-> CASE s \in kid  -> Mark(pf[orig(s)])
                                   [] s \in priv -> Mark(pf[s])
                                   [] OTHER      -> pf[s]]
      /\ block' = [s \in Region |-> IF s \in kid THEN block[orig(s)] ELSE block[s]]
      /\ stored' = [s \in Region |-> IF s \in kid THEN stored[orig(s)] ELSE stored[s]]
  BY DEF Fork, Mark
<1>3. pte' = [pte EXCEPT ![p] = parent, ![q] = child]
  BY DEF Fork
<1>4. Parts(p, q, priv, join, copy)
  <2>1. /\ \A r \in Mine(p) : IF r \in shared THEN copy[r] = r ELSE copy[r] \in Unused
        /\ \A r, s \in Mine(p) : copy[r] = copy[s] => r = s
        /\ Mine(q) = {}
        /\ \A r \in Mine(p) : ~ Locked(r)
    BY DEF Copies, Fork
  <2> QED BY <2>1 DEF Parts, Mine, Unused
<1>5. /\ blkRefs' = BlkAdded(priv) /\ cow' = CowAdded(priv, p)
      /\ UNCHANGED <<shared, mem, disk, free, pc, swapper, hurt>>
  BY DEF Fork
<1>6. \A r \in priv : copy[r] \in kid /\ orig(copy[r]) = r
  BY <1>4 DEF Parts
<1> HIDE DEF orig
<1>7. \A s \in kid : s \in Region /\ users[s] = {} /\ s \notin priv /\ s \notin join
  BY <1>4 DEF Parts
<1>8. \A r \in Region : p \in users[r] => p # q
  BY <1>4 DEF Parts
<1>9. noPte \in PteType /\ pte \in [Proc -> [Region -> PteType]]
  BY <1>0 DEF TypeOK, PteType, noPte
<1>10. \A s \in kid : \E r \in priv : copy[r] = s /\ orig(s) = r
  BY <1>6
<1>11. priv \subseteq Region /\ join \subseteq Region
  BY <1>4 DEF Parts
<1> HIDE DEF priv, join, kid
<1>12. parent \in [Region -> PteType]
  BY <1>9, <1>11, ReadOnlyType
<1>13. /\ child = [s \in Region |-> child[s]]
       /\ \A s \in kid : child[s] = ReadOnly(pte[p][orig(s)])
       /\ \A s \in join : child[s] = pte[p][s]
       /\ \A s \in Region : s \notin kid \cup join => child[s] = noPte
  BY <1>7, <1>11
<1>14. \A s \in Region : child[s] \in PteType
  BY <1>9, <1>10, <1>11, <1>13, ReadOnlyType
<1>15. child \in [Region -> PteType]
  BY <1>13, <1>14
<1>16. \A r \in Region : parent[r] = IF r \in priv THEN ReadOnly(pte[p][r]) ELSE pte[p][r]
  OBVIOUS
<1> HIDE DEF parent, child
<1>17. /\ pte' \in [Proc -> [Region -> PteType]]
       /\ pte'[q] = child
       /\ p # q => pte'[p] = parent
       /\ \A u \in Proc : u # p /\ u # q => pte'[u] = pte[u]
  BY <1>3, <1>9, <1>12, <1>15
<1>18. \A s \in Region : pte[q][s] = noPte
  <2> SUFFICES ASSUME NEW s \in Region PROVE pte[q][s] = noPte
    OBVIOUS
  <2>1. q \notin users[s] /\ Page(s)
    BY <1>4, Unpack DEF Parts
  <2>2. pte[q][s].mode = "none" /\ pte[q][s].frame = Null
    BY <2>1 DEF Page
  <2>3. pte[q][s] \in PteType
    BY <1>9
  <2> QED BY <2>2, <2>3 DEF PteType, noPte
<1>19. \A r \in priv : p # q /\ r \notin kid /\ r \notin join
  BY <1>4, <1>7, <1>8, <1>11 DEF Parts
<1>20. \A r \in priv : Parent(p, r)
  <2> SUFFICES ASSUME NEW r \in priv PROVE Parent(p, r)
    OBVIOUS
  <2>1. pte'[p][r] = ReadOnly(pte[p][r])
    BY <1>11, <1>16, <1>17, <1>19
  <2>2. \A u \in Proc : u # p => pte'[u][r] = pte[u][r]
    BY <1>11, <1>13, <1>17, <1>18, <1>19
  <2>3. users'[r] = users[r] /\ block'[r] = block[r] /\ stored'[r] = stored[r]
    BY <1>1, <1>2, <1>11, <1>19
  <2>4. pf'[r] = Mark(pf[r])
    BY <1>2, <1>11, <1>19
  <2> QED BY <2>1, <2>2, <2>3, <2>4 DEF Parent
<1>21. \A r \in priv : Child(p, q, r, copy[r])
  <2> SUFFICES ASSUME NEW r \in priv PROVE Child(p, q, r, copy[r])
    OBVIOUS
  <2>1. PICK s \in kid : s = copy[r] /\ orig(s) = r
    BY <1>6
  <2>2. s \in Region /\ users[s] = {} /\ s \notin priv /\ s \notin join
    BY <1>7
  <2>3. pte'[q][s] = ReadOnly(pte[p][r])
    BY <1>13, <1>17, <2>1
  <2>4. \A u \in Proc : u # q => pte'[u][s] = pte[u][s]
    BY <1>16, <1>17, <2>2
  <2>5. users'[s] = {q} /\ block'[s] = block[r] /\ stored'[s] = stored[r]
    BY <1>1, <1>2, <2>1, <2>2
  <2>6. pf'[s] = Mark(pf[r])
    BY <1>2, <2>1, <2>2
  <2> QED BY <2>1, <2>3, <2>4, <2>5, <2>6 DEF Child
<1>22. \A s \in join : Joined(p, q, s)
  <2> SUFFICES ASSUME NEW s \in join PROVE Joined(p, q, s)
    OBVIOUS
  <2>1. s \in Region /\ s \notin kid /\ s \notin priv
    BY <1>7, <1>11, <1>19
  <2>2. pte'[q][s] = pte[p][s]
    BY <1>13, <1>17
  <2>3. \A u \in Proc : u # q => pte'[u][s] = pte[u][s]
    BY <1>16, <1>17, <2>1
  <2>4. /\ users'[s] = users[s] \cup {q} /\ block'[s] = block[s]
        /\ stored'[s] = stored[s]
    BY <1>1, <1>2, <2>1
  <2>5. pf'[s] = pf[s]
    BY <1>2, <2>1
  <2> QED BY <2>2, <2>3, <2>4, <2>5 DEF Joined
<1>23. \A s \in Region : s \notin priv \cup join /\ (\A r \in priv : copy[r] # s)
         => Same(s)
  <2> SUFFICES ASSUME NEW s \in Region, s \notin priv \cup join,
                      \A r \in priv : copy[r] # s
               PROVE  Same(s)
    OBVIOUS
  <2>1. s \notin kid
    BY <1>10
  <2>2. \A u \in Proc : pte'[u][s] = pte[u][s]
    BY <1>13, <1>16, <1>17, <1>18, <2>1
  <2>3. users'[s] = users[s] /\ block'[s] = block[s] /\ stored'[s] = stored[s]
    BY <1>1, <1>2, <2>1
  <2>4. pf'[s] = pf[s]
    BY <1>2, <2>1
  <2> QED BY <1>5, <2>2, <2>3, <2>4 DEF Same
<1>24. Cloned(p, q, priv, join, copy)
  BY <1>5, <1>20, <1>21, <1>22, <1>23 DEF Cloned
<1>25. /\ users' = [s \in Region |-> users'[s]] /\ pf' = [s \in Region |-> pf'[s]]
       /\ block' = [s \in Region |-> block'[s]] /\ stored' = [s \in Region |-> stored'[s]]
  BY <1>1, <1>2
<1> QED BY <1>4, <1>17, <1>24, <1>25

(* A private region is known to its owner only.                            *)
LEMMA PrivOwn ==
  ASSUME MemInv, NEW p \in Proc, NEW q \in Proc, NEW priv, NEW join, NEW copy,
         Parts(p, q, priv, join, copy), NEW r \in priv
  PROVE  /\ r \in Region /\ r \notin shared /\ users[r] = {p} /\ p # q
         /\ pte[p][r] \in PteType /\ Page(r)
         /\ \A f : Shows(r, f) <=> f = pte[p][r].frame
<1>1. r \in Region /\ r \notin shared /\ p \in users[r] /\ q \notin users[r]
  BY DEF Parts
<1>2. TypeOK /\ Page(r)
  BY <1>1, Unpack
<1>3. users[r] = {p}
  BY <1>1, <1>2 DEF Page
<1>4. pte[p][r] \in PteType
  BY <1>1, <1>2 DEF TypeOK, PteType
<1> QED BY <1>1, <1>2, <1>3, <1>4 DEF Shows

LEMMA ParentPage ==
  ASSUME MemInv, NEW p \in Proc, NEW q \in Proc, NEW priv, NEW join, NEW copy,
         Parts(p, q, priv, join, copy), NEW r \in priv, Parent(p, r),
         UNCHANGED <<shared, hurt>>
  PROVE  /\ Page(r)' /\ Writable(r)'
         /\ \A f : Shows(r, f)' <=> Shows(r, f)
<1>1. /\ r \in Region /\ r \notin shared /\ users[r] = {p}
      /\ pte[p][r] \in PteType /\ Page(r)
  BY PrivOwn
<1>2. PICK e : e = ReadOnly(pte[p][r])
  OBVIOUS
<1>3. /\ e.frame = pte[p][r].frame /\ (e.mode # "none" <=> pte[p][r].mode # "none")
      /\ e.mode # "rw"
  BY <1>1, <1>2, ReadOnlyType
<1>4. /\ users'[r] = {p} /\ block'[r] = block[r] /\ stored'[r] = stored[r]
      /\ pte'[p][r] = e /\ \A u \in Proc : u # p => pte'[u][r] = pte[u][r]
  BY <1>1, <1>2 DEF Parent
<1>5. /\ pf'[r] \in {"present", "cow"} <=> pf[r] \in {"present", "cow"}
      /\ pf'[r] # "present"
      /\ pf'[r] = "swapped" <=> pf[r] = "swapped"
      /\ pf'[r] \in {"none", "empty"} <=> pf[r] \in {"none", "empty"}
  BY DEF Parent, Mark
<1>6. \A u \in Proc : u # p => pte[u][r].mode = "none" /\ pte[u][r].frame = Null
  BY <1>1 DEF Page
<1>7. \A u \in Proc :
        /\ pte'[u][r].mode # "none" <=> u = p /\ pf'[r] \in {"present", "cow"}
        /\ pte'[u][r].frame # Null <=> pte'[u][r].mode # "none"
        /\ pte'[u][r].mode # "rw"
  <2>1. /\ pte[p][r].mode # "none" <=> pf[r] \in {"present", "cow"}
        /\ pte[p][r].frame # Null <=> pte[p][r].mode # "none"
    BY <1>1 DEF Page
  <2> QED BY <1>3, <1>4, <1>5, <1>6, <2>1
<1>8. Page(r)'
  BY <1>1, <1>4, <1>5, <1>7 DEF Page
<1>9. Writable(r)'
  BY <1>5 DEF Writable
<1>10. \A f : Shows(r, f)' <=> Shows(r, f)
  BY <1>1, <1>3, <1>4 DEF Shows
<1> QED BY <1>8, <1>9, <1>10

LEMMA ChildPage ==
  ASSUME MemInv, NEW p \in Proc, NEW q \in Proc, NEW priv, NEW join, NEW copy,
         Parts(p, q, priv, join, copy), NEW r \in priv, NEW s, s = copy[r],
         Child(p, q, r, s), UNCHANGED <<shared, hurt>>
  PROVE  /\ Page(s)' /\ Writable(s)' /\ s \in Region
         /\ \A f : (Shows(s, f)' <=> Shows(r, f)) /\ ~ Shows(s, f)
<1>1. /\ r \in Region /\ r \notin shared /\ users[r] = {p}
      /\ pte[p][r] \in PteType /\ Page(r)
  BY PrivOwn
<1>2. s \in Region /\ users[s] = {} /\ Page(s)
  BY Unpack DEF Parts
<1>3. PICK e : e = ReadOnly(pte[p][r])
  OBVIOUS
<1>4. /\ e.frame = pte[p][r].frame /\ (e.mode # "none" <=> pte[p][r].mode # "none")
      /\ e.mode # "rw"
  BY <1>1, <1>3, ReadOnlyType
<1>5. /\ users'[s] = {q} /\ block'[s] = block[r] /\ stored'[s] = stored[r]
      /\ pte'[q][s] = e /\ \A u \in Proc : u # q => pte'[u][s] = pte[u][s]
  BY <1>3 DEF Child
<1>6. /\ pf'[s] \in {"present", "cow"} <=> pf[r] \in {"present", "cow"}
      /\ pf'[s] # "present"
      /\ pf'[s] = "swapped" <=> pf[r] = "swapped"
      /\ pf'[s] \in {"none", "empty"} <=> pf[r] \in {"none", "empty"}
  BY DEF Child, Mark
<1>7. s \notin shared /\ \A u \in Proc : pte[u][s].mode = "none" /\ pte[u][s].frame = Null
  BY <1>2 DEF Page
<1>8. \A u \in Proc :
        /\ pte'[u][s].mode # "none" <=> u = q /\ pf'[s] \in {"present", "cow"}
        /\ pte'[u][s].frame # Null <=> pte'[u][s].mode # "none"
        /\ pte'[u][s].mode # "rw"
  <2>1. /\ pte[p][r].mode # "none" <=> pf[r] \in {"present", "cow"}
        /\ pte[p][r].frame # Null <=> pte[p][r].mode # "none"
    BY <1>1 DEF Page
  <2> QED BY <1>4, <1>5, <1>6, <1>7, <2>1
<1>9. Page(s)'
  <2>1. /\ block[r] # Null <=> pf[r] = "swapped"
        /\ stored[r] # Null <=> pf[r] \notin {"none", "empty"}
    BY <1>1 DEF Page
  <2> QED BY <1>5, <1>6, <1>7, <1>8, <2>1 DEF Page
<1>10. Writable(s)'
  BY <1>6 DEF Writable
<1>11. \A f : (Shows(s, f)' <=> Shows(r, f)) /\ ~ Shows(s, f)
  BY <1>1, <1>2, <1>4, <1>5 DEF Shows
<1> QED BY <1>2, <1>9, <1>10, <1>11

LEMMA JoinedPage ==
  ASSUME MemInv, NEW p \in Proc, NEW q \in Proc, NEW priv, NEW join, NEW copy,
         Parts(p, q, priv, join, copy), NEW s \in join, Joined(p, q, s),
         UNCHANGED <<shared, hurt>>
  PROVE  /\ Page(s)' /\ Writable(s)'
         /\ \A f : Shows(s, f)' <=> Shows(s, f)
<1>1. s \in Region /\ s \in shared /\ p \in users[s] /\ q \notin users[s]
  BY DEF Parts
<1>2. Page(s) /\ Writable(s) /\ users[s] \subseteq Proc
  BY <1>1, Unpack DEF TypeOK
<1>3. /\ users'[s] = users[s] \cup {q} /\ pf'[s] = pf[s] /\ block'[s] = block[s]
      /\ stored'[s] = stored[s] /\ pte'[q][s] = pte[p][s]
      /\ \A u \in Proc : u # q => pte'[u][s] = pte[u][s]
  BY DEF Joined
<1>4. \A u \in users'[s] : pte'[u][s].frame = pte[p][s].frame
  BY <1>1, <1>2, <1>3 DEF Page
<1>5. \A u \in Proc :
        /\ pte'[u][s].mode # "none" <=> u \in users'[s] /\ pf'[s] \in {"present", "cow"}
        /\ pte'[u][s].frame # Null <=> pte'[u][s].mode # "none"
        /\ pte'[u][s].mode = "rw" => pf'[s] = "present"
  <2>1. \A u \in Proc :
        /\ pte[u][s].mode # "none" <=> u \in users[s] /\ pf[s] \in {"present", "cow"}
        /\ pte[u][s].frame # Null <=> pte[u][s].mode # "none"
        /\ pte[u][s].mode = "rw" => pf[s] = "present"
    BY <1>2 DEF Page
  <2> QED BY <1>1, <1>3, <2>1
<1>6. Page(s)'
  <2>1. /\ pf[s] # "cow"
        /\ (block[s] # Null <=> pf[s] = "swapped")
        /\ (stored[s] # Null <=> pf[s] \notin {"none", "empty"})
    BY <1>1, <1>2 DEF Page
  <2> QED BY <1>1, <1>3, <1>4, <1>5, <2>1 DEF Page
<1>7. Writable(s)'
  BY <1>1, <1>2, <1>3 DEF Writable, Whole
<1>8. \A f : Shows(s, f)' <=> Shows(s, f)
  <2>1. \A f : Shows(s, f)' <=> f = pte[p][s].frame
    BY <1>1, <1>3, <1>4 DEF Shows
  <2>2. \A f : Shows(s, f) <=> f = pte[p][s].frame
    BY <1>1, <1>2 DEF Shows, Page
  <2> QED BY <2>1, <2>2
<1> QED BY <1>6, <1>7, <1>8

(* All regions after a fork: a copy, or one that was there before.         *)
LEMMA ForkView ==
  ASSUME MemInv, NEW p \in Proc, NEW q \in Proc, NEW priv, NEW join, NEW copy,
         Parts(p, q, priv, join, copy), Cloned(p, q, priv, join, copy)
  PROVE  /\ \A s \in Region : Page(s)' /\ Writable(s)'
         /\ \A s \in Region : (\A r \in priv : copy[r] # s) =>
              /\ \A f : Shows(s, f)' <=> Shows(s, f)
              /\ pf'[s] = (IF s \in priv THEN Mark(pf[s]) ELSE pf[s])
              /\ block'[s] = block[s] /\ stored'[s] = stored[s]
              /\ users[s] \subseteq users'[s]
         /\ \A r \in priv :
              /\ copy[r] \in Region
              /\ \A f : (Shows(copy[r], f)' <=> Shows(r, f)) /\ ~ Shows(copy[r], f)
              /\ pf'[copy[r]] = Mark(pf[r]) /\ pf[copy[r]] = "none"
              /\ block'[copy[r]] = block[r] /\ stored'[copy[r]] = stored[r]
<1>1. UNCHANGED <<shared, hurt>> /\ TypeOK
  BY DEF Cloned, MemInv
<1>2. ASSUME NEW r \in priv
      PROVE  /\ copy[r] \in Region /\ Page(copy[r])' /\ Writable(copy[r])'
             /\ \A f : (Shows(copy[r], f)' <=> Shows(r, f)) /\ ~ Shows(copy[r], f)
             /\ pf'[copy[r]] = Mark(pf[r]) /\ pf[copy[r]] = "none"
             /\ block'[copy[r]] = block[r] /\ stored'[copy[r]] = stored[r]
  <2>1. PICK s : s = copy[r]
    OBVIOUS
  <2>2. Child(p, q, r, s)
    BY <2>1 DEF Cloned
  <2>3. /\ Page(s)' /\ Writable(s)' /\ s \in Region
        /\ \A f : (Shows(s, f)' <=> Shows(r, f)) /\ ~ Shows(s, f)
    BY <1>1, <2>1, <2>2, ChildPage
  <2>4. pf[s] = "none"
    BY <2>1, <2>3, Unpack DEF Parts, Page
  <2> QED BY <2>1, <2>2, <2>3, <2>4 DEF Child
<1>3. ASSUME NEW s \in Region, \A r \in priv : copy[r] # s
      PROVE  /\ Page(s)' /\ Writable(s)'
             /\ \A f : Shows(s, f)' <=> Shows(s, f)
             /\ pf'[s] = (IF s \in priv THEN Mark(pf[s]) ELSE pf[s])
             /\ block'[s] = block[s] /\ stored'[s] = stored[s]
             /\ users[s] \subseteq users'[s]
  <2>1. CASE s \in priv
    <3>1. Parent(p, s)
      BY <2>1 DEF Cloned
    <3> QED BY <1>1, <2>1, <3>1, ParentPage DEF Parent
  <2>2. CASE s \in join
    <3>1. Joined(p, q, s) /\ s \notin priv
      BY <2>2 DEF Cloned, Parts
    <3> QED BY <1>1, <2>2, <3>1, JoinedPage DEF Joined
  <2>3. CASE s \notin priv /\ s \notin join
    <3>1. Same(s)
      BY <1>3, <2>3 DEF Cloned
    <3>2. Page(s) /\ Writable(s)
      BY Unpack
    <3> QED BY <1>1, <2>3, <3>1, <3>2, SamePage, SameWritable, SameShows DEF Same
  <2> QED BY <2>1, <2>2, <2>3
<1>4. \A s \in Region : Page(s)' /\ Writable(s)'
  <2> SUFFICES ASSUME NEW s \in Region PROVE Page(s)' /\ Writable(s)'
    OBVIOUS
  <2>1. CASE \E r \in priv : copy[r] = s
    BY <1>2, <2>1
  <2>2. CASE \A r \in priv : copy[r] # s
    BY <1>3, <2>2
  <2> QED BY <2>1, <2>2
<1> QED BY <1>2, <1>3, <1>4

(* The copies of swapped pages count for their blocks.                     *)
LEMMA ForkBlocks ==
  ASSUME MemInv, NEW p \in Proc, NEW q \in Proc, NEW priv, NEW join, NEW copy,
         Parts(p, q, priv, join, copy), Cloned(p, q, priv, join, copy)
  PROVE  BlocksExact' /\ blkRefs' \in [Block -> Nat]
<1>0. TypeOK
  BY DEF MemInv
<1>1. ASSUME NEW b \in Block
      PROVE  blkRefs'[b] = Cardinality(On(b)') /\ blkRefs'[b] \in Nat
  <2>1. PICK B : B = {r \in priv : pf[r] = "swapped" /\ block[r] = b}
    OBVIOUS
  <2>2. PICK K : K = {copy[r] : r \in B}
    OBVIOUS
  <2>3. IsFiniteSet(B)
    <3>1. B \subseteq Region
      BY <2>1 DEF Parts
    <3> QED BY <3>1, MemoryAssumption, FS_Subset
  <2>4. IsFiniteSet(K) /\ Cardinality(K) = Cardinality(B)
    <3>1. \A r, t \in B : copy[r] = copy[t] => r = t
      BY <2>1 DEF Parts
    <3> QED BY <2>2, <2>3, <3>1, CopyCount
  <2>5. \A x \in On(b) : x \notin K
    BY <2>1, <2>2, ForkView DEF On
  <2>6. On(b)' = On(b) \cup K
    <3>1. \A x \in K : x \in Region /\ pf'[x] = "swapped" /\ block'[x] = b
      BY <2>1, <2>2, ForkView DEF Mark
    <3>2. \A x \in Region : (\A r \in priv : copy[r] # x) =>
            (pf'[x] = "swapped" /\ block'[x] = b <=> x \in On(b))
      BY ForkView DEF On, Mark
    <3>3. \A r \in priv : pf'[copy[r]] = "swapped" /\ block'[copy[r]] = b
                            => copy[r] \in K
      BY <2>1, <2>2, ForkView DEF Mark
    <3>4. \A x \in On(b) : \A r \in priv : copy[r] # x
      BY ForkView DEF On
    <3>5. \A x \in Region : pf'[x] = "swapped" /\ block'[x] = b <=> x \in On(b) \cup K
      BY <3>1, <3>2, <3>3, <3>4
    <3>6. On(b) \subseteq Region /\ K \subseteq Region
      BY <3>1 DEF On
    <3> QED BY <3>5, <3>6 DEF On
  <2>7. IsFiniteSet(On(b)) /\ Cardinality(On(b)) \in Nat /\ Cardinality(B) \in Nat
    BY <1>0, <2>3, Counted, FS_CardinalityType
  <2>8. Cardinality(On(b) \cup K) = Cardinality(On(b)) + Cardinality(K)
    BY <2>4, <2>5, <2>7, CountBoth
  <2>9. blkRefs[b] = Cardinality(On(b))
    BY Unpack DEF BlocksExact, On
  <2>10. blkRefs'[b] = blkRefs[b] + Cardinality(B)
    BY <2>1 DEF Cloned, BlkAdded
  <2> QED BY <2>4, <2>6, <2>7, <2>8, <2>9, <2>10
<1>2. blkRefs' = [b \in Block |-> blkRefs'[b]]
  BY DEF Cloned, BlkAdded
<1>3. blkRefs' \in [Block -> Nat]
  BY <1>1, <1>2
<1> QED BY <1>1, <1>3 DEF BlocksExact, On

(* A page that gets the mark counts twice, for parent and child; one that  *)
(* had it counts for the child.                                            *)
LEMMA ForkCow ==
  ASSUME MemInv, Whole, NEW p \in Proc, NEW q \in Proc, NEW priv, NEW join, NEW copy,
         Parts(p, q, priv, join, copy), Cloned(p, q, priv, join, copy)
  PROVE  cow' \in [Frame -> Nat] /\ \A f \in Frame : Covered(f)'
<1>0. TypeOK /\ UNCHANGED hurt
  BY DEF MemInv, Cloned
<1>1. ASSUME NEW f \in Frame
      PROVE  cow'[f] \in Nat /\ Covered(f)'
  <2>1. PICK New, Old :
          /\ New = {r \in priv : pf[r] = "present" /\ pte[p][r].frame = f}
          /\ Old = {r \in priv : pf[r] = "cow" /\ pte[p][r].frame = f}
    OBVIOUS
  <2>2. PICK K : K = {copy[r] : r \in New \cup Old}
    OBVIOUS
  <2>3. IsFiniteSet(New) /\ IsFiniteSet(Old) /\ IsFiniteSet(Marked(f))
    <3>1. New \subseteq Region /\ Old \subseteq Region
      BY <2>1 DEF Parts
    <3> QED BY <1>0, <3>1, MemoryAssumption, FS_Subset, Counted
  <2>4. /\ IsFiniteSet(New \cup Old)
        /\ Cardinality(New \cup Old) = Cardinality(New) + Cardinality(Old)
    <3>1. \A x \in New : x \notin Old
      BY <2>1
    <3> QED BY <2>3, <3>1, CountBoth
  <2>5. IsFiniteSet(K) /\ Cardinality(K) = Cardinality(New \cup Old)
    <3>1. \A r, t \in New \cup Old : copy[r] = copy[t] => r = t
      BY <2>1 DEF Parts
    <3> QED BY <2>2, <2>4, <3>1, CopyCount
  <2>6. \A r \in priv : Shows(r, f) <=> pte[p][r].frame = f
    BY PrivOwn
  <2>7. /\ IsFiniteSet(Marked(f) \cup New)
        /\ Cardinality(Marked(f) \cup New) = Cardinality(Marked(f)) + Cardinality(New)
    <3>1. \A x \in Marked(f) : x \notin New
      BY <2>1 DEF Marked
    <3> QED BY <2>3, <3>1, CountBoth
  <2>8. New \cup Old \subseteq priv /\ \A r \in priv : \A t \in priv : copy[t] # r
    <3>1. \A r \in priv : users[r] # {}
      BY PrivOwn
    <3> QED BY <2>1, <3>1 DEF Parts
  <2>9. \A x \in Marked(f) : \A r \in priv : copy[r] # x
    BY ForkView DEF Marked
  <2>10. \A x \in Marked(f) \cup New : x \notin K
    BY <2>2, <2>8, <2>9
  <2>11. Marked(f)' = (Marked(f) \cup New) \cup K
    <3>1. \A r \in priv : r \in New \cup Old <=> Mark(pf[r]) = "cow" /\ Shows(r, f)
      BY <2>1, <2>6 DEF Mark
    <3>2. \A r \in priv : copy[r] \in K <=> r \in New \cup Old
      BY <2>2, <2>8 DEF Parts
    <3>3. \A r \in priv : pf'[copy[r]] = "cow" /\ Shows(copy[r], f)' <=> copy[r] \in K
      BY <3>1, <3>2, ForkView
    <3>4. \A x \in Region : (\A r \in priv : copy[r] # x) =>
            (pf'[x] = "cow" /\ Shows(x, f)' <=> x \in Marked(f) \cup New)
      <4> SUFFICES ASSUME NEW x \in Region, \A r \in priv : copy[r] # x
                   PROVE  pf'[x] = "cow" /\ Shows(x, f)' <=> x \in Marked(f) \cup New
        OBVIOUS
      <4>1. Shows(x, f)' <=> Shows(x, f)
        BY ForkView
      <4>2. CASE x \in priv
        <5>1. pf'[x] = Mark(pf[x])
          BY <4>2, ForkView
        <5>2. x \in Old <=> x \in Marked(f)
          BY <2>1, <2>6, <4>2 DEF Marked
        <5> QED BY <3>1, <4>1, <4>2, <5>1, <5>2
      <4>3. CASE x \notin priv
        <5>1. pf'[x] = pf[x] /\ x \notin New
          BY <2>1, <4>3, ForkView
        <5> QED BY <4>1, <5>1 DEF Marked
      <4> QED BY <4>2, <4>3
    <3>5. \A x \in Region : pf'[x] = "cow" /\ Shows(x, f)'
                              <=> x \in (Marked(f) \cup New) \cup K
      <4> SUFFICES ASSUME NEW x \in Region
                   PROVE  pf'[x] = "cow" /\ Shows(x, f)'
                            <=> x \in (Marked(f) \cup New) \cup K
        OBVIOUS
      <4>1. CASE \E r \in priv : copy[r] = x
        BY <2>8, <2>9, <3>3, <4>1
      <4>2. CASE \A r \in priv : copy[r] # x
        BY <2>2, <2>8, <3>4, <4>2
      <4> QED BY <4>1, <4>2
    <3>6. (Marked(f) \cup New) \cup K \subseteq Region
      BY <2>1, <2>2, <2>8 DEF Marked, Parts
    <3> QED BY <3>5, <3>6 DEF Marked
  <2>12. Cardinality(Marked(f)')
           = Cardinality(Marked(f)) + Cardinality(New) + Cardinality(K)
    <3>1. Cardinality((Marked(f) \cup New) \cup K)
            = Cardinality(Marked(f) \cup New) + Cardinality(K)
      BY <2>5, <2>7, <2>10, CountBoth
    <3> QED BY <2>7, <2>11, <3>1
  <2>13. cow'[f] = cow[f] + 2 * Cardinality(New) + Cardinality(Old)
    BY <2>1 DEF Cloned, CowAdded
  <2>14. /\ Cardinality(New) \in Nat /\ Cardinality(Old) \in Nat
         /\ Cardinality(Marked(f)) \in Nat /\ cow[f] \in Nat
    BY <1>0, <2>3, FS_CardinalityType DEF TypeOK
  <2>15. PICK n, o, m : n = Cardinality(New) /\ o = Cardinality(Old) /\ m = Cardinality(Marked(f))
    OBVIOUS
  <2>16. Cardinality(Marked(f)') = m + n + (n + o) /\ cow'[f] = cow[f] + 2 * n + o
    BY <2>4, <2>5, <2>12, <2>13, <2>15
  <2>17. m = cow[f]
    BY <2>15, Unpack DEF Covered
  <2>18. n \in Nat /\ o \in Nat /\ m \in Nat /\ cow[f] \in Nat
    BY <2>14, <2>15
  <2>19. /\ m + n + (n + o) = cow[f] + 2 * n + o
         /\ cow[f] + 2 * n + o \in Nat
    BY <2>17, <2>18
  <2> QED BY <2>16, <2>19 DEF Covered
<1>2. cow' = [f \in Frame |-> cow'[f]]
  BY DEF Cloned, CowAdded
<1> QED BY <1>1, <1>2

(* The variables keep their shape.                                         *)
LEMMA ForkType ==
  ASSUME MemInv, Whole, NEW p \in Proc, NEW q \in Proc, NEW priv, NEW join, NEW copy,
         Parts(p, q, priv, join, copy), Cloned(p, q, priv, join, copy),
         pte' \in [Proc -> [Region -> PteType]],
         users' = [s \in Region |-> users'[s]], pf' = [s \in Region |-> pf'[s]],
         block' = [s \in Region |-> block'[s]], stored' = [s \in Region |-> stored'[s]]
  PROVE  TypeOK'
<1>0. TypeOK
  BY DEF MemInv
<1> DEFINE Flags == {"none", "demand", "present", "cow", "swapped", "empty"}
<1>1. \A s \in Region : /\ users[s] \in SUBSET Proc /\ pf[s] \in Flags
                        /\ block[s] \in Block \cup {Null}
                        /\ stored[s] \in Value \cup {Null}
  BY <1>0 DEF TypeOK
<1>2. \A flags \in Flags : Mark(flags) \in Flags
  BY DEF Mark
<1> HIDE DEF Flags
<1>3. ASSUME NEW s \in Region
      PROVE  /\ users'[s] \in SUBSET Proc /\ pf'[s] \in Flags
             /\ block'[s] \in Block \cup {Null} /\ stored'[s] \in Value \cup {Null}
  <2>1. CASE \E r \in priv : copy[r] = s
    <3>1. PICK r \in priv : copy[r] = s
      BY <2>1
    <3>2. Child(p, q, r, s) /\ r \in Region
      BY <3>1 DEF Cloned, Parts
    <3> QED BY <1>1, <1>2, <3>2 DEF Child
  <2>2. CASE s \in priv
    <3>1. Parent(p, s)
      BY <2>2 DEF Cloned
    <3> QED BY <1>1, <1>2, <3>1 DEF Parent
  <2>3. CASE s \in join
    <3>1. Joined(p, q, s)
      BY <2>3 DEF Cloned
    <3> QED BY <1>1, <3>1 DEF Joined
  <2>4. CASE s \notin priv \cup join /\ \A r \in priv : copy[r] # s
    <3>1. Same(s)
      BY <2>4 DEF Cloned
    <3> QED BY <1>1, <3>1 DEF Same
  <2> QED BY <2>1, <2>2, <2>3, <2>4
<1>4. /\ users' \in [Region -> SUBSET Proc] /\ pf' \in [Region -> Flags]
      /\ block' \in [Region -> Block \cup {Null}]
      /\ stored' \in [Region -> Value \cup {Null}]
  BY <1>3
<1>5. blkRefs' \in [Block -> Nat] /\ cow' \in [Frame -> Nat]
  BY ForkBlocks, ForkCow
<1>6. UNCHANGED <<shared, mem, disk, free, pc, swapper, hurt>>
  BY DEF Cloned
<1> QED BY <1>0, <1>4, <1>5, <1>6 DEF TypeOK, PteType, Flags

(* The child reads what the parent had, and nobody else sees a difference. *)
LEMMA ForkIntact ==
  ASSUME MemInv, Whole, NEW p \in Proc, NEW q \in Proc, NEW priv, NEW join, NEW copy,
         Parts(p, q, priv, join, copy), Cloned(p, q, priv, join, copy),
         NEW s \in Region
  PROVE  Intact(s)'
<1>1. UNCHANGED <<mem, disk, swapper>>
  BY DEF Cloned
<1>2. PICK r \in Region :
        /\ stored'[s] = stored[r] /\ block'[s] = block[r]
        /\ (pf'[s] = pf[r] \/ pf'[s] = Mark(pf[r]))
        /\ \A f : Shows(s, f)' <=> Shows(r, f)
        /\ pf[r] = "swapped" => (swapper.r = s <=> swapper.r = r)
  <2>1. CASE \E r \in priv : copy[r] = s
    <3>1. PICK r \in priv : copy[r] = s
      BY <2>1
    <3>2. r \in Region /\ swapper.r # r /\ pf[s] = "none"
      BY <3>1, ForkView DEF Parts, Locked
    <3>3. s # Null /\ resting.r = Null
      BY MemoryAssumption DEF resting
    <3>4. swapper.r # s
      BY <3>2, <3>3, Unpack DEF Writing
    <3> QED BY <3>1, <3>2, <3>4, ForkView
  <2>2. CASE \A r \in priv : copy[r] # s
    BY <2>2, ForkView
  <2> QED BY <2>1, <2>2
<1>3. Intact(r)
  BY Unpack
<1>4. /\ pf'[s] = "demand" => pf[r] = "demand"
      /\ pf'[s] = "swapped" => pf[r] = "swapped"
      /\ pf'[s] \in {"present", "cow"} => pf[r] \in {"present", "cow"}
  BY <1>2 DEF Mark
<1>5. ASSUME NEW u \in users'[s], pf'[s] \in {"present", "cow"}
      PROVE  stored'[s] = mem'[pte'[u][s].frame]
  <2>1. PICK f : f = pte'[u][s].frame
    OBVIOUS
  <2>2. Shows(s, f)'
    BY <2>1 DEF Shows
  <2>3. PICK w \in users[r] : pte[w][r].frame = f
    BY <1>2, <2>2 DEF Shows
  <2> QED BY <1>1, <1>2, <1>3, <1>4, <1>5, <2>1, <2>3 DEF Intact
<1>6. pf'[s] = "swapped" =>
        stored'[s] = IF swapper'.r = s THEN swapper'.buf ELSE disk'[block'[s]]
  BY <1>1, <1>2, <1>3, <1>4 DEF Intact
<1>7. pf'[s] = "demand" => stored'[s] = Zero
  BY <1>2, <1>3, <1>4 DEF Intact
<1> QED BY <1>5, <1>6, <1>7 DEF Intact

LEMMA ForkApart ==
  ASSUME MemInv, Whole, NEW p \in Proc, NEW q \in Proc, NEW priv, NEW join, NEW copy,
         Parts(p, q, priv, join, copy), Cloned(p, q, priv, join, copy)
  PROVE  Apart' /\ ("unmap" \notin hurt => \A f \in Frame : Owned(f)')
<1>1. UNCHANGED <<free, pc>> /\ Apart
  BY Unpack DEF Cloned
<1>2. ASSUME NEW f \in Frame, NEW s \in Region, Shows(s, f)'
      PROVE  \E r \in Region : /\ Shows(r, f)
                               /\ pf'[s] = "cow" \/ (r = s /\ pf'[s] = pf[s])
                               /\ r = s \/ r \in priv
                               /\ r \in priv => pf'[s] = "cow"
  <2>1. CASE \E r \in priv : copy[r] = s
    <3>1. PICK r \in priv : copy[r] = s
      BY <2>1
    <3>2. r \in Region /\ Shows(r, f) /\ pf'[s] = Mark(pf[r])
      BY <1>2, <3>1, ForkView DEF Parts
    <3>3. pf[r] \in {"present", "cow"}
      BY <3>2, ShowsPresent, Unpack
    <3> QED BY <3>2, <3>3 DEF Mark
  <2>2. CASE \A r \in priv : copy[r] # s
    <3>1. Shows(s, f)
      BY <1>2, <2>2, ForkView
    <3>2. CASE s \in priv
      <4>1. pf'[s] = Mark(pf[s])
        BY <2>2, <3>2, ForkView
      <4>2. pf[s] \in {"present", "cow"}
        BY <3>1, ShowsPresent, Unpack
      <4> QED BY <3>1, <4>1, <4>2 DEF Mark
    <3>3. CASE s \notin priv
      <4>1. pf'[s] = pf[s]
        BY <2>2, <3>3, ForkView
      <4> QED BY <3>1, <3>3, <4>1
    <3> QED BY <3>2, <3>3
  <2> QED BY <2>1, <2>2
<1>3. ASSUME NEW f \in Frame, NEW s \in Region, Shows(s, f)'
      PROVE  /\ f \notin free /\ \A u \in Proc : pc[u].frame # f
             /\ \A t \in Region : Shows(t, f)' /\ s # t => pf'[s] = "cow"
  <2>1. PICK r \in Region : /\ Shows(r, f)
                            /\ pf'[s] = "cow" \/ (r = s /\ pf'[s] = pf[s])
                            /\ r = s \/ r \in priv
                            /\ r \in priv => pf'[s] = "cow"
    BY <1>2, <1>3
  <2>2. f \notin free /\ \A u \in Proc : pc[u].frame # f
    BY <1>1, <2>1 DEF Apart
  <2>3. ASSUME NEW t \in Region, Shows(t, f)', s # t, pf'[s] # "cow"
        PROVE  FALSE
    <3>1. PICK w \in Region : Shows(w, f) /\ (w = t \/ w \in priv)
      BY <1>2, <2>3
    <3>2. r = s /\ s \notin priv /\ pf[s] # "cow"
      BY <2>1, <2>3
    <3> QED BY <1>1, <2>1, <2>3, <3>1, <3>2 DEF Apart
  <2> QED BY <2>2, <2>3
<1>4. Apart'
  BY <1>1, <1>3 DEF Apart
<1>5. \A s \in Region : \A f : Shows(s, f) => Shows(s, f)'
  BY ForkView
<1> QED BY <1>1, <1>4, <1>5, Unpack DEF Owned

LEMMA ForkKeeps ==
  ASSUME MemInv, Whole, NEW p \in Proc, NEW q \in Proc, NEW copy \in Copies(p),
         Fork(p, q, copy)
  PROVE  MemInv'
<1>1. PICK priv, join :
        /\ Parts(p, q, priv, join, copy)
        /\ Cloned(p, q, priv, join, copy)
        /\ pte' \in [Proc -> [Region -> PteType]]
        /\ users' = [s \in Region |-> users'[s]] /\ pf' = [s \in Region |-> pf'[s]]
        /\ block' = [s \in Region |-> block'[s]] /\ stored' = [s \in Region |-> stored'[s]]
  BY ForkEffects
<1>2. UNCHANGED <<pc, swapper, hurt>> /\ (Whole' <=> Whole)
  BY <1>1 DEF Cloned, Whole
<1>3. TypeOK'
  BY <1>1, ForkType
<1>4. \A s \in Region : Page(s)' /\ Writable(s)'
  BY <1>1, ForkView
<1>5. BlocksExact' /\ \A f \in Frame : Covered(f)'
  BY <1>1, ForkBlocks, ForkCow
<1>6. Whole => Apart' /\ (\A s \in Region : Intact(s)')
               /\ ("unmap" \notin hurt => \A f \in Frame : Owned(f)')
  BY <1>1, ForkIntact, ForkApart
<1>7. \A s \in Region : users[s] # {} =>
        /\ \A r \in priv : copy[r] # s
        /\ users[s] \subseteq users'[s] /\ (pf[s] = "swapped" => pf'[s] = "swapped")
  <2>1. \A s \in Region : users[s] # {} => \A r \in priv : copy[r] # s
    BY <1>1 DEF Parts
  <2> QED BY <1>1, <2>1, ForkView DEF Mark
<1>8. ASSUME NEW u \in Proc PROVE Faulting(u)'
  <2>1. Faulting(u)
    BY Unpack
  <2>2. pc[u] # idle => /\ pc[u].r \in Region /\ u \in users'[pc[u].r]
                        /\ pf[pc[u].r] = "swapped" => pf'[pc[u].r] = "swapped"
    BY <1>7, <2>1 DEF Faulting
  <2> QED BY <1>2, <2>1, <2>2 DEF Faulting
<1>9. Writing'
  <2> SUFFICES ASSUME swapper # resting
               PROVE  /\ swapper.r \in Region /\ swapper.buf \in Value
                      /\ pf'[swapper.r] = "swapped"
                      /\ \A s \in Region : block'[s] = block'[swapper.r] => s = swapper.r
    BY <1>2 DEF Writing
  <2>1. PICK v : v = swapper.r
    OBVIOUS
  <2>2. /\ v \in Region /\ swapper.buf \in Value /\ pf[v] = "swapped"
        /\ \A s \in Region : block[s] = block[v] => s = v
    BY <2>1, Unpack DEF Writing
  <2>3. v \notin priv /\ \A r \in priv : copy[r] # v
    <3>1. \A r \in priv : pf[copy[r]] = "none"
      BY <1>1, ForkView
    <3>2. \A r \in priv : swapper.r # r
      BY <1>1 DEF Parts, Locked
    <3> QED BY <2>1, <2>2, <3>1, <3>2
  <2>4. pf'[v] = "swapped" /\ block'[v] = block[v]
    BY <1>1, <2>2, <2>3, ForkView
  <2>5. \A r \in priv : block'[copy[r]] = block[r] /\ r \in Region
    <3>1. \A r \in priv : r \in Region
      BY <1>1 DEF Parts
    <3> QED BY <1>1, <3>1, ForkView
  <2>6. \A s \in Region : (\A r \in priv : copy[r] # s) => block'[s] = block[s]
    BY <1>1, ForkView
  <2>7. ASSUME NEW s \in Region, block'[s] = block'[v] PROVE s = v
    <3>1. CASE \E r \in priv : copy[r] = s
      BY <2>2, <2>3, <2>4, <2>5, <2>7, <3>1
    <3>2. CASE \A r \in priv : copy[r] # s
      BY <2>2, <2>4, <2>6, <2>7, <3>2
    <3> QED BY <3>1, <3>2
  <2> QED BY <2>1, <2>2, <2>4, <2>7
<1> QED BY <1>2, <1>3, <1>4, <1>5, <1>6, <1>8, <1>9 DEF MemInv

-----------------------------------------------------------------------------
(* The theorems.                                                           *)

LEMMA StutterKeeps ==
  ASSUME MemInv, UNCHANGED vars
  PROVE  MemInv'
<1>1. UNCHANGED <<users, shared, pf, block, pte, mem, disk, cow, blkRefs, free,
                  pc, swapper, stored, hurt>>
  BY DEF vars
<1>2. TypeOK'
  BY <1>1, Unpack DEF TypeOK
<1>3. (\A p \in Proc : Faulting(p)') /\ Writing'
  BY <1>1, Unpack DEF Faulting, Writing
<1>4. \A r \in Region : Page(r)' /\ Writable(r)' /\ Intact(r)'
  BY <1>1, Unpack DEF Page, Writable, Whole, Intact
<1>5. BlocksExact'
  BY <1>1, Unpack, BlocksKept
<1>6. \A s \in Region : \A f : Shows(s, f)' <=> Shows(s, f)
  BY <1>1 DEF Shows
<1>7. \A f : Marked(f)' = Marked(f)
  BY <1>1, <1>6 DEF Marked
<1>8. Whole => Apart' /\ \A f \in Frame : Covered(f)'
  BY <1>1, <1>6, <1>7, Unpack DEF Apart, Covered
<1>9. Whole /\ "unmap" \notin hurt => \A f \in Frame : Owned(f)'
  BY <1>1, <1>6, Unpack DEF Owned
<1>10. Whole' <=> Whole
  BY <1>1 DEF Whole
<1> QED BY <1>1, <1>2, <1>3, <1>4, <1>5, <1>8, <1>9, <1>10 DEF MemInv

LEMMA ProcKeeps ==
  ASSUME MemInv, Whole, NEW p \in Proc, ProcNext(p)
  PROVE  MemInv'
<1>1. ASSUME NEW r \in Region,
             \/ \E share \in BOOLEAN : Map(p, r, share)
             \/ \E v \in Value : Write(p, r, v)
             \/ \E write \in BOOLEAN : Fault(p, r, write)
             \/ Unmap(p, r) \/ Shrink(p, r) \/ Grow(p, r) \/ GrowFails(p, r)
      PROVE  MemInv'
  BY <1>1, MapKeeps, WriteKeeps, FaultKeeps, UnmapLastKeeps, UnmapSomeKeeps,
     ShrinkKeeps, GrowKeeps, GrowFailsKeeps
<1>2. CASE \E q \in Proc, copy \in Copies(p) : Fork(p, q, copy)
  BY <1>2, ForkKeeps
<1>3. CASE \E kept, bare, undone \in SUBSET Mine(p) : ForkFails(p, kept, bare, undone)
  BY <1>3, ForkFailsKeeps
<1>4. CASE \E kept, done \in SUBSET Mine(p) : CloneFails(p, kept, done)
  BY <1>4, CloneFailsKeeps
<1>5. CASE \/ DemandLoad(p) \/ CowFault(p) \/ Handled(p)
           \/ AskSwapper(p) \/ SwapIn(p)
  BY <1>5, DemandLoadKeeps, CowFaultKeeps, HandledKeeps, AskSwapperKeeps, SwapInKeeps
<1> QED BY <1>1, <1>2, <1>3, <1>4, <1>5 DEF ProcNext

LEMMA NextKeeps ==
  ASSUME MemInv, [Next]_vars
  PROVE  MemInv'
<1>1. CASE UNCHANGED vars
  BY <1>1, StutterKeeps
<1>2. CASE Whole /\ \E p \in Proc : ProcNext(p)
  BY <1>2, ProcKeeps
<1>3. CASE Whole /\ \E r \in Region : SwapOut(r)
  BY <1>3, SwapOutKeeps
<1>4. CASE Whole /\ SwapWrite
  BY <1>4, SwapWriteKeeps
<1> QED BY <1>1, <1>2, <1>3, <1>4 DEF Next

(* The inductive invariant of virtual memory: whatever is mapped, grown,   *)
(* forked, faulted, swapped, shrunk and unmapped, and wherever a fork or a *)
(* growth has failed, the flags of a page agree with the page tables and,  *)
(* up to the step that does fatal damage, the references with the regions. *)
THEOREM MemoryInvariant == Spec => []MemInv
<1>1. Init => MemInv
  BY InitMem
<1>2. MemInv /\ [Next]_vars => MemInv'
  BY NextKeeps
<1> QED BY <1>1, <1>2, PTL DEF Spec

(* The frames of a region are those it shows.                              *)
LEMMA FramesShown ==
  ASSUME MemInv, NEW r \in Region, NEW f \in Frame
  PROVE  f \in FramesOf(r) <=> Shows(r, f)
<1>1. TypeOK /\ Page(r)
  BY Unpack
<1>2. f # Null /\ users[r] \subseteq Proc
  BY <1>1, MemoryAssumption DEF TypeOK
<1>3. \A p \in users[r] : pte[p][r].frame = f => pte[p][r].mode # "none"
  BY <1>1, <1>2 DEF Page
<1> QED BY <1>3 DEF FramesOf, Mapped, Shows

(* A page in memory has one frame, for all of its users.                   *)
LEMMA OneFrame ==
  ASSUME MemInv, NEW r \in Region, pf[r] \in {"present", "cow"}
  PROVE  \E p \in users[r] : /\ FramesOf(r) = {pte[p][r].frame}
                             /\ pte[p][r].frame \in Frame
                             /\ Mapped(r) = users[r]
<1>1. TypeOK /\ Page(r)
  BY Unpack
<1>2. PICK p \in users[r] : TRUE
  BY <1>1 DEF Page
<1>3. users[r] \subseteq Proc
  BY <1>1 DEF TypeOK
<1>4. Mapped(r) = users[r]
  BY <1>1, <1>3 DEF Mapped, Page
<1>5. \A q \in users[r] : pte[q][r].frame = pte[p][r].frame
  BY <1>1 DEF Page
<1>6. FramesOf(r) = {pte[p][r].frame}
  BY <1>2, <1>4, <1>5 DEF FramesOf
<1> QED BY <1>2, <1>4, <1>6, FrameThere

(* Frames, copy-on-write entries and swap blocks are exact, for any number *)
(* of processes, regions, frames and blocks, also behind forks that failed *)
(* at some page, unless one of them has undone a page that others show.    *)
THEOREM FramesAlwaysExact == Spec => []FramesExact
<1>1. MemInv => FramesExact
  <2> SUFFICES ASSUME MemInv PROVE FramesExact
    OBVIOUS
  <2>0. TypeOK
    BY Unpack
  <2>1. \A f \in Frame : Holders(f) = {r \in Region : Shows(r, f)}
    BY FramesShown DEF Holders
  <2>2. FramesApart
    <3> SUFFICES ASSUME Whole
                 PROVE  /\ \A f \in free : Holders(f) = {}
                        /\ \A p \in Proc : pc[p] # idle =>
                              /\ pc[p].frame \notin free /\ Holders(pc[p].frame) = {}
                              /\ \A q \in Proc \ {p} : pc[q].frame # pc[p].frame
                        /\ \A r \in Region : pf[r] \in {"present", "cow"}
                              => Cardinality(FramesOf(r)) = 1 /\ Mapped(r) = users[r]
      BY DEF FramesApart
    <3>1. Apart /\ free \subseteq Frame
      BY <2>0, Unpack DEF TypeOK
    <3>2. \A f \in free : Holders(f) = {}
      BY <2>1, <3>1 DEF Apart
    <3>3. \A p \in Proc : pc[p] # idle => pc[p].frame \in Frame
      BY Unpack DEF Faulting
    <3>4. \A p \in Proc : pc[p] # idle =>
            /\ pc[p].frame \notin free /\ Holders(pc[p].frame) = {}
            /\ \A q \in Proc \ {p} : pc[q].frame # pc[p].frame
      BY <2>1, <3>1, <3>3 DEF Apart
    <3>5. \A r \in Region : pf[r] \in {"present", "cow"}
            => Cardinality(FramesOf(r)) = 1 /\ Mapped(r) = users[r]
      BY OneFrame, FS_Singleton
    <3> QED BY <3>2, <3>4, <3>5
  <2>3. CowExact
    <3> SUFFICES ASSUME Whole
                 PROVE  /\ \A f \in Frame :
                             cow[f] = Cardinality({r \in Holders(f) : pf[r] = "cow"})
                        /\ \A p \in Proc, r \in Region : pte[p][r].mode = "rw" =>
                             Holders(pte[p][r].frame) = {r} /\ pf[r] = "present"
      BY DEF CowExact
    <3>1. \A f \in Frame : {r \in Holders(f) : pf[r] = "cow"} = Marked(f)
      BY <2>1 DEF Marked
    <3>2. \A f \in Frame : cow[f] = Cardinality(Marked(f))
      BY Unpack DEF Covered
    <3>3. ASSUME NEW p \in Proc, NEW r \in Region, pte[p][r].mode = "rw"
          PROVE  Holders(pte[p][r].frame) = {r} /\ pf[r] = "present"
      <4>1. p \in users[r] /\ pf[r] = "present"
        BY <3>3, Unpack DEF Page
      <4>2. PICK f \in Frame : f = pte[p][r].frame /\ Shows(r, f)
        BY <4>1, FrameThere
      <4>3. \A s \in Region : Shows(s, f) => s = r
        BY <4>1, <4>2, Unpack DEF Apart
      <4> QED BY <2>1, <4>1, <4>2, <4>3
    <3> QED BY <3>1, <3>2, <3>3
  <2>4. NoFrameLost
    <3> SUFFICES ASSUME Whole, "unmap" \notin hurt, NEW f \in Frame,
                        Holders(f) = {}, \A p \in Proc : pc[p].frame # f
                 PROVE  f \in free
      BY DEF NoFrameLost
    <3> QED BY <2>1, Unpack DEF Owned
  <2> QED BY <2>0, <2>2, <2>3, <2>4, Unpack DEF FramesExact
<1> QED BY <1>1, MemoryInvariant, PTL

(* What a user reads is what has been stored.                              *)
LEMMA ContentStored ==
  ASSUME MemInv, NEW r \in Region
  PROVE  Content(r) = stored[r]
<1>1. Page(r) /\ Intact(r)
  BY Unpack
<1>2. pf[r] \in {"none", "demand", "present", "cow", "swapped", "empty"}
  BY Unpack DEF TypeOK
<1>3. CASE pf[r] \in {"none", "empty"}
  BY <1>1, <1>3 DEF Page, Content
<1>4. CASE pf[r] = "demand"
  BY <1>1, <1>4 DEF Intact, Content
<1>5. CASE pf[r] = "swapped"
  BY <1>1, <1>5 DEF Intact, Content
<1>6. CASE pf[r] \in {"present", "cow"}
  <2>1. PICK p \in users[r] : FramesOf(r) = {pte[p][r].frame}
    BY <1>6, OneFrame
  <2>2. (CHOOSE f \in FramesOf(r) : TRUE) = pte[p][r].frame
    BY <2>1
  <2>3. Content(r) = mem[CHOOSE f \in FramesOf(r) : TRUE]
    BY <1>6 DEF Content
  <2> QED BY <1>1, <1>6, <2>1, <2>2, <2>3 DEF Intact
<1> QED BY <1>2, <1>3, <1>4, <1>5, <1>6

(* Every process reads what has been stored last through its region, or    *)
(* what doGrow() has found in the frame, and a page that is present and    *)
(* not marked can be written to.                                           *)
THEOREM AlwaysReadsOwnWrites == Spec => []ReadsOwnWrites
<1>1. MemInv => ReadsOwnWrites
  <2> SUFFICES ASSUME MemInv PROVE ReadsOwnWrites
    OBVIOUS
  <2>1. \A r \in Region : Content(r) = stored[r]
    BY ContentStored
  <2>2. Whole /\ "fork" \notin hurt => \A r \in Region, p \in Proc :
          pf[r] = "present" /\ p \in users[r] => pte[p][r].mode = "rw"
    BY Unpack DEF Writable
  <2> QED BY <2>1, <2>2 DEF ReadsOwnWrites
<1> QED BY <1>1, MemoryInvariant, PTL

-----------------------------------------------------------------------------
(* The refinement.                                                         *)

(* What the abstract address spaces hold, which is what has been stored.   *)
Contents == [r \in Region |-> Content(r)]

Faithful == Contents = stored

LEMMA ContentsStored ==
  ASSUME MemInv
  PROVE  Faithful
<1>1. stored = [r \in Region |-> stored[r]]
  BY Unpack DEF TypeOK
<1>2. \A r \in Region : Content(r) = stored[r]
  BY ContentStored
<1> QED BY <1>1, <1>2 DEF Contents, Faithful

(* Faults and steps of the swapper are not seen.                           *)
Unseen == UNCHANGED <<users, shared, stored>>

LEMMA QuietUnseen ==
  ASSUME \/ UNCHANGED vars
         \/ \E p \in Proc, r \in Region : \E write \in BOOLEAN : Fault(p, r, write)
         \/ \E p \in Proc : \E kept, bare, undone \in SUBSET Mine(p) :
               ForkFails(p, kept, bare, undone)
         \/ \E p \in Proc : \E kept, done \in SUBSET Mine(p) :
               CloneFails(p, kept, done)
         \/ \E p \in Proc : \/ DemandLoad(p) \/ CowFault(p) \/ Handled(p)
                            \/ AskSwapper(p) \/ SwapIn(p)
         \/ \E r \in Region : SwapOut(r)
         \/ SwapWrite
  PROVE  Unseen
<1>1. CASE UNCHANGED vars
  BY <1>1 DEF vars, Unseen
<1>2. CASE \E p \in Proc, r \in Region : \E write \in BOOLEAN : Fault(p, r, write)
  BY <1>2 DEF Fault, regVars, Unseen
<1>3. ASSUME NEW p \in Proc, NEW kept, NEW bare, NEW undone,
             ForkFails(p, kept, bare, undone)
      PROVE  Unseen
  BY <1>3, Zenon DEF ForkFails, regVars, Unseen
<1>4. CASE \E p \in Proc : \E kept, done \in SUBSET Mine(p) : CloneFails(p, kept, done)
  BY <1>4 DEF CloneFails, regVars, Unseen
<1>5. CASE \E p \in Proc : \/ DemandLoad(p) \/ CowFault(p) \/ Handled(p)
                          \/ AskSwapper(p) \/ SwapIn(p)
  BY <1>5 DEF DemandLoad, CowFault, Handled, AskSwapper, SwapIn, regVars, Unseen
<1>6. CASE (\E r \in Region : SwapOut(r)) \/ SwapWrite
  BY <1>6 DEF SwapOut, SwapWrite, regVars, Unseen
<1> QED BY <1>1, <1>2, <1>3, <1>4, <1>5, <1>6

LEMMA MapSeen ==
  ASSUME Contents = stored, Contents' = stored',
         NEW p \in Proc, NEW r \in Region, NEW share \in BOOLEAN, Map(p, r, share)
  PROVE  Abs!AMap(p, r)
BY DEF Map, Abs!AMap, Contents, Unused, Abs!Unused

LEMMA WriteSeen ==
  ASSUME MemInv, Contents = stored, Contents' = stored',
         NEW p \in Proc, NEW r \in Region, NEW v \in Value, Write(p, r, v)
  PROVE  Abs!AWrite(p, r, v)
<1>1. p \in users[r] /\ stored[r] # Null
  BY Unpack DEF Write, Page
<1> QED BY <1>1 DEF Write, Abs!AWrite, Contents, regVars

LEMMA UnmapSeen ==
  ASSUME MemInv, Contents = stored, Contents' = stored',
         NEW p \in Proc, NEW r \in Region, Unmap(p, r)
  PROVE  Abs!AUnmap(p, r)
<1>1. stored \in [Region -> Value \cup {Null}]
  BY Unpack DEF TypeOK
<1> QED BY <1>1 DEF Unmap, Abs!AUnmap, Contents

LEMMA ShrinkSeen ==
  ASSUME Contents = stored, Contents' = stored',
         NEW p \in Proc, NEW r \in Region, Shrink(p, r)
  PROVE  Abs!AShrink(p, r)
BY DEF Shrink, Abs!AShrink, Contents, regVars

LEMMA GrowSeen ==
  ASSUME MemInv, Contents = stored, Contents' = stored',
         NEW p \in Proc, NEW r \in Region, Grow(p, r) \/ GrowFails(p, r)
  PROVE  \E v \in Value \cup {Null} : Abs!AGrow(p, r, v)
<1>1. stored[r] = Null
  BY Unpack DEF Grow, GrowFails, Page
<1>2. CASE Grow(p, r)
  <2>1. PICK f \in free : stored' = [stored EXCEPT ![r] = mem[f]]
    BY <1>2 DEF Grow
  <2>2. mem[f] \in Value
    BY Unpack DEF TypeOK
  <2>3. Abs!AGrow(p, r, mem[f])
    BY <1>1, <1>2, <2>1 DEF Grow, Abs!AGrow, Contents
  <2> QED BY <2>2, <2>3
<1>3. CASE GrowFails(p, r)
  <2>1. stored' = [stored EXCEPT ![r] = Null]
    BY <1>1, <1>3, Unpack DEF GrowFails, TypeOK
  <2>2. Abs!AGrow(p, r, Null)
    BY <1>1, <1>3, <2>1 DEF GrowFails, Abs!AGrow, Contents
  <2> QED BY <2>2
<1> QED BY <1>2, <1>3

LEMMA ForkSeen ==
  ASSUME MemInv, Contents = stored, Contents' = stored',
         NEW p \in Proc, NEW q \in Proc, NEW copy \in Copies(p), Fork(p, q, copy)
  PROVE  Abs!AFork(p, q, copy)
<1> DEFINE priv == Mine(p) \ shared
           join == Mine(p) \cap shared
           kid == {copy[r] : r \in priv}
           orig(s) == CHOOSE r \in priv : copy[r] = s
           of(s) == CHOOSE r \in Mine(p) : copy[r] = s
<1>1. /\ users' = [s \in Region |-> IF s \in kid \cup join THEN users[s] \cup {q} ELSE users[s]]
      /\ stored' = [s \in Region |-> IF s \in kid THEN stored[orig(s)] ELSE stored[s]]
      /\ Mine(q) = {} /\ UNCHANGED shared
  BY DEF Fork
<1>2. /\ \A r \in Mine(p) : IF r \in shared THEN copy[r] = r ELSE copy[r] \in Unused
      /\ \A r, s \in Mine(p) : copy[r] = copy[s] => r = s
  BY DEF Copies
<1>3. \A r \in Mine(p) : of(copy[r]) = r
  BY <1>2
<1>4. \A r \in priv : orig(copy[r]) = r
  BY <1>2
<1>5. \A r \in priv : copy[r] \in Region /\ users[copy[r]] = {}
  BY <1>2 DEF Unused
<1>6. \A s \in join : s \notin kid /\ copy[s] = s
  BY <1>2, <1>5 DEF Mine
<1> HIDE DEF orig, of
<1>7. \A s \in Region : s \in kid \cup join <=> \E r \in Mine(p) : copy[r] = s
  BY <1>2, <1>6
<1>8. \A s \in Region : (\E r \in Mine(p) : copy[r] = s) =>
        (IF s \in kid THEN stored[orig(s)] ELSE stored[s]) = stored[of(s)]
  <2> SUFFICES ASSUME NEW s \in Region, NEW r \in Mine(p), copy[r] = s
               PROVE  (IF s \in kid THEN stored[orig(s)] ELSE stored[s]) = stored[of(s)]
    OBVIOUS
  <2>1. CASE r \in priv
    BY <1>3, <1>4, <2>1
  <2>2. CASE r \notin priv
    BY <1>3, <1>6, <2>2
  <2> QED BY <2>1, <2>2
<1>9. users' = [s \in Region |->
        IF \E r \in Mine(p) : copy[r] = s THEN users[s] \cup {q} ELSE users[s]]
  BY <1>1, <1>7
<1>10. stored' = [s \in Region |->
         IF \E r \in Mine(p) : copy[r] = s THEN stored[of(s)] ELSE stored[s]]
  <2>1. \A s \in kid : \E r \in Mine(p) : copy[r] = s
    OBVIOUS
  <2> QED BY <1>1, <1>8, <2>1
<1>11. Contents' = [s \in Region |->
         IF \E r \in Mine(p) : copy[r] = s
         THEN Contents[CHOOSE r \in Mine(p) : copy[r] = s] ELSE Contents[s]]
  BY <1>10 DEF of
<1>12. Abs!Mine(p) = Mine(p) /\ Abs!Mine(q) = Mine(q) /\ Abs!Unused = Unused
  BY DEF Abs!Mine, Mine, Abs!Unused, Unused
<1> HIDE DEF priv, join, kid
<1>13. /\ Abs!Mine(q) = {}
       /\ \A r \in Abs!Mine(p) : IF r \in shared THEN copy[r] = r
                                                   ELSE copy[r] \in Abs!Unused
       /\ \A r, s \in Abs!Mine(p) : copy[r] = copy[s] => r = s
       /\ users' = [s \in Region |->
            IF \E r \in Abs!Mine(p) : copy[r] = s THEN users[s] \cup {q} ELSE users[s]]
       /\ Contents' = [s \in Region |->
            IF \E r \in Abs!Mine(p) : copy[r] = s
            THEN Contents[CHOOSE r \in Abs!Mine(p) : copy[r] = s] ELSE Contents[s]]
       /\ UNCHANGED shared
  BY <1>1, <1>2, <1>9, <1>11, <1>12
<1> QED BY <1>13 DEF Abs!AFork, Contents

(* Demand loading, copy-on-write and swapping are invisible: no fault and  *)
(* no step of the swapper changes what any process reads, a store changes  *)
(* one region, and a fork copies everything at once or nothing, up to and  *)
(* including the step that does fatal damage, where the model stops.       *)
THEOREM RefinesAddrSpaces == Spec => ImplementsAddrSpaces
<1>1. Init => Abs!AInit
  <2> SUFFICES ASSUME Init PROVE Abs!AInit
    OBVIOUS
  <2>1. \A r \in Region : Content(r) = Null
    BY DEF Init, Content
  <2> QED BY <2>1 DEF Init, Abs!AInit
<1>2. MemInv => Faithful
  BY ContentsStored
<1>3. MemInv /\ Faithful /\ Faithful' /\ [Next]_vars => [Abs!ANext]_(Abs!avars)
  <2> SUFFICES ASSUME MemInv, Faithful, Faithful', [Next]_vars
               PROVE  [Abs!ANext]_(Abs!avars)
    OBVIOUS
  <2>1. Contents = stored /\ Contents' = stored'
    BY DEF Faithful
  <2>2. CASE Unseen
    <3>1. UNCHANGED <<users, shared, Contents>>
      BY <2>1, <2>2 DEF Unseen
    <3> QED BY <3>1 DEF Abs!avars, Contents
  <2>3. ASSUME NEW p \in Proc, NEW r \in Region,
               \/ \E share \in BOOLEAN : Map(p, r, share)
               \/ Unmap(p, r) \/ Shrink(p, r)
        PROVE  Abs!ANext
    BY <2>1, <2>3, MapSeen, UnmapSeen, ShrinkSeen DEF Abs!ANext
  <2>4. ASSUME NEW p \in Proc, NEW r \in Region, NEW v \in Value, Write(p, r, v)
        PROVE  Abs!ANext
    BY <2>1, <2>4, WriteSeen DEF Abs!ANext
  <2>5. ASSUME NEW p \in Proc, NEW q \in Proc, NEW copy \in Copies(p), Fork(p, q, copy)
        PROVE  Abs!ANext
    <3>1. Abs!AFork(p, q, copy)
      BY <2>1, <2>5, ForkSeen
    <3>2. copy \in [Abs!Mine(p) -> Region]
      BY DEF Copies, Mine, Abs!Mine
    <3> QED BY <3>1, <3>2 DEF Abs!ANext
  <2>6. ASSUME NEW p \in Proc, NEW r \in Region, Grow(p, r) \/ GrowFails(p, r)
        PROVE  Abs!ANext
    BY <2>1, <2>6, GrowSeen DEF Abs!ANext
  <2>7. \/ Unseen \/ Abs!ANext
    BY <2>3, <2>4, <2>5, <2>6, QuietUnseen DEF Next, ProcNext
  <2> QED BY <2>2, <2>7
<1> QED BY <1>1, <1>2, <1>3, MemoryInvariant, PTL DEF Spec, ImplementsAddrSpaces, Abs!ASpec
=============================================================================
