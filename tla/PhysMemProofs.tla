--------------------------- MODULE PhysMemProofs ---------------------------
(***************************************************************************)
(* The counters of physical memory, the pool of swap-in jobs and the       *)
(* sleepers in reserve(), for every number of threads, frames and jobs.    *)
(***************************************************************************)
EXTENDS PhysMem, DList, FiniteSetTheorems, TLAPS

-----------------------------------------------------------------------------
(* What the list operations do to membership and to distinctness. *)

(* Appending links the new element and nothing else.                       *)
LEMMA AppendMembers ==
  ASSUME NEW S, NEW s \in Seq(S), NEW e \in S, NEW x
  PROVE  InList(Append(s, e), x) <=> InList(s, x) \/ x = e
<1> DEFINE a == Append(s, e)
<1>1. Len(a) = Len(s) + 1 /\ Len(s) \in Nat
  OBVIOUS
<1>2. \A i \in 1 .. Len(s) : a[i] = s[i]
  OBVIOUS
<1>3. a[Len(s) + 1] = e
  OBVIOUS
<1> HIDE DEF a
<1>4. InList(a, x) <=> InList(s, x) \/ x = e
  BY <1>1, <1>2, <1>3 DEF InList
<1> QED BY <1>4 DEF a

(* Appending an element that is not linked keeps the list distinct.        *)
LEMMA AppendDistinct ==
  ASSUME NEW S, NEW s \in Seq(S), NEW e \in S, Distinct(s), ~ InList(s, e)
  PROVE  Distinct(Append(s, e)) /\ Append(s, e) \in Seq(S)
<1> DEFINE a == Append(s, e)
<1>1. Len(a) = Len(s) + 1 /\ Len(s) \in Nat
  OBVIOUS
<1>2. \A i \in 1 .. Len(s) : a[i] = s[i]
  OBVIOUS
<1>3. a[Len(s) + 1] = e
  OBVIOUS
<1>5. a \in Seq(S)
  OBVIOUS
<1> HIDE DEF a
<1>4. Distinct(a)
  BY <1>1, <1>2, <1>3 DEF InList, Distinct
<1> QED BY <1>4, <1>5 DEF a

(* Taking the first element off a distinct list unlinks just that one.     *)
LEMMA TailMembers ==
  ASSUME NEW S, NEW s \in Seq(S), s # << >>, Distinct(s)
  PROVE  /\ Tail(s) \in Seq(S)
         /\ Head(s) \in S
         /\ InList(s, Head(s))
         /\ Distinct(Tail(s))
         /\ \A x : InList(Tail(s), x) <=> InList(s, x) /\ x # Head(s)
<1> DEFINE a == Tail(s)
<1>1. Len(a) = Len(s) - 1 /\ Len(s) \in Nat /\ Len(s) >= 1
  OBVIOUS
<1>2. \A i \in 1 .. Len(a) : a[i] = s[i + 1]
  OBVIOUS
<1>3. Head(s) = s[1] /\ s[1] \in S /\ a \in Seq(S)
  OBVIOUS
<1> HIDE DEF a
<1>4. Distinct(a)
  BY <1>1, <1>2 DEF Distinct
<1>5. ASSUME NEW x
      PROVE  InList(a, x) <=> InList(s, x) /\ x # s[1]
  <2>1. ASSUME InList(a, x)
        PROVE  InList(s, x) /\ x # s[1]
    BY <2>1, <1>1, <1>2 DEF InList, Distinct
  <2>2. ASSUME InList(s, x), x # s[1]
        PROVE  InList(a, x)
    <3>1. PICK i \in 1 .. Len(s) : s[i] = x
      BY <2>2 DEF InList
    <3>2. i - 1 \in 1 .. Len(a) /\ a[i - 1] = x
      BY <3>1, <2>2, <1>1, <1>2
    <3> QED BY <3>2 DEF InList
  <2> QED BY <2>1, <2>2
<1>6. InList(s, s[1])
  BY <1>1 DEF InList
<1> QED BY <1>3, <1>4, <1>5, <1>6 DEF a

(* Only the empty list has no members.                                     *)
LEMMA NoMembers ==
  ASSUME NEW S, NEW s \in Seq(S)
  PROVE  /\ s = << >> <=> \A x \in S : ~ InList(s, x)
         /\ \A x : InList(s, x) => x \in S
<1>1. ASSUME s # << >> PROVE \E x \in S : InList(s, x)
  <2>1. Len(s) \in Nat /\ Len(s) >= 1 /\ s[1] \in S
    BY <1>1
  <2> QED BY <2>1 DEF InList
<1>2. ASSUME s = << >> PROVE \A x \in S : ~ InList(s, x)
  BY <1>2 DEF InList
<1>3. \A x : InList(s, x) => x \in S
  BY DEF InList
<1> QED BY <1>1, <1>2, <1>3

-----------------------------------------------------------------------------
(* The reserves exist, and kernel frames come from the lower stack, so     *)
(* that free(KERN) gives back a lower one.                                 *)
Reserved ==
  /\ kern["upper"] = 0
  /\ kframes <= free["lower"]
  /\ kframes + cframes <= GetFreeDef

(* Whoever is in reserveFrames() still needs something, and uframes covers *)
(* what has been announced.                                                *)
Demanded ==
  /\ \A t \in Thread :
       pc[t] \in {"reserve", "asleep", "retry", "alloc"} => need[t] >= 1
  /\ Cardinality(Demand) <= uframes

(* The swapper swaps exactly where its flag says so.                       *)
FlagExact == swapping <=> spc \in {"out", "in", "indone", "panic"}

(* The threads that are blocked in swapIn() are those in the queue of jobs *)
(* and the one whose job is being handled.                                 *)
Queued ==
  /\ current # NoThread <=> spc \in {"in", "indone"}
  /\ Distinct(jobs) /\ ~ InList(jobs, current)
  /\ \A t \in Thread : pc[t] = "blocked" <=> InList(jobs, t) \/ current = t

(* Nobody waits for a job while one is free.                               *)
JobWaiting == {t \in Thread : pc[t] \in {"nojob", "jobfree"}}

WaitersExact ==
  /\ InUse <= JobCount
  /\ jobWaiters = Cardinality(JobWaiting)
  /\ \A t \in Thread : pc[t] = "nojob" => InUse = JobCount

(* The frame for the page is there until the swapper has used it, and so   *)
(* is the page on the disk.                                                *)
Outstanding == SwappingIn \ (IF spc = "indone" THEN {current} ELSE {})

FramesAtHand ==
  /\ \A t \in Thread : pc[t] \in InSwapIn /\ ~ (current = t /\ spc = "indone")
       => held[t] # None0
  /\ Cardinality(Outstanding) <= swapped

(* Whoever sleeps in reserve() behind the wakeup began to while the        *)
(* swapper handled a job.                                                  *)
Heard ==
  spc \in {"jobs", "in", "indone", "asleep"} =>
    \A t \in Thread : pc[t] = "asleep" => t \in unheard

PhysMemInv ==
  /\ TypeOK /\ Reserved /\ Demanded /\ FlagExact /\ Queued /\ WaitersExact
  /\ FramesAtHand /\ Heard

-----------------------------------------------------------------------------
(* Arithmetic that is not linear.                                          *)
LEMMA ShareOf ==
  ASSUME NEW a \in Nat, NEW n \in Nat \ {0}
  PROVE  a \div n \in 0 .. a
  OBVIOUS

LEMMA NoWrap ==
  ASSUME NEW w \in Nat, NEW a \in 0 .. (w - 1)
  PROVE  a % w = a
  OBVIOUS

LEMMA Rest ==
  ASSUME NEW w \in Nat \ {0}, NEW a \in Int
  PROVE  a % w \in Nat
  OBVIOUS

-----------------------------------------------------------------------------
(* Type correctness, by groups of variables.                               *)
StackType ==
  /\ free \in [Zone -> Nat]
  /\ kframes \in Nat /\ cframes \in Nat /\ uframes \in 0 .. MaxUframes
UseType ==
  /\ held \in [Thread -> [Zone -> Nat]]
  /\ mapped \in [Zone -> Nat] /\ kern \in [Zone -> Nat] /\ crit \in [Zone -> Nat]
  /\ swapped \in Nat
ThreadType ==
  /\ pc \in [Thread -> Points]
  /\ need \in [Thread -> 0 .. MaxCount] /\ swap \in [Thread -> BOOLEAN]
SwapperType ==
  /\ spc \in SwapperPoints /\ amount \in 0 .. AtOnce /\ swapping \in BOOLEAN
  /\ unheard \in SUBSET Thread /\ wrapped \in BOOLEAN
JobType ==
  /\ jobs \in Seq(Thread) /\ current \in Thread \cup {NoThread}
  /\ jobWaiters \in Nat

LEMMA TypeGroups ==
  TypeOK <=> StackType /\ UseType /\ ThreadType /\ SwapperType /\ JobType
  BY DEF TypeOK, StackType, UseType, ThreadType, SwapperType, JobType

(* What the stacks and the counters are.                                   *)
LEMMA StackTypes ==
  ASSUME TypeOK
  PROVE  /\ free \in [Zone -> Nat] /\ free["lower"] \in Nat /\ free["upper"] \in Nat
         /\ kframes \in Nat /\ cframes \in Nat /\ uframes \in 0 .. MaxUframes
<1>1. /\ free \in [Zone -> Nat]
      /\ kframes \in Nat /\ cframes \in Nat /\ uframes \in 0 .. MaxUframes
  BY DEF TypeOK
<1> QED BY <1>1 DEF Zone

LEMMA FreeDefType ==
  ASSUME TypeOK
  PROVE  GetFreeDef \in Nat /\ Avail \in Nat
<1>1. GetFreeDef \in Nat /\ GetFreeDef - (kframes + cframes) \in Int
  BY StackTypes DEF GetFreeDef
<1>2. Word \in Nat \ {0}
  BY PhysMemAssumption
<1> QED BY <1>1, <1>2, Rest DEF Avail

(* A frame comes or goes.                                                  *)
LEMMA StackChange ==
  ASSUME TypeOK, NEW z \in Zone
  PROVE  /\ GiveBack(z) => /\ free' \in [Zone -> Nat] /\ free'[z] = free[z] + 1
                           /\ \A y \in Zone \ {z} : free'[y] = free[y]
                           /\ GetFreeDef' = GetFreeDef + 1
         /\ Take(z) /\ free[z] > 0 =>
                           /\ free' \in [Zone -> Nat] /\ free'[z] = free[z] - 1
                           /\ \A y \in Zone \ {z} : free'[y] = free[y]
                           /\ GetFreeDef' = GetFreeDef - 1
  BY StackTypes DEF GiveBack, Take, GetFreeDef, Zone

(* The refill leaves the critical frames alone.                            *)
LEMMA KframesNowBound ==
  ASSUME TypeOK, Reserved, AllocateKern
  PROVE  /\ KframesNow \in Nat /\ KframesNow <= free["lower"]
         /\ KframesNow + cframes <= GetFreeDef
<1>0. /\ free["lower"] \in Nat /\ free["upper"] \in Nat
      /\ kframes \in Nat /\ cframes \in Nat
  BY StackTypes
<1>1. CASE kframes = 0
  <2>1. free["lower"] - cframes \in Nat
    BY <1>0, <1>1 DEF AllocateKern
  <2>2. KframesNow \in 0 .. (free["lower"] - cframes)
    BY <1>1, <2>1, ShareOf, PhysMemAssumption DEF KframesNow, Refill
  <2> QED BY <1>0, <2>1, <2>2 DEF GetFreeDef
<1>2. CASE kframes # 0
  BY <1>0, <1>2 DEF KframesNow, Reserved
<1> QED BY <1>1, <1>2

(* The demand is a finite set, and it has an element for each thread that  *)
(* has announced something.                                                *)
LEMMA PairsFinite ==
  ASSUME NEW A \in SUBSET Thread, NEW D \in SUBSET (A \X (1 .. MaxCount))
  PROVE  IsFiniteSet(D) /\ Cardinality(D) \in Nat
<1>1. IsFiniteSet(A)
  BY FS_Subset, PhysMemAssumption
<1>2. IsFiniteSet(1 .. MaxCount)
  BY FS_Interval, PhysMemAssumption
<1>3. IsFiniteSet(A \X (1 .. MaxCount))
  BY <1>1, <1>2, FS_Product
<1>4. IsFiniteSet(D)
  BY <1>3, FS_Subset
<1> QED BY <1>4, FS_CardinalityType

LEMMA DemandFinite ==
  /\ IsFiniteSet(Demand) /\ Cardinality(Demand) \in Nat
  /\ IsFiniteSet(Demand') /\ Cardinality(Demand') \in Nat
<1>1. Announced \in SUBSET Thread /\ Demand \in SUBSET (Announced \X (1 .. MaxCount))
  BY DEF Announced, Demand
<1>2. Announced' \in SUBSET Thread /\ Demand' \in SUBSET (Announced' \X (1 .. MaxCount))
  BY DEF Announced, Demand
<1> QED BY <1>1, <1>2, PairsFinite

LEMMA DemandOfOne ==
  ASSUME ThreadType, NEW t \in Announced, need[t] >= 1
  PROVE  Cardinality(Demand) >= 1
<1>1. t \in Thread /\ need[t] \in 1 .. MaxCount
  BY DEF Announced, ThreadType
<1>2. 1 \in 1 .. MaxCount /\ 1 <= need[t]
  BY <1>1, PhysMemAssumption
<1>3. <<t, 1>> \in Demand
  BY <1>2 DEF Demand
<1>4. Cardinality(Demand) # 0
  BY <1>3, DemandFinite, FS_EmptySet
<1> QED BY <1>4, DemandFinite

(* The reserves exist after every step.                                    *)
LEMMA ReservedInd ==
  ASSUME PhysMemInv, [Next]_vars
  PROVE  Reserved'
<1> USE DEF Zone, Reserved
<1>0. /\ TypeOK /\ Reserved
      /\ free \in [Zone -> Nat] /\ free["lower"] \in Nat /\ free["upper"] \in Nat
      /\ kframes \in Nat /\ cframes \in Nat /\ kern \in [Zone -> Nat]
  BY StackTypes DEF PhysMemInv, TypeOK
<1>1. CASE UNCHANGED <<free, kframes, cframes, kern>>
  BY <1>0, <1>1 DEF GetFreeDef
<1>2. ASSUME NEW t \in Thread, AllocateUsr(t)
      PROVE  Reserved'
  BY <1>0, <1>2, StackChange DEF AllocateUsr, AllocFrom, UsrMay, GetFreeDef
<1>3. ASSUME NEW t \in Thread, NEW z \in Zone, DiscardFrame(t, z)
      PROVE  Reserved'
  BY <1>0, <1>3, StackChange DEF DiscardFrame, counters, GetFreeDef
<1>4. ASSUME NEW z \in Zone, Unmap(z) \/ SwapOut(z) \/ FreeCrit(z) \/ FreeKern(z)
      PROVE  Reserved'
  <2>1. GiveBack(z) /\ UNCHANGED <<kframes, cframes, kern>> => Reserved'
    BY <1>0, StackChange DEF GetFreeDef
  <2>2. CASE FreeCrit(z)
    BY <1>0, <2>2, StackChange DEF FreeCrit, GetFreeDef
  <2>3. CASE FreeKern(z)
    <3>1. z = "lower"
      BY <1>0, <2>3 DEF FreeKern
    <3> QED BY <1>0, <2>3, <3>1, StackChange DEF FreeKern, GetFreeDef
  <2> QED BY <1>4, <2>1, <2>2, <2>3 DEF Unmap, SwapOut, counters
<1>5. CASE AllocateCrit
  BY <1>0, <1>5, StackChange DEF AllocateCrit, AllocFrom, GetFreeDef
<1>6. CASE AllocateKern
  <2>1. /\ KframesNow \in Nat /\ KframesNow <= free["lower"]
        /\ KframesNow + cframes <= GetFreeDef
    BY <1>0, <1>6, KframesNowBound
  <2>2. KframesNow > 0 => Take("lower") /\ kframes' = KframesNow - 1
    BY <1>6 DEF AllocateKern, AllocFrom
  <2>3. /\ cframes' = cframes /\ kern'["upper"] = kern["upper"]
        /\ ~ (KframesNow > 0) => UNCHANGED <<kframes, free>>
    BY <1>6, <1>0 DEF AllocateKern, AllocFrom
  <2> QED BY <1>0, <2>1, <2>2, <2>3, StackChange DEF GetFreeDef
<1> QED
  BY <1>1, <1>2, <1>3, <1>4, <1>5, <1>6
     DEF Next, ThreadNext, KernelNext, SwapperNext, vars, counters, uses,
         ReserveFrames, ReserveEnough, ReserveFails, ReserveWaits, ReserveAgain,
         WaitForFrames, ReserveServed, AllocateUsrFails, Map, Discards, Discarded,
         SwapInCall, WaitForJob, JobIsFree, AppendJob, AllocateKernWraps,
         UnmapSwapped, SwapperTop, SwapOutDone, SwapOutPanics, SwapperWakes,
         GetJob, SwapInDone, SwapperSleeps, SwapperWoken, SwapIn
-----------------------------------------------------------------------------
(* assert(uframes > 0) in allocate(): the counter does not wrap.           *)
LEMMA AllocateUsrLowers ==
  ASSUME TypeOK, Demanded, NEW t \in Thread, AllocateUsr(t)
  PROVE  uframes > 0 /\ uframes' = uframes - 1
<1>0. ThreadType /\ StackType
  BY TypeGroups
<1>1. uframes > 0
  <2>1. t \in Announced /\ need[t] >= 1
    BY DEF AllocateUsr, At, Demanded, Announced
  <2>2. Cardinality(Demand) >= 1 /\ Cardinality(Demand) \in Nat
    BY <1>0, <2>1, DemandOfOne, DemandFinite
  <2> QED BY <1>0, <2>2, PhysMemAssumption DEF Demanded, StackType
<1>2. uframes - 1 \in 0 .. (Word - 1)
  BY <1>0, <1>1, PhysMemAssumption DEF StackType
<1>3. (uframes - 1) % Word = uframes - 1
  BY <1>2, NoWrap, PhysMemAssumption
<1> QED BY <1>1, <1>3 DEF AllocateUsr

LEMMA StackTypeInd ==
  ASSUME PhysMemInv, [Next]_vars
  PROVE  StackType'
<1> USE DEF Zone, StackType
<1>0. TypeOK /\ Reserved /\ Demanded /\ StackType /\ ThreadType
  BY TypeGroups DEF PhysMemInv
<1>1. CASE UNCHANGED <<free, kframes, cframes, uframes>>
  BY <1>0, <1>1
<1>2. ASSUME NEW t \in Thread, ReserveEnough(t) \/ ReserveFails(t) \/ ReserveWaits(t)
      PROVE  StackType'
  <2>1. uframes' = uframes + need[t] /\ uframes + need[t] <= MaxUframes
    BY <1>2 DEF ReserveEnough, ReserveFails, ReserveWaits, Announce
  <2>2. UNCHANGED <<free, kframes, cframes>>
    BY <1>2 DEF ReserveEnough, ReserveFails, ReserveWaits, WaitForFrames
  <2>3. need[t] \in Nat
    BY <1>0 DEF ThreadType
  <2> QED BY <1>0, <2>1, <2>2, <2>3, PhysMemAssumption
<1>3. ASSUME NEW t \in Thread, AllocateUsr(t)
      PROVE  StackType'
  <2>1. free' \in [Zone -> Nat]
    BY <1>0, <1>3, StackChange DEF AllocateUsr, AllocFrom
  <2>2. uframes' = uframes - 1 /\ uframes > 0
    BY <1>0, <1>3, AllocateUsrLowers
  <2>3. UNCHANGED <<kframes, cframes>>
    BY <1>3 DEF AllocateUsr
  <2>4. uframes' \in 0 .. MaxUframes
    BY <1>0, <2>2, PhysMemAssumption
  <2> QED BY <1>0, <2>1, <2>3, <2>4
<1>4. ASSUME NEW z \in Zone, GiveBack(z), UNCHANGED <<kframes, cframes, uframes>>
      PROVE  StackType'
  BY <1>0, <1>4, StackChange
<1>5. ASSUME NEW z \in Zone, FreeCrit(z) \/ FreeKern(z)
      PROVE  StackType'
  <2>1. GiveBack(z) /\ uframes' = uframes
    BY <1>5 DEF FreeCrit, FreeKern
  <2>2. kframes' \in Nat /\ cframes' \in Nat
    BY <1>0, <1>5 DEF FreeCrit, FreeKern
  <2> QED BY <1>0, <2>1, <2>2, StackChange
<1>6. CASE AllocateCrit
  <2>1. cframes' \in Nat /\ UNCHANGED <<kframes, uframes>>
    BY <1>0, <1>6 DEF AllocateCrit
  <2>2. free' \in [Zone -> Nat]
    BY <1>0, <1>6, StackChange DEF AllocateCrit, AllocFrom
  <2> QED BY <1>0, <2>1, <2>2
<1>7. CASE AllocateKern
  <2>1. KframesNow \in Nat /\ KframesNow <= free["lower"]
    BY <1>0, <1>7, KframesNowBound
  <2>2. cframes' = cframes /\ uframes' = uframes
    BY <1>7 DEF AllocateKern
  <2>3. CASE KframesNow > 0
    <3>1. Take("lower") /\ kframes' = KframesNow - 1
      BY <1>7, <2>3 DEF AllocateKern, AllocFrom
    <3> QED BY <1>0, <2>1, <2>2, <2>3, <3>1, StackChange, StackTypes
  <2>4. CASE ~ (KframesNow > 0)
    <3>1. UNCHANGED <<kframes, free>>
      BY <1>7, <2>4 DEF AllocateKern
    <3> QED BY <1>0, <2>2, <3>1
  <2> QED BY <2>3, <2>4
<1> QED
  BY <1>1, <1>2, <1>3, <1>4, <1>5, <1>6, <1>7
     DEF Next, ThreadNext, KernelNext, SwapperNext, vars, counters,
         ReserveFrames, ReserveAgain,
         WaitForFrames, ReserveServed, AllocateUsrFails, Map, Discards, Discarded,
         DiscardFrame, Unmap, SwapOut,
         SwapInCall, WaitForJob, JobIsFree, AppendJob, AllocateKernWraps,
         UnmapSwapped, SwapperTop, SwapOutDone, SwapOutPanics, SwapperWakes,
         GetJob, SwapInDone, SwapperSleeps, SwapperWoken, SwapIn

LEMMA SwappingInFinite ==
  IsFiniteSet(SwappingIn) /\ Cardinality(SwappingIn) \in Nat
<1>1. IsFiniteSet(SwappingIn)
  BY FS_Subset, PhysMemAssumption DEF SwappingIn
<1> QED BY <1>1, FS_CardinalityType

LEMMA UseTypeInd ==
  ASSUME PhysMemInv, [Next]_vars
  PROVE  UseType'
<1> USE DEF Zone, UseType
<1>0. UseType /\ StackType /\ FramesAtHand /\ Queued /\ SwapperType /\ ThreadType /\ JobType
  BY TypeGroups DEF PhysMemInv
<1>1. CASE UNCHANGED uses
  BY <1>0, <1>1 DEF uses
<1>2. ASSUME NEW t \in Thread, AllocateUsr(t)
      PROVE  UseType'
  BY <1>0, <1>2 DEF AllocateUsr, AllocFrom
<1>3. ASSUME NEW t \in Thread, NEW z \in Zone, Map(t, z) \/ DiscardFrame(t, z)
      PROVE  UseType'
  BY <1>0, <1>3 DEF Map, DiscardFrame
<1>4. ASSUME NEW z \in Zone, Unmap(z) \/ FreeCrit(z) \/ FreeKern(z) \/ SwapOut(z)
      PROVE  UseType'
  BY <1>0, <1>4 DEF Unmap, FreeCrit, FreeKern, SwapOut
<1>5. CASE UnmapSwapped
  <2>1. Cardinality(SwappingIn) \in Nat
    BY SwappingInFinite
  <2> QED BY <1>0, <1>5, <2>1 DEF UnmapSwapped
<1>6. CASE AllocateCrit
  BY <1>0, <1>6 DEF AllocateCrit, AllocFrom
<1>7. CASE AllocateKern
  BY <1>0, <1>7 DEF AllocateKern, AllocFrom
<1>8. ASSUME NEW z \in Zone, SwapIn(z)
      PROVE  UseType'
  <2>1. current \in SwappingIn /\ spc = "in"
    BY <1>0, <1>8 DEF SwapIn, Queued, SwappingIn, InSwapIn, JobType
  <2>2. Cardinality(SwappingIn) <= swapped
    <3>1. Outstanding = SwappingIn
      BY <2>1 DEF Outstanding
    <3> QED BY <1>0, <2>1, <3>1 DEF FramesAtHand
  <2>3. Cardinality(SwappingIn) \in Nat /\ Cardinality(SwappingIn) # 0
    BY <2>1, SwappingInFinite, FS_EmptySet
  <2>4. swapped - 1 \in Nat
    BY <1>0, <2>2, <2>3
  <2> QED BY <1>0, <1>8, <2>1, <2>4 DEF SwapIn, SwappingIn
<1> QED
  BY <1>1, <1>2, <1>3, <1>4, <1>5, <1>6, <1>7, <1>8
     DEF Next, ThreadNext, KernelNext, SwapperNext, vars,
         ReserveFrames, ReserveEnough, ReserveFails, ReserveWaits, ReserveAgain,
         WaitForFrames, ReserveServed, AllocateUsrFails, Discards, Discarded,
         SwapInCall, WaitForJob, JobIsFree, AppendJob, AllocateKernWraps,
         SwapperTop, SwapOutDone, SwapOutPanics, SwapperWakes,
         GetJob, SwapInDone, SwapperSleeps, SwapperWoken

LEMMA ThreadTypeInd ==
  ASSUME PhysMemInv, [Next]_vars
  PROVE  ThreadType'
<1> USE DEF ThreadType, Goto, Points, InSwapIn
<1>0. ThreadType /\ Demanded /\ JobType /\ Queued
  BY TypeGroups DEF PhysMemInv
<1>1. CASE UNCHANGED threadVars
  BY <1>0, <1>1 DEF threadVars
<1>2. ASSUME NEW t \in Thread, NEW n \in 1 .. MaxCount, NEW s \in BOOLEAN,
             ReserveFrames(t, n, s)
      PROVE  ThreadType'
  BY <1>0, <1>2, PhysMemAssumption DEF ReserveFrames
<1>3. ASSUME NEW t \in Thread, NEW q \in Points, pc' = [pc EXCEPT ![t] = q],
             UNCHANGED <<need, swap>>
      PROVE  ThreadType'
  BY <1>0, <1>3
<1>4. ASSUME NEW t \in Thread, ReserveFails(t)
      PROVE  ThreadType'
  BY <1>0, <1>4, PhysMemAssumption DEF ReserveFails
<1>5. ASSUME NEW t \in Thread, AllocateUsr(t)
      PROVE  ThreadType'
  <2>1. need[t] >= 1 /\ need[t] \in 0 .. MaxCount
    BY <1>0, <1>5 DEF AllocateUsr, At, Demanded
  <2>2. need' \in [Thread -> 0 .. MaxCount]
    <3>1. need[t] - 1 \in 0 .. MaxCount
      BY <2>1, PhysMemAssumption
    <3> QED BY <1>0, <1>5, <3>1 DEF AllocateUsr
  <2> QED BY <1>0, <1>5, <2>2 DEF AllocateUsr
<1>6. CASE SwapperWakes
  BY <1>0, <1>6 DEF SwapperWakes, Woken
<1>7. CASE SwapInDone
  BY <1>0, <1>7 DEF SwapInDone, FreeJob, Woken
<1>8. ASSUME NEW t \in Thread, ThreadNext(t)
      PROVE  ThreadType'
  BY <1>1, <1>2, <1>3, <1>4, <1>5, <1>8
     DEF ThreadNext, ReserveEnough, ReserveWaits, ReserveAgain, threadVars,
         WaitForFrames, ReserveServed, AllocateUsrFails, Discards, Discarded,
         SwapInCall, WaitForJob, JobIsFree, AppendJob, Map, DiscardFrame
<1> QED
  BY <1>1, <1>6, <1>7, <1>8
     DEF Next, KernelNext, SwapperNext, vars, AllocateKernWraps,
         AllocateCrit, AllocateKern, UnmapSwapped, FreeCrit, FreeKern, Unmap,
         SwapperTop, SwapOutDone, SwapOutPanics,
         GetJob, SwapperSleeps, SwapperWoken, SwapOut, SwapIn

(* The amount to swap out.                                                 *)
LEMMA AmountType ==
  ASSUME TypeOK, Avail < uframes
  PROVE  Amount \in 0 .. AtOnce
<1> DEFINE d == uframes - Avail
<1>1. d \in Nat /\ AtOnce \in Nat
  BY FreeDefType, StackTypes, PhysMemAssumption
<1>2. \E x \in {AtOnce, d} : \A y \in {AtOnce, d} : x <= y
  BY <1>1
<1>3. Amount \in {AtOnce, d} /\ \A y \in {AtOnce, d} : Amount <= y
  BY <1>2 DEF Amount, Min
<1> QED BY <1>1, <1>3

LEMMA SwapperTypeInd ==
  ASSUME PhysMemInv, [Next]_vars
  PROVE  SwapperType'
<1> USE DEF SwapperType, SwapperPoints, Locked
<1>0. SwapperType /\ TypeOK
  BY TypeGroups DEF PhysMemInv
<1>1. CASE UNCHANGED <<swapperVars, unheard, wrapped>>
  BY <1>0, <1>1 DEF swapperVars
<1>2. ASSUME NEW t \in Thread, ReserveWaits(t) \/ ReserveAgain(t)
      PROVE  SwapperType'
  BY <1>0, <1>2 DEF ReserveWaits, ReserveAgain, WaitForFrames, NotifySwapper
<1>3. ASSUME NEW t \in Thread, AppendJob(t)
      PROVE  SwapperType'
  BY <1>0, <1>3 DEF AppendJob, NotifySwapper
<1>4. CASE AllocateKernWraps
  BY <1>0, <1>4 DEF AllocateKernWraps, swapperVars
<1>5. CASE SwapperTop
  BY <1>0, <1>5, AmountType DEF SwapperTop
<1>6. CASE SwapOutDone \/ SwapOutPanics
  BY <1>0, <1>6 DEF SwapOutDone, SwapOutPanics
<1>7. CASE SwapperWakes \/ SwapperSleeps \/ SwapperWoken
  BY <1>0, <1>7 DEF SwapperWakes, SwapperSleeps, SwapperWoken
<1>8. CASE GetJob \/ SwapInDone
  BY <1>0, <1>8 DEF GetJob, SwapInDone
<1>9. ASSUME NEW z \in Zone, SwapOut(z) \/ SwapIn(z)
      PROVE  SwapperType'
  BY <1>0, <1>9, PhysMemAssumption DEF SwapOut, SwapIn
<1> QED
  BY <1>1, <1>2, <1>3, <1>4, <1>5, <1>6, <1>7, <1>8, <1>9
     DEF Next, ThreadNext, KernelNext, SwapperNext, vars,
         ReserveFrames, ReserveEnough, ReserveFails,
         ReserveServed, AllocateUsr, AllocateUsrFails, Discards, Discarded,
         SwapInCall, WaitForJob, JobIsFree, Map, DiscardFrame,
         AllocateCrit, AllocateKern, UnmapSwapped, FreeCrit, FreeKern, Unmap

LEMMA JobTypeInd ==
  ASSUME PhysMemInv, [Next]_vars
  PROVE  JobType'
<1> USE DEF JobType
<1>0. JobType /\ WaitersExact
  BY TypeGroups DEF PhysMemInv
<1>1. CASE UNCHANGED jobVars
  BY <1>0, <1>1 DEF jobVars
<1>2. ASSUME NEW t \in Thread, WaitForJob(t)
      PROVE  JobType'
  BY <1>0, <1>2 DEF WaitForJob
<1>3. ASSUME NEW t \in Thread, JobIsFree(t)
      PROVE  JobType'
  <2>1. t \in JobWaiting
    BY <1>3 DEF JobIsFree, At, JobWaiting
  <2>2. IsFiniteSet(JobWaiting)
    BY FS_Subset, PhysMemAssumption DEF JobWaiting
  <2>3. jobWaiters # 0
    BY <1>0, <2>1, <2>2, FS_EmptySet DEF WaitersExact
  <2> QED BY <1>0, <1>3, <2>3 DEF JobIsFree
<1>4. ASSUME NEW t \in Thread, AppendJob(t)
      PROVE  JobType'
  BY <1>0, <1>4 DEF AppendJob
<1>5. CASE GetJob
  BY <1>0, <1>5 DEF GetJob
<1>6. CASE SwapInDone
  BY <1>0, <1>6 DEF SwapInDone
<1> QED
  BY <1>1, <1>2, <1>3, <1>4, <1>5, <1>6
     DEF Next, ThreadNext, KernelNext, SwapperNext, vars,
         ReserveFrames, ReserveEnough, ReserveFails, ReserveWaits, ReserveAgain,
         WaitForFrames, ReserveServed, AllocateUsr, AllocateUsrFails, Discards,
         Discarded, SwapInCall, Map, DiscardFrame, AllocateKernWraps,
         AllocateCrit, AllocateKern, UnmapSwapped, FreeCrit, FreeKern, Unmap,
         SwapperTop, SwapOutDone, SwapOutPanics, SwapperWakes,
         SwapperSleeps, SwapperWoken, SwapOut, SwapIn

-----------------------------------------------------------------------------
(* What has been announced.                                                *)
LEMMA DemandSmaller ==
  ASSUME ThreadType, ThreadType',
         \A t \in Thread : t \in Announced' => t \in Announced /\ need'[t] <= need[t]
  PROVE  Cardinality(Demand') <= Cardinality(Demand)
<1>1. Demand' \subseteq Demand
  <2> SUFFICES ASSUME NEW d \in Demand'
               PROVE  d \in Demand
    OBVIOUS
  <2>1. /\ d \in Announced' \X (1 .. MaxCount) /\ d[2] <= need'[d[1]]
        /\ d[1] \in Thread /\ d[1] \in Announced' /\ d[2] \in 1 .. MaxCount
    BY DEF Demand, Announced
  <2>2. need[d[1]] \in Nat /\ need'[d[1]] \in Nat
    BY <2>1 DEF ThreadType
  <2>3. d[1] \in Announced /\ d[2] <= need[d[1]]
    BY <2>1, <2>2
  <2> QED BY <2>1, <2>3 DEF Demand
<1> QED BY <1>1, DemandFinite, FS_Subset

LEMMA DemandGrows ==
  ASSUME ThreadType, ThreadType', NEW t \in Thread, need' = need,
         \A u \in Thread : u \in Announced' => u \in Announced \/ u = t
  PROVE  Cardinality(Demand') <= Cardinality(Demand) + need[t]
<1> DEFINE own == {t} \X (1 .. need[t])
<1>1. need[t] \in Nat /\ need[t] <= MaxCount
  BY PhysMemAssumption DEF ThreadType
<1>2. Demand' \subseteq Demand \cup own
  <2> SUFFICES ASSUME NEW d \in Demand', d \notin Demand
               PROVE  d \in own
    OBVIOUS
  <2>1. /\ d \in Announced' \X (1 .. MaxCount) /\ d[2] <= need[d[1]]
        /\ d[1] \in Thread /\ d[1] \in Announced' /\ d[2] \in 1 .. MaxCount
    BY DEF Demand, Announced
  <2>2. d[1] = t
    BY <2>1 DEF Demand
  <2> QED BY <1>1, <2>1, <2>2
<1>3. IsFiniteSet({t}) /\ Cardinality({t}) = 1
  BY FS_Singleton
<1>4. IsFiniteSet(1 .. need[t]) /\ Cardinality(1 .. need[t]) = need[t]
  BY <1>1, FS_Interval
<1>5. IsFiniteSet(own) /\ Cardinality(own) = 1 * need[t]
  BY <1>3, <1>4, FS_Product
<1>6. /\ IsFiniteSet(Demand \cup own)
      /\ Cardinality(Demand \cup own)
           = Cardinality(Demand) + Cardinality(own) - Cardinality(Demand \cap own)
  BY <1>5, DemandFinite, FS_Union
<1>7. Cardinality(Demand \cap own) \in Nat
  BY <1>5, FS_Intersection, FS_CardinalityType
<1>8. Cardinality(Demand') <= Cardinality(Demand \cup own)
  BY <1>2, <1>6, FS_Subset
<1> HIDE DEF own
<1>9. Cardinality(own) = need[t]
  BY <1>1, <1>5
<1> QED BY <1>1, <1>6, <1>7, <1>8, <1>9, DemandFinite

LEMMA DemandShrinks ==
  ASSUME ThreadType, ThreadType', NEW t \in Announced, need[t] >= 1,
         need' = [need EXCEPT ![t] = @ - 1],
         \A u \in Thread : u \in Announced' => u \in Announced
  PROVE  Cardinality(Demand') <= Cardinality(Demand) - 1
<1> DEFINE d0 == <<t, need[t]>>
<1>0. t \in Thread /\ need[t] \in 1 .. MaxCount
  BY DEF ThreadType, Announced
<1>1. d0 \in Demand
  BY <1>0 DEF Demand
<1>2. Demand' \subseteq Demand \ {d0}
  <2> SUFFICES ASSUME NEW d \in Demand'
               PROVE  d \in Demand /\ d # d0
    OBVIOUS
  <2>1. /\ d \in Announced' \X (1 .. MaxCount) /\ d[2] <= need'[d[1]]
        /\ d[1] \in Thread /\ d[1] \in Announced /\ d[2] \in 1 .. MaxCount
    BY DEF Demand, Announced
  <2>2. need[d[1]] \in Nat /\ need'[d[1]] \in Nat /\ need'[t] = need[t] - 1
    BY <1>0, <2>1 DEF ThreadType
  <2>3. d[2] <= need[d[1]] /\ (d[1] = t => d[2] < need[t])
    BY <1>0, <2>1, <2>2 DEF ThreadType
  <2>4. d \in Demand
    BY <2>1, <2>3 DEF Demand
  <2>5. d # d0
    BY <1>0, <2>1, <2>3
  <2> QED BY <2>4, <2>5
<1>3. IsFiniteSet(Demand \ {d0}) /\ Cardinality(Demand \ {d0}) = Cardinality(Demand) - 1
  BY <1>1, DemandFinite, FS_RemoveElement
<1> HIDE DEF d0
<1> QED BY <1>2, <1>3, FS_Subset

(* Nobody else has announced anything, nobody needs more.                  *)
LEMMA DemandKept ==
  ASSUME ThreadType, ThreadType', Demanded, uframes \in Nat, uframes' \in Nat,
         uframes <= uframes',
         \A u \in Thread :
           /\ pc'[u] \in {"reserve", "asleep", "retry", "alloc"} => need'[u] >= 1
           /\ pc'[u] \in {"asleep", "retry", "alloc"} =>
                /\ pc[u] \in {"asleep", "retry", "alloc"}
                /\ need'[u] <= need[u]
  PROVE  Demanded'
<1>1. \A u \in Thread : u \in Announced' => u \in Announced /\ need'[u] <= need[u]
  BY DEF Announced
<1>2. Cardinality(Demand') <= Cardinality(Demand)
  BY <1>1, DemandSmaller
<1>3. Cardinality(Demand) \in Nat /\ Cardinality(Demand') \in Nat
  BY DemandFinite
<1> QED BY <1>2, <1>3 DEF Demanded

LEMMA DemandedInd ==
  ASSUME PhysMemInv, [Next]_vars
  PROVE  Demanded'
<1>0. ThreadType /\ ThreadType' /\ TypeOK /\ Demanded /\ uframes \in Nat
      /\ uframes' \in Nat /\ JobType /\ Queued
  <2>1. StackType /\ StackType'
    BY TypeGroups, StackTypeInd DEF PhysMemInv
  <2> QED BY <2>1, TypeGroups, ThreadTypeInd, PhysMemAssumption
          DEF PhysMemInv, StackType
<1>n. /\ \A u \in Thread : need[u] \in Nat /\ need'[u] \in Nat
      /\ \A u \in Thread :
           pc[u] \in {"reserve", "asleep", "retry", "alloc"} => need[u] >= 1
  BY <1>0 DEF ThreadType, Demanded
<1> USE DEF At, Goto
<1>1. CASE UNCHANGED <<pc, need, uframes>>
  BY <1>0, <1>n, <1>1, DemandKept
<1>2. ASSUME NEW t \in Thread, NEW n \in 1 .. MaxCount, NEW s \in BOOLEAN,
             ReserveFrames(t, n, s)
      PROVE  Demanded'
  <2>1. /\ pc'[t] = "reserve" /\ need'[t] >= 1 /\ uframes' = uframes
        /\ \A u \in Thread \ {t} : pc'[u] = pc[u] /\ need'[u] = need[u]
    BY <1>0, <1>2 DEF ReserveFrames, counters, ThreadType
  <2> QED BY <1>0, <1>n, <2>1, DemandKept
<1>3. ASSUME NEW t \in Thread, ReserveEnough(t) \/ ReserveWaits(t)
      PROVE  Demanded'
  <2>1. need' = need /\ uframes' = uframes + need[t]
    BY <1>3 DEF ReserveEnough, ReserveWaits, Announce, WaitForFrames
  <2>2. \A u \in Thread : u # t => pc'[u] = pc[u]
    BY <1>0, <1>3 DEF ReserveEnough, ReserveWaits, WaitForFrames, ThreadType
  <2>3. pc[t] = "reserve"
    BY <1>3 DEF ReserveEnough, ReserveWaits
  <2>4. Cardinality(Demand') <= Cardinality(Demand) + need[t]
    <3>1. \A u \in Thread : u \in Announced' => u \in Announced \/ u = t
      BY <2>2 DEF Announced
    <3> QED BY <1>0, <2>1, <3>1, DemandGrows
  <2>5. Cardinality(Demand') \in Nat /\ Cardinality(Demand) \in Nat
    BY DemandFinite
  <2>6. Cardinality(Demand') <= uframes'
    BY <1>0, <1>n, <2>1, <2>4, <2>5 DEF Demanded
  <2> QED BY <1>0, <1>n, <2>1, <2>2, <2>3, <2>6 DEF Demanded
<1>4. ASSUME NEW t \in Thread, ReserveFails(t)
      PROVE  Demanded'
  <2>1. /\ pc'[t] = "discard" /\ uframes' = uframes + need[t]
        /\ \A u \in Thread \ {t} : pc'[u] = pc[u] /\ need'[u] = need[u]
    BY <1>0, <1>4 DEF ReserveFails, Announce, ThreadType
  <2> QED BY <1>0, <1>n, <2>1, DemandKept
<1>5. ASSUME NEW t \in Thread, AllocateUsr(t)
      PROVE  Demanded'
  <2>1. need[t] >= 1 /\ t \in Announced
    BY <1>n, <1>5 DEF AllocateUsr, Announced
  <2>2. need' = [need EXCEPT ![t] = @ - 1]
        /\ \A u \in Thread : pc'[u] = IF u = t /\ need[t] = 1 THEN "have" ELSE pc[u]
    BY <1>0, <1>5 DEF AllocateUsr, ThreadType
  <2>3. Cardinality(Demand') <= Cardinality(Demand) - 1
    <3>1. \A u \in Thread : u \in Announced' => u \in Announced
      BY <2>2 DEF Announced
    <3> QED BY <1>0, <2>1, <2>2, <3>1, DemandShrinks
  <2>4. uframes' = uframes - 1
    BY <1>0, <1>5, AllocateUsrLowers
  <2>5. \A u \in Thread : pc'[u] \in {"reserve", "asleep", "retry", "alloc"} => need'[u] >= 1
    <3>1. need'[t] = need[t] - 1 /\ \A u \in Thread \ {t} : need'[u] = need[u]
      BY <1>0, <2>2 DEF ThreadType
    <3> QED BY <1>n, <2>1, <2>2, <3>1
  <2>6. Cardinality(Demand') \in Nat /\ Cardinality(Demand) \in Nat
    BY DemandFinite
  <2> QED BY <1>0, <2>3, <2>4, <2>5, <2>6 DEF Demanded
<1>6. ASSUME NEW t \in Thread, UNCHANGED <<need, uframes>>,
             NEW q \in {"alloc", "asleep", "reserve"}, pc' = [pc EXCEPT ![t] = q],
             pc[t] \in {"retry", "alloc"}
      PROVE  Demanded'
  <2>1. pc'[t] = q /\ \A u \in Thread \ {t} : pc'[u] = pc[u]
    BY <1>0, <1>6 DEF ThreadType
  <2> QED BY <1>0, <1>n, <1>6, <2>1, DemandKept
<1>7. ASSUME NEW t \in Thread, UNCHANGED <<need, uframes>>,
             NEW q \in InSwapIn \cup {"idle", "discard", "have"},
             pc' = [pc EXCEPT ![t] = q]
      PROVE  Demanded'
  <2>1. /\ pc'[t] \notin {"reserve", "asleep", "retry", "alloc"}
        /\ \A u \in Thread \ {t} : pc'[u] = pc[u]
    BY <1>0, <1>7 DEF ThreadType, InSwapIn
  <2> QED BY <1>0, <1>n, <1>7, <2>1, DemandKept
<1>8. CASE SwapperWakes
  <2>1. UNCHANGED <<need, uframes>>
    BY <1>8 DEF SwapperWakes, counters
  <2>2. \A u \in Thread : pc'[u] = IF pc[u] = "asleep" THEN "retry" ELSE pc[u]
    BY <1>8 DEF SwapperWakes, Woken
  <2> QED BY <1>0, <1>n, <2>1, <2>2, DemandKept
<1>9. CASE SwapInDone
  <2>1. UNCHANGED <<need, uframes>>
    BY <1>9 DEF SwapInDone, counters
  <2>2. \A u \in Thread : pc'[u] = pc[u] \/ pc'[u] \in {"have", "jobfree"}
    BY <1>0, <1>9 DEF SwapInDone, FreeJob, Woken, ThreadType
  <2> QED BY <1>0, <1>n, <2>1, <2>2, DemandKept
<1>10. ASSUME NEW t \in Thread, ThreadNext(t)
       PROVE  Demanded'
  BY <1>1, <1>2, <1>3, <1>4, <1>5, <1>6, <1>7, <1>10
     DEF ThreadNext, ReserveAgain, counters, threadVars, InSwapIn,
         WaitForFrames, ReserveServed, AllocateUsrFails, Discards, Discarded,
         SwapInCall, WaitForJob, JobIsFree, AppendJob, Map, DiscardFrame
<1> QED
  BY <1>1, <1>8, <1>9, <1>10
     DEF Next, KernelNext, SwapperNext, vars, counters, threadVars,
         AllocateKernWraps,
         AllocateCrit, AllocateKern, UnmapSwapped, FreeCrit, FreeKern, Unmap,
         SwapperTop, SwapOutDone, SwapOutPanics,
         GetJob, SwapperSleeps, SwapperWoken, SwapOut, SwapIn

-----------------------------------------------------------------------------
(* The flag of the swapper.                                                *)
LEMMA FlagExactInd ==
  ASSUME PhysMemInv, [Next]_vars
  PROVE  FlagExact'
<1> USE DEF FlagExact
<1>0. FlagExact /\ SwapperType
  BY TypeGroups DEF PhysMemInv
<1>1. CASE UNCHANGED <<spc, swapping>>
  BY <1>0, <1>1
<1>2. ASSUME NotifySwapper, swapping' = swapping
      PROVE  FlagExact'
  BY <1>0, <1>2 DEF NotifySwapper
<1>3. CASE SwapperTop
  BY <1>0, <1>3 DEF SwapperTop
<1>4. CASE SwapOutDone \/ SwapOutPanics
  BY <1>0, <1>4 DEF SwapOutDone, SwapOutPanics
<1>5. CASE SwapperWakes \/ SwapperSleeps \/ SwapperWoken
  BY <1>0, <1>5 DEF SwapperWakes, SwapperSleeps, SwapperWoken
<1>6. CASE GetJob \/ SwapInDone
  BY <1>0, <1>6 DEF GetJob, SwapInDone
<1>7. ASSUME NEW z \in Zone, SwapIn(z)
      PROVE  FlagExact'
  BY <1>0, <1>7 DEF SwapIn
<1> QED
  BY <1>1, <1>2, <1>3, <1>4, <1>5, <1>6, <1>7
     DEF Next, ThreadNext, KernelNext, SwapperNext, vars, swapperVars,
         ReserveFrames, ReserveEnough, ReserveFails, ReserveWaits, ReserveAgain,
         WaitForFrames, ReserveServed, AllocateUsr, AllocateUsrFails, Discards,
         Discarded, SwapInCall, WaitForJob, JobIsFree, AppendJob, Map, DiscardFrame,
         AllocateKernWraps, AllocateCrit, AllocateKern, UnmapSwapped, FreeCrit,
         FreeKern, Unmap, SwapOut

(* The sleepers.                                                           *)
LEMMA HeardInd ==
  ASSUME PhysMemInv, [Next]_vars
  PROVE  Heard'
<1> USE DEF Heard, At, Unlocked, Locked, Goto
<1>0. Heard /\ FlagExact /\ SwapperType /\ ThreadType
  BY TypeGroups DEF PhysMemInv
<1>1. CASE UNCHANGED <<spc, pc, unheard>>
  BY <1>0, <1>1
<1>2. ASSUME NEW t \in Thread, WaitForFrames(t), Unlocked
      PROVE  Heard'
  <2>1. \A u \in Thread \ {t} : pc'[u] = pc[u]
    BY <1>0, <1>2 DEF WaitForFrames, ThreadType
  <2>2. unheard \subseteq unheard' /\ (spc \in {"in", "indone"} => t \in unheard')
    BY <1>2 DEF WaitForFrames
  <2>3. spc' = IF ~ swapping /\ spc = "asleep" THEN "woken" ELSE spc
    BY <1>2 DEF WaitForFrames, NotifySwapper
  <2>4. spc' \in {"jobs", "in", "indone", "asleep"} => spc = spc' /\ spc' \in {"in", "indone"}
    BY <1>0, <1>2, <2>3 DEF FlagExact
  <2> QED BY <1>0, <2>1, <2>2, <2>4
<1>3. ASSUME NEW t \in Thread, NEW q, q # "asleep", pc' = [pc EXCEPT ![t] = q],
             UNCHANGED <<spc, unheard>>
      PROVE  Heard'
  BY <1>0, <1>3 DEF ThreadType
<1>4. ASSUME NEW t \in Thread, AppendJob(t)
      PROVE  Heard'
  <2>1. pc' = [pc EXCEPT ![t] = "blocked"] /\ unheard' = unheard
    BY <1>4 DEF AppendJob
  <2>2. spc' \in {spc, "woken"}
    BY <1>4 DEF AppendJob, NotifySwapper
  <2> QED BY <1>0, <2>1, <2>2 DEF ThreadType
<1>5. ASSUME NEW t \in Thread, AllocateUsr(t)
      PROVE  Heard'
  <2>1. \A u \in Thread : pc'[u] = pc[u] \/ pc'[u] = "have"
    BY <1>0, <1>5 DEF AllocateUsr, ThreadType
  <2>2. UNCHANGED <<spc, unheard>>
    BY <1>5 DEF AllocateUsr, swapperVars
  <2> QED BY <1>0, <2>1, <2>2
<1>6. CASE SwapperWakes
  BY <1>0, <1>6 DEF SwapperWakes, Woken
<1>7. CASE SwapInDone
  <2>1. \A u \in Thread : pc'[u] = pc[u] \/ pc'[u] \in {"have", "jobfree"}
    BY <1>0, <1>7 DEF SwapInDone, FreeJob, Woken, ThreadType
  <2> QED BY <1>0, <1>7, <2>1 DEF SwapInDone
<1>8. CASE SwapperTop \/ SwapOutDone \/ SwapOutPanics \/ SwapperSleeps \/ SwapperWoken
  <2>1. UNCHANGED <<pc, unheard>>
    BY <1>8 DEF SwapperTop, SwapOutDone, SwapOutPanics, SwapperSleeps, SwapperWoken,
                threadVars
  <2>2. spc' = spc \/ spc' \notin {"jobs", "in", "indone", "asleep"} \/ spc = "jobs"
    BY <1>8 DEF SwapperTop, SwapOutDone, SwapOutPanics, SwapperSleeps, SwapperWoken
  <2> QED BY <1>0, <2>1, <2>2
<1>9. ASSUME NEW z \in Zone, GetJob \/ SwapIn(z)
      PROVE  Heard'
  BY <1>0, <1>9 DEF GetJob, SwapIn, threadVars
<1>10. ASSUME NEW t \in Thread, ThreadNext(t)
       PROVE  Heard'
  BY <1>1, <1>2, <1>3, <1>4, <1>5, <1>10
     DEF ThreadNext, swapperVars, threadVars,
         ReserveFrames, ReserveEnough, ReserveFails, ReserveWaits, ReserveAgain,
         ReserveServed, AllocateUsrFails, Discards,
         Discarded, SwapInCall, WaitForJob, JobIsFree, Map, DiscardFrame
<1>11. GetJob => Heard'
  BY <1>9 DEF Zone
<1> QED
  BY <1>1, <1>6, <1>7, <1>8, <1>9, <1>10, <1>11
     DEF Next, KernelNext, SwapperNext, vars, swapperVars, threadVars,
         AllocateKernWraps, AllocateCrit, AllocateKern, UnmapSwapped, FreeCrit,
         FreeKern, Unmap, SwapOut

-----------------------------------------------------------------------------
(* A step of the swapper and of the jobs leaves alone who is in the queue. *)
LEMMA QueuedInd ==
  ASSUME PhysMemInv, [Next]_vars
  PROVE  Queued'
<1>0. Queued /\ JobType /\ ThreadType /\ SwapperType /\ NoThread \notin Thread
  BY TypeGroups, PhysMemAssumption DEF PhysMemInv
<1>q. /\ current # NoThread <=> spc \in {"in", "indone"}
      /\ Distinct(jobs) /\ ~ InList(jobs, current)
      /\ \A u \in Thread : pc[u] = "blocked" <=> InList(jobs, u) \/ current = u
      /\ jobs \in Seq(Thread) /\ current \in Thread \cup {NoThread}
  BY <1>0 DEF Queued, JobType
<1> USE DEF At, Unlocked, Locked, Goto
<1>1. ASSUME UNCHANGED <<jobs, current>>,
             spc' \in {"in", "indone"} <=> spc \in {"in", "indone"},
             \A u \in Thread : pc'[u] = "blocked" <=> pc[u] = "blocked"
      PROVE  Queued'
  BY <1>q, <1>1 DEF Queued
<1>2. ASSUME NEW t \in Thread, NEW q, q # "blocked", pc[t] # "blocked",
             pc' = [pc EXCEPT ![t] = q], UNCHANGED <<jobs, current, spc>>
      PROVE  Queued'
  BY <1>0, <1>1, <1>2 DEF ThreadType
<1>3. ASSUME NEW t \in Thread, WaitForFrames(t), pc[t] # "blocked"
      PROVE  Queued'
  <2>1. UNCHANGED <<jobs, current>> /\ spc' \in {spc, "woken"} /\ (spc' # spc => spc = "asleep")
    BY <1>3 DEF WaitForFrames, NotifySwapper, jobVars
  <2>2. \A u \in Thread : pc'[u] = "blocked" <=> pc[u] = "blocked"
    BY <1>0, <1>3 DEF WaitForFrames, ThreadType
  <2> QED BY <1>1, <2>1, <2>2
<1>4. ASSUME NEW t \in Thread, AppendJob(t)
      PROVE  Queued'
  <2>1. /\ pc[t] # "blocked" /\ jobs' = Append(jobs, t) /\ current' = current
        /\ spc' \in {spc, "woken"} /\ (spc' # spc => spc = "asleep")
    BY <1>4 DEF AppendJob, NotifySwapper
  <2>2. pc'[t] = "blocked" /\ \A u \in Thread \ {t} : pc'[u] = pc[u]
    BY <1>0, <1>4 DEF AppendJob, ThreadType
  <2>3. ~ InList(jobs, t) /\ current # t
    BY <1>q, <2>1
  <2>4. Distinct(jobs') /\ \A x : InList(jobs', x) <=> InList(jobs, x) \/ x = t
    BY <1>q, <2>1, <2>3, AppendDistinct, AppendMembers
  <2>5. ~ InList(jobs', current')
    BY <1>q, <2>1, <2>3, <2>4
  <2>6. \A u \in Thread : pc'[u] = "blocked" <=> InList(jobs', u) \/ current' = u
    BY <1>q, <2>1, <2>2, <2>4
  <2>7. current' # NoThread <=> spc' \in {"in", "indone"}
    BY <1>q, <2>1
  <2> QED BY <2>4, <2>5, <2>6, <2>7 DEF Queued
<1>5. ASSUME NEW t \in Thread, AllocateUsr(t)
      PROVE  Queued'
  <2>1. \A u \in Thread : pc'[u] = "blocked" <=> pc[u] = "blocked"
    BY <1>0, <1>5 DEF AllocateUsr, ThreadType
  <2> QED BY <1>1, <1>5, <2>1 DEF AllocateUsr, jobVars, swapperVars
<1>6. CASE SwapperWakes
  <2>1. \A u \in Thread : pc'[u] = "blocked" <=> pc[u] = "blocked"
    BY <1>6 DEF SwapperWakes, Woken
  <2>2. UNCHANGED <<jobs, current>> /\ spc = "wake" /\ spc' = "jobs"
    BY <1>6 DEF SwapperWakes, jobVars
  <2> QED BY <1>1, <2>1, <2>2
<1>7. CASE SwapInDone
  <2>1. /\ current \in Thread /\ current' = NoThread /\ jobs' = jobs
        /\ spc' = "jobs"
    BY <1>q, <1>7 DEF SwapInDone
  <2>2. /\ pc'[current] = "have"
        /\ \A u \in Thread \ {current} : pc'[u] = "blocked" <=> pc[u] = "blocked"
    BY <1>0, <1>7, <2>1 DEF SwapInDone, FreeJob, Woken, ThreadType
  <2>3. \A u \in Thread : pc'[u] = "blocked" <=> InList(jobs', u) \/ current' = u
    BY <1>0, <1>q, <2>1, <2>2
  <2>4. ~ InList(jobs', current')
    BY <1>0, <1>q, <2>1, NoMembers
  <2> QED BY <1>q, <2>1, <2>3, <2>4 DEF Queued
<1>8. CASE GetJob
  <2>1. /\ jobs # << >> /\ current' = Head(jobs) /\ jobs' = Tail(jobs)
        /\ spc = "jobs" /\ spc' = "in" /\ pc' = pc
    BY <1>8 DEF GetJob, threadVars
  <2>2. /\ Distinct(jobs') /\ Head(jobs) \in Thread /\ InList(jobs, Head(jobs))
        /\ \A x : InList(jobs', x) <=> InList(jobs, x) /\ x # Head(jobs)
    BY <1>q, <2>1, TailMembers
  <2>3. current = NoThread
    BY <1>q, <2>1
  <2>4. \A u \in Thread : pc'[u] = "blocked" <=> InList(jobs', u) \/ current' = u
    BY <1>0, <1>q, <2>1, <2>2, <2>3
  <2>5. ~ InList(jobs', current')
    BY <2>1, <2>2
  <2> QED BY <1>0, <2>1, <2>2, <2>4, <2>5 DEF Queued
<1>9. CASE SwapperTop \/ SwapOutDone \/ SwapOutPanics \/ SwapperSleeps \/ SwapperWoken
  <2>1. UNCHANGED <<pc, jobs, current>>
    BY <1>9 DEF SwapperTop, SwapOutDone, SwapOutPanics, SwapperSleeps, SwapperWoken,
                threadVars, jobVars
  <2>2. spc \notin {"in", "indone"} /\ spc' \notin {"in", "indone"}
    BY <1>9 DEF SwapperTop, SwapOutDone, SwapOutPanics, SwapperSleeps, SwapperWoken
  <2> QED BY <1>1, <2>1, <2>2
<1>10. ASSUME NEW z \in Zone, SwapIn(z)
       PROVE  Queued'
  BY <1>1, <1>10 DEF SwapIn, threadVars, jobVars
<1>11. CASE UNCHANGED <<pc, jobs, current, spc>>
  BY <1>1, <1>11
<1>12. ASSUME NEW t \in Thread, ThreadNext(t)
       PROVE  Queued'
  BY <1>2, <1>3, <1>4, <1>5, <1>11, <1>12
     DEF ThreadNext, swapperVars, threadVars, jobVars,
         ReserveFrames, ReserveEnough, ReserveFails, ReserveWaits, ReserveAgain,
         ReserveServed, AllocateUsrFails, Discards,
         Discarded, SwapInCall, WaitForJob, JobIsFree, Map, DiscardFrame
<1> QED
  BY <1>6, <1>7, <1>8, <1>9, <1>10, <1>11, <1>12
     DEF Next, KernelNext, SwapperNext, vars, swapperVars, threadVars, jobVars,
         AllocateKernWraps, AllocateCrit, AllocateKern, UnmapSwapped, FreeCrit,
         FreeKern, Unmap, SwapOut

-----------------------------------------------------------------------------
(* Those who wait for a job.                                               *)
LEMMA JobWaitingFinite ==
  /\ IsFiniteSet(JobWaiting) /\ Cardinality(JobWaiting) \in Nat
  /\ Cardinality(JobWaiting) = 0 => JobWaiting = {}
<1>1. IsFiniteSet(JobWaiting)
  BY FS_Subset, PhysMemAssumption DEF JobWaiting
<1> QED BY <1>1, FS_CardinalityType, FS_EmptySet

LEMMA WaitersExactInd ==
  ASSUME PhysMemInv, [Next]_vars
  PROVE  WaitersExact'
<1>0. WaitersExact /\ Queued /\ JobType /\ ThreadType /\ JobCount \in Nat
  BY TypeGroups, PhysMemAssumption DEF PhysMemInv
<1>w. /\ InUse <= JobCount /\ jobWaiters = Cardinality(JobWaiting)
      /\ \A t \in Thread : pc[t] = "nojob" => InUse = JobCount
      /\ Len(jobs) \in Nat /\ InUse \in Nat
  BY <1>0 DEF WaitersExact, JobType, InUse
<1> USE DEF At, Unlocked, Locked, Goto
<1>1. ASSUME UNCHANGED <<jobs, current, jobWaiters>>,
             \A u \in Thread : \/ pc'[u] = pc[u]
                               \/ /\ pc[u] \notin {"nojob", "jobfree"}
                                  /\ pc'[u] \notin {"nojob", "jobfree"}
      PROVE  WaitersExact'
  <2>1. JobWaiting' = JobWaiting
    BY <1>1 DEF JobWaiting
  <2>2. InUse' = InUse
    BY <1>1 DEF InUse
  <2> QED BY <1>w, <1>1, <2>1, <2>2 DEF WaitersExact
<1>2. ASSUME NEW t \in Thread, NEW q, q \notin {"nojob", "jobfree"},
             pc[t] \notin {"nojob", "jobfree"},
             pc' = [pc EXCEPT ![t] = q], UNCHANGED <<jobs, current, jobWaiters>>
      PROVE  WaitersExact'
  BY <1>0, <1>1, <1>2 DEF ThreadType
<1>3. ASSUME NEW t \in Thread, WaitForJob(t)
      PROVE  WaitersExact'
  <2>1. /\ pc[t] = "getjob" /\ InUse = JobCount /\ jobWaiters' = jobWaiters + 1
        /\ UNCHANGED <<jobs, current>>
        /\ pc'[t] = "nojob" /\ \A u \in Thread \ {t} : pc'[u] = pc[u]
    BY <1>0, <1>3 DEF WaitForJob, ThreadType
  <2>2. JobWaiting' = JobWaiting \cup {t} /\ t \notin JobWaiting
    BY <2>1 DEF JobWaiting
  <2>3. Cardinality(JobWaiting') = Cardinality(JobWaiting) + 1
    BY <2>2, JobWaitingFinite, FS_AddElement
  <2>4. InUse' = JobCount
    BY <2>1 DEF InUse
  <2> QED BY <1>0, <1>w, <2>1, <2>3, <2>4 DEF WaitersExact
<1>4. ASSUME NEW t \in Thread, JobIsFree(t)
      PROVE  WaitersExact'
  <2>1. /\ pc[t] = "jobfree" /\ jobWaiters' = jobWaiters - 1
        /\ UNCHANGED <<jobs, current>>
        /\ pc'[t] = "getjob" /\ \A u \in Thread \ {t} : pc'[u] = pc[u]
    BY <1>0, <1>4 DEF JobIsFree, ThreadType
  <2>2. JobWaiting' = JobWaiting \ {t} /\ t \in JobWaiting
    BY <2>1 DEF JobWaiting
  <2>3. Cardinality(JobWaiting') = Cardinality(JobWaiting) - 1
    BY <2>2, JobWaitingFinite, FS_RemoveElement
  <2>4. InUse' = InUse
    BY <2>1 DEF InUse
  <2> QED BY <1>0, <1>w, <2>1, <2>3, <2>4 DEF WaitersExact
<1>5. ASSUME NEW t \in Thread, AppendJob(t)
      PROVE  WaitersExact'
  <2>1. /\ pc[t] = "getjob" /\ InUse < JobCount /\ jobs' = Append(jobs, t)
        /\ UNCHANGED <<current, jobWaiters>>
        /\ pc'[t] = "blocked" /\ \A u \in Thread \ {t} : pc'[u] = pc[u]
    BY <1>0, <1>5 DEF AppendJob, ThreadType
  <2>2. Len(jobs') = Len(jobs) + 1
    BY <1>0, <2>1 DEF JobType
  <2>3. InUse' = InUse + 1
    BY <1>w, <2>1, <2>2 DEF InUse
  <2>4. JobWaiting' = JobWaiting
    BY <2>1 DEF JobWaiting
  <2>5. \A u \in Thread : pc'[u] # "nojob"
    BY <1>0, <1>w, <2>1
  <2> QED BY <1>0, <1>w, <2>1, <2>3, <2>4, <2>5 DEF WaitersExact
<1>6. ASSUME NEW t \in Thread, AllocateUsr(t)
      PROVE  WaitersExact'
  <2>1. pc[t] = "alloc" /\ \A u \in Thread : pc'[u] = pc[u] \/ (u = t /\ pc'[u] = "have")
    BY <1>0, <1>6 DEF AllocateUsr, ThreadType
  <2> QED BY <1>1, <1>6, <2>1 DEF AllocateUsr, jobVars
<1>7. CASE SwapperWakes
  <2>1. \A u \in Thread : pc'[u] = IF pc[u] = "asleep" THEN "retry" ELSE pc[u]
    BY <1>7 DEF SwapperWakes, Woken
  <2> QED BY <1>1, <1>7, <2>1 DEF SwapperWakes, jobVars
<1>8. CASE SwapInDone
  <2>1. /\ current \in Thread /\ pc[current] = "blocked" /\ current' = NoThread
        /\ UNCHANGED <<jobs, jobWaiters>> /\ NoThread \notin Thread
    BY <1>0, <1>8, PhysMemAssumption DEF SwapInDone, Queued, JobType
  <2>2. \A u \in Thread :
          pc'[u] = IF u = current THEN "have"
                   ELSE IF jobWaiters > 0 /\ pc[u] = "nojob" THEN "jobfree" ELSE pc[u]
    BY <1>0, <1>8, <2>1 DEF SwapInDone, FreeJob, Woken, ThreadType
  <2>3. JobWaiting' = JobWaiting
    BY <2>1, <2>2 DEF JobWaiting
  <2>4. \A u \in Thread : pc'[u] # "nojob"
    <3>1. CASE jobWaiters > 0
      BY <2>2, <3>1
    <3>2. CASE ~ (jobWaiters > 0)
      <4>1. JobWaiting = {}
        BY <1>w, <3>2, JobWaitingFinite
      <4> QED BY <2>2, <4>1 DEF JobWaiting
    <3> QED BY <3>1, <3>2
  <2>5. InUse' = InUse - 1
    BY <1>w, <2>1 DEF InUse
  <2> QED BY <1>0, <1>w, <2>1, <2>3, <2>4, <2>5 DEF WaitersExact
<1>9. CASE GetJob
  <2>1. /\ jobs # << >> /\ current' = Head(jobs) /\ jobs' = Tail(jobs)
        /\ spc = "jobs" /\ UNCHANGED <<pc, jobWaiters>> /\ current = NoThread
    BY <1>0, <1>9 DEF GetJob, threadVars, Queued
  <2>2. Len(jobs') = Len(jobs) - 1 /\ Head(jobs) \in Thread
    BY <1>0, <2>1 DEF JobType
  <2>3. current' # NoThread
    BY <2>1, <2>2, PhysMemAssumption
  <2>4. InUse' = InUse
    BY <1>w, <2>1, <2>2, <2>3 DEF InUse
  <2>5. JobWaiting' = JobWaiting
    BY <2>1 DEF JobWaiting
  <2> QED BY <1>w, <2>1, <2>4, <2>5 DEF WaitersExact
<1>10. CASE UNCHANGED <<pc, jobs, current, jobWaiters>>
  BY <1>1, <1>10
<1>11. ASSUME NEW t \in Thread, ThreadNext(t)
       PROVE  WaitersExact'
  BY <1>2, <1>3, <1>4, <1>5, <1>6, <1>10, <1>11
     DEF ThreadNext, threadVars, jobVars, WaitForFrames,
         ReserveFrames, ReserveEnough, ReserveFails, ReserveWaits, ReserveAgain,
         ReserveServed, AllocateUsrFails, Discards,
         Discarded, SwapInCall, Map, DiscardFrame
<1> QED
  BY <1>7, <1>8, <1>9, <1>10, <1>11
     DEF Next, KernelNext, SwapperNext, vars, threadVars, jobVars,
         AllocateKernWraps, AllocateCrit, AllocateKern, UnmapSwapped, FreeCrit,
         FreeKern, Unmap, SwapOut, SwapIn, SwapperTop, SwapOutDone, SwapOutPanics,
         SwapperSleeps, SwapperWoken

-----------------------------------------------------------------------------
(* Frames and pages for those in swapIn().                                 *)
LEMMA OutstandingFinite ==
  /\ IsFiniteSet(Outstanding) /\ Cardinality(Outstanding) \in Nat
  /\ Cardinality(Outstanding) <= Cardinality(SwappingIn)
<1>1. Outstanding \in SUBSET SwappingIn
  BY DEF Outstanding
<1> QED BY <1>1, SwappingInFinite, FS_Subset, FS_CardinalityType

LEMMA FramesAtHandInd ==
  ASSUME PhysMemInv, [Next]_vars
  PROVE  FramesAtHand'
<1>0. FramesAtHand /\ Queued /\ JobType /\ ThreadType /\ UseType /\ UseType'
  BY TypeGroups, UseTypeInd DEF PhysMemInv
<1>f. /\ \A t \in Thread : pc[t] \in InSwapIn /\ ~ (current = t /\ spc = "indone")
           => held[t] # None0
      /\ Cardinality(Outstanding) <= swapped
      /\ swapped \in Nat /\ swapped' \in Nat
  BY <1>0 DEF FramesAtHand, UseType
<1> USE DEF At, Unlocked, Locked, Goto
<1>1. ASSUME current' = current, spc' = "indone" <=> spc = "indone", swapped' >= swapped,
             \A u \in Thread : /\ pc'[u] \in InSwapIn <=> pc[u] \in InSwapIn
                               /\ pc[u] \in InSwapIn => held'[u] = held[u]
      PROVE  FramesAtHand'
  <2>1. Outstanding' = Outstanding
    BY <1>1 DEF Outstanding, SwappingIn
  <2>2. Cardinality(Outstanding') <= swapped'
    BY <1>f, <1>1, <2>1, OutstandingFinite
  <2> QED BY <1>f, <1>1, <2>2 DEF FramesAtHand
<1>2. ASSUME NEW t \in Thread, NEW q,
             pc' = [pc EXCEPT ![t] = q], q \in InSwapIn <=> pc[t] \in InSwapIn,
             UNCHANGED <<held, swapped, current, spc>>
      PROVE  FramesAtHand'
  <2>1. \A u \in Thread : pc'[u] \in InSwapIn <=> pc[u] \in InSwapIn
    BY <1>0, <1>2 DEF ThreadType
  <2> QED BY <1>f, <1>1, <1>2, <2>1
<1>3. ASSUME NEW t \in Thread, WaitForFrames(t) \/ AppendJob(t),
             pc[t] \in {"reserve", "retry", "getjob"},
             pc[t] = "getjob" <=> AppendJob(t)
      PROVE  FramesAtHand'
  <2>1. UNCHANGED <<current, held, swapped>> /\ (spc' = "indone" <=> spc = "indone")
    BY <1>3 DEF WaitForFrames, AppendJob, NotifySwapper, jobVars, uses
  <2>2. \A u \in Thread : pc'[u] \in InSwapIn <=> pc[u] \in InSwapIn
    BY <1>0, <1>3 DEF ThreadType, WaitForFrames, AppendJob, InSwapIn
  <2> QED BY <1>f, <1>1, <2>1, <2>2
<1>4. ASSUME NEW t \in Thread, AllocateUsr(t)
      PROVE  FramesAtHand'
  <2>1. /\ pc[t] = "alloc" /\ UNCHANGED <<current, spc, swapped>>
        /\ \A u \in Thread : pc'[u] = pc[u] \/ (u = t /\ pc'[u] = "have")
    BY <1>0, <1>4 DEF AllocateUsr, ThreadType, jobVars, swapperVars
  <2>2. \A u \in Thread \ {t} : held'[u] = held[u]
    BY <1>0, <1>4 DEF AllocateUsr, UseType
  <2> QED BY <1>f, <1>1, <2>1, <2>2 DEF InSwapIn
<1>5. ASSUME NEW t \in Thread, NEW z \in Zone, Map(t, z) \/ DiscardFrame(t, z)
      PROVE  FramesAtHand'
  <2>1. pc[t] \notin InSwapIn /\ UNCHANGED <<current, spc, swapped, pc>>
    BY <1>5 DEF Map, DiscardFrame, InSwapIn, threadVars, jobVars, swapperVars
  <2>2. \A u \in Thread \ {t} : held'[u] = held[u]
    BY <1>0, <1>5 DEF Map, DiscardFrame, UseType
  <2> QED BY <1>f, <1>1, <2>1, <2>2
<1>6. ASSUME NEW t \in Thread, SwapInCall(t)
      PROVE  FramesAtHand'
  <2>1. /\ pc[t] = "have" /\ held[t] # None0 /\ swapped > Cardinality(SwappingIn)
        /\ pc'[t] = "getjob" /\ \A u \in Thread \ {t} : pc'[u] = pc[u]
        /\ UNCHANGED <<held, swapped, current, spc>>
    BY <1>0, <1>6 DEF SwapInCall, ThreadType, uses, jobVars, swapperVars
  <2>2. t \notin SwappingIn /\ SwappingIn' = SwappingIn \cup {t}
    BY <2>1 DEF SwappingIn, InSwapIn
  <2>3. Cardinality(SwappingIn') = Cardinality(SwappingIn) + 1 /\ IsFiniteSet(SwappingIn')
    BY <2>2, SwappingInFinite, FS_AddElement
  <2>4. Outstanding' \in SUBSET SwappingIn'
    BY DEF Outstanding
  <2>5. /\ Cardinality(Outstanding') <= Cardinality(SwappingIn')
        /\ Cardinality(Outstanding') \in Nat
    BY <2>3, <2>4, FS_Subset, FS_CardinalityType
  <2>6. Cardinality(Outstanding') <= swapped'
    BY <1>f, <2>1, <2>3, <2>5, SwappingInFinite
  <2> QED BY <1>f, <2>1, <2>6 DEF FramesAtHand
<1>7. CASE UnmapSwapped
  <2>1. /\ UNCHANGED <<held, pc, current, spc>> /\ swapped' = swapped - 1
        /\ swapped > Cardinality(SwappingIn)
    BY <1>7 DEF UnmapSwapped, threadVars, jobVars, swapperVars
  <2>2. Outstanding' = Outstanding
    BY <2>1 DEF Outstanding, SwappingIn
  <2>3. Cardinality(Outstanding') <= swapped'
    BY <1>f, <2>1, <2>2, OutstandingFinite, SwappingInFinite
  <2> QED BY <1>f, <2>1, <2>3 DEF FramesAtHand
<1>8. ASSUME NEW z \in Zone, SwapIn(z)
      PROVE  FramesAtHand'
  <2>1. /\ spc = "in" /\ spc' = "indone" /\ UNCHANGED <<pc, current>>
        /\ swapped' = swapped - 1 /\ current \in Thread /\ pc[current] = "blocked"
    BY <1>0, <1>8 DEF SwapIn, threadVars, jobVars, Queued, JobType
  <2>2. \A u \in Thread \ {current} : held'[u] = held[u]
    BY <1>0, <1>8, <2>1 DEF SwapIn, UseType
  <2>3. Outstanding' = Outstanding \ {current} /\ current \in Outstanding
    BY <2>1 DEF Outstanding, SwappingIn, InSwapIn
  <2>4. Cardinality(Outstanding') = Cardinality(Outstanding) - 1
    BY <2>3, OutstandingFinite, FS_RemoveElement
  <2>5. Cardinality(Outstanding') <= swapped'
    BY <1>f, <2>1, <2>4, OutstandingFinite
  <2> QED BY <1>f, <2>1, <2>2, <2>5 DEF FramesAtHand
<1>9. CASE SwapInDone
  <2>1. /\ spc = "indone" /\ spc' = "jobs" /\ current \in Thread /\ current' \notin Thread
        /\ UNCHANGED <<held, swapped>>
    BY <1>0, <1>9, PhysMemAssumption DEF SwapInDone, uses, Queued, JobType
  <2>2. /\ pc'[current] = "have"
        /\ \A u \in Thread \ {current} : pc'[u] \in InSwapIn <=> pc[u] \in InSwapIn
    BY <1>0, <1>9, <2>1 DEF SwapInDone, FreeJob, Woken, ThreadType, InSwapIn
  <2>3. Outstanding' = Outstanding
    BY <2>1, <2>2 DEF Outstanding, SwappingIn, InSwapIn
  <2> QED BY <1>f, <2>1, <2>2, <2>3 DEF FramesAtHand, InSwapIn
<1>10. CASE GetJob
  <2>1. /\ spc = "jobs" /\ spc' = "in" /\ UNCHANGED <<pc, held, swapped>>
    BY <1>10 DEF GetJob, threadVars, uses
  <2>2. Outstanding' = Outstanding
    BY <2>1 DEF Outstanding, SwappingIn
  <2> QED BY <1>f, <2>1, <2>2 DEF FramesAtHand
<1>11. CASE SwapperWakes
  <2>1. \A u \in Thread : pc'[u] \in InSwapIn <=> pc[u] \in InSwapIn
    BY <1>11 DEF SwapperWakes, Woken, InSwapIn
  <2>2. /\ spc = "wake" /\ spc' = "jobs" /\ UNCHANGED <<held, swapped, current>>
    BY <1>11 DEF SwapperWakes, uses, jobVars
  <2> QED BY <1>f, <1>1, <2>1, <2>2
<1>12. CASE SwapperTop \/ SwapOutDone \/ SwapOutPanics \/ SwapperSleeps \/ SwapperWoken
  <2>1. UNCHANGED <<pc, held, swapped, current>>
    BY <1>12 DEF SwapperTop, SwapOutDone, SwapOutPanics, SwapperSleeps, SwapperWoken,
                threadVars, jobVars, uses
  <2>2. spc # "indone" /\ spc' # "indone"
    BY <1>12 DEF SwapperTop, SwapOutDone, SwapOutPanics, SwapperSleeps, SwapperWoken
  <2> QED BY <1>f, <1>1, <2>1, <2>2
<1>13. ASSUME NEW z \in Zone, SwapOut(z)
       PROVE  FramesAtHand'
  BY <1>f, <1>1, <1>13 DEF SwapOut, threadVars, jobVars
<1>14. CASE UNCHANGED <<pc, held, swapped, current, spc>>
  BY <1>f, <1>1, <1>14
<1>15. ASSUME NEW t \in Thread, ThreadNext(t)
       PROVE  FramesAtHand'
  <2>1. AppendJob(t) \/ ReserveWaits(t) \/ ReserveAgain(t) => FramesAtHand'
    BY <1>3 DEF AppendJob, ReserveWaits, ReserveAgain
  <2> QED
    BY <1>2, <1>4, <1>5, <1>6, <1>15, <2>1
     DEF ThreadNext, threadVars, jobVars, swapperVars, uses, InSwapIn,
         ReserveFrames, ReserveEnough, ReserveFails, WaitForJob, JobIsFree,
         ReserveServed, AllocateUsrFails, Discards, Discarded
<1> QED
  BY <1>7, <1>8, <1>9, <1>10, <1>11, <1>12, <1>13, <1>14, <1>15
     DEF Next, KernelNext, SwapperNext, vars, threadVars, jobVars, swapperVars, uses,
         AllocateKernWraps, AllocateCrit, AllocateKern, FreeCrit, FreeKern, Unmap

-----------------------------------------------------------------------------
LEMMA InitPhysMemInv ==
  ASSUME Init
  PROVE  PhysMemInv
<1> USE DEF Init
<1>1. TypeOK
  <2>1. None0 \in [Zone -> Nat]
    BY DEF None0
  <2>2. StackType
    BY PhysMemAssumption DEF StackType
  <2>3. UseType
    BY <2>1 DEF UseType
  <2>4. ThreadType
    BY PhysMemAssumption DEF ThreadType, Points
  <2>5. SwapperType
    <3>1. 0 \in 0 .. AtOnce
      BY PhysMemAssumption
    <3>2. unheard \in SUBSET Thread /\ swapping \in BOOLEAN /\ wrapped \in BOOLEAN
      OBVIOUS
    <3>3. spc \in SwapperPoints
      BY DEF SwapperPoints, Locked
    <3> QED BY <3>1, <3>2, <3>3 DEF SwapperType
  <2>6. JobType
    BY DEF JobType
  <2> QED BY <2>2, <2>3, <2>4, <2>5, <2>6, TypeGroups
<1>2. Reserved
  BY PhysMemAssumption DEF Reserved, None0, Zone, GetFreeDef
<1>3. Demanded
  <2>1. Demand = {}
    BY DEF Demand, Announced
  <2> QED BY <2>1, FS_EmptySet DEF Demanded
<1>4. FlagExact
  BY DEF FlagExact
<1>5. Queued
  <2>1. \A x : ~ InList(jobs, x)
    BY DEF InList
  <2> QED BY <2>1, PhysMemAssumption DEF Queued, Distinct
<1>6. WaitersExact
  <2>1. JobWaiting = {}
    BY DEF JobWaiting
  <2>2. InUse = 0 /\ 0 <= JobCount
    BY PhysMemAssumption DEF InUse
  <2>3. \A t \in Thread : pc[t] # "nojob"
    OBVIOUS
  <2> QED BY <2>1, <2>2, <2>3, FS_EmptySet DEF WaitersExact
<1>7. FramesAtHand
  <2>1. Outstanding = {}
    BY DEF Outstanding, SwappingIn, InSwapIn
  <2> QED BY <2>1, FS_EmptySet DEF FramesAtHand, InSwapIn
<1>8. Heard
  BY DEF Heard
<1> QED BY <1>1, <1>2, <1>3, <1>4, <1>5, <1>6, <1>7, <1>8 DEF PhysMemInv

(* The inductive invariant of physical memory.                             *)
THEOREM PhysMemInvariant == Spec => []PhysMemInv
<1>1. Init => PhysMemInv
  BY InitPhysMemInv
<1>2. PhysMemInv /\ [Next]_vars => PhysMemInv'
  <2> SUFFICES ASSUME PhysMemInv, [Next]_vars
               PROVE  PhysMemInv'
    OBVIOUS
  <2>1. StackType' /\ UseType' /\ ThreadType' /\ SwapperType' /\ JobType'
    BY StackTypeInd, UseTypeInd, ThreadTypeInd, SwapperTypeInd, JobTypeInd
  <2>2. TypeOK'
    BY <2>1 DEF TypeOK, StackType, UseType, ThreadType, SwapperType, JobType
  <2>3. Reserved' /\ Demanded' /\ FlagExact' /\ Queued'
    BY ReservedInd, DemandedInd, FlagExactInd, QueuedInd
  <2>4. WaitersExact' /\ FramesAtHand' /\ Heard'
    BY WaitersExactInd, FramesAtHandInd, HeardInd
  <2> QED BY <2>2, <2>3, <2>4 DEF PhysMemInv
<1> QED BY <1>1, <1>2, PTL DEF Spec

(* The counters never promise frames that do not exist, the difference     *)
(* that allocate(USR) and reserve() compute never wraps around, and        *)
(* uframes covers what the threads in reserve() have asked for, whatever   *)
(* allocations, swap-outs and refills of kframes come in between.          *)
THEOREM CountersAlwaysCovered == Spec => []CountersCovered
<1>1. PhysMemInv => CountersCovered
  BY DEF PhysMemInv, CountersCovered, Reserved, Demanded
<1> QED BY <1>1, PhysMemInvariant, PTL

(* A thread in reserve() that the sleeping swapper does not know of began  *)
(* to wait while a swap-in job was handled.                                *)
THEOREM SleepersHeard == Spec => []NoLostSleeper
<1>1. PhysMemInv => NoLostSleeper
  BY DEF PhysMemInv, Heard, NoLostSleeper
<1> QED BY <1>1, PhysMemInvariant, PTL

(* A list without duplicates has one place for each of its elements.       *)
LEMMA OnePlace ==
  ASSUME NEW S, NEW s \in Seq(S), Distinct(s), NEW e
  PROVE  Cardinality({i \in DOMAIN s : s[i] = e}) = IF InList(s, e) THEN 1 ELSE 0
<1>0. DOMAIN s = 1 .. Len(s)
  OBVIOUS
<1>1. CASE ~ InList(s, e)
  <2>1. {i \in DOMAIN s : s[i] = e} = {}
    BY <1>0, <1>1 DEF InList
  <2> QED BY <1>1, <2>1, FS_EmptySet
<1>2. CASE InList(s, e)
  <2>1. PICK k \in 1 .. Len(s) : s[k] = e
    BY <1>2 DEF InList
  <2>2. {i \in DOMAIN s : s[i] = e} = {k}
    BY <1>0, <2>1 DEF Distinct
  <2> QED BY <1>2, <2>2, FS_Singleton
<1> QED BY <1>1, <1>2

(* Every thread that is blocked in swapIn() has exactly one of the jobs,   *)
(* with its frame at hand, and nobody waits for a job in vain.             *)
THEOREM JobsAlwaysExact == Spec => []JobsExact
<1>1. PhysMemInv => JobsExact
  <2> SUFFICES ASSUME PhysMemInv
               PROVE  JobsExact
    OBVIOUS
  <2>1. Queued /\ WaitersExact /\ FramesAtHand /\ JobType /\ ThreadType
    BY TypeGroups DEF PhysMemInv
  <2>2. ASSUME NEW t \in Thread
        PROVE  (pc[t] = "blocked") <=>
                 Cardinality({i \in DOMAIN jobs : jobs[i] = t})
                   + (IF current = t THEN 1 ELSE 0) = 1
    <3>1. Cardinality({i \in DOMAIN jobs : jobs[i] = t}) = IF InList(jobs, t) THEN 1 ELSE 0
      BY <2>1, OnePlace DEF Queued, JobType
    <3>2. ~ (InList(jobs, t) /\ current = t)
      BY <2>1 DEF Queued
    <3> QED BY <2>1, <3>1, <3>2 DEF Queued
  <2>3. \A t \in Thread : pc[t] = "blocked" /\ ~ (current = t /\ spc = "indone")
          => held[t] # None0
    BY <2>1 DEF FramesAtHand, InSwapIn
  <2> QED BY <2>1, <2>2, <2>3 DEF JobsExact, WaitersExact, JobWaiting
<1> QED BY <1>1, PhysMemInvariant, PTL
=============================================================================
