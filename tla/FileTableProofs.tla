-------------------------- MODULE FileTableProofs --------------------------
(***************************************************************************)
(* The counters of open files, the two lists and the semaphores of files,  *)
(* for every number of threads, processes, descriptors and slots, as long  *)
(* as no call has strayed.                                                 *)
(***************************************************************************)
EXTENDS FileTable, FiniteSetTheorems, TLAPS

(* A thread that is busy has a slot, and what it needs besides.            *)
Points ==
  \A t \in Thread :
    /\ pc[t].at # "idle" => pc[t].s \in Slot
    /\ pc[t].at = "fill" => pc[t].file \in File
    /\ pc[t].at = "unassoc" => pc[t].fd \in Fd

(* A process that does not exist has no descriptors.                       *)
Dead == \A p \in Proc \ alive, i \in Fd : fds[p][i] = Null

Fills(t) == pc[t].at = "fill"

(* An open file is in the list of its mode and has a node; a slot that is  *)
(* being filled is in a list, and filled by one thread.                    *)
Lists ==
  /\ used \cap excl = {}
  /\ \A s \in Slot : slot[s].flags # "none" =>
       /\ slot[s].file \in File
       /\ IF slot[s].flags = "lonely" THEN s \in excl ELSE s \in used
  /\ \A t \in Thread : Fills(t) =>
       slot[pc[t].s].flags = "none" /\ pc[t].s \in used \cup excl
  /\ \A t, u \in Thread : Fills(t) /\ Fills(u) /\ pc[t].s = pc[u].s => t = u

NodesExact ==
  \A f \in File : nodeRefs[f] = Cardinality({s \in Open : slot[s].file = f})

(* A semaphore belongs to one file, and only open files have one.          *)
SemsOwned ==
  /\ \A s \in Slot : slot[s].sem # Null => slot[s].flags # "none"
  /\ \A f, g \in File : sems[f] # Null /\ sems[f] = sems[g] => f = g
  /\ \A s \in Slot, f \in File :
       slot[s].sem # Null /\ slot[s].sem = sems[f] => slot[s].file = f

(* An exclusive open is alone, with those that are in progress too.        *)
Alone ==
  /\ \A s \in Slot : slot[s].flags = "lonely" =>
       /\ slot[s].file \notin FsChan
       /\ slot[s].sem # Null => sems[slot[s].file] = slot[s].sem
       /\ \A r \in Slot : slot[r].flags # "none" /\ slot[r].file = slot[s].file => r = s
       /\ \A t \in Thread : Fills(t) => pc[t].file # slot[s].file
  /\ \A t \in Thread : Fills(t) /\ pc[t].s \in excl =>
       /\ pc[t].file \notin FsChan
       /\ \A r \in Slot : slot[r].flags # "none" => slot[r].file # pc[t].file
       /\ \A u \in Thread : Fills(u) /\ pc[u].file = pc[t].file => u = t

TableInv == Lists /\ NodesExact /\ SemsOwned /\ Alone

(* The counters of a slot: descriptors, pointers in transit, the mount     *)
(* point, users.  Nothing refers to a slot that is not open.               *)
N(s) == Cardinality(Names(s))
C(s) == Cardinality(Carriers(s))
U(s) == Cardinality(Users(s))
M(s) == IF mounted = s THEN 1 ELSE 0

Settled(s) ==
  IF slot[s].flags # "none"
  THEN /\ slot[s].refs = N(s) + C(s) + M(s)
       /\ slot[s].usages = U(s)
       /\ slot[s].refs + slot[s].usages > 0
  ELSE N(s) = 0 /\ C(s) = 0 /\ M(s) = 0 /\ U(s) = 0

Counted == \A s \in Slot : Settled(s)

TrackInv == TypeOK /\ Points /\ Dead /\ TableInv /\ Counted

Inv == ~strayed => TrackInv

-----------------------------------------------------------------------------
(* Counting.                                                               *)

(* Two sets that differ in one element at most.                            *)
LEMMA OneElement ==
  ASSUME NEW S, IsFiniteSet(S), NEW T, NEW e,
         \A x : x # e => (x \in S <=> x \in T)
  PROVE  /\ IsFiniteSet(T) /\ Cardinality(S) \in Nat /\ Cardinality(T) \in Nat
         /\ Cardinality(T) + (IF e \in S THEN 1 ELSE 0)
              = Cardinality(S) + (IF e \in T THEN 1 ELSE 0)
<1>0. Cardinality(S) \in Nat
  BY FS_CardinalityType
<1>1. CASE (e \in S) <=> (e \in T)
  <2>1. S = T
    BY <1>1
  <2> QED BY <1>0, <1>1, <2>1
<1>2. CASE e \in S /\ e \notin T
  <2>1. T = S \ {e}
    BY <1>2
  <2>2. IsFiniteSet(T) /\ Cardinality(T) = Cardinality(S) - 1
    BY <1>2, <2>1, FS_RemoveElement
  <2>3. Cardinality(T) \in Nat
    BY <2>2, FS_CardinalityType
  <2> QED BY <1>0, <1>2, <2>2, <2>3
<1>3. CASE e \notin S /\ e \in T
  <2>1. T = S \cup {e}
    BY <1>3
  <2>2. IsFiniteSet(T) /\ Cardinality(T) = Cardinality(S) + 1
    BY <1>3, <2>1, FS_AddElement
  <2>3. Cardinality(T) \in Nat
    BY <2>2, FS_CardinalityType
  <2> QED BY <1>0, <1>3, <2>2, <2>3
<1> QED BY <1>1, <1>2, <1>3

LEMMA Member ==
  ASSUME NEW S, IsFiniteSet(S)
  PROVE  /\ Cardinality(S) \in Nat
         /\ \A e \in S : Cardinality(S) >= 1
         /\ Cardinality(S) = 0 => S = {}
         /\ Cardinality(S) <= 1 => \A d, e \in S : d = e
<1>1. Cardinality(S) \in Nat /\ (Cardinality(S) = 0 <=> S = {})
  BY FS_CardinalityType, FS_EmptySet
<1>2. ASSUME NEW e \in S PROVE Cardinality(S) >= 1
  BY <1>1, <1>2
<1>3. ASSUME Cardinality(S) <= 1, NEW d \in S, NEW e \in S PROVE d = e
  <2>1. Cardinality(S) = 1
    BY <1>1, <1>2, <1>3
  <2>2. PICK x : S = {x}
    BY <2>1, FS_Singleton
  <2> QED BY <1>3, <2>2
<1> QED BY <1>1, <1>2, <1>3

(* What one thread and one descriptor contribute to the counters.          *)
Car(t, s) == IF t \in Carriers(s) THEN 1 ELSE 0
Use(t, s) == IF t \in Users(s) THEN 1 ELSE 0
Name(p, i, s) == IF fds[p][i] = s THEN 1 ELSE 0

LEMMA Finite ==
  ASSUME NEW s
  PROVE  /\ IsFiniteSet(Names(s)) /\ IsFiniteSet(Carriers(s)) /\ IsFiniteSet(Users(s))
         /\ IsFiniteSet(Names(s)') /\ IsFiniteSet(Carriers(s)') /\ IsFiniteSet(Users(s)')
<1>1. IsFiniteSet(Proc \X Fd) /\ IsFiniteSet(Thread)
  BY FileAssumption, FS_Product
<1>2. Names(s) \subseteq Proc \X Fd /\ Names(s)' \subseteq Proc \X Fd
  BY DEF Names
<1>3. Carriers(s) \subseteq Thread /\ Carriers(s)' \subseteq Thread
  BY DEF Carriers
<1>4. Users(s) \subseteq Thread /\ Users(s)' \subseteq Thread
  BY DEF Users
<1>5. IsFiniteSet(Names(s)) /\ IsFiniteSet(Names(s)')
  BY <1>1, <1>2, FS_Subset
<1>6. /\ IsFiniteSet(Carriers(s)) /\ IsFiniteSet(Users(s))
      /\ IsFiniteSet(Carriers(s)') /\ IsFiniteSet(Users(s)')
  BY <1>1, <1>3, <1>4, FS_Subset
<1> QED BY <1>5, <1>6

LEMMA Counters ==
  ASSUME NEW s
  PROVE  /\ N(s) \in Nat /\ C(s) \in Nat /\ U(s) \in Nat /\ M(s) \in {0, 1}
         /\ N(s)' \in Nat /\ C(s)' \in Nat /\ U(s)' \in Nat /\ M(s)' \in {0, 1}
         /\ \A p \in Proc, i \in Fd : Name(p, i, s) \in {0, 1} /\ Name(p, i, s) <= N(s)
         /\ \A t \in Thread : Car(t, s) \in {0, 1} /\ Car(t, s) <= C(s)
         /\ \A t \in Thread : Use(t, s) \in {0, 1} /\ Use(t, s) <= U(s)
<1>1. /\ N(s) \in Nat /\ C(s) \in Nat /\ U(s) \in Nat
      /\ N(s)' \in Nat /\ C(s)' \in Nat /\ U(s)' \in Nat
  BY Finite, FS_CardinalityType DEF N, C, U
<1>2. M(s) \in {0, 1} /\ M(s)' \in {0, 1}
  BY DEF M
<1>3. ASSUME NEW p \in Proc, NEW i \in Fd
      PROVE  Name(p, i, s) \in {0, 1} /\ Name(p, i, s) <= N(s)
  <2>1. CASE fds[p][i] = s
    <3>1. <<p, i>> \in Names(s)
      BY <2>1 DEF Names
    <3>2. N(s) >= 1
      BY <3>1, Finite, Member DEF N
    <3> QED BY <1>1, <2>1, <3>2 DEF Name
  <2>2. CASE fds[p][i] # s
    BY <1>1, <2>2 DEF Name
  <2> QED BY <2>1, <2>2
<1>4. ASSUME NEW t \in Thread
      PROVE  Car(t, s) \in {0, 1} /\ Car(t, s) <= C(s)
  <2>1. t \in Carriers(s) => C(s) >= 1
    BY Finite, Member DEF C
  <2> QED BY <1>1, <2>1 DEF Car
<1>5. ASSUME NEW t \in Thread
      PROVE  Use(t, s) \in {0, 1} /\ Use(t, s) <= U(s)
  <2>1. t \in Users(s) => U(s) >= 1
    BY Finite, Member DEF U
  <2> QED BY <1>1, <2>1 DEF Use
<1> QED BY <1>1, <1>2, <1>3, <1>4, <1>5

(* A step of one thread, or on one descriptor.                             *)
LEMMA ThreadMoves ==
  ASSUME NEW t \in Thread, \A u \in Thread \ {t} : pc'[u] = pc[u], NEW s
  PROVE  /\ C(s)' + Car(t, s) = C(s) + Car(t, s)'
         /\ U(s)' + Use(t, s) = U(s) + Use(t, s)'
<1> DEFINE A == Carriers(s)
           B == Carriers(s)'
           V == Users(s)
           W == Users(s)'
<1>1. IsFiniteSet(A) /\ IsFiniteSet(V)
  BY Finite
<1>2. \A x : x # t => (x \in A <=> x \in B)
  BY DEF Carriers
<1>3. \A x : x # t => (x \in V <=> x \in W)
  BY DEF Users
<1>4. /\ C(s) = Cardinality(A) /\ C(s)' = Cardinality(B)
      /\ U(s) = Cardinality(V) /\ U(s)' = Cardinality(W)
  BY DEF C, U
<1>5. /\ Car(t, s) = (IF t \in A THEN 1 ELSE 0) /\ Car(t, s)' = (IF t \in B THEN 1 ELSE 0)
      /\ Use(t, s) = (IF t \in V THEN 1 ELSE 0) /\ Use(t, s)' = (IF t \in W THEN 1 ELSE 0)
  BY DEF Car, Use
<1> HIDE DEF A, B, V, W
<1>6. Cardinality(B) + (IF t \in A THEN 1 ELSE 0) = Cardinality(A) + (IF t \in B THEN 1 ELSE 0)
  BY <1>1, <1>2, OneElement
<1>7. Cardinality(W) + (IF t \in V THEN 1 ELSE 0) = Cardinality(V) + (IF t \in W THEN 1 ELSE 0)
  BY <1>1, <1>3, OneElement
<1> QED BY <1>4, <1>5, <1>6, <1>7

LEMMA NameMoves ==
  ASSUME NEW p \in Proc, NEW i \in Fd, NEW s,
         \A q \in Proc, j \in Fd : q # p \/ j # i => fds'[q][j] = fds[q][j]
  PROVE  N(s)' + Name(p, i, s) = N(s) + Name(p, i, s)'
<1> DEFINE A == Names(s)
           B == Names(s)'
           e == <<p, i>>
<1>1. IsFiniteSet(A)
  BY Finite
<1>2. ASSUME NEW x, x # e PROVE x \in A <=> x \in B
  <2>1. CASE x \in Proc \X Fd
    <3>1. x[1] \in Proc /\ x[2] \in Fd /\ x = <<x[1], x[2]>>
      BY <2>1
    <3>2. fds'[x[1]][x[2]] = fds[x[1]][x[2]]
      BY <1>2, <3>1
    <3> QED BY <3>2 DEF Names
  <2>2. CASE x \notin Proc \X Fd
    BY <2>2 DEF Names
  <2> QED BY <2>1, <2>2
<1>3. N(s) = Cardinality(A) /\ N(s)' = Cardinality(B)
  BY DEF N
<1>4. /\ Name(p, i, s) = (IF e \in A THEN 1 ELSE 0)
      /\ Name(p, i, s)' = (IF e \in B THEN 1 ELSE 0)
  BY DEF Name, Names
<1> HIDE DEF A, B, e
<1>5. Cardinality(B) + (IF e \in A THEN 1 ELSE 0) = Cardinality(A) + (IF e \in B THEN 1 ELSE 0)
  BY <1>1, <1>2, OneElement
<1> QED BY <1>3, <1>4, <1>5

LEMMA NamesStay == ASSUME fds' = fds, NEW s PROVE N(s)' = N(s)
  BY DEF N, Names

LEMMA ThreadsStay == ASSUME pc' = pc, NEW s PROVE C(s)' = C(s) /\ U(s)' = U(s)
  BY DEF C, U, Carriers, Users

-----------------------------------------------------------------------------
(* The lists, the nodes and the semaphores.                                *)

(* What a step that opens and closes nothing leaves alone.                 *)
FacesKept ==
  /\ \A s \in Slot : /\ slot'[s].flags = slot[s].flags
                     /\ slot'[s].file = slot[s].file /\ slot'[s].sem = slot[s].sem
  /\ used' = used /\ excl' = excl /\ nodeRefs' = nodeRefs /\ sems' = sems

FillersKept == \A t \in Thread : Fills(t) \/ Fills(t)' => pc'[t] = pc[t]

LEMMA TableKept ==
  ASSUME TypeOK, Points, TableInv, FacesKept, FillersKept
  PROVE  TableInv'
<1>1. \A t \in Thread : Fills(t)' <=> Fills(t)
  BY DEF FillersKept, Fills
<1>2. \A t \in Thread : Fills(t) =>
        pc'[t].s = pc[t].s /\ pc'[t].file = pc[t].file /\ pc[t].s \in Slot
  BY DEF FillersKept, Fills, Points
<1>3. Lists'
  BY <1>1, <1>2 DEF TableInv, Lists, FacesKept
<1>4. NodesExact'
  <2>1. ASSUME NEW f \in File
        PROVE  {s \in Open : slot[s].file = f}' = {s \in Open : slot[s].file = f}
    BY DEF Open, FacesKept
  <2> QED BY <2>1 DEF TableInv, NodesExact, FacesKept
<1>5. SemsOwned'
  BY DEF TableInv, SemsOwned, FacesKept
<1>6. Alone'
  BY <1>1, <1>2 DEF TableInv, Alone, FacesKept
<1> QED BY <1>3, <1>4, <1>5, <1>6 DEF TableInv

(* The files of a set are released.                                        *)
FacesFreed(gone) ==
  /\ gone \subseteq Open
  /\ \A s \in Slot : /\ slot'[s].flags = IF s \in gone THEN "none" ELSE slot[s].flags
                     /\ slot'[s].file = slot[s].file
                     /\ slot'[s].sem = IF s \in gone THEN Null ELSE slot[s].sem
  /\ used' = used \ gone /\ excl' = excl \ gone
  /\ \A f \in File :
       /\ nodeRefs'[f] = nodeRefs[f] - Cardinality({s \in gone : slot[s].file = f})
       /\ sems'[f] = IF \E s \in gone : slot[s].sem # Null /\ slot[s].sem = sems[f]
                     THEN Null ELSE sems[f]

LEMMA TableFreed ==
  ASSUME TypeOK, Points, TableInv, NEW gone, FacesFreed(gone), FillersKept
  PROVE  TableInv'
<1>1. \A t \in Thread : Fills(t)' <=> Fills(t)
  BY DEF FillersKept, Fills
<1>2. \A t \in Thread : Fills(t) =>
        /\ pc'[t].s = pc[t].s /\ pc'[t].file = pc[t].file
        /\ pc[t].s \in Slot /\ pc[t].s \notin gone
  BY DEF FillersKept, Fills, Points, FacesFreed, Open, TableInv, Lists
<1>3. Lists'
  BY <1>1, <1>2 DEF TableInv, Lists, FacesFreed
<1>4. NodesExact'
  <2> SUFFICES ASSUME NEW f \in File
               PROVE  nodeRefs'[f] = Cardinality({s \in Open : slot[s].file = f}')
    BY DEF NodesExact
  <2> DEFINE A == {s \in Open : slot[s].file = f}
             G == {s \in gone : slot[s].file = f}
  <2>1. {s \in Open : slot[s].file = f}' = A \ G
    BY DEF Open, FacesFreed
  <2>2. IsFiniteSet(A)
    <3>1. A \in SUBSET Slot
      BY DEF Open
    <3> QED BY <3>1, FileAssumption, FS_Subset
  <2>3. A \cap G = G
    BY DEF FacesFreed
  <2>4. nodeRefs[f] = Cardinality(A) /\ nodeRefs'[f] = nodeRefs[f] - Cardinality(G)
    BY DEF TableInv, NodesExact, FacesFreed
  <2> HIDE DEF A, G
  <2>5. Cardinality(A \ G) = Cardinality(A) - Cardinality(G)
    BY <2>2, <2>3, FS_Difference
  <2> QED BY <2>1, <2>4, <2>5
<1>5. SemsOwned'
  <2>1. \A f \in File : sems'[f] # Null => sems'[f] = sems[f]
    BY DEF FacesFreed
  <2>2. \A s \in Slot : /\ slot'[s].sem # Null => s \notin gone /\ slot'[s].sem = slot[s].sem
                        /\ slot'[s].file = slot[s].file
                        /\ s \notin gone => slot'[s].flags = slot[s].flags
    BY DEF FacesFreed
  <2> QED BY <2>1, <2>2 DEF TableInv, SemsOwned
<1>6. Alone'
  <2>1. \A s \in Slot : slot'[s].flags # "none" =>
          /\ s \notin gone /\ slot'[s].flags = slot[s].flags /\ slot'[s].sem = slot[s].sem
    BY DEF FacesFreed
  <2>2. \A s \in Slot : slot'[s].file = slot[s].file
    BY DEF FacesFreed
  <2>3. ASSUME NEW s \in Slot, slot'[s].flags = "lonely", slot'[s].sem # Null
        PROVE  sems'[slot'[s].file] = slot'[s].sem
    <3>1. /\ slot[s].flags = "lonely" /\ slot[s].file \in File /\ slot[s].sem # Null
          /\ sems[slot[s].file] = slot[s].sem
      BY <2>1, <2>2, <2>3 DEF TableInv, Alone, Lists
    <3>2. ASSUME NEW r \in gone, slot[r].sem = sems[slot[s].file] PROVE FALSE
      <4>1. r \in Slot /\ slot[r].flags # "none"
        BY DEF FacesFreed, Open
      <4>2. slot[r].file = slot[s].file
        BY <3>1, <3>2, <4>1 DEF TableInv, SemsOwned
      <4>3. r = s
        BY <3>1, <4>1, <4>2 DEF TableInv, Alone
      <4> QED BY <2>1, <2>3, <3>2, <4>3
    <3>3. sems'[slot[s].file] = sems[slot[s].file]
      BY <3>1, <3>2 DEF FacesFreed
    <3> QED BY <2>1, <2>2, <2>3, <3>1, <3>3
  <2>4. excl' \subseteq excl
    BY DEF FacesFreed
  <2> QED BY <1>1, <1>2, <2>1, <2>2, <2>3, <2>4 DEF TableInv, Alone
<1> QED BY <1>3, <1>4, <1>5, <1>6 DEF TableInv

-----------------------------------------------------------------------------
(* close() and decUsages().                                                *)

Entry == [flags : {"none", "shared", "lonely"}, file : File \cup {Null},
          refs : Nat, usages : Nat, sem : Sem \cup {Null}]

TableTypes ==
  /\ slot \in [Slot -> Entry] /\ used \subseteq Slot /\ excl \subseteq Slot
  /\ sems \in [File -> Sem \cup {Null}] /\ nodeRefs \in [File -> Nat]

Spot == [at : {"idle", "fill", "assoc", "using", "unassoc", "close", "sem",
               "mount", "found", "unmount"},
         s : Slot \cup {Null}, fd : Nat, file : File \cup {Null}]

RestTypes ==
  /\ fds \in [Proc -> [Fd -> Slot \cup {Null}]] /\ alive \subseteq Proc
  /\ mounted \in Slot \cup {Null} /\ pc \in [Thread -> Spot] /\ strayed \in BOOLEAN

LEMMA Types ==
  /\ TypeOK <=> TableTypes /\ RestTypes
  /\ TypeOK' <=> TableTypes' /\ RestTypes'
  BY DEF TypeOK, TableTypes, RestTypes, Entry, Spot

(* A table that differs from slot in counters only.                        *)
SameFaces(table) ==
  /\ table \in [Slot -> Entry]
  /\ \A r \in Slot : /\ table[r].flags = slot[r].flags
                     /\ table[r].file = slot[r].file /\ table[r].sem = slot[r].sem

(* The slots have the counters of a table, except for slot s.              *)
OthersAs(table, s) ==
  \A r \in Slot \ {s} : slot'[r].refs = table[r].refs /\ slot'[r].usages = table[r].usages

LEMMA Releases ==
  ASSUME TableTypes, TableInv, NEW table, SameFaces(table),
         NEW s \in Slot, slot[s].flags # "none", ReleaseFile(table, s)
  PROVE  TableTypes' /\ FacesFreed({s}) /\ OthersAs(table, s)
<1>1. table[s] \in Entry /\ slot[s] \in Entry /\ slot[s].file \in File
  BY DEF SameFaces, TableTypes, TableInv, Lists
<1>2. slot' = [table EXCEPT ![s].flags = "none", ![s].sem = Null]
  BY DEF ReleaseFile
<1>3. slot' \in [Slot -> Entry]
  BY <1>2, <1>1 DEF Entry, SameFaces
<1>4. /\ slot'[s].flags = "none" /\ slot'[s].file = slot[s].file /\ slot'[s].sem = Null
      /\ \A r \in Slot \ {s} : slot'[r] = table[r]
  BY <1>1, <1>2 DEF Entry, SameFaces
<1>5. /\ used' = used \ {s} /\ excl' = excl \ {s}
      /\ nodeRefs' = [nodeRefs EXCEPT ![slot[s].file] = @ - 1]
      /\ sems' = [f \in File |-> IF slot[s].sem # Null /\ sems[f] = slot[s].sem
                                 THEN Null ELSE sems[f]]
  BY DEF ReleaseFile, SameFaces
<1>6. nodeRefs[slot[s].file] >= 1 /\ nodeRefs[slot[s].file] \in Nat
  <2> DEFINE A == {r \in Open : slot[r].file = slot[s].file}
  <2>1. A \in SUBSET Slot /\ s \in A
    BY DEF Open
  <2>2. nodeRefs[slot[s].file] = Cardinality(A)
    BY <1>1 DEF TableInv, NodesExact
  <2> HIDE DEF A
  <2> QED BY <2>1, <2>2, FileAssumption, FS_Subset, Member
<1>7. nodeRefs' \in [File -> Nat]
  BY <1>1, <1>5, <1>6 DEF TableTypes
<1>8. ASSUME NEW f \in File
      PROVE  nodeRefs'[f] = nodeRefs[f] - Cardinality({r \in {s} : slot[r].file = f})
  <2>1. CASE slot[s].file = f
    <3>1. {r \in {s} : slot[r].file = f} = {s}
      BY <2>1
    <3> QED BY <1>5, <2>1, <3>1, FS_Singleton DEF TableTypes
  <2>2. CASE slot[s].file # f
    <3>1. {r \in {s} : slot[r].file = f} = {}
      BY <2>2
    <3>2. nodeRefs'[f] = nodeRefs[f] /\ nodeRefs[f] \in Nat
      BY <1>5, <2>2 DEF TableTypes
    <3> QED BY <3>1, <3>2, FS_EmptySet
  <2> QED BY <2>1, <2>2
<1>9. FacesFreed({s})
  BY <1>4, <1>5, <1>8 DEF FacesFreed, Open, SameFaces
<1>10. TableTypes'
  BY <1>3, <1>5, <1>7 DEF TableTypes
<1> QED BY <1>4, <1>9, <1>10 DEF OthersAs

LEMMA Keeps ==
  ASSUME TableTypes, NEW table, SameFaces(table), KeepFile(table)
  PROVE  TableTypes' /\ FacesKept /\ slot' = table
  BY DEF TableTypes, FacesKept, KeepFile, SameFaces

(* The outcomes of doClose().                                              *)
ClosedFor(table, s, own) ==
  /\ table[s].refs <= 1 /\ table[s].usages <= own
  /\ FacesFreed({s}) /\ OthersAs(table, s)

LeftOpen(table, s) ==
  /\ slot'[s].refs = (IF table[s].refs > 0 THEN table[s].refs - 1 ELSE 0)
  /\ slot'[s].usages = table[s].usages
  /\ slot'[s].refs + slot'[s].usages > 0
  /\ FacesKept /\ OthersAs(table, s)

LEMMA Closes ==
  ASSUME TableTypes, TableInv, NEW table, SameFaces(table), NEW s \in Slot,
         NEW own \in {0, 1}, DoClose(table, s, own), ~strayed', strayed \in BOOLEAN
  PROVE  /\ ~strayed /\ slot[s].flags # "none" /\ TableTypes'
         /\ IF Frees(Dropped(table[s])) THEN ClosedFor(table, s, own) ELSE LeftOpen(table, s)
<1> DEFINE after == [table EXCEPT ![s] = Dropped(@)]
<1>1. table[s] \in Entry
  BY DEF SameFaces
<1>2. /\ Dropped(table[s]) \in Entry
      /\ Dropped(table[s]).flags = table[s].flags /\ Dropped(table[s]).file = table[s].file
      /\ Dropped(table[s]).sem = table[s].sem /\ Dropped(table[s]).usages = table[s].usages
      /\ Dropped(table[s]).refs = (IF table[s].refs > 0 THEN table[s].refs - 1 ELSE 0)
  BY <1>1 DEF Dropped, Entry
<1>3. after \in [Slot -> Entry] /\ after[s] = Dropped(table[s])
  BY <1>2 DEF SameFaces
<1>4. \A r \in Slot \ {s} : after[r] = table[r]
  BY DEF SameFaces
<1>5. SameFaces(after)
  BY <1>2, <1>3, <1>4 DEF SameFaces
<1>6. /\ IF Frees(after[s]) THEN ReleaseFile(after, s) ELSE KeepFile(after)
      /\ ~strayed /\ ~ (Frees(after[s]) /\ own = 0 /\ after[s].usages > 0)
      /\ table[s].flags # "none"
  BY DEF DoClose
<1> HIDE DEF after
<1>7. slot[s].flags # "none"
  BY <1>6 DEF SameFaces
<1>8. CASE Frees(after[s])
  <2>1. TableTypes' /\ FacesFreed({s}) /\ OthersAs(after, s)
    BY <1>5, <1>6, <1>7, <1>8, Releases
  <2>2. OthersAs(table, s)
    BY <1>4, <2>1 DEF OthersAs
  <2>3. table[s].refs <= 1 /\ table[s].usages <= own
    BY <1>1, <1>2, <1>3, <1>6, <1>8 DEF Frees, Entry
  <2> QED BY <1>3, <1>6, <1>7, <1>8, <2>1, <2>2, <2>3 DEF ClosedFor
<1>9. CASE ~ Frees(after[s])
  <2>1. TableTypes' /\ FacesKept /\ slot' = after
    BY <1>5, <1>6, <1>9, Keeps
  <2>2. OthersAs(table, s)
    BY <1>4, <2>1 DEF OthersAs
  <2>3. /\ slot'[s].refs = (IF table[s].refs > 0 THEN table[s].refs - 1 ELSE 0)
        /\ slot'[s].usages = table[s].usages
    BY <1>2, <1>3, <2>1
  <2>4. slot'[s].refs + slot'[s].usages > 0
    BY <1>1, <1>2, <1>3, <1>9, <2>1 DEF Frees, Entry
  <2> QED BY <1>3, <1>6, <1>7, <1>9, <2>1, <2>2, <2>3, <2>4 DEF LeftOpen
<1> QED BY <1>8, <1>9

-----------------------------------------------------------------------------
(* A step moves one thread at most.                                        *)
Moves(t) == pc' \in [Thread -> Spot] /\ \A u \in Thread \ {t} : pc'[u] = pc[u]

LEMMA PointsKept ==
  ASSUME Points, NEW t \in Thread, Moves(t), pc[t].at # "fill",
         pc'[t].at \notin {"fill", "unassoc"}, pc'[t].at # "idle" => pc'[t].s \in Slot
  PROVE  Points' /\ FillersKept
<1>1. Points'
  BY DEF Points, Moves
<1>2. FillersKept
  BY DEF FillersKept, Fills, Moves
<1> QED BY <1>1, <1>2

LEMMA PointsStay ==
  ASSUME Points, pc' = pc PROVE Points' /\ FillersKept
  BY DEF Points, FillersKept

(* What a thread contributes, by its point.                                *)
Carries(w, s) == IF w.s = s /\ w.at \in {"assoc", "close", "unmount"} THEN 1 ELSE 0
Works(w, s) ==
  IF w.s = s /\ w.at \in {"using", "unassoc", "close", "sem", "mount"} THEN 1 ELSE 0

LEMMA Shares ==
  ASSUME NEW t \in Thread, NEW s
  PROVE  /\ Car(t, s) = Carries(pc[t], s) /\ Car(t, s)' = Carries(pc'[t], s)
         /\ Use(t, s) = Works(pc[t], s) /\ Use(t, s)' = Works(pc'[t], s)
  BY DEF Car, Use, Carries, Works, Carriers, Users

(* How the counters of a slot change with a step of thread t.              *)
LEMMA Shift ==
  ASSUME NEW t \in Thread, Moves(t), NEW s
  PROVE  /\ C(s) \in Nat /\ C(s)' \in Nat /\ U(s) \in Nat /\ U(s)' \in Nat
         /\ N(s) \in Nat /\ N(s)' \in Nat
         /\ C(s)' + Carries(pc[t], s) = C(s) + Carries(pc'[t], s)
         /\ U(s)' + Works(pc[t], s) = U(s) + Works(pc'[t], s)
         /\ Carries(pc[t], s) <= C(s) /\ Works(pc[t], s) <= U(s)
<1>1. /\ C(s)' + Car(t, s) = C(s) + Car(t, s)'
      /\ U(s)' + Use(t, s) = U(s) + Use(t, s)'
  BY ThreadMoves DEF Moves
<1> QED BY <1>1, Shares, Counters

(* Whatever is referred to is open.                                        *)
LEMMA Reached ==
  ASSUME TypeOK, Counted
  PROVE  /\ \A p \in Proc, i \in Fd : fds[p][i] # Null =>
              fds[p][i] \in Slot /\ slot[fds[p][i]].flags # "none"
         /\ \A t \in Thread, s \in Slot :
              Carries(pc[t], s) = 1 \/ Works(pc[t], s) = 1 => slot[s].flags # "none"
         /\ mounted # Null => mounted \in Slot /\ slot[mounted].flags # "none"
<1>1. ASSUME NEW p \in Proc, NEW i \in Fd, fds[p][i] # Null
      PROVE  fds[p][i] \in Slot /\ slot[fds[p][i]].flags # "none"
  <2>1. fds[p][i] \in Slot
    BY <1>1 DEF TypeOK
  <2>2. Name(p, i, fds[p][i]) = 1
    BY DEF Name
  <2>3. N(fds[p][i]) >= 1 /\ N(fds[p][i]) \in Nat
    BY <2>2, Counters
  <2> QED BY <2>1, <2>3 DEF Counted, Settled
<1>2. ASSUME NEW t \in Thread, NEW s \in Slot, Carries(pc[t], s) = 1 \/ Works(pc[t], s) = 1
      PROVE  slot[s].flags # "none"
  <2>1. C(s) >= 1 \/ U(s) >= 1
    BY <1>2, Shares, Counters
  <2> QED BY <2>1, Counters DEF Counted, Settled
<1>3. mounted # Null => mounted \in Slot /\ slot[mounted].flags # "none"
  BY DEF TypeOK, Counted, Settled, M
<1> QED BY <1>1, <1>2, <1>3

-----------------------------------------------------------------------------
(* The system calls on a descriptor.                                       *)
LEMMA RequestKeeps ==
  ASSUME TrackInv, ~strayed', NEW t \in Thread, NEW i \in Fd,
         NEW call \in {"using", "unassoc", "sem", "mount"}, Request(t, i, call)
  PROVE  TrackInv'
<1> DEFINE x == fds[ProcOf[t]][i]
<1>i. TypeOK /\ TableTypes /\ RestTypes /\ Points /\ Dead /\ TableInv /\ Counted
  BY Types DEF TrackInv
<1>e. /\ pc[t].at = "idle" /\ x # Null
      /\ slot' = [slot EXCEPT ![x].usages = @ + 1]
      /\ pc' = [pc EXCEPT ![t] = [at |-> call, s |-> x, file |-> Null,
                                  fd |-> IF call = "unassoc" THEN i ELSE 0]]
      /\ UNCHANGED <<used, excl, sems, nodeRefs, fds, alive, mounted, strayed>>
  BY DEF Request, IncUsages, Descs, At
<1>x. x \in Slot /\ slot[x].flags # "none" /\ slot[x] \in Entry /\ i \in Nat
  BY <1>i, <1>e, Reached, FileAssumption DEF TableTypes
<1> HIDE DEF x
<1>m. /\ Moves(t) /\ pc'[t].at = call /\ pc'[t].s = x /\ pc'[t].file = Null
      /\ pc'[t].fd = IF call = "unassoc" THEN i ELSE 0
  BY <1>i, <1>e, <1>x DEF RestTypes, Moves, Spot
<1>s. /\ slot' \in [Slot -> Entry] /\ FacesKept
      /\ \A r \in Slot : /\ slot'[r].refs = slot[r].refs
                         /\ slot'[r].usages = slot[r].usages + (IF r = x THEN 1 ELSE 0)
  BY <1>i, <1>e, <1>x DEF TableTypes, Entry, FacesKept
<1>1. TypeOK'
  BY <1>i, <1>e, <1>m, <1>s, Types DEF TableTypes, RestTypes, Moves
<1>2. Points' /\ FillersKept /\ Dead'
  BY <1>i, <1>e, <1>m, <1>x DEF Points, Moves, FillersKept, Fills, Dead
<1>3. TableInv'
  BY <1>i, <1>s, <1>2, TableKept
<1>4. Counted'
  <2> SUFFICES ASSUME NEW r \in Slot PROVE Settled(r)'
    BY DEF Counted
  <2>1. Settled(r) /\ slot[r].refs \in Nat /\ slot[r].usages \in Nat
    BY <1>i DEF Counted, TableTypes, Entry
  <2>2. N(r)' = N(r) /\ M(r)' = M(r)
    BY <1>e, NamesStay DEF M
  <2>3. C(r)' = C(r) /\ U(r)' = U(r) + (IF r = x THEN 1 ELSE 0) /\ U(r) \in Nat
    BY <1>e, <1>m, Shift DEF Carries, Works
  <2> QED BY <1>x, <1>s, <2>1, <2>2, <2>3 DEF Settled, FacesKept
<1> QED BY <1>1, <1>2, <1>3, <1>4 DEF TrackInv

LEMMA UnassocKeeps ==
  ASSUME TrackInv, ~strayed', NEW t \in Thread,
         Unassoc(t)
  PROVE  TrackInv'
<1> DEFINE p == ProcOf[t]
<1>i. TypeOK /\ TableTypes /\ RestTypes /\ Points /\ Dead /\ TableInv /\ Counted
  BY Types DEF TrackInv
<1>0. pc[t].at = "unassoc" /\ pc[t] \in Spot /\ p \in alive /\ p \in Proc
  BY <1>i, FileAssumption DEF Unassoc, At, Runs, RestTypes
<1>8. PICK i \in Fd : i = pc[t].fd
  BY <1>i, <1>0 DEF Points
<1>9. PICK x \in Slot : x = pc[t].s
  BY <1>i, <1>0 DEF Points
<1>x. /\ pc[t].at = "unassoc" /\ x \in Slot /\ i \in Fd /\ p \in Proc
      /\ pc[t] \in Spot /\ p \in alive /\ pc[t].s = x /\ pc[t].fd = i
  BY <1>0, <1>8, <1>9
<1>e. /\ fds' = [fds EXCEPT ![p][i] = Null] /\ fds[p][i] = x
      /\ pc' = [pc EXCEPT ![t].at = "close", ![t].fd = 0]
      /\ UNCHANGED <<slot, used, excl, sems, nodeRefs, alive, mounted>> /\ ~strayed /\ strayed' \in BOOLEAN
  BY <1>x DEF Unassoc, Descs
<1> HIDE DEF p
<1>m. Moves(t) /\ pc'[t].at = "close" /\ pc'[t].s = pc[t].s
  BY <1>i, <1>e, <1>x DEF RestTypes, Moves, Spot
<1>f. /\ fds' \in [Proc -> [Fd -> Slot \cup {Null}]] /\ fds'[p][i] = Null
      /\ \A q \in Proc, j \in Fd : q # p \/ j # i => fds'[q][j] = fds[q][j]
  BY <1>i, <1>e, <1>x DEF RestTypes
<1>1. TypeOK'
  BY <1>i, <1>e, <1>m, <1>f, Types DEF TableTypes, RestTypes, Moves
<1>2. Points' /\ FillersKept /\ Dead'
  <2>1. Points' /\ FillersKept
    BY <1>i, <1>x, <1>m, PointsKept
  <2> QED BY <1>i, <1>e, <1>x, <1>f, <2>1 DEF Dead
<1>3. TableInv'
  <2>1. FacesKept
    BY <1>e DEF FacesKept
  <2> QED BY <1>i, <1>2, <2>1, TableKept
<1>4. Counted'
  <2> SUFFICES ASSUME NEW r \in Slot PROVE Settled(r)'
    BY DEF Counted
  <2>1. Settled(r) /\ slot[r].refs \in Nat /\ slot[r].usages \in Nat
    BY <1>i DEF Counted, TableTypes, Entry
  <2>2. N(r)' + Name(p, i, r) = N(r) + Name(p, i, r)'
    BY <1>x, <1>f, NameMoves
  <2>3. Name(p, i, r) = (IF r = x THEN 1 ELSE 0) /\ Name(p, i, r)' = 0
    BY <1>e, <1>f, FileAssumption DEF Name
  <2>4. /\ C(r)' = C(r) + (IF r = x THEN 1 ELSE 0) /\ U(r)' = U(r)
        /\ C(r) \in Nat /\ N(r) \in Nat /\ N(r)' \in Nat /\ U(r) \in Nat
    BY <1>x, <1>m, Shift DEF Carries, Works
  <2>5. M(r)' = M(r) /\ M(r) \in {0, 1} /\ slot'[r] = slot[r]
    BY <1>e DEF M
  <2>6. r = x => slot[r].flags # "none"
    BY <1>i, <1>x, Reached DEF Works
  <2> QED BY <2>1, <2>2, <2>3, <2>4, <2>5, <2>6 DEF Settled
<1> QED BY <1>1, <1>2, <1>3, <1>4 DEF TrackInv

LEMMA DupKeeps ==
  ASSUME TrackInv, ~strayed', NEW t \in Thread, NEW k \in Fd,
         Dup(t, k)
  PROVE  TrackInv'
<1> DEFINE p == ProcOf[t]
           x == fds[ProcOf[t]][k]
<1>i. TypeOK /\ TableTypes /\ RestTypes /\ Points /\ Dead /\ TableInv /\ Counted
  BY Types DEF TrackInv
<1>e. /\ slot' = [slot EXCEPT ![x].refs = @ + 1] /\ x # Null /\ p \in alive
      /\ \E j \in Lowest(FreeFds(p)) : fds' = [fds EXCEPT ![p][j] = x]
      /\ UNCHANGED <<used, excl, sems, nodeRefs, alive, mounted, pc, strayed>>
  BY DEF Dup, Descs, At, Runs
<1>x. x \in Slot /\ slot[x].flags # "none" /\ slot[x] \in Entry /\ p \in Proc
  BY <1>i, <1>e, Reached, FileAssumption DEF TableTypes
<1>j. PICK i \in Fd : fds[p][i] = Null /\ fds' = [fds EXCEPT ![p][i] = x]
  BY <1>e DEF Lowest, FreeFds
<1> HIDE DEF p, x
<1>f. /\ fds' \in [Proc -> [Fd -> Slot \cup {Null}]] /\ fds'[p][i] = x
      /\ \A q \in Proc, j \in Fd : q # p \/ j # i => fds'[q][j] = fds[q][j]
  BY <1>i, <1>j, <1>x DEF RestTypes
<1>s. /\ slot' \in [Slot -> Entry] /\ FacesKept
      /\ \A r \in Slot : /\ slot'[r].usages = slot[r].usages
                         /\ slot'[r].refs = slot[r].refs + (IF r = x THEN 1 ELSE 0)
  BY <1>i, <1>e, <1>x DEF TableTypes, Entry, FacesKept
<1>1. TypeOK'
  BY <1>i, <1>e, <1>f, <1>s, Types DEF TableTypes, RestTypes
<1>2. Points' /\ FillersKept /\ Dead'
  <2>1. Points' /\ FillersKept
    BY <1>i, <1>e, PointsStay
  <2> QED BY <1>i, <1>e, <1>x, <1>f, <2>1 DEF Dead
<1>3. TableInv'
  BY <1>i, <1>2, <1>s, TableKept
<1>4. Counted'
  <2> SUFFICES ASSUME NEW r \in Slot PROVE Settled(r)'
    BY DEF Counted
  <2>1. Settled(r) /\ slot[r].refs \in Nat /\ slot[r].usages \in Nat
    BY <1>i DEF Counted, TableTypes, Entry
  <2>2. N(r)' + Name(p, i, r) = N(r) + Name(p, i, r)'
    BY <1>x, <1>f, NameMoves
  <2>3. Name(p, i, r) = 0 /\ Name(p, i, r)' = (IF r = x THEN 1 ELSE 0)
    BY <1>j, <1>f, FileAssumption DEF Name
  <2>4. /\ C(r)' = C(r) /\ U(r)' = U(r) /\ M(r)' = M(r) /\ M(r) \in {0, 1}
        /\ C(r) \in Nat /\ N(r) \in Nat /\ N(r)' \in Nat
    BY <1>e, ThreadsStay, Counters DEF M
  <2> QED BY <1>x, <1>s, <2>1, <2>2, <2>3, <2>4 DEF Settled, FacesKept
<1> QED BY <1>1, <1>2, <1>3, <1>4 DEF TrackInv

-----------------------------------------------------------------------------
(* The mountspace.                                                         *)

LEMMA LookupKeeps ==
  ASSUME TrackInv, ~strayed', NEW t \in Thread,
         Lookup(t)
  PROVE  TrackInv'
<1>i. TypeOK /\ TableTypes /\ RestTypes /\ Points /\ Dead /\ TableInv /\ Counted
  BY Types DEF TrackInv
<1>e. /\ pc[t].at = "idle" /\ mounted # Null
      /\ pc' = [pc EXCEPT ![t] = [idle EXCEPT !.at = "found", !.s = mounted]]
      /\ UNCHANGED <<slot, used, excl, sems, nodeRefs, fds, alive, mounted, strayed>>
  BY DEF Lookup, At
<1>x. mounted \in Slot
  BY <1>i, <1>e DEF RestTypes
<1>m. Moves(t) /\ pc'[t].at = "found" /\ pc'[t].s = mounted
  BY <1>i, <1>e, <1>x DEF RestTypes, Moves, Spot, idle
<1>1. TypeOK'
  BY <1>i, <1>e, <1>m, Types DEF TableTypes, RestTypes, Moves
<1>2. Points' /\ FillersKept /\ Dead'
  <2>1. Points' /\ FillersKept
    BY <1>i, <1>e, <1>m, <1>x, PointsKept
  <2> QED BY <1>i, <1>e, <2>1 DEF Dead
<1>3. TableInv'
  <2>1. FacesKept
    BY <1>e DEF FacesKept
  <2> QED BY <1>i, <1>2, <2>1, TableKept
<1>4. Counted'
  <2> SUFFICES ASSUME NEW r \in Slot PROVE Settled(r)'
    BY DEF Counted
  <2>1. Settled(r) /\ slot[r].refs \in Nat /\ slot[r].usages \in Nat
    BY <1>i DEF Counted, TableTypes, Entry
  <2>2. N(r)' = N(r) /\ M(r)' = M(r) /\ slot'[r] = slot[r]
    BY <1>e, NamesStay DEF M
  <2>3. C(r)' = C(r) /\ U(r)' = U(r)
    BY <1>e, <1>m, Shift DEF Carries, Works
  <2> QED BY <2>1, <2>2, <2>3 DEF Settled
<1> QED BY <1>1, <1>2, <1>3, <1>4 DEF TrackInv

LEMMA RequestMountedKeeps ==
  ASSUME TrackInv, ~strayed', NEW t \in Thread,
         RequestMounted(t)
  PROVE  TrackInv'
<1> DEFINE x == pc[t].s
<1>i. TypeOK /\ TableTypes /\ RestTypes /\ Points /\ Dead /\ TableInv /\ Counted
  BY Types DEF TrackInv
<1>e. /\ pc[t].at = "found" /\ mounted = x
      /\ slot' = [slot EXCEPT ![x].usages = @ + 1]
      /\ pc' = [pc EXCEPT ![t].at = "using"]
      /\ UNCHANGED <<used, excl, sems, nodeRefs, fds, alive, mounted>>
      /\ ~strayed /\ strayed' \in BOOLEAN
  BY DEF RequestMounted, At, Goto, IncUsages
<1>x. x \in Slot /\ slot[x].flags # "none" /\ slot[x] \in Entry /\ pc[t] \in Spot
  BY <1>i, <1>e, Reached, FileAssumption DEF TableTypes, RestTypes, Points
<1>m. Moves(t) /\ pc'[t].at = "using" /\ pc'[t].s = x
  BY <1>i, <1>e, <1>x DEF RestTypes, Moves, Spot
<1>s. /\ slot' \in [Slot -> Entry] /\ FacesKept
      /\ \A r \in Slot : /\ slot'[r].refs = slot[r].refs
                         /\ slot'[r].usages = slot[r].usages + (IF r = x THEN 1 ELSE 0)
  BY <1>i, <1>e, <1>x DEF TableTypes, Entry, FacesKept
<1>1. TypeOK'
  BY <1>i, <1>e, <1>m, <1>s, Types DEF TableTypes, RestTypes, Moves
<1>2. Points' /\ FillersKept /\ Dead'
  <2>1. Points' /\ FillersKept
    BY <1>i, <1>e, <1>m, <1>x, PointsKept
  <2> QED BY <1>i, <1>e, <2>1 DEF Dead
<1>3. TableInv'
  BY <1>i, <1>s, <1>2, TableKept
<1>4. Counted'
  <2> SUFFICES ASSUME NEW r \in Slot PROVE Settled(r)'
    BY DEF Counted
  <2>1. Settled(r) /\ slot[r].refs \in Nat /\ slot[r].usages \in Nat
    BY <1>i DEF Counted, TableTypes, Entry
  <2>2. N(r)' = N(r) /\ M(r)' = M(r)
    BY <1>e, NamesStay DEF M
  <2>3. C(r)' = C(r) /\ U(r)' = U(r) + (IF r = x THEN 1 ELSE 0) /\ U(r) \in Nat
    BY <1>e, <1>m, Shift DEF Carries, Works
  <2> QED BY <1>x, <1>s, <2>1, <2>2, <2>3 DEF Settled, FacesKept
<1> QED BY <1>1, <1>2, <1>3, <1>4 DEF TrackInv

LEMMA UnmountKeeps ==
  ASSUME TrackInv, ~strayed', NEW t \in Thread,
         Unmount(t)
  PROVE  TrackInv'
<1>i. TypeOK /\ TableTypes /\ RestTypes /\ Points /\ Dead /\ TableInv /\ Counted
  BY Types DEF TrackInv
<1>e. /\ pc[t].at = "idle" /\ mounted # Null /\ mounted' = Null
      /\ pc' = [pc EXCEPT ![t] = [idle EXCEPT !.at = "unmount", !.s = mounted]]
      /\ UNCHANGED <<slot, used, excl, sems, nodeRefs, fds, alive, strayed>>
  BY DEF Unmount, At
<1>x. mounted \in Slot /\ slot[mounted].flags # "none"
  BY <1>i, <1>e, Reached
<1>m. Moves(t) /\ pc'[t].at = "unmount" /\ pc'[t].s = mounted
  BY <1>i, <1>e, <1>x DEF RestTypes, Moves, Spot, idle
<1>1. TypeOK'
  BY <1>i, <1>e, <1>m, Types DEF TableTypes, RestTypes, Moves
<1>2. Points' /\ FillersKept /\ Dead'
  <2>1. Points' /\ FillersKept
    BY <1>i, <1>e, <1>m, <1>x, PointsKept
  <2> QED BY <1>i, <1>e, <2>1 DEF Dead
<1>3. TableInv'
  <2>1. FacesKept
    BY <1>e DEF FacesKept
  <2> QED BY <1>i, <1>2, <2>1, TableKept
<1>4. Counted'
  <2> SUFFICES ASSUME NEW r \in Slot PROVE Settled(r)'
    BY DEF Counted
  <2>1. Settled(r) /\ slot[r].refs \in Nat /\ slot[r].usages \in Nat
    BY <1>i DEF Counted, TableTypes, Entry
  <2>2. N(r)' = N(r) /\ slot'[r] = slot[r]
    BY <1>e, NamesStay
  <2>3. M(r) = (IF r = mounted THEN 1 ELSE 0) /\ M(r)' = 0
    BY <1>e, FileAssumption DEF M
  <2>4. /\ C(r)' = C(r) + (IF r = mounted THEN 1 ELSE 0) /\ U(r)' = U(r)
        /\ C(r) \in Nat /\ N(r) \in Nat
    BY <1>e, <1>m, Shift DEF Carries, Works
  <2> QED BY <1>x, <2>1, <2>2, <2>3, <2>4 DEF Settled
<1> QED BY <1>1, <1>2, <1>3, <1>4 DEF TrackInv

LEMMA MountKeeps ==
  ASSUME TrackInv, ~strayed', NEW t \in Thread,
         Mount(t)
  PROVE  TrackInv'
<1> DEFINE x == pc[t].s
           n == IF slot[x].file \in FsChan THEN 1 ELSE 0
<1>i. TypeOK /\ TableTypes /\ RestTypes /\ Points /\ Dead /\ TableInv /\ Counted
  BY Types DEF TrackInv
<1>e. /\ pc[t].at = "mount" /\ pc' = [pc EXCEPT ![t].at = "using"]
      /\ UNCHANGED <<used, excl, sems, nodeRefs, fds, alive>>
      /\ ~strayed /\ strayed' \in BOOLEAN
      /\ n = 1 => /\ slot' = [slot EXCEPT ![x].refs = @ + 1]
                   /\ mounted = Null /\ mounted' = x
      /\ n = 0 => slot' = slot /\ mounted' = mounted
  <2>1. CASE slot[x].file \in FsChan
    <3>1. /\ pc[t].at = "mount" /\ pc' = [pc EXCEPT ![t].at = "using"]
          /\ UNCHANGED <<used, excl, sems, nodeRefs, fds, alive>>
          /\ slot' = [slot EXCEPT ![x].refs = @ + 1]
          /\ mounted' = (IF mounted = Null THEN x ELSE mounted)
          /\ strayed' = (strayed \/ mounted # Null)
      BY <2>1 DEF Mount, At, Goto
    <3>2. strayed' \in BOOLEAN /\ ~strayed /\ mounted = Null
      BY <3>1
    <3> QED BY <2>1, <3>1, <3>2
  <2>2. CASE slot[x].file \notin FsChan
    BY <1>i, <2>2 DEF Mount, At, Goto, RestTypes
  <2> QED BY <2>1, <2>2
<1>x. /\ x \in Slot /\ slot[x].flags # "none" /\ slot[x] \in Entry /\ pc[t] \in Spot
      /\ n \in {0, 1}
  BY <1>i, <1>e, Reached DEF TableTypes, RestTypes, Points, Works
<1> HIDE DEF n
<1>m. Moves(t) /\ pc'[t].at = "using" /\ pc'[t].s = x
  BY <1>i, <1>e, <1>x DEF RestTypes, Moves, Spot
<1>s. /\ slot' \in [Slot -> Entry] /\ FacesKept
      /\ \A r \in Slot : /\ slot'[r].usages = slot[r].usages
                         /\ slot'[r].refs = slot[r].refs + (IF r = x THEN n ELSE 0)
  <2>1. CASE n = 1
    BY <1>i, <1>e, <1>x, <2>1 DEF TableTypes, Entry, FacesKept
  <2>2. CASE n = 0
    BY <1>i, <1>e, <1>x, <2>2 DEF TableTypes, Entry, FacesKept
  <2> QED BY <1>x, <2>1, <2>2
<1>1. TypeOK'
  BY <1>i, <1>e, <1>m, <1>s, <1>x, Types DEF TableTypes, RestTypes, Moves
<1>2. Points' /\ FillersKept /\ Dead'
  <2>1. Points' /\ FillersKept
    BY <1>i, <1>e, <1>m, <1>x, PointsKept
  <2> QED BY <1>i, <1>e, <2>1 DEF Dead
<1>3. TableInv'
  BY <1>i, <1>s, <1>2, TableKept
<1>4. Counted'
  <2> SUFFICES ASSUME NEW r \in Slot PROVE Settled(r)'
    BY DEF Counted
  <2>1. Settled(r) /\ slot[r].refs \in Nat /\ slot[r].usages \in Nat
    BY <1>i DEF Counted, TableTypes, Entry
  <2>2. N(r)' = N(r) /\ M(r)' = M(r) + (IF r = x THEN n ELSE 0) /\ M(r) \in {0, 1}
    BY <1>e, <1>x, NamesStay, FileAssumption DEF M
  <2>3. C(r)' = C(r) /\ U(r)' = U(r) /\ C(r) \in Nat /\ N(r) \in Nat
    BY <1>e, <1>m, Shift DEF Carries, Works
  <2> QED BY <1>x, <1>s, <2>1, <2>2, <2>3 DEF Settled, FacesKept
<1> QED BY <1>1, <1>2, <1>3, <1>4 DEF TrackInv

-----------------------------------------------------------------------------
(* The calls that may close a file.                                        *)

LEMMA CloseUnmountedKeeps ==
  ASSUME TrackInv, ~strayed', NEW t \in Thread,
         CloseUnmounted(t)
  PROVE  TrackInv'
<1>i. TypeOK /\ TableTypes /\ RestTypes /\ Points /\ Dead /\ TableInv /\ Counted
  BY Types DEF TrackInv
<1>0. pc[t].at = "unmount" /\ pc[t] \in Spot
  BY <1>i DEF CloseUnmounted, At, RestTypes
<1>9. PICK x \in Slot : x = pc[t].s
  BY <1>i, <1>0 DEF Points
<1>x. pc[t].at = "unmount" /\ pc[t].s = x /\ slot[x].flags # "none"
  BY <1>i, <1>0, <1>9, Reached DEF Carries
<1> DEFINE frees == Frees(Dropped(slot[x]))
<1>e. /\ DoClose(slot, x, 0) /\ pc' = [pc EXCEPT ![t] = idle]
      /\ UNCHANGED <<fds, alive, mounted>> /\ strayed' \in BOOLEAN
  BY <1>x DEF CloseUnmounted, DoClose, Done
<1>k. SameFaces(slot)
  BY <1>i DEF SameFaces, TableTypes
<1>c. /\ ~strayed /\ TableTypes'
      /\ IF frees THEN ClosedFor(slot, x, 0) ELSE LeftOpen(slot, x)
  BY <1>i, <1>e, <1>k, Closes DEF RestTypes
<1> HIDE DEF frees
<1>m. Moves(t) /\ pc'[t].at = "idle"
  BY <1>i, <1>e, FileAssumption DEF RestTypes, Moves, Spot, idle
<1>1. TypeOK'
  BY <1>i, <1>e, <1>c, <1>m, Types DEF RestTypes, Moves
<1>2. Points' /\ FillersKept /\ Dead'
  <2>1. Points' /\ FillersKept
    BY <1>i, <1>x, <1>m, PointsKept
  <2> QED BY <1>i, <1>e, <2>1 DEF Dead
<1>3. TableInv'
  <2>1. CASE frees
    BY <1>i, <1>2, <1>c, <2>1, TableFreed DEF ClosedFor
  <2>2. CASE ~ frees
    BY <1>i, <1>2, <1>c, <2>2, TableKept DEF LeftOpen
  <2> QED BY <2>1, <2>2
<1>4. Counted'
  <2> SUFFICES ASSUME NEW r \in Slot PROVE Settled(r)'
    BY DEF Counted
  <2>1. Settled(r) /\ slot[r].refs \in Nat /\ slot[r].usages \in Nat
    BY <1>i DEF Counted, TableTypes, Entry
  <2>2. N(r)' = N(r) /\ M(r)' = M(r) /\ M(r) \in {0, 1} /\ N(r) \in Nat
    BY <1>e, NamesStay, Counters DEF M
  <2>3. /\ C(r)' \in Nat /\ U(r)' \in Nat /\ C(r) \in Nat /\ U(r) \in Nat
        /\ C(r) = C(r)' + (IF r = x THEN 1 ELSE 0)
        /\ U(r)' = U(r)
    BY <1>x, <1>m, Shift DEF Carries, Works
  <2>4. CASE r # x
    <3>1. slot'[r].flags = slot[r].flags
      BY <1>c, <2>4 DEF ClosedFor, LeftOpen, FacesFreed, FacesKept
    <3>2. slot'[r].refs = slot[r].refs /\ slot'[r].usages = slot[r].usages
      BY <1>c, <2>4 DEF ClosedFor, LeftOpen, OthersAs
    <3>3. U(r)' = U(r)
      BY <2>3, <2>4
    <3> QED BY <2>1, <2>2, <2>3, <2>4, <3>1, <3>2, <3>3 DEF Settled
  <2>5. CASE r = x /\ frees
    <3>1. slot'[r].flags = "none" /\ slot[r].refs <= 1 /\ slot[r].usages <= 0
      BY <1>c, <2>5 DEF ClosedFor, FacesFreed
    <3> QED BY <1>x, <2>1, <2>2, <2>3, <2>5, <3>1 DEF Settled
  <2>6. CASE r = x /\ ~ frees
    <3>1. /\ slot'[r].refs = (IF slot[r].refs > 0 THEN slot[r].refs - 1 ELSE 0)
          /\ slot'[r].usages = slot[r].usages /\ slot'[r].refs + slot'[r].usages > 0
          /\ slot'[r].flags = slot[r].flags
      BY <1>c, <2>6 DEF LeftOpen, FacesKept
    <3> QED BY <1>x, <2>1, <2>2, <2>3, <2>6, <3>1 DEF Settled
  <2> QED BY <2>4, <2>5, <2>6
<1> QED BY <1>1, <1>2, <1>3, <1>4 DEF TrackInv

LEMMA CloseKeeps ==
  ASSUME TrackInv, ~strayed', NEW t \in Thread,
         Close(t)
  PROVE  TrackInv'
<1>i. TypeOK /\ TableTypes /\ RestTypes /\ Points /\ Dead /\ TableInv /\ Counted
  BY Types DEF TrackInv
<1>0. pc[t].at = "close" /\ pc[t] \in Spot
  BY <1>i DEF Close, At, RestTypes
<1>9. PICK x \in Slot : x = pc[t].s
  BY <1>i, <1>0 DEF Points
<1>x. pc[t].at = "close" /\ pc[t].s = x /\ slot[x].flags # "none"
  BY <1>i, <1>0, <1>9, Reached DEF Carries
<1> DEFINE frees == Frees(Dropped(slot[x]))
<1>e. /\ DoClose(slot, x, 1)
      /\ frees => pc' = [pc EXCEPT ![t] = idle]
      /\ ~ frees => pc' = [pc EXCEPT ![t].at = "using"]
      /\ UNCHANGED <<fds, alive, mounted>> /\ strayed' \in BOOLEAN
  BY <1>x DEF Close, DoClose, Done, Goto
<1>k. SameFaces(slot)
  BY <1>i DEF SameFaces, TableTypes
<1>c. /\ ~strayed /\ TableTypes'
      /\ IF frees THEN ClosedFor(slot, x, 1) ELSE LeftOpen(slot, x)
  BY <1>i, <1>e, <1>k, Closes DEF RestTypes
<1> HIDE DEF frees
<1>m. Moves(t) /\ IF frees THEN pc'[t].at = "idle" ELSE pc'[t].at = "using" /\ pc'[t].s = x
  <2>1. CASE frees
    <3>1. pc' = [pc EXCEPT ![t] = idle]
      BY <1>e, <2>1
    <3>2. Moves(t) /\ pc'[t].at = "idle"
      BY <1>i, <3>1, FileAssumption DEF RestTypes, Moves, Spot, idle
    <3> QED BY <2>1, <3>2
  <2>2. CASE ~ frees
    BY <1>i, <1>0, <1>e, <1>x, <2>2 DEF RestTypes, Moves, Spot
  <2> QED BY <2>1, <2>2
<1>1. TypeOK'
  BY <1>i, <1>e, <1>c, <1>m, Types DEF RestTypes, Moves
<1>2. Points' /\ FillersKept /\ Dead'
  <2>1. Points' /\ FillersKept
    BY <1>i, <1>x, <1>m, PointsKept
  <2> QED BY <1>i, <1>e, <2>1 DEF Dead
<1>3. TableInv'
  <2>1. CASE frees
    BY <1>i, <1>2, <1>c, <2>1, TableFreed DEF ClosedFor
  <2>2. CASE ~ frees
    BY <1>i, <1>2, <1>c, <2>2, TableKept DEF LeftOpen
  <2> QED BY <2>1, <2>2
<1>4. Counted'
  <2> SUFFICES ASSUME NEW r \in Slot PROVE Settled(r)'
    BY DEF Counted
  <2>1. Settled(r) /\ slot[r].refs \in Nat /\ slot[r].usages \in Nat
    BY <1>i DEF Counted, TableTypes, Entry
  <2>2. N(r)' = N(r) /\ M(r)' = M(r) /\ M(r) \in {0, 1} /\ N(r) \in Nat
    BY <1>e, NamesStay, Counters DEF M
  <2>3. /\ C(r)' \in Nat /\ U(r)' \in Nat /\ C(r) \in Nat /\ U(r) \in Nat
        /\ C(r) = C(r)' + (IF r = x THEN 1 ELSE 0)
        /\ U(r) = U(r)' + (IF r = x /\ frees THEN 1 ELSE 0)
    BY <1>x, <1>m, Shift DEF Carries, Works
  <2>4. CASE r # x
    <3>1. slot'[r].flags = slot[r].flags
      BY <1>c, <2>4 DEF ClosedFor, LeftOpen, FacesFreed, FacesKept
    <3>2. slot'[r].refs = slot[r].refs /\ slot'[r].usages = slot[r].usages
      BY <1>c, <2>4 DEF ClosedFor, LeftOpen, OthersAs
    <3>3. U(r)' = U(r)
      BY <2>3, <2>4
    <3> QED BY <2>1, <2>2, <2>3, <2>4, <3>1, <3>2, <3>3 DEF Settled
  <2>5. CASE r = x /\ frees
    <3>1. slot'[r].flags = "none" /\ slot[r].refs <= 1 /\ slot[r].usages <= 1
      BY <1>c, <2>5 DEF ClosedFor, FacesFreed
    <3> QED BY <1>x, <2>1, <2>2, <2>3, <2>5, <3>1 DEF Settled
  <2>6. CASE r = x /\ ~ frees
    <3>1. /\ slot'[r].refs = (IF slot[r].refs > 0 THEN slot[r].refs - 1 ELSE 0)
          /\ slot'[r].usages = slot[r].usages /\ slot'[r].refs + slot'[r].usages > 0
          /\ slot'[r].flags = slot[r].flags
      BY <1>c, <2>6 DEF LeftOpen, FacesKept
    <3> QED BY <1>x, <2>1, <2>2, <2>3, <2>6, <3>1 DEF Settled
  <2> QED BY <2>4, <2>5, <2>6
<1> QED BY <1>1, <1>2, <1>3, <1>4 DEF TrackInv

LEMMA ReleaseKeeps ==
  ASSUME TrackInv, ~strayed', NEW t \in Thread,
         Release(t)
  PROVE  TrackInv'
<1>i. TypeOK /\ TableTypes /\ RestTypes /\ Points /\ Dead /\ TableInv /\ Counted
  BY Types DEF TrackInv
<1>0. pc[t].at = "using" /\ pc[t] \in Spot
  BY <1>i DEF Release, At, RestTypes
<1>9. PICK x \in Slot : x = pc[t].s
  BY <1>i, <1>0 DEF Points
<1>x. pc[t].at = "using" /\ pc[t].s = x /\ slot[x].flags # "none" /\ slot[x] \in Entry
  BY <1>i, <1>0, <1>9, Reached DEF Works, TableTypes
<1> DEFINE after == [slot EXCEPT ![x].usages = @ - 1]
           last == [after EXCEPT ![x] = Dropped(@)]
           frees == slot[x].usages = 1 /\ slot[x].refs = 0
<1>e. /\ DecUsages(x) /\ slot[x].usages > 0 /\ pc' = [pc EXCEPT ![t] = idle]
      /\ UNCHANGED <<fds, alive, mounted, strayed>>
  BY <1>x DEF Release, DecUsages, Done
<1>a. after[x] = [slot[x] EXCEPT !.usages = @ - 1] /\ \A r \in Slot \ {x} : after[r] = slot[r]
  BY <1>i DEF TableTypes
<1>b. /\ after[x] \in Entry /\ after[x].usages = slot[x].usages - 1
      /\ after[x].refs = slot[x].refs /\ after[x].flags = slot[x].flags
      /\ after[x].file = slot[x].file /\ after[x].sem = slot[x].sem
  BY <1>x, <1>e, <1>a DEF Entry
<1>k. SameFaces(after)
  BY <1>i, <1>a, <1>b DEF SameFaces, TableTypes
<1>d. IF frees THEN ReleaseFile(last, x) ELSE KeepFile(after)
  <2>1. after[x].usages = 0 /\ after[x].refs = 0 <=> frees
    BY <1>b, <1>x DEF Entry
  <2> QED BY <1>e, <2>1 DEF DecUsages
<1> HIDE DEF after
<1>l. SameFaces(last) /\ \A r \in Slot \ {x} : last[r] = slot[r]
  <2>1. /\ Dropped(after[x]) \in Entry /\ Dropped(after[x]).flags = after[x].flags
        /\ Dropped(after[x]).file = after[x].file /\ Dropped(after[x]).sem = after[x].sem
    BY <1>b DEF Dropped, Entry
  <2> QED BY <1>a, <1>k, <2>1 DEF SameFaces
<1> HIDE DEF last, frees
<1>c. /\ TableTypes' /\ OthersAs(slot, x)
      /\ IF frees THEN FacesFreed({x}) ELSE FacesKept /\ slot' = after
  <2>1. CASE frees
    <3>1. TableTypes' /\ FacesFreed({x}) /\ OthersAs(last, x)
      BY <1>i, <1>d, <1>l, <1>x, <2>1, Releases
    <3> QED BY <1>l, <2>1, <3>1 DEF OthersAs
  <2>2. CASE ~ frees
    <3>1. TableTypes' /\ FacesKept /\ slot' = after
      BY <1>i, <1>d, <1>k, <2>2, Keeps
    <3> QED BY <1>a, <2>2, <3>1 DEF OthersAs
  <2> QED BY <2>1, <2>2
<1>m. Moves(t) /\ pc'[t].at = "idle"
  BY <1>i, <1>e, FileAssumption DEF RestTypes, Moves, Spot, idle
<1>1. TypeOK'
  BY <1>i, <1>e, <1>c, <1>m, Types DEF RestTypes, Moves
<1>2. Points' /\ FillersKept /\ Dead'
  <2>1. Points' /\ FillersKept
    BY <1>i, <1>x, <1>m, PointsKept
  <2> QED BY <1>i, <1>e, <2>1 DEF Dead
<1>3. TableInv'
  <2>1. CASE frees
    BY <1>i, <1>2, <1>c, <2>1, TableFreed
  <2>2. CASE ~ frees
    BY <1>i, <1>2, <1>c, <2>2, TableKept
  <2> QED BY <2>1, <2>2
<1>4. Counted'
  <2> SUFFICES ASSUME NEW r \in Slot PROVE Settled(r)'
    BY DEF Counted
  <2>1. Settled(r) /\ slot[r].refs \in Nat /\ slot[r].usages \in Nat
    BY <1>i DEF Counted, TableTypes, Entry
  <2>2. N(r)' = N(r) /\ M(r)' = M(r) /\ M(r) \in {0, 1} /\ N(r) \in Nat
    BY <1>e, NamesStay, Counters DEF M
  <2>3. /\ C(r)' = C(r) /\ U(r)' \in Nat /\ C(r) \in Nat /\ U(r) \in Nat
        /\ U(r) = U(r)' + (IF r = x THEN 1 ELSE 0)
    BY <1>x, <1>m, Shift DEF Carries, Works
  <2>4. CASE r # x
    <3>1. slot'[r].flags = slot[r].flags
      BY <1>c, <2>4 DEF FacesFreed, FacesKept
    <3>2. slot'[r].refs = slot[r].refs /\ slot'[r].usages = slot[r].usages
      BY <1>c, <2>4 DEF OthersAs
    <3> QED BY <2>1, <2>2, <2>3, <2>4, <3>1, <3>2 DEF Settled
  <2>5. CASE r = x /\ frees
    <3>1. slot'[r].flags = "none"
      BY <1>c, <2>5 DEF FacesFreed
    <3> QED BY <1>x, <2>1, <2>2, <2>3, <2>5, <3>1 DEF Settled, frees
  <2>6. CASE r = x /\ ~ frees
    <3>1. /\ slot'[r].refs = slot[r].refs /\ slot'[r].flags = slot[r].flags
          /\ slot'[r].usages = slot[r].usages - 1
      BY <1>b, <1>c, <2>6
    <3> QED BY <1>x, <2>1, <2>2, <2>3, <2>6, <3>1 DEF Settled, frees
  <2> QED BY <2>4, <2>5, <2>6
<1> QED BY <1>1, <1>2, <1>3, <1>4 DEF TrackInv

LEMMA AssocClosesKeeps ==
  ASSUME TrackInv, ~strayed', NEW t \in Thread,
         Assoc(t), FreeFds(ProcOf[t]) = {}
  PROVE  TrackInv'
<1>i. TypeOK /\ TableTypes /\ RestTypes /\ Points /\ Dead /\ TableInv /\ Counted
  BY Types DEF TrackInv
<1>0. pc[t].at = "assoc" /\ pc[t] \in Spot
  BY <1>i DEF Assoc, At, RestTypes
<1>9. PICK x \in Slot : x = pc[t].s
  BY <1>i, <1>0 DEF Points
<1>x. pc[t].at = "assoc" /\ pc[t].s = x /\ slot[x].flags # "none"
  BY <1>i, <1>0, <1>9, Reached DEF Carries
<1> DEFINE frees == Frees(Dropped(slot[x]))
<1>e. /\ DoClose(slot, x, 0) /\ pc' = [pc EXCEPT ![t] = idle]
      /\ UNCHANGED <<fds, alive, mounted>> /\ strayed' \in BOOLEAN
  BY <1>x DEF Assoc, DoClose, Done
<1>k. SameFaces(slot)
  BY <1>i DEF SameFaces, TableTypes
<1>c. /\ ~strayed /\ TableTypes'
      /\ IF frees THEN ClosedFor(slot, x, 0) ELSE LeftOpen(slot, x)
  BY <1>i, <1>e, <1>k, Closes DEF RestTypes
<1> HIDE DEF frees
<1>m. Moves(t) /\ pc'[t].at = "idle"
  BY <1>i, <1>e, FileAssumption DEF RestTypes, Moves, Spot, idle
<1>1. TypeOK'
  BY <1>i, <1>e, <1>c, <1>m, Types DEF RestTypes, Moves
<1>2. Points' /\ FillersKept /\ Dead'
  <2>1. Points' /\ FillersKept
    BY <1>i, <1>x, <1>m, PointsKept
  <2> QED BY <1>i, <1>e, <2>1 DEF Dead
<1>3. TableInv'
  <2>1. CASE frees
    BY <1>i, <1>2, <1>c, <2>1, TableFreed DEF ClosedFor
  <2>2. CASE ~ frees
    BY <1>i, <1>2, <1>c, <2>2, TableKept DEF LeftOpen
  <2> QED BY <2>1, <2>2
<1>4. Counted'
  <2> SUFFICES ASSUME NEW r \in Slot PROVE Settled(r)'
    BY DEF Counted
  <2>1. Settled(r) /\ slot[r].refs \in Nat /\ slot[r].usages \in Nat
    BY <1>i DEF Counted, TableTypes, Entry
  <2>2. N(r)' = N(r) /\ M(r)' = M(r) /\ M(r) \in {0, 1} /\ N(r) \in Nat
    BY <1>e, NamesStay, Counters DEF M
  <2>3. /\ C(r)' \in Nat /\ U(r)' \in Nat /\ C(r) \in Nat /\ U(r) \in Nat
        /\ C(r) = C(r)' + (IF r = x THEN 1 ELSE 0)
        /\ U(r)' = U(r)
    BY <1>x, <1>m, Shift DEF Carries, Works
  <2>4. CASE r # x
    <3>1. slot'[r].flags = slot[r].flags
      BY <1>c, <2>4 DEF ClosedFor, LeftOpen, FacesFreed, FacesKept
    <3>2. slot'[r].refs = slot[r].refs /\ slot'[r].usages = slot[r].usages
      BY <1>c, <2>4 DEF ClosedFor, LeftOpen, OthersAs
    <3>3. U(r)' = U(r)
      BY <2>3, <2>4
    <3> QED BY <2>1, <2>2, <2>3, <2>4, <3>1, <3>2, <3>3 DEF Settled
  <2>5. CASE r = x /\ frees
    <3>1. slot'[r].flags = "none" /\ slot[r].refs <= 1 /\ slot[r].usages <= 0
      BY <1>c, <2>5 DEF ClosedFor, FacesFreed
    <3> QED BY <1>x, <2>1, <2>2, <2>3, <2>5, <3>1 DEF Settled
  <2>6. CASE r = x /\ ~ frees
    <3>1. /\ slot'[r].refs = (IF slot[r].refs > 0 THEN slot[r].refs - 1 ELSE 0)
          /\ slot'[r].usages = slot[r].usages /\ slot'[r].refs + slot'[r].usages > 0
          /\ slot'[r].flags = slot[r].flags
      BY <1>c, <2>6 DEF LeftOpen, FacesKept
    <3> QED BY <1>x, <2>1, <2>2, <2>3, <2>6, <3>1 DEF Settled
  <2> QED BY <2>4, <2>5, <2>6
<1> QED BY <1>1, <1>2, <1>3, <1>4 DEF TrackInv

LEMMA AssocNamesKeeps ==
  ASSUME TrackInv, ~strayed', NEW t \in Thread,
         Assoc(t), FreeFds(ProcOf[t]) # {}
  PROVE  TrackInv'
<1> DEFINE p == ProcOf[t]
<1>i. TypeOK /\ TableTypes /\ RestTypes /\ Points /\ Dead /\ TableInv /\ Counted
  BY Types DEF TrackInv
<1>0. pc[t].at = "assoc" /\ pc[t] \in Spot /\ p \in alive /\ p \in Proc
  BY <1>i, FileAssumption DEF Assoc, At, Runs, RestTypes
<1>9. PICK x \in Slot : x = pc[t].s
  BY <1>i, <1>0 DEF Points
<1>x. pc[t].at = "assoc" /\ pc[t].s = x /\ slot[x].flags # "none"
  BY <1>i, <1>0, <1>9, Reached DEF Carries
<1>e. /\ \E i \in Lowest(FreeFds(p)) : fds' = [fds EXCEPT ![p][i] = x]
      /\ pc' = [pc EXCEPT ![t] = idle]
      /\ UNCHANGED <<slot, used, excl, sems, nodeRefs, alive, mounted, strayed>>
  BY <1>x DEF Assoc, Done
<1>j. PICK i \in Fd : fds[p][i] = Null /\ fds' = [fds EXCEPT ![p][i] = x]
  BY <1>e DEF Lowest, FreeFds
<1> HIDE DEF p
<1>m. Moves(t) /\ pc'[t].at = "idle"
  BY <1>i, <1>e, FileAssumption DEF RestTypes, Moves, Spot, idle
<1>f. /\ fds' \in [Proc -> [Fd -> Slot \cup {Null}]] /\ fds'[p][i] = x
      /\ \A q \in Proc, j \in Fd : q # p \/ j # i => fds'[q][j] = fds[q][j]
  BY <1>i, <1>j, <1>0 DEF RestTypes
<1>1. TypeOK'
  BY <1>i, <1>e, <1>m, <1>f, Types DEF TableTypes, RestTypes, Moves
<1>2. Points' /\ FillersKept /\ Dead'
  <2>1. Points' /\ FillersKept
    BY <1>i, <1>x, <1>m, PointsKept
  <2> QED BY <1>i, <1>e, <1>0, <1>f, <2>1 DEF Dead
<1>3. TableInv'
  <2>1. FacesKept
    BY <1>e DEF FacesKept
  <2> QED BY <1>i, <1>2, <2>1, TableKept
<1>4. Counted'
  <2> SUFFICES ASSUME NEW r \in Slot PROVE Settled(r)'
    BY DEF Counted
  <2>1. Settled(r) /\ slot[r].refs \in Nat /\ slot[r].usages \in Nat
    BY <1>i DEF Counted, TableTypes, Entry
  <2>2. N(r)' + Name(p, i, r) = N(r) + Name(p, i, r)'
    BY <1>0, <1>f, NameMoves
  <2>3. Name(p, i, r) = 0 /\ Name(p, i, r)' = (IF r = x THEN 1 ELSE 0)
    BY <1>j, <1>f, FileAssumption DEF Name
  <2>4. /\ C(r) = C(r)' + (IF r = x THEN 1 ELSE 0) /\ U(r)' = U(r)
        /\ C(r) \in Nat /\ C(r)' \in Nat /\ N(r) \in Nat /\ N(r)' \in Nat /\ U(r) \in Nat
    BY <1>x, <1>m, Shift DEF Carries, Works
  <2>5. M(r)' = M(r) /\ M(r) \in {0, 1} /\ slot'[r] = slot[r]
    BY <1>e DEF M
  <2> QED BY <1>x, <2>1, <2>2, <2>3, <2>4, <2>5 DEF Settled
<1> QED BY <1>1, <1>2, <1>3, <1>4 DEF TrackInv

LEMMA RedirectKeeps ==
  ASSUME TrackInv, ~strayed', NEW t \in Thread, NEW i \in Fd, NEW k \in Fd,
         Redirect(t, i, k)
  PROVE  TrackInv'
<1> DEFINE p == ProcOf[t]
<1>i. TypeOK /\ TableTypes /\ RestTypes /\ Points /\ Dead /\ TableInv /\ Counted
  BY Types DEF TrackInv
<1>0. /\ p \in alive /\ p \in Proc /\ fds[p][i] # Null /\ fds[p][k] # Null
      /\ DoClose([slot EXCEPT ![fds[p][k]].refs = @ + 1], fds[p][i], 0)
      /\ fds' = [fds EXCEPT ![p][i] = fds[p][k]]
      /\ UNCHANGED <<alive, mounted, pc>>
  BY <1>i, FileAssumption DEF Redirect, At, Runs, Descs
<1>8. PICK x \in Slot : x = fds[p][i]
  BY <1>i, <1>0 DEF RestTypes
<1>9. PICK y \in Slot : y = fds[p][k]
  BY <1>i, <1>0 DEF RestTypes
<1> DEFINE table == [slot EXCEPT ![y].refs = @ + 1]
           frees == Frees(Dropped(table[x]))
<1>e. /\ DoClose(table, x, 0) /\ fds[p][i] = x /\ fds' = [fds EXCEPT ![p][i] = y]
      /\ UNCHANGED <<alive, mounted, pc>> /\ strayed' \in BOOLEAN
  BY <1>0, <1>8, <1>9 DEF DoClose
<1>x. slot[x].flags # "none" /\ slot[y].flags # "none" /\ slot[y] \in Entry
  BY <1>i, <1>0, <1>8, <1>9, Reached DEF TableTypes
<1> HIDE DEF p
<1>a. /\ table \in [Slot -> Entry]
      /\ \A r \in Slot : /\ table[r].flags = slot[r].flags /\ table[r].file = slot[r].file
                         /\ table[r].sem = slot[r].sem /\ table[r].usages = slot[r].usages
                         /\ table[r].refs = slot[r].refs + (IF r = y THEN 1 ELSE 0)
  BY <1>i, <1>x DEF TableTypes, Entry
<1>k. SameFaces(table)
  BY <1>a DEF SameFaces
<1> HIDE DEF table
<1>c. /\ ~strayed /\ TableTypes'
      /\ IF frees THEN ClosedFor(table, x, 0) ELSE LeftOpen(table, x)
  BY <1>i, <1>e, <1>k, Closes DEF RestTypes
<1> HIDE DEF frees
<1>f. /\ fds' \in [Proc -> [Fd -> Slot \cup {Null}]] /\ fds'[p][i] = y
      /\ \A q \in Proc, j \in Fd : q # p \/ j # i => fds'[q][j] = fds[q][j]
  BY <1>i, <1>e, <1>0 DEF RestTypes
<1>1. TypeOK'
  BY <1>i, <1>e, <1>c, <1>f, Types DEF RestTypes
<1>2. Points' /\ FillersKept /\ Dead'
  <2>1. Points' /\ FillersKept
    BY <1>i, <1>e, PointsStay
  <2> QED BY <1>i, <1>e, <1>0, <1>f, <2>1 DEF Dead
<1>3. TableInv'
  <2>1. CASE frees
    BY <1>i, <1>2, <1>c, <2>1, TableFreed DEF ClosedFor
  <2>2. CASE ~ frees
    BY <1>i, <1>2, <1>c, <2>2, TableKept DEF LeftOpen
  <2> QED BY <2>1, <2>2
<1>4. Counted'
  <2> SUFFICES ASSUME NEW r \in Slot PROVE Settled(r)'
    BY DEF Counted
  <2>1. Settled(r) /\ slot[r].refs \in Nat /\ slot[r].usages \in Nat
    BY <1>i DEF Counted, TableTypes, Entry
  <2>2. N(r)' + Name(p, i, r) = N(r) + Name(p, i, r)'
    BY <1>0, <1>f, NameMoves
  <2>3. /\ Name(p, i, r) = (IF r = x THEN 1 ELSE 0) /\ Name(p, i, r) <= N(r)
        /\ Name(p, i, r)' = (IF r = y THEN 1 ELSE 0)
    BY <1>0, <1>e, <1>f, Counters DEF Name
  <2>4. /\ C(r)' = C(r) /\ U(r)' = U(r) /\ M(r)' = M(r) /\ M(r) \in {0, 1}
        /\ C(r) \in Nat /\ N(r) \in Nat /\ N(r)' \in Nat /\ U(r) \in Nat
    BY <1>e, ThreadsStay, Counters DEF M
  <2>n. N(r)' = N(r) + (IF r = y THEN 1 ELSE 0) - (IF r = x THEN 1 ELSE 0)
    BY <2>2, <2>3, <2>4
  <2>a. table[r].usages = slot[r].usages /\ table[r].refs = slot[r].refs + (IF r = y THEN 1 ELSE 0)
    BY <1>a
  <2>5. CASE r # x
    <3>1. slot'[r].flags = slot[r].flags
      BY <1>c, <2>5 DEF ClosedFor, LeftOpen, FacesFreed, FacesKept
    <3>2. slot'[r].refs = table[r].refs /\ slot'[r].usages = slot[r].usages
      BY <1>c, <2>a, <2>5 DEF ClosedFor, LeftOpen, OthersAs
    <3>3. N(r)' = N(r) + (IF r = y THEN 1 ELSE 0)
      BY <2>n, <2>4, <2>5
    <3>4. CASE r = y
      <4>1. slot[r].refs = N(r) + C(r) + M(r) /\ slot[r].usages = U(r)
        BY <1>x, <2>1, <3>4 DEF Settled
      <4>2. slot'[r].refs = N(r)' + C(r)' + M(r)' /\ slot'[r].refs > 0 /\ slot'[r].usages = U(r)'
        BY <2>a, <2>4, <3>2, <3>3, <3>4, <4>1
      <4> QED BY <1>x, <2>4, <3>1, <3>4, <4>2 DEF Settled
    <3>5. CASE r # y
      BY <2>1, <2>a, <2>4, <3>1, <3>2, <3>3, <3>5 DEF Settled
    <3> QED BY <3>4, <3>5
  <2>6. CASE r = x /\ frees
    <3>1. slot'[r].flags = "none" /\ table[r].refs <= 1 /\ slot[r].usages = 0
      BY <1>c, <2>1, <2>a, <2>6 DEF ClosedFor, FacesFreed
    <3>2. N(r) >= 1 /\ slot[r].refs = N(r) + C(r) + M(r) /\ slot[r].usages = U(r)
      BY <1>x, <2>1, <2>3, <2>6 DEF Settled
    <3>3. N(r)' = 0 /\ C(r) = 0 /\ M(r) = 0 /\ U(r) = 0
      BY <2>n, <2>a, <2>4, <2>6, <3>1, <3>2
    <3> QED BY <2>4, <3>1, <3>3 DEF Settled
  <2>7. CASE r = x /\ ~ frees
    <3>1. /\ slot'[r].refs = (IF table[r].refs > 0 THEN table[r].refs - 1 ELSE 0)
          /\ slot'[r].usages = slot[r].usages /\ slot'[r].refs + slot'[r].usages > 0
          /\ slot'[r].flags = slot[r].flags
      BY <1>c, <2>a, <2>7 DEF LeftOpen, FacesKept
    <3>2. N(r) >= 1 /\ slot[r].refs = N(r) + C(r) + M(r) /\ slot[r].usages = U(r)
      BY <1>x, <2>1, <2>3, <2>7 DEF Settled
    <3>3. slot'[r].refs = N(r)' + C(r)' + M(r)'
      BY <2>n, <2>a, <2>4, <2>7, <3>1, <3>2
    <3> QED BY <1>x, <2>4, <2>7, <3>1, <3>2, <3>3 DEF Settled
  <2> QED BY <2>5, <2>6, <2>7
<1> QED BY <1>1, <1>2, <1>3, <1>4 DEF TrackInv

-----------------------------------------------------------------------------
(* open(): the slot is taken first and filled afterwards.                  *)

LEMMA GetFreeKeeps ==
  ASSUME TrackInv, ~strayed', NEW t \in Thread, NEW f \in File, NEW lonely \in BOOLEAN,
         GetFree(t, f, lonely)
  PROVE  TrackInv'
<1>i. TypeOK /\ TableTypes /\ RestTypes /\ Points /\ Dead /\ TableInv /\ Counted
  BY Types DEF TrackInv
<1>0. PICK x \in Slot \ (used \cup excl) :
        /\ pc' = [pc EXCEPT ![t] = [at |-> "fill", s |-> x, fd |-> 0, file |-> f]]
        /\ IF lonely THEN excl' = excl \cup {x} /\ UNCHANGED used
                     ELSE used' = used \cup {x} /\ UNCHANGED excl
  BY DEF GetFree
<1>g. /\ pc[t].at = "idle" /\ ~ Conflict(f, lonely) /\ ~ (lonely /\ f \in FsChan)
      /\ strayed' = (strayed \/ \E u \in Thread :
                        /\ pc[u].at = "fill" /\ pc[u].file = f
                        /\ lonely \/ pc[u].s \in excl)
      /\ UNCHANGED <<slot, sems, nodeRefs, fds, alive, mounted>>
  BY DEF GetFree, At
<1>h. /\ strayed' \in BOOLEAN /\ ~strayed
      /\ \A u \in Thread : Fills(u) /\ pc[u].file = f => ~ lonely /\ pc[u].s \notin excl
  BY <1>g DEF Fills
<1>x. x \in Slot /\ x \notin used /\ x \notin excl /\ slot[x].flags = "none"
  BY <1>i, <1>0 DEF TableInv, Lists
<1>m. Moves(t) /\ pc'[t].at = "fill" /\ pc'[t].s = x /\ pc'[t].file = f
  BY <1>i, <1>0 DEF RestTypes, Moves, Spot
<1>l. /\ used' \subseteq Slot /\ excl' \subseteq Slot /\ used \subseteq used' /\ excl \subseteq excl'
      /\ used' \cap excl' = {} /\ x \in used' \cup excl' /\ (x \in excl' => lonely)
      /\ \A r \in excl' : r = x \/ r \in excl
  <2>1. CASE lonely
    BY <1>i, <1>0, <1>x, <2>1 DEF TableTypes, TableInv, Lists
  <2>2. CASE ~ lonely
    BY <1>i, <1>0, <1>x, <2>2 DEF TableTypes, TableInv, Lists
  <2> QED BY <2>1, <2>2
<1>1. TypeOK'
  BY <1>i, <1>g, <1>h, <1>m, <1>l, Types DEF TableTypes, RestTypes, Moves
<1>2. Points' /\ Dead'
  <2>1. Points'
    BY <1>i, <1>m, <1>x DEF Points, Moves
  <2> QED BY <1>i, <1>g, <2>1 DEF Dead
<1>3. TableInv'
  <2>0. /\ \A u \in Thread : Fills(u)' <=> u = t \/ Fills(u)
        /\ \A u \in Thread : u # t => pc'[u] = pc[u]
        /\ ~ Fills(t)
    BY <1>g, <1>m DEF Fills, Moves
  <2>1. Lists'
    <3>1. \A u \in Thread : Fills(u) => pc[u].s \in used \cup excl /\ pc[u].s # x
      BY <1>i, <1>x DEF TableInv, Lists
    <3>2. \A s \in Slot : slot'[s].flags # "none" =>
            /\ slot'[s].file \in File
            /\ IF slot'[s].flags = "lonely" THEN s \in excl' ELSE s \in used'
      BY <1>i, <1>g, <1>l DEF TableInv, Lists
    <3>3. \A u \in Thread : Fills(u)' =>
            slot'[pc'[u].s].flags = "none" /\ pc'[u].s \in used' \cup excl'
      BY <1>i, <1>g, <1>x, <1>l, <1>m, <2>0 DEF TableInv, Lists
    <3>4. \A u, v \in Thread : Fills(u)' /\ Fills(v)' /\ pc'[u].s = pc'[v].s => u = v
      BY <1>i, <1>m, <2>0, <3>1 DEF TableInv, Lists
    <3> QED BY <1>l, <3>2, <3>3, <3>4 DEF Lists
  <2>2. NodesExact'
    BY <1>i, <1>g DEF TableInv, NodesExact, Open
  <2>3. SemsOwned'
    BY <1>i, <1>g DEF TableInv, SemsOwned
  <2>4. Alone'
    <3>1. \A s \in Slot : slot[s].flags = "lonely" => slot[s].file # f
      BY <1>i, <1>g DEF TableInv, Lists, Alone, Conflict
    <3>2. lonely => f \notin FsChan /\ \A s \in Slot : slot[s].flags # "none" => slot[s].file # f
      BY <1>i, <1>g DEF TableInv, Lists, Conflict
    <3>3. ASSUME NEW s \in Slot, slot'[s].flags = "lonely"
          PROVE  /\ slot'[s].file \notin FsChan
                 /\ slot'[s].sem # Null => sems'[slot'[s].file] = slot'[s].sem
                 /\ \A r \in Slot : slot'[r].flags # "none" /\ slot'[r].file = slot'[s].file => r = s
                 /\ \A u \in Thread : Fills(u)' => pc'[u].file # slot'[s].file
      BY <1>i, <1>g, <1>m, <2>0, <3>1, <3>3 DEF TableInv, Alone
    <3>4. ASSUME NEW u \in Thread, Fills(u)', pc'[u].s \in excl'
          PROVE  /\ pc'[u].file \notin FsChan
                 /\ \A r \in Slot : slot'[r].flags # "none" => slot'[r].file # pc'[u].file
                 /\ \A v \in Thread : Fills(v)' /\ pc'[v].file = pc'[u].file => v = u
      <4>1. CASE u = t
        BY <1>g, <1>h, <1>l, <1>m, <2>0, <3>2, <3>4, <4>1
      <4>2. CASE u # t
        <5>1. Fills(u) /\ pc[u].s \in excl /\ pc[u].s # x
          BY <1>i, <1>x, <1>l, <2>0, <3>4, <4>2 DEF TableInv, Lists
        <5> QED BY <1>i, <1>g, <1>h, <1>m, <2>0, <4>2, <5>1 DEF TableInv, Alone
      <4> QED BY <4>1, <4>2
    <3> QED BY <3>3, <3>4 DEF Alone
  <2> QED BY <2>1, <2>2, <2>3, <2>4 DEF TableInv
<1>4. Counted'
  <2> SUFFICES ASSUME NEW r \in Slot PROVE Settled(r)'
    BY DEF Counted
  <2>1. Settled(r) /\ slot[r].refs \in Nat /\ slot[r].usages \in Nat
    BY <1>i DEF Counted, TableTypes, Entry
  <2>2. N(r)' = N(r) /\ M(r)' = M(r) /\ slot'[r] = slot[r]
    BY <1>g, NamesStay DEF M
  <2>3. C(r)' = C(r) /\ U(r)' = U(r)
    BY <1>g, <1>m, Shift DEF Carries, Works
  <2> QED BY <2>1, <2>2, <2>3 DEF Settled
<1> QED BY <1>1, <1>2, <1>3, <1>4 DEF TrackInv

LEMMA FillSlotKeeps ==
  ASSUME TrackInv, ~strayed', NEW t \in Thread,
         FillSlot(t)
  PROVE  TrackInv'
<1>i. TypeOK /\ TableTypes /\ RestTypes /\ Points /\ Dead /\ TableInv /\ Counted
  BY Types DEF TrackInv
<1>0. pc[t].at = "fill" /\ Fills(t) /\ pc[t] \in Spot
  BY <1>i DEF FillSlot, At, Fills, RestTypes
<1>8. PICK x \in Slot : x = pc[t].s
  BY <1>i, <1>0 DEF Points
<1>9. PICK f \in File : f = pc[t].file
  BY <1>i, <1>0 DEF Points
<1> DEFINE o == [flags |-> IF x \in excl THEN "lonely" ELSE "shared",
                 file |-> f, refs |-> 1, usages |-> 0, sem |-> Null]
<1>e. /\ slot' = [slot EXCEPT ![x] = o]
      /\ nodeRefs' = [nodeRefs EXCEPT ![f] = @ + 1]
      /\ pc' = [pc EXCEPT ![t].at = "assoc", ![t].file = Null]
      /\ UNCHANGED <<used, excl, sems, fds, alive, mounted, strayed>>
  BY <1>8, <1>9 DEF FillSlot
<1>x. slot[x].flags = "none" /\ x \in used \cup excl
  BY <1>i, <1>0, <1>8 DEF TableInv, Lists
<1>m. Moves(t) /\ pc'[t].at = "assoc" /\ pc'[t].s = x
  BY <1>i, <1>0, <1>8, <1>e DEF RestTypes, Moves, Spot
<1>s. /\ slot' \in [Slot -> Entry] /\ \A r \in Slot \ {x} : slot'[r] = slot[r]
      /\ slot'[x].flags = (IF x \in excl THEN "lonely" ELSE "shared") /\ slot'[x].file = f
      /\ slot'[x].refs = 1 /\ slot'[x].usages = 0 /\ slot'[x].sem = Null
  BY <1>i, <1>e DEF TableTypes, Entry
<1>u. used' = used /\ excl' = excl /\ sems' = sems
  BY <1>e
<1>1. TypeOK'
  <2>1. nodeRefs' \in [File -> Nat]
    BY <1>i, <1>e DEF TableTypes
  <2> QED BY <1>i, <1>e, <1>m, <1>s, <2>1, Types DEF TableTypes, RestTypes, Moves
<1>2. Points' /\ Dead'
  <2>1. Points'
    BY <1>i, <1>m DEF Points, Moves
  <2> QED BY <1>i, <1>e, <2>1 DEF Dead
<1>3. TableInv'
  <2>0. /\ \A u \in Thread : Fills(u)' <=> u # t /\ Fills(u)
        /\ \A u \in Thread : u # t => pc'[u] = pc[u]
    BY <1>0, <1>m DEF Fills, Moves
  <2>1. Lists'
    <3>1. \A u \in Thread : Fills(u) /\ u # t => pc[u].s \in Slot /\ pc[u].s # x
      BY <1>i, <1>0, <1>8 DEF TableInv, Lists, Points, Fills
    <3>2. \A s \in Slot : slot'[s].flags # "none" =>
            /\ slot'[s].file \in File
            /\ IF slot'[s].flags = "lonely" THEN s \in excl' ELSE s \in used'
      <4> SUFFICES ASSUME NEW s \in Slot, slot'[s].flags # "none"
                   PROVE  /\ slot'[s].file \in File
                          /\ IF slot'[s].flags = "lonely" THEN s \in excl' ELSE s \in used'
        OBVIOUS
      <4>1. CASE s = x
        BY <1>e, <1>s, <1>x, <4>1
      <4>2. CASE s # x
        BY <1>i, <1>e, <1>s, <4>2 DEF TableInv, Lists
      <4> QED BY <4>1, <4>2
    <3>3. \A u \in Thread : Fills(u)' =>
            slot'[pc'[u].s].flags = "none" /\ pc'[u].s \in used' \cup excl'
      BY <1>i, <1>u, <1>s, <2>0, <3>1 DEF TableInv, Lists
    <3>4. \A u, v \in Thread : Fills(u)' /\ Fills(v)' /\ pc'[u].s = pc'[v].s => u = v
      BY <1>i, <2>0 DEF TableInv, Lists
    <3> QED BY <1>i, <1>e, <3>2, <3>3, <3>4 DEF Lists, TableInv
  <2>2. NodesExact'
    <3> SUFFICES ASSUME NEW g \in File
                 PROVE  nodeRefs'[g] = Cardinality({s \in Open : slot[s].file = g}')
      BY DEF NodesExact
    <3> DEFINE A == {s \in Open : slot[s].file = g}
               B == {s \in Open : slot[s].file = g}'
    <3>1. IsFiniteSet(A)
      <4>1. A \in SUBSET Slot
        BY DEF Open
      <4> QED BY <4>1, FileAssumption, FS_Subset
    <3>2. \A s : s # x => (s \in A <=> s \in B)
      BY <1>s DEF Open
    <3>3. x \notin A /\ (x \in B <=> g = f)
      BY <1>x, <1>s DEF Open
    <3>4. nodeRefs[g] = Cardinality(A) /\ nodeRefs[g] \in Nat
      BY <1>i DEF TableInv, NodesExact, TableTypes
    <3>5. nodeRefs'[g] = nodeRefs[g] + (IF g = f THEN 1 ELSE 0)
      BY <1>i, <1>e DEF TableTypes
    <3> HIDE DEF A, B
    <3>6. Cardinality(B) \in Nat /\ Cardinality(B) = Cardinality(A) + (IF x \in B THEN 1 ELSE 0)
      BY <3>1, <3>2, <3>3, OneElement
    <3> QED BY <3>3, <3>4, <3>5, <3>6 DEF B
  <2>3. SemsOwned'
    <3>1. \A s \in Slot : slot'[s].sem # Null => s # x /\ slot'[s] = slot[s]
      BY <1>s
    <3> QED BY <1>i, <1>e, <3>1 DEF TableInv, SemsOwned
  <2>4. Alone'
    <3>1. x \in excl => /\ f \notin FsChan
                        /\ \A r \in Slot : slot[r].flags # "none" => slot[r].file # f
                        /\ \A u \in Thread : Fills(u) /\ pc[u].file = f => u = t
      BY <1>i, <1>0, <1>8, <1>9 DEF TableInv, Alone
    <3>2. /\ \A r \in Slot : slot[r].flags = "lonely" => slot[r].file # f
          /\ \A u \in Thread : Fills(u) /\ u # t /\ pc[u].s \in excl => pc[u].file # f
      BY <1>i, <1>0, <1>9 DEF TableInv, Alone
    <3>3. ASSUME NEW s \in Slot, slot'[s].flags = "lonely"
          PROVE  /\ slot'[s].file \notin FsChan
                 /\ slot'[s].sem # Null => sems'[slot'[s].file] = slot'[s].sem
                 /\ \A r \in Slot : slot'[r].flags # "none" /\ slot'[r].file = slot'[s].file => r = s
                 /\ \A u \in Thread : Fills(u)' => pc'[u].file # slot'[s].file
      <4>1. CASE s = x
        BY <1>s, <2>0, <3>1, <3>3, <4>1
      <4>2. CASE s # x
        <5>1. slot[s].flags = "lonely" /\ slot'[s] = slot[s]
          BY <1>s, <3>3, <4>2
        <5>2. \A r \in Slot : slot'[r].flags # "none" /\ slot'[r].file = slot'[s].file => r = s
          BY <1>i, <1>s, <3>2, <5>1 DEF TableInv, Alone
        <5> QED BY <1>i, <1>u, <2>0, <5>1, <5>2 DEF TableInv, Alone
      <4> QED BY <4>1, <4>2
    <3>4. ASSUME NEW u \in Thread, Fills(u)', pc'[u].s \in excl'
          PROVE  /\ pc'[u].file \notin FsChan
                 /\ \A r \in Slot : slot'[r].flags # "none" => slot'[r].file # pc'[u].file
                 /\ \A v \in Thread : Fills(v)' /\ pc'[v].file = pc'[u].file => v = u
      <4>1. u # t /\ Fills(u) /\ pc[u].s \in excl /\ pc'[u] = pc[u] /\ pc[u].file # f
        BY <1>u, <2>0, <3>2, <3>4
      <4> QED BY <1>i, <1>s, <2>0, <4>1 DEF TableInv, Alone
    <3> QED BY <3>3, <3>4 DEF Alone
  <2> QED BY <2>1, <2>2, <2>3, <2>4 DEF TableInv
<1>4. Counted'
  <2> SUFFICES ASSUME NEW r \in Slot PROVE Settled(r)'
    BY DEF Counted
  <2>1. Settled(r) /\ slot[r].refs \in Nat /\ slot[r].usages \in Nat
    BY <1>i DEF Counted, TableTypes, Entry
  <2>2. N(r)' = N(r) /\ M(r)' = M(r) /\ M(r) \in {0, 1}
    BY <1>e, NamesStay DEF M
  <2>3. /\ C(r)' = C(r) + (IF r = x THEN 1 ELSE 0) /\ U(r)' = U(r)
        /\ C(r) \in Nat /\ N(r) \in Nat /\ U(r) \in Nat
    BY <1>0, <1>m, Shift DEF Carries, Works
  <2>4. CASE r = x
    BY <1>x, <1>s, <2>1, <2>2, <2>3, <2>4 DEF Settled
  <2>5. CASE r # x
    BY <1>s, <2>1, <2>2, <2>3, <2>5 DEF Settled
  <2> QED BY <2>4, <2>5
<1> QED BY <1>1, <1>2, <1>3, <1>4 DEF TrackInv

-----------------------------------------------------------------------------
(* The semaphore of a file.                                                *)

LEMMA FileSemKeeps ==
  ASSUME TrackInv, ~strayed', NEW t \in Thread,
         FileSem(t)
  PROVE  TrackInv'
<1>i. TypeOK /\ TableTypes /\ RestTypes /\ Points /\ Dead /\ TableInv /\ Counted
  BY Types DEF TrackInv
<1>0. pc[t].at = "sem" /\ pc[t] \in Spot
  BY <1>i DEF FileSem, At, RestTypes
<1>8. PICK x \in Slot : x = pc[t].s
  BY <1>i, <1>0 DEF Points
<1>x. /\ pc[t].at = "sem" /\ pc[t].s = x /\ slot[x].flags # "none"
      /\ slot[x] \in Entry /\ slot[x].file \in File
  <2>1. slot[x].flags # "none"
    BY <1>i, <1>0, <1>8, Reached DEF Works
  <2> QED BY <1>i, <1>0, <1>8, <2>1 DEF TableTypes, TableInv, Lists
<1>9. PICK f \in File : f = slot[x].file
  BY <1>x
<1>e. /\ pc' = [pc EXCEPT ![t].at = "using"]
      /\ UNCHANGED <<used, excl, nodeRefs, fds, alive, mounted, strayed>>
  BY DEF FileSem, Goto
<1>c. \/ UNCHANGED <<slot, sems>>
      \/ /\ slot[x].sem = Null
         /\ \E m \in Sem :
              /\ sems[f] # Null => m = sems[f]
              /\ sems[f] = Null => \A g \in File, r \in Slot : m # sems[g] /\ m # slot[r].sem
              /\ sems' = [sems EXCEPT ![f] = m] /\ slot' = [slot EXCEPT ![x].sem = m]
  <2>1. \/ UNCHANGED <<slot, sems>>
        \/ /\ slot[x].sem = Null
           /\ \E m \in (IF sems[f] # Null THEN {sems[f]}
                        ELSE {n \in Sem : \A g \in File, r \in Slot :
                                             n # sems[g] /\ n # slot[r].sem}) :
                sems' = [sems EXCEPT ![f] = m] /\ slot' = [slot EXCEPT ![x].sem = m]
    BY <1>8, <1>9 DEF FileSem
  <2>2. sems[f] # Null => sems[f] \in Sem
    BY <1>i DEF TableTypes
  <2> QED BY <2>1, <2>2
<1>m. Moves(t) /\ pc'[t].at = "using" /\ pc'[t].s = x
  BY <1>i, <1>0, <1>x, <1>e DEF RestTypes, Moves, Spot
<1>s. /\ slot' \in [Slot -> Entry] /\ sems' \in [File -> Sem \cup {Null}]
      /\ \A r \in Slot : /\ slot'[r].flags = slot[r].flags /\ slot'[r].file = slot[r].file
                         /\ slot'[r].refs = slot[r].refs /\ slot'[r].usages = slot[r].usages
  BY <1>i, <1>c, <1>x DEF TableTypes, Entry
<1>1. TypeOK'
  BY <1>i, <1>e, <1>m, <1>s, Types DEF TableTypes, RestTypes, Moves
<1>2. Points' /\ FillersKept /\ Dead'
  <2>1. Points' /\ FillersKept
    BY <1>i, <1>x, <1>m, PointsKept
  <2> QED BY <1>i, <1>e, <2>1 DEF Dead
<1>3. TableInv'
  <2>1. CASE UNCHANGED <<slot, sems>>
    <3>1. FacesKept
      BY <1>e, <2>1 DEF FacesKept
    <3> QED BY <1>i, <1>2, <3>1, TableKept
  <2>2. CASE ~ UNCHANGED <<slot, sems>>
    <3>1. PICK m \in Sem :
            /\ slot[x].sem = Null
            /\ sems[f] # Null => m = sems[f]
            /\ sems[f] = Null => \A g \in File, r \in Slot : m # sems[g] /\ m # slot[r].sem
            /\ sems' = [sems EXCEPT ![f] = m] /\ slot' = [slot EXCEPT ![x].sem = m]
      BY <1>c, <2>2
    <3>2. /\ sems'[f] = m /\ \A g \in File \ {f} : sems'[g] = sems[g]
          /\ slot'[x].sem = m /\ \A r \in Slot \ {x} : slot'[r].sem = slot[r].sem
          /\ m # Null
      BY <1>i, <1>x, <3>1, FileAssumption DEF TableTypes, Entry
    <3>a. /\ \A g \in File : sems[g] = m => g = f
          /\ \A r \in Slot : slot[r].sem = m => slot[r].file = f
      <4>1. CASE sems[f] = Null
        BY <3>1, <4>1
      <4>2. CASE sems[f] # Null
        <5>1. m = sems[f]
          BY <3>1, <4>2
        <5>2. SemsOwned
          BY <1>i DEF TableInv
        <5> QED BY <3>2, <5>1, <5>2 DEF SemsOwned
      <4> QED BY <4>1, <4>2
    <3>3. \A u \in Thread : /\ Fills(u)' <=> Fills(u)
                            /\ Fills(u) => pc'[u] = pc[u] /\ pc[u].s \in Slot
      BY <1>i, <1>2 DEF FillersKept, Fills, Points
    <3>4. Lists'
      BY <1>i, <1>e, <1>s, <3>3 DEF TableInv, Lists
    <3>5. NodesExact'
      <4>1. ASSUME NEW g \in File
            PROVE  {s \in Open : slot[s].file = g}' = {s \in Open : slot[s].file = g}
        BY <1>s DEF Open
      <4> QED BY <1>i, <1>e, <4>1 DEF TableInv, NodesExact
    <3>6. SemsOwned'
      <4>1. \A s \in Slot : slot'[s].sem # Null => slot'[s].flags # "none"
        BY <1>i, <1>x, <1>s, <3>2 DEF TableInv, SemsOwned
      <4>2. \A g, h \in File : sems'[g] # Null /\ sems'[g] = sems'[h] => g = h
        BY <1>i, <3>2, <3>a DEF TableInv, SemsOwned
      <4>3. ASSUME NEW s \in Slot, NEW g \in File, slot'[s].sem # Null, slot'[s].sem = sems'[g]
            PROVE  slot'[s].file = g
        <5>1. CASE s = x
          BY <1>9, <1>s, <3>2, <3>a, <4>3, <5>1
        <5>2. CASE s # x /\ g = f
          BY <1>s, <3>2, <3>a, <4>3, <5>2
        <5>3. CASE s # x /\ g # f
          BY <1>i, <1>s, <3>2, <4>3, <5>3 DEF TableInv, SemsOwned
        <5> QED BY <5>1, <5>2, <5>3
      <4> QED BY <4>1, <4>2, <4>3 DEF SemsOwned
    <3>7. Alone'
      <4>1. ASSUME NEW s \in Slot, slot'[s].flags = "lonely", slot'[s].sem # Null
            PROVE  sems'[slot'[s].file] = slot'[s].sem
        <5>1. CASE s = x
          BY <1>9, <1>s, <3>2, <5>1
        <5>2. CASE s # x
          <6>1. slot[s].file # f
            BY <1>i, <1>9, <1>x, <1>s, <4>1, <5>2 DEF TableInv, Alone
          <6>2. slot[s].file \in File
            BY <1>i, <1>s, <4>1 DEF TableInv, Lists
          <6> QED BY <1>i, <1>s, <3>2, <4>1, <5>2, <6>1, <6>2 DEF TableInv, Alone
        <5> QED BY <5>1, <5>2
      <4> QED BY <1>i, <1>e, <1>s, <3>3, <4>1 DEF TableInv, Alone
    <3> QED BY <3>4, <3>5, <3>6, <3>7 DEF TableInv
  <2> QED BY <2>1, <2>2
<1>4. Counted'
  <2> SUFFICES ASSUME NEW r \in Slot PROVE Settled(r)'
    BY DEF Counted
  <2>1. Settled(r) /\ slot[r].refs \in Nat /\ slot[r].usages \in Nat
    BY <1>i DEF Counted, TableTypes, Entry
  <2>2. N(r)' = N(r) /\ M(r)' = M(r)
    BY <1>e, NamesStay DEF M
  <2>3. C(r)' = C(r) /\ U(r)' = U(r)
    BY <1>x, <1>m, Shift DEF Carries, Works
  <2> QED BY <1>s, <2>1, <2>2, <2>3 DEF Settled
<1> QED BY <1>1, <1>2, <1>3, <1>4 DEF TrackInv

-----------------------------------------------------------------------------
(* Processes.                                                              *)
LEMMA Shared ==
  ASSUME NEW p \in Proc, NEW s
  PROVE  LET D == {p} \X {i \in Fd : fds[p][i] = s}
         IN  /\ IsFiniteSet(D) /\ Cardinality(D) = Count(p, s) /\ Count(p, s) \in Nat
             /\ D \subseteq Names(s) /\ Count(p, s) <= N(s)
<1> DEFINE F == {i \in Fd : fds[p][i] = s}
           D == {p} \X F
<1>1. IsFiniteSet(F) /\ Cardinality(F) \in Nat
  <2>1. F \in SUBSET Fd
    OBVIOUS
  <2> QED BY <2>1, FileAssumption, FS_Subset, FS_CardinalityType
<1>2. Count(p, s) = Cardinality(F)
  BY DEF Count
<1>3. D \subseteq Names(s)
  BY DEF Names
<1> HIDE DEF F
<1>4. IsFiniteSet(D) /\ Cardinality(D) = 1 * Cardinality(F)
  <2>1. IsFiniteSet({p}) /\ Cardinality({p}) = 1
    BY FS_Singleton
  <2> QED BY <1>1, <2>1, FS_Product
<1>5. Cardinality(D) <= N(s)
  <2>1. D \in SUBSET Names(s)
    BY <1>3
  <2> QED BY <2>1, Finite, FS_Subset DEF N
<1>6. Cardinality(D) = Count(p, s)
  BY <1>1, <1>2, <1>4
<1> QED BY <1>1, <1>2, <1>3, <1>4, <1>5, <1>6 DEF F

LEMMA CloneKeeps ==
  ASSUME TrackInv, ~strayed', NEW t \in Thread, NEW q \in Proc,
         Clone(t, q)
  PROVE  TrackInv'
<1> DEFINE p == ProcOf[t]
<1>i. TypeOK /\ TableTypes /\ RestTypes /\ Points /\ Dead /\ TableInv /\ Counted
  BY Types DEF TrackInv
<1>e. /\ p \in alive /\ q \notin alive /\ p \in Proc
      /\ fds' = [fds EXCEPT ![q] = fds[p]]
      /\ slot' = [s \in Slot |-> [slot[s] EXCEPT !.refs = @ + Count(p, s)]]
      /\ alive' = alive \cup {q}
      /\ UNCHANGED <<used, excl, sems, nodeRefs, mounted, pc, strayed>>
  BY FileAssumption DEF Clone, At, Runs
<1> HIDE DEF p
<1>f. /\ fds' \in [Proc -> [Fd -> Slot \cup {Null}]]
      /\ \A o \in Proc, j \in Fd : fds'[o][j] = IF o = q THEN fds[p][j] ELSE fds[o][j]
      /\ \A j \in Fd : fds[q][j] = Null
  BY <1>i, <1>e DEF RestTypes, Dead
<1>s. /\ slot' \in [Slot -> Entry] /\ FacesKept
      /\ \A r \in Slot : /\ slot'[r].usages = slot[r].usages
                         /\ slot'[r].refs = slot[r].refs + Count(p, r)
  <2>1. \A r \in Slot : Count(p, r) \in Nat
    BY <1>e, Shared
  <2>2. \A r \in Slot : slot'[r] = [slot[r] EXCEPT !.refs = @ + Count(p, r)] /\ slot[r] \in Entry
    BY <1>i, <1>e DEF TableTypes
  <2>3. \A r \in Slot : /\ slot'[r] \in Entry /\ slot'[r].flags = slot[r].flags
                        /\ slot'[r].file = slot[r].file /\ slot'[r].sem = slot[r].sem
                        /\ slot'[r].usages = slot[r].usages
                        /\ slot'[r].refs = slot[r].refs + Count(p, r)
    <3> SUFFICES ASSUME NEW r \in Slot
                 PROVE  /\ slot'[r] \in Entry /\ slot'[r].flags = slot[r].flags
                        /\ slot'[r].file = slot[r].file /\ slot'[r].sem = slot[r].sem
                        /\ slot'[r].usages = slot[r].usages
                        /\ slot'[r].refs = slot[r].refs + Count(p, r)
      OBVIOUS
    <3>1. /\ Count(p, r) \in Nat /\ slot[r] \in Entry
          /\ slot'[r] = [slot[r] EXCEPT !.refs = @ + Count(p, r)]
      BY <2>1, <2>2
    <3> QED BY <3>1 DEF Entry
  <2>4. slot' \in [Slot -> Entry]
    BY <1>e, <2>3
  <2> QED BY <1>e, <2>3, <2>4 DEF FacesKept
<1>1. TypeOK'
  BY <1>i, <1>e, <1>f, <1>s, Types DEF TableTypes, RestTypes
<1>2. Points' /\ FillersKept /\ Dead'
  <2>1. Points' /\ FillersKept
    BY <1>i, <1>e, PointsStay
  <2> QED BY <1>i, <1>e, <1>f, <2>1 DEF Dead
<1>3. TableInv'
  BY <1>i, <1>2, <1>s, TableKept
<1>4. Counted'
  <2> SUFFICES ASSUME NEW r \in Slot PROVE Settled(r)'
    BY DEF Counted
  <2>1. Settled(r) /\ slot[r].refs \in Nat /\ slot[r].usages \in Nat
    BY <1>i DEF Counted, TableTypes, Entry
  <2> DEFINE F == {i \in Fd : fds[p][i] = r}
             D == {p} \X F
             E == {q} \X F
  <2>2. /\ IsFiniteSet(D) /\ Cardinality(D) = Count(p, r) /\ Count(p, r) \in Nat
        /\ Count(p, r) <= N(r)
    BY <1>e, Shared
  <2>3. Names(r)' = Names(r) \cup E /\ Names(r) \cap E = {}
    <3>1. \A d \in Proc \X Fd : d \in Names(r)' <=> d \in Names(r) \/ d \in E
      BY <1>f, <1>e, FileAssumption DEF Names
    <3>2. E \subseteq Proc \X Fd
      OBVIOUS
    <3>3. ASSUME NEW d \in E PROVE d \notin Names(r)
      <4>1. d[1] = q /\ d[2] \in Fd
        OBVIOUS
      <4>2. fds[d[1]][d[2]] = Null /\ Null # r
        BY <1>f, <4>1, FileAssumption
      <4> QED BY <4>2 DEF Names
    <3> QED BY <3>1, <3>2, <3>3 DEF Names
  <2>4. IsFiniteSet(E) /\ Cardinality(E) = Count(p, r)
    <3>1. IsFiniteSet(F) /\ Cardinality(F) = Count(p, r)
      <4>1. F \in SUBSET Fd
        OBVIOUS
      <4> QED BY <4>1, FileAssumption, FS_Subset DEF Count
    <3> HIDE DEF F
    <3>2. IsFiniteSet(E) /\ Cardinality(E) = 1 * Cardinality(F)
      <4>1. IsFiniteSet({q}) /\ Cardinality({q}) = 1
        BY FS_Singleton
      <4> QED BY <3>1, <4>1, FS_Product
    <3> QED BY <2>2, <3>1, <3>2
  <2> HIDE DEF D, E, F
  <2>5. N(r)' = N(r) + Count(p, r)
    <3>1. Cardinality(Names(r) \cup E) = Cardinality(Names(r)) + Cardinality(E) - Cardinality(Names(r) \cap E)
      BY <2>4, Finite, FS_Union
    <3>2. Cardinality(Names(r) \cap E) = 0
      BY <2>3, FS_EmptySet
    <3>3. N(r)' = Cardinality(Names(r) \cup E) /\ N(r) = Cardinality(Names(r))
      BY <2>3 DEF N
    <3>4. N(r) \in Nat
      BY Counters
    <3> QED BY <2>2, <2>4, <3>1, <3>2, <3>3, <3>4
  <2>6. /\ C(r)' = C(r) /\ U(r)' = U(r) /\ M(r)' = M(r) /\ M(r) \in {0, 1}
        /\ C(r) \in Nat /\ N(r) \in Nat
    BY <1>e, ThreadsStay, Counters DEF M
  <2>7. /\ slot'[r].flags = slot[r].flags /\ slot'[r].usages = slot[r].usages
        /\ slot'[r].refs = slot[r].refs + Count(p, r)
    BY <1>s DEF FacesKept
  <2> QED BY <2>1, <2>2, <2>5, <2>6, <2>7 DEF Settled
<1> QED BY <1>1, <1>2, <1>3, <1>4 DEF TrackInv

LEMMA DestroyKeeps ==
  ASSUME TrackInv, ~strayed', NEW p \in Proc,
         Destroy(p)
  PROVE  TrackInv'
<1> DEFINE left == [s \in Slot |->
                   [slot[s] EXCEPT !.refs = IF @ > Count(p, s) THEN @ - Count(p, s) ELSE 0]]
           gone == {s \in Slot : Count(p, s) > 0 /\ left[s].refs = 0 /\ left[s].usages = 0}
<1>i. TypeOK /\ TableTypes /\ RestTypes /\ Points /\ Dead /\ TableInv /\ Counted
  BY Types DEF TrackInv
<1>e. /\ slot' = [s \in Slot |->
               IF s \in gone THEN [left[s] EXCEPT !.flags = "none", !.sem = Null]
               ELSE IF Count(p, s) > 0 THEN left[s] ELSE slot[s]]
      /\ used' = used \ gone /\ excl' = excl \ gone
      /\ nodeRefs' = [f \in File |->
               nodeRefs[f] - Cardinality({s \in gone : slot[s].file = f})]
      /\ sems' = [f \in File |->
               IF \E s \in gone : slot[s].sem # Null /\ slot[s].sem = sems[f]
               THEN Null ELSE sems[f]]
      /\ fds' = [fds EXCEPT ![p] = [i \in Fd |-> Null]]
      /\ alive' = alive \ {p} /\ UNCHANGED <<mounted, pc>>
  BY DEF Destroy
<1>b. strayed' \in BOOLEAN
  BY DEF Destroy
<1>c. \A s \in Slot : Count(p, s) \in Nat /\ Count(p, s) <= N(s) /\ N(s) \in Nat
  BY Shared, Counters
<1>o. \A s \in Slot : Count(p, s) > 0 => slot[s].flags # "none"
  BY <1>i, <1>c DEF Counted, Settled
<1>r. ASSUME NEW s \in Slot
      PROVE  /\ slot[s] \in Entry /\ left[s] \in Entry /\ left[s].flags = slot[s].flags
             /\ left[s].file = slot[s].file /\ left[s].sem = slot[s].sem
             /\ left[s].usages = slot[s].usages
             /\ left[s].refs = IF slot[s].refs > Count(p, s) THEN slot[s].refs - Count(p, s) ELSE 0
  <2>1. left[s] = [slot[s] EXCEPT !.refs = IF @ > Count(p, s) THEN @ - Count(p, s) ELSE 0]
    OBVIOUS
  <2>2. slot[s] \in Entry /\ Count(p, s) \in Nat
    BY <1>i, <1>c DEF TableTypes
  <2> QED BY <2>1, <2>2 DEF Entry
<1>g. gone \subseteq Slot /\ gone \subseteq Open
      /\ \A s \in Slot : s \in gone <=> Count(p, s) > 0 /\ left[s].refs = 0 /\ left[s].usages = 0
  BY <1>o DEF Open
<1> HIDE DEF left, gone
<1>s. ASSUME NEW s \in Slot
      PROVE  /\ slot'[s] \in Entry /\ slot'[s].file = slot[s].file
             /\ slot'[s].flags = IF s \in gone THEN "none" ELSE slot[s].flags
             /\ slot'[s].sem = IF s \in gone THEN Null ELSE slot[s].sem
             /\ slot'[s].usages = slot[s].usages
             /\ Count(p, s) = 0 => slot'[s].refs = slot[s].refs
             /\ Count(p, s) > 0 => slot'[s].refs = left[s].refs
  <2>1. CASE s \in gone
    <3>1. slot'[s] = [left[s] EXCEPT !.flags = "none", !.sem = Null]
      BY <1>e, <2>1
    <3>2. Count(p, s) > 0
      BY <1>g, <2>1
    <3>3. /\ left[s] \in Entry /\ left[s].file = slot[s].file
          /\ left[s].usages = slot[s].usages /\ Count(p, s) \in Nat
      BY <1>r, <1>c
    <3>4. /\ slot'[s] \in Entry /\ slot'[s].file = left[s].file /\ slot'[s].flags = "none"
          /\ slot'[s].sem = Null /\ slot'[s].usages = left[s].usages
          /\ slot'[s].refs = left[s].refs
      BY <3>1, <3>3 DEF Entry
    <3> QED BY <2>1, <3>2, <3>3, <3>4
  <2>2. CASE s \notin gone /\ Count(p, s) > 0
    <3>1. slot'[s] = left[s]
      BY <1>e, <2>2
    <3> QED BY <1>r, <1>c, <2>2, <3>1
  <2>3. CASE s \notin gone /\ ~ (Count(p, s) > 0)
    <3>1. slot'[s] = slot[s]
      BY <1>e, <2>3
    <3> QED BY <1>r, <1>c, <2>3, <3>1
  <2> QED BY <2>1, <2>2, <2>3
<1>t. slot' \in [Slot -> Entry]
  BY <1>e, <1>s
<1>f. /\ fds' \in [Proc -> [Fd -> Slot \cup {Null}]]
      /\ \A o \in Proc, j \in Fd : fds'[o][j] = IF o = p THEN Null ELSE fds[o][j]
  BY <1>i, <1>e DEF RestTypes
<1>2. Points' /\ FillersKept /\ Dead'
  <2>1. Points' /\ FillersKept
    BY <1>i, <1>e, PointsStay
  <2> QED BY <1>i, <1>e, <1>f, <2>1 DEF Dead
<1>3. TableInv'
  <2>1. FacesFreed(gone)
    BY <1>e, <1>g, <1>s DEF FacesFreed
  <2> QED BY <1>i, <1>2, <2>1, TableFreed
<1>1. TypeOK'
  <2>1. nodeRefs' \in [File -> Nat]
    <3>1. ASSUME NEW f \in File PROVE nodeRefs'[f] \in Nat
      <4> DEFINE B == {s \in Open : slot[s].file = f}'
      <4>1. B \in SUBSET Slot /\ nodeRefs'[f] = Cardinality(B)
        BY <1>3 DEF Open, TableInv, NodesExact
      <4> HIDE DEF B
      <4> QED BY <4>1, FileAssumption, FS_Subset, FS_CardinalityType
    <3> QED BY <1>e, <3>1
  <2>2. /\ used' \subseteq Slot /\ excl' \subseteq Slot
        /\ sems' \in [File -> Sem \cup {Null}] /\ alive' \subseteq Proc
    BY <1>i, <1>e DEF TableTypes, RestTypes
  <2> QED BY <1>i, <1>e, <1>b, <1>f, <1>t, <2>1, <2>2, Types DEF TableTypes, RestTypes
<1>4. Counted'
  <2> SUFFICES ASSUME NEW r \in Slot PROVE Settled(r)'
    BY DEF Counted
  <2>1. Settled(r) /\ slot[r].refs \in Nat /\ slot[r].usages \in Nat
    BY <1>i DEF Counted, TableTypes, Entry
  <2> DEFINE D == {p} \X {i \in Fd : fds[p][i] = r}
  <2>2. /\ IsFiniteSet(D) /\ Cardinality(D) = Count(p, r) /\ Count(p, r) \in Nat
        /\ D \subseteq Names(r) /\ Count(p, r) <= N(r)
    BY Shared
  <2>3. Names(r)' = Names(r) \ D
    <3>1. \A d \in Proc \X Fd : d \in Names(r)' <=> d \in Names(r) /\ d \notin D
      <4> SUFFICES ASSUME NEW d \in Proc \X Fd
                   PROVE  d \in Names(r)' <=> d \in Names(r) /\ d \notin D
        OBVIOUS
      <4>1. /\ d[1] \in Proc /\ d[2] \in Fd /\ Null # r
            /\ d \in Names(r)' <=> fds'[d[1]][d[2]] = r
            /\ d \in Names(r) <=> fds[d[1]][d[2]] = r
        BY FileAssumption DEF Names
      <4>2. fds'[d[1]][d[2]] = IF d[1] = p THEN Null ELSE fds[d[1]][d[2]]
        BY <1>f, <4>1
      <4>3. d \in D <=> d[1] = p /\ fds[p][d[2]] = r
        BY <4>1
      <4> QED BY <4>1, <4>2, <4>3
    <3> QED BY <3>1 DEF Names
  <2> HIDE DEF D
  <2>4. N(r)' = N(r) - Count(p, r)
    <3>1. Names(r) \cap D = D
      BY <2>2
    <3>2. Cardinality(Names(r) \ D) = Cardinality(Names(r)) - Cardinality(D)
      BY <3>1, Finite, FS_Difference
    <3> QED BY <2>2, <2>3, <3>2 DEF N
  <2>5. /\ C(r)' = C(r) /\ U(r)' = U(r) /\ M(r)' = M(r) /\ M(r) \in {0, 1}
        /\ C(r) \in Nat /\ N(r) \in Nat /\ U(r) \in Nat
    BY <1>e, ThreadsStay, Counters DEF M
  <2>6. CASE Count(p, r) = 0
    <3>1. slot'[r].flags = slot[r].flags
      BY <1>g, <1>s, <2>6
    <3> QED BY <1>s, <2>1, <2>4, <2>5, <2>6, <3>1 DEF Settled
  <2>7. CASE Count(p, r) > 0
    <3>1. /\ slot[r].flags # "none" /\ slot[r].refs = N(r) + C(r) + M(r) /\ slot[r].usages = U(r)
      BY <1>o, <2>1, <2>7 DEF Settled
    <3>2. left[r].refs = slot[r].refs - Count(p, r) /\ left[r].usages = slot[r].usages
      BY <1>r, <2>1, <2>2, <2>5, <3>1
    <3>3. slot'[r].refs = left[r].refs /\ slot'[r].usages = slot[r].usages
      BY <1>s, <2>7
    <3>4. slot'[r].refs = N(r)' + C(r)' + M(r)' /\ slot'[r].usages = U(r)'
      BY <2>2, <2>4, <2>5, <3>1, <3>2, <3>3
    <3>5. N(r)' \in Nat /\ slot'[r].refs \in Nat /\ slot'[r].usages \in Nat
      BY <1>s, <2>2, <2>4, <2>5 DEF Entry
    <3>6. CASE r \in gone
      <4>1. slot'[r].flags = "none" /\ slot'[r].refs = 0 /\ slot'[r].usages = 0
        BY <1>g, <1>s, <3>2, <3>3, <3>6
      <4> QED BY <2>5, <3>4, <3>5, <4>1 DEF Settled
    <3>7. CASE r \notin gone
      <4>1. slot'[r].flags = slot[r].flags /\ slot'[r].refs + slot'[r].usages > 0
        <5>1. slot'[r].flags = slot[r].flags
          BY <1>s, <3>7
        <5>2. left[r].refs # 0 \/ left[r].usages # 0
          BY <1>g, <2>7, <3>7
        <5> QED BY <3>2, <3>3, <3>5, <5>1, <5>2
      <4> QED BY <3>1, <3>4, <4>1 DEF Settled
    <3> QED BY <3>6, <3>7
  <2> QED BY <2>2, <2>6, <2>7
<1> QED BY <1>1, <1>2, <1>3, <1>4 DEF TrackInv

-----------------------------------------------------------------------------
LEMMA InitTracked == ASSUME Init PROVE Inv
<1>1. TypeOK
  BY FileAssumption DEF Init, TypeOK, idle
<1>2. Points /\ Dead
  BY DEF Init, Points, Dead, idle
<1>3. TableInv
  <2>1. Lists
    BY DEF Init, Lists, Fills, idle
  <2>2. NodesExact
    <3>1. \A f \in File : {s \in Open : slot[s].file = f} = {}
      BY DEF Init, Open
    <3> QED BY <3>1, FS_EmptySet DEF Init, NodesExact
  <2>3. SemsOwned
    BY DEF Init, SemsOwned
  <2>4. Alone
    BY DEF Init, Alone, Fills, idle
  <2> QED BY <2>1, <2>2, <2>3, <2>4 DEF TableInv
<1>4. Counted
  <2> SUFFICES ASSUME NEW s \in Slot PROVE Settled(s)
    BY DEF Counted
  <2>1. Names(s) = {} /\ Carriers(s) = {} /\ Users(s) = {}
    BY FileAssumption DEF Init, Names, Carriers, Users, idle
  <2>2. N(s) = 0 /\ C(s) = 0 /\ U(s) = 0
    BY <2>1, FS_EmptySet DEF N, C, U
  <2>3. M(s) = 0
    BY FileAssumption DEF Init, M
  <2> QED BY <2>2, <2>3 DEF Settled, Init
<1> QED BY <1>1, <1>2, <1>3, <1>4 DEF Inv, TrackInv

(* A call that has strayed is not undone.                                  *)
LEMMA StrayedStays == ASSUME Next, strayed PROVE strayed'
<1>1. ASSUME NEW t \in Thread, NEW f \in File, NEW lonely \in BOOLEAN, GetFree(t, f, lonely)
      PROVE  strayed'
  BY <1>1 DEF GetFree
<1>2. ASSUME NEW t \in Thread, NEW i \in Fd, NEW call \in {"using", "unassoc", "sem", "mount"},
             Request(t, i, call)
      PROVE  strayed'
  BY <1>2 DEF Request
<1>3. ASSUME NEW t \in Thread, FillSlot(t) PROVE strayed'
  BY <1>3 DEF FillSlot
<1>4. ASSUME NEW t \in Thread, Assoc(t) PROVE strayed'
  BY <1>4 DEF Assoc, DoClose
<1>5. ASSUME NEW t \in Thread, Release(t) PROVE strayed'
  BY <1>5 DEF Release
<1>6. ASSUME NEW t \in Thread, Unassoc(t) PROVE strayed'
  BY <1>6 DEF Unassoc
<1>7. ASSUME NEW t \in Thread, Close(t) PROVE strayed'
  BY <1>7 DEF Close, DoClose
<1>8. ASSUME NEW t \in Thread, FileSem(t) PROVE strayed'
  BY <1>8 DEF FileSem
<1>9. ASSUME NEW t \in Thread, NEW i \in Fd, Dup(t, i) PROVE strayed'
  BY <1>9 DEF Dup
<1>10. ASSUME NEW t \in Thread, NEW i \in Fd, NEW j \in Fd, Redirect(t, i, j) PROVE strayed'
  BY <1>10 DEF Redirect, DoClose
<1>11. ASSUME NEW t \in Thread, NEW q \in Proc, Clone(t, q) PROVE strayed'
  BY <1>11 DEF Clone
<1>12. ASSUME NEW t \in Thread, Mount(t) PROVE strayed'
  BY <1>12 DEF Mount
<1>13. ASSUME NEW t \in Thread, Lookup(t) PROVE strayed'
  BY <1>13 DEF Lookup
<1>14. ASSUME NEW t \in Thread, RequestMounted(t) PROVE strayed'
  BY <1>14 DEF RequestMounted
<1>15. ASSUME NEW t \in Thread, Unmount(t) PROVE strayed'
  BY <1>15 DEF Unmount
<1>16. ASSUME NEW t \in Thread, CloseUnmounted(t) PROVE strayed'
  BY <1>16 DEF CloseUnmounted, DoClose
<1>17. ASSUME NEW p \in Proc, Destroy(p) PROVE strayed'
  BY <1>17 DEF Destroy
<1> QED BY <1>1, <1>2, <1>3, <1>4, <1>5, <1>6, <1>7, <1>8, <1>9,
           <1>10, <1>11, <1>12, <1>13, <1>14, <1>15, <1>16, <1>17 DEF Next

LEMMA NextTracked == ASSUME Inv, [Next]_vars PROVE Inv'
<1>1. CASE UNCHANGED vars
  <2>1. /\ TypeOK' = TypeOK /\ Points' = Points /\ Dead' = Dead
    BY <1>1 DEF vars, TypeOK, Points, Dead
  <2>2. Lists' = Lists /\ NodesExact' = NodesExact /\ SemsOwned' = SemsOwned /\ Alone' = Alone
    BY <1>1 DEF vars, Lists, NodesExact, SemsOwned, Alone, Open, Fills
  <2>3. Counted' = Counted
    BY <1>1 DEF vars, Counted, Settled, N, C, U, M, Names, Carriers, Users
  <2> QED BY <1>1, <2>1, <2>2, <2>3 DEF Inv, TrackInv, TableInv, vars
<1>2. CASE Next
  <2> SUFFICES ASSUME ~strayed' PROVE TrackInv'
    BY DEF Inv
  <2>1. ~strayed
    BY <1>2, StrayedStays
  <2>2. TrackInv
    BY <2>1 DEF Inv
  <2>3. ASSUME NEW t \in Thread, NEW f \in File, NEW lonely \in BOOLEAN, GetFree(t, f, lonely)
        PROVE  TrackInv'
    BY <2>2, <2>3, GetFreeKeeps
  <2>4. ASSUME NEW t \in Thread, NEW i \in Fd, NEW call \in {"using", "unassoc", "sem", "mount"},
               Request(t, i, call)
        PROVE  TrackInv'
    BY <2>2, <2>4, RequestKeeps
  <2>5. ASSUME NEW t \in Thread, FillSlot(t) PROVE TrackInv'
    BY <2>2, <2>5, FillSlotKeeps
  <2>6. ASSUME NEW t \in Thread, Assoc(t) PROVE TrackInv'
    BY <2>2, <2>6, AssocNamesKeeps, AssocClosesKeeps
  <2>7. ASSUME NEW t \in Thread, Release(t) PROVE TrackInv'
    BY <2>2, <2>7, ReleaseKeeps
  <2>8. ASSUME NEW t \in Thread, Unassoc(t) PROVE TrackInv'
    BY <2>2, <2>8, UnassocKeeps
  <2>9. ASSUME NEW t \in Thread, Close(t) PROVE TrackInv'
    BY <2>2, <2>9, CloseKeeps
  <2>10. ASSUME NEW t \in Thread, FileSem(t) PROVE TrackInv'
    BY <2>2, <2>10, FileSemKeeps
  <2>11. ASSUME NEW t \in Thread, NEW i \in Fd, Dup(t, i) PROVE TrackInv'
    BY <2>2, <2>11, DupKeeps
  <2>12. ASSUME NEW t \in Thread, NEW i \in Fd, NEW j \in Fd, Redirect(t, i, j) PROVE TrackInv'
    BY <2>2, <2>12, RedirectKeeps
  <2>13. ASSUME NEW t \in Thread, NEW q \in Proc, Clone(t, q) PROVE TrackInv'
    BY <2>2, <2>13, CloneKeeps
  <2>14. ASSUME NEW t \in Thread, Mount(t) PROVE TrackInv'
    BY <2>2, <2>14, MountKeeps
  <2>15. ASSUME NEW t \in Thread, Lookup(t) PROVE TrackInv'
    BY <2>2, <2>15, LookupKeeps
  <2>16. ASSUME NEW t \in Thread, RequestMounted(t) PROVE TrackInv'
    BY <2>2, <2>16, RequestMountedKeeps
  <2>17. ASSUME NEW t \in Thread, Unmount(t) PROVE TrackInv'
    BY <2>2, <2>17, UnmountKeeps
  <2>18. ASSUME NEW t \in Thread, CloseUnmounted(t) PROVE TrackInv'
    BY <2>2, <2>18, CloseUnmountedKeeps
  <2>19. ASSUME NEW p \in Proc, Destroy(p) PROVE TrackInv'
    BY <2>2, <2>19, DestroyKeeps
  <2> QED BY <1>2, <2>3, <2>4, <2>5, <2>6, <2>7, <2>8, <2>9, <2>10, <2>11, <2>12,
             <2>13, <2>14, <2>15, <2>16, <2>17, <2>18, <2>19 DEF Next
<1> QED BY <1>1, <1>2

(* As long as no call has strayed, counters, pointers, lists and           *)
(* semaphores of the global file table fit together.                       *)
THEOREM FilesTracked == Spec => []Inv
<1>1. Init => Inv
  BY InitTracked
<1>2. Inv /\ [Next]_vars => Inv'
  BY NextTracked
<1> QED BY <1>1, <1>2, PTL DEF Spec

(* refCount and usageCount are the numbers of those who name the file and  *)
(* of those who use it, and the node has one reference from each open      *)
(* slot (OpenFile::doClose, decUsages, incRefs).                           *)
THEOREM CountsAlwaysExact == Spec => []CountsExact
<1>1. Inv => CountsExact
  BY DEF Inv, TrackInv, TableInv, NodesExact, Counted, Settled, N, C, U, M, CountsExact, Open
<1> QED BY <1>1, FilesTracked, PTL

(* No descriptor, mount point or call refers to a freed OpenFile, and no   *)
(* slot is occupied by a file that nobody names or uses.                   *)
THEOREM AlwaysFreedWithLastUse == Spec => []FreedWithLastUse
<1>1. Inv => FreedWithLastUse
  <2> SUFFICES ASSUME TrackInv, ~strayed PROVE FreedWithLastUse
    BY DEF Inv, FreedWithLastUse
  <2>1. TypeOK /\ Counted
    BY DEF TrackInv
  <2>2. \A p \in Proc, i \in Fd : fds[p][i] \in Open \cup {Null}
    BY <2>1, Reached DEF Open
  <2>3. mounted \in Open \cup {Null}
    BY <2>1, Reached DEF Open
  <2>4. ASSUME NEW s \in Slot, Carriers(s) \cup Users(s) # {} PROVE s \in Open
    <3>1. PICK t \in Thread : Carries(pc[t], s) = 1 \/ Works(pc[t], s) = 1
      BY <2>4 DEF Carriers, Users, Carries, Works
    <3> QED BY <2>1, <3>1, Reached DEF Open
  <2>5. ASSUME NEW s \in Open PROVE slot[s].refs > 0 \/ slot[s].usages > 0
    <3>1. s \in Slot /\ slot[s].refs \in Nat /\ slot[s].usages \in Nat
      BY <2>1 DEF Open, TypeOK
    <3> QED BY <2>1, <3>1 DEF Open, Counted, Settled
  <2> QED BY <2>2, <2>3, <2>4, <2>5 DEF FreedWithLastUse
<1> QED BY <1>1, FilesTracked, PTL

(* A file that has been opened with O_LONELY is open nowhere else, and its *)
(* semaphore stays in the treap.                                           *)
THEOREM LonelyAlwaysAlone == Spec => []LonelyAlone
<1>1. Inv => LonelyAlone
  BY DEF Inv, TrackInv, TableInv, Alone, LonelyAlone, Open
<1> QED BY <1>1, FilesTracked, PTL
=============================================================================
