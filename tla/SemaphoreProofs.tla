---------------------------- MODULE SemaphoreProofs ----------------------------
(***************************************************************************)
(* Proofs about the semaphore and what is built on it, the mutex and the   *)
(* semaphores of processes, for any number of threads and processors.  The *)
(* theorems about the mutex assume that no thread is signalled or that     *)
(* there is one processor: with signals and more than one the assertion in *)
(* Mutex::down fails (README, section 4).                                  *)
(*                                                                         *)
(* The first part shows that the pointer operations of Links do to the     *)
(* represented sequences what append and removal of the first element do,  *)
(* and leave every list alone that shares no element with them.            *)
(***************************************************************************)
EXTENDS Mutex, Sems, DList, FiniteSetTheorems, WellFoundedInduction, TLAPS

-----------------------------------------------------------------------------
(* What the list operations do to membership and to distinctness. *)

(* Appending links the new element and nothing else.                       *)
LEMMA AppendMembers ==
  ASSUME NEW S, NEW s \in Seq(S), NEW e \in S, NEW x
  PROVE  InList(Append(s, e), x) <=> InList(s, x) \/ x = e
<1> DEFINE a == Append(s, e)
<1>1. Len(a) = Len(s) + 1 /\ Len(s) \in Nat
  OBVIOUS
<1>2. \A i \in 1 .. Len(s) : a[i] = s[i]
  OBVIOUS
<1>3. a[Len(s) + 1] = e
  OBVIOUS
<1> HIDE DEF a
<1>4. InList(a, x) <=> InList(s, x) \/ x = e
  BY <1>1, <1>2, <1>3 DEF InList
<1> QED BY <1>4 DEF a

(* Appending an element that is not linked keeps the list distinct.        *)
LEMMA AppendDistinct ==
  ASSUME NEW S, NEW s \in Seq(S), NEW e \in S, Distinct(s), ~ InList(s, e)
  PROVE  Distinct(Append(s, e)) /\ Append(s, e) \in Seq(S)
<1> DEFINE a == Append(s, e)
<1>1. Len(a) = Len(s) + 1 /\ Len(s) \in Nat
  OBVIOUS
<1>2. \A i \in 1 .. Len(s) : a[i] = s[i]
  OBVIOUS
<1>3. a[Len(s) + 1] = e
  OBVIOUS
<1>5. a \in Seq(S)
  OBVIOUS
<1> HIDE DEF a
<1>4. Distinct(a)
  BY <1>1, <1>2, <1>3 DEF InList, Distinct
<1> QED BY <1>4, <1>5 DEF a

(* Taking the first element off a distinct list unlinks just that one.     *)
LEMMA TailMembers ==
  ASSUME NEW S, NEW s \in Seq(S), s # << >>, Distinct(s)
  PROVE  /\ Tail(s) \in Seq(S)
         /\ Head(s) \in S
         /\ InList(s, Head(s))
         /\ Distinct(Tail(s))
         /\ \A x : InList(Tail(s), x) <=> InList(s, x) /\ x # Head(s)
<1> DEFINE a == Tail(s)
<1>1. Len(a) = Len(s) - 1 /\ Len(s) \in Nat /\ Len(s) >= 1
  OBVIOUS
<1>2. \A i \in 1 .. Len(a) : a[i] = s[i + 1]
  OBVIOUS
<1>3. Head(s) = s[1] /\ s[1] \in S /\ a \in Seq(S)
  OBVIOUS
<1> HIDE DEF a
<1>4. Distinct(a)
  BY <1>1, <1>2 DEF Distinct
<1>5. ASSUME NEW x
      PROVE  InList(a, x) <=> InList(s, x) /\ x # s[1]
  <2>1. ASSUME InList(a, x)
        PROVE  InList(s, x) /\ x # s[1]
    BY <2>1, <1>1, <1>2 DEF InList, Distinct
  <2>2. ASSUME InList(s, x), x # s[1]
        PROVE  InList(a, x)
    <3>1. PICK i \in 1 .. Len(s) : s[i] = x
      BY <2>2 DEF InList
    <3>2. i - 1 \in 1 .. Len(a) /\ a[i - 1] = x
      BY <3>1, <2>2, <1>1, <1>2
    <3> QED BY <3>2 DEF InList
  <2> QED BY <2>1, <2>2
<1>6. InList(s, s[1])
  BY <1>1 DEF InList
<1> QED BY <1>3, <1>4, <1>5, <1>6 DEF a

-----------------------------------------------------------------------------
(* Lists without a common element do not disturb each other.               *)
Apart(s, r) == \A i \in 1 .. Len(s), j \in 1 .. Len(r) : s[i] # r[j]

(* The links after an append, link by link.                                *)
LEMMA AppendedLinksAt ==
  ASSUME NEW S, NEW nx \in [S -> S \cup {Null}], NEW l, NEW e \in S
  PROVE  /\ AppendedLinks(l, nx, e) \in [S -> S \cup {Null}]
         /\ AppendedLinks(l, nx, e)[e] = Null
         /\ \A x \in S : x # e /\ (l.head = Null \/ x # l.tail)
              => AppendedLinks(l, nx, e)[x] = nx[x]
         /\ l.head # Null /\ l.tail \in S /\ l.tail # e
              => AppendedLinks(l, nx, e)[l.tail] = e
  BY DEF AppendedLinks

(* append() appends: SList::append and DList::append.                      *)
LEMMA AppendRepresents ==
  ASSUME NEW S, Null \notin S, NEW nx \in [S -> S \cup {Null}], NEW l,
         NEW s \in Seq(S), NEW e \in S,
         Distinct(s), ~ InList(s, e), Represents(s, l, nx)
  PROVE  Represents(Append(s, e), Appended(l, e), AppendedLinks(l, nx, e))
<1> DEFINE a == Append(s, e)
           m == AppendedLinks(l, nx, e)
<1>1. Len(a) = Len(s) + 1 /\ Len(s) \in Nat /\ a # << >>
  OBVIOUS
<1>2. \A i \in 1 .. Len(s) : a[i] = s[i] /\ s[i] \in S /\ s[i] # e
  BY DEF InList
<1>3. a[Len(a)] = e
  BY <1>1
<1>4. m[e] = Null
  BY AppendedLinksAt
<1>5. CASE s = << >>
  <2>1. l.head = Null /\ l.len = 0
    BY <1>5 DEF Represents
  <2>2. Len(a) = 1 /\ a[1] = e
    BY <1>5, <1>1, <1>3
  <2>3. Appended(l, e) = [head |-> e, tail |-> e, len |-> 1]
    BY <2>1 DEF Appended
  <2> QED BY <2>2, <2>3, <1>1, <1>4 DEF Represents
<1>6. CASE s # << >>
  <2>1. /\ Len(s) >= 1 /\ l.head = s[1] /\ l.tail = s[Len(s)] /\ l.len = Len(s)
        /\ l.head # Null /\ l.tail \in S /\ l.tail # e
    BY <1>6, <1>1, <1>2 DEF Represents
  <2>2. Appended(l, e) = [head |-> s[1], tail |-> e, len |-> Len(s) + 1]
    BY <2>1 DEF Appended
  <2>3. ASSUME NEW i \in 1 .. Len(a) - 1 PROVE m[a[i]] = a[i + 1]
    <3>1. CASE i = Len(s)
      <4>1. m[l.tail] = e
        BY <2>1, AppendedLinksAt
      <4> QED BY <4>1, <3>1, <2>1, <1>1, <1>2, <1>3
    <3>2. CASE i # Len(s)
      <4>1. i \in 1 .. Len(s) - 1 /\ i \in 1 .. Len(s) /\ i + 1 \in 1 .. Len(s)
        BY <3>2, <1>1
      <4>2. nx[s[i]] = s[i + 1]
        BY <4>1, <1>6 DEF Represents
      <4>3. s[i] # l.tail
        BY <4>1, <2>1, <3>2, <1>1 DEF Distinct
      <4>4. s[i] \in S /\ s[i] # e
        BY <4>1, <1>2
      <4>5. m[s[i]] = nx[s[i]]
        BY <4>3, <4>4, AppendedLinksAt
      <4> QED BY <4>1, <4>2, <4>5, <1>2
    <3> QED BY <3>1, <3>2
  <2>4. a[1] = s[1]
    BY <2>1, <1>2
  <2> QED BY <2>1, <2>2, <2>3, <2>4, <1>1, <1>3, <1>4 DEF Represents
<1> QED BY <1>5, <1>6

(* An append leaves alone the lists that share no element with it.         *)
LEMMA AppendOther ==
  ASSUME NEW S, Null \notin S, NEW nx \in [S -> S \cup {Null}], NEW l, NEW k,
         NEW s \in Seq(S), NEW r \in Seq(S), NEW e \in S,
         ~ InList(r, e), Represents(s, l, nx), Represents(r, k, nx), Apart(s, r)
  PROVE  Represents(r, k, AppendedLinks(l, nx, e))
<1> DEFINE m == AppendedLinks(l, nx, e)
<1>1. Len(s) \in Nat /\ Len(r) \in Nat
  OBVIOUS
<1>2. ASSUME NEW j \in 1 .. Len(r) PROVE m[r[j]] = nx[r[j]]
  <2>1. r[j] \in S /\ r[j] # e
    BY DEF InList
  <2>2. l.head = Null \/ r[j] # l.tail
    <3>1. CASE s = << >>
      BY <3>1 DEF Represents
    <3>2. CASE s # << >>
      <4>1. Len(s) \in 1 .. Len(s) /\ l.tail = s[Len(s)]
        BY <3>2, <1>1 DEF Represents
      <4> QED BY <4>1 DEF Apart
    <3> QED BY <3>1, <3>2
  <2> QED BY <2>1, <2>2, AppendedLinksAt
<1>3. CASE r = << >>
  BY <1>3 DEF Represents
<1>4. CASE r # << >>
  <2>1. Len(r) \in 1 .. Len(r) /\ \A i \in 1 .. Len(r) - 1 : i \in 1 .. Len(r)
    BY <1>4, <1>1
  <2> QED BY <2>1, <1>2, <1>4 DEF Represents
<1> QED BY <1>3, <1>4

(* Both ways to remove the first element leave the tail of the sequence,   *)
(* under the same links.                                                   *)
LEMMA PopRepresents ==
  ASSUME NEW S, Null \notin S, NEW nx \in [S -> S \cup {Null}], NEW l,
         NEW s \in Seq(S), s # << >>, Distinct(s), Represents(s, l, nx)
  PROVE  /\ l.head = Head(s)
         /\ Represents(Tail(s), Popped(l, nx), nx)
         /\ Represents(Tail(s), RemovedAt(l, nx, Null, l.head), nx)
<1> DEFINE a == Tail(s)
<1>1. /\ Len(s) \in Nat /\ Len(s) >= 1 /\ Len(a) = Len(s) - 1
      /\ Head(s) = s[1] /\ \A i \in 1 .. Len(s) : s[i] \in S
  OBVIOUS
<1>2. \A i \in 1 .. Len(a) : a[i] = s[i + 1]
  OBVIOUS
<1>3. /\ l.head = s[1] /\ l.tail = s[Len(s)] /\ l.len = Len(s)
      /\ nx[s[Len(s)]] = Null /\ \A i \in 1 .. Len(s) - 1 : nx[s[i]] = s[i + 1]
  BY DEF Represents
<1>0. a = << >> <=> Len(a) = 0
  <2>1. a \in Seq(S)
    BY TailMembers
  <2> HIDE DEF a
  <2> QED BY <2>1
<1>4. CASE Len(s) = 1
  <2>1. a = << >> /\ Len(a) = 0
    BY <1>4, <1>1, <1>0
  <2>2. nx[l.head] = Null /\ l.head = l.tail
    <3> HIDE DEF a
    <3>1. l.head = s[1] /\ l.tail = s[1] /\ nx[s[1]] = Null
      BY <1>4, <1>3
    <3> QED BY <3>1
  <2> QED BY <2>1, <2>2, <1>1, <1>3, <1>4 DEF Represents, Popped, RemovedAt
<1>5. CASE Len(s) # 1
  <2>1. Len(s) >= 2 /\ a # << >> /\ Len(a) >= 1
    BY <1>5, <1>1, <1>0
  <2>2. nx[l.head] = s[2] /\ s[2] \in S /\ s[2] # Null
    <3>1. 1 \in 1 .. Len(s) - 1 /\ 2 \in 1 .. Len(s)
      BY <2>1, <1>1
    <3>2. nx[s[1]] = s[2] /\ s[2] \in S
      BY <3>1, <1>1, <1>3
    <3> QED BY <3>2, <1>3
  <2>3. l.head # l.tail
    BY <2>1, <1>1, <1>3 DEF Distinct
  <2>4. a[1] = s[2] /\ a[Len(a)] = s[Len(s)]
    BY <2>1, <1>1, <1>2
  <2>5. \A i \in 1 .. Len(a) - 1 : nx[a[i]] = a[i + 1]
    BY <1>1, <1>2, <1>3
  <2> QED BY <2>1, <2>2, <2>3, <2>4, <2>5, <1>1, <1>3
           DEF Represents, Popped, RemovedAt
<1> QED BY <1>4, <1>5, <1>1, <1>3

-----------------------------------------------------------------------------
(* The walk along the links.                                               *)

(* A set of numbers that is not empty has a least one.                     *)
LEMMA LeastNat ==
  ASSUME NEW S, S \subseteq Nat, S # {}
  PROVE  \E k \in S : \A j \in S : k <= j
<1>1. IsWellFoundedOn(OpToRel(<, Nat), Nat)
  BY NatLessThanWellFounded
<1>2. PICK k \in S : \A j \in S : ~ (<<j, k>> \in OpToRel(<, Nat))
  BY <1>1, WFMin
<1>3. \A j \in S : ~ (j < k)
  BY <1>2 DEF OpToRel
<1> QED BY <1>3

(* The first i elements of s.                                              *)
Begin(s, i) == [j \in 1 .. (IF i <= Len(s) THEN i ELSE Len(s)) |-> s[j]]

LEMMA BeginIs ==
  ASSUME NEW S, NEW s \in Seq(S), NEW i \in Nat
  PROVE  /\ Begin(s, i) \in Seq(S)
         /\ Len(Begin(s, i)) = IF i <= Len(s) THEN i ELSE Len(s)
         /\ \A j \in 1 .. Len(Begin(s, i)) : Begin(s, i)[j] = s[j]
<1> DEFINE m == IF i <= Len(s) THEN i ELSE Len(s)
<1>1. m \in Nat /\ m <= Len(s)
  OBVIOUS
<1>2. \A j \in 1 .. m : s[j] \in S
  BY <1>1
<1>3. Begin(s, i) = [j \in 1 .. m |-> s[j]]
  BY DEF Begin
<1> HIDE DEF m
<1>4. [j \in 1 .. m |-> s[j]] \in Seq(S) /\ Len([j \in 1 .. m |-> s[j]]) = m
  BY <1>1, <1>2
<1>5. \A j \in 1 .. m : [k \in 1 .. m |-> s[k]][j] = s[j]
  OBVIOUS
<1> QED BY <1>3, <1>4, <1>5 DEF m

(* Two sequences of one length with the same elements.                     *)
LEMMA SeqSame ==
  ASSUME NEW S, NEW s \in Seq(S), NEW r \in Seq(S), Len(s) = Len(r),
         \A j \in 1 .. Len(s) : s[j] = r[j]
  PROVE  s = r
<1>1. s = [j \in 1 .. Len(s) |-> s[j]] /\ r = [j \in 1 .. Len(r) |-> r[j]]
  OBVIOUS
<1> QED BY <1>1

(* A walk of i links from the head, given the walk of one link less.       *)
Walked(l, nx, f, i) ==
  IF i = 0 \/ l.head = Null
    THEN << >>
    ELSE IF i = 1
           THEN << l.head >>
           ELSE IF Len(f[i - 1]) < i - 1 \/ nx[f[i - 1][Len(f[i - 1])]] = Null
                  THEN f[i - 1]
                  ELSE Append(f[i - 1], nx[f[i - 1][Len(f[i - 1])]])

LEMMA WalkedIs ==
  ASSUME NEW S, Null \notin S, NEW nx, NEW l, NEW s \in Seq(S), Represents(s, l, nx),
         NEW f, NEW i \in Nat, i # 0 => f[i - 1] = Begin(s, i - 1)
  PROVE  Walked(l, nx, f, i) = Begin(s, i)
<1>1. Len(s) \in Nat /\ \A j \in 1 .. Len(s) : s[j] \in S
  OBVIOUS
<1>2. /\ Begin(s, i) \in Seq(S)
      /\ Len(Begin(s, i)) = IF i <= Len(s) THEN i ELSE Len(s)
      /\ \A j \in 1 .. Len(Begin(s, i)) : Begin(s, i)[j] = s[j]
  BY BeginIs
<1>3. l.head = Null <=> s = << >>
  <2>1. s # << >> => 1 \in 1 .. Len(s)
    BY <1>1
  <2> QED BY <1>1, <2>1 DEF Represents
<1>4. CASE i = 0 \/ s = << >>
  <2>1. Walked(l, nx, f, i) = << >>
    BY <1>3, <1>4 DEF Walked
  <2>2. Len(Begin(s, i)) = 0
    BY <1>2, <1>4
  <2> QED BY <2>1, <2>2, <1>2
<1>5. CASE i # 0 /\ s # << >> /\ i = 1
  <2>1. Walked(l, nx, f, i) = << l.head >> /\ l.head = s[1] /\ 1 <= Len(s) /\ s[1] \in S
    BY <1>1, <1>3, <1>5 DEF Walked, Represents
  <2>2. Len(Begin(s, i)) = 1 /\ Begin(s, i)[1] = s[1]
    BY <2>1, <1>2, <1>5
  <2>3. << s[1] >> \in Seq(S) /\ Len(<< s[1] >>) = 1 /\ << s[1] >>[1] = s[1]
    BY <2>1
  <2> QED BY <2>1, <2>2, <2>3, <1>2, SeqSame
<1>6. CASE i # 0 /\ s # << >> /\ i # 1
  <2>1. PICK k \in Nat : k = i - 1 /\ k >= 1
    BY <1>6
  <2>2. PICK c \in Seq(S) : c = Begin(s, k)
    BY BeginIs
  <2>3. /\ Len(c) = IF k <= Len(s) THEN k ELSE Len(s)
        /\ \A j \in 1 .. Len(c) : c[j] = s[j]
    BY <2>2, BeginIs
  <2>31. Len(s) >= 1 /\ Len(c) >= 1
    BY <1>1, <1>6, <2>1, <2>3
  <2>4. f[i - 1] = c
    BY <2>1, <2>2, <1>6
  <2>5. Walked(l, nx, f, i) = IF Len(c) < k \/ nx[c[Len(c)]] = Null
                                THEN c ELSE Append(c, nx[c[Len(c)]])
    BY <2>1, <2>4, <1>3, <1>6 DEF Walked
  <2>6. CASE k > Len(s)
    <3>1. Walked(l, nx, f, i) = c /\ Len(c) = Len(s) /\ Len(Begin(s, i)) = Len(s)
      BY <2>1, <2>3, <2>5, <2>6, <1>1, <1>2
    <3>2. \A j \in 1 .. Len(c) : c[j] = Begin(s, i)[j]
      BY <3>1, <2>3, <1>2
    <3> QED BY <3>1, <3>2, <1>2, SeqSame
  <2>7. CASE k = Len(s)
    <3>1. Len(c) = Len(s) /\ c[Len(c)] = s[Len(s)] /\ nx[s[Len(s)]] = Null
      BY <2>3, <2>31, <2>7, <1>1, <1>6 DEF Represents
    <3>2. Walked(l, nx, f, i) = c /\ Len(Begin(s, i)) = Len(s)
      BY <3>1, <2>1, <2>5, <2>7, <1>1, <1>2
    <3>3. \A j \in 1 .. Len(c) : c[j] = Begin(s, i)[j]
      BY <3>1, <3>2, <2>3, <1>2
    <3> QED BY <3>1, <3>2, <3>3, <1>2, SeqSame
  <2>8. CASE k < Len(s)
    <3>1. Len(c) = k /\ c[k] = s[k] /\ nx[s[k]] = s[i] /\ s[i] \in S /\ i <= Len(s)
      <4>1. k \in 1 .. Len(s) - 1 /\ i = k + 1 /\ i \in 1 .. Len(s)
        BY <2>1, <2>8, <1>1
      <4> QED BY <4>1, <2>3, <2>31, <2>8, <1>1, <1>6 DEF Represents
    <3>2. Walked(l, nx, f, i) = Append(c, s[i])
      BY <3>1, <2>5
    <3>3. /\ Append(c, s[i]) \in Seq(S) /\ Len(Append(c, s[i])) = i
          /\ \A j \in 1 .. k : Append(c, s[i])[j] = c[j]
          /\ Append(c, s[i])[k + 1] = s[i]
      BY <3>1, <2>1
    <3>4. Len(Begin(s, i)) = i
      BY <3>1, <1>2
    <3>5. ASSUME NEW j \in 1 .. i PROVE Append(c, s[i])[j] = Begin(s, i)[j]
      <4>1. Begin(s, i)[j] = s[j]
        BY <3>4, <1>2
      <4>2. j \in 1 .. k \/ j = k + 1
        BY <2>1
      <4> QED BY <4>1, <4>2, <3>1, <3>3, <2>1, <2>3
    <3> QED BY <3>2, <3>3, <3>4, <3>5, <1>2, SeqSame
  <2> QED BY <2>1, <2>6, <2>7, <2>8, <1>1
<1> QED BY <1>4, <1>5, <1>6

(* A walk that is long enough sees the whole list.                         *)
LEMMA ChainIs ==
  ASSUME NEW S, Null \notin S, NEW nx, NEW l, NEW s \in Seq(S), Represents(s, l, nx),
         NEW n \in Nat, Len(s) <= n
  PROVE  Chain(l, nx, n) = s
<1> DEFINE Good(f) == f = [i \in 0 .. n |-> Walked(l, nx, f, i)]
           g == [i \in 0 .. n |-> Begin(s, i)]
           f0 == CHOOSE f : Good(f)
<1>1. Chain(l, nx, n) = f0[n]
  BY DEF Chain, Walked
<1>2. Good(g)
  <2>1. ASSUME NEW i \in 0 .. n PROVE Walked(l, nx, g, i) = Begin(s, i)
    <3>1. i \in Nat
      OBVIOUS
    <3>2. i # 0 => g[i - 1] = Begin(s, i - 1)
      OBVIOUS
    <3> HIDE DEF g
    <3> QED BY <3>1, <3>2, WalkedIs
  <2> QED BY <2>1
<1>3. Good(f0)
  <2> HIDE DEF Good, g
  <2> QED BY <1>2
<1> DEFINE Bad == {i \in 0 .. n : f0[i] # Begin(s, i)}
<1>4. \A i \in 0 .. n : f0[i] = Walked(l, nx, f0, i)
  <2> HIDE DEF f0
  <2> QED BY <1>3
<1> HIDE DEF f0, Good, g
<1>5. Bad = {}
  <2> SUFFICES ASSUME Bad # {} PROVE FALSE
    OBVIOUS
  <2>0. Bad \subseteq Nat
    OBVIOUS
  <2>1. PICK m \in Bad : \A j \in Bad : m <= j
    <3> HIDE DEF Bad
    <3> QED BY <2>0, LeastNat
  <2>2. m \in 0 .. n /\ m \in Nat
    BY <2>1
  <2>3. m # 0 => f0[m - 1] = Begin(s, m - 1)
    <3>1. m # 0 => m - 1 \in 0 .. n /\ m - 1 \notin Bad
      <4> HIDE DEF Bad
      <4> QED BY <2>0, <2>1, <2>2
    <3> QED BY <3>1
  <2>4. Walked(l, nx, f0, m) = Begin(s, m)
    BY <2>2, <2>3, WalkedIs
  <2> QED BY <2>1, <2>2, <2>4, <1>4
<1>6. f0[n] = Begin(s, n)
  BY <1>5
<1>7. Begin(s, n) = s
  <2>1. /\ Begin(s, n) \in Seq(S) /\ Len(Begin(s, n)) = Len(s)
        /\ \A j \in 1 .. Len(Begin(s, n)) : Begin(s, n)[j] = s[j]
    <3>1. n <= Len(s) => n = Len(s)
      OBVIOUS
    <3> QED BY <3>1, BeginIs
  <2> QED BY <2>1, SeqSame
<1> QED BY <1>1, <1>6, <1>7

(* A list without repetition is not longer than the set it is from.        *)
LEMMA DistinctShort ==
  ASSUME NEW S, IsFiniteSet(S), NEW s \in Seq(S), Distinct(s)
  PROVE  Len(s) <= Cardinality(S)
<1>1. Len(s) \in Nat /\ s \in [1 .. Len(s) -> S]
  OBVIOUS
<1>2. s \in Injection(1 .. Len(s), S)
  BY <1>1 DEF Distinct, Injection, IsInjective
<1>3. Cardinality(1 .. Len(s)) <= Cardinality(S)
  BY <1>2, FS_Injection
<1>4. Cardinality(1 .. Len(s)) = Len(s)
  BY <1>1, FS_Interval
<1> QED BY <1>3, <1>4

-----------------------------------------------------------------------------
(* The semaphore while signals do not interrupt it: where threads are that *)
(* sleep, run and hold the spinlock, which threads the lists link, and how *)
(* the steps inside of down() and up() move the waiters and the permits.   *)

(* Nobody is interrupted: signals are ignored by whoever sleeps, or nobody *)
(* has one.                                                                *)
Quiet ==
  \A t \in Thread :
    /\ pc[t] \notin {"intr", "giveback"}
    /\ AllowSigs => ~ sigmask[t]
    /\ ~ AllowSigs /\ pc[t] \in {"switch", "resume"} => ignSigs[t]

Placed ==
  \A t \in Thread :
    /\ state[t] = "READY" => pc[t] \in {"user", "resume"}
    /\ state[t] = "BLOCKED" => pc[t] = "resume"
    /\ state[t] = "RUNNING" /\ newState[t] = "BLOCKED"
         => pc[t] \in {"nosigs", "switch"}
    /\ lck = t <=> pc[t] \in {"dec", "inc"}

(* The sequences w and r are the waiting list and the ready queue.         *)
ListsAre(w, r) ==
  /\ Distinct(w) /\ Distinct(r)
  /\ Represents(w, waiters, next) /\ Represents(r, ready, next)
  /\ \A t \in Thread : InList(w, t) <=> Sleeping(t)
  /\ \A t \in Thread : InList(r, t) <=> state[t] = "READY"

Calm(w) ==
  /\ SemTypeOK /\ Quiet /\ Placed
  /\ \E r \in Seq(Thread) : ListsAre(w, r)

(* Threads in down() that have their permit, and in up() that have theirs  *)
(* still to give.                                                          *)
Granted(t) ==
  \/ pc[t] \in {"acquired", "relock"}
  \/ pc[t] \in {"nosigs", "switch"} /\ newState[t] = "READY"
  \/ pc[t] = "resume" /\ state[t] # "BLOCKED"

Grants == {t \in Thread : Granted(t)}
Ups == {t \in Thread : pc[t] \in {"up", "inc"}}

(* What a step of t does, with the waiters w before and v after it.        *)
Stays(w, v) == v = w /\ value' = value /\ Grants' = Grants /\ Ups' = Ups

Waits(w, v, t) ==
  /\ MustWait(value - 1) /\ v = Append(w, t)
  /\ value' = value - 1 /\ Grants' = Grants /\ Ups' = Ups

Takes(w, v, t) ==
  /\ ~ MustWait(value - 1) /\ v = w
  /\ value' = value - 1 /\ Ups' = Ups
  /\ t \notin Grants /\ Grants' = Grants \cup {t}

Frees(w, v, t) ==
  /\ w = << >> /\ v = w
  /\ value' = value + 1 /\ Grants' = Grants
  /\ t \in Ups /\ Ups' = Ups \ {t}

Hands(w, v, t) ==
  /\ w # << >> /\ v = Tail(w)
  /\ value' = value + 1
  /\ Head(w) \in Thread \ Grants /\ Grants' = Grants \cup {Head(w)}
  /\ t \in Ups /\ Ups' = Ups \ {t}

Flow(w, v, t) ==
  Stays(w, v) \/ Waits(w, v, t) \/ Takes(w, v, t) \/ Frees(w, v, t) \/ Hands(w, v, t)

(* Nobody enters or leaves the semaphore, or turns from down() to up().    *)
PartsKept ==
  \A u \in Thread :
    /\ pc'[u] \in {"user", "signal"} <=> pc[u] \in {"user", "signal"}
    /\ pc'[u] \in {"up", "inc", "done"} <=> pc[u] \in {"up", "inc", "done"}

SemGoes(w, t) ==
  PartsKept /\ \E v \in Seq(Thread) : Calm(v)' /\ Flow(w, v, t)

(* No thread is in both lists.                                             *)
LEMMA ListsApart ==
  ASSUME SemTypeOK, Placed, NEW w \in Seq(Thread), NEW r \in Seq(Thread),
         ListsAre(w, r)
  PROVE  Apart(w, r) /\ Apart(r, w)
<1>1. \A t \in Thread : ~ (Sleeping(t) /\ state[t] = "READY")
  BY DEF SemTypeOK, Placed, Sleeping
<1>2. ASSUME NEW i \in 1 .. Len(w), NEW j \in 1 .. Len(r), w[i] = r[j]
      PROVE FALSE
  <2>1. w[i] \in Thread /\ InList(w, w[i]) /\ InList(r, w[i])
    BY <1>2 DEF InList
  <2> QED BY <2>1, <1>1 DEF ListsAre
<1> QED BY <1>2 DEF Apart

(* The length of the waiting list.                                         *)
LEMMA CalmLen ==
  ASSUME NEW w \in Seq(Thread), Calm(w)
  PROVE  /\ waiters.len = Len(w) /\ Len(w) \in Nat /\ value \in Int
         /\ Distinct(w) /\ Represents(w, waiters, next)
         /\ \A t \in Thread : InList(w, t) <=> Sleeping(t)
<1>1. /\ Distinct(w) /\ Represents(w, waiters, next)
      /\ \A t \in Thread : InList(w, t) <=> Sleeping(t)
  BY DEF Calm, ListsAre
<1>2. waiters.len = Len(w) /\ Len(w) \in Nat
  BY <1>1 DEF Represents
<1>3. value \in Int
  BY DEF Calm, SemTypeOK
<1> QED BY <1>1, <1>2, <1>3

(* Initially nobody waits.                                                 *)
LEMMA CalmInit ==
  ASSUME SemInit
  PROVE  Calm(<< >>) /\ << >> \in Seq(Thread) /\ Grants = {} /\ Ups = {}
<1> USE SemAssumption
<1>1. PICK q \in [1 .. Cardinality(Thread) -> Thread] :
        /\ Distinct(q)
        /\ \A t \in Thread : InList(q, t)
        /\ ready = [head |-> IF q = << >> THEN Null ELSE q[1],
                    tail |-> IF q = << >> THEN Null ELSE q[Len(q)],
                    len  |-> Len(q)]
        /\ Represents(q, ready, next)
  BY DEF SemInit
<1>2. Cardinality(Thread) \in Nat
  BY FS_CardinalityType
<1>3. q \in Seq(Thread) /\ Len(q) = Cardinality(Thread)
  <2> DEFINE n == Cardinality(Thread)
  <2> HIDE DEF n
  <2>1. n \in Nat /\ q \in [1 .. n -> Thread]
    BY <1>1, <1>2 DEF n
  <2>2. q = [i \in 1 .. n |-> q[i]] /\ \A i \in 1 .. n : q[i] \in Thread
    BY <2>1
  <2>3. q \in Seq(Thread) /\ Len(q) = n
    BY <2>1, <2>2
  <2> QED BY <2>3 DEF n
<1>4. ready \in ListType
  <2>1. q # << >> => 1 \in 1 .. Len(q) /\ Len(q) \in 1 .. Len(q)
    BY <1>3
  <2> QED BY <1>1, <1>2, <1>3, <2>1 DEF ListType
<1>5. SemTypeOK
  BY <1>4 DEF SemInit, SemTypeOK, ListType, EmptyList, Points
<1>6. Quiet /\ Placed
  BY DEF SemInit, Quiet, Placed
<1>7. \A t \in Thread : ~ Sleeping(t) /\ ~ Granted(t) /\ pc[t] = "user" /\ state[t] = "READY"
  BY DEF SemInit, Sleeping, Granted
<1>8. ListsAre(<< >>, q)
  <2>1. Represents(<< >>, waiters, next)
    BY DEF SemInit, Represents, EmptyList
  <2>2. Distinct(<< >>) /\ \A t \in Thread : ~ InList(<< >>, t)
    BY DEF Distinct, InList
  <2> QED BY <2>1, <2>2, <1>1, <1>7 DEF ListsAre
<1>9. << >> \in Seq(Thread)
  OBVIOUS
<1>10. Grants = {} /\ Ups = {}
  BY <1>7 DEF Grants, Ups
<1> QED BY <1>3, <1>5, <1>6, <1>8, <1>9, <1>10 DEF Calm

(* A step that moves no thread between the lists and leaves the links.     *)
LEMMA SameLists ==
  ASSUME NEW w \in Seq(Thread), Calm(w), UNCHANGED <<waiters, next, ready, state>>,
         SemTypeOK', Quiet', Placed',
         \A t \in Thread : Sleeping(t)' <=> Sleeping(t)
  PROVE  Calm(w)'
<1>1. PICK r \in Seq(Thread) : ListsAre(w, r)
  BY DEF Calm
<1>2. ListsAre(w, r)'
  BY <1>1 DEF ListsAre, Distinct, Represents, InList
<1> QED BY <1>2 DEF Calm

(* The sets of Flow, from their members.                                   *)
LEMMA SameSets ==
  ASSUME \A u \in Thread : Granted(u)' <=> Granted(u),
         \A u \in Thread : pc'[u] \in {"up", "inc"} <=> pc[u] \in {"up", "inc"}
  PROVE  Grants' = Grants /\ Ups' = Ups
  BY DEF Grants, Ups

(* The second half of perform(): the queue q that holds the threads ready  *)
(* in st loses its first one, who runs; the waiting list stays as it is.   *)
LEMMA TakeNextLinks ==
  ASSUME Null \notin Thread,
         NEW w \in Seq(Thread), NEW r \in Seq(Thread),
         NEW q, NEW nx \in [Thread -> Thread \cup {Null}],
         NEW st \in [Thread -> {"RUNNING", "READY", "BLOCKED"}],
         newState \in [Thread -> {"READY", "BLOCKED"}], q \in ListType,
         Distinct(r), Represents(r, q, nx), Represents(w, waiters, nx),
         \A t \in Thread : InList(r, t) <=> st[t] = "READY",
         TakeNext(q, nx, st)
  PROVE  /\ next' \in [Thread -> Thread \cup {Null}]
         /\ ready' \in ListType
         /\ state' \in [Thread -> {"RUNNING", "READY", "BLOCKED"}]
         /\ newState' \in [Thread -> {"READY", "BLOCKED"}]
         /\ \A t \in Thread :
              \/ state'[t] = st[t] /\ newState'[t] = newState[t]
              \/ st[t] = "READY" /\ state'[t] = "RUNNING" /\ newState'[t] = "READY"
         /\ \E s \in Seq(Thread) :
              /\ Distinct(s)
              /\ Represents(s, ready', next')
              /\ Represents(w, waiters, next')
              /\ \A t \in Thread : InList(s, t) <=> state'[t] = "READY"
<1>1. CASE q.head = Null
  <2>1. next' = nx /\ ready' = q /\ state' = st /\ newState' = newState
    BY <1>1 DEF TakeNext
  <2> QED BY <2>1
<1>2. CASE q.head # Null
  <2>1. /\ next' = nx /\ ready' = Popped(q, nx)
        /\ state' = [st EXCEPT ![q.head] = "RUNNING"]
        /\ newState' = [newState EXCEPT ![q.head] = "READY"]
    BY <1>2 DEF TakeNext
  <2>2. r # << >>
    BY <1>2 DEF Represents
  <2>3. q.head = Head(r) /\ Represents(Tail(r), Popped(q, nx), nx)
    BY <2>2, PopRepresents
  <2>4. /\ Tail(r) \in Seq(Thread) /\ Head(r) \in Thread /\ InList(r, Head(r))
        /\ Distinct(Tail(r))
        /\ \A x : InList(Tail(r), x) <=> InList(r, x) /\ x # Head(r)
    BY <2>2, TailMembers
  <2>5. st[q.head] = "READY" /\ q.head \in Thread
    BY <2>3, <2>4
  <2>6. \A t \in Thread : InList(Tail(r), t) <=> state'[t] = "READY"
    BY <2>1, <2>3, <2>4, <2>5
  <2>7. Popped(q, nx) \in ListType
    BY <2>5 DEF Popped, ListType
  <2> HIDE DEF ListType
  <2> QED BY <2>1, <2>3, <2>4, <2>5, <2>6, <2>7
<1> QED BY <1>1, <1>2

(* down() takes the spinlock.                                              *)
LEMMA LockDownGoes ==
  ASSUME NEW w \in Seq(Thread), Calm(w), NEW t \in Thread, Lock(t, "down", "dec")
  PROVE  SemGoes(w, t)
<1> USE SemAssumption
<1>0. SemTypeOK /\ Quiet /\ Placed
  BY DEF Calm
<1>1. SemTypeOK' /\ Quiet' /\ Placed'
  BY <1>0 DEF Quiet, Placed, Points, Runs, Goto, SemTypeOK,
              semVars, schedVars, sigVars, Lock
<1>2. UNCHANGED <<value, waiters, next, ready, state>>
  BY DEF semVars, schedVars, Lock
<1>3. \A u \in Thread : Sleeping(u)' <=> Sleeping(u)
  BY <1>0 DEF Quiet, Placed, Points, Runs, Goto, SemTypeOK,
              semVars, schedVars, sigVars, Lock, Sleeping
<1>4. \A u \in Thread : Granted(u)' <=> Granted(u)
  BY <1>0 DEF Quiet, Placed, Points, Runs, Goto, SemTypeOK,
              semVars, schedVars, sigVars, Lock, Granted
<1>5. \A u \in Thread : pc'[u] \in {"up", "inc"} <=> pc[u] \in {"up", "inc"}
  BY <1>0 DEF Quiet, Placed, Points, Runs, Goto, SemTypeOK,
              semVars, schedVars, sigVars, Lock
<1>6. PartsKept
  BY <1>0 DEF Quiet, Placed, Points, Runs, Goto, SemTypeOK,
              semVars, schedVars, sigVars, Lock, PartsKept
<1>7. Calm(w)'
  BY <1>1, <1>2, <1>3, SameLists
<1>8. Stays(w, w)
  BY <1>2, <1>4, <1>5, SameSets DEF Stays
<1> QED BY <1>6, <1>7, <1>8 DEF SemGoes, Flow

(* up() takes the spinlock.                                                *)
LEMMA LockUpGoes ==
  ASSUME NEW w \in Seq(Thread), Calm(w), NEW t \in Thread, Lock(t, "up", "inc")
  PROVE  SemGoes(w, t)
<1> USE SemAssumption
<1>0. SemTypeOK /\ Quiet /\ Placed
  BY DEF Calm
<1>1. SemTypeOK' /\ Quiet' /\ Placed'
  BY <1>0 DEF Quiet, Placed, Points, Runs, Goto, SemTypeOK,
              semVars, schedVars, sigVars, Lock
<1>2. UNCHANGED <<value, waiters, next, ready, state>>
  BY DEF semVars, schedVars, Lock
<1>3. \A u \in Thread : Sleeping(u)' <=> Sleeping(u)
  BY <1>0 DEF Quiet, Placed, Points, Runs, Goto, SemTypeOK,
              semVars, schedVars, sigVars, Lock, Sleeping
<1>4. \A u \in Thread : Granted(u)' <=> Granted(u)
  BY <1>0 DEF Quiet, Placed, Points, Runs, Goto, SemTypeOK,
              semVars, schedVars, sigVars, Lock, Granted
<1>5. \A u \in Thread : pc'[u] \in {"up", "inc"} <=> pc[u] \in {"up", "inc"}
  BY <1>0 DEF Quiet, Placed, Points, Runs, Goto, SemTypeOK,
              semVars, schedVars, sigVars, Lock
<1>6. PartsKept
  BY <1>0 DEF Quiet, Placed, Points, Runs, Goto, SemTypeOK,
              semVars, schedVars, sigVars, Lock, PartsKept
<1>7. Calm(w)'
  BY <1>1, <1>2, <1>3, SameLists
<1>8. Stays(w, w)
  BY <1>2, <1>4, <1>5, SameSets DEF Stays
<1> QED BY <1>6, <1>7, <1>8 DEF SemGoes, Flow

(* T_IGNSIGS is set in switchNoSigs.                                       *)
LEMMA BeginNoSigsGoes ==
  ASSUME NEW w \in Seq(Thread), Calm(w), NEW t \in Thread, BeginNoSigs(t)
  PROVE  SemGoes(w, t)
<1> USE SemAssumption
<1>0. SemTypeOK /\ Quiet /\ Placed
  BY DEF Calm
<1>1. SemTypeOK' /\ Quiet' /\ Placed'
  BY <1>0 DEF Quiet, Placed, Points, Runs, Goto, SemTypeOK,
              semVars, schedVars, sigVars, BeginNoSigs
<1>2. UNCHANGED <<value, waiters, next, ready, state>>
  BY DEF semVars, schedVars, BeginNoSigs
<1>3. \A u \in Thread : Sleeping(u)' <=> Sleeping(u)
  BY <1>0 DEF Quiet, Placed, Points, Runs, Goto, SemTypeOK,
              semVars, schedVars, sigVars, BeginNoSigs, Sleeping
<1>4. \A u \in Thread : Granted(u)' <=> Granted(u)
  BY <1>0 DEF Quiet, Placed, Points, Runs, Goto, SemTypeOK,
              semVars, schedVars, sigVars, BeginNoSigs, Granted
<1>5. \A u \in Thread : pc'[u] \in {"up", "inc"} <=> pc[u] \in {"up", "inc"}
  BY <1>0 DEF Quiet, Placed, Points, Runs, Goto, SemTypeOK,
              semVars, schedVars, sigVars, BeginNoSigs
<1>6. PartsKept
  BY <1>0 DEF Quiet, Placed, Points, Runs, Goto, SemTypeOK,
              semVars, schedVars, sigVars, BeginNoSigs, PartsKept
<1>7. Calm(w)'
  BY <1>1, <1>2, <1>3, SameLists
<1>8. Stays(w, w)
  BY <1>2, <1>4, <1>5, SameSets DEF Stays
<1> QED BY <1>6, <1>7, <1>8 DEF SemGoes, Flow

(* A thread comes back from the switch in down().                          *)
LEMMA ResumeGoes ==
  ASSUME NEW w \in Seq(Thread), Calm(w), NEW t \in Thread, Resume(t)
  PROVE  SemGoes(w, t)
<1> USE SemAssumption
<1>0. SemTypeOK /\ Quiet /\ Placed
  BY DEF Calm
<1>1. SemTypeOK' /\ Quiet' /\ Placed'
  BY <1>0 DEF Quiet, Placed, Points, Runs, Goto, SemTypeOK,
              semVars, schedVars, sigVars, Resume, HasSignal
<1>2. UNCHANGED <<value, waiters, next, ready, state>>
  BY DEF semVars, schedVars, Resume
<1>3. \A u \in Thread : Sleeping(u)' <=> Sleeping(u)
  BY <1>0 DEF Quiet, Placed, Points, Runs, Goto, SemTypeOK,
              semVars, schedVars, sigVars, Resume, HasSignal, Sleeping
<1>4. \A u \in Thread : Granted(u)' <=> Granted(u)
  BY <1>0 DEF Quiet, Placed, Points, Runs, Goto, SemTypeOK,
              semVars, schedVars, sigVars, Resume, HasSignal, Granted
<1>5. \A u \in Thread : pc'[u] \in {"up", "inc"} <=> pc[u] \in {"up", "inc"}
  BY <1>0 DEF Quiet, Placed, Points, Runs, Goto, SemTypeOK,
              semVars, schedVars, sigVars, Resume, HasSignal
<1>6. PartsKept
  BY <1>0 DEF Quiet, Placed, Points, Runs, Goto, SemTypeOK,
              semVars, schedVars, sigVars, Resume, HasSignal, PartsKept
<1>7. Calm(w)'
  BY <1>1, <1>2, <1>3, SameLists
<1>8. Stays(w, w)
  BY <1>2, <1>4, <1>5, SameSets DEF Stays
<1> QED BY <1>6, <1>7, <1>8 DEF SemGoes, Flow

(* down() has taken the spinlock again and returns.                        *)
LEMMA RelockGoes ==
  ASSUME NEW w \in Seq(Thread), Calm(w), NEW t \in Thread, Relock(t)
  PROVE  SemGoes(w, t)
<1> USE SemAssumption
<1>0. SemTypeOK /\ Quiet /\ Placed
  BY DEF Calm
<1>1. SemTypeOK' /\ Quiet' /\ Placed'
  BY <1>0 DEF Quiet, Placed, Points, Runs, Goto, SemTypeOK,
              semVars, schedVars, sigVars, Relock
<1>2. UNCHANGED <<value, waiters, next, ready, state>>
  BY DEF semVars, schedVars, Relock
<1>3. \A u \in Thread : Sleeping(u)' <=> Sleeping(u)
  BY <1>0 DEF Quiet, Placed, Points, Runs, Goto, SemTypeOK,
              semVars, schedVars, sigVars, Relock, Sleeping
<1>4. \A u \in Thread : Granted(u)' <=> Granted(u)
  BY <1>0 DEF Quiet, Placed, Points, Runs, Goto, SemTypeOK,
              semVars, schedVars, sigVars, Relock, Granted
<1>5. \A u \in Thread : pc'[u] \in {"up", "inc"} <=> pc[u] \in {"up", "inc"}
  BY <1>0 DEF Quiet, Placed, Points, Runs, Goto, SemTypeOK,
              semVars, schedVars, sigVars, Relock
<1>6. PartsKept
  BY <1>0 DEF Quiet, Placed, Points, Runs, Goto, SemTypeOK,
              semVars, schedVars, sigVars, Relock, PartsKept
<1>7. Calm(w)'
  BY <1>1, <1>2, <1>3, SameLists
<1>8. Stays(w, w)
  BY <1>2, <1>4, <1>5, SameSets DEF Stays
<1> QED BY <1>6, <1>7, <1>8 DEF SemGoes, Flow

(* A switch: the running thread t leaves its processor, or nobody does, in *)
(* which case st = state.                                                  *)
LEMMA PerformLinks ==
  ASSUME SemTypeOK, Placed, NEW t \in Thread, state[t] = "RUNNING", Perform(t),
         ~ HasSignal(t),
         NEW w \in Seq(Thread), NEW r \in Seq(Thread), ListsAre(w, r)
  PROVE  /\ next' \in [Thread -> Thread \cup {Null}]
         /\ ready' \in ListType
         /\ state' \in [Thread -> {"RUNNING", "READY", "BLOCKED"}]
         /\ newState' \in [Thread -> {"READY", "BLOCKED"}]
         /\ \A u \in Thread :
              LET old == IF u = t THEN newState[t] ELSE state[u]
              IN  \/ state'[u] = old /\ newState'[u] = newState[u]
                  \/ /\ old = "READY" /\ state'[u] = "RUNNING"
                     /\ newState'[u] = "READY"
         /\ \E s \in Seq(Thread) :
              /\ Distinct(s)
              /\ Represents(w, waiters, next') /\ Represents(s, ready', next')
              /\ \A u \in Thread : InList(s, u) <=> state'[u] = "READY"
<1> USE SemAssumption
<1>1. ListsAre(w, r)
  OBVIOUS
<1>2. /\ Distinct(w) /\ Distinct(r)
      /\ Represents(w, waiters, next) /\ Represents(r, ready, next)
      /\ \A u \in Thread : InList(w, u) <=> Sleeping(u)
      /\ \A u \in Thread : InList(r, u) <=> state[u] = "READY"
  BY <1>1 DEF ListsAre
<1>3. /\ next \in [Thread -> Thread \cup {Null}] /\ ready \in ListType
      /\ state \in [Thread -> {"RUNNING", "READY", "BLOCKED"}]
      /\ newState \in [Thread -> {"READY", "BLOCKED"}]
  BY DEF SemTypeOK
<1> DEFINE st == [state EXCEPT ![t] = newState[t]]
<1>4. st \in [Thread -> {"RUNNING", "READY", "BLOCKED"}]
  BY <1>3
<1>5. ~ HasSignal(t)
  OBVIOUS
<1>6. CASE newState[t] = "READY"
  <2> DEFINE q == Appended(ready, t)
             nx == AppendedLinks(ready, next, t)
             a == Append(r, t)
  <2>1. TakeNext(q, nx, st)
    BY <1>5, <1>6 DEF Perform
  <2>2. ~ InList(r, t) /\ ~ InList(w, t)
    <3>1. ~ Sleeping(t)
      BY <1>6 DEF Sleeping
    <3> QED BY <3>1, <1>2
  <2>3. /\ a \in Seq(Thread) /\ Distinct(a)
        /\ \A u : InList(a, u) <=> InList(r, u) \/ u = t
    BY <1>2, <2>2, AppendDistinct, AppendMembers
  <2>4. Represents(a, q, nx)
    BY <1>2, <1>3, <2>2, AppendRepresents
  <2>5. Represents(w, waiters, nx)
    <3>1. Apart(r, w)
      BY <1>1, ListsApart
    <3> QED BY <1>2, <1>3, <2>2, <3>1, AppendOther
  <2>6. nx \in [Thread -> Thread \cup {Null}] /\ q \in ListType
    <3>1. q \in ListType
      BY <1>3 DEF Appended, ListType
    <3> QED BY <3>1, <1>3, AppendedLinksAt
  <2>7. \A u \in Thread : InList(a, u) <=> st[u] = "READY"
    BY <1>2, <1>3, <1>6, <2>3
  <2> HIDE DEF q, nx, a, st
  <2>8. /\ next' \in [Thread -> Thread \cup {Null}]
        /\ ready' \in ListType
        /\ state' \in [Thread -> {"RUNNING", "READY", "BLOCKED"}]
        /\ newState' \in [Thread -> {"READY", "BLOCKED"}]
        /\ \A u \in Thread :
             \/ state'[u] = st[u] /\ newState'[u] = newState[u]
             \/ st[u] = "READY" /\ state'[u] = "RUNNING" /\ newState'[u] = "READY"
        /\ \E s \in Seq(Thread) :
             /\ Distinct(s)
             /\ Represents(s, ready', next')
             /\ Represents(w, waiters, next')
             /\ \A u \in Thread : InList(s, u) <=> state'[u] = "READY"
    BY <2>1, <2>3, <2>4, <2>5, <2>6, <2>7, <1>3, <1>4, TakeNextLinks
  <2>9. \A u \in Thread : st[u] = IF u = t THEN newState[t] ELSE state[u]
    BY <1>3 DEF st
  <2> QED BY <2>8, <2>9, <1>2
<1>7. CASE newState[t] = "BLOCKED"
  <2>1. TakeNext(ready, next, st)
    BY <1>5, <1>7 DEF Perform
  <2>2. \A u \in Thread : InList(r, u) <=> st[u] = "READY"
    BY <1>2, <1>3, <1>7
  <2> HIDE DEF st
  <2>3. /\ next' \in [Thread -> Thread \cup {Null}]
        /\ ready' \in ListType
        /\ state' \in [Thread -> {"RUNNING", "READY", "BLOCKED"}]
        /\ newState' \in [Thread -> {"READY", "BLOCKED"}]
        /\ \A u \in Thread :
             \/ state'[u] = st[u] /\ newState'[u] = newState[u]
             \/ st[u] = "READY" /\ state'[u] = "RUNNING" /\ newState'[u] = "READY"
        /\ \E s \in Seq(Thread) :
             /\ Distinct(s)
             /\ Represents(s, ready', next')
             /\ Represents(w, waiters, next')
             /\ \A u \in Thread : InList(s, u) <=> state'[u] = "READY"
    BY <2>1, <2>2, <1>2, <1>3, <1>4, TakeNextLinks
  <2>4. \A u \in Thread : st[u] = IF u = t THEN newState[t] ELSE state[u]
    BY <1>3 DEF st
  <2> QED BY <2>3, <2>4, <1>2
<1> QED BY <1>3, <1>6, <1>7

(* A waiter switches away.                                                 *)
LEMMA SwitchGoes ==
  ASSUME NEW w \in Seq(Thread), Calm(w), NEW t \in Thread, Switch(t)
  PROVE  SemGoes(w, t)
<1> USE SemAssumption
<1>0. SemTypeOK /\ Quiet /\ Placed
  BY DEF Calm
<1>1. PICK r0 \in Seq(Thread) : ListsAre(w, r0)
  BY DEF Calm
<1>2. /\ pc[t] = "switch" /\ state[t] = "RUNNING" /\ Perform(t)
      /\ pc' = [pc EXCEPT ![t] = "resume"]
      /\ UNCHANGED <<value, waiters, lck, ignSigs, sigmask, target>>
  BY DEF Switch, Runs, Goto, semVars, sigVars
<1>h. ~ HasSignal(t)
  BY <1>0, <1>2 DEF Quiet, HasSignal
<1>3. /\ next' \in [Thread -> Thread \cup {Null}]
      /\ ready' \in ListType
      /\ state' \in [Thread -> {"RUNNING", "READY", "BLOCKED"}]
      /\ newState' \in [Thread -> {"READY", "BLOCKED"}]
      /\ \A u \in Thread :
           LET old == IF u = t THEN newState[t] ELSE state[u]
           IN  \/ state'[u] = old /\ newState'[u] = newState[u]
               \/ old = "READY" /\ state'[u] = "RUNNING" /\ newState'[u] = "READY"
  BY <1>0, <1>1, <1>2, <1>h, PerformLinks
<1>4. PICK r \in Seq(Thread) :
        /\ Distinct(r)
        /\ Represents(w, waiters, next') /\ Represents(r, ready', next')
        /\ \A u \in Thread : InList(r, u) <=> state'[u] = "READY"
  BY <1>0, <1>1, <1>2, <1>h, PerformLinks
<1>5. SemTypeOK' /\ Quiet'
  BY <1>0, <1>2, <1>3 DEF SemTypeOK, Quiet, Points
<1>6. Placed'
  BY <1>0, <1>2, <1>3 DEF SemTypeOK, Placed
<1>7. \A u \in Thread : Sleeping(u)' <=> Sleeping(u)
  BY <1>0, <1>2, <1>3 DEF SemTypeOK, Placed, Sleeping
<1>8. \A u \in Thread : Granted(u)' <=> Granted(u)
  BY <1>0, <1>2, <1>3 DEF SemTypeOK, Placed, Granted
<1>9. \A u \in Thread : pc'[u] \in {"up", "inc"} <=> pc[u] \in {"up", "inc"}
  BY <1>0, <1>2 DEF SemTypeOK
<1>10. PartsKept
  BY <1>0, <1>2 DEF SemTypeOK, PartsKept
<1>11. ListsAre(w, r)'
  BY <1>1, <1>2, <1>4, <1>7 DEF ListsAre
<1>12. Stays(w, w)
  BY <1>2, <1>8, <1>9, SameSets DEF Stays
<1> QED BY <1>5, <1>6, <1>10, <1>11, <1>12 DEF SemGoes, Flow, Calm

(* A thread outside of the semaphore switches away.                        *)
LEMMA YieldGoes ==
  ASSUME NEW w \in Seq(Thread), Calm(w), NEW t \in Thread, Yield(t)
  PROVE  PartsKept /\ Calm(w)' /\ Stays(w, w)
<1> USE SemAssumption
<1>0. SemTypeOK /\ Quiet /\ Placed
  BY DEF Calm
<1>1. PICK r0 \in Seq(Thread) : ListsAre(w, r0)
  BY DEF Calm
<1>2. /\ pc[t] = "user" /\ state[t] = "RUNNING" /\ Perform(t)
      /\ UNCHANGED <<pc, value, waiters, lck, ignSigs, sigmask, target>>
  BY DEF Yield, Runs, semVars, sigVars
<1>h. ~ HasSignal(t)
  BY DEF Yield
<1>3. /\ next' \in [Thread -> Thread \cup {Null}]
      /\ ready' \in ListType
      /\ state' \in [Thread -> {"RUNNING", "READY", "BLOCKED"}]
      /\ newState' \in [Thread -> {"READY", "BLOCKED"}]
      /\ \A u \in Thread :
           LET old == IF u = t THEN newState[t] ELSE state[u]
           IN  \/ state'[u] = old /\ newState'[u] = newState[u]
               \/ old = "READY" /\ state'[u] = "RUNNING" /\ newState'[u] = "READY"
  BY <1>0, <1>1, <1>2, <1>h, PerformLinks
<1>4. PICK r \in Seq(Thread) :
        /\ Distinct(r)
        /\ Represents(w, waiters, next') /\ Represents(r, ready', next')
        /\ \A u \in Thread : InList(r, u) <=> state'[u] = "READY"
  BY <1>0, <1>1, <1>2, <1>h, PerformLinks
<1>5. SemTypeOK' /\ Quiet'
  BY <1>0, <1>2, <1>3 DEF SemTypeOK, Quiet, Points
<1>6. Placed'
  BY <1>0, <1>2, <1>3 DEF SemTypeOK, Placed
<1>7. \A u \in Thread : Sleeping(u)' <=> Sleeping(u)
  BY <1>0, <1>2, <1>3 DEF SemTypeOK, Placed, Sleeping
<1>8. \A u \in Thread : Granted(u)' <=> Granted(u)
  BY <1>0, <1>2, <1>3 DEF SemTypeOK, Placed, Granted
<1>9. \A u \in Thread : pc'[u] \in {"up", "inc"} <=> pc[u] \in {"up", "inc"}
  BY <1>2
<1>10. PartsKept
  BY <1>2 DEF PartsKept
<1>11. ListsAre(w, r)'
  BY <1>1, <1>2, <1>4, <1>7 DEF ListsAre
<1>12. Stays(w, w)
  BY <1>2, <1>8, <1>9, SameSets DEF Stays
<1> QED BY <1>5, <1>6, <1>10, <1>11, <1>12 DEF Calm

(* An idle processor takes a ready thread.                                 *)
LEMMA LeaveIdleGoes ==
  ASSUME NEW w \in Seq(Thread), Calm(w), LeaveIdle
  PROVE  PartsKept /\ Calm(w)' /\ Stays(w, w)
<1> USE SemAssumption
<1>0. SemTypeOK /\ Quiet /\ Placed
  BY DEF Calm
<1>1. PICK r0 \in Seq(Thread) : ListsAre(w, r0)
  BY DEF Calm
<1>2. /\ TakeNext(ready, next, state)
      /\ UNCHANGED <<pc, value, waiters, lck, ignSigs, sigmask, target>>
  BY DEF LeaveIdle, semVars, sigVars
<1>3. /\ next' \in [Thread -> Thread \cup {Null}]
      /\ ready' \in ListType
      /\ state' \in [Thread -> {"RUNNING", "READY", "BLOCKED"}]
      /\ newState' \in [Thread -> {"READY", "BLOCKED"}]
      /\ \A u \in Thread :
           \/ state'[u] = state[u] /\ newState'[u] = newState[u]
           \/ state[u] = "READY" /\ state'[u] = "RUNNING" /\ newState'[u] = "READY"
      /\ \E s \in Seq(Thread) :
           /\ Distinct(s)
           /\ Represents(s, ready', next')
           /\ Represents(w, waiters, next')
           /\ \A u \in Thread : InList(s, u) <=> state'[u] = "READY"
  BY <1>0, <1>1, <1>2, TakeNextLinks DEF SemTypeOK, ListsAre
<1>4. PICK r \in Seq(Thread) :
        /\ Distinct(r)
        /\ Represents(r, ready', next')
        /\ Represents(w, waiters, next')
        /\ \A u \in Thread : InList(r, u) <=> state'[u] = "READY"
  BY <1>3
<1>5. SemTypeOK' /\ Quiet'
  BY <1>0, <1>2, <1>3 DEF SemTypeOK, Quiet, Points
<1>6. Placed'
  BY <1>0, <1>2, <1>3 DEF SemTypeOK, Placed
<1>7. \A u \in Thread : Sleeping(u)' <=> Sleeping(u)
  BY <1>0, <1>2, <1>3 DEF SemTypeOK, Placed, Sleeping
<1>8. \A u \in Thread : Granted(u)' <=> Granted(u)
  BY <1>0, <1>2, <1>3 DEF SemTypeOK, Placed, Granted
<1>9. \A u \in Thread : pc'[u] \in {"up", "inc"} <=> pc[u] \in {"up", "inc"}
  BY <1>2
<1>10. PartsKept
  BY <1>2 DEF PartsKept
<1>11. ListsAre(w, r)'
  BY <1>1, <1>2, <1>4, <1>7 DEF ListsAre
<1>12. Stays(w, w)
  BY <1>2, <1>8, <1>9, SameSets DEF Stays
<1> QED BY <1>5, <1>6, <1>10, <1>11, <1>12 DEF Calm

(* down(): the thread takes a permit or joins the waiting list.            *)
LEMMA DecGoes ==
  ASSUME NEW w \in Seq(Thread), Calm(w), NEW t \in Thread, Dec(t)
  PROVE  SemGoes(w, t)
<1> USE SemAssumption
<1>0. SemTypeOK /\ Quiet /\ Placed
  BY DEF Calm
<1>1. PICK r \in Seq(Thread) : ListsAre(w, r)
  BY DEF Calm
<1>2. /\ pc[t] = "dec" /\ state[t] = "RUNNING"
      /\ value \in Int /\ ~ Granted(t) /\ ~ Sleeping(t)
  BY <1>0 DEF SemTypeOK, Dec, Runs, Granted, Sleeping
<1>3. CASE MustWait(value - 1)
  <2>1. /\ value' = value - 1 /\ lck' = Null
        /\ waiters' = Appended(waiters, t)
        /\ next' = AppendedLinks(waiters, next, t)
        /\ newState' = [newState EXCEPT ![t] = "BLOCKED"]
        /\ pc' = [pc EXCEPT ![t] = IF AllowSigs THEN "switch" ELSE "nosigs"]
        /\ UNCHANGED <<ready, state, ignSigs, sigmask, target>>
    BY <1>3 DEF Dec, Goto, sigVars
  <2>p. PICK p \in {"switch", "nosigs"} : pc' = [pc EXCEPT ![t] = p]
    BY <2>1
  <2>2. next' \in [Thread -> Thread \cup {Null}]
    <3>1. next \in [Thread -> Thread \cup {Null}]
      BY <1>0 DEF SemTypeOK
    <3> QED BY <2>1, <3>1, AppendedLinksAt
  <2>3. waiters' \in ListType
    BY <1>0, <2>1 DEF SemTypeOK, ListType, Appended
  <2>4. SemTypeOK'
    <3>1. value' \in Int /\ lck' \in Thread \cup {Null}
      BY <2>1, <1>2
    <3>2. /\ pc' \in [Thread -> Points]
          /\ newState' \in [Thread -> {"READY", "BLOCKED"}]
      BY <1>0, <2>1, <2>p DEF SemTypeOK, Points
    <3>3. UNCHANGED <<ready, state, ignSigs, sigmask, target>>
      BY <2>1
    <3> QED BY <1>0, <3>1, <3>2, <3>3, <2>2, <2>3 DEF SemTypeOK
  <2>5. Quiet' /\ Placed'
    <3>1. Quiet'
      BY <1>0, <2>1, <2>p, <1>2 DEF SemTypeOK, Quiet
    <3>2. Placed'
      BY <1>0, <2>1, <2>p, <1>2 DEF SemTypeOK, Placed
    <3> QED BY <3>1, <3>2
  <2>6. \A u \in Thread : Sleeping(u)' <=> Sleeping(u) \/ u = t
    BY <1>0, <2>1, <2>p, <1>2 DEF Sleeping, SemTypeOK
  <2>7. \A u \in Thread : Granted(u)' <=> Granted(u)
    BY <1>0, <2>1, <2>p, <1>2 DEF Granted, SemTypeOK
  <2>8. \A u \in Thread : pc'[u] \in {"up", "inc"} <=> pc[u] \in {"up", "inc"}
    BY <1>0, <1>2, <2>p DEF SemTypeOK
  <2>9. PartsKept
    BY <1>0, <1>2, <2>p DEF SemTypeOK, PartsKept
  <2>10. ~ InList(w, t) /\ ~ InList(r, t)
    BY <1>1, <1>2 DEF ListsAre
  <2>11. /\ Append(w, t) \in Seq(Thread) /\ Distinct(Append(w, t))
         /\ \A u : InList(Append(w, t), u) <=> InList(w, u) \/ u = t
    BY <1>1, <2>10, AppendDistinct, AppendMembers DEF ListsAre
  <2>12. Represents(Append(w, t), waiters', next')
    BY <1>0, <1>1, <2>1, <2>10, AppendRepresents DEF ListsAre, SemTypeOK
  <2>13. Represents(r, ready', next')
    <3>1. Apart(w, r)
      BY <1>0, <1>1, ListsApart
    <3>2. Represents(r, ready, AppendedLinks(waiters, next, t))
      BY <1>0, <1>1, <2>10, <3>1, AppendOther DEF ListsAre, SemTypeOK
    <3> QED BY <3>2, <2>1
  <2>14. \A u \in Thread : InList(r, u) <=> state'[u] = "READY"
    BY <1>1, <2>1 DEF ListsAre
  <2>15. \A u \in Thread : InList(Append(w, t), u) <=> Sleeping(u)'
    BY <1>1, <2>6, <2>11 DEF ListsAre
  <2>16. Calm(Append(w, t))'
    <3>1. ListsAre(Append(w, t), r)'
      BY <1>1, <2>11, <2>12, <2>13, <2>14, <2>15 DEF ListsAre
    <3> QED BY <3>1, <2>4, <2>5 DEF Calm
  <2>17. Waits(w, Append(w, t), t)
    BY <1>3, <2>1, <2>7, <2>8, SameSets DEF Waits
  <2> QED BY <2>9, <2>11, <2>16, <2>17 DEF SemGoes, Flow
<1>4. CASE ~ MustWait(value - 1)
  <2>1. /\ value' = value - 1 /\ lck' = Null
        /\ pc' = [pc EXCEPT ![t] = "acquired"]
        /\ UNCHANGED <<waiters, next, newState, ready, state, ignSigs, sigmask,
                       target>>
    BY <1>4 DEF Dec, Goto, sigVars
  <2>2. SemTypeOK' /\ Quiet' /\ Placed'
    BY <1>0, <2>1, <1>2 DEF SemTypeOK, Quiet, Placed, Points
  <2>3. \A u \in Thread : Sleeping(u)' <=> Sleeping(u)
    BY <1>0, <2>1, <1>2 DEF Sleeping, SemTypeOK
  <2>4. \A u \in Thread : Granted(u)' <=> Granted(u) \/ u = t
    BY <1>0, <2>1, <1>2 DEF Granted, SemTypeOK
  <2>5. \A u \in Thread : pc'[u] \in {"up", "inc"} <=> pc[u] \in {"up", "inc"}
    BY <1>0, <1>2, <2>1 DEF SemTypeOK
  <2>6. PartsKept
    BY <1>0, <1>2, <2>1 DEF SemTypeOK, PartsKept
  <2>7. Calm(w)'
    BY <2>1, <2>2, <2>3, SameLists
  <2>8. Takes(w, w, t)
    <3>1. Ups' = Ups
      BY <2>5 DEF Ups
    <3>2. t \notin Grants /\ Grants' = Grants \cup {t}
      BY <1>2, <2>4 DEF Grants
    <3> QED BY <1>4, <2>1, <3>1, <3>2 DEF Takes
  <2> QED BY <2>6, <2>7, <2>8 DEF SemGoes, Flow
<1> QED BY <1>3, <1>4

(* up(): the permit goes to the first waiter, or becomes free.             *)
LEMMA IncGoes ==
  ASSUME NEW w \in Seq(Thread), Calm(w), NEW t \in Thread, Inc(t)
  PROVE  SemGoes(w, t)
<1> USE SemAssumption
<1>0. SemTypeOK /\ Quiet /\ Placed
  BY DEF Calm
<1>1. PICK r \in Seq(Thread) : ListsAre(w, r)
  BY DEF Calm
<1>2. /\ pc[t] = "inc" /\ state[t] = "RUNNING" /\ value \in Int
      /\ ~ Sleeping(t) /\ ~ Granted(t)
  BY <1>0 DEF SemTypeOK, Inc, Runs, Sleeping, Granted
<1>3. waiters.len = Len(w) /\ (waiters.len = 0 <=> w = << >>)
  BY <1>1 DEF ListsAre, Represents
<1>4. /\ value' = value + 1 /\ lck' = Null /\ pc' = [pc EXCEPT ![t] = "done"]
      /\ UNCHANGED <<ignSigs, sigmask, target>>
  BY DEF Inc, BaseUp, Goto, sigVars
<1>5. PartsKept
  BY <1>0, <1>2, <1>4 DEF SemTypeOK, PartsKept
<1>6. t \in Ups /\ Ups' = Ups \ {t}
  BY <1>0, <1>2, <1>4 DEF SemTypeOK, Ups
<1>7. CASE w = << >>
  <2>1. UNCHANGED <<waiters, next, ready, state, newState>>
    BY <1>3, <1>7 DEF Inc, BaseUp, schedVars
  <2>2. SemTypeOK' /\ Quiet' /\ Placed'
    BY <1>0, <2>1, <1>2, <1>4 DEF SemTypeOK, Quiet, Placed, Points
  <2>3. \A u \in Thread : Sleeping(u)' <=> Sleeping(u)
    BY <1>0, <2>1, <1>2, <1>4 DEF Sleeping, SemTypeOK
  <2>4. \A u \in Thread : Granted(u)' <=> Granted(u)
    BY <1>0, <2>1, <1>2, <1>4 DEF Granted, SemTypeOK
  <2>5. Calm(w)'
    BY <2>1, <2>2, <2>3, SameLists
  <2>6. Frees(w, w, t)
    <3>1. Grants' = Grants
      BY <2>4 DEF Grants
    <3> QED BY <1>4, <1>6, <1>7, <3>1 DEF Frees
  <2> QED BY <1>5, <2>5, <2>6 DEF SemGoes, Flow
<1>8. CASE w # << >>
  <2>0. /\ waiters.head = Head(w) /\ Head(w) \in Thread
        /\ Represents(Tail(w), RemovedAt(waiters, next, Null, waiters.head), next)
    BY <1>0, <1>1, <1>8, PopRepresents, TailMembers DEF ListsAre, SemTypeOK
  <2>h. PICK h \in Thread : h = waiters.head
    BY <2>0
  <2>1. /\ h = Head(w)
        /\ Represents(Tail(w), RemovedAt(waiters, next, Null, h), next)
    BY <2>0, <2>h
  <2>2. /\ Tail(w) \in Seq(Thread) /\ h \in Thread /\ InList(w, h)
        /\ Distinct(Tail(w))
        /\ \A x : InList(Tail(w), x) <=> InList(w, x) /\ x # h
    BY <1>1, <1>8, <2>1, TailMembers DEF ListsAre
  <2>3. h # Null /\ Sleeping(h) /\ h # t
    BY <2>2, <1>1, <1>2 DEF ListsAre
  <2>4. waiters' = RemovedAt(waiters, next, Null, h) /\ SetReady(h)
    BY <2>3, <2>h, <1>3, <1>8 DEF Inc, BaseUp
  <2>5. waiters' \in ListType
    BY <1>0, <2>2, <2>4 DEF SemTypeOK, ListType, RemovedAt
  <2>6. ~ Granted(h)
    BY <1>0, <2>3 DEF Sleeping, Granted
  <2>7. ASSUME state[h] = "RUNNING"
        PROVE  Calm(Tail(w))' /\ \A u \in Thread : Granted(u)' <=> Granted(u) \/ u = h
    <3>1. /\ newState' = [newState EXCEPT ![h] = "READY"]
          /\ UNCHANGED <<next, ready, state>>
      BY <2>4, <2>7 DEF SetReady
    <3>2. pc[h] \in {"nosigs", "switch"}
      BY <2>3, <2>7 DEF Sleeping
    <3>3. SemTypeOK' /\ Quiet' /\ Placed'
      BY <1>0, <3>1, <2>5, <1>2, <1>4, <2>2
      DEF SemTypeOK, Quiet, Placed, Points
    <3>4. \A u \in Thread : Sleeping(u)' <=> Sleeping(u) /\ u # h
      BY <1>0, <3>1, <3>2, <1>2, <1>4, <2>2 DEF Sleeping, SemTypeOK
    <3>5. \A u \in Thread : Granted(u)' <=> Granted(u) \/ u = h
      BY <1>0, <3>1, <3>2, <1>2, <1>4, <2>2, <2>3 DEF Granted, SemTypeOK
    <3>6. ListsAre(Tail(w), r)'
      <4>1. /\ Represents(Tail(w), waiters', next') /\ Represents(r, ready', next')
            /\ \A u \in Thread : InList(r, u) <=> state'[u] = "READY"
        BY <3>1, <2>1, <2>4, <1>1 DEF ListsAre
      <4>2. \A u \in Thread : InList(Tail(w), u) <=> Sleeping(u)'
        BY <3>4, <2>2, <1>1 DEF ListsAre
      <4> QED BY <4>1, <4>2, <2>2, <1>1 DEF ListsAre
    <3>7. Calm(Tail(w))'
      BY <3>3, <3>6 DEF Calm
    <3> QED BY <3>5, <3>7
  <2>8. ASSUME state[h] = "BLOCKED"
        PROVE  Calm(Tail(w))' /\ \A u \in Thread : Granted(u)' <=> Granted(u) \/ u = h
    <3>1. /\ state' = [state EXCEPT ![h] = "READY"]
          /\ ready' = Appended(ready, h)
          /\ next' = AppendedLinks(ready, next, h)
          /\ UNCHANGED newState
      BY <2>4, <2>8 DEF SetReady
    <3>2. pc[h] = "resume"
      BY <1>0, <2>2, <2>8 DEF Placed
    <3>3. next' \in [Thread -> Thread \cup {Null}] /\ ready' \in ListType
      <4>1. next \in [Thread -> Thread \cup {Null}] /\ ready \in ListType
        BY <1>0 DEF SemTypeOK
      <4>2. ready' \in ListType
        BY <4>1, <3>1, <2>2 DEF ListType, Appended
      <4> QED BY <4>1, <4>2, <3>1, <2>2, AppendedLinksAt
    <3>4. SemTypeOK' /\ Quiet' /\ Placed'
      BY <1>0, <3>1, <3>2, <3>3, <2>5, <1>2, <1>4, <2>2
      DEF SemTypeOK, Quiet, Placed, Points
    <3>5. \A u \in Thread : Sleeping(u)' <=> Sleeping(u) /\ u # h
      BY <1>0, <3>1, <3>2, <1>2, <1>4, <2>2 DEF Sleeping, SemTypeOK
    <3>6. \A u \in Thread : Granted(u)' <=> Granted(u) \/ u = h
      BY <1>0, <3>1, <3>2, <1>2, <1>4, <2>2, <2>3 DEF Granted, SemTypeOK
    <3>7. ~ InList(r, h) /\ ~ InList(Tail(w), h)
      BY <2>2, <2>8, <1>1 DEF ListsAre
    <3>8. /\ Append(r, h) \in Seq(Thread) /\ Distinct(Append(r, h))
          /\ \A u : InList(Append(r, h), u) <=> InList(r, u) \/ u = h
      BY <1>1, <2>2, <3>7, AppendDistinct, AppendMembers DEF ListsAre
    <3>9. Represents(Append(r, h), ready', next')
      BY <1>0, <1>1, <2>2, <3>1, <3>7, AppendRepresents DEF ListsAre, SemTypeOK
    <3>10. Represents(Tail(w), waiters', next')
      <4>1. Apart(r, Tail(w))
        <5>1. Apart(r, w)
          BY <1>0, <1>1, ListsApart
        <5>2. \A j \in 1 .. Len(Tail(w)) :
                j + 1 \in 1 .. Len(w) /\ Tail(w)[j] = w[j + 1]
          BY <1>8
        <5> QED BY <5>1, <5>2 DEF Apart
      <4>2. Represents(Tail(w), waiters', next)
        BY <2>1, <2>4
      <4>3. next \in [Thread -> Thread \cup {Null}] /\ Represents(r, ready, next)
        BY <1>0, <1>1 DEF ListsAre, SemTypeOK
      <4>4. Represents(Tail(w), waiters', AppendedLinks(ready, next, h))
        BY <4>1, <4>2, <4>3, <3>7, <2>2, AppendOther
      <4> QED BY <4>4, <3>1
    <3>11. ListsAre(Tail(w), Append(r, h))'
      <4>1. \A u \in Thread : InList(Tail(w), u) <=> Sleeping(u)'
        BY <3>5, <2>2, <1>1 DEF ListsAre
      <4>2. \A u \in Thread : InList(Append(r, h), u) <=> state'[u] = "READY"
        BY <1>0, <3>1, <3>8, <2>2, <1>1 DEF ListsAre, SemTypeOK
      <4> QED BY <4>1, <4>2, <3>8, <3>9, <3>10, <2>2 DEF ListsAre
    <3>12. Calm(Tail(w))'
      BY <3>4, <3>8, <3>11 DEF Calm
    <3> QED BY <3>6, <3>12
  <2>9. Calm(Tail(w))' /\ \A u \in Thread : Granted(u)' <=> Granted(u) \/ u = h
    BY <1>0, <2>2, <2>3, <2>7, <2>8 DEF SemTypeOK, Placed, Sleeping
  <2>10. Hands(w, Tail(w), t)
    <3>1. h \in Thread \ Grants /\ Grants' = Grants \cup {h}
      BY <2>6, <2>9 DEF Grants
    <3> QED BY <1>4, <1>6, <1>8, <2>1, <3>1 DEF Hands
  <2> QED BY <1>5, <2>2, <2>9, <2>10 DEF SemGoes, Flow
<1> QED BY <1>7, <1>8

(* Every step inside of down() and up().                                   *)
LEMMA SemStepGoes ==
  ASSUME NEW w \in Seq(Thread), Calm(w), NEW t \in Thread, SemStep(t),
         pc[t] # "signal"
  PROVE  SemGoes(w, t)
<1>1. pc[t] \notin {"signal", "intr", "giveback"}
  BY DEF Calm, Quiet
<1>2. ~ SignalUnblock(t) /\ ~ LeaveWaiters(t) /\ ~ GiveBack(t)
  BY <1>1 DEF SignalUnblock, LeaveWaiters, GiveBack, Runs
<1> QED BY <1>2, LockDownGoes, DecGoes, BeginNoSigsGoes, SwitchGoes, ResumeGoes,
           RelockGoes, LockUpGoes, IncGoes DEF SemStep

-----------------------------------------------------------------------------
(* The mutex, if nobody is signalled or if there is one processor: with    *)
(* signals and more than one processor the assertion in Mutex::down fails  *)
(* (README, section 4).                                                    *)

(* The holder is outside of the semaphore, and counted.                    *)
Held ==
  /\ \A t \in Thread : holder = t => pc[t] \in {"user", "signal"}
  /\ holder = Null <=> depth = 0

(* The mutex belongs to o, or to nobody if o is Null.                      *)
OwnerIs(o) ==
  /\ \A t \in Thread : Owns(t) <=> t = o
  /\ value = (IF o = Null THEN 1 ELSE 0) - waiters.len
  /\ o = Null => waiters.len = 0

(* It belongs to o, and w waits for it.                                    *)
MutexIs(w, o) == TypeOK /\ Calm(w) /\ Held /\ OwnerIs(o)

(* What makes signals harmless: on one processor nobody else runs while a  *)
(* thread sends one, so that nobody is between Sched::block and T_IGNSIGS. *)
Harmless == Signallable = {} \/ NCPU = 1

Running == {t \in Thread : state[t] = "RUNNING"}

Shielded ==
  /\ IsMutex /\ Harmless
  /\ \A t \in Thread : pc[t] = "signal" => target[t] \in Signallable \ {t}
  /\ NCPU = 1 => \A t, u \in Running : t = u

(* The inductive invariant.                                                *)
MutexInv ==
  /\ Shielded
  /\ \E w \in Seq(Thread), o \in Thread \cup {Null} : MutexIs(w, o)

(* What a step does to the lock: nothing, or a step of FifoLock.           *)
LockGoes(w, o, v, p) ==
  \/ p = o /\ v = w
  \/ o = Null /\ p # Null /\ v = w
  \/ o # Null /\ p = o /\ \E t \in Thread : v = Append(w, t)
  \/ o # Null /\ w = << >> /\ p = Null /\ v = w
  \/ o # Null /\ w # << >> /\ p = Head(w) /\ v = Tail(w)

LockStep(w, o) ==
  \E v \in Seq(Thread), p \in Thread \cup {Null} :
    MutexIs(v, p)' /\ LockGoes(w, o, v, p)

(* Initially the mutex is free.                                            *)
LEMMA MutexInit ==
  ASSUME Init
  PROVE  MutexIs(<< >>, Null) /\ << >> \in Seq(Thread)
<1> USE SemAssumption, MutexAssumption
<1>1. Calm(<< >>) /\ << >> \in Seq(Thread) /\ Grants = {} /\ Ups = {}
  BY CalmInit DEF Init
<1>2. TypeOK
  BY <1>1 DEF Init, TypeOK, Calm
<1>3. Held
  BY DEF Init, SemInit, Held
<1>4. OwnerIs(Null)
  <2>1. \A t \in Thread : ~ Owns(t)
    BY DEF Init, SemInit, Owns
  <2> QED BY <2>1 DEF OwnerIs, Init, IsMutex, SemInit, EmptyList
<1> QED BY <1>1, <1>2, <1>3, <1>4 DEF MutexIs

(* The mutex belongs to those who are in down() or up() with its permit,   *)
(* and to the holder, and these are different threads.                     *)
LEMMA OwnsIs ==
  /\ \A t \in Thread : Owns(t) <=> t \in Grants \/ t \in Ups \/ holder = t
  /\ (\A t \in Thread : Owns(t) <=> t \in Grants \/ t \in Ups \/ holder = t)'
  /\ \A t \in Thread : t \in Ups => t \notin Grants /\ pc[t] \notin {"user", "signal"}
  /\ \A t \in Thread : t \in Grants => pc[t] \notin {"user", "signal"}
<1>1. \A t \in Thread : Owns(t) <=> t \in Grants \/ t \in Ups \/ holder = t
  BY DEF Owns, Granted, Grants, Ups
<1>2. (\A t \in Thread : Owns(t) <=> t \in Grants \/ t \in Ups \/ holder = t)'
  BY DEF Owns, Granted, Grants, Ups
<1>3. /\ \A t \in Thread : t \in Ups => t \notin Grants /\ pc[t] \notin {"user", "signal"}
      /\ \A t \in Thread : t \in Grants => pc[t] \notin {"user", "signal"}
  BY DEF Granted, Grants, Ups
<1> QED BY <1>1, <1>2, <1>3

(* The steps inside of Semaphore::down and Semaphore::up.                  *)
LEMMA SemStepLock ==
  ASSUME NEW w \in Seq(Thread), NEW o \in Thread \cup {Null}, MutexIs(w, o),
         NEW t \in Thread, SemStep(t), pc[t] # "signal", UNCHANGED mutexVars
  PROVE  LockStep(w, o)
<1> USE SemAssumption
<1>1. TypeOK /\ Calm(w) /\ Held /\ OwnerIs(o)
  BY DEF MutexIs
<1>2. PICK v \in Seq(Thread) : Calm(v)' /\ Flow(w, v, t)
  BY <1>1, SemStepGoes DEF SemGoes
<1>3. holder' = holder /\ depth' = depth
  BY DEF mutexVars
<1>4. TypeOK' /\ Held'
  <2>1. PartsKept
    BY <1>1, SemStepGoes DEF SemGoes
  <2>2. TypeOK'
    BY <1>1, <1>2, <1>3 DEF TypeOK, Calm
  <2>3. Held'
    BY <1>1, <1>3, <2>1 DEF Held, PartsKept
  <2> QED BY <2>2, <2>3
<1>5. waiters.len = Len(w) /\ Len(w) \in Nat /\ value \in Int
  BY <1>1, CalmLen
<1>6. waiters'.len = Len(v) /\ Len(v) \in Nat
  BY <1>2 DEF Calm, ListsAre, Represents
<1>7. /\ \A u \in Thread : u = o <=> u \in Grants \/ u \in Ups \/ holder = u
      /\ \A u \in Thread : Owns(u)' <=> u \in Grants' \/ u \in Ups' \/ holder' = u
      /\ \A u \in Thread : u \in Ups => u \notin Grants /\ holder # u
      /\ value = (IF o = Null THEN 1 ELSE 0) - Len(w)
      /\ o = Null => Len(w) = 0
  BY <1>1, <1>5, OwnsIs DEF OwnerIs, Held
<1>8. ASSUME NEW p \in Thread \cup {Null}, OwnerIs(p)', LockGoes(w, o, v, p)
      PROVE  LockStep(w, o)
  BY <1>8, <1>2, <1>4 DEF LockStep, MutexIs
<1>9. CASE Stays(w, v)
  <2>1. OwnerIs(o)'
    BY <1>3, <1>6, <1>7, <1>9 DEF Stays, OwnerIs
  <2>2. LockGoes(w, o, v, o)
    BY <1>9 DEF Stays, LockGoes
  <2> QED BY <2>1, <2>2, <1>8
<1>10. CASE Waits(w, v, t)
  <2>1. o # Null
    BY <1>5, <1>7, <1>10 DEF Waits, MustWait
  <2>2. Len(v) = Len(w) + 1
    BY <1>10 DEF Waits
  <2>3. OwnerIs(o)'
    BY <1>3, <1>5, <1>6, <1>7, <1>10, <2>1, <2>2 DEF Waits, OwnerIs
  <2>4. LockGoes(w, o, v, o)
    BY <1>10, <2>1 DEF Waits, LockGoes
  <2> QED BY <2>3, <2>4, <1>8
<1>11. CASE Takes(w, v, t)
  <2>1. o = Null /\ Len(w) = 0 /\ value = 1 /\ v = w
    BY <1>5, <1>7, <1>11 DEF Takes, MustWait
  <2>2. \A u \in Thread : Owns(u)' <=> u = t
    BY <1>3, <1>7, <1>11, <2>1 DEF Takes
  <2>3. OwnerIs(t)'
    BY <1>6, <1>11, <2>1, <2>2 DEF Takes, OwnerIs
  <2>4. LockGoes(w, o, v, t)
    BY <2>1 DEF LockGoes
  <2> QED BY <2>3, <2>4, <1>8
<1>12. CASE Frees(w, v, t)
  <2>1. o = t /\ Len(w) = 0 /\ v = w /\ w = << >> /\ o # Null
    BY <1>7, <1>12 DEF Frees
  <2>2. \A u \in Thread : ~ Owns(u)'
    BY <1>3, <1>7, <1>12, <2>1 DEF Frees
  <2>3. OwnerIs(Null)'
    BY <1>5, <1>6, <1>7, <1>12, <2>1, <2>2 DEF Frees, OwnerIs
  <2>4. LockGoes(w, o, v, Null)
    BY <2>1 DEF LockGoes
  <2> QED BY <2>3, <2>4, <1>8
<1>13. CASE Hands(w, v, t)
  <2>1. PICK h \in Thread : h = Head(w)
    BY <1>13 DEF Hands
  <2>2. /\ o = t /\ w # << >> /\ v = Tail(w) /\ o # Null
        /\ value' = value + 1 /\ Grants' = Grants \cup {h} /\ Ups' = Ups \ {t}
    BY <1>7, <1>13, <2>1 DEF Hands
  <2>3. Len(v) = Len(w) - 1
    BY <2>2
  <2>4. \A u \in Thread : Owns(u)' <=> u = h
    <3>1. \A u \in Thread : Owns(u)' <=> u \in Grants \/ u = h \/ (u \in Ups /\ u # t) \/ holder = u
      BY <1>3, <1>7, <2>2
    <3>2. \A u \in Thread : u \in Grants \/ (u \in Ups /\ u # t) \/ holder = u => u = t /\ u # t
      <4>1. t \notin Grants /\ holder # t
        BY <1>7, <1>13 DEF Hands
      <4> QED BY <1>7, <2>2, <4>1
    <3> QED BY <3>1, <3>2
  <2>5. OwnerIs(h)'
    BY <1>5, <1>6, <1>7, <2>2, <2>3, <2>4 DEF OwnerIs
  <2>6. LockGoes(w, o, v, h)
    BY <2>1, <2>2 DEF LockGoes
  <2> QED BY <2>5, <2>6, <1>8
<1> QED BY <1>2, <1>9, <1>10, <1>11, <1>12, <1>13 DEF Flow

(* The scheduler switches between threads outside of the semaphore.        *)
LEMMA SwitchLock ==
  ASSUME NEW w \in Seq(Thread), NEW o \in Thread \cup {Null}, MutexIs(w, o),
         PartsKept, Calm(w)', Stays(w, w), UNCHANGED mutexVars
  PROVE  LockStep(w, o)
<1>1. TypeOK /\ Calm(w) /\ Held /\ OwnerIs(o)
  BY DEF MutexIs
<1>2. holder' = holder /\ depth' = depth
  BY DEF mutexVars
<1>3. TypeOK'
  BY <1>1, <1>2 DEF TypeOK, Calm
<1>4. Held'
  BY <1>1, <1>2 DEF Held, PartsKept
<1>5. waiters.len = Len(w) /\ waiters'.len = Len(w)
  BY <1>1 DEF Calm, ListsAre, Represents
<1>6. OwnerIs(o)'
  <2>1. \A u \in Thread : Owns(u)' <=> Owns(u)
    BY <1>2, OwnsIs DEF Stays
  <2> QED BY <2>1, <1>1, <1>5 DEF OwnerIs, Stays
<1>7. LockGoes(w, o, w, o)
  BY DEF LockGoes
<1> QED BY <1>3, <1>4, <1>6, <1>7 DEF LockStep, MutexIs

(* Then what Mutex adds.                                                   *)

(* down() and tryDown() of the holder.                                     *)
LEMMA DownAgainLock ==
  ASSUME NEW w \in Seq(Thread), NEW o \in Thread \cup {Null}, MutexIs(w, o),
         NEW t \in Thread, DownAgain(t)
  PROVE  LockStep(w, o)
<1> USE SemAssumption, MutexAssumption
<1>0. TypeOK /\ SemTypeOK /\ Quiet /\ Placed /\ Held /\ OwnerIs(o) /\ Calm(w)
  BY DEF MutexIs, Calm
<1>1. TypeOK' /\ Quiet' /\ Placed' /\ Held'
  BY <1>0
  DEF TypeOK, SemTypeOK, Quiet, Placed, Held, Points, Runs, Goto,
       semVars, schedVars, sigVars, mutexVars, semaphoreVars, DownAgain
<1>2. \A u \in Thread : Sleeping(u)' <=> Sleeping(u)
  BY <1>0
  DEF TypeOK, SemTypeOK, Quiet, Placed, Held, Points, Runs, Goto,
       semVars, schedVars, sigVars, mutexVars, semaphoreVars, DownAgain, Sleeping
<1>3. UNCHANGED <<waiters, next, ready, state>>
  BY DEF semVars, schedVars, semaphoreVars, DownAgain
<1>4. OwnerIs(o)'
  BY <1>0
  DEF TypeOK, SemTypeOK, Quiet, Placed, Held, Points, Runs, Goto,
       semVars, schedVars, sigVars, mutexVars, semaphoreVars, DownAgain, OwnerIs, Owns
<1>5. Calm(w)'
  BY <1>0, <1>1, <1>2, <1>3, SameLists DEF TypeOK
<1>6. LockGoes(w, o, w, o)
  BY DEF LockGoes
<1> QED BY <1>1, <1>4, <1>5, <1>6 DEF LockStep, MutexIs

(* down() of another thread begins.                                        *)
LEMMA DownLock ==
  ASSUME NEW w \in Seq(Thread), NEW o \in Thread \cup {Null}, MutexIs(w, o),
         NEW t \in Thread, Down(t)
  PROVE  LockStep(w, o)
<1> USE SemAssumption, MutexAssumption
<1>0. TypeOK /\ SemTypeOK /\ Quiet /\ Placed /\ Held /\ OwnerIs(o) /\ Calm(w)
  BY DEF MutexIs, Calm
<1>1. TypeOK' /\ Quiet' /\ Placed' /\ Held'
  BY <1>0
  DEF TypeOK, SemTypeOK, Quiet, Placed, Held, Points, Runs, Goto,
       semVars, schedVars, sigVars, mutexVars, semaphoreVars, Down
<1>2. \A u \in Thread : Sleeping(u)' <=> Sleeping(u)
  BY <1>0
  DEF TypeOK, SemTypeOK, Quiet, Placed, Held, Points, Runs, Goto,
       semVars, schedVars, sigVars, mutexVars, semaphoreVars, Down, Sleeping
<1>3. UNCHANGED <<waiters, next, ready, state>>
  BY DEF semVars, schedVars, semaphoreVars, Down
<1>4. OwnerIs(o)'
  BY <1>0
  DEF TypeOK, SemTypeOK, Quiet, Placed, Held, Points, Runs, Goto,
       semVars, schedVars, sigVars, mutexVars, semaphoreVars, Down, OwnerIs, Owns
<1>5. Calm(w)'
  BY <1>0, <1>1, <1>2, <1>3, SameLists DEF TypeOK
<1>6. LockGoes(w, o, w, o)
  BY DEF LockGoes
<1> QED BY <1>1, <1>4, <1>5, <1>6 DEF LockStep, MutexIs

(* tryDown() fails.                                                        *)
LEMMA TryDownBusyLock ==
  ASSUME NEW w \in Seq(Thread), NEW o \in Thread \cup {Null}, MutexIs(w, o),
         NEW t \in Thread, TryDown(t, FALSE, "user"), UNCHANGED mutexVars
  PROVE  LockStep(w, o)
<1> USE SemAssumption, MutexAssumption
<1>0. TypeOK /\ SemTypeOK /\ Quiet /\ Placed /\ Held /\ OwnerIs(o) /\ Calm(w)
  BY DEF MutexIs, Calm
<1>1. TypeOK' /\ Quiet' /\ Placed' /\ Held'
  BY <1>0
  DEF TypeOK, SemTypeOK, Quiet, Placed, Held, Points, Runs, Goto,
       semVars, schedVars, sigVars, mutexVars, semaphoreVars, TryDown
<1>2. \A u \in Thread : Sleeping(u)' <=> Sleeping(u)
  BY <1>0
  DEF TypeOK, SemTypeOK, Quiet, Placed, Held, Points, Runs, Goto,
       semVars, schedVars, sigVars, mutexVars, semaphoreVars, TryDown, Sleeping
<1>3. UNCHANGED <<waiters, next, ready, state>>
  BY DEF semVars, schedVars, semaphoreVars, TryDown
<1>4. OwnerIs(o)'
  BY <1>0
  DEF TypeOK, SemTypeOK, Quiet, Placed, Held, Points, Runs, Goto,
       semVars, schedVars, sigVars, mutexVars, semaphoreVars, TryDown, OwnerIs, Owns
<1>5. Calm(w)'
  BY <1>0, <1>1, <1>2, <1>3, SameLists DEF TypeOK
<1>6. LockGoes(w, o, w, o)
  BY DEF LockGoes
<1> QED BY <1>1, <1>4, <1>5, <1>6 DEF LockStep, MutexIs

(* tryDown() takes the free mutex.                                         *)
LEMMA TryDownFreeLock ==
  ASSUME NEW w \in Seq(Thread), NEW o \in Thread \cup {Null}, MutexIs(w, o),
         NEW t \in Thread, TryDown(t, TRUE, "acquired"), UNCHANGED mutexVars
  PROVE  LockStep(w, o)
<1> USE SemAssumption, MutexAssumption
<1>0. TypeOK /\ SemTypeOK /\ Quiet /\ Placed /\ Held /\ OwnerIs(o) /\ Calm(w)
  BY DEF MutexIs, Calm
<1>a. o = Null /\ value = 1 /\ waiters.len = 0 /\ ~ Owns(t)
  <2>1. value > 0 /\ waiters.len = 0 /\ value \in Int
    BY <1>0 DEF TryDown, TypeOK, SemTypeOK
  <2> QED BY <1>0, <2>1 DEF OwnerIs
<1>b. holder # t
  BY <1>a DEF Owns
<1>1. TypeOK' /\ Quiet' /\ Placed' /\ Held'
  BY <1>0, <1>a, <1>b
  DEF TypeOK, SemTypeOK, Quiet, Placed, Held, Points, Runs, Goto,
       semVars, schedVars, sigVars, mutexVars, semaphoreVars, TryDown
<1>2. \A u \in Thread : Sleeping(u)' <=> Sleeping(u)
  BY <1>0
  DEF TypeOK, SemTypeOK, Quiet, Placed, Held, Points, Runs, Goto,
       semVars, schedVars, sigVars, mutexVars, semaphoreVars, TryDown, Sleeping
<1>3. UNCHANGED <<waiters, next, ready, state>>
  BY DEF semVars, schedVars, semaphoreVars, TryDown
<1>4. OwnerIs(t)'
  BY <1>0, <1>a, <1>b
  DEF TypeOK, SemTypeOK, Quiet, Placed, Held, Points, Runs, Goto,
       semVars, schedVars, sigVars, mutexVars, semaphoreVars, TryDown, OwnerIs, Owns
<1>5. Calm(w)'
  BY <1>0, <1>1, <1>2, <1>3, SameLists DEF TypeOK
<1>6. LockGoes(w, o, w, t)
  BY <1>a DEF LockGoes
<1> QED BY <1>1, <1>4, <1>5, <1>6 DEF LockStep, MutexIs

(* The holder is entered.                                                  *)
LEMMA TakeLock ==
  ASSUME NEW w \in Seq(Thread), NEW o \in Thread \cup {Null}, MutexIs(w, o),
         NEW t \in Thread, Take(t)
  PROVE  LockStep(w, o)
<1> USE SemAssumption, MutexAssumption
<1>0. TypeOK /\ SemTypeOK /\ Quiet /\ Placed /\ Held /\ OwnerIs(o) /\ Calm(w)
  BY DEF MutexIs, Calm
<1>a. holder = Null /\ depth = 0
  BY <1>0 DEF OwnerIs, Owns, Runs, Take, TypeOK, Held
<1>1. TypeOK' /\ Quiet' /\ Placed' /\ Held'
  BY <1>0, <1>a
  DEF TypeOK, SemTypeOK, Quiet, Placed, Held, Points, Runs, Goto,
       semVars, schedVars, sigVars, mutexVars, semaphoreVars, Take
<1>2. \A u \in Thread : Sleeping(u)' <=> Sleeping(u)
  BY <1>0
  DEF TypeOK, SemTypeOK, Quiet, Placed, Held, Points, Runs, Goto,
       semVars, schedVars, sigVars, mutexVars, semaphoreVars, Take, Sleeping
<1>3. UNCHANGED <<waiters, next, ready, state>>
  BY DEF semVars, schedVars, semaphoreVars, Take
<1>4. OwnerIs(o)'
  BY <1>0, <1>a
  DEF TypeOK, SemTypeOK, Quiet, Placed, Held, Points, Runs, Goto,
       semVars, schedVars, sigVars, mutexVars, semaphoreVars, Take, OwnerIs, Owns
<1>5. Calm(w)'
  BY <1>0, <1>1, <1>2, <1>3, SameLists DEF TypeOK
<1>6. LockGoes(w, o, w, o)
  BY DEF LockGoes
<1> QED BY <1>1, <1>4, <1>5, <1>6 DEF LockStep, MutexIs

(* up() of the holder begins.                                              *)
LEMMA UpLock ==
  ASSUME NEW w \in Seq(Thread), NEW o \in Thread \cup {Null}, MutexIs(w, o),
         NEW t \in Thread, Up(t)
  PROVE  LockStep(w, o)
<1> USE SemAssumption, MutexAssumption
<1>0. TypeOK /\ SemTypeOK /\ Quiet /\ Placed /\ Held /\ OwnerIs(o) /\ Calm(w)
  BY DEF MutexIs, Calm
<1>1. TypeOK' /\ Quiet' /\ Placed' /\ Held'
  BY <1>0
  DEF TypeOK, SemTypeOK, Quiet, Placed, Held, Points, Runs, Goto,
       semVars, schedVars, sigVars, mutexVars, semaphoreVars, Up
<1>2. \A u \in Thread : Sleeping(u)' <=> Sleeping(u)
  BY <1>0
  DEF TypeOK, SemTypeOK, Quiet, Placed, Held, Points, Runs, Goto,
       semVars, schedVars, sigVars, mutexVars, semaphoreVars, Up, Sleeping
<1>3. UNCHANGED <<waiters, next, ready, state>>
  BY DEF semVars, schedVars, semaphoreVars, Up
<1>4. OwnerIs(o)'
  BY <1>0
  DEF TypeOK, SemTypeOK, Quiet, Placed, Held, Points, Runs, Goto,
       semVars, schedVars, sigVars, mutexVars, semaphoreVars, Up, OwnerIs, Owns
<1>5. Calm(w)'
  BY <1>0, <1>1, <1>2, <1>3, SameLists DEF TypeOK
<1>6. LockGoes(w, o, w, o)
  BY DEF LockGoes
<1> QED BY <1>1, <1>4, <1>5, <1>6 DEF LockStep, MutexIs

(* up() returns.                                                           *)
LEMMA UpDoneLock ==
  ASSUME NEW w \in Seq(Thread), NEW o \in Thread \cup {Null}, MutexIs(w, o),
         NEW t \in Thread, UpDone(t)
  PROVE  LockStep(w, o)
<1> USE SemAssumption, MutexAssumption
<1>0. TypeOK /\ SemTypeOK /\ Quiet /\ Placed /\ Held /\ OwnerIs(o) /\ Calm(w)
  BY DEF MutexIs, Calm
<1>1. TypeOK' /\ Quiet' /\ Placed' /\ Held'
  BY <1>0
  DEF TypeOK, SemTypeOK, Quiet, Placed, Held, Points, Runs, Goto,
       semVars, schedVars, sigVars, mutexVars, semaphoreVars, UpDone
<1>2. \A u \in Thread : Sleeping(u)' <=> Sleeping(u)
  BY <1>0
  DEF TypeOK, SemTypeOK, Quiet, Placed, Held, Points, Runs, Goto,
       semVars, schedVars, sigVars, mutexVars, semaphoreVars, UpDone, Sleeping
<1>3. UNCHANGED <<waiters, next, ready, state>>
  BY DEF semVars, schedVars, semaphoreVars, UpDone
<1>4. OwnerIs(o)'
  BY <1>0
  DEF TypeOK, SemTypeOK, Quiet, Placed, Held, Points, Runs, Goto,
       semVars, schedVars, sigVars, mutexVars, semaphoreVars, UpDone, OwnerIs, Owns
<1>5. Calm(w)'
  BY <1>0, <1>1, <1>2, <1>3, SameLists DEF TypeOK
<1>6. LockGoes(w, o, w, o)
  BY DEF LockGoes
<1> QED BY <1>1, <1>4, <1>5, <1>6 DEF LockStep, MutexIs

(* A signal is sent, and its receiver is unblocked unless he ignores it,   *)
(* and one is handled.  None of this moves a thread.                       *)
LEMMA AddSignalLock ==
  ASSUME Shielded, NEW w \in Seq(Thread), NEW o \in Thread \cup {Null}, MutexIs(w, o),
         NEW t \in Thread, NEW u \in Thread, AddSignal(t, u), UNCHANGED mutexVars
  PROVE  LockStep(w, o)
<1>1. SemTypeOK /\ Quiet /\ Placed /\ Calm(w) /\ ~ AllowSigs
  BY DEF MutexIs, Calm, Shielded, IsMutex
<1>2. /\ pc[t] = "user" /\ state[t] = "RUNNING" /\ pc' = [pc EXCEPT ![t] = "signal"]
      /\ sigmask' = [sigmask EXCEPT ![u] = TRUE] /\ target' = [target EXCEPT ![t] = u]
      /\ UNCHANGED <<value, waiters, lck, next, ready, state, newState, ignSigs>>
  BY DEF AddSignal, Runs, Goto, semVars, schedVars
<1>3. SemTypeOK' /\ Quiet' /\ Placed' /\ PartsKept
  BY <1>1, <1>2 DEF SemTypeOK, Quiet, Placed, Points, PartsKept
<1>4. \A x \in Thread : (Sleeping(x)' <=> Sleeping(x)) /\ (Granted(x)' <=> Granted(x))
  BY <1>1, <1>2 DEF SemTypeOK, Sleeping, Granted
<1>5. Calm(w)'
  BY <1>1, <1>2, <1>3, <1>4, SameLists
<1>6. \A x \in Thread : pc'[x] \in {"up", "inc"} <=> pc[x] \in {"up", "inc"}
  BY <1>1, <1>2 DEF SemTypeOK
<1>7. Stays(w, w)
  BY <1>2, <1>4, <1>6, SameSets DEF Stays
<1> QED BY <1>3, <1>5, <1>7, SwitchLock

LEMMA SignalUnblockLock ==
  ASSUME Shielded, NEW w \in Seq(Thread), NEW o \in Thread \cup {Null}, MutexIs(w, o),
         NEW t \in Thread, SignalUnblock(t), UNCHANGED mutexVars
  PROVE  LockStep(w, o)
<1>1. SemTypeOK /\ Quiet /\ Placed /\ Calm(w) /\ ~ AllowSigs
  BY DEF MutexIs, Calm, Shielded, IsMutex
<1>2. /\ pc[t] = "signal" /\ state[t] = "RUNNING" /\ pc' = [pc EXCEPT ![t] = "user"]
      /\ target' = [target EXCEPT ![t] = Null]
      /\ IF ignSigs[target[t]] THEN UNCHANGED schedVars ELSE SetReady(target[t])
      /\ UNCHANGED <<value, waiters, lck, ignSigs, sigmask>>
  BY DEF SignalUnblock, Runs, Goto, semVars
<1>3. PICK u \in Thread : u = target[t] /\ u \in Signallable \ {t}
  BY <1>2, SemAssumption DEF Shielded
<1>4. state[u] # "RUNNING"
  <2>1. NCPU = 1
    BY <1>3 DEF Shielded, Harmless
  <2> QED BY <1>2, <1>3, <2>1 DEF Shielded, Running
<1>5. UNCHANGED <<next, ready, state, newState>>
  <2>1. CASE ignSigs[u]
    BY <1>2, <1>3, <2>1 DEF schedVars
  <2>2. CASE ~ ignSigs[u]
    <3>1. state[u] = "READY"
      BY <1>1, <1>4, <2>2 DEF SemTypeOK, Quiet, Placed
    <3> QED BY <1>2, <1>3, <2>2, <3>1 DEF SetReady, schedVars
  <2> QED BY <2>1, <2>2
<1>6. SemTypeOK' /\ Quiet' /\ Placed' /\ PartsKept
  BY <1>1, <1>2, <1>5 DEF SemTypeOK, Quiet, Placed, Points, PartsKept
<1>7. \A x \in Thread : (Sleeping(x)' <=> Sleeping(x)) /\ (Granted(x)' <=> Granted(x))
  BY <1>1, <1>2, <1>5 DEF SemTypeOK, Sleeping, Granted
<1>8. Calm(w)'
  BY <1>1, <1>2, <1>5, <1>6, <1>7, SameLists
<1>9. \A x \in Thread : pc'[x] \in {"up", "inc"} <=> pc[x] \in {"up", "inc"}
  BY <1>1, <1>2 DEF SemTypeOK
<1>10. Stays(w, w)
  BY <1>2, <1>7, <1>9, SameSets DEF Stays
<1> QED BY <1>6, <1>8, <1>10, SwitchLock

LEMMA HandleSignalLock ==
  ASSUME Shielded, NEW w \in Seq(Thread), NEW o \in Thread \cup {Null}, MutexIs(w, o),
         NEW t \in Thread, HandleSignal(t), UNCHANGED mutexVars
  PROVE  LockStep(w, o)
<1>1. SemTypeOK /\ Quiet /\ Placed /\ Calm(w)
  BY DEF MutexIs, Calm
<1>2. /\ sigmask' = [sigmask EXCEPT ![t] = FALSE]
      /\ UNCHANGED <<value, waiters, lck, next, ready, state, newState, ignSigs,
                     target, pc>>
  BY DEF HandleSignal, semVars, schedVars
<1>3. SemTypeOK' /\ Quiet' /\ Placed' /\ PartsKept
  BY <1>1, <1>2 DEF SemTypeOK, Quiet, Placed, PartsKept
<1>4. \A x \in Thread : (Sleeping(x)' <=> Sleeping(x)) /\ (Granted(x)' <=> Granted(x))
  BY <1>2 DEF Sleeping, Granted
<1>5. Calm(w)'
  BY <1>1, <1>2, <1>3, <1>4, SameLists
<1>6. Stays(w, w)
  BY <1>2, <1>4, SameSets DEF Stays
<1> QED BY <1>3, <1>5, <1>6, SwitchLock

(* Every step keeps the invariant and is a step of the lock, or none.      *)
LEMMA NextLock ==
  ASSUME Shielded, NEW w \in Seq(Thread), NEW o \in Thread \cup {Null},
         MutexIs(w, o), [Next]_vars
  PROVE  LockStep(w, o)
<1>1. TypeOK /\ Calm(w) /\ Held /\ OwnerIs(o)
  BY DEF MutexIs
<1>2. CASE UNCHANGED vars
  <2>1. UNCHANGED <<semaphoreVars, mutexVars>>
    BY <1>2 DEF vars
  <2>2. TypeOK' /\ Calm(w)' /\ Held' /\ OwnerIs(o)'
    <3>1. /\ \A t \in Thread : (Sleeping(t)' <=> Sleeping(t)) /\ (Owns(t)' <=> Owns(t))
          /\ TypeOK' /\ Quiet' /\ Placed' /\ Held' /\ SemTypeOK'
          /\ UNCHANGED <<value, waiters, next, ready, state>>
      BY <1>1, <2>1 DEF semaphoreVars, semVars, schedVars, sigVars, mutexVars,
                  TypeOK, SemTypeOK, Quiet, Placed, Calm, Held, Sleeping, Owns
    <3>2. OwnerIs(o)'
      BY <1>1, <3>1 DEF OwnerIs
    <3> QED BY <1>1, <3>1, <3>2, SameLists
  <2>3. LockGoes(w, o, w, o)
    BY DEF LockGoes
  <2> QED BY <2>2, <2>3 DEF LockStep, MutexIs
<1>3. CASE LeaveIdle /\ UNCHANGED mutexVars
  <2>1. PartsKept /\ Calm(w)' /\ Stays(w, w)
    BY <1>1, <1>3, LeaveIdleGoes
  <2> QED BY <1>3, <2>1, SwitchLock
<1>4. ASSUME NEW t \in Thread,
             \/ DownAgain(t) \/ Down(t) \/ MutexTryDown(t) \/ Take(t) \/ Up(t)
             \/ UpDone(t)
      PROVE  LockStep(w, o)
  BY <1>4, DownAgainLock, DownLock, TryDownFreeLock, TryDownBusyLock, TakeLock,
     UpLock, UpDoneLock DEF MutexTryDown
<1>5. ASSUME NEW t \in Thread, SemStep(t), UNCHANGED mutexVars
      PROVE  LockStep(w, o)
  <2>1. CASE pc[t] = "signal"
    <3>1. SignalUnblock(t)
      BY <1>5, <2>1 DEF SemStep, Lock, Dec, BeginNoSigs, Switch, Resume, Relock,
                        LeaveWaiters, GiveBack, Inc, Runs
    <3> QED BY <1>5, <3>1, SignalUnblockLock
  <2>2. CASE pc[t] # "signal"
    BY <1>5, <2>2, SemStepLock
  <2> QED BY <2>1, <2>2
<1>6. ASSUME NEW t \in Thread, Yield(t), UNCHANGED mutexVars
      PROVE  LockStep(w, o)
  <2>1. PartsKept /\ Calm(w)' /\ Stays(w, w)
    BY <1>1, <1>6, YieldGoes
  <2> QED BY <1>6, <2>1, SwitchLock
<1>7. ASSUME NEW t \in Thread, (\E u \in Thread : AddSignal(t, u)) \/ HandleSignal(t),
             UNCHANGED mutexVars
      PROVE  LockStep(w, o)
  BY <1>7, AddSignalLock, HandleSignalLock
<1> QED BY <1>2, <1>3, <1>4, <1>5, <1>6, <1>7 DEF Next

(* Who runs: no step but a switch starts a thread, and a switch starts one *)
(* in the place of the thread that leaves.                                 *)
LEMMA RunningAfter ==
  ASSUME SemTypeOK, NEW t \in Thread, state[t] = "RUNNING"
  PROVE  /\ Perform(t) => Running' = Running
                           \/ \E h \in Thread : Running' \subseteq (Running \ {t}) \cup {h}
                           \/ Running' \subseteq Running \ {t}
         /\ BaseUp => Running' \subseteq Running
<1>1. ASSUME Perform(t)
      PROVE  \/ Running' = Running
             \/ \E h \in Thread : Running' \subseteq (Running \ {t}) \cup {h}
             \/ Running' \subseteq Running \ {t}
  <2> DEFINE st == [state EXCEPT ![t] = newState[t]]
  <2>1. CASE HasSignal(t)
    BY <1>1, <2>1 DEF Perform, Running
  <2>2. ASSUME NEW q, NEW nx, TakeNext(q, nx, st)
        PROVE  \/ \E h \in Thread : Running' \subseteq (Running \ {t}) \cup {h}
               \/ Running' \subseteq Running \ {t}
    <3>1. \A u \in Thread : st[u] = "RUNNING" => u \in Running \ {t}
      BY DEF SemTypeOK, Running
    <3>2. CASE state' = st
      BY <3>1, <3>2 DEF Running
    <3>3. CASE state' = [st EXCEPT ![q.head] = "RUNNING"] /\ q.head \in Thread
      BY <3>1, <3>3 DEF Running, SemTypeOK
    <3>4. CASE state' = [st EXCEPT ![q.head] = "RUNNING"] /\ q.head \notin Thread
      BY <3>1, <3>4 DEF Running, SemTypeOK
    <3> QED BY <2>2, <3>2, <3>3, <3>4 DEF TakeNext
  <2>3. CASE ~ HasSignal(t)
    BY <1>1, <2>2, <2>3 DEF Perform
  <2> QED BY <2>1, <2>3
<1>2. ASSUME BaseUp PROVE Running' \subseteq Running
  <2>1. CASE state' = state
    BY <2>1 DEF Running
  <2>2. CASE state' = [state EXCEPT ![waiters.head] = "READY"]
    BY <2>2 DEF Running, SemTypeOK
  <2> QED BY <1>2, <2>1, <2>2 DEF BaseUp, SetReady, schedVars
<1> QED BY <1>1, <1>2

(* Every step keeps the shield.                                            *)
LEMMA ShieldedKept ==
  ASSUME Shielded, SemTypeOK, Quiet, [Next]_vars
  PROVE  Shielded'
<1> USE SemAssumption
<1>0. IsMutex /\ Harmless
  BY DEF Shielded
<1>1. ASSUME \A t \in Thread : pc'[t] = "signal" => target'[t] \in Signallable \ {t},
             NCPU = 1 => \A t, u \in Running' : t = u
      PROVE  Shielded'
  BY <1>0, <1>1 DEF Shielded, IsMutex, Harmless
<1>2. ASSUME NEW t \in Thread, NEW x \in Points \ {"signal"},
             pc' = [pc EXCEPT ![t] = x] \/ pc' = pc, target' = target
      PROVE  \A u \in Thread : pc'[u] = "signal" => target'[u] \in Signallable \ {u}
  BY <1>2 DEF Shielded, SemTypeOK
<1>3. ASSUME Running' \subseteq Running
      PROVE  NCPU = 1 => \A t, u \in Running' : t = u
  BY <1>3 DEF Shielded
<1>4. ASSUME NEW t \in Thread, state[t] = "RUNNING", Perform(t)
      PROVE  NCPU = 1 => \A x, y \in Running' : x = y
  <2>1. t \in Running
    BY <1>4 DEF Running
  <2>2. NCPU = 1 => Running \ {t} = {}
    BY <2>1 DEF Shielded
  <2> QED BY <1>3, <1>4, <2>2, RunningAfter
<1>5. CASE UNCHANGED vars
  <2>1. pc' = pc /\ target' = target /\ state' = state
    BY <1>5 DEF vars, semaphoreVars, schedVars, sigVars
  <2> QED BY <1>1, <2>1 DEF Shielded, Running
<1>6. CASE LeaveIdle
  <2>1. pc' = pc /\ target' = target
    BY <1>6 DEF LeaveIdle, sigVars
  <2>2. ASSUME NCPU = 1 PROVE Running = {}
    <3>1. IsFiniteSet(Running)
      BY FS_Subset DEF Running
    <3>2. Cardinality(Running) < 1 /\ Cardinality(Running) \in Nat
      BY <1>6, <2>2, <3>1, FS_CardinalityType DEF LeaveIdle, Running
    <3>3. Cardinality(Running) = 0
      BY <3>2
    <3> QED BY <3>1, <3>3, FS_EmptySet
  <2>3. state' = state \/ state' = [state EXCEPT ![ready.head] = "RUNNING"]
    BY <1>6 DEF LeaveIdle, TakeNext
  <2>4. NCPU = 1 => \A t, u \in Running' : t = u
    BY <2>2, <2>3 DEF Running, SemTypeOK
  <2> QED BY <1>1, <2>1, <2>4 DEF Shielded
<1>7. ASSUME NEW t \in Thread,
             \/ DownAgain(t) \/ Down(t) \/ MutexTryDown(t) \/ Take(t) \/ Up(t)
             \/ UpDone(t)
      PROVE  Shielded'
  <2>1. state' = state /\ target' = target
    BY <1>7 DEF DownAgain, Down, MutexTryDown, TryDown, Take, Up, UpDone,
                semaphoreVars, schedVars, sigVars
  <2>2. PICK x \in {"down", "acquired", "user", "up"} : pc' = [pc EXCEPT ![t] = x] \/ pc' = pc
    BY <1>7 DEF DownAgain, Down, MutexTryDown, TryDown, Take, Up, UpDone, Goto,
                semaphoreVars
  <2>3. \A u \in Thread : pc'[u] = "signal" => target'[u] \in Signallable \ {u}
    BY <1>2, <2>1, <2>2 DEF Points
  <2> QED BY <1>1, <1>3, <2>1, <2>3 DEF Running
<1>8. ASSUME NEW t \in Thread, SemStep(t) PROVE Shielded'
  <2>1. CASE Lock(t, "down", "dec") \/ Lock(t, "up", "inc") \/ BeginNoSigs(t) \/ Relock(t)
    <3>1. state' = state /\ target' = target
      BY <2>1 DEF Lock, BeginNoSigs, Relock, schedVars, sigVars
    <3>2. PICK x \in {"dec", "inc", "switch", "acquired"} : pc' = [pc EXCEPT ![t] = x]
      BY <2>1 DEF Lock, BeginNoSigs, Relock, Goto
    <3>3. \A u \in Thread : pc'[u] = "signal" => target'[u] \in Signallable \ {u}
      BY <1>2, <3>1, <3>2 DEF Points
    <3> QED BY <1>1, <1>3, <3>1, <3>3 DEF Running
  <2>2. CASE Dec(t) \/ Resume(t)
    <3>1. state' = state /\ target' = target
      BY <2>2 DEF Dec, Resume, schedVars, sigVars
    <3>2. PICK x \in {"switch", "nosigs", "acquired", "intr", "relock"} : pc' = [pc EXCEPT ![t] = x]
      BY <2>2 DEF Dec, Resume, Goto
    <3>3. \A u \in Thread : pc'[u] = "signal" => target'[u] \in Signallable \ {u}
      BY <1>2, <3>1, <3>2 DEF Points
    <3> QED BY <1>1, <1>3, <3>1, <3>3 DEF Running
  <2>3. CASE Switch(t)
    <3>1. pc' = [pc EXCEPT ![t] = "resume"] /\ target' = target
      BY <2>3 DEF Switch, Goto, sigVars
    <3>2. state[t] = "RUNNING" /\ Perform(t)
      BY <2>3 DEF Switch, Runs
    <3>3. \A u \in Thread : pc'[u] = "signal" => target'[u] \in Signallable \ {u}
      BY <1>2, <3>1 DEF Points
    <3> QED BY <1>1, <1>4, <3>2, <3>3
  <2>4. CASE Inc(t)
    <3>1. pc' = [pc EXCEPT ![t] = "done"] /\ target' = target
      BY <2>4 DEF Inc, Goto, sigVars
    <3>2. Running' \subseteq Running
      BY <2>4, RunningAfter DEF Inc, Runs
    <3>3. \A u \in Thread : pc'[u] = "signal" => target'[u] \in Signallable \ {u}
      BY <1>2, <3>1 DEF Points
    <3> QED BY <1>1, <1>3, <3>2, <3>3
  <2>5. CASE SignalUnblock(t)
    <3>1. pc' = [pc EXCEPT ![t] = "user"] /\ target' = [target EXCEPT ![t] = Null]
      BY <2>5 DEF SignalUnblock, Goto
    <3>2. pc'[t] = "user"
      BY <3>1 DEF SemTypeOK
    <3>3. state' = state \/ state' = [state EXCEPT ![target[t]] = "READY"]
      BY <2>5 DEF SignalUnblock, SetReady, schedVars
    <3>4. Running' \subseteq Running
      BY <3>3 DEF Running, SemTypeOK
    <3>5. \A u \in Thread : pc'[u] = "signal" => target'[u] \in Signallable \ {u}
      BY <3>1, <3>2 DEF Shielded, SemTypeOK
    <3> QED BY <1>1, <1>3, <3>4, <3>5
  <2>6. ~ LeaveWaiters(t) /\ ~ GiveBack(t)
    BY DEF LeaveWaiters, GiveBack, Runs, Quiet
  <2> QED BY <1>8, <2>1, <2>2, <2>3, <2>4, <2>5, <2>6 DEF SemStep
<1>9. ASSUME NEW t \in Thread, Yield(t) PROVE Shielded'
  <2>1. pc' = pc /\ target' = target
    BY <1>9 DEF Yield, sigVars
  <2>2. state[t] = "RUNNING" /\ Perform(t)
    BY <1>9 DEF Yield, Runs
  <2> QED BY <1>1, <1>4, <2>1, <2>2 DEF Shielded
<1>10. ASSUME NEW t \in Thread, NEW u \in Thread, AddSignal(t, u) PROVE Shielded'
  <2>1. /\ pc' = [pc EXCEPT ![t] = "signal"] /\ target' = [target EXCEPT ![t] = u]
        /\ u \in Signallable \ {t} /\ state' = state
    BY <1>10 DEF AddSignal, Goto, schedVars
  <2> QED BY <1>1, <2>1 DEF Shielded, SemTypeOK, Running
<1>11. ASSUME NEW t \in Thread, HandleSignal(t) PROVE Shielded'
  <2>1. pc' = pc /\ target' = target /\ state' = state
    BY <1>11 DEF HandleSignal, schedVars
  <2> QED BY <1>1, <2>1 DEF Shielded, Running
<1> QED BY <1>5, <1>6, <1>7, <1>8, <1>9, <1>10, <1>11 DEF Next

(* The invariant holds if nobody is signalled or there is one processor.   *)
THEOREM MutexInvariant ==
  ASSUME Signallable = {} \/ NCPU = 1
  PROVE  Spec => []MutexInv
<1>1. Init => MutexInv
  <2> SUFFICES ASSUME Init PROVE MutexInv
    OBVIOUS
  <2>1. Shielded
    BY DEF Init, SemInit, Shielded, Harmless, Running
  <2> QED BY <2>1, MutexInit DEF MutexInv
<1>2. MutexInv /\ [Next]_vars => MutexInv'
  <2> SUFFICES ASSUME MutexInv, [Next]_vars PROVE MutexInv'
    OBVIOUS
  <2>1. PICK w \in Seq(Thread), o \in Thread \cup {Null} : MutexIs(w, o)
    BY DEF MutexInv
  <2>2. Shielded'
    BY <2>1, ShieldedKept DEF MutexInv, MutexIs, Calm
  <2> QED BY <2>1, <2>2, NextLock DEF MutexInv, LockStep
<1> QED BY <1>1, <1>2, PTL DEF Spec

(* The invariant implies the properties.                                   *)
LEMMA MutexInvImplies ==
  ASSUME MutexInv
  PROVE  TypeOK /\ Exclusive /\ FreeWhenTaken /\ ValueExact
<1> USE SemAssumption
<1>1. PICK w \in Seq(Thread), o \in Thread \cup {Null} : MutexIs(w, o)
  BY DEF MutexInv
<1>2. TypeOK /\ Held /\ OwnerIs(o)
  BY <1>1 DEF MutexIs
<1>3. Exclusive
  BY <1>2 DEF OwnerIs, Exclusive
<1>4. FreeWhenTaken
  <2> SUFFICES ASSUME NEW t \in Thread, Runs(t, "acquired")
               PROVE  holder = Null /\ depth = 0
    BY DEF FreeWhenTaken
  <2>1. holder # Null => Owns(holder) /\ Owns(t) /\ holder \in Thread
    BY <1>2 DEF Runs, Owns, TypeOK
  <2>2. holder # Null => holder = t
    BY <2>1, <1>2 DEF OwnerIs
  <2> QED BY <2>2, <1>2 DEF Held, Runs
<1>5. ValueExact
  BY <1>2 DEF OwnerIs, ValueExact
<1> QED BY <1>2, <1>3, <1>4, <1>5

(* Type correctness of the mutex, its waiting list and the scheduler state *)
(* it drives.                                                              *)
THEOREM MutexTypeOK ==
  ASSUME Signallable = {} \/ NCPU = 1
  PROVE  Spec => []TypeOK
  BY MutexInvariant, MutexInvImplies, PTL

(* Mutual exclusion: the mutex belongs to one thread at a time, and to     *)
(* none only if nobody waits (Mutex::down, tryDown and up).                *)
THEOREM MutexExclusive ==
  ASSUME Signallable = {} \/ NCPU = 1
  PROVE  Spec => []Exclusive
  BY MutexInvariant, MutexInvImplies, PTL

(* The assertion in Mutex::down never fails.                               *)
THEOREM MutexFreeWhenTaken ==
  ASSUME Signallable = {} \/ NCPU = 1
  PROVE  Spec => []FreeWhenTaken
  BY MutexInvariant, MutexInvImplies, PTL

(* The value of the semaphore counts the owner and the waiters.            *)
THEOREM MutexValueExact ==
  ASSUME Signallable = {} \/ NCPU = 1
  PROVE  Spec => []ValueExact
  BY MutexInvariant, MutexInvImplies, PTL

(* What ImplementsLock takes for the owner and for the queue.              *)
LockOwner == IF \E t \in Thread : Owns(t)
               THEN CHOOSE t \in Thread : Owns(t) ELSE Null
LockQueue == Chain(waiters, next, Cardinality(Thread))

(* They are the owner and the waiters of the invariant, before and after a *)
(* step.                                                                   *)
LEMMA LockMapped ==
  ASSUME NEW w \in Seq(Thread), NEW o \in Thread \cup {Null}
  PROVE  /\ MutexIs(w, o) => LockOwner = o /\ LockQueue = w
         /\ MutexIs(w, o)' => LockOwner' = o /\ LockQueue' = w
<1> USE SemAssumption
<1>1. Cardinality(Thread) \in Nat
  BY FS_CardinalityType
<1>2. ASSUME MutexIs(w, o)
      PROVE  LockOwner = o /\ LockQueue = w
  <2>1. \A t \in Thread : Owns(t) <=> t = o
    BY <1>2 DEF MutexIs, OwnerIs
  <2>2. LockOwner = o
    BY <2>1 DEF LockOwner
  <2>3. Represents(w, waiters, next) /\ Distinct(w)
    BY <1>2 DEF MutexIs, Calm, ListsAre
  <2>4. Len(w) <= Cardinality(Thread)
    BY <2>3, DistinctShort
  <2>5. LockQueue = w
    BY <1>1, <2>3, <2>4, ChainIs DEF LockQueue
  <2> QED BY <2>2, <2>5
<1>3. ASSUME MutexIs(w, o)'
      PROVE  LockOwner' = o /\ LockQueue' = w
  <2>1. \A t \in Thread : Owns(t)' <=> t = o
    BY <1>3 DEF MutexIs, OwnerIs
  <2>2. LockOwner' = o
    BY <2>1 DEF LockOwner
  <2>3. Represents(w, waiters', next') /\ Distinct(w)
    BY <1>3 DEF MutexIs, Calm, ListsAre
  <2>4. Len(w) <= Cardinality(Thread)
    BY <2>3, DistinctShort
  <2>5. Chain(waiters', next', Cardinality(Thread)) = w
    BY <1>1, <2>3, <2>4, ChainIs
  <2> QED BY <2>2, <2>5 DEF LockQueue
<1> QED BY <1>2, <1>3

(* The mutex implements the lock with first-come-first-served hand-over    *)
(* that Mutex::down, tryDown and up promise, although its waiting list and *)
(* the ready queue of the scheduler share the links.                       *)
THEOREM MutexImplementsLock ==
  ASSUME Signallable = {} \/ NCPU = 1
  PROVE  Spec => ImplementsLock
<1> USE SemAssumption
<1>1. Init => Lock1!Init
  <2> SUFFICES ASSUME Init PROVE Lock1!Init
    OBVIOUS
  <2>1. LockOwner = Null /\ LockQueue = << >>
    BY MutexInit, LockMapped
  <2> QED BY <2>1 DEF LockOwner, LockQueue, Lock1!Init
<1>2. MutexInv /\ [Next]_vars => [Lock1!Next]_<<LockOwner, LockQueue>>
  <2> SUFFICES ASSUME MutexInv, [Next]_vars
               PROVE  [Lock1!Next]_<<LockOwner, LockQueue>>
    OBVIOUS
  <2>1. PICK w \in Seq(Thread), o \in Thread \cup {Null} : MutexIs(w, o)
    BY DEF MutexInv
  <2>2. PICK v \in Seq(Thread), p \in Thread \cup {Null} :
          MutexIs(v, p)' /\ LockGoes(w, o, v, p)
    BY <2>1, NextLock DEF LockStep, MutexInv
  <2>3. /\ LockOwner = o /\ LockQueue = w
        /\ LockOwner' = p /\ LockQueue' = v
    BY <2>1, <2>2, LockMapped
  <2>4. CASE p = o /\ v = w
    BY <2>3, <2>4
  <2>5. CASE o = Null /\ p # Null /\ v = w
    <3>1. Lock1!Enter(p)
      BY <2>3, <2>5 DEF Lock1!Enter, LockOwner, LockQueue
    <3> QED BY <3>1, <2>5 DEF Lock1!Next
  <2>6. ASSUME NEW t \in Thread, o # Null, p = o, v = Append(w, t)
        PROVE  Lock1!Next
    <3>1. Lock1!Queue(t)
      BY <2>3, <2>6 DEF Lock1!Queue, LockOwner, LockQueue
    <3> QED BY <3>1 DEF Lock1!Next
  <2>7. CASE o # Null /\ \/ w = << >> /\ p = Null /\ v = w
                         \/ w # << >> /\ p = Head(w) /\ v = Tail(w)
    <3>1. Lock1!Leave
      BY <2>3, <2>7 DEF Lock1!Leave, LockOwner, LockQueue
    <3> QED BY <3>1 DEF Lock1!Next
  <2> QED BY <2>2, <2>4, <2>5, <2>6, <2>7 DEF LockGoes
<1> QED
  BY <1>1, <1>2, MutexInvariant, PTL
  DEF Spec, ImplementsLock, Lock1!Spec, LockOwner, LockQueue

-----------------------------------------------------------------------------
(* The semaphores of processes.  First their references, whoever is        *)
(* signalled: an operation is in flight while its thread is behind op, and *)
(* the bound on the downs covers those under way.                          *)

Holders == {p \in Proc : has[p]}
Working == {t \in Thread : op[t] # "none"}
Downs == {t \in Thread : op[t] = "down"}

(* How many references, how many downs, and where threads are that perform *)
(* no operation.                                                           *)
RefsAre == refs = Cardinality(Holders) + Cardinality(Working)
FreedLast == freed <=> refs = 0
DownsFit == taken + Cardinality(Downs) <= MaxTaken
AtUser == \A t \in Thread : op[t] = "none" <=> pc[t] \in {"user", "signal"}

RefsInv == SemsTypeOK /\ RefsAre /\ FreedLast /\ DownsFit /\ AtUser

(* The sizes of these sets.                                                *)
LEMMA Sizes ==
  /\ IsFiniteSet(Holders) /\ Cardinality(Holders) \in Nat
  /\ IsFiniteSet(Working) /\ Cardinality(Working) \in Nat
  /\ IsFiniteSet(Downs) /\ Cardinality(Downs) \in Nat
<1>1. Holders \in SUBSET Proc /\ Working \in SUBSET Thread /\ Downs \in SUBSET Thread
  BY DEF Holders, Working, Downs
<1>2. IsFiniteSet(Proc) /\ IsFiniteSet(Thread)
  BY SemAssumption, SemsAssumption
<1>3. IsFiniteSet(Holders) /\ IsFiniteSet(Working) /\ IsFiniteSet(Downs)
  BY <1>1, <1>2, FS_Subset
<1> QED BY <1>3, FS_CardinalityType

(* A set with one element more.                                            *)
LEMMA OneMore ==
  ASSUME NEW S, IsFiniteSet(S), NEW T, NEW x, x \notin S, T = S \cup {x}
  PROVE  /\ Cardinality(T) = Cardinality(S) + 1
         /\ Cardinality(S) \in Nat /\ IsFiniteSet(T)
  BY FS_AddElement, FS_CardinalityType

(* A set with one element less.                                            *)
LEMMA OneLess ==
  ASSUME NEW S, IsFiniteSet(S), NEW T, NEW x, x \in S, T = S \ {x}
  PROVE  /\ Cardinality(S) = Cardinality(T) + 1
         /\ Cardinality(T) \in Nat /\ IsFiniteSet(T)
<1>1. IsFiniteSet(T) /\ Cardinality(T) = Cardinality(S) - 1
  BY FS_RemoveElement
<1>2. Cardinality(S) \in Nat /\ Cardinality(T) \in Nat
  BY <1>1, FS_CardinalityType
<1> QED BY <1>1, <1>2

(* Inside of down() and up() a thread neither begins nor ends an operation. *)
LEMMA SemStepFrame ==
  ASSUME value \in Int, lck \in Thread \cup {Null}, pc \in [Thread -> Points],
         NEW t \in Thread, SemStep(t)
  PROVE  /\ value' \in Int /\ lck' \in Thread \cup {Null}
         /\ pc' \in [Thread -> Points]
         /\ \A u \in Thread : pc'[u] \in {"user", "signal"} <=> pc[u] \in {"user", "signal"}
<1> DEFINE Frame(from, to) == /\ pc[t] \in from /\ \E p \in to : pc' = [pc EXCEPT ![t] = p]
                              /\ value' \in Int /\ lck' \in Thread \cup {Null}
<1>1. ASSUME NEW from, NEW to, Frame(from, to), to \subseteq Points,
             \A p \in from, q \in to : p \in {"user", "signal"} <=> q \in {"user", "signal"}
      PROVE  /\ value' \in Int /\ lck' \in Thread \cup {Null}
             /\ pc' \in [Thread -> Points]
             /\ \A u \in Thread : pc'[u] \in {"user", "signal"} <=> pc[u] \in {"user", "signal"}
  <2>1. PICK p \in to : pc' = [pc EXCEPT ![t] = p]
    BY <1>1
  <2>2. p \in Points
    BY <1>1
  <2>3. \A u \in Thread : pc'[u] = IF u = t THEN p ELSE pc[u]
    BY <2>1
  <2>4. pc' \in [Thread -> Points]
    BY <2>1, <2>2
  <2> QED BY <2>3, <2>4, <1>1
<1> DEFINE inside == Points \ {"user", "signal"}
           outside == {"user", "signal"}
<1>2. Frame(inside, inside) \/ Frame(outside, outside)
  <2>1. CASE Lock(t, "down", "dec") \/ Lock(t, "up", "inc")
    BY <2>1 DEF Lock, Runs, Goto, Points
  <2>2. CASE Dec(t)
    BY <2>2 DEF Dec, Runs, Goto, Points
  <2>3. CASE BeginNoSigs(t) \/ Relock(t)
    BY <2>3 DEF BeginNoSigs, Relock, Runs, Goto, Points, semVars
  <2>4. CASE Switch(t)
    BY <2>4 DEF Switch, Runs, Goto, Points, semVars
  <2>5. CASE Resume(t)
    BY <2>5 DEF Resume, Runs, Goto, Points, semVars
  <2>6. CASE LeaveWaiters(t)
    <3>1. /\ pc[t] = "intr" /\ pc' = [pc EXCEPT ![t] = "giveback"]
          /\ value' = value /\ lck' = lck
      BY <2>6 DEF LeaveWaiters, Runs, Goto
    <3> QED BY <3>1 DEF Points
  <2>7. CASE GiveBack(t) \/ Inc(t)
    BY <2>7 DEF GiveBack, Inc, BaseUp, Runs, Goto, Points
  <2>8. CASE SignalUnblock(t)
    BY <2>8 DEF SignalUnblock, Runs, Goto, Points, semVars
  <2> QED BY <2>1, <2>2, <2>3, <2>4, <2>5, <2>6, <2>7, <2>8 DEF SemStep
<1>3. inside \subseteq Points /\ outside \subseteq Points
  BY DEF Points
<1>4. \A p \in inside, q \in inside : p \in {"user", "signal"} <=> q \in {"user", "signal"}
  OBVIOUS
<1>5. \A p \in outside, q \in outside : p \in {"user", "signal"} <=> q \in {"user", "signal"}
  OBVIOUS
<1> HIDE DEF Frame, inside, outside
<1> QED BY <1>1, <1>2, <1>3, <1>4, <1>5

(* A step that touches neither the entry nor the operations.               *)
LEMMA RefsFrame ==
  ASSUME RefsInv, value' \in Int, lck' \in Thread \cup {Null},
         pc' \in [Thread -> Points],
         \A u \in Thread : pc'[u] \in {"user", "signal"} <=> pc[u] \in {"user", "signal"},
         UNCHANGED <<entryVars, op, taken, given>>, sent' \in 0 .. MaxSent
  PROVE  RefsInv'
<1>1. SemsTypeOK'
  BY DEF RefsInv, SemsTypeOK, entryVars
<1>2. RefsAre' /\ FreedLast' /\ DownsFit'
  BY DEF RefsInv, RefsAre, FreedLast, DownsFit, Holders, Working, Downs, entryVars
<1>3. AtUser'
  BY DEF RefsInv, AtUser
<1> QED BY <1>1, <1>2, <1>3 DEF RefsInv

LEMMA RefsInit ==
  ASSUME SemsInit
  PROVE  RefsInv
<1> USE SemAssumption, SemsAssumption
<1>1. SemsTypeOK
  <2>1. value \in Int /\ lck \in Thread \cup {Null} /\ pc \in [Thread -> Points]
    BY DEF SemsInit, SemInit, Points
  <2>2. has \in [Proc -> BOOLEAN]
    BY DEF SemsInit
  <2>3. refs \in Nat /\ freed \in BOOLEAN /\ op \in [Thread -> {"none", "down", "up"}]
    BY DEF SemsInit
  <2>4. taken \in 0 .. MaxTaken /\ given \in 0 .. MaxGiven /\ sent \in 0 .. MaxSent
    BY DEF SemsInit
  <2> QED BY <2>1, <2>2, <2>3, <2>4 DEF SemsTypeOK
<1>2. Holders = {Owner0} /\ Working = {} /\ Downs = {}
  BY DEF SemsInit, Holders, Working, Downs
<1>3. Cardinality({Owner0}) = 1 /\ Cardinality({}) = 0
  BY FS_EmptySet, FS_Singleton
<1>4. RefsAre /\ FreedLast /\ DownsFit
  BY <1>2, <1>3 DEF SemsInit, RefsAre, FreedLast, DownsFit
<1>5. AtUser
  BY DEF SemsInit, SemInit, AtUser
<1> QED BY <1>1, <1>4, <1>5 DEF RefsInv

(* op takes a reference for the time of the operation.                     *)
LEMMA OpRefs ==
  ASSUME RefsInv, NEW t \in Thread, NEW kind \in {"down", "up"}, Op(t, kind)
  PROVE  RefsInv'
<1> USE SemAssumption, SemsAssumption
<1>1. /\ pc[t] = "user" /\ op[t] = "none" /\ has[Home[t]]
      /\ refs' = refs + 1 /\ op' = [op EXCEPT ![t] = kind]
      /\ pc' = [pc EXCEPT ![t] = kind]
      /\ UNCHANGED <<value, lck, has, freed, taken, sent>>
  BY DEF Op, Idle, Runs, Goto, semVars
<1>2. given' \in 0 .. MaxGiven
  BY DEF Op, RefsInv, SemsTypeOK
<1>3. SemsTypeOK'
  <2>1. op' \in [Thread -> {"none", "down", "up"}] /\ pc' \in [Thread -> Points]
    BY <1>1 DEF RefsInv, SemsTypeOK, Points
  <2> QED BY <1>1, <1>2, <2>1 DEF RefsInv, SemsTypeOK
<1>4. Holders' = Holders /\ Working' = Working \cup {t} /\ t \notin Working
  BY <1>1 DEF RefsInv, SemsTypeOK, Holders, Working
<1>5. Cardinality(Working') = Cardinality(Working) + 1
  BY <1>4, OneMore, Sizes
<1>6. RefsAre'
  BY <1>1, <1>4, <1>5, Sizes DEF RefsInv, RefsAre
<1>7. FreedLast'
  <2>1. Home[t] \in Holders
    BY <1>1 DEF Holders
  <2>2. Cardinality(Holders) # 0
    BY <2>1, FS_EmptySet, Sizes
  <2>3. refs # 0 /\ refs \in Nat
    BY <2>2, Sizes DEF RefsInv, RefsAre, SemsTypeOK
  <2> QED BY <1>1, <2>3 DEF RefsInv, FreedLast
<1>8. DownsFit'
  <2>1. CASE kind = "up"
    <3>1. Downs' = Downs
      BY <1>1, <2>1 DEF RefsInv, SemsTypeOK, Downs
    <3> QED BY <1>1, <3>1 DEF RefsInv, DownsFit
  <2>2. CASE kind = "down"
    <3>1. Downs' = Downs \cup {t} /\ t \notin Downs
      BY <1>1, <2>2 DEF RefsInv, SemsTypeOK, Downs
    <3>2. Cardinality(Downs') = Cardinality(Downs) + 1
      BY <3>1, OneMore, Sizes
    <3>3. taken + Cardinality(Downs) < MaxTaken
      BY <2>2 DEF Op, Downs
    <3> QED BY <1>1, <3>2, <3>3, Sizes DEF RefsInv, SemsTypeOK, DownsFit
  <2> QED BY <2>1, <2>2
<1>9. AtUser'
  BY <1>1 DEF RefsInv, SemsTypeOK, AtUser
<1> QED BY <1>3, <1>6, <1>7, <1>8, <1>9 DEF RefsInv

(* op returns, and drops its reference.                                    *)
LEMMA OpReturnRefs ==
  ASSUME RefsInv, NEW t \in Thread, OpReturn(t)
  PROVE  RefsInv'
<1> USE SemAssumption, SemsAssumption
<1>1. /\ pc[t] \in {"acquired", "done"}
      /\ refs' = refs - 1 /\ freed' = (freed \/ refs = 1)
      /\ op' = [op EXCEPT ![t] = "none"]
      /\ pc' = [pc EXCEPT ![t] = "user"]
      /\ UNCHANGED <<value, lck, has, given, sent>>
  BY DEF OpReturn, Unref, Runs, Goto, semVars
<1>2. op[t] # "none" /\ t \in Working
  BY <1>1 DEF RefsInv, AtUser, Working
<1>3. Holders' = Holders /\ Working' = Working \ {t}
  BY <1>1 DEF RefsInv, SemsTypeOK, Holders, Working
<1>4. Cardinality(Working) = Cardinality(Working') + 1 /\ Cardinality(Working') \in Nat
  BY <1>2, <1>3, OneLess, Sizes
<1>5. RefsAre' /\ refs >= 1 /\ refs \in Nat
  BY <1>1, <1>3, <1>4, Sizes DEF RefsInv, RefsAre, SemsTypeOK
<1>6. FreedLast'
  <2>1. ~ freed
    BY <1>5 DEF RefsInv, FreedLast
  <2>2. freed' <=> refs = 1
    BY <1>1, <2>1, Zenon
  <2>3. refs' = 0 <=> refs = 1
    BY <1>1, <1>5
  <2> QED BY <2>2, <2>3, Zenon DEF FreedLast
<1>7. DownsFit' /\ taken' \in 0 .. MaxTaken
  <2>1. CASE op[t] = "up"
    <3>1. taken' = taken
      BY <2>1 DEF OpReturn
    <3>2. Downs' = Downs
      BY <1>1, <2>1 DEF RefsInv, SemsTypeOK, Downs
    <3> QED BY <3>1, <3>2 DEF RefsInv, SemsTypeOK, DownsFit
  <2>2. CASE op[t] # "up"
    <3>1. taken' = taken \/ taken' = taken + 1
      BY DEF OpReturn
    <3>2. t \in Downs /\ Downs' = Downs \ {t}
      BY <1>1, <1>2, <2>2 DEF RefsInv, SemsTypeOK, Downs
    <3>3. Cardinality(Downs) = Cardinality(Downs') + 1 /\ Cardinality(Downs') \in Nat
      BY <3>2, OneLess, Sizes
    <3> QED BY <3>1, <3>3 DEF RefsInv, SemsTypeOK, DownsFit
  <2> QED BY <2>1, <2>2
<1>8. SemsTypeOK'
  <2>1. op' \in [Thread -> {"none", "down", "up"}] /\ pc' \in [Thread -> Points]
    BY <1>1 DEF RefsInv, SemsTypeOK, Points
  <2>2. refs' \in Nat /\ freed' \in BOOLEAN
    BY <1>1, <1>5
  <2> QED BY <1>1, <1>7, <2>1, <2>2 DEF RefsInv, SemsTypeOK
<1>9. AtUser'
  BY <1>1 DEF RefsInv, SemsTypeOK, AtUser
<1> QED BY <1>5, <1>6, <1>7, <1>8, <1>9 DEF RefsInv

(* A process inherits the entry.                                           *)
LEMMA CloneRefs ==
  ASSUME RefsInv, NEW t \in Thread, NEW q \in Proc, Clone(t, q)
  PROVE  RefsInv'
<1> USE SemAssumption, SemsAssumption
<1>1. /\ ~ has[q] /\ has[Home[t]] /\ has' = [has EXCEPT ![q] = TRUE]
      /\ refs' = refs + 1
      /\ UNCHANGED <<value, lck, pc, freed, op, taken, given, sent>>
  BY DEF Clone, semaphoreVars, semVars, countVars
<1>2. SemsTypeOK'
  BY <1>1 DEF RefsInv, SemsTypeOK
<1>3. Holders' = Holders \cup {q} /\ q \notin Holders /\ Working' = Working /\ Downs' = Downs
  BY <1>1 DEF RefsInv, SemsTypeOK, Holders, Working, Downs
<1>4. Cardinality(Holders') = Cardinality(Holders) + 1
  BY <1>3, OneMore, Sizes
<1>5. RefsAre'
  BY <1>1, <1>3, <1>4, Sizes DEF RefsInv, RefsAre
<1>6. FreedLast'
  <2>1. Home[t] \in Holders
    BY <1>1 DEF Holders
  <2>2. Cardinality(Holders) # 0
    BY <2>1, FS_EmptySet, Sizes
  <2>3. refs # 0 /\ refs \in Nat
    BY <2>2, Sizes DEF RefsInv, RefsAre, SemsTypeOK
  <2> QED BY <1>1, <2>3 DEF RefsInv, FreedLast
<1>7. DownsFit' /\ AtUser'
  BY <1>1, <1>3 DEF RefsInv, DownsFit, AtUser
<1> QED BY <1>2, <1>5, <1>6, <1>7 DEF RefsInv

(* A process destroys the entry for itself.                                *)
LEMMA DestroyRefs ==
  ASSUME RefsInv, NEW t \in Thread, Destroy(t)
  PROVE  RefsInv'
<1> USE SemAssumption, SemsAssumption
<1>0. PICK p \in Proc : p = Home[t]
  OBVIOUS
<1>1. /\ has[p] /\ has' = [has EXCEPT ![p] = FALSE]
      /\ refs' = refs - 1 /\ freed' = (freed \/ refs = 1)
      /\ UNCHANGED <<value, lck, pc, op, taken, given, sent>>
  BY <1>0 DEF Destroy, Unref, semaphoreVars, semVars, countVars
<1>3. p \in Holders /\ Holders' = Holders \ {p} /\ Working' = Working /\ Downs' = Downs
  BY <1>1 DEF RefsInv, SemsTypeOK, Holders, Working, Downs
<1>4. Cardinality(Holders) = Cardinality(Holders') + 1 /\ Cardinality(Holders') \in Nat
  BY <1>3, OneLess, Sizes
<1>5. RefsAre' /\ refs >= 1 /\ refs \in Nat
  BY <1>1, <1>3, <1>4, Sizes DEF RefsInv, RefsAre, SemsTypeOK
<1>6. FreedLast'
  <2>1. ~ freed
    BY <1>5 DEF RefsInv, FreedLast
  <2>2. freed' <=> refs = 1
    BY <1>1, <2>1, Zenon
  <2>3. refs' = 0 <=> refs = 1
    BY <1>1, <1>5
  <2> QED BY <2>2, <2>3, Zenon DEF FreedLast
<1>7. DownsFit' /\ AtUser'
  BY <1>1, <1>3 DEF RefsInv, DownsFit, AtUser
<1>8. SemsTypeOK'
  <2>1. refs' \in Nat /\ freed' \in BOOLEAN /\ has' \in [Proc -> BOOLEAN]
    BY <1>1, <1>5 DEF RefsInv, SemsTypeOK
  <2> QED BY <1>1, <2>1 DEF RefsInv, SemsTypeOK
<1> QED BY <1>5, <1>6, <1>7, <1>8 DEF RefsInv

(* The invariant of the references: SemsTypeOK, refs and freed as they     *)
(* should be, and the bound on the downs, for every step of op, clone,     *)
(* destroy, of the semaphore below and of signals.                         *)
THEOREM SemsInvariant == SemsSpec => []RefsInv
<1>1. SemsInit => RefsInv
  BY RefsInit
<1>2. RefsInv /\ [SemsNext]_semsVars => RefsInv'
  <2> SUFFICES ASSUME RefsInv, [SemsNext]_semsVars PROVE RefsInv'
    OBVIOUS
  <2>0. /\ value \in Int /\ lck \in Thread \cup {Null} /\ pc \in [Thread -> Points]
        /\ sent \in 0 .. MaxSent
    BY DEF RefsInv, SemsTypeOK
  <2>1. CASE UNCHANGED semsVars
    <3>1. UNCHANGED <<value, lck, pc, entryVars, op, taken, given, sent>>
      BY <2>1 DEF semsVars, semaphoreVars, semVars, countVars
    <3> QED BY <2>0, <3>1, RefsFrame
  <2>2. ASSUME NEW t \in Thread, NEW kind \in {"down", "up"}, Op(t, kind) PROVE RefsInv'
    BY <2>2, OpRefs
  <2>3. ASSUME NEW t \in Thread, OpReturn(t) PROVE RefsInv'
    BY <2>3, OpReturnRefs
  <2>4. ASSUME NEW t \in Thread, NEW q \in Proc, Clone(t, q) PROVE RefsInv'
    BY <2>4, CloneRefs
  <2>5. ASSUME NEW t \in Thread, Destroy(t) PROVE RefsInv'
    BY <2>5, DestroyRefs
  <2>6. ASSUME NEW t \in Thread, SemStep(t), UNCHANGED <<entryVars, op, countVars>>
        PROVE  RefsInv'
    <3>1. /\ value' \in Int /\ lck' \in Thread \cup {Null} /\ pc' \in [Thread -> Points]
          /\ \A u \in Thread : pc'[u] \in {"user", "signal"} <=> pc[u] \in {"user", "signal"}
      BY <2>0, <2>6, SemStepFrame
    <3>2. UNCHANGED <<entryVars, op, taken, given, sent>>
      BY <2>6 DEF countVars
    <3> QED BY <2>0, <3>1, <3>2, RefsFrame
  <2>7. ASSUME NEW t \in Thread, Yield(t) \/ HandleSignal(t),
               UNCHANGED <<entryVars, op, countVars>>
        PROVE  RefsInv'
    <3>1. UNCHANGED <<value, lck, pc, entryVars, op, taken, given, sent>>
      BY <2>7 DEF Yield, HandleSignal, semVars, countVars
    <3> QED BY <2>0, <3>1, RefsFrame
  <2>8. ASSUME LeaveIdle, UNCHANGED <<entryVars, op, countVars>> PROVE RefsInv'
    <3>1. UNCHANGED <<value, lck, pc, entryVars, op, taken, given, sent>>
      BY <2>8 DEF LeaveIdle, semVars, countVars
    <3> QED BY <2>0, <3>1, RefsFrame
  <2>9. ASSUME NEW t \in Thread, NEW u \in Thread, sent < MaxSent, AddSignal(t, u),
               sent' = sent + 1, UNCHANGED <<entryVars, op, taken, given>>
        PROVE  RefsInv'
    <3>1. /\ pc[t] = "user" /\ pc' = [pc EXCEPT ![t] = "signal"]
          /\ value' = value /\ lck' = lck
      BY <2>9 DEF AddSignal, Runs, Goto, semVars
    <3>2. /\ pc' \in [Thread -> Points]
          /\ \A v \in Thread : pc'[v] \in {"user", "signal"} <=> pc[v] \in {"user", "signal"}
      BY <2>0, <3>1 DEF Points
    <3>3. sent' \in 0 .. MaxSent
      BY <2>0, <2>9, SemsAssumption
    <3> QED BY <2>0, <2>9, <3>1, <3>2, <3>3, RefsFrame
  <2> QED BY <2>1, <2>2, <2>3, <2>4, <2>5, <2>6, <2>7, <2>8, <2>9 DEF SemsNext
<1> QED BY <1>1, <1>2, PTL DEF SemsSpec

(* The references of the entry are the tables that hold it and the         *)
(* operations in flight, and it is freed with the last of them (op, clone, *)
(* destroy and unref), for every number of processes, threads and          *)
(* processors, and whoever is signalled.                                   *)
THEOREM SemsRefsExact == SemsSpec => []RefsExact
<1>1. RefsInv => RefsExact
  BY DEF RefsInv, RefsAre, FreedLast, RefsExact, Holders, Working
<1> QED BY <1>1, SemsInvariant, PTL

-----------------------------------------------------------------------------
(* Then their permits, as long as nobody has been signalled.               *)

(* Where the threads are in their operations.                              *)
OpAt ==
  \A t \in Thread :
    /\ op[t] = "none" <=> pc[t] \in {"user", "signal"}
    /\ op[t] = "up" <=> pc[t] \in {"up", "inc", "done"}

(* Every permit is free, granted, still to be given back or taken; nobody  *)
(* waits while one is free.                                                *)
Balance ==
  (((value + waiters.len) + Cardinality(Grants)) + Cardinality(Ups)) + taken
    = Value0 + given

NoneIdle ==
  /\ value + waiters.len >= 0
  /\ waiters.len > 0 => value + waiters.len = 0

(* Nobody has been signalled.                                              *)
Silent == \A t \in Thread : ~ sigmask[t] /\ pc[t] # "signal"

PermitIs(w) == Calm(w) /\ Silent /\ OpAt /\ Balance /\ NoneIdle

PermitInv == Undisturbed => \E w \in Seq(Thread) : PermitIs(w)

(* What a step does to the permits.                                        *)
PermitStep == \E v \in Seq(Thread) : PermitIs(v)'

(* Sums of permits: one more on both sides, one moved, one moved back.     *)
LEMMA SumMoves ==
  ASSUME NEW a \in Int, NEW b \in Int, NEW c \in Int, NEW d \in Int
  PROVE  /\ ((a + b) + (c + 1)) + d = (((a + b) + c) + d) + 1
         /\ ((a + (b + 1)) + c) + d = ((a + b) + c) + (d + 1)
         /\ ((a + (b + 1)) + c) + d = ((a + b) + (c + 1)) + d
  OBVIOUS

(* The sizes of the two sets.                                              *)
LEMMA PermitSizes ==
  /\ IsFiniteSet(Grants) /\ Cardinality(Grants) \in Nat
  /\ IsFiniteSet(Ups) /\ Cardinality(Ups) \in Nat
<1>1. Grants \in SUBSET Thread /\ Ups \in SUBSET Thread
  BY DEF Grants, Ups
<1>2. IsFiniteSet(Thread)
  BY SemAssumption
<1>3. IsFiniteSet(Grants) /\ IsFiniteSet(Ups)
  BY <1>1, <1>2, FS_Subset
<1> QED BY <1>3, FS_CardinalityType

(* Initially all permits are free.                                         *)
LEMMA PermitInit ==
  ASSUME SemsInit
  PROVE  PermitInv
<1> USE SemAssumption, SemsAssumption
<1>1. Calm(<< >>) /\ << >> \in Seq(Thread) /\ Grants = {} /\ Ups = {}
  BY CalmInit DEF SemsInit
<1>2. OpAt /\ Silent
  BY DEF SemsInit, SemInit, OpAt, Silent
<1>3. Cardinality({}) = 0
  BY FS_EmptySet
<1>4. value = Value0 /\ waiters.len = 0 /\ taken = 0 /\ given = 0
  BY DEF SemsInit, SemInit, EmptyList
<1>5. Balance /\ NoneIdle
  BY <1>1, <1>3, <1>4 DEF Balance, NoneIdle
<1> QED BY <1>1, <1>2, <1>5 DEF PermitInv, PermitIs

(* No step inside of the semaphore sends a signal.                         *)
LEMMA StepSilent ==
  ASSUME SemTypeOK, Quiet, Silent, NEW t \in Thread, SemStep(t)
  PROVE  Silent'
<1>1. \A x : pc' = [pc EXCEPT ![t] = x] /\ x # "signal" /\ sigmask' = sigmask => Silent'
  BY DEF Silent, SemTypeOK
<1>2. CASE Lock(t, "down", "dec") \/ Lock(t, "up", "inc") \/ BeginNoSigs(t)
  BY <1>1, <1>2 DEF Lock, BeginNoSigs, Goto, sigVars
<1>3. CASE Dec(t)
  <2>1. PICK x \in {"switch", "nosigs", "acquired"} : pc' = [pc EXCEPT ![t] = x]
    BY <1>3 DEF Dec, Goto
  <2> QED BY <1>1, <1>3, <2>1 DEF Dec, sigVars
<1>4. CASE Switch(t) \/ Relock(t) \/ Inc(t)
  BY <1>1, <1>4 DEF Switch, Relock, Inc, Goto, sigVars
<1>5. CASE Resume(t)
  <2>1. PICK x \in {"intr", "relock"} : pc' = [pc EXCEPT ![t] = x]
    BY <1>5 DEF Resume, Goto
  <2> QED BY <1>1, <1>5, <2>1 DEF Resume
<1>6. ~ SignalUnblock(t) /\ ~ LeaveWaiters(t) /\ ~ GiveBack(t)
  BY DEF SignalUnblock, LeaveWaiters, GiveBack, Runs, Silent, Quiet
<1> QED BY <1>2, <1>3, <1>4, <1>5, <1>6 DEF SemStep

(* The steps inside of Semaphore::down and Semaphore::up.                  *)
LEMMA SemStepPermits ==
  ASSUME NEW w \in Seq(Thread), PermitIs(w), SemsTypeOK, NEW t \in Thread, SemStep(t),
         UNCHANGED <<op, taken, given>>
  PROVE  PermitStep
<1> USE SemAssumption
<1>1. Calm(w) /\ OpAt /\ Balance /\ NoneIdle /\ pc[t] # "signal"
  BY DEF PermitIs, Silent
<1>s. Silent'
  BY StepSilent DEF PermitIs, Calm
<1>2. PICK v \in Seq(Thread) : Calm(v)' /\ Flow(w, v, t)
  BY <1>1, SemStepGoes DEF SemGoes
<1>3. OpAt'
  <2>1. PartsKept
    BY <1>1, SemStepGoes DEF SemGoes
  <2> QED BY <1>1, <2>1 DEF OpAt, PartsKept
<1>4. waiters.len = Len(w) /\ Len(w) \in Nat /\ value \in Int
  BY <1>1, CalmLen
<1>5. waiters'.len = Len(v) /\ Len(v) \in Nat
  BY <1>2 DEF Calm, ListsAre, Represents
<1>6. taken \in Nat /\ given \in Nat /\ taken' = taken /\ given' = given
  BY DEF SemsTypeOK
<1>g. PICK g \in Nat : g = Cardinality(Grants)
  BY PermitSizes
<1>u. PICK k \in Nat : k = Cardinality(Ups)
  BY PermitSizes
<1>7. /\ (((value + Len(w)) + g) + k) + taken = Value0 + given
      /\ value + Len(w) >= 0
      /\ Len(w) > 0 => value + Len(w) = 0
  BY <1>1, <1>4, <1>g, <1>u DEF Balance, NoneIdle
<1>8. ASSUME (((value' + Len(v)) + Cardinality(Grants')) + Cardinality(Ups')) + taken
               = Value0 + given,
             value' + Len(v) >= 0, Len(v) > 0 => value' + Len(v) = 0
      PROVE  PermitStep
  <2>1. Balance'
    BY <1>5, <1>6, <1>8 DEF Balance
  <2>2. NoneIdle'
    BY <1>5, <1>8 DEF NoneIdle
  <2> QED BY <2>1, <2>2, <1>2, <1>3, <1>s DEF PermitStep, PermitIs
<1>9. CASE Stays(w, v)
  <2>1. v = w /\ value' = value /\ Cardinality(Grants') = g /\ Cardinality(Ups') = k
    BY <1>9, <1>g, <1>u DEF Stays
  <2> QED BY <2>1, <1>7, <1>8
<1>10. CASE Waits(w, v, t)
  <2>1. /\ value' = value - 1 /\ Cardinality(Grants') = g /\ Cardinality(Ups') = k
        /\ Len(v) = Len(w) + 1
    BY <1>10, <1>g, <1>u DEF Waits
  <2>2. value - 1 < 0 \/ Len(w) > 0
    BY <1>10, <1>4 DEF Waits, MustWait
  <2> QED BY <2>1, <2>2, <1>4, <1>6, <1>7, <1>8
<1>11. CASE Takes(w, v, t)
  <2>1. value' = value - 1 /\ v = w /\ Cardinality(Ups') = k
    BY <1>11, <1>u DEF Takes
  <2>2. Cardinality(Grants') = g + 1
    BY <1>11, <1>g, OneMore, PermitSizes DEF Takes
  <2>3. value - 1 >= 0 /\ Len(w) = 0
    BY <1>11, <1>4 DEF Takes, MustWait
  <2> QED BY <2>1, <2>2, <2>3, <1>4, <1>6, <1>7, <1>8
<1>12. CASE Frees(w, v, t)
  <2>1. value' = value + 1 /\ v = w /\ Len(w) = 0 /\ Cardinality(Grants') = g
    BY <1>12, <1>g DEF Frees
  <2>2. Cardinality(Ups') + 1 = k /\ Cardinality(Ups') \in Nat
    BY <1>12, <1>u, OneLess, PermitSizes DEF Frees
  <2> QED BY <2>1, <2>2, <1>4, <1>6, <1>7, <1>8
<1>13. CASE Hands(w, v, t)
  <2>1. value' = value + 1 /\ v = Tail(w) /\ w # << >>
    BY <1>13 DEF Hands
  <2>2. Len(v) = Len(w) - 1 /\ Len(w) > 0
    BY <2>1
  <2>3. Cardinality(Grants') = g + 1
    BY <1>13, <1>g, OneMore, PermitSizes DEF Hands
  <2>4. Cardinality(Ups') + 1 = k /\ Cardinality(Ups') \in Nat
    BY <1>13, <1>u, OneLess, PermitSizes DEF Hands
  <2>5. PICK k2 \in Nat : k2 = Cardinality(Ups') /\ k2 + 1 = k
    BY <2>4
  <2>6. PICK n \in Int : n = Len(v) /\ n + 1 = Len(w)
    BY <2>2, <1>4, <1>5
  <2>7. value' + n = value + Len(w) /\ value + Len(w) = 0
    BY <2>1, <2>2, <2>6, <1>4, <1>7
  <2>8. (((value + Len(w)) + (g + 1)) + k2) + taken = Value0 + given
    <3>1. value + Len(w) \in Int
      BY <1>4
    <3>2. (((value + Len(w)) + g) + (k2 + 1)) + taken = Value0 + given
      BY <2>5, <1>7
    <3> QED BY <3>1, <3>2, <1>6, SumMoves
  <2>9. (((value' + Len(v)) + Cardinality(Grants')) + Cardinality(Ups')) + taken
          = Value0 + given
    BY <2>3, <2>5, <2>6, <2>7, <2>8
  <2>10. value' + Len(v) = 0
    BY <2>6, <2>7
  <2> QED BY <2>9, <2>10, <1>8
<1> QED BY <1>2, <1>9, <1>10, <1>11, <1>12, <1>13 DEF Flow

(* A step that moves no permit.                                            *)
LEMMA StillPermits ==
  ASSUME NEW w \in Seq(Thread), PermitIs(w), Calm(w)', Silent', Stays(w, w), OpAt',
         UNCHANGED <<taken, given>>
  PROVE  PermitStep
<1>1. Calm(w) /\ Balance /\ NoneIdle
  BY DEF PermitIs
<1>2. waiters.len = Len(w) /\ waiters'.len = Len(w)
  BY <1>1 DEF Calm, ListsAre, Represents
<1>3. Balance' /\ NoneIdle'
  BY <1>1, <1>2 DEF Stays, Balance, NoneIdle
<1> QED BY <1>3 DEF PermitStep, PermitIs

(* op calls down() or up().                                                *)
LEMMA OpPermits ==
  ASSUME NEW w \in Seq(Thread), PermitIs(w), SemsTypeOK,
         NEW t \in Thread, NEW kind \in {"down", "up"}, Op(t, kind)
  PROVE  PermitStep
<1> USE SemAssumption
<1>0. SemTypeOK /\ Quiet /\ Placed /\ Calm(w) /\ Silent /\ OpAt /\ Balance /\ NoneIdle
  BY DEF PermitIs, Calm
<1>1. /\ pc[t] = "user" /\ op[t] = "none" /\ state[t] = "RUNNING"
      /\ op' = [op EXCEPT ![t] = kind] /\ pc' = [pc EXCEPT ![t] = kind]
      /\ taken' = taken /\ given' = IF kind = "up" THEN given + 1 ELSE given
      /\ UNCHANGED <<value, waiters, lck, next, ready, state, newState,
                     ignSigs, sigmask, target>>
  BY DEF Op, Idle, Runs, Goto, semVars, schedVars, sigVars
<1>2. SemTypeOK' /\ Quiet' /\ Placed'
  BY <1>0, <1>1 DEF SemTypeOK, Quiet, Placed, Points
<1>3. \A u \in Thread : Sleeping(u)' <=> Sleeping(u)
  BY <1>0, <1>1 DEF SemTypeOK, Sleeping
<1>4. Calm(w)'
  BY <1>0, <1>1, <1>2, <1>3, SameLists
<1>s. Silent'
  BY <1>0, <1>1 DEF SemTypeOK, Silent
<1>5. OpAt'
  BY <1>0, <1>1 DEF SemTypeOK, SemsTypeOK, OpAt
<1>6. Grants' = Grants
  BY <1>0, <1>1 DEF SemTypeOK, Granted, Grants
<1>7. Balance'
  <2>1. CASE kind = "down"
    <3>1. Ups' = Ups
      BY <1>0, <1>1, <2>1 DEF SemTypeOK, Ups
    <3> QED BY <1>0, <1>1, <1>6, <2>1, <3>1 DEF Balance
  <2>2. CASE kind = "up"
    <3>1. t \notin Ups /\ Ups' = Ups \cup {t}
      BY <1>0, <1>1, <2>2 DEF SemTypeOK, Ups
    <3>2. Cardinality(Ups') = Cardinality(Ups) + 1
      BY <3>1, OneMore, PermitSizes
    <3>3. /\ Cardinality(Ups) \in Nat /\ Cardinality(Grants) \in Nat
          /\ value \in Int /\ waiters.len \in Int /\ taken \in Nat /\ given \in Nat
      BY <1>0, PermitSizes, CalmLen DEF SemsTypeOK
    <3>4. given' = given + 1
      BY <1>1, <2>2
    <3>5. PICK g \in Nat, k \in Nat, l \in Int :
            g = Cardinality(Grants) /\ k = Cardinality(Ups) /\ l = waiters.len
      BY <3>3
    <3>6. (((value + l) + g) + k) + taken = Value0 + given
      BY <1>0, <3>5 DEF Balance
    <3>7. (((value + l) + g) + (k + 1)) + taken = Value0 + (given + 1)
      <4>1. value + l \in Int /\ (Value0 + given) + 1 = Value0 + (given + 1)
        BY <3>3
      <4> QED BY <4>1, <3>3, <3>6, SumMoves
    <3>8. /\ value' = value /\ waiters'.len = l /\ Cardinality(Grants') = g
          /\ Cardinality(Ups') = k + 1 /\ taken' = taken
      BY <1>1, <1>6, <3>2, <3>5
    <3> QED BY <3>4, <3>7, <3>8 DEF Balance
  <2> QED BY <2>1, <2>2
<1>8. NoneIdle'
  BY <1>0, <1>1 DEF NoneIdle
<1> QED BY <1>4, <1>s, <1>5, <1>7, <1>8 DEF PermitStep, PermitIs

(* op returns: a down has taken its permit.                                *)
LEMMA OpReturnPermits ==
  ASSUME NEW w \in Seq(Thread), PermitIs(w), SemsTypeOK, NEW t \in Thread, OpReturn(t)
  PROVE  PermitStep
<1> USE SemAssumption
<1>0. SemTypeOK /\ Quiet /\ Placed /\ Calm(w) /\ Silent /\ OpAt /\ Balance /\ NoneIdle
  BY DEF PermitIs, Calm
<1>1. /\ pc[t] \in {"acquired", "done"} /\ state[t] = "RUNNING"
      /\ op' = [op EXCEPT ![t] = "none"] /\ pc' = [pc EXCEPT ![t] = "user"]
      /\ given' = given
      /\ UNCHANGED <<value, waiters, lck, next, ready, state, newState,
                     ignSigs, sigmask, target>>
  BY DEF OpReturn, Runs, Goto, semVars, schedVars, sigVars
<1>2. SemTypeOK' /\ Quiet' /\ Placed'
  BY <1>0, <1>1 DEF SemTypeOK, Quiet, Placed, Points
<1>3. \A u \in Thread : Sleeping(u)' <=> Sleeping(u)
  BY <1>0, <1>1 DEF SemTypeOK, Sleeping
<1>4. Calm(w)'
  BY <1>0, <1>1, <1>2, <1>3, SameLists
<1>s. Silent'
  BY <1>0, <1>1 DEF SemTypeOK, Silent
<1>5. OpAt'
  BY <1>0, <1>1 DEF SemTypeOK, SemsTypeOK, OpAt
<1>6. Ups' = Ups
  BY <1>0, <1>1 DEF SemTypeOK, Ups
<1>7. Balance'
  <2>1. CASE pc[t] = "done"
    <3>1. taken' = taken
      BY <1>0, <2>1 DEF OpReturn, OpAt
    <3>2. Grants' = Grants
      BY <1>0, <1>1, <2>1 DEF SemTypeOK, Granted, Grants
    <3> QED BY <1>0, <1>1, <1>6, <3>1, <3>2 DEF Balance
  <2>2. CASE pc[t] = "acquired"
    <3>1. taken' = taken + 1
      <4>1. ~ Interrupted(t) /\ op[t] # "up"
        BY <1>0, <2>2 DEF Interrupted, HasSignal, Silent, OpAt
      <4> QED BY <4>1 DEF OpReturn
    <3>2. t \in Grants /\ Grants' = Grants \ {t}
      BY <1>0, <1>1, <2>2 DEF SemTypeOK, Granted, Grants
    <3>3. Cardinality(Grants) = Cardinality(Grants') + 1 /\ Cardinality(Grants') \in Nat
      BY <3>2, OneLess, PermitSizes
    <3>4. /\ Cardinality(Ups) \in Nat
          /\ value \in Int /\ waiters.len \in Int /\ taken \in Nat /\ given \in Nat
      BY <1>0, PermitSizes, CalmLen DEF SemsTypeOK
    <3>5. PICK g \in Nat, k \in Nat, l \in Int :
            g = Cardinality(Grants') /\ k = Cardinality(Ups) /\ l = waiters.len
      BY <3>3, <3>4
    <3>6. (((value + l) + (g + 1)) + k) + taken = Value0 + given
      BY <1>0, <3>3, <3>5 DEF Balance
    <3>7. (((value + l) + g) + k) + (taken + 1) = Value0 + given
      <4>1. value + l \in Int
        BY <3>4
      <4> QED BY <4>1, <3>4, <3>6, SumMoves
    <3>8. /\ value' = value /\ waiters'.len = l /\ Cardinality(Grants') = g
          /\ Cardinality(Ups') = k /\ given' = given
      BY <1>1, <1>6, <3>5
    <3> QED BY <3>1, <3>7, <3>8 DEF Balance
  <2> QED BY <1>1, <2>1, <2>2
<1>8. NoneIdle'
  BY <1>0, <1>1 DEF NoneIdle
<1> QED BY <1>4, <1>s, <1>5, <1>7, <1>8 DEF PermitStep, PermitIs

(* What leaves the semaphore and the operations alone.                     *)
LEMMA FramePermits ==
  ASSUME NEW w \in Seq(Thread), PermitIs(w), UNCHANGED <<semaphoreVars, op, taken, given>>
  PROVE  PermitStep
<1>0. SemTypeOK /\ Quiet /\ Placed /\ Calm(w) /\ OpAt /\ Silent
  BY DEF PermitIs, Calm
<1>1. UNCHANGED <<pc, value, waiters, lck, next, ready, state, newState,
                  ignSigs, sigmask, target, op>>
  BY DEF semaphoreVars, semVars, schedVars, sigVars
<1>2. SemTypeOK' /\ Quiet' /\ Placed' /\ OpAt' /\ Silent'
  BY <1>0, <1>1 DEF SemTypeOK, Quiet, Placed, OpAt, Silent
<1>3. \A u \in Thread : (Sleeping(u)' <=> Sleeping(u)) /\ (Granted(u)' <=> Granted(u))
  BY <1>1 DEF Sleeping, Granted
<1>4. Calm(w)'
  BY <1>0, <1>1, <1>2, <1>3, SameLists
<1>5. Stays(w, w)
  BY <1>1, <1>3, SameSets DEF Stays
<1> QED BY <1>2, <1>4, <1>5, StillPermits

(* No permit comes from nowhere and none is lost as long as nobody is      *)
(* signalled (Sems::op over Semaphore::down and up): at most Value0 downs  *)
(* more than ups succeed, and whoever sleeps while nobody else is in an    *)
(* operation sleeps because all permits are taken.  For every number of    *)
(* processes, threads and processors.                                      *)
THEOREM SemsPermitsExact == SemsSpec => []PermitsExact
<1>1. SemsInit => PermitInv
  BY PermitInit
<1>2. PermitInv /\ RefsInv /\ [SemsNext]_semsVars => PermitInv'
  <2> SUFFICES ASSUME PermitInv, RefsInv, [SemsNext]_semsVars, Undisturbed'
               PROVE  PermitStep
    BY DEF PermitInv, PermitStep
  <2>0. SemsTypeOK /\ sent \in Nat /\ sent' = 0
    BY DEF RefsInv, SemsTypeOK, Undisturbed
  <2>1. ASSUME sent < MaxSent, sent' = sent + 1 PROVE FALSE
    BY <2>0, <2>1
  <2>2. CASE sent' = sent
    <3>1. PICK w \in Seq(Thread) : PermitIs(w)
      BY <2>0, <2>2 DEF PermitInv, Undisturbed
    <3>2. Calm(w) /\ OpAt /\ Silent
      BY <3>1 DEF PermitIs
    <3>3. CASE UNCHANGED semsVars
      BY <3>1, <3>3, FramePermits DEF semsVars, countVars
    <3>4. ASSUME NEW t \in Thread, NEW kind \in {"down", "up"}, Op(t, kind)
          PROVE  PermitStep
      BY <2>0, <3>1, <3>4, OpPermits
    <3>5. ASSUME NEW t \in Thread, OpReturn(t) PROVE PermitStep
      BY <2>0, <3>1, <3>5, OpReturnPermits
    <3>6. ASSUME NEW t \in Thread, (\E q \in Proc : Clone(t, q)) \/ Destroy(t)
          PROVE  PermitStep
      BY <3>1, <3>6, FramePermits DEF Clone, Destroy, countVars
    <3>7. ASSUME NEW t \in Thread, SemStep(t), UNCHANGED <<entryVars, op, countVars>>
          PROVE  PermitStep
      BY <2>0, <3>1, <3>7, SemStepPermits DEF countVars
    <3>8. ASSUME NEW t \in Thread, Yield(t), UNCHANGED <<entryVars, op, countVars>>
          PROVE  PermitStep
      <4>1. PartsKept /\ Calm(w)' /\ Stays(w, w)
        BY <3>2, <3>8, YieldGoes
      <4>2. OpAt'
        BY <3>2, <3>8, <4>1 DEF OpAt, PartsKept
      <4>3. Silent'
        BY <3>2, <3>8 DEF Yield, sigVars, Silent
      <4> QED BY <3>1, <3>8, <4>1, <4>2, <4>3, StillPermits DEF countVars
    <3>9. ASSUME LeaveIdle, UNCHANGED <<entryVars, op, countVars>> PROVE PermitStep
      <4>1. PartsKept /\ Calm(w)' /\ Stays(w, w)
        BY <3>2, <3>9, LeaveIdleGoes
      <4>2. OpAt'
        BY <3>2, <3>9, <4>1 DEF OpAt, PartsKept
      <4>3. Silent'
        BY <3>2, <3>9 DEF LeaveIdle, sigVars, Silent
      <4> QED BY <3>1, <3>9, <4>1, <4>2, <4>3, StillPermits DEF countVars
    <3>10. ASSUME NEW t \in Thread, HandleSignal(t) PROVE FALSE
      BY <3>2, <3>10 DEF HandleSignal, Silent
    <3>11. ASSUME sent' = sent + 1 PROVE FALSE
      BY <2>0, <2>2, <3>11
    <3> QED BY <3>3, <3>4, <3>5, <3>6, <3>7, <3>8, <3>9, <3>10, <3>11 DEF SemsNext
  <2>3. CASE sent' # sent
    <3>1. sent < MaxSent /\ sent' = sent + 1
      BY <2>3 DEF SemsNext, semsVars, countVars, Op, OpReturn, Clone, Destroy
    <3> QED BY <3>1, <2>1
  <2> QED BY <2>2, <2>3
<1>3. PermitInv /\ RefsInv => PermitsExact
  <2> SUFFICES ASSUME PermitInv, RefsInv, Undisturbed
               PROVE  /\ taken <= Value0 + given
                      /\ /\ \E t \in Thread : Sleeps(t)
                         /\ \A t \in Thread : op[t] # "none" => Sleeps(t)
                         => taken = Value0 + given
    BY DEF PermitsExact
  <2>1. PICK w \in Seq(Thread) : PermitIs(w)
    BY DEF PermitInv
  <2>2. Calm(w) /\ OpAt /\ Balance /\ NoneIdle
    BY <2>1 DEF PermitIs
  <2>3. /\ value \in Int /\ waiters.len = Len(w) /\ Len(w) \in Nat
        /\ Cardinality(Grants) \in Nat /\ Cardinality(Ups) \in Nat
        /\ taken \in Nat /\ given \in Nat /\ Value0 \in Nat
    BY <2>2, CalmLen, PermitSizes, SemAssumption DEF RefsInv, SemsTypeOK
  <2>4. taken <= Value0 + given
    BY <2>2, <2>3 DEF Balance, NoneIdle
  <2>5. ASSUME NEW s \in Thread, Sleeps(s),
               \A t \in Thread : op[t] # "none" => Sleeps(t)
        PROVE  taken = Value0 + given
    <3>1. Grants = {} /\ Ups = {}
      <4>1. ASSUME NEW t \in Thread, Granted(t) \/ pc[t] \in {"up", "inc"} PROVE FALSE
        <5>1. op[t] # "none"
          BY <2>2, <4>1 DEF OpAt, Granted
        <5>2. pc[t] = "resume" /\ state[t] = "BLOCKED"
          BY <5>1, <2>5 DEF Sleeps
        <5> QED BY <5>2, <4>1 DEF Granted
      <4> QED BY <4>1 DEF Grants, Ups
    <3>2. Cardinality(Grants) = 0 /\ Cardinality(Ups) = 0
      BY <3>1, FS_EmptySet
    <3>3. Len(w) > 0
      <4>1. InList(w, s)
        BY <2>2, <2>5, CalmLen DEF Sleeps, Sleeping
      <4> QED BY <4>1, <2>3 DEF InList
    <3> QED BY <2>2, <2>3, <3>2, <3>3 DEF Balance, NoneIdle
  <2> QED BY <2>4, <2>5
<1> QED BY <1>1, <1>2, <1>3, SemsInvariant, PTL DEF SemsSpec
=============================================================================
