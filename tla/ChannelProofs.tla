--------------------------- MODULE ChannelProofs ---------------------------
(***************************************************************************)
(* The invariants of Channel, for one processor and a driver that lives.   *)
(***************************************************************************)
EXTENDS Channel, DList, FiniteSetTheorems, WellFoundedInduction, TLAPS, SequenceTheorems

-----------------------------------------------------------------------------
(* What the list operations do to membership and to distinctness. *)

(* Only the empty list has no members.                                     *)
LEMMA NoMembers ==
  ASSUME NEW S, NEW s \in Seq(S)
  PROVE  /\ s = << >> <=> \A x \in S : ~ InList(s, x)
         /\ \A x : InList(s, x) => x \in S
<1>1. ASSUME s # << >> PROVE \E x \in S : InList(s, x)
  <2>1. Len(s) \in Nat /\ Len(s) >= 1 /\ s[1] \in S
    BY <1>1
  <2> QED BY <2>1 DEF InList
<1>2. ASSUME s = << >> PROVE \A x \in S : ~ InList(s, x)
  BY <1>2 DEF InList
<1>3. \A x : InList(s, x) => x \in S
  BY DEF InList
<1> QED BY <1>1, <1>2, <1>3

(* Unlinking takes just the one element off a distinct list.               *)
LEMMA UnlinkMembers ==
  ASSUME NEW S, NEW s \in Seq(S), NEW e, Distinct(s)
  PROVE  /\ Unlink(s, e) \in Seq(S)
         /\ Distinct(Unlink(s, e))
         /\ \A x : InList(Unlink(s, e), x) <=> InList(s, x) /\ x # e
<1>1. CASE ~ InList(s, e)
  BY <1>1 DEF Unlink, InList
<1>2. CASE InList(s, e)
  <2> DEFINE k == Place(s, e)
             u == [i \in 1 .. (Len(s) - 1) |-> IF i < k THEN s[i] ELSE s[i + 1]]
  <2>1. k \in 1 .. Len(s) /\ s[k] = e
    BY <1>2 DEF Place, InList
  <2>2. Len(s) \in Nat /\ Len(s) - 1 \in Nat
    BY <2>1
  <2>3. u \in Seq(S) /\ Len(u) = Len(s) - 1
    <3>1. u \in [1 .. (Len(s) - 1) -> S]
      BY <2>1, <2>2
    <3> QED BY <3>1, <2>2
  <2>4. \A i \in 1 .. (Len(s) - 1) : u[i] = IF i < k THEN s[i] ELSE s[i + 1]
    OBVIOUS
  <2>5. Unlink(s, e) = u
    BY <1>2 DEF Unlink
  <2> HIDE DEF u, k
  <2>6. Distinct(u)
    BY <2>1, <2>2, <2>3, <2>4 DEF Distinct
  <2>7. ASSUME NEW x, InList(u, x)
        PROVE  InList(s, x) /\ x # e
    BY <2>7, <2>1, <2>2, <2>3, <2>4 DEF InList, Distinct
  <2>8. ASSUME NEW x, InList(s, x), x # e
        PROVE  InList(u, x)
    <3>1. PICK i \in 1 .. Len(s) : s[i] = x
      BY <2>8 DEF InList
    <3>2. CASE i < k
      BY <3>1, <3>2, <2>1, <2>2, <2>3, <2>4 DEF InList
    <3>3. CASE i > k
      <4>1. i - 1 \in 1 .. Len(u) /\ u[i - 1] = x
        BY <3>1, <3>3, <2>1, <2>2, <2>3, <2>4
      <4> QED BY <4>1 DEF InList
    <3> QED BY <3>1, <3>2, <3>3, <2>1, <2>8
  <2> QED BY <2>3, <2>5, <2>6, <2>7, <2>8
<1> QED BY <1>1, <1>2

-----------------------------------------------------------------------------
(* A set of positive numbers that is not empty has a least one.            *)
LEMMA LeastPlace ==
  ASSUME NEW n \in Nat, NEW T \in SUBSET (1 .. n), T # {}
  PROVE  Min(T) \in T /\ \A y \in T : ~ (y < Min(T))
<1> DEFINE R == OpToRel(<, Nat)
<1>1. IsWellFoundedOn(R, Nat)
  BY NatLessThanWellFounded
<1>2. T \subseteq Nat
  OBVIOUS
<1>3. PICK x \in T : \A y \in T : ~ (<<y, x>> \in R)
  <2> HIDE DEF R
  <2> QED BY <1>1, <1>2, WFMin
<1>4. ASSUME NEW y \in T PROVE x <= y
  <2>1. ~ (<<y, x>> \in R)
    BY <1>3
  <2>2. y \in Nat /\ x \in Nat
    BY <1>2
  <2>3. ~ (y < x)
    BY <2>1, <2>2 DEF OpToRel
  <2> QED BY <2>2, <2>3
<1>5. Min(T) \in T /\ \A y \in T : Min(T) <= y
  BY <1>4 DEF Min
<1>6. PICK m : m = Min(T)
  OBVIOUS
<1>7. m \in Nat /\ \A y \in T : y \in Nat /\ m <= y
  BY <1>2, <1>5, <1>6
<1>8. \A y \in T : ~ (y < m)
  BY <1>7
<1> QED BY <1>5, <1>6, <1>8

(* The places of all messages in the lists f.                              *)
Places(f) == UNION {{c} \X (1 .. Len(f[c])) : c \in Chan}

(* The places in one list.                                                 *)
LEMMA PlacesOfOne ==
  ASSUME NEW c, NEW n \in Nat
  PROVE  IsFiniteSet({c} \X (1 .. n)) /\ Cardinality({c} \X (1 .. n)) = n
<1> DEFINE f == [i \in 1 .. n |-> <<c, i>>]
           T == {c} \X (1 .. n)
<1>1. IsFiniteSet(1 .. n) /\ Cardinality(1 .. n) = n
  BY FS_Interval
<1>2. f \in Bijection(1 .. n, T)
  <2>1. f \in [1 .. n -> T]
    OBVIOUS
  <2>2. \A i, j \in 1 .. n : f[i] = f[j] => i = j
    OBVIOUS
  <2>3. \A x \in T : \E i \in 1 .. n : f[i] = x
    OBVIOUS
  <2> HIDE DEF f, T
  <2> QED BY <2>1, <2>2, <2>3 DEF Bijection, Injection, Surjection, IsInjective
<1>3. ExistsBijection(1 .. n, T)
  BY <1>2 DEF ExistsBijection
<1> QED BY <1>1, <1>3, FS_Bijection

(* The lists of the other channels do not matter for how the number of     *)
(* messages changes.                                                       *)
LEMMA PlacesChange ==
  ASSUME NEW S, NEW f \in [Chan -> Seq(S)], NEW g \in [Chan -> Seq(S)],
         NEW c \in Chan, \A d \in Chan \ {c} : g[d] = f[d],
         IsFiniteSet(Places(f))
  PROVE  /\ IsFiniteSet(Places(g))
         /\ Cardinality(Places(g)) = Cardinality(Places(f)) - Len(f[c]) + Len(g[c])
<1> DEFINE F == {c} \X (1 .. Len(f[c]))
           G == {c} \X (1 .. Len(g[c]))
           R == Places(f) \ ({c} \X Nat)
<1>0. Len(f[c]) \in Nat /\ Len(g[c]) \in Nat
  OBVIOUS
<1>1. Places(f) = R \cup F /\ R \cap F = {}
  <2>1. F \subseteq Places(f)
    BY DEF Places
  <2>2. ASSUME NEW x \in Places(f), x \in {c} \X Nat PROVE x \in F
    <3>1. PICK d \in Chan : x \in {d} \X (1 .. Len(f[d]))
      BY DEF Places
    <3>2. d = c
      BY <3>1, <2>2
    <3> QED BY <3>1, <3>2
  <2>3. F \subseteq {c} \X Nat
    BY <1>0
  <2> HIDE DEF F
  <2> QED BY <2>1, <2>2, <2>3
<1>2. Places(g) = R \cup G /\ R \cap G = {}
  <2>1. G \subseteq Places(g)
    BY DEF Places
  <2>2. ASSUME NEW x \in Places(g) PROVE x \in R \cup G
    <3>1. PICK d \in Chan : x \in {d} \X (1 .. Len(g[d]))
      BY DEF Places
    <3>2. CASE d = c
      BY <3>1, <3>2
    <3>3. CASE d # c
      <4>1. x \in {d} \X (1 .. Len(f[d]))
        BY <3>1, <3>3
      <4>2. x \in Places(f) /\ x \notin {c} \X Nat
        BY <4>1, <3>3 DEF Places
      <4> QED BY <4>2
    <3> QED BY <3>2, <3>3
  <2>3. ASSUME NEW x \in R PROVE x \in Places(g)
    <3>1. PICK d \in Chan : x \in {d} \X (1 .. Len(f[d]))
      BY DEF Places
    <3>2. d # c
      BY <3>1, <2>3
    <3>3. x \in {d} \X (1 .. Len(g[d]))
      BY <3>1, <3>2
    <3> QED BY <3>3 DEF Places
  <2>4. G \subseteq {c} \X Nat
    BY <1>0
  <2> HIDE DEF G
  <2> QED BY <2>1, <2>2, <2>3, <2>4
<1>3. IsFiniteSet(F) /\ Cardinality(F) = Len(f[c])
  BY <1>0, PlacesOfOne
<1>4. IsFiniteSet(G) /\ Cardinality(G) = Len(g[c])
  BY <1>0, PlacesOfOne
<1>5. R \in SUBSET Places(f)
  OBVIOUS
<1> HIDE DEF F, G, R
<1>6. IsFiniteSet(R)
  BY <1>5, FS_Subset
<1>7. Cardinality(R) \in Nat
  BY <1>6, FS_CardinalityType
<1>8. Cardinality(R \cup F) = Cardinality(R) + Cardinality(F) - Cardinality(R \cap F)
  BY <1>3, <1>6, FS_Union
<1>9. IsFiniteSet(R \cup G)
      /\ Cardinality(R \cup G) = Cardinality(R) + Cardinality(G) - Cardinality(R \cap G)
  BY <1>4, <1>6, FS_Union
<1>10. Cardinality({}) = 0
  BY FS_EmptySet
<1>11. Cardinality(Places(f)) = Cardinality(R) + Len(f[c]) - 0
  BY <1>1, <1>3, <1>8, <1>10
<1>12. Cardinality(Places(g)) = Cardinality(R) + Len(g[c]) - 0
  BY <1>2, <1>4, <1>9, <1>10
<1>13. IsFiniteSet(Places(g))
  BY <1>2, <1>9
<1> DEFINE r == Cardinality(R)
           l == Len(f[c])
           m == Len(g[c])
           p == Cardinality(Places(f))
           q == Cardinality(Places(g))
<1>14. p = r + l - 0 /\ q = r + m - 0 /\ r \in Nat /\ l \in Nat /\ m \in Nat
  BY <1>0, <1>7, <1>11, <1>12
<1> HIDE DEF r, l, m, p, q
<1>15. q = p - l + m
  BY <1>14
<1> QED BY <1>13, <1>15 DEF l, m, p, q

(* A list of children with a new one in front.                             *)
LEMMA ConsMembers ==
  ASSUME NEW S, NEW s \in Seq(S), NEW e \in S, Distinct(s), ~ InList(s, e)
  PROVE  /\ << e >> \o s \in Seq(S) /\ Distinct(<< e >> \o s)
         /\ \A x : InList(<< e >> \o s, x) <=> InList(s, x) \/ x = e
<1> DEFINE a == << e >> \o s
<1>1. Len(a) = Len(s) + 1 /\ Len(s) \in Nat /\ a \in Seq(S)
  OBVIOUS
<1>2. a[1] = e
  OBVIOUS
<1>3. \A i \in 1 .. Len(s) : a[i + 1] = s[i]
  OBVIOUS
<1> HIDE DEF a
<1>4. \A i \in 1 .. Len(a) : i = 1 \/ (i - 1 \in 1 .. Len(s) /\ a[i] = s[i - 1])
  BY <1>1, <1>3
<1>5. Distinct(a)
  <2> SUFFICES ASSUME NEW i \in 1 .. Len(a), NEW j \in 1 .. Len(a), a[i] = a[j]
               PROVE  i = j
    BY DEF Distinct
  <2>1. i \in Nat /\ j \in Nat
    BY <1>1
  <2>2. \A k \in 1 .. Len(s) : s[k] # e
    BY DEF InList
  <2>3. CASE i = 1
    BY <2>2, <2>3, <1>2, <1>4
  <2>4. CASE j = 1
    BY <2>2, <2>4, <1>2, <1>4
  <2>5. CASE i # 1 /\ j # 1
    <3>1. i - 1 \in 1 .. Len(s) /\ j - 1 \in 1 .. Len(s) /\ s[i - 1] = s[j - 1]
      BY <2>5, <1>4
    <3>2. i - 1 = j - 1
      BY <3>1 DEF Distinct
    <3> QED BY <3>2, <2>1
  <2> QED BY <2>3, <2>4, <2>5
<1>6. ASSUME NEW x PROVE InList(a, x) <=> InList(s, x) \/ x = e
  <2>1. ASSUME InList(a, x) PROVE InList(s, x) \/ x = e
    BY <2>1, <1>1, <1>2, <1>4 DEF InList
  <2>2. ASSUME InList(s, x) PROVE InList(a, x)
    <3>1. PICK i \in 1 .. Len(s) : s[i] = x
      BY <2>2 DEF InList
    <3>2. i + 1 \in 1 .. Len(a) /\ a[i + 1] = x
      BY <3>1, <1>1, <1>3
    <3> QED BY <3>2 DEF InList
  <2>3. ASSUME x = e PROVE InList(a, x)
    BY <2>3, <1>1, <1>2 DEF InList
  <2> QED BY <2>1, <2>2, <2>3
<1> QED BY <1>1, <1>5, <1>6 DEF a

(* The search of getWork() comes to every child and to nothing else.       *)
LEMMA SearchMembers ==
  ASSUME children \in Seq(Chan)
  PROVE  /\ Len(SearchOrder) \in Nat
         /\ \A i \in 1 .. Len(SearchOrder) : InList(children, SearchOrder[i])
         /\ \A c : InList(children, c) =>
              \E i \in 1 .. Len(SearchOrder) : SearchOrder[i] = c
<1> DEFINE o == SearchOrder
           n == Len(children)
<1>0. n \in Nat
  OBVIOUS
<1>1. CASE lastClient = None \/ ~ InList(children, lastClient)
  BY <1>0, <1>1 DEF SearchOrder, InList
<1>2. CASE ~ (lastClient = None \/ ~ InList(children, lastClient))
  <2> DEFINE k == Place(children, lastClient)
             a == SubSeq(children, k + 1, n)
             b == SubSeq(children, 1, k)
  <2>1. k \in 1 .. n
    BY <1>2 DEF Place, InList
  <2>2. o = a \o b
    BY <1>2 DEF SearchOrder
  <2> HIDE DEF k, n, o
  <2>3. a \in Seq(Chan) /\ Len(a) = n - k /\ \A i \in 1 .. n - k : a[i] = children[i + k]
    BY <2>1, <1>0 DEF n
  <2>4. b \in Seq(Chan) /\ Len(b) = k /\ \A i \in 1 .. k : b[i] = children[i]
    BY <2>1, <1>0 DEF n
  <2> HIDE DEF a, b
  <2>51. Len(o) = Len(a) + Len(b)
         /\ \A i \in 1 .. Len(a) + Len(b) :
              o[i] = IF i <= Len(a) THEN a[i] ELSE b[i - Len(a)]
    BY <2>2, <2>3, <2>4
  <2>52. n - k + k = n
    BY <2>1, <1>0
  <2>5. Len(o) = n /\ \A i \in 1 .. n : o[i] = IF i <= n - k THEN a[i] ELSE b[i - (n - k)]
    BY <2>51, <2>52, <2>3, <2>4
  <2>6. ASSUME NEW i \in 1 .. n
        PROVE  o[i] = IF i <= n - k THEN children[i + k] ELSE children[i - (n - k)]
    <3>1. CASE i <= n - k
      <4>1. i \in 1 .. n - k
        BY <3>1, <2>1, <1>0
      <4>2. o[i] = a[i]
        BY <3>1, <2>5
      <4> QED BY <3>1, <4>1, <4>2, <2>3
    <3>2. CASE ~ (i <= n - k)
      <4>1. i - (n - k) \in 1 .. k
        BY <3>2, <2>1, <1>0
      <4> QED BY <3>2, <4>1, <2>4, <2>5
    <3> QED BY <3>1, <3>2
  <2>7. ASSUME NEW i \in 1 .. n PROVE InList(children, o[i])
    <3>1. CASE i <= n - k
      BY <3>1, <2>1, <2>6, <1>0 DEF InList, n
    <3>2. CASE ~ (i <= n - k)
      BY <3>2, <2>1, <2>6, <1>0 DEF InList, n
    <3> QED BY <3>1, <3>2
  <2>8. ASSUME NEW c, InList(children, c) PROVE \E i \in 1 .. n : o[i] = c
    <3>1. PICK j \in 1 .. n : children[j] = c
      BY <2>8 DEF InList, n
    <3>2. CASE j <= k
      <4>1. j + (n - k) \in 1 .. n /\ o[j + (n - k)] = c
        BY <3>1, <3>2, <2>1, <2>6, <1>0
      <4> QED BY <4>1
    <3>3. CASE j > k
      <4>1. j - k \in 1 .. n /\ o[j - k] = c
        BY <3>1, <3>3, <2>1, <2>6, <1>0
      <4> QED BY <4>1
    <3> QED BY <3>1, <3>2, <3>3, <2>1, <1>0
  <2> QED BY <2>5, <2>7, <2>8, <1>0 DEF o
<1> QED BY <1>1, <1>2
-----------------------------------------------------------------------------
(* A step changes one thread t and at most one channel e.                  *)
Touches(t, e) ==
  /\ \A u \in Thread \ {t} :
       pc'[u] = pc[u] /\ chan'[u] = chan[u] /\ req'[u] = req[u]
  /\ chan[t] \in {e, None} /\ chan'[t] \in {e, None}
  /\ \A d \in Chan \ {e} :
       /\ node'[d] = node[d] /\ refs'[d] = refs[d]
       /\ clientFile'[d] = clientFile[d] /\ driverFile'[d] = driverFile[d]
       /\ sendList'[d] = sendList[d] /\ recvList'[d] = recvList[d]
       /\ deferred'[d] = deferred[d]

(* The other clients do not become openers, nor do they stop being it.     *)
LEMMA OpenersKept ==
  ASSUME NEW t, NEW e, Touches(t, e)
  PROVE  \A u \in Client \ {t} : \A c \in Chan : u \in Openers(c)' <=> u \in Openers(c)
BY DEF Touches, Openers, Thread

(* A step leaves the other threads and the other channels alone.           *)
LEMMA OthersKept ==
  ASSUME ChanInv, NEW t \in Thread, NEW e, Touches(t, e)
  PROVE  /\ \A u \in Client \ {t} : ClientAt(u)'
         /\ \A h \in Handler \ {t} : HandlerAt(h)'
         /\ \A d \in Chan \ {e} : Held(d)' /\ Blank(d)' /\ Opening(d)'
<1>1. \A u \in Client \ {t} : ClientAt(u)'
  BY DEF ChanInv, ClientAt, Touches, Thread
<1>2. \A h \in Handler \ {t} : HandlerAt(h)'
  BY DEF ChanInv, HandlerAt, Touches, Thread
<1>3. ASSUME NEW d \in Chan \ {e} PROVE Held(d)' /\ Blank(d)' /\ Opening(d)'
  <2>1. Held(d) /\ Blank(d) /\ Opening(d)
    BY DEF ChanInv
  <2>2. chan[t] # d /\ chan'[t] # d
    BY ChannelAssumption DEF Touches
  <2>3. \A u \in Thread : u # t =>
          pc'[u] = pc[u] /\ chan'[u] = chan[u] /\ req'[u] = req[u]
    BY DEF Touches
  <2>4. /\ node'[d] = node[d] /\ refs'[d] = refs[d]
        /\ clientFile'[d] = clientFile[d] /\ driverFile'[d] = driverFile[d]
        /\ sendList'[d] = sendList[d] /\ recvList'[d] = recvList[d]
        /\ deferred'[d] = deferred[d]
    BY DEF Touches
  <2>5. Openers(d)' = Openers(d)
    BY <2>2, <2>3 DEF Openers, Thread
  <2>6. Held(d)'
    <3>1. \A u \in Client : req'[u].op \in {"read", "write"} /\ chan'[u] = d =>
            clientFile'[d]
      BY <2>1, <2>2, <2>3, <2>4 DEF Held, Thread
    <3> QED BY <3>1, <2>1, <2>4, <2>5 DEF Held
  <2>7. Blank(d)'
    BY <2>1, <2>2, <2>3, <2>4 DEF Blank
  <2>8. Opening(d)'
    <3>1. \A h \in Handler : Busy(h, d)' <=> Busy(h, d)
      BY <2>2, <2>3 DEF Busy, Thread
    <3>2. \A h \in Handler : ServesOpen(h, d)' <=> ServesOpen(h, d)
      BY <2>2, <2>3 DEF ServesOpen, Thread
    <3>3. OpenQueued(d)' <=> OpenQueued(d)
      BY <2>4 DEF OpenQueued
    <3>4. Fresh(d) => Fresh(d)'
      BY <2>2, <2>3, <2>4 DEF Fresh, Thread
    <3> QED BY <2>1, <2>4, <3>1, <3>2, <3>3, <3>4 DEF Opening
  <2> QED BY <2>6, <2>7, <2>8
<1> QED BY <1>1, <1>2, <1>3

(* On one processor nobody else is inside while a thread runs, so that the *)
(* others stay out of its way; nobody removes messages meanwhile.          *)
LEMMA AloneInside ==
  ASSUME NCPU = 1, ChanInv, NEW t \in Thread, NEW p, At(t, p)
  PROVE  /\ pc[t] = p
         /\ \A u \in Thread \ {t} : pc[u] \in Outside
         /\ p # "inval" => treeLock = None
<1>1. pc[t] = p /\ \A u \in Thread \ {t} : pc[u] \in Outside
  BY DEF At
<1>2. ASSUME p # "inval", treeLock # None PROVE FALSE
  <2>1. treeLock \in Thread /\ pc[treeLock] = "inval"
    <3>1. TypeOK /\ Dropping
      BY DEF ChanInv
    <3>2. treeLock \in Thread
      BY <1>2, <3>1 DEF TypeOK, ThreadTypes
    <3> QED BY <1>2, <3>1, <3>2 DEF Dropping
  <2> QED BY <1>1, <1>2, <2>1 DEF Outside
<1> QED BY <1>1, <1>2

(* What a step of t that stays clear of invalidate() keeps.                *)
LEMMA ClearStep ==
  ASSUME NCPU = 1, ChanInv, NEW t \in Thread, NEW p, At(t, p), p # "inval",
         NEW e, Touches(t, e), treeLock' = treeLock, pc'[t] # "inval"
  PROVE  Solo' /\ Dropping'
<1>1. /\ pc[t] = p /\ treeLock = None
      /\ \A u \in Thread \ {t} : pc[u] \in Outside
  BY AloneInside
<1>2. \A u \in Thread \ {t} : pc'[u] \in Outside
  BY <1>1 DEF Touches
<1>3. Solo'
  BY <1>2 DEF Solo
<1>4. \A u \in Thread : pc'[u] # "inval"
  BY <1>2 DEF Outside
<1>5. Dropping'
  BY <1>1, <1>4 DEF Dropping
<1> QED BY <1>3, <1>5

(* The nodes, their list and the number of messages stay.                  *)
NodesStay == UNCHANGED <<node, refs, driverFile, children>>
MailStays == UNCHANGED <<sendList, msgCount>>

LEMMA KidsStay ==
  ASSUME ChanInv, UNCHANGED <<node, children>>
  PROVE  Kids'
BY DEF ChanInv, Kids

LEMMA CountStays ==
  ASSUME ChanInv, MailStays
  PROVE  Counted'
BY DEF ChanInv, Counted, Queued, MailStays

(* The number of messages follows the list of one channel.                 *)
LEMMA CountFollows ==
  ASSUME ChanInv, NEW c \in Chan, sendList' \in [Chan -> Seq(Messages)],
         \A d \in Chan \ {c} : sendList'[d] = sendList[d],
         msgCount' = msgCount - Len(sendList[c]) + Len(sendList'[c])
  PROVE  Counted' /\ msgCount' \in Nat
<1>1. Queued = Places(sendList)
  BY DEF Queued, Places
<1>2. Queued' = Places(sendList')
  BY DEF Queued, Places
<1>0. TypeOK
  BY DEF ChanInv
<1>3. sendList \in [Chan -> Seq(Messages)]
  BY <1>0 DEF TypeOK, ListTypes
<1>4. IsFiniteSet(Places(sendList)) /\ msgCount = Cardinality(Places(sendList))
  BY <1>1 DEF ChanInv, Counted
<1>5. IsFiniteSet(Places(sendList')) /\ msgCount' = Cardinality(Places(sendList'))
  BY <1>3, <1>4, PlacesChange
<1>6. msgCount' \in Nat
  BY <1>5, FS_CardinalityType
<1> QED BY <1>2, <1>5, <1>6 DEF Counted

(* No thread of the driver falls asleep, none that sleeps gets a message.  *)
LEMMA SleepStays ==
  ASSUME ChanInv,
         \A h \in Handler : pc'[h] = "nowork" /\ asleep'[h] = Dev =>
                              pc[h] = "nowork" /\ asleep[h] = Dev,
         \A c \in Chan : driverFile'[c] => driverFile[c],
         \A c \in Chan : sendList'[c] = << >> \/ sendList'[c] = sendList[c]
                           \/ sendList[c] # << >>,
         \A c \in Chan : handler'[c] = handler[c] \/ sendList'[c] = << >>
  PROVE  SleepsWithoutWork'
BY DEF ChanInv, SleepsWithoutWork, HasWork

(* Whoever sends a request wakes the driver up.                            *)
LEMMA DriverWoken ==
  ASSUME asleep' = Woken(Dev)
  PROVE  SleepsWithoutWork'
<1>1. \A h \in Handler : asleep'[h] # Dev
  BY ChannelAssumption DEF Woken, Thread
<1> QED BY <1>1 DEF SleepsWithoutWork

(* The invariant holds again if it holds for the thread and the channel    *)
(* that a step changes.                                                    *)
LEMMA Assembled ==
  ASSUME ChanInv, NEW t \in Thread, NEW e, Touches(t, e), TypeOK',
         Solo', Dropping', Kids', Counted', LastClientValid', SleepsWithoutWork',
         t \in Client => ClientAt(t)', t \in Handler => HandlerAt(t)',
         e \in Chan => Held(e)' /\ Blank(e)' /\ Opening(e)'
  PROVE  ChanInv'
<1>1. /\ \A u \in Client \ {t} : ClientAt(u)'
      /\ \A h \in Handler \ {t} : HandlerAt(h)'
      /\ \A d \in Chan \ {e} : Held(d)' /\ Blank(d)' /\ Opening(d)'
  BY OthersKept
<1>2. \A u \in Client : ClientAt(u)'
  BY <1>1
<1>3. \A h \in Handler : HandlerAt(h)'
  BY <1>1
<1>4. \A d \in Chan : Held(d)' /\ Blank(d)' /\ Opening(d)'
  BY <1>1
<1> QED BY <1>2, <1>3, <1>4 DEF ChanInv

(* The references of e are as before, and t is an opener as before.        *)
LEMMA HeldStays ==
  ASSUME ChanInv, NEW t \in Thread, NEW e \in Chan, Touches(t, e),
         node'[e] = node[e], refs'[e] = refs[e],
         clientFile'[e] = clientFile[e], driverFile'[e] = driverFile[e],
         t \in Client => /\ t \in Openers(e)' <=> t \in Openers(e)
                         /\ req'[t].op \in {"read", "write"} /\ chan'[t] = e =>
                              clientFile[e]
  PROVE  Held(e)'
<1>1. Held(e)
  BY DEF ChanInv
<1>2. \A u \in Client \ {t} : u \in Openers(e)' <=> u \in Openers(e)
  BY OpenersKept
<1>3. Openers(e)' = Openers(e)
  <2>1. \A u \in Client : u \in Openers(e)' <=> u \in Openers(e)
    BY <1>2
  <2>2. Openers(e) \subseteq Client /\ Openers(e)' \subseteq Client
    BY DEF Openers
  <2> QED BY <2>1, <2>2
<1>4. \A u \in Client : req'[u].op \in {"read", "write"} /\ chan'[u] = e => clientFile'[e]
  BY <1>1 DEF Held, Touches, Thread
<1> QED BY <1>1, <1>3, <1>4 DEF Held

(* A step that leaves the nodes and the messages for the driver alone.     *)
LEMMA QuietStep ==
  ASSUME NCPU = 1, ChanInv, NEW t \in Thread, NEW p, At(t, p), p # "inval",
         NEW e, Touches(t, e), NodesStay, MailStays,
         lastClient' = lastClient, treeLock' = treeLock, pc'[t] # "inval", TypeOK',
         t \in Client => ClientAt(t)', t \in Handler => HandlerAt(t)',
         e \in Chan => node[e] # "unused" /\ Held(e)' /\ Opening(e)',
         \A c \in Chan : handler'[c] = handler[c] \/ sendList[c] = << >>,
         \A h \in Handler : pc'[h] = "nowork" /\ asleep'[h] = Dev =>
                              pc[h] = "nowork" /\ asleep[h] = Dev
  PROVE  ChanInv'
<1>1. Solo' /\ Dropping'
  BY ClearStep
<1>2. Kids'
  BY KidsStay DEF NodesStay
<1>3. Counted'
  BY CountStays
<1>4. LastClientValid'
  BY DEF ChanInv, LastClientValid, NodesStay
<1>5. SleepsWithoutWork'
  BY SleepStays DEF NodesStay, MailStays
<1>6. e \in Chan => Blank(e)'
  BY DEF Blank, NodesStay
<1> QED BY <1>1, <1>2, <1>3, <1>4, <1>5, <1>6, Assembled

(* Going on at p.                                                          *)
LEMMA GotoEffect ==
  ASSUME TypeOK, NEW t \in Thread, NEW p \in Points, Goto(t, p)
  PROVE  /\ pc' \in [Thread -> Points] /\ pc'[t] = p
         /\ \A u \in Thread \ {t} : pc'[u] = pc[u]
<1>1. pc \in [Thread -> Points]
  BY DEF TypeOK, ThreadTypes
<1> QED BY <1>1 DEF Goto

LEMMA IdleType ==
  /\ Idle0 \in Reqs /\ 0 \in Rids
  /\ Idle0.op = "none" /\ Idle0.back = "user" /\ Idle0.want = "resp"
  /\ Idle0.nb = FALSE /\ Idle0.seen = 0
<1>1. 0 \in Rids
  BY ChannelAssumption DEF Rids
<1>2. "user" \in Points
  BY DEF Points, Outside
<1> QED BY <1>1, <1>2 DEF Idle0, Reqs

LEMMA GoOnEffect ==
  ASSUME TypeOK, NEW t \in Thread, NEW c \in Chan \cup {None}, NEW p \in Points,
         GoOn(t, c, p)
  PROVE  /\ pc' \in [Thread -> Points] /\ pc'[t] = p
         /\ chan' \in [Thread -> Chan \cup {None}]
         /\ chan'[t] = IF p \in {"release", "close"} THEN c ELSE None
         /\ req' \in [Thread -> Reqs] /\ req'[t] = Idle0
         /\ \A u \in Thread \ {t} :
              pc'[u] = pc[u] /\ chan'[u] = chan[u] /\ req'[u] = req[u]
<1>1. chan \in [Thread -> Chan \cup {None}] /\ req \in [Thread -> Reqs]
  BY DEF TypeOK, ThreadTypes
<1>2. /\ pc' \in [Thread -> Points] /\ pc'[t] = p
      /\ \A u \in Thread \ {t} : pc'[u] = pc[u]
  BY GotoEffect DEF GoOn
<1>3. /\ chan' \in [Thread -> Chan \cup {None}]
      /\ chan'[t] = IF p \in {"release", "close"} THEN c ELSE None
      /\ \A u \in Thread \ {t} : chan'[u] = chan[u]
  BY <1>1 DEF GoOn
<1>4. /\ req' \in [Thread -> Reqs] /\ req'[t] = Idle0
      /\ \A u \in Thread \ {t} : req'[u] = req[u]
  BY <1>1, IdleType DEF GoOn
<1> QED BY <1>2, <1>3, <1>4

(* A thread knows its channel.                                             *)
LEMMA KnownChannel ==
  ASSUME ChanInv, NEW t \in Thread, chan[t] \in Chan
  PROVE  node[chan[t]] # "unused"
BY DEF ChanInv, Blank

-----------------------------------------------------------------------------
(* Clients that wait for a reply.                                          *)

(* The client t in receive() or behind it goes on at q, or gives up.       *)
Advances(t, q) ==
  /\ Goto(t, q) /\ UNCHANGED <<chan, req>>
  /\ q \in {"recv", "asleep", "cancel", "openfail"}
  /\ q = "cancel" => req[t].op # "open"
  /\ q = "openfail" => req[t].op = "open"

GivesUp(t) == Leave(t, "user") /\ req[t].op # "open"

LEMMA ClientMoves ==
  ASSUME NCPU = 1, ChanInv, NEW t \in Client,
         NEW p \in {"recv", "asleep", "cancel"}, At(t, p),
         NEW q, Advances(t, q) \/ GivesUp(t),
         UNCHANGED <<nodeVars, chanVars, listVars, devVars, msgCount, nextRid,
                     treeLock, sig, deferred, sent>>,
         asleep' \in [Thread -> Chan \cup {Dev, None}],
         \A h \in Handler : asleep'[h] = asleep[h]
  PROVE  ChanInv'
<1>0. TypeOK /\ ClientAt(t) /\ t \in Thread /\ t \notin Handler
  BY ChannelAssumption DEF ChanInv, Thread
<1>1. pc[t] = p
  BY DEF At
<1>21. chan[t] \in Chan /\ req[t].op \in {"open", "read", "write"}
  BY <1>0, <1>1 DEF ClientAt
<1>5. PICK e \in Chan : e = chan[t]
  BY <1>21
<1>2. e \in Chan /\ req[t].op \in {"open", "read", "write"}
  BY <1>21
<1>3. req[t].op = "open" => req[t].want = "resp" /\ ~ req[t].nb
  BY <1>0, <1>1 DEF ClientAt
<1>4. /\ pc' \in [Thread -> Points] /\ chan' \in [Thread -> Chan \cup {None}]
      /\ req' \in [Thread -> Reqs]
      /\ \A u \in Thread \ {t} :
           pc'[u] = pc[u] /\ chan'[u] = chan[u] /\ req'[u] = req[u]
      /\ \/ /\ pc'[t] = q /\ chan'[t] = e /\ req'[t] = req[t]
            /\ q \in {"recv", "asleep", "cancel", "openfail"}
            /\ q = "cancel" => req[t].op # "open"
            /\ q = "openfail" => req[t].op = "open"
         \/ /\ pc'[t] = "user" /\ chan'[t] = None /\ req'[t] = Idle0
            /\ req[t].op # "open"
  <2>1. CASE Advances(t, q)
    <3>1. q \in Points
      BY <2>1 DEF Advances, Points, Outside
    <3>2. /\ pc' \in [Thread -> Points] /\ pc'[t] = q
          /\ \A u \in Thread \ {t} : pc'[u] = pc[u]
      BY <2>1, <3>1, <1>0, GotoEffect DEF Advances
    <3>3. chan' = chan /\ req' = req
      BY <2>1 DEF Advances
    <3>4. chan \in [Thread -> Chan \cup {None}] /\ req \in [Thread -> Reqs]
      BY <1>0 DEF TypeOK, ThreadTypes
    <3> QED BY <2>1, <3>2, <3>3, <3>4, <1>5 DEF Advances
  <2>2. CASE GivesUp(t)
    <3>1. GoOn(t, e, "user") /\ "user" \in Points
      BY <2>2, <1>5 DEF GivesUp, Leave, Points, Outside
    <3> QED BY <2>2, <3>1, <1>0, <1>2, GoOnEffect DEF GivesUp
  <2> QED BY <2>1, <2>2
<1>51. /\ node' = node /\ refs' = refs
       /\ clientFile' = clientFile /\ driverFile' = driverFile
       /\ closed' = closed /\ handler' = handler
       /\ sendList' = sendList /\ recvList' = recvList /\ deferred' = deferred
       /\ devAlive' = devAlive /\ children' = children /\ lastClient' = lastClient
  BY DEF nodeVars, chanVars, listVars, devVars
<1>6. Touches(t, e)
  BY <1>4, <1>5, <1>51 DEF Touches
<1>7. NodesStay /\ MailStays
  BY <1>51 DEF NodesStay, MailStays
<1>8. ClientAt(t)'
  BY <1>2, <1>3, <1>4 DEF ClientAt
<1>9. TypeOK'
  <2>1. NodeTypes'
    BY <1>0, <1>51 DEF TypeOK, NodeTypes
  <2>2. ListTypes'
    BY <1>0, <1>51 DEF TypeOK, ListTypes
  <2>3. ThreadTypes'
    BY <1>0, <1>4 DEF TypeOK, ThreadTypes
  <2> QED BY <2>1, <2>2, <2>3 DEF TypeOK
<1>10. Held(e)'
  <2>0. Held(e)
    BY <1>2 DEF ChanInv
  <2>1. t \in Openers(e)' <=> t \in Openers(e)
    BY <1>1, <1>4, <1>5, <1>2, IdleType, ChannelAssumption DEF Openers
  <2>2. req'[t].op \in {"read", "write"} /\ chan'[t] = e => clientFile[e]
    BY <1>4, <1>5, <2>0, IdleType DEF Held
  <2> QED BY <1>0, <1>2, <1>6, <1>51, <2>1, <2>2, HeldStays
<1>11. Opening(e)'
  <2>0. Opening(e)
    BY <1>2 DEF ChanInv
  <2>1. \A h \in Handler : pc'[h] = pc[h] /\ chan'[h] = chan[h] /\ req'[h] = req[h]
    BY <1>0, <1>4 DEF Thread
  <2>2. \A u \in Client : chan'[u] = e /\ pc'[u] = "close" => chan[u] = e /\ pc[u] = "close"
    BY <1>4 DEF Thread
  <2>3. Fresh(e) => Fresh(e)'
    BY <2>2, <1>51 DEF Fresh
  <2>4. sendList' = sendList
    BY <1>51
  <2>5. OpenQueued(e)' <=> OpenQueued(e)
    BY <2>4 DEF OpenQueued
  <2>6. \A h \in Handler : /\ Busy(h, e)' <=> Busy(h, e)
                           /\ ServesOpen(h, e)' <=> ServesOpen(h, e)
    BY <2>1 DEF Busy, ServesOpen
  <2> QED BY <2>0, <2>3, <2>4, <2>5, <2>6 DEF Opening
<1>12. node[e] # "unused"
  BY <1>0, <1>2, <1>5, KnownChannel
<1>13. \A h \in Handler : pc'[h] = "nowork" /\ asleep'[h] = Dev =>
                            pc[h] = "nowork" /\ asleep[h] = Dev
  BY <1>0, <1>4 DEF Thread
<1>14. /\ lastClient' = lastClient /\ treeLock' = treeLock /\ handler' = handler
       /\ pc'[t] # "inval" /\ p # "inval"
  BY <1>4, <1>51
<1> QED BY <1>0, <1>2, <1>6, <1>7, <1>8, <1>9, <1>10, <1>11, <1>12, <1>13, <1>14, QuietStep

LEMMA ReceiveNothingKeeps ==
  ASSUME NCPU = 1, ChanInv, NEW t \in Client, ReceiveNothing(t)
  PROVE  ChanInv'
<1>0. TypeOK /\ ClientAt(t) /\ t \in Thread /\ At(t, "recv")
  BY DEF ChanInv, Thread, ReceiveNothing
<1>1. req[t].op # "open"
  <2>1. pc[t] = "recv" /\ NonBlocking(t)
    BY <1>0 DEF At, ReceiveNothing
  <2> QED BY <1>0, <2>1 DEF ClientAt, NonBlocking, Interruptible
<1>2. Advances(t, "cancel") \/ GivesUp(t)
  BY <1>1 DEF ReceiveNothing, Advances, GivesUp
<1>3. asleep' = asleep /\ asleep \in [Thread -> Chan \cup {Dev, None}]
  BY <1>0 DEF ReceiveNothing, TypeOK, ThreadTypes
<1>4. UNCHANGED <<nodeVars, chanVars, listVars, devVars, msgCount, nextRid,
                  treeLock, sig, deferred, sent>>
  BY DEF ReceiveNothing
<1> QED BY <1>0, <1>2, <1>3, <1>4, ClientMoves

LEMMA ReceiveWaitKeeps ==
  ASSUME NCPU = 1, ChanInv, NEW t \in Client, ReceiveWait(t)
  PROVE  ChanInv'
<1>0. TypeOK /\ ClientAt(t) /\ t \in Thread /\ At(t, "recv") /\ t \notin Handler
  BY ChannelAssumption DEF ChanInv, Thread, ReceiveWait
<1>1. asleep \in [Thread -> Chan \cup {Dev, None}] /\ chan \in [Thread -> Chan \cup {None}]
  BY <1>0 DEF TypeOK, ThreadTypes
<1>2. UNCHANGED <<nodeVars, chanVars, listVars, devVars, msgCount, nextRid,
                  treeLock, sig, deferred, sent>>
  BY DEF ReceiveWait
<1>3. /\ asleep' \in [Thread -> Chan \cup {Dev, None}]
      /\ \A h \in Handler : asleep'[h] = asleep[h]
  <2>1. CASE asleep' = asleep
    BY <2>1, <1>1
  <2>2. CASE asleep' = [asleep EXCEPT ![t] =
                          IF Interruptible(t) /\ sig[t] THEN None ELSE chan[t]]
    <3>1. (IF Interruptible(t) /\ sig[t] THEN None ELSE chan[t]) \in Chan \cup {Dev, None}
      BY <1>0, <1>1
    <3> QED BY <1>0, <1>1, <2>2, <3>1 DEF Thread
  <2> QED BY <2>1, <2>2 DEF ReceiveWait
<1>4. Advances(t, "openfail") \/ Advances(t, "asleep") \/ GivesUp(t)
  BY DEF ReceiveWait, Destroyed, Advances, GivesUp
<1> QED BY <1>0, <1>2, <1>3, <1>4, ClientMoves

LEMMA AwakeKeeps ==
  ASSUME NCPU = 1, ChanInv, NEW t \in Client, Awake(t)
  PROVE  ChanInv'
<1>0. TypeOK /\ At(t, "asleep")
  BY DEF ChanInv, Awake
<1>1. asleep' = asleep /\ asleep \in [Thread -> Chan \cup {Dev, None}]
  BY <1>0 DEF Awake, TypeOK, ThreadTypes
<1>2. UNCHANGED <<nodeVars, chanVars, listVars, devVars, msgCount, nextRid,
                  treeLock, sig, deferred, sent>>
  BY DEF Awake
<1>3. \/ Advances(t, "openfail") \/ Advances(t, "recv")
      \/ Advances(t, "cancel") \/ GivesUp(t)
  BY DEF Awake, Destroyed, Advances, GivesUp, Interruptible
<1> QED BY <1>0, <1>1, <1>2, <1>3, ClientMoves

(* cancel() of a channel that is gone.                                     *)
LEMMA CancelGoneKeeps ==
  ASSUME NCPU = 1, ChanInv, NEW t \in Client, Cancel(t), ~ Alive(chan[t])
  PROVE  ChanInv'
<1>0. TypeOK /\ At(t, "cancel") /\ ClientAt(t)
  BY DEF ChanInv, Cancel
<1>1. asleep' = asleep /\ asleep \in [Thread -> Chan \cup {Dev, None}]
  BY <1>0 DEF Cancel, TypeOK, ThreadTypes
<1>2. UNCHANGED <<nodeVars, chanVars, listVars, devVars, msgCount, nextRid,
                  treeLock, sig, deferred, sent>>
  BY DEF Cancel
<1>3. GivesUp(t)
  BY <1>0 DEF Cancel, GivesUp, ClientAt, At
<1> QED BY <1>0, <1>1, <1>2, <1>3, ClientMoves

-----------------------------------------------------------------------------
(* Signals.                                                                *)

(* Nothing changes but signals, and who is awake.                          *)
LEMMA SignalsOnly ==
  ASSUME ChanInv, NEW t \in Client,
         UNCHANGED <<nodeVars, chanVars, listVars, devVars, msgCount, nextRid,
                     treeLock, threadVars, deferred, sent>>,
         sig' \in [Client -> BOOLEAN],
         asleep' \in [Thread -> Chan \cup {Dev, None}],
         \A h \in Handler : asleep'[h] = asleep[h]
  PROVE  ChanInv'
<1>0. TypeOK /\ t \in Thread
  BY DEF ChanInv, Thread
<1>1. /\ node' = node /\ refs' = refs
      /\ clientFile' = clientFile /\ driverFile' = driverFile
      /\ closed' = closed /\ handler' = handler
      /\ sendList' = sendList /\ recvList' = recvList /\ deferred' = deferred
      /\ devAlive' = devAlive /\ children' = children /\ lastClient' = lastClient
      /\ pc' = pc /\ chan' = chan /\ req' = req
  BY DEF nodeVars, chanVars, listVars, devVars, threadVars
<1>2. TypeOK'
  <2>1. NodeTypes'
    BY <1>0, <1>1 DEF TypeOK, NodeTypes
  <2>2. ListTypes'
    BY <1>0, <1>1 DEF TypeOK, ListTypes
  <2>3. ThreadTypes'
    BY <1>0, <1>1 DEF TypeOK, ThreadTypes
  <2> QED BY <2>1, <2>2, <2>3 DEF TypeOK
<1>3. Solo' /\ Dropping' /\ Kids' /\ Counted' /\ LastClientValid'
  BY <1>1 DEF ChanInv, Solo, Dropping, Kids, Counted, Queued, LastClientValid
<1>4. SleepsWithoutWork'
  BY <1>1, SleepStays
<1>5. \A u \in Client : ClientAt(u)'
  BY <1>1 DEF ChanInv, ClientAt
<1>6. \A h \in Handler : HandlerAt(h)'
  BY <1>1 DEF ChanInv, HandlerAt
<1>7. ASSUME NEW c \in Chan PROVE Held(c)' /\ Blank(c)' /\ Opening(c)'
  <2>1. Held(c) /\ Blank(c) /\ Opening(c)
    BY DEF ChanInv
  <2>2. Held(c)'
    BY <1>1, <2>1 DEF Held, Openers
  <2>3. Blank(c)'
    BY <1>1, <2>1 DEF Blank
  <2>4. Opening(c)'
    BY <1>1, <2>1 DEF Opening, OpenQueued, ServesOpen, Busy, Fresh
  <2> QED BY <2>2, <2>3, <2>4
<1> QED BY <1>2, <1>3, <1>4, <1>5, <1>6, <1>7 DEF ChanInv

LEMMA SignalKeeps ==
  ASSUME ChanInv, NEW t \in Client, Signal(t)
  PROVE  ChanInv'
<1>0. TypeOK /\ t \notin Handler
  BY ChannelAssumption DEF ChanInv
<1>1. asleep \in [Thread -> Chan \cup {Dev, None}] /\ sig \in [Client -> BOOLEAN]
  BY <1>0 DEF TypeOK, ThreadTypes
<1>2. sig' \in [Client -> BOOLEAN]
  BY <1>1 DEF Signal
<1>3. /\ asleep' \in [Thread -> Chan \cup {Dev, None}]
      /\ \A h \in Handler : asleep'[h] = asleep[h]
  BY <1>0, <1>1 DEF Signal, Thread
<1>4. UNCHANGED <<nodeVars, chanVars, listVars, devVars, msgCount, nextRid,
                  treeLock, threadVars, deferred, sent>>
  BY DEF Signal
<1> QED BY <1>2, <1>3, <1>4, SignalsOnly

LEMMA HandleSignalKeeps ==
  ASSUME ChanInv, NEW t \in Client, HandleSignal(t)
  PROVE  ChanInv'
<1>0. TypeOK
  BY DEF ChanInv
<1>1. asleep \in [Thread -> Chan \cup {Dev, None}] /\ sig \in [Client -> BOOLEAN]
  BY <1>0 DEF TypeOK, ThreadTypes
<1>2. sig' \in [Client -> BOOLEAN] /\ asleep' = asleep
  BY <1>1 DEF HandleSignal
<1>4. UNCHANGED <<nodeVars, chanVars, listVars, devVars, msgCount, nextRid,
                  treeLock, threadVars, deferred, sent>>
  BY DEF HandleSignal
<1> QED BY <1>1, <1>2, <1>4, SignalsOnly

-----------------------------------------------------------------------------
(* The driver answers.                                                     *)

(* A thread of the driver works on channel e and goes on, with replies and *)
(* requests put off changed.                                               *)
LEMMA HandlerMoves ==
  ASSUME NCPU = 1, ChanInv, NEW h \in Handler,
         NEW p \in {"loop", "nowork", "fetch", "serve", "data"}, At(h, p),
         NEW e \in Chan, node[e] # "unused", Touches(h, e),
         UNCHANGED <<nodeVars, sendList, msgCount, devVars, closed, nextRid,
                     treeLock, sig, sent>>,
         handler' \in [Chan -> Handler],
         \A c \in Chan : handler'[c] = handler[c] \/ sendList[c] = << >>,
         recvList' \in [Chan -> Seq(Replies)], deferred' \in [Chan -> SUBSET Rids],
         pc' \in [Thread -> Points], chan' \in [Thread -> Chan \cup {None}],
         req' \in [Thread -> Reqs], asleep' \in [Thread -> Chan \cup {Dev, None}],
         \A g \in Handler : asleep'[g] = Dev => asleep[g] = Dev,
         pc'[h] \in {"loop", "data"}, HandlerAt(h)', Opening(e)'
  PROVE  ChanInv'
<1>0. TypeOK /\ h \in Thread /\ h \notin Client
  BY ChannelAssumption DEF ChanInv, Thread
<1>1. /\ node' = node /\ refs' = refs
      /\ clientFile' = clientFile /\ driverFile' = driverFile
      /\ devAlive' = devAlive /\ children' = children /\ lastClient' = lastClient
  BY DEF nodeVars, devVars
<1>2. TypeOK'
  <2>1. NodeTypes'
    BY <1>0, <1>1 DEF TypeOK, NodeTypes
  <2>2. ListTypes'
    BY <1>0, <1>1 DEF TypeOK, ListTypes
  <2>3. ThreadTypes'
    BY <1>0, <1>1 DEF TypeOK, ThreadTypes
  <2> QED BY <2>1, <2>2, <2>3 DEF TypeOK
<1>3. NodesStay /\ MailStays
  BY <1>1 DEF NodesStay, MailStays
<1>4. Held(e)'
  BY <1>0, <1>1, HeldStays
<1>5. \A g \in Handler : pc'[g] = "nowork" /\ asleep'[g] = Dev =>
                           pc[g] = "nowork" /\ asleep[g] = Dev
  BY DEF Touches, Thread
<1>6. p # "inval" /\ pc'[h] # "inval" /\ treeLock' = treeLock
  OBVIOUS
<1> QED BY <1>0, <1>1, <1>2, <1>3, <1>4, <1>5, <1>6, QuietStep

(* A reply is put into the list of c; clients of c are woken up.           *)
LEMMA ReplyEffect ==
  ASSUME TypeOK, NEW c \in Chan, NEW r \in Rids,
         NEW res \in {"ok", "err", "data", "cancelled", "there"},
         SendReply(c, r, res)
  PROVE  /\ recvList' \in [Chan -> Seq(Replies)] /\ sendList' = sendList
         /\ \A d \in Chan \ {c} : recvList'[d] = recvList[d]
         /\ asleep' \in [Thread -> Chan \cup {Dev, None}]
         /\ \A g \in Handler : asleep'[g] = Dev => asleep[g] = Dev
<1>1. recvList \in [Chan -> Seq(Replies)] /\ asleep \in [Thread -> Chan \cup {Dev, None}]
  BY DEF TypeOK, ListTypes, ThreadTypes
<1>2. [rid |-> r, res |-> res] \in Replies
  BY DEF Replies
<1>3. /\ recvList' \in [Chan -> Seq(Replies)]
      /\ \A d \in Chan \ {c} : recvList'[d] = recvList[d]
  <2> DEFINE m == [rid |-> r, res |-> res]
             l == Append(recvList[c], m)
  <2>1. l \in Seq(Replies)
    BY <1>1, <1>2
  <2>2. recvList' = [recvList EXCEPT ![c] = l]
    BY DEF SendReply
  <2> HIDE DEF l
  <2> QED BY <1>1, <2>1, <2>2
<1>4. /\ asleep' \in [Thread -> Chan \cup {Dev, None}]
      /\ \A g \in Handler : asleep'[g] = Dev => asleep[g] = Dev
  BY <1>1, ChannelAssumption DEF SendReply, Woken, Thread
<1>5. sendList' = sendList
  BY DEF SendReply
<1> QED BY <1>3, <1>4, <1>5

(* A thread of the driver with a request, and where it is.                 *)
LEMMA BusyHandler ==
  ASSUME ChanInv, NEW h \in Handler, pc[h] \in {"fetch", "serve", "data", "drvclose"}
  PROVE  /\ TypeOK /\ h \in Thread /\ chan[h] \in Chan /\ node[chan[h]] # "unused"
         /\ req[h] \in Reqs /\ req[h].mid \in Rids /\ req[h].old \in Rids
         /\ pc[h] \in {"serve", "data"} => Busy(h, chan[h])
<1>1. TypeOK /\ HandlerAt(h) /\ h \in Thread
  BY DEF ChanInv, Thread
<1>2. chan[h] \in Chan
  BY <1>1 DEF HandlerAt
<1>3. req[h] \in Reqs
  BY <1>1 DEF TypeOK, ThreadTypes
<1>4. req[h].mid \in Rids /\ req[h].old \in Rids
  BY <1>3 DEF Reqs
<1> QED BY <1>1, <1>2, <1>3, <1>4, KnownChannel DEF Busy

(* While a thread of the driver has a request, an open() is either that    *)
(* request, or answered.                                                   *)
LEMMA BusyDone ==
  ASSUME NEW h \in Handler, NEW e \in Chan, Opening(e), Busy(h, e), Touches(h, e),
         sendList'[e] = sendList[e], pc'[h] \in {"loop", "data"}
  PROVE  Opening(e)'
<1>1. ~ OpenQueued(e)
  BY DEF Opening
<1>2. ~ OpenQueued(e)'
  BY <1>1 DEF OpenQueued
<1>3. ASSUME NEW g \in Handler, ServesOpen(g, e)' PROVE FALSE
  <2>1. g # h
    BY <1>3 DEF ServesOpen
  <2>2. ServesOpen(g, e)
    BY <1>3, <2>1 DEF ServesOpen, Touches, Thread
  <2> QED BY <2>1, <2>2 DEF Opening
<1> QED BY <1>2, <1>3 DEF Opening

(* The driver answers the request that it has, and looks for the next one. *)
LEMMA Answered ==
  ASSUME NCPU = 1, ChanInv, NEW h \in Handler, NEW p \in {"serve", "data"}, At(h, p),
         NEW res \in {"ok", "err", "data", "cancelled", "there"},
         SendReply(chan[h], req[h].mid, res), Leave(h, "loop"),
         UNCHANGED <<nodeVars, closed, devVars, msgCount, nextRid, treeLock, sig, sent>>,
         deferred' \in [Chan -> SUBSET Rids],
         \A d \in Chan : d # chan[h] => deferred'[d] = deferred[d],
         handler' \in [Chan -> Handler],
         \A c \in Chan : handler'[c] = handler[c] \/ sendList[c] = << >>
  PROVE  ChanInv'
<1>1. pc[h] = p
  BY DEF At
<1>2. /\ TypeOK /\ h \in Thread /\ chan[h] \in Chan /\ node[chan[h]] # "unused"
      /\ req[h].mid \in Rids /\ Busy(h, chan[h])
  BY <1>1, BusyHandler
<1>3. PICK e \in Chan : e = chan[h]
  BY <1>2
<1>4. /\ recvList' \in [Chan -> Seq(Replies)] /\ sendList' = sendList
      /\ \A d \in Chan \ {e} : recvList'[d] = recvList[d]
      /\ asleep' \in [Thread -> Chan \cup {Dev, None}]
      /\ \A g \in Handler : asleep'[g] = Dev => asleep[g] = Dev
  BY <1>2, <1>3, ReplyEffect
<1>5. GoOn(h, e, "loop") /\ "loop" \in Points
  BY <1>3 DEF Leave, Points, Outside
<1>6. /\ pc' \in [Thread -> Points] /\ pc'[h] = "loop"
      /\ chan' \in [Thread -> Chan \cup {None}] /\ chan'[h] = None
      /\ req' \in [Thread -> Reqs] /\ req'[h] = Idle0
      /\ \A u \in Thread \ {h} :
           pc'[u] = pc[u] /\ chan'[u] = chan[u] /\ req'[u] = req[u]
  BY <1>2, <1>5, GoOnEffect
<1>7. Touches(h, e)
  BY <1>3, <1>4, <1>6 DEF Touches, nodeVars
<1>8. HandlerAt(h)'
  BY <1>6 DEF HandlerAt
<1>9. Opening(e)'
  <2>1. Opening(e) /\ Busy(h, e)
    BY <1>2, <1>3 DEF ChanInv
  <2> QED BY <1>4, <1>6, <1>7, <2>1, BusyDone
<1>10. UNCHANGED <<nodeVars, sendList, msgCount, devVars, closed, nextRid,
                   treeLock, sig, sent>>
  BY <1>4
<1>11. node[e] # "unused" /\ p \in {"loop", "nowork", "fetch", "serve", "data"}
  BY <1>2, <1>3
<1>12. pc'[h] \in {"loop", "data"}
  BY <1>6
<1> QED BY <1>4, <1>6, <1>7, <1>8, <1>9, <1>10, <1>11, <1>12, HandlerMoves

LEMMA ServeOpenKeeps ==
  ASSUME NCPU = 1, ChanInv, NEW h \in Handler, NEW g \in Handler,
         NEW res \in {"ok", "err"}, ServeOpen(h, g, res)
  PROVE  ChanInv'
<1>0. /\ At(h, "serve") /\ req[h].op = "open"
      /\ SendReply(chan[h], req[h].mid, res) /\ Leave(h, "loop")
      /\ handler' = [handler EXCEPT ![chan[h]] = g]
      /\ UNCHANGED <<nodeVars, closed, devVars, msgCount, nextRid, treeLock, sig,
                     deferred, sent>>
  BY DEF ServeOpen, Serving
<1>1. pc[h] = "serve"
  BY <1>0 DEF At
<1>2. TypeOK /\ chan[h] \in Chan
  BY <1>1, BusyHandler
<1>3. sendList[chan[h]] = << >>
  BY <1>0, <1>1, <1>2 DEF ChanInv, Opening, ServesOpen
<1>4. handler \in [Chan -> Handler] /\ deferred \in [Chan -> SUBSET Rids]
  BY <1>2 DEF TypeOK, NodeTypes, ListTypes
<1>5. /\ handler' \in [Chan -> Handler]
      /\ \A c \in Chan : handler'[c] = handler[c] \/ sendList[c] = << >>
  BY <1>0, <1>2, <1>3, <1>4
<1> QED BY <1>0, <1>4, <1>5, Answered

LEMMA ServeDataKeeps ==
  ASSUME NCPU = 1, ChanInv, NEW h \in Handler, NEW res \in {"ok", "err"},
         ServeData(h, res)
  PROVE  ChanInv'
<1>0. /\ At(h, "serve")
      /\ SendReply(chan[h], req[h].mid, res) /\ Leave(h, "loop")
      /\ UNCHANGED <<nodeVars, closed, devVars, msgCount, nextRid, treeLock, sig, sent>>
      /\ handler' = handler /\ deferred' = deferred
  BY DEF ServeData, Serving, chanVars
<1>1. TypeOK
  BY DEF ChanInv
<1>2. handler \in [Chan -> Handler] /\ deferred \in [Chan -> SUBSET Rids]
  BY <1>1 DEF TypeOK, NodeTypes, ListTypes
<1> QED BY <1>0, <1>2, Answered

LEMMA SendDataKeeps ==
  ASSUME NCPU = 1, ChanInv, NEW h \in Handler, SendData(h)
  PROVE  ChanInv'
<1>0. /\ At(h, "data")
      /\ SendReply(chan[h], req[h].mid, "data") /\ Leave(h, "loop")
      /\ UNCHANGED <<nodeVars, closed, devVars, msgCount, nextRid, treeLock, sig, sent>>
      /\ handler' = handler /\ deferred' = deferred
  BY DEF SendData, chanVars
<1>1. TypeOK
  BY DEF ChanInv
<1>2. handler \in [Chan -> Handler] /\ deferred \in [Chan -> SUBSET Rids]
  BY <1>1 DEF TypeOK, NodeTypes, ListTypes
<1> QED BY <1>0, <1>2, Answered

LEMMA ServeCancelKeeps ==
  ASSUME NCPU = 1, ChanInv, NEW h \in Handler, ServeCancel(h)
  PROVE  ChanInv'
<1> DEFINE res == IF req[h].old \in deferred[chan[h]] THEN "cancelled" ELSE "there"
<1>0. /\ At(h, "serve")
      /\ SendReply(chan[h], req[h].mid, res) /\ Leave(h, "loop")
      /\ deferred' = [deferred EXCEPT ![chan[h]] = @ \ {req[h].old}]
      /\ UNCHANGED <<nodeVars, closed, devVars, msgCount, nextRid, treeLock, sig, sent>>
      /\ handler' = handler
  BY DEF ServeCancel, Serving, chanVars
<1>1. res \in {"ok", "err", "data", "cancelled", "there"}
  OBVIOUS
<1> HIDE DEF res
<1>2. TypeOK /\ chan[h] \in Chan
  BY <1>0, BusyHandler DEF At
<1>3. handler \in [Chan -> Handler] /\ deferred \in [Chan -> SUBSET Rids]
  BY <1>2 DEF TypeOK, NodeTypes, ListTypes
<1>4. /\ deferred' \in [Chan -> SUBSET Rids]
      /\ \A d \in Chan : d # chan[h] => deferred'[d] = deferred[d]
  BY <1>0, <1>2, <1>3
<1> QED BY <1>0, <1>1, <1>3, <1>4, Answered

LEMMA ServeReadKeeps ==
  ASSUME NCPU = 1, ChanInv, NEW h \in Handler, NEW res \in {"ok", "err"},
         ServeRead(h, res)
  PROVE  ChanInv'
<1>0. /\ At(h, "serve") /\ SendReply(chan[h], req[h].mid, res)
      /\ UNCHANGED <<nodeVars, closed, devVars, msgCount, nextRid, treeLock, sig, sent>>
      /\ handler' = handler /\ deferred' = deferred
  BY DEF ServeRead, Serving, chanVars
<1>1. pc[h] = "serve"
  BY <1>0 DEF At
<1>2. /\ TypeOK /\ h \in Thread /\ chan[h] \in Chan /\ node[chan[h]] # "unused"
      /\ req[h].mid \in Rids /\ Busy(h, chan[h])
  BY <1>1, BusyHandler
<1>3. handler \in [Chan -> Handler] /\ deferred \in [Chan -> SUBSET Rids]
  BY <1>2 DEF TypeOK, NodeTypes, ListTypes
<1>4. CASE res # "ok"
  <2>1. Leave(h, "loop")
    BY <1>4 DEF ServeRead
  <2> QED BY <1>0, <1>3, <2>1, Answered
<1>5. CASE res = "ok"
  <2>1. Goto(h, "data") /\ chan' = chan /\ req' = req /\ "data" \in Points
    BY <1>5 DEF ServeRead, Points, Outside
  <2>2. PICK e \in Chan : e = chan[h]
    BY <1>2
  <2>3. /\ recvList' \in [Chan -> Seq(Replies)] /\ sendList' = sendList
        /\ \A d \in Chan \ {e} : recvList'[d] = recvList[d]
        /\ asleep' \in [Thread -> Chan \cup {Dev, None}]
        /\ \A g \in Handler : asleep'[g] = Dev => asleep[g] = Dev
    BY <1>0, <1>2, <2>2, ReplyEffect
  <2>4. /\ pc' \in [Thread -> Points] /\ pc'[h] = "data"
        /\ \A u \in Thread \ {h} : pc'[u] = pc[u]
    BY <1>2, <2>1, GotoEffect
  <2>5. chan \in [Thread -> Chan \cup {None}] /\ req \in [Thread -> Reqs]
    BY <1>2 DEF TypeOK, ThreadTypes
  <2>6. Touches(h, e)
    BY <1>0, <2>1, <2>2, <2>3, <2>4 DEF Touches, nodeVars
  <2>7. HandlerAt(h)'
    BY <1>2, <2>1, <2>4 DEF HandlerAt
  <2>8. Opening(e)'
    <3>1. Opening(e) /\ Busy(h, e)
      BY <1>2, <2>2 DEF ChanInv
    <3> QED BY <2>3, <2>4, <2>6, <3>1, BusyDone
  <2>9. UNCHANGED <<nodeVars, sendList, msgCount, devVars, closed, nextRid,
                    treeLock, sig, sent>>
    BY <1>0, <2>3
  <2>10. /\ node[e] # "unused" /\ pc'[h] \in {"loop", "data"}
         /\ chan' \in [Thread -> Chan \cup {None}] /\ req' \in [Thread -> Reqs]
         /\ handler' \in [Chan -> Handler] /\ deferred' \in [Chan -> SUBSET Rids]
    BY <1>0, <1>2, <1>3, <2>1, <2>2, <2>4, <2>5
  <2> QED BY <1>0, <2>3, <2>4, <2>6, <2>7, <2>8, <2>9, <2>10, HandlerMoves
<1> QED BY <1>4, <1>5

LEMMA DeferKeeps ==
  ASSUME NCPU = 1, ChanInv, NEW h \in Handler, Defer(h)
  PROVE  ChanInv'
<1>0. /\ At(h, "serve") /\ Leave(h, "loop")
      /\ deferred' = [deferred EXCEPT ![chan[h]] = @ \cup {req[h].mid}]
      /\ UNCHANGED <<nodeVars, closed, devVars, msgCount, nextRid, treeLock, sig, sent>>
      /\ handler' = handler /\ sendList' = sendList /\ recvList' = recvList
      /\ asleep' = asleep
  BY DEF Defer, Serving, chanVars, listVars
<1>1. pc[h] = "serve"
  BY <1>0 DEF At
<1>2. /\ TypeOK /\ h \in Thread /\ chan[h] \in Chan /\ node[chan[h]] # "unused"
      /\ req[h].mid \in Rids /\ Busy(h, chan[h])
  BY <1>1, BusyHandler
<1>3. PICK e \in Chan : e = chan[h]
  BY <1>2
<1>4. /\ handler \in [Chan -> Handler] /\ deferred \in [Chan -> SUBSET Rids]
      /\ recvList \in [Chan -> Seq(Replies)]
      /\ asleep \in [Thread -> Chan \cup {Dev, None}]
  BY <1>2 DEF TypeOK, NodeTypes, ListTypes, ThreadTypes
<1>5. GoOn(h, e, "loop") /\ "loop" \in Points
  BY <1>0, <1>3 DEF Leave, Points, Outside
<1>6. /\ pc' \in [Thread -> Points] /\ pc'[h] = "loop"
      /\ chan' \in [Thread -> Chan \cup {None}] /\ chan'[h] = None
      /\ req' \in [Thread -> Reqs] /\ req'[h] = Idle0
      /\ \A u \in Thread \ {h} :
           pc'[u] = pc[u] /\ chan'[u] = chan[u] /\ req'[u] = req[u]
  BY <1>2, <1>5, GoOnEffect
<1>61. /\ deferred' \in [Chan -> SUBSET Rids]
       /\ \A d \in Chan \ {e} : deferred'[d] = deferred[d]
  BY <1>0, <1>2, <1>3, <1>4
<1>7. Touches(h, e)
  BY <1>0, <1>3, <1>6, <1>61 DEF Touches, nodeVars
<1>8. HandlerAt(h)'
  BY <1>6 DEF HandlerAt
<1>9. Opening(e)'
  <2>1. Opening(e) /\ Busy(h, e)
    BY <1>2, <1>3 DEF ChanInv
  <2> QED BY <1>0, <1>6, <1>7, <2>1, BusyDone
<1>10. UNCHANGED <<nodeVars, sendList, msgCount, devVars, closed, nextRid,
                   treeLock, sig, sent>>
  BY <1>0
<1>11. /\ node[e] # "unused" /\ pc'[h] \in {"loop", "data"}
       /\ recvList' \in [Chan -> Seq(Replies)] /\ handler' \in [Chan -> Handler]
       /\ asleep' \in [Thread -> Chan \cup {Dev, None}]
  BY <1>0, <1>2, <1>3, <1>4, <1>6
<1> QED BY <1>0, <1>6, <1>61, <1>7, <1>8, <1>9, <1>10, <1>11, HandlerMoves

LEMMA IdlingAt ==
  ASSUME ChanInv, NEW h \in Handler, Idling(h)
  PROVE  /\ \E p \in {"loop", "nowork"} : At(h, p)
         /\ TypeOK /\ h \in Thread /\ h \notin Client
         /\ chan[h] = None /\ req[h] = Idle0
<1>1. PICK p \in {"loop", "nowork"} : At(h, p)
  BY DEF Idling
<1>2. TypeOK /\ HandlerAt(h) /\ pc[h] = p
  BY <1>1 DEF ChanInv, At
<1> QED BY <1>1, <1>2, ChannelAssumption DEF HandlerAt, Thread

LEMMA CompleteKeeps ==
  ASSUME NCPU = 1, ChanInv, NEW h \in Handler, NEW c \in Chan, NEW r \in Rids,
         Complete(h, c, r)
  PROVE  ChanInv'
<1> DEFINE q == [Idle0 EXCEPT !.op = "read", !.mid = r]
<1>0. /\ Idling(h) /\ r \in deferred[c] /\ SendReply(c, r, "ok")
      /\ deferred' = [deferred EXCEPT ![c] = @ \ {r}]
      /\ Goto(h, "data") /\ "data" \in Points
      /\ chan' = [chan EXCEPT ![h] = c]
      /\ req' = [req EXCEPT ![h] = q]
      /\ UNCHANGED <<nodeVars, closed, devVars, msgCount, nextRid, treeLock, sig, sent>>
      /\ handler' = handler
  BY DEF Complete, chanVars, Points, Outside
<1>1. PICK p \in {"loop", "nowork"} : At(h, p)
  BY <1>0, IdlingAt
<1>2. TypeOK /\ h \in Thread /\ chan[h] = None
  BY <1>0, IdlingAt
<1>3. q \in Reqs
  BY IdleType DEF Reqs
<1> HIDE DEF q
<1>4. /\ recvList' \in [Chan -> Seq(Replies)] /\ sendList' = sendList
      /\ \A d \in Chan \ {c} : recvList'[d] = recvList[d]
      /\ asleep' \in [Thread -> Chan \cup {Dev, None}]
      /\ \A g \in Handler : asleep'[g] = Dev => asleep[g] = Dev
  BY <1>0, <1>2, ReplyEffect
<1>5. /\ pc' \in [Thread -> Points] /\ pc'[h] = "data"
      /\ \A u \in Thread \ {h} : pc'[u] = pc[u]
  BY <1>0, <1>2, GotoEffect
<1>6. /\ chan \in [Thread -> Chan \cup {None}] /\ req \in [Thread -> Reqs]
      /\ handler \in [Chan -> Handler] /\ deferred \in [Chan -> SUBSET Rids]
  BY <1>2 DEF TypeOK, NodeTypes, ListTypes, ThreadTypes
<1>7. /\ chan' \in [Thread -> Chan \cup {None}] /\ chan'[h] = c
      /\ \A u \in Thread \ {h} : chan'[u] = chan[u]
  BY <1>0, <1>2, <1>6
<1>8. /\ req' \in [Thread -> Reqs]
      /\ \A u \in Thread \ {h} : req'[u] = req[u]
  BY <1>0, <1>2, <1>3, <1>6
<1>9. /\ deferred' \in [Chan -> SUBSET Rids]
      /\ \A d \in Chan \ {c} : deferred'[d] = deferred[d]
  BY <1>0, <1>6
<1>10. Touches(h, c)
  BY <1>0, <1>2, <1>4, <1>5, <1>7, <1>8, <1>9 DEF Touches, nodeVars
<1>11. HandlerAt(h)'
  BY <1>5, <1>7 DEF HandlerAt
<1>12. node[c] # "unused"
  BY <1>0 DEF ChanInv, Blank
<1>13. Opening(c)'
  <2>1. Opening(c) /\ ~ Fresh(c)
    BY <1>0 DEF ChanInv, Fresh
  <2>2. ~ OpenQueued(c)'
    BY <1>4, <2>1 DEF Opening, OpenQueued
  <2>3. ASSUME NEW g \in Handler, ServesOpen(g, c)' PROVE FALSE
    <3>1. g # h
      BY <1>5, <2>3 DEF ServesOpen
    <3>2. ServesOpen(g, c)
      BY <2>3, <3>1, <1>10 DEF ServesOpen, Touches, Thread
    <3> QED BY <2>1, <3>2 DEF Opening
  <2> QED BY <2>2, <2>3 DEF Opening
<1>14. UNCHANGED <<nodeVars, sendList, msgCount, devVars, closed, nextRid,
                   treeLock, sig, sent>>
  BY <1>0, <1>4
<1>15. /\ pc'[h] \in {"loop", "data"} /\ handler' \in [Chan -> Handler]
       /\ \A d \in Chan : handler'[d] = handler[d] \/ sendList[d] = << >>
  BY <1>0, <1>5, <1>6
<1>16. /\ recvList' \in [Chan -> Seq(Replies)] /\ deferred' \in [Chan -> SUBSET Rids]
       /\ pc' \in [Thread -> Points] /\ chan' \in [Thread -> Chan \cup {None}]
       /\ req' \in [Thread -> Reqs] /\ asleep' \in [Thread -> Chan \cup {Dev, None}]
       /\ \A g \in Handler : asleep'[g] = Dev => asleep[g] = Dev
  BY <1>4, <1>5, <1>7, <1>8, <1>9
<1>17. p \in {"loop", "nowork", "fetch", "serve", "data"} /\ At(h, p)
  BY <1>1
<1> QED BY <1>10, <1>11, <1>12, <1>13, <1>14, <1>15, <1>16, <1>17, HandlerMoves

-----------------------------------------------------------------------------
(* The driver looks for work.                                              *)

(* The channel has no file of the driver anymore.                          *)
LEMMA FetchNothingKeeps ==
  ASSUME NCPU = 1, ChanInv, NEW h \in Handler, Fetch(h), ~ driverFile[chan[h]]
  PROVE  ChanInv'
<1>0. /\ At(h, "fetch") /\ Leave(h, "loop")
      /\ UNCHANGED <<nodeVars, closed, devVars, msgCount, nextRid, treeLock, sig, sent>>
      /\ handler' = handler /\ sendList' = sendList /\ recvList' = recvList
      /\ asleep' = asleep /\ deferred' = deferred
  BY DEF Fetch, chanVars
<1>1. pc[h] = "fetch"
  BY <1>0 DEF At
<1>2. TypeOK /\ h \in Thread /\ chan[h] \in Chan /\ node[chan[h]] # "unused"
  BY <1>1, BusyHandler
<1>3. PICK e \in Chan : e = chan[h]
  BY <1>2
<1>4. /\ handler \in [Chan -> Handler] /\ deferred \in [Chan -> SUBSET Rids]
      /\ recvList \in [Chan -> Seq(Replies)]
      /\ asleep \in [Thread -> Chan \cup {Dev, None}]
  BY <1>2 DEF TypeOK, NodeTypes, ListTypes, ThreadTypes
<1>5. GoOn(h, e, "loop") /\ "loop" \in Points
  BY <1>0, <1>3 DEF Leave, Points, Outside
<1>6. /\ pc' \in [Thread -> Points] /\ pc'[h] = "loop"
      /\ chan' \in [Thread -> Chan \cup {None}] /\ chan'[h] = None
      /\ req' \in [Thread -> Reqs] /\ req'[h] = Idle0
      /\ \A u \in Thread \ {h} :
           pc'[u] = pc[u] /\ chan'[u] = chan[u] /\ req'[u] = req[u]
  BY <1>2, <1>5, GoOnEffect
<1>7. Touches(h, e)
  BY <1>0, <1>3, <1>6 DEF Touches, nodeVars
<1>8. HandlerAt(h)'
  BY <1>6 DEF HandlerAt
<1>9. Opening(e)'
  <2>0. Opening(e)
    BY DEF ChanInv
  <2>1. \A g \in Handler : /\ Busy(g, e)' <=> Busy(g, e)
                           /\ ServesOpen(g, e)' <=> ServesOpen(g, e)
    BY <1>1, <1>6 DEF Busy, ServesOpen, Thread
  <2>2. \A u \in Client : chan'[u] = chan[u] /\ pc'[u] = pc[u]
    BY <1>6, ChannelAssumption DEF Thread
  <2>3. Fresh(e) => Fresh(e)'
    BY <1>0, <2>2 DEF Fresh, nodeVars
  <2>4. OpenQueued(e)' <=> OpenQueued(e)
    BY <1>0 DEF OpenQueued
  <2> QED BY <1>0, <2>0, <2>1, <2>3, <2>4 DEF Opening
<1>10. UNCHANGED <<nodeVars, sendList, msgCount, devVars, closed, nextRid,
                   treeLock, sig, sent>>
  BY <1>0
<1>11. /\ node[e] # "unused" /\ pc'[h] \in {"loop", "data"}
       /\ recvList' \in [Chan -> Seq(Replies)] /\ handler' \in [Chan -> Handler]
       /\ asleep' \in [Thread -> Chan \cup {Dev, None}]
       /\ deferred' \in [Chan -> SUBSET Rids]
  BY <1>0, <1>2, <1>3, <1>4, <1>6
<1> QED BY <1>0, <1>6, <1>7, <1>8, <1>9, <1>10, <1>11, HandlerMoves

LEMMA GetWorkInterruptedKeeps ==
  ASSUME NCPU = 1, ChanInv, NEW h \in Handler, GetWorkInterrupted(h)
  PROVE  ChanInv'
<1>0. /\ At(h, "nowork") /\ Goto(h, "loop") /\ "loop" \in Points
      /\ asleep' = [asleep EXCEPT ![h] = None]
      /\ UNCHANGED <<nodeVars, chanVars, listVars, devVars, msgCount, nextRid,
                     treeLock, chan, req, sig, deferred, sent>>
  BY DEF GetWorkInterrupted, Points, Outside
<1>1. TypeOK /\ HandlerAt(h) /\ h \in Thread /\ h \notin Client /\ pc[h] = "nowork"
  BY <1>0, ChannelAssumption DEF ChanInv, Thread, At
<1>2. chan[h] = None /\ req[h] = Idle0
  BY <1>1 DEF HandlerAt
<1>3. /\ pc' \in [Thread -> Points] /\ pc'[h] = "loop"
      /\ \A u \in Thread \ {h} : pc'[u] = pc[u]
  BY <1>0, <1>1, GotoEffect
<1>4. /\ node' = node /\ refs' = refs
      /\ clientFile' = clientFile /\ driverFile' = driverFile
      /\ closed' = closed /\ handler' = handler
      /\ sendList' = sendList /\ recvList' = recvList /\ deferred' = deferred
      /\ devAlive' = devAlive /\ children' = children /\ lastClient' = lastClient
      /\ chan' = chan /\ req' = req /\ treeLock' = treeLock /\ msgCount' = msgCount
      /\ nextRid' = nextRid /\ sent' = sent /\ sig' = sig
  BY <1>0 DEF nodeVars, chanVars, listVars, devVars
<1>5. asleep \in [Thread -> Chan \cup {Dev, None}]
  BY <1>1 DEF TypeOK, ThreadTypes
<1>6. /\ asleep' \in [Thread -> Chan \cup {Dev, None}]
      /\ \A g \in Thread \ {h} : asleep'[g] = asleep[g]
  BY <1>0, <1>1, <1>5
<1>7. TypeOK'
  <2>1. NodeTypes'
    BY <1>1, <1>4 DEF TypeOK, NodeTypes
  <2>2. ListTypes'
    BY <1>1, <1>4 DEF TypeOK, ListTypes
  <2>3. ThreadTypes'
    BY <1>1, <1>3, <1>4, <1>6 DEF TypeOK, ThreadTypes
  <2> QED BY <2>1, <2>2, <2>3 DEF TypeOK
<1>8. Touches(h, None)
  BY <1>2, <1>3, <1>4 DEF Touches
<1>9. NodesStay /\ MailStays
  BY <1>4 DEF NodesStay, MailStays
<1>10. HandlerAt(h)'
  BY <1>2, <1>3, <1>4 DEF HandlerAt
<1>11. \A g \in Handler : pc'[g] = "nowork" /\ asleep'[g] = Dev =>
                            pc[g] = "nowork" /\ asleep[g] = Dev
  BY <1>3, <1>6 DEF Thread
<1>12. None \notin Chan /\ pc'[h] # "inval"
  BY <1>3, ChannelAssumption
<1> QED BY <1>0, <1>1, <1>4, <1>7, <1>8, <1>9, <1>10, <1>11, <1>12, QuietStep

(* What getWork() leaves alone.                                            *)
GetWorkFrame(h) ==
  /\ node' = node /\ refs' = refs
  /\ clientFile' = clientFile /\ driverFile' = driverFile
  /\ closed' = closed /\ handler' = handler
  /\ sendList' = sendList /\ recvList' = recvList /\ deferred' = deferred
  /\ devAlive' = devAlive /\ children' = children
  /\ treeLock' = treeLock /\ msgCount' = msgCount
  /\ nextRid' = nextRid /\ sent' = sent /\ sig' = sig /\ req' = req
  /\ \A u \in Thread \ {h} : pc'[u] = pc[u] /\ chan'[u] = chan[u]

LEMMA GetWorkFound ==
  ASSUME NCPU = 1, ChanInv, NEW h \in Handler, Idling(h), GetWorkFrame(h),
         NEW c \in Chan, InList(children, c), lastClient' = c,
         pc' \in [Thread -> Points], pc'[h] = "fetch",
         chan' \in [Thread -> Chan \cup {None}], chan'[h] = c, asleep' = asleep
  PROVE  ChanInv'
<1>1. PICK p \in {"loop", "nowork"} : At(h, p)
  BY IdlingAt
<1>2. TypeOK /\ h \in Thread /\ h \notin Client /\ chan[h] = None /\ pc[h] = p
  BY <1>1, IdlingAt DEF At
<1>3. Touches(h, c)
  BY <1>2 DEF Touches, GetWorkFrame
<1>4. TypeOK'
  <2>1. NodeTypes'
    BY <1>2 DEF TypeOK, NodeTypes, GetWorkFrame
  <2>2. ListTypes'
    BY <1>2 DEF TypeOK, ListTypes, GetWorkFrame
  <2>3. ThreadTypes'
    BY <1>2 DEF TypeOK, ThreadTypes, GetWorkFrame
  <2> QED BY <2>1, <2>2, <2>3 DEF TypeOK
<1>5. Solo' /\ Dropping'
  BY <1>1, <1>2, <1>3, ClearStep DEF GetWorkFrame
<1>6. Kids'
  BY KidsStay DEF GetWorkFrame
<1>7. Counted'
  BY CountStays DEF GetWorkFrame, MailStays
<1>8. node[c] = "alive"
  BY DEF ChanInv, Kids
<1>9. LastClientValid'
  BY <1>8 DEF LastClientValid, GetWorkFrame
<1>10. SleepsWithoutWork'
  <2>1. \A g \in Handler : pc'[g] = "nowork" /\ asleep'[g] = Dev =>
                             pc[g] = "nowork" /\ asleep[g] = Dev
    BY DEF GetWorkFrame, Thread
  <2> QED BY <2>1, SleepStays DEF GetWorkFrame
<1>11. HandlerAt(h)'
  BY DEF HandlerAt
<1>12. Held(c)'
  BY <1>2, <1>3, HeldStays DEF GetWorkFrame
<1>13. Blank(c)'
  BY <1>8 DEF Blank, GetWorkFrame
<1>14. Opening(c)'
  <2>0. Opening(c)
    BY DEF ChanInv
  <2>1. \A g \in Handler : /\ Busy(g, c)' <=> Busy(g, c)
                           /\ ServesOpen(g, c)' <=> ServesOpen(g, c)
    BY <1>2 DEF Busy, ServesOpen, Thread, GetWorkFrame
  <2>2. \A u \in Client : chan'[u] = chan[u] /\ pc'[u] = pc[u]
    BY <1>2 DEF Thread, GetWorkFrame
  <2>3. Fresh(c) => Fresh(c)'
    BY <2>2 DEF Fresh, GetWorkFrame
  <2>4. sendList' = sendList
    BY DEF GetWorkFrame
  <2>5. OpenQueued(c)' <=> OpenQueued(c)
    BY <2>4 DEF OpenQueued
  <2> QED BY <2>0, <2>1, <2>3, <2>4, <2>5 DEF Opening
<1> QED BY <1>2, <1>3, <1>4, <1>5, <1>6, <1>7, <1>9, <1>10, <1>11, <1>12, <1>13, <1>14, Assembled

(* An empty count means that no channel has a message.                     *)
LEMMA NothingCounted ==
  ASSUME ChanInv, msgCount = 0, NEW c \in Chan
  PROVE  sendList[c] = << >>
<1>1. Queued = {}
  BY FS_EmptySet DEF ChanInv, Counted
<1>2. ChanInv => TypeOK
  BY DEF ChanInv
<1>3. sendList[c] \in Seq(Messages)
  BY <1>2 DEF TypeOK, ListTypes
<1>4. ASSUME sendList[c] # << >> PROVE FALSE
  <2>1. 1 \in 1 .. Len(sendList[c])
    BY <1>3, <1>4
  <2>2. <<c, 1>> \in {c} \X (1 .. Len(sendList[c]))
    BY <2>1
  <2>3. <<c, 1>> \in Queued
    BY <2>2 DEF Queued
  <2> QED BY <1>1, <2>3
<1> QED BY <1>4

LEMMA GetWorkSleeps ==
  ASSUME NCPU = 1, ChanInv, NEW h \in Handler, Idling(h), GetWorkFrame(h),
         msgCount = 0 \/ WithWork(h) = {},
         lastClient' = IF msgCount = 0 THEN lastClient ELSE None,
         pc' \in [Thread -> Points], pc'[h] = "nowork", chan' = chan,
         asleep' = [asleep EXCEPT ![h] = Dev]
  PROVE  ChanInv'
<1>1. PICK p \in {"loop", "nowork"} : At(h, p)
  BY IdlingAt
<1>2. TypeOK /\ h \in Thread /\ h \notin Client /\ chan[h] = None /\ req[h] = Idle0
      /\ pc[h] = p
  BY <1>1, IdlingAt DEF At
<1>3. Touches(h, None)
  BY <1>2 DEF Touches, GetWorkFrame
<1>4. TypeOK'
  <2>1. NodeTypes'
    BY <1>2 DEF TypeOK, NodeTypes, GetWorkFrame
  <2>2. ListTypes'
    BY <1>2 DEF TypeOK, ListTypes, GetWorkFrame
  <2>3. ThreadTypes'
    BY <1>2 DEF TypeOK, ThreadTypes, GetWorkFrame
  <2> QED BY <2>1, <2>2, <2>3 DEF TypeOK
<1>5. Solo' /\ Dropping'
  BY <1>1, <1>2, <1>3, ClearStep DEF GetWorkFrame
<1>6. Kids'
  BY KidsStay DEF GetWorkFrame
<1>7. Counted'
  BY CountStays DEF GetWorkFrame, MailStays
<1>8. LastClientValid'
  BY DEF ChanInv, LastClientValid, GetWorkFrame
<1>9. ASSUME NEW c \in Chan, driverFile[c] PROVE ~ HasWork(h, c)
  <2>1. CASE msgCount = 0
    BY <2>1, NothingCounted DEF HasWork
  <2>2. CASE WithWork(h) = {}
    <3>1. Held(c) /\ Kids
      BY DEF ChanInv
    <3>2. InList(children, c)
      BY <1>9, <3>1 DEF Held, Kids
    <3>3. children \in Seq(Chan)
      BY <1>2 DEF TypeOK, ListTypes
    <3>4. PICK i \in 1 .. Len(SearchOrder) : SearchOrder[i] = c
      BY <3>2, <3>3, SearchMembers
    <3> QED BY <2>2, <3>4 DEF WithWork
  <2> QED BY <2>1, <2>2
<1>10. SleepsWithoutWork'
  <2>1. ASSUME NEW g \in Handler, NEW c \in Chan,
               pc'[g] = "nowork", asleep'[g] = Dev, driverFile'[c], HasWork(g, c)'
        PROVE  FALSE
    <3>1. HasWork(g, c) /\ driverFile[c]
      BY <2>1 DEF HasWork, GetWorkFrame
    <3>2. g # h
      BY <1>9, <2>1, <3>1
    <3>3. pc[g] = "nowork" /\ asleep[g] = Dev
      BY <1>2, <2>1, <3>2 DEF GetWorkFrame, Thread, TypeOK, ThreadTypes
    <3> QED BY <3>1, <3>3 DEF ChanInv, SleepsWithoutWork
  <2> QED BY <2>1 DEF SleepsWithoutWork
<1>11. HandlerAt(h)'
  BY <1>2 DEF HandlerAt, GetWorkFrame
<1>12. None \notin Chan
  BY ChannelAssumption
<1> QED BY <1>2, <1>3, <1>4, <1>5, <1>6, <1>7, <1>8, <1>10, <1>11, <1>12, Assembled

LEMMA GetWorkKeeps ==
  ASSUME NCPU = 1, ChanInv, NEW h \in Handler, GetWork(h)
  PROVE  ChanInv'
<1>0. Idling(h) /\ TypeOK /\ h \in Thread /\ children \in Seq(Chan)
  BY IdlingAt DEF GetWork, TypeOK, ListTypes
<1>1. /\ node' = node /\ refs' = refs
      /\ clientFile' = clientFile /\ driverFile' = driverFile
      /\ closed' = closed /\ handler' = handler
      /\ sendList' = sendList /\ recvList' = recvList /\ deferred' = deferred
      /\ devAlive' = devAlive /\ children' = children
      /\ treeLock' = treeLock /\ msgCount' = msgCount
      /\ nextRid' = nextRid /\ sent' = sent /\ sig' = sig /\ req' = req
  BY DEF GetWork, nodeVars, chanVars, listVars
<1>2. chan \in [Thread -> Chan \cup {None}] /\ pc \in [Thread -> Points]
  BY <1>0 DEF TypeOK, ThreadTypes
<1>3. CASE msgCount # 0 /\ WithWork(h) # {}
  <2> DEFINE i == Min(WithWork(h))
  <2>1. i \in WithWork(h)
    <3>1. WithWork(h) \in SUBSET (1 .. Len(SearchOrder)) /\ Len(SearchOrder) \in Nat
      BY <1>0, SearchMembers DEF WithWork
    <3> QED BY <1>3, <3>1, LeastPlace
  <2>2. /\ lastClient' = SearchOrder[i] /\ chan' = [chan EXCEPT ![h] = SearchOrder[i]]
        /\ Goto(h, "fetch") /\ asleep' = asleep
    BY <1>3 DEF GetWork
  <2> HIDE DEF i
  <2>3. InList(children, SearchOrder[i])
    BY <1>0, <2>1, SearchMembers DEF WithWork
  <2>4. SearchOrder[i] \in Chan
    BY <1>0, <2>3, NoMembers
  <2>5. PICK c \in Chan : c = SearchOrder[i]
    BY <2>4
  <2>6. "fetch" \in Points
    BY DEF Points
  <2>7. /\ pc' \in [Thread -> Points] /\ pc'[h] = "fetch"
        /\ \A u \in Thread \ {h} : pc'[u] = pc[u]
    BY <1>0, <2>2, <2>6, GotoEffect
  <2>8. /\ chan' \in [Thread -> Chan \cup {None}] /\ chan'[h] = c
        /\ \A u \in Thread \ {h} : chan'[u] = chan[u]
    BY <1>0, <1>2, <2>2, <2>5
  <2>9. GetWorkFrame(h)
    BY <1>1, <2>7, <2>8 DEF GetWorkFrame
  <2> QED BY <1>0, <2>2, <2>3, <2>5, <2>7, <2>8, <2>9, GetWorkFound
<1>4. CASE ~ (msgCount # 0 /\ WithWork(h) # {})
  <2>1. /\ lastClient' = IF msgCount = 0 THEN lastClient ELSE None
        /\ asleep' = [asleep EXCEPT ![h] = Dev] /\ Goto(h, "nowork") /\ chan' = chan
    BY <1>4 DEF GetWork
  <2>2. "nowork" \in Points
    BY DEF Points, Outside
  <2>3. /\ pc' \in [Thread -> Points] /\ pc'[h] = "nowork"
        /\ \A u \in Thread \ {h} : pc'[u] = pc[u]
    BY <1>0, <2>1, <2>2, GotoEffect
  <2>4. GetWorkFrame(h)
    BY <1>1, <2>1, <2>3 DEF GetWorkFrame
  <2> QED BY <1>0, <1>4, <2>1, <2>3, <2>4, GetWorkSleeps
<1> QED BY <1>3, <1>4

-----------------------------------------------------------------------------
(* The driver takes messages.                                              *)

LEMMA FirstTaken ==
  ASSUME NCPU = 1, ChanInv, NEW h \in Handler, NEW p \in {"fetch", "serve"}, At(h, p),
         NEW e \in Chan, e = chan[h], sendList[e] # << >>, FetchFirst(e),
         UNCHANGED <<nodeVars, chanVars, recvList, devVars, nextRid, treeLock, asleep,
                     sig, deferred, sent, chan>>,
         pc' \in [Thread -> Points], req' \in [Thread -> Reqs],
         \A u \in Thread \ {h} : pc'[u] = pc[u] /\ req'[u] = req[u],
         pc'[h] \in {"serve", "drvclose"}, Opening(e)'
  PROVE  ChanInv'
<1>1. TypeOK /\ h \in Thread /\ h \notin Client
  BY ChannelAssumption DEF ChanInv, Thread
<1>2. node[e] # "unused"
  BY <1>1, KnownChannel
<1>3. /\ node' = node /\ refs' = refs
      /\ clientFile' = clientFile /\ driverFile' = driverFile
      /\ closed' = closed /\ handler' = handler
      /\ devAlive' = devAlive /\ children' = children /\ lastClient' = lastClient
  BY DEF nodeVars, chanVars, devVars
<1>4. sendList \in [Chan -> Seq(Messages)] /\ msgCount \in Nat
  BY <1>1 DEF TypeOK, ListTypes
<1>5. /\ Tail(sendList[e]) \in Seq(Messages)
      /\ Len(Tail(sendList[e])) = Len(sendList[e]) - 1 /\ Len(sendList[e]) \in Nat
  BY <1>4
<1>6. /\ sendList' \in [Chan -> Seq(Messages)] /\ sendList'[e] = Tail(sendList[e])
      /\ \A d \in Chan \ {e} : sendList'[d] = sendList[d]
      /\ msgCount' = msgCount - 1
  BY <1>4, <1>5 DEF FetchFirst
<1>7. msgCount' = msgCount - Len(sendList[e]) + Len(sendList'[e])
  BY <1>4, <1>5, <1>6
<1>8. Counted' /\ msgCount' \in Nat
  BY <1>6, <1>7, CountFollows
<1>9. Touches(h, e)
  BY <1>3, <1>6 DEF Touches
<1>10. TypeOK'
  <2>1. NodeTypes'
    BY <1>1, <1>3 DEF TypeOK, NodeTypes
  <2>2. ListTypes'
    BY <1>1, <1>3, <1>6, <1>8 DEF TypeOK, ListTypes
  <2>3. ThreadTypes'
    BY <1>1 DEF TypeOK, ThreadTypes
  <2> QED BY <2>1, <2>2, <2>3 DEF TypeOK
<1>11. Solo' /\ Dropping'
  BY <1>1, <1>9, ClearStep
<1>12. Kids'
  BY <1>3, KidsStay
<1>13. LastClientValid'
  BY <1>3 DEF ChanInv, LastClientValid
<1>14. SleepsWithoutWork'
  <2>1. \A g \in Handler : pc'[g] = "nowork" /\ asleep'[g] = Dev =>
                             pc[g] = "nowork" /\ asleep[g] = Dev
    BY DEF Thread
  <2>2. \A c \in Chan : sendList'[c] = << >> \/ sendList'[c] = sendList[c]
                          \/ sendList[c] # << >>
    BY <1>6
  <2> QED BY <1>3, <2>1, <2>2, SleepStays
<1>15. HandlerAt(h)'
  BY DEF HandlerAt
<1>16. Held(e)'
  BY <1>1, <1>3, <1>9, HeldStays
<1>17. Blank(e)'
  BY <1>2, <1>3 DEF Blank
<1> QED BY <1>1, <1>8, <1>9, <1>10, <1>11, <1>12, <1>13, <1>14, <1>15, <1>16, <1>17, Assembled

LEMMA FetchMessageKeeps ==
  ASSUME NCPU = 1, ChanInv, NEW h \in Handler, Fetch(h), driverFile[chan[h]]
  PROVE  ChanInv'
<1>0. /\ At(h, "fetch") /\ sendList[chan[h]] # << >> /\ FetchFirst(chan[h])
      /\ chan' = chan
      /\ UNCHANGED <<nodeVars, chanVars, recvList, devVars, nextRid, treeLock, asleep,
                     sig, deferred, sent>>
  BY DEF Fetch
<1>1. pc[h] = "fetch"
  BY <1>0 DEF At
<1>2. TypeOK /\ h \in Thread /\ chan[h] \in Chan
  BY <1>1, BusyHandler
<1>3. PICK e \in Chan : e = chan[h]
  BY <1>2
<1> DEFINE m == Head(sendList[chan[h]])
           q == [Idle0 EXCEPT !.op = m.op, !.mid = m.rid, !.old = m.of]
           w == IF m.op = "close" THEN "drvclose" ELSE "serve"
<1>4. req' = [req EXCEPT ![h] = q] /\ Goto(h, w)
  BY DEF Fetch
<1>41. sendList \in [Chan -> Seq(Messages)]
  BY <1>2 DEF TypeOK, ListTypes
<1>5. m \in Messages /\ m = sendList[e][1] /\ Len(sendList[e]) \in Nat /\ Len(sendList[e]) >= 1
  BY <1>0, <1>2, <1>3, <1>41
<1>6. w \in Points /\ w \in {"serve", "drvclose"}
  BY DEF Points, Outside
<1>7. q \in Reqs /\ q.op = m.op
  <2> HIDE DEF m
  <2>1. /\ m.op \in {"open", "read", "write", "data", "cancel", "close"}
        /\ m.rid \in Rids /\ m.of \in Rids
    BY <1>5 DEF Messages
  <2>2. Idle0 \in Reqs
    BY IdleType
  <2> QED BY <2>1, <2>2 DEF Reqs
<1> HIDE DEF w, q, m
<1>8. /\ pc' \in [Thread -> Points] /\ pc'[h] = w
      /\ \A u \in Thread \ {h} : pc'[u] = pc[u]
  BY <1>2, <1>4, <1>6, GotoEffect
<1>9. req \in [Thread -> Reqs]
  BY <1>2 DEF TypeOK, ThreadTypes
<1>10. /\ req' \in [Thread -> Reqs] /\ req'[h] = q
       /\ \A u \in Thread \ {h} : req'[u] = req[u]
  BY <1>2, <1>4, <1>7, <1>9
<1>11. Opening(e)'
  <2>0. Opening(e)
    BY DEF ChanInv
  <2>1. \A g \in Handler : ~ ServesOpen(g, e)
    BY <1>0, <1>3, <2>0 DEF Opening
  <2>2. sendList'[e] = Tail(sendList[e])
    BY <1>0, <1>3, <1>41 DEF FetchFirst
  <2>3. Fresh(e) => Fresh(e)'
    <3>1. \A u \in Client : chan'[u] = chan[u] /\ pc'[u] = pc[u]
      BY <1>0, <1>8, ChannelAssumption DEF Thread
    <3>2. recvList' = recvList /\ deferred' = deferred /\ clientFile' = clientFile
      BY <1>0 DEF nodeVars
    <3> QED BY <3>1, <3>2 DEF Fresh
  <2>4. CASE OpenQueued(e)
    <3>1. Fresh(e) /\ Len(sendList[e]) = 1 /\ \A g \in Handler : ~ Busy(g, e)
      BY <2>0, <2>4 DEF Opening
    <3>2. sendList'[e] = << >>
      <4>1. sendList[e] \in Seq(Messages) /\ sendList[e] # << >>
        BY <1>0, <1>3, <1>41
      <4>2. Tail(sendList[e]) \in Seq(Messages) /\ Len(Tail(sendList[e])) = 0
        BY <3>1, <4>1
      <4> DEFINE s == Tail(sendList[e])
      <4>3. s \in Seq(Messages) /\ Len(s) = 0 /\ sendList'[e] = s
        BY <2>2, <4>2
      <4> HIDE DEF s
      <4>4. s = << >>
        BY <4>3
      <4> QED BY <4>3, <4>4
    <3>3. ~ OpenQueued(e)'
      BY <3>2 DEF OpenQueued
    <3>4. \A g \in Handler : Busy(g, e)' => g = h
      BY <1>0, <1>8, <3>1 DEF Busy, Thread
    <3>5. ASSUME NEW g \in Handler, ServesOpen(g, e)' PROVE g = h
      BY <3>4, <3>5 DEF ServesOpen, Busy
    <3> QED BY <2>3, <3>1, <3>2, <3>3, <3>4, <3>5 DEF Opening
  <2>5. CASE ~ OpenQueued(e)
    <3>1. \A i \in 1 .. Len(sendList[e]) : sendList[e][i].op # "open"
      BY <2>5 DEF OpenQueued
    <3>2. ~ OpenQueued(e)'
      <4>1. sendList[e] \in Seq(Messages) /\ sendList[e] # << >>
        BY <1>0, <1>3, <1>41
      <4>2. /\ Len(Tail(sendList[e])) = Len(sendList[e]) - 1
            /\ \A i \in 1 .. Len(Tail(sendList[e])) :
                 Tail(sendList[e])[i] = sendList[e][i + 1]
        BY <4>1
      <4>3. ASSUME NEW i \in 1 .. Len(sendList'[e]) PROVE sendList'[e][i].op # "open"
        <5>1. i + 1 \in 1 .. Len(sendList[e]) /\ sendList'[e][i] = sendList[e][i + 1]
          BY <1>5, <2>2, <4>2
        <5> QED BY <3>1, <5>1
      <4> QED BY <4>3 DEF OpenQueued
    <3>3. q.op # "open"
      BY <1>5, <1>7, <3>1
    <3>4. \A g \in Handler : ~ ServesOpen(g, e)'
      BY <1>0, <1>8, <1>10, <2>1, <3>3 DEF ServesOpen, Thread
    <3> QED BY <3>2, <3>4 DEF Opening
  <2> QED BY <2>4, <2>5
<1>12. /\ sendList[e] # << >> /\ FetchFirst(e) /\ pc'[h] \in {"serve", "drvclose"}
       /\ \A u \in Thread \ {h} : pc'[u] = pc[u] /\ req'[u] = req[u]
       /\ UNCHANGED <<nodeVars, chanVars, recvList, devVars, nextRid, treeLock, asleep,
                      sig, deferred, sent, chan>>
  BY <1>0, <1>3, <1>6, <1>8, <1>10
<1> QED BY <1>0, <1>3, <1>8, <1>10, <1>11, <1>12, FirstTaken

LEMMA ServeWriteKeeps ==
  ASSUME NCPU = 1, ChanInv, NEW h \in Handler, ServeWrite(h)
  PROVE  ChanInv'
<1>0. /\ At(h, "serve") /\ sendList[chan[h]] # << >> /\ FetchFirst(chan[h])
      /\ req' = [req EXCEPT ![h].op = "data"] /\ chan' = chan /\ pc' = pc
      /\ UNCHANGED <<nodeVars, chanVars, recvList, devVars, nextRid, treeLock, asleep,
                     sig, deferred, sent>>
  BY DEF ServeWrite, Serving
<1>1. pc[h] = "serve"
  BY <1>0 DEF At
<1>2. TypeOK /\ h \in Thread /\ chan[h] \in Chan /\ Busy(h, chan[h])
  BY <1>1, BusyHandler
<1>3. PICK e \in Chan : e = chan[h]
  BY <1>2
<1>4. /\ sendList \in [Chan -> Seq(Messages)] /\ pc \in [Thread -> Points]
      /\ req \in [Thread -> Reqs]
  BY <1>2 DEF TypeOK, ListTypes, ThreadTypes
<1>5. /\ req' \in [Thread -> Reqs] /\ req'[h].op = "data"
      /\ \A u \in Thread \ {h} : req'[u] = req[u]
  <2> DEFINE q == [req[h] EXCEPT !.op = "data"]
  <2>1. req[h] \in Reqs
    BY <1>2, <1>4
  <2>2. q \in Reqs /\ q.op = "data"
    BY <2>1 DEF Reqs
  <2>3. req' = [req EXCEPT ![h] = q]
    BY <1>0
  <2> HIDE DEF q
  <2> QED BY <1>2, <1>4, <2>2, <2>3
<1>6. Opening(e)'
  <2>0. Opening(e) /\ Busy(h, e)
    BY <1>2, <1>3 DEF ChanInv
  <2>1. ~ OpenQueued(e)
    BY <2>0 DEF Opening
  <2>2. sendList'[e] = Tail(sendList[e])
    BY <1>0, <1>3, <1>4 DEF FetchFirst
  <2>3. ~ OpenQueued(e)'
    <3>1. \A i \in 1 .. Len(sendList[e]) : sendList[e][i].op # "open"
      BY <2>1 DEF OpenQueued
    <3>2. sendList[e] \in Seq(Messages) /\ sendList[e] # << >>
      BY <1>0, <1>3, <1>4
    <3>3. /\ Len(Tail(sendList[e])) = Len(sendList[e]) - 1 /\ Len(sendList[e]) \in Nat
          /\ \A i \in 1 .. Len(Tail(sendList[e])) :
               Tail(sendList[e])[i] = sendList[e][i + 1]
      BY <3>2
    <3>4. ASSUME NEW i \in 1 .. Len(sendList'[e]) PROVE sendList'[e][i].op # "open"
      <4>1. i + 1 \in 1 .. Len(sendList[e]) /\ sendList'[e][i] = sendList[e][i + 1]
        BY <2>2, <3>3
      <4> QED BY <3>1, <4>1
    <3> QED BY <3>4 DEF OpenQueued
  <2>4. ASSUME NEW g \in Handler, ServesOpen(g, e)' PROVE FALSE
    <3>1. g # h
      BY <1>5, <2>4 DEF ServesOpen
    <3>2. ServesOpen(g, e)
      BY <1>0, <1>5, <2>4, <3>1 DEF ServesOpen, Thread
    <3> QED BY <1>0, <1>3, <2>0, <3>2 DEF Opening
  <2> QED BY <2>3, <2>4 DEF Opening
<1>7. /\ sendList[e] # << >> /\ FetchFirst(e) /\ pc'[h] \in {"serve", "drvclose"}
      /\ pc' \in [Thread -> Points]
      /\ \A u \in Thread \ {h} : pc'[u] = pc[u] /\ req'[u] = req[u]
      /\ UNCHANGED <<nodeVars, chanVars, recvList, devVars, nextRid, treeLock, asleep,
                     sig, deferred, sent, chan>>
  BY <1>0, <1>1, <1>3, <1>4, <1>5
<1> QED BY <1>0, <1>3, <1>5, <1>6, <1>7, FirstTaken

-----------------------------------------------------------------------------
(* A client takes a reply.                                                 *)

LEMMA ReplyTaken ==
  ASSUME NCPU = 1, ChanInv, NEW t \in Client, At(t, "recv"),
         NEW e \in Chan, e = chan[t], recvList[e] # << >>, Touches(t, e),
         recvList' \in [Chan -> Seq(Replies)], clientFile' \in [Chan -> BOOLEAN],
         pc' \in [Thread -> Points], chan' \in [Thread -> Chan \cup {None}],
         req' \in [Thread -> Reqs], pc'[t] # "inval",
         UNCHANGED <<node, refs, driverFile, chanVars, sendList, devVars, msgCount,
                     nextRid, treeLock, asleep, sig, deferred, sent>>,
         ClientAt(t)', Held(e)'
  PROVE  ChanInv'
<1>1. TypeOK /\ t \in Thread /\ t \notin Handler
  BY ChannelAssumption DEF ChanInv, Thread
<1>2. /\ closed' = closed /\ handler' = handler
      /\ devAlive' = devAlive /\ children' = children /\ lastClient' = lastClient
  BY DEF chanVars, devVars
<1>3. TypeOK'
  <2>1. NodeTypes'
    BY <1>1, <1>2 DEF TypeOK, NodeTypes
  <2>2. ListTypes'
    BY <1>1, <1>2 DEF TypeOK, ListTypes
  <2>3. ThreadTypes'
    BY <1>1 DEF TypeOK, ThreadTypes
  <2> QED BY <2>1, <2>2, <2>3 DEF TypeOK
<1>4. NodesStay /\ MailStays
  BY <1>2 DEF NodesStay, MailStays
<1>5. Opening(e)'
  <2>1. Opening(e) /\ ~ Fresh(e)
    BY DEF ChanInv, Fresh
  <2>2. ~ OpenQueued(e) /\ \A h \in Handler : ~ ServesOpen(h, e)
    BY <2>1 DEF Opening
  <2>3. \A h \in Handler : ~ ServesOpen(h, e)'
    BY <1>1, <2>2 DEF ServesOpen, Touches, Thread
  <2>4. ~ OpenQueued(e)'
    BY <2>2 DEF OpenQueued
  <2> QED BY <2>3, <2>4 DEF Opening
<1>6. node[e] # "unused"
  BY <1>1, KnownChannel
<1>7. \A h \in Handler : pc'[h] = "nowork" /\ asleep'[h] = Dev =>
                           pc[h] = "nowork" /\ asleep[h] = Dev
  BY <1>1 DEF Touches, Thread
<1> QED BY <1>1, <1>2, <1>3, <1>4, <1>5, <1>6, <1>7, QuietStep

LEMMA ReceiveReplyKeeps ==
  ASSUME NCPU = 1, ChanInv, NEW t \in Client, ReceiveReply(t)
  PROVE  ChanInv'
<1>0. /\ At(t, "recv") /\ Matching(t) # {}
      /\ UNCHANGED <<node, refs, driverFile, chanVars, sendList, devVars, msgCount,
                     nextRid, treeLock, asleep, sig, deferred, sent>>
  BY DEF ReceiveReply
<1>1. /\ TypeOK /\ ClientAt(t) /\ t \in Thread /\ t \notin Handler /\ pc[t] = "recv"
  BY <1>0, ChannelAssumption DEF ChanInv, Thread, At
<1>2. /\ chan[t] \in Chan /\ req[t].op \in {"open", "read", "write"}
      /\ req[t].op = "open" => req[t].want = "resp" /\ ~ req[t].nb
  BY <1>1 DEF ClientAt
<1>3. PICK e \in Chan : e = chan[t]
  BY <1>2
<1>4. /\ recvList \in [Chan -> Seq(Replies)] /\ clientFile \in [Chan -> BOOLEAN]
      /\ pc \in [Thread -> Points] /\ chan \in [Thread -> Chan \cup {None}]
      /\ req \in [Thread -> Reqs]
  BY <1>1 DEF TypeOK, NodeTypes, ListTypes, ThreadTypes
<1> DEFINE l == recvList[chan[t]]
           i == Min(Matching(t))
           r == req[t]
           k == SubSeq(l, 1, i - 1) \o SubSeq(l, i + 1, Len(l))
<1>5. recvList' = [recvList EXCEPT ![chan[t]] = k]
  BY DEF ReceiveReply
<1>6. \/ /\ r.op = "open" /\ clientFile' = [clientFile EXCEPT ![chan[t]] = TRUE]
         /\ Leave(t, "user")
      \/ /\ r.op = "open" /\ Goto(t, "openfail")
         /\ clientFile' = clientFile /\ chan' = chan /\ req' = req
      \/ /\ r.op = "read" /\ req' = [req EXCEPT ![t].want = "data"]
         /\ clientFile' = clientFile /\ chan' = chan /\ pc' = pc
      \/ /\ r.want = "cancel"
         /\ req' = [req EXCEPT ![t].want = "resp", ![t].mid = r.old, ![t].forced = TRUE]
         /\ clientFile' = clientFile /\ chan' = chan /\ pc' = pc
      \/ /\ r.op # "open" /\ Leave(t, "user") /\ clientFile' = clientFile
  BY DEF ReceiveReply
<1>7. l \in Seq(Replies) /\ Len(l) \in Nat
  BY <1>2, <1>4
<1>8. i \in 1 .. Len(l)
  <2>1. Matching(t) \in SUBSET (1 .. Len(l))
    BY DEF Matching
  <2>2. i \in Matching(t)
    BY <1>0, <1>7, <2>1, LeastPlace
  <2> QED BY <2>1, <2>2
<1> HIDE DEF i
<1>9. k \in Seq(Replies)
  <2> HIDE DEF l
  <2>1. SubSeq(l, 1, i - 1) \in Seq(Replies)
    BY <1>7, <1>8
  <2>2. SubSeq(l, i + 1, Len(l)) \in Seq(Replies)
    BY <1>7, <1>8
  <2> QED BY <2>1, <2>2
<1>10. recvList[e] # << >>
  BY <1>3, <1>7, <1>8
<1> HIDE DEF k, l
<1>11. /\ recvList' \in [Chan -> Seq(Replies)]
       /\ \A d \in Chan \ {e} : recvList'[d] = recvList[d]
  BY <1>3, <1>4, <1>5, <1>9
<1>12. Held(e)
  BY DEF ChanInv
<1>13. CASE /\ r.op = "open" /\ clientFile' = [clientFile EXCEPT ![chan[t]] = TRUE]
            /\ Leave(t, "user")
  <2>1. GoOn(t, e, "user") /\ "user" \in Points
    BY <1>3, <1>13 DEF Leave, Points, Outside
  <2>2. /\ pc' \in [Thread -> Points] /\ pc'[t] = "user"
        /\ chan' \in [Thread -> Chan \cup {None}] /\ chan'[t] = None
        /\ req' \in [Thread -> Reqs] /\ req'[t] = Idle0
        /\ \A u \in Thread \ {t} :
             pc'[u] = pc[u] /\ chan'[u] = chan[u] /\ req'[u] = req[u]
    BY <1>1, <2>1, GoOnEffect
  <2>3. /\ clientFile' \in [Chan -> BOOLEAN] /\ clientFile'[e]
        /\ \A d \in Chan \ {e} : clientFile'[d] = clientFile[d]
    BY <1>3, <1>4, <1>13
  <2>4. Touches(t, e)
    BY <1>0, <1>3, <1>11, <2>2, <2>3 DEF Touches
  <2>5. ClientAt(t)'
    BY <2>2 DEF ClientAt
  <2>6. t \in Openers(e)
    BY <1>3, <1>13 DEF Openers
  <2>7. Openers(e)' = {}
    <3>1. \A u \in Client \ {t} : u \in Openers(e)' <=> u \in Openers(e)
      BY <2>4, OpenersKept
    <3>2. \A u \in Client \ {t} : u \notin Openers(e)
      BY <1>12, <2>6 DEF Held
    <3>3. t \notin Openers(e)'
      BY <2>2, ChannelAssumption DEF Openers
    <3>4. Openers(e)' \subseteq Client
      BY DEF Openers
    <3> QED BY <3>1, <3>2, <3>3, <3>4
  <2>8. Held(e)'
    <3>1. ~ clientFile[e] /\ refs[e] = 0 + (IF driverFile[e] THEN 1 ELSE 0) + 1
      BY <1>12, <2>6 DEF Held
    <3>2. refs'[e] = 1 + (IF driverFile'[e] THEN 1 ELSE 0) + 0
      BY <1>0, <3>1
    <3>3. /\ node'[e] \in {"unused", "freed"} => refs'[e] = 0
          /\ driverFile'[e] => node'[e] = "alive"
      BY <1>0, <1>12 DEF Held
    <3> QED BY <2>3, <2>7, <3>2, <3>3 DEF Held
  <2> QED BY <1>0, <1>3, <1>10, <1>11, <2>2, <2>3, <2>4, <2>5, <2>8, ReplyTaken
<1>14. CASE /\ r.op = "open" /\ Goto(t, "openfail")
            /\ clientFile' = clientFile /\ chan' = chan /\ req' = req
  <2>1. "openfail" \in Points
    BY DEF Points
  <2>2. /\ pc' \in [Thread -> Points] /\ pc'[t] = "openfail"
        /\ \A u \in Thread \ {t} : pc'[u] = pc[u]
    BY <1>1, <1>14, <2>1, GotoEffect
  <2>4. Touches(t, e)
    BY <1>0, <1>3, <1>11, <1>14, <2>2 DEF Touches
  <2>5. ClientAt(t)'
    BY <1>2, <1>14, <2>2 DEF ClientAt
  <2>6. t \in Openers(e)' /\ t \in Openers(e)
    BY <1>3, <1>14 DEF Openers
  <2>7. req'[t].op \in {"read", "write"} /\ chan'[t] = e => clientFile[e]
    BY <1>14
  <2>8. Held(e)'
    BY <1>0, <1>1, <1>14, <2>4, <2>6, <2>7, HeldStays
  <2>9. /\ clientFile' \in [Chan -> BOOLEAN] /\ chan' \in [Thread -> Chan \cup {None}]
        /\ req' \in [Thread -> Reqs] /\ pc'[t] # "inval"
    BY <1>4, <1>14, <2>2
  <2> QED BY <1>0, <1>3, <1>10, <1>11, <2>2, <2>4, <2>5, <2>8, <2>9, ReplyTaken
<1>15. ASSUME clientFile' = clientFile, chan' = chan, pc' = pc,
              req' \in [Thread -> Reqs], req'[t].op = req[t].op, req[t].op # "open",
              \A u \in Thread \ {t} : req'[u] = req[u]
       PROVE  ChanInv'
  <2>4. Touches(t, e)
    BY <1>0, <1>3, <1>11, <1>15 DEF Touches
  <2>5. ClientAt(t)'
    BY <1>1, <1>2, <1>15 DEF ClientAt
  <2>6. t \notin Openers(e)' /\ t \notin Openers(e)
    BY <1>1, <1>15 DEF Openers
  <2>7. clientFile[e]
    BY <1>2, <1>3, <1>12, <1>15 DEF Held
  <2>8. Held(e)'
    BY <1>0, <1>1, <1>15, <2>4, <2>6, <2>7, HeldStays
  <2>9. /\ clientFile' \in [Chan -> BOOLEAN] /\ chan' \in [Thread -> Chan \cup {None}]
        /\ pc' \in [Thread -> Points] /\ pc'[t] # "inval"
    BY <1>1, <1>4, <1>15
  <2> QED BY <1>0, <1>3, <1>10, <1>11, <1>15, <2>4, <2>5, <2>8, <2>9, ReplyTaken
<1>16. CASE /\ r.op = "read" /\ req' = [req EXCEPT ![t].want = "data"]
            /\ clientFile' = clientFile /\ chan' = chan /\ pc' = pc
  <2>1. /\ req' \in [Thread -> Reqs] /\ req'[t].op = req[t].op
        /\ \A u \in Thread \ {t} : req'[u] = req[u]
    <3> DEFINE q == [req[t] EXCEPT !.want = "data"]
    <3>1. req[t] \in Reqs
      BY <1>1, <1>4
    <3>2. q \in Reqs /\ q.op = req[t].op
      BY <3>1 DEF Reqs
    <3>3. req' = [req EXCEPT ![t] = q]
      BY <1>16
    <3> HIDE DEF q
    <3> QED BY <1>1, <1>4, <3>2, <3>3
  <2> QED BY <1>15, <1>16, <2>1
<1>17. CASE /\ r.want = "cancel"
            /\ req' = [req EXCEPT ![t].want = "resp", ![t].mid = r.old, ![t].forced = TRUE]
            /\ clientFile' = clientFile /\ chan' = chan /\ pc' = pc
  <2>1. r.old \in Rids
    BY <1>1, <1>4 DEF Reqs
  <2>4. req[t] \in Reqs
    BY <1>1, <1>4
  <2>5. req'[t] = [req[t] EXCEPT !.want = "resp", !.mid = r.old, !.forced = TRUE]
    BY <1>1, <1>4, <1>17
  <2>6. req'[t] \in Reqs /\ req'[t].op = req[t].op
    BY <2>1, <2>4, <2>5 DEF Reqs
  <2>7. DOMAIN req' = Thread /\ \A u \in Thread \ {t} : req'[u] = req[u]
    BY <1>1, <1>4, <1>17
  <2>8. req' = [u \in Thread |-> req'[u]]
    BY <1>4, <1>17
  <2>2. /\ req' \in [Thread -> Reqs] /\ req'[t].op = req[t].op
        /\ \A u \in Thread \ {t} : req'[u] = req[u]
    BY <1>4, <2>6, <2>7, <2>8
  <2>3. req[t].op # "open"
    BY <1>2, <1>17
  <2> QED BY <1>15, <1>17, <2>2, <2>3
<1>18. CASE r.op # "open" /\ Leave(t, "user") /\ clientFile' = clientFile
  <2>1. GoOn(t, e, "user") /\ "user" \in Points
    BY <1>3, <1>18 DEF Leave, Points, Outside
  <2>2. /\ pc' \in [Thread -> Points] /\ pc'[t] = "user"
        /\ chan' \in [Thread -> Chan \cup {None}] /\ chan'[t] = None
        /\ req' \in [Thread -> Reqs] /\ req'[t] = Idle0
        /\ \A u \in Thread \ {t} :
             pc'[u] = pc[u] /\ chan'[u] = chan[u] /\ req'[u] = req[u]
    BY <1>1, <2>1, GoOnEffect
  <2>4. Touches(t, e)
    BY <1>0, <1>3, <1>11, <1>18, <2>2 DEF Touches
  <2>5. ClientAt(t)'
    BY <2>2 DEF ClientAt
  <2>6. t \notin Openers(e)' /\ t \notin Openers(e)
    BY <1>1, <1>18, <2>2, ChannelAssumption DEF Openers
  <2>7. req'[t].op \in {"read", "write"} /\ chan'[t] = e => clientFile[e]
    BY <2>2, ChannelAssumption
  <2>8. Held(e)'
    BY <1>0, <1>1, <1>18, <2>4, <2>6, <2>7, HeldStays
  <2>9. clientFile' \in [Chan -> BOOLEAN] /\ pc'[t] # "inval"
    BY <1>4, <1>18, <2>2
  <2> QED BY <1>0, <1>3, <1>10, <1>11, <2>2, <2>4, <2>5, <2>8, <2>9, ReplyTaken
<1> QED BY <1>6, <1>13, <1>14, <1>16, <1>17, <1>18

-----------------------------------------------------------------------------
(* A client sends a request.                                               *)

LEMMA RidType ==
  ASSUME TypeOK
  PROVE  Rid \in Rids /\ (nextRid + 1) % RidMod \in 0 .. RidMod - 1
<1>1. nextRid \in Nat /\ RidMod \in Nat /\ RidMod > 0
  BY ChannelAssumption DEF TypeOK, ListTypes
<1>2. nextRid % RidMod \in 0 .. RidMod - 1 /\ (nextRid + 1) % RidMod \in 0 .. RidMod - 1
  BY <1>1
<1> QED BY <1>1, <1>2 DEF Rid, Rids

LEMMA SendEffect ==
  ASSUME TypeOK, NEW c \in Chan, NEW o \in {"open", "read", "write", "cancel", "close"},
         NEW r \in Rids, SendRequest(c, o, r)
  PROVE  /\ sendList' \in [Chan -> Seq(Messages)]
         /\ \A d \in Chan \ {c} : sendList'[d] = sendList[d]
         /\ msgCount' = msgCount - Len(sendList[c]) + Len(sendList'[c])
         /\ o # "open" /\ OpenQueued(c)' => OpenQueued(c)
         /\ o = "open" /\ sendList[c] = << >> => Len(sendList'[c]) = 1
         /\ nextRid' \in 0 .. RidMod - 1 /\ recvList' = recvList
         /\ asleep' \in [Thread -> Chan \cup {Dev, None}] /\ asleep' = Woken(Dev)
<1> DEFINE m == [rid |-> Rid, op |-> o, of |-> r]
           ms == IF o = "write" THEN << m, [m EXCEPT !.op = "data"] >> ELSE << m >>
           l == sendList[c] \o ms
<1>1. /\ sendList' = [sendList EXCEPT ![c] = l] /\ msgCount' = msgCount + Len(ms)
      /\ nextRid' = (nextRid + 1) % RidMod /\ recvList' = recvList /\ asleep' = Woken(Dev)
  BY DEF SendRequest
<1>2. m \in Messages /\ m.op = o
  BY RidType DEF Messages
<1>3. [m EXCEPT !.op = "data"] \in Messages /\ [m EXCEPT !.op = "data"].op = "data"
  BY RidType DEF Messages
<1> HIDE DEF m
<1>4. /\ ms \in Seq(Messages) /\ Len(ms) \in Nat
      /\ o # "write" => Len(ms) = 1
      /\ \A i \in 1 .. Len(ms) : ms[i].op = "open" => o = "open"
  <2>1. CASE o = "write"
    <3> DEFINE n == [m EXCEPT !.op = "data"]
    <3>1. ms = << m, n >> /\ n \in Messages /\ n.op = "data"
      BY <2>1, <1>3
    <3> HIDE DEF n, ms
    <3> QED BY <2>1, <3>1, <1>2
  <2>2. CASE o # "write"
    <3>1. ms = << m >>
      BY <2>2
    <3> HIDE DEF ms
    <3> QED BY <2>2, <3>1, <1>2
  <2> QED BY <2>1, <2>2
<1> HIDE DEF ms
<1>5. /\ sendList \in [Chan -> Seq(Messages)] /\ msgCount \in Nat
      /\ asleep \in [Thread -> Chan \cup {Dev, None}]
  BY DEF TypeOK, ListTypes, ThreadTypes
<1>6. sendList[c] \in Seq(Messages) /\ Len(sendList[c]) \in Nat
  BY <1>5
<1>7. /\ l \in Seq(Messages) /\ Len(l) = Len(sendList[c]) + Len(ms)
      /\ \A i \in 1 .. Len(l) :
           l[i] = IF i <= Len(sendList[c]) THEN sendList[c][i]
                                           ELSE ms[i - Len(sendList[c])]
  BY <1>4, <1>6
<1> HIDE DEF l
<1>8. /\ sendList' \in [Chan -> Seq(Messages)] /\ sendList'[c] = l
      /\ \A d \in Chan \ {c} : sendList'[d] = sendList[d]
  BY <1>1, <1>5, <1>7
<1>9. msgCount' = msgCount - Len(sendList[c]) + Len(sendList'[c])
  <2> DEFINE a == Len(sendList[c])
             b == Len(ms)
             n == Len(sendList'[c])
  <2>1. n = a + b /\ a \in Nat /\ b \in Nat
    BY <1>4, <1>6, <1>7, <1>8
  <2>2. msgCount' = msgCount + b
    BY <1>1
  <2> HIDE DEF a, b, n
  <2>3. msgCount' = msgCount - a + n
    BY <1>5, <2>1, <2>2
  <2> QED BY <2>3 DEF a, n
<1>10. ASSUME o # "open", OpenQueued(c)' PROVE OpenQueued(c)
  <2>1. PICK i \in 1 .. Len(l) : l[i].op = "open"
    BY <1>8, <1>10 DEF OpenQueued
  <2>2. CASE i <= Len(sendList[c])
    BY <1>7, <1>6, <2>1, <2>2 DEF OpenQueued
  <2>3. CASE ~ (i <= Len(sendList[c]))
    <3>1. i - Len(sendList[c]) \in 1 .. Len(ms)
      BY <1>4, <1>6, <1>7, <2>3
    <3> QED BY <1>4, <1>7, <1>10, <2>1, <2>3, <3>1
  <2> QED BY <2>2, <2>3
<1>11. ASSUME o = "open", sendList[c] = << >> PROVE Len(sendList'[c]) = 1
  <2>1. Len(sendList[c]) = 0 /\ Len(ms) = 1
    BY <1>4, <1>11
  <2> QED BY <1>7, <1>8, <2>1
<1>12. asleep' \in [Thread -> Chan \cup {Dev, None}]
  BY <1>1, <1>5 DEF Woken
<1> QED BY <1>1, <1>8, <1>9, <1>10, <1>11, <1>12, RidType

(* A request for a channel that has been opened.                           *)
LEMMA Requested ==
  ASSUME NCPU = 1, ChanInv, NEW t \in Client,
         NEW p \in {"user", "cancel", "close"}, At(t, p),
         NEW e \in Chan, node[e] # "unused", ~ Fresh(e), chan[t] \in {e, None},
         NEW o \in {"read", "write", "cancel", "close"}, NEW r \in Rids,
         SendRequest(e, o, r),
         UNCHANGED <<nodeVars, chanVars, devVars, treeLock, sig, deferred>>,
         sent' \in 0 .. MaxSent,
         pc' \in [Thread -> Points], chan' \in [Thread -> Chan \cup {None}],
         req' \in [Thread -> Reqs],
         \A u \in Thread \ {t} : pc'[u] = pc[u] /\ chan'[u] = chan[u] /\ req'[u] = req[u],
         chan'[t] = e, pc'[t] # "inval", ClientAt(t)',
         t \in Openers(e)' <=> t \in Openers(e),
         req'[t].op \in {"read", "write"} => clientFile[e]
  PROVE  ChanInv'
<1>1. TypeOK /\ t \in Thread /\ t \notin Handler
  BY ChannelAssumption DEF ChanInv, Thread
<1>2. /\ sendList' \in [Chan -> Seq(Messages)]
      /\ \A d \in Chan \ {e} : sendList'[d] = sendList[d]
      /\ msgCount' = msgCount - Len(sendList[e]) + Len(sendList'[e])
      /\ OpenQueued(e)' => OpenQueued(e)
      /\ nextRid' \in 0 .. RidMod - 1 /\ recvList' = recvList
      /\ asleep' \in [Thread -> Chan \cup {Dev, None}] /\ asleep' = Woken(Dev)
  BY <1>1, SendEffect
<1>3. /\ node' = node /\ refs' = refs
      /\ clientFile' = clientFile /\ driverFile' = driverFile
      /\ closed' = closed /\ handler' = handler
      /\ devAlive' = devAlive /\ children' = children /\ lastClient' = lastClient
  BY DEF nodeVars, chanVars, devVars
<1>4. Counted' /\ msgCount' \in Nat
  BY <1>2, CountFollows
<1>5. Touches(t, e)
  BY <1>2, <1>3 DEF Touches
<1>6. TypeOK'
  <2>1. NodeTypes'
    BY <1>1, <1>3 DEF TypeOK, NodeTypes
  <2>2. ListTypes'
    BY <1>1, <1>2, <1>3, <1>4 DEF TypeOK, ListTypes
  <2>3. ThreadTypes'
    BY <1>1, <1>2 DEF TypeOK, ThreadTypes
  <2> QED BY <2>1, <2>2, <2>3 DEF TypeOK
<1>7. Solo' /\ Dropping'
  BY <1>1, <1>5, ClearStep
<1>8. Kids'
  BY <1>3, KidsStay
<1>9. LastClientValid'
  BY <1>3 DEF ChanInv, LastClientValid
<1>10. SleepsWithoutWork'
  BY <1>2, DriverWoken
<1>11. Held(e)'
  BY <1>1, <1>3, <1>5, HeldStays
<1>12. Blank(e)'
  BY <1>3 DEF Blank
<1>13. Opening(e)'
  <2>1. ~ OpenQueued(e) /\ \A h \in Handler : ~ ServesOpen(h, e)
    BY DEF ChanInv, Opening
  <2>2. \A h \in Handler : ~ ServesOpen(h, e)'
    BY <1>1, <2>1 DEF ServesOpen, Thread
  <2> QED BY <1>2, <2>1, <2>2 DEF Opening
<1> QED BY <1>1, <1>4, <1>5, <1>6, <1>7, <1>8, <1>9, <1>10, <1>11, <1>12, <1>13, Assembled

LEMMA RequestKeeps ==
  ASSUME NCPU = 1, ChanInv, NEW t \in Client, NEW c \in Chan, NEW o \in {"read", "write"},
         NEW nb \in BOOLEAN, Request(t, c, o, nb)
  PROVE  ChanInv'
<1> DEFINE q == [Idle0 EXCEPT !.op = o, !.mid = Rid, !.nb = nb]
<1>0. /\ At(t, "user") /\ clientFile[c] /\ Alive(c) /\ sent < MaxSent /\ sent' = sent + 1
      /\ SendRequest(c, o, 0) /\ Goto(t, "recv") /\ chan' = [chan EXCEPT ![t] = c]
      /\ req' = [req EXCEPT ![t] = q]
      /\ UNCHANGED <<nodeVars, chanVars, devVars, treeLock, sig, deferred>>
  BY DEF Request
<1>1. TypeOK /\ ClientAt(t) /\ t \in Thread /\ pc[t] = "user"
  BY <1>0 DEF ChanInv, Thread, At
<1>2. chan[t] = None /\ req[t] = Idle0
  BY <1>1 DEF ClientAt
<1>3. q \in Reqs /\ q.op = o
  BY <1>1, IdleType, RidType DEF Reqs
<1> HIDE DEF q
<1>4. /\ chan \in [Thread -> Chan \cup {None}] /\ req \in [Thread -> Reqs]
      /\ sent \in 0 .. MaxSent
  BY <1>1 DEF TypeOK, ListTypes, ThreadTypes
<1>5. "recv" \in Points
  BY DEF Points
<1>6. /\ pc' \in [Thread -> Points] /\ pc'[t] = "recv"
      /\ \A u \in Thread \ {t} : pc'[u] = pc[u]
  BY <1>0, <1>1, <1>5, GotoEffect
<1>7. /\ chan' \in [Thread -> Chan \cup {None}] /\ chan'[t] = c
      /\ \A u \in Thread \ {t} : chan'[u] = chan[u]
  BY <1>0, <1>1, <1>4
<1>8. /\ req' \in [Thread -> Reqs] /\ req'[t] = q
      /\ \A u \in Thread \ {t} : req'[u] = req[u]
  BY <1>0, <1>1, <1>3, <1>4
<1>9. ClientAt(t)'
  BY <1>3, <1>6, <1>7, <1>8 DEF ClientAt
<1>10. t \in Openers(c)' <=> t \in Openers(c)
  BY <1>2, <1>3, <1>6, <1>8, IdleType, ChannelAssumption DEF Openers
<1>11. node[c] # "unused" /\ ~ Fresh(c) /\ 0 \in Rids
  BY <1>0, IdleType DEF Alive, Fresh
<1>12. sent' \in 0 .. MaxSent
  BY <1>0, <1>4, ChannelAssumption
<1> QED BY <1>0, <1>2, <1>6, <1>7, <1>8, <1>9, <1>10, <1>11, <1>12, Requested

LEMMA CancelKeeps ==
  ASSUME NCPU = 1, ChanInv, NEW t \in Client, Cancel(t)
  PROVE  ChanInv'
<1>0. CASE ~ Alive(chan[t])
  BY <1>0, CancelGoneKeeps
<1>1. CASE Alive(chan[t])
  <2>0. /\ At(t, "cancel") /\ SendRequest(chan[t], "cancel", req[t].mid)
        /\ req' = [req EXCEPT ![t].want = "cancel", ![t].mid = Rid,
                               ![t].old = req[t].mid]
        /\ Goto(t, "recv") /\ chan' = chan
        /\ UNCHANGED <<nodeVars, chanVars, devVars, treeLock, sig, deferred, sent>>
    BY <1>1 DEF Cancel
  <2>1. TypeOK /\ ClientAt(t) /\ t \in Thread /\ pc[t] = "cancel"
    BY <2>0 DEF ChanInv, Thread, At
  <2>2. chan[t] \in Chan /\ req[t].op \in {"read", "write"}
    BY <2>1 DEF ClientAt
  <2>3. PICK e \in Chan : e = chan[t]
    BY <2>2
  <2>4. clientFile[e]
    BY <2>2, <2>3 DEF ChanInv, Held
  <2>5. /\ chan \in [Thread -> Chan \cup {None}] /\ req \in [Thread -> Reqs]
        /\ sent \in 0 .. MaxSent
    BY <2>1 DEF TypeOK, ListTypes, ThreadTypes
  <2>6. req[t] \in Reqs /\ req[t].mid \in Rids /\ Rid \in Rids
    BY <2>1, <2>5, RidType DEF Reqs
  <2>7. req'[t] = [req[t] EXCEPT !.want = "cancel", !.mid = Rid, !.old = req[t].mid]
    BY <2>0, <2>1, <2>5
  <2>8. req'[t] \in Reqs /\ req'[t].op = req[t].op
    BY <2>6, <2>7 DEF Reqs
  <2>9. DOMAIN req' = Thread /\ \A u \in Thread \ {t} : req'[u] = req[u]
    BY <2>0, <2>1, <2>5
  <2>10. req' = [u \in Thread |-> req'[u]]
    BY <2>0, <2>5
  <2>11. req' \in [Thread -> Reqs]
    BY <2>5, <2>8, <2>9, <2>10
  <2>12. "recv" \in Points
    BY DEF Points
  <2>13. /\ pc' \in [Thread -> Points] /\ pc'[t] = "recv"
         /\ \A u \in Thread \ {t} : pc'[u] = pc[u]
    BY <2>0, <2>1, <2>12, GotoEffect
  <2>14. ClientAt(t)'
    BY <2>0, <2>2, <2>8, <2>13 DEF ClientAt
  <2>15. t \in Openers(e)' <=> t \in Openers(e)
    BY <2>1, <2>2, <2>8, <2>13 DEF Openers
  <2>16. /\ node[e] # "unused" /\ ~ Fresh(e) /\ sent' \in 0 .. MaxSent
         /\ chan[t] \in {e, None} /\ chan'[t] = e /\ chan' \in [Thread -> Chan \cup {None}]
         /\ SendRequest(e, "cancel", req[t].mid)
         /\ \A u \in Thread \ {t} :
              pc'[u] = pc[u] /\ chan'[u] = chan[u] /\ req'[u] = req[u]
    BY <1>1, <2>0, <2>3, <2>4, <2>5, <2>9, <2>13 DEF Alive, Fresh
  <2> QED BY <2>0, <2>4, <2>6, <2>11, <2>13, <2>14, <2>15, <2>16, Requested
<1> QED BY <1>0, <1>1

LEMMA SendCloseKeeps ==
  ASSUME NCPU = 1, ChanInv, NEW t \in Client, SendClose(t)
  PROVE  ChanInv'
<1>0. /\ At(t, "close") /\ SendRequest(chan[t], "close", 0) /\ Goto(t, "setclosed")
      /\ chan' = chan /\ req' = req
      /\ UNCHANGED <<nodeVars, chanVars, devVars, treeLock, sig, deferred, sent>>
  BY DEF SendClose
<1>1. TypeOK /\ ClientAt(t) /\ t \in Thread /\ pc[t] = "close"
  BY <1>0 DEF ChanInv, Thread, At
<1>2. chan[t] \in Chan /\ req[t] = Idle0
  BY <1>1 DEF ClientAt
<1>3. PICK e \in Chan : e = chan[t]
  BY <1>2
<1>4. /\ chan \in [Thread -> Chan \cup {None}] /\ req \in [Thread -> Reqs]
      /\ sent \in 0 .. MaxSent
  BY <1>1 DEF TypeOK, ListTypes, ThreadTypes
<1>5. "setclosed" \in Points
  BY DEF Points
<1>6. /\ pc' \in [Thread -> Points] /\ pc'[t] = "setclosed"
      /\ \A u \in Thread \ {t} : pc'[u] = pc[u]
  BY <1>0, <1>1, <1>5, GotoEffect
<1>7. ClientAt(t)'
  BY <1>0, <1>2, <1>6 DEF ClientAt
<1>8. t \in Openers(e)' <=> t \in Openers(e)
  BY <1>0, <1>1, <1>2, <1>6, IdleType DEF Openers
<1>9. node[e] # "unused" /\ ~ Fresh(e)
  BY <1>1, <1>3, KnownChannel DEF Fresh
<1>10. /\ sent' \in 0 .. MaxSent /\ 0 \in Rids /\ SendRequest(e, "close", 0)
       /\ chan[t] \in {e, None} /\ chan'[t] = e /\ chan' \in [Thread -> Chan \cup {None}]
       /\ req' \in [Thread -> Reqs] /\ pc'[t] # "inval"
       /\ req'[t].op \notin {"read", "write"}
       /\ \A u \in Thread \ {t} :
            pc'[u] = pc[u] /\ chan'[u] = chan[u] /\ req'[u] = req[u]
  BY <1>0, <1>2, <1>3, <1>4, <1>6, IdleType
<1> QED BY <1>0, <1>6, <1>7, <1>8, <1>9, <1>10, Requested

(* open() up to its message.                                               *)
LEMMA OpenKeeps ==
  ASSUME NCPU = 1, ChanInv, NEW t \in Client, NEW c \in Chan, Open(t, c)
  PROVE  ChanInv'
<1> DEFINE q == [Idle0 EXCEPT !.op = "open", !.mid = Rid]
<1>0. /\ At(t, "user") /\ treeLock = None /\ node[c] = "unused"
      /\ node' = [node EXCEPT ![c] = "alive"]
      /\ refs' = [refs EXCEPT ![c] = 2]
      /\ driverFile' = [driverFile EXCEPT ![c] = TRUE]
      /\ handler' = [handler EXCEPT ![c] = Creator]
      /\ children' = << c >> \o children
      /\ SendRequest(c, "open", 0) /\ Goto(t, "recv")
      /\ chan' = [chan EXCEPT ![t] = c]
      /\ req' = [req EXCEPT ![t] = q]
      /\ UNCHANGED <<clientFile, closed, devAlive, lastClient, treeLock, sig,
                     deferred, sent>>
  BY DEF Open
<1>1. TypeOK /\ ClientAt(t) /\ t \in Thread /\ t \notin Handler /\ pc[t] = "user"
  BY <1>0, ChannelAssumption DEF ChanInv, Thread, At
<1>2. chan[t] = None /\ req[t] = Idle0
  BY <1>1 DEF ClientAt
<1>3. q \in Reqs /\ q.op = "open" /\ q.want = "resp" /\ ~ q.nb
  BY <1>1, IdleType, RidType DEF Reqs
<1> HIDE DEF q
<1>4. Held(c) /\ Blank(c) /\ Kids
  BY DEF ChanInv
<1>5. /\ sendList[c] = << >> /\ recvList[c] = << >> /\ deferred[c] = {}
      /\ \A u \in Thread : chan[u] # c
  BY <1>0, <1>4 DEF Blank
<1>6. ~ clientFile[c] /\ ~ driverFile[c]
  <2>1. refs[c] = 0
    BY <1>0, <1>4 DEF Held
  <2> QED BY <2>1, <1>4 DEF Held
<1>7. /\ node \in [Chan -> {"unused", "alive", "detached", "freed"}]
      /\ refs \in [Chan -> UShort] /\ driverFile \in [Chan -> BOOLEAN]
      /\ handler \in [Chan -> Handler] /\ children \in Seq(Chan) /\ Distinct(children)
      /\ chan \in [Thread -> Chan \cup {None}] /\ req \in [Thread -> Reqs]
  BY <1>1 DEF TypeOK, NodeTypes, ListTypes, ThreadTypes
<1>8. ~ InList(children, c)
  BY <1>0, <1>4 DEF Kids
<1>9. /\ children' \in Seq(Chan) /\ Distinct(children')
      /\ \A x : InList(children', x) <=> InList(children, x) \/ x = c
  BY <1>0, <1>7, <1>8, ConsMembers
<1>10. "recv" \in Points /\ 2 \in UShort /\ Creator \in Handler /\ 0 \in Rids
  BY ChannelAssumption, IdleType DEF Points, UShort
<1>11. /\ sendList' \in [Chan -> Seq(Messages)]
       /\ \A d \in Chan \ {c} : sendList'[d] = sendList[d]
       /\ msgCount' = msgCount - Len(sendList[c]) + Len(sendList'[c])
       /\ Len(sendList'[c]) = 1
       /\ nextRid' \in 0 .. RidMod - 1 /\ recvList' = recvList
       /\ asleep' \in [Thread -> Chan \cup {Dev, None}] /\ asleep' = Woken(Dev)
  BY <1>0, <1>1, <1>5, <1>10, SendEffect
<1>12. Counted' /\ msgCount' \in Nat
  BY <1>11, CountFollows
<1>13. /\ pc' \in [Thread -> Points] /\ pc'[t] = "recv"
       /\ \A u \in Thread \ {t} : pc'[u] = pc[u]
  BY <1>0, <1>1, <1>10, GotoEffect
<1>14. /\ chan' \in [Thread -> Chan \cup {None}] /\ chan'[t] = c
       /\ \A u \in Thread \ {t} : chan'[u] = chan[u]
  BY <1>0, <1>1, <1>7
<1>15. /\ req' \in [Thread -> Reqs] /\ req'[t] = q
       /\ \A u \in Thread \ {t} : req'[u] = req[u]
  BY <1>0, <1>1, <1>3, <1>7
<1>16. /\ node' \in [Chan -> {"unused", "alive", "detached", "freed"}]
       /\ node'[c] = "alive" /\ \A d \in Chan \ {c} : node'[d] = node[d]
  BY <1>0, <1>7
<1>17. /\ refs' \in [Chan -> UShort]
       /\ refs'[c] = 2 /\ \A d \in Chan \ {c} : refs'[d] = refs[d]
  BY <1>0, <1>7, <1>10
<1>18. /\ driverFile' \in [Chan -> BOOLEAN]
       /\ driverFile'[c] /\ \A d \in Chan \ {c} : driverFile'[d] = driverFile[d]
  BY <1>0, <1>7
<1>19. handler' \in [Chan -> Handler]
  BY <1>0, <1>7, <1>10
<1>20. Touches(t, c)
  BY <1>0, <1>2, <1>11, <1>13, <1>14, <1>15, <1>16, <1>17, <1>18 DEF Touches
<1>21. TypeOK'
  <2>1. NodeTypes'
    BY <1>0, <1>1, <1>16, <1>17, <1>18, <1>19 DEF TypeOK, NodeTypes
  <2>2. ListTypes'
    BY <1>0, <1>1, <1>9, <1>11, <1>12 DEF TypeOK, ListTypes
  <2>3. ThreadTypes'
    BY <1>0, <1>1, <1>11, <1>13, <1>14, <1>15 DEF TypeOK, ThreadTypes
  <2> QED BY <2>1, <2>2, <2>3 DEF TypeOK
<1>22. Solo' /\ Dropping'
  BY <1>0, <1>1, <1>13, <1>20, ClearStep
<1>23. Kids'
  BY <1>4, <1>9, <1>16 DEF Kids
<1>24. LastClientValid'
  BY <1>0, <1>16, ChannelAssumption DEF ChanInv, LastClientValid, TypeOK, NodeTypes
<1>25. SleepsWithoutWork'
  BY <1>11, DriverWoken
<1>26. ClientAt(t)'
  BY <1>3, <1>13, <1>14, <1>15 DEF ClientAt
<1>27. Openers(c)' = {t}
  <2>1. \A u \in Client \ {t} : u \in Openers(c)' <=> u \in Openers(c)
    BY <1>20, OpenersKept
  <2>2. \A u \in Client : u \notin Openers(c)
    BY <1>5 DEF Openers, Thread
  <2>3. t \in Openers(c)'
    BY <1>3, <1>14, <1>15 DEF Openers
  <2>4. Openers(c)' \subseteq Client
    BY DEF Openers
  <2> QED BY <2>1, <2>2, <2>3, <2>4
<1>28. Held(c)'
  <2>1. \A u \in Client : ~ (req'[u].op \in {"read", "write"} /\ chan'[u] = c)
    BY <1>3, <1>5, <1>14, <1>15 DEF Thread
  <2>2. ~ clientFile'[c]
    BY <1>0, <1>6
  <2> QED BY <1>16, <1>17, <1>18, <1>27, <2>1, <2>2 DEF Held
<1>29. Blank(c)'
  BY <1>16 DEF Blank
<1>30. Opening(c)'
  <2>1. \A h \in Handler : chan'[h] # c
    BY <1>1, <1>5, <1>14 DEF Thread
  <2>2. \A h \in Handler : ~ Busy(h, c)' /\ ~ ServesOpen(h, c)'
    BY <2>1 DEF Busy, ServesOpen
  <2>3. Fresh(c)'
    BY <1>0, <1>5, <1>6, <1>11, <1>13, <1>14 DEF Fresh, Thread
  <2> QED BY <1>11, <2>2, <2>3 DEF Opening
<1> QED BY <1>1, <1>12, <1>20, <1>21, <1>22, <1>23, <1>24, <1>25, <1>26, <1>28, <1>29, <1>30, Assembled

-----------------------------------------------------------------------------
(* References are dropped.                                                 *)

(* Nothing happens to a channel that is being opened.                      *)
LEMMA OpeningStays ==
  ASSUME ChanInv, NEW t \in Thread, NEW e \in Chan, Touches(t, e),
         sendList'[e] = sendList[e], recvList'[e] = recvList[e],
         deferred'[e] \in {deferred[e], {}}, clientFile'[e] => clientFile[e],
         pc[t] \notin {"serve", "data"}, pc'[t] \notin {"serve", "data"},
         pc'[t] = "close" => ~ Fresh(e)
  PROVE  Opening(e)'
<1>0. Opening(e)
  BY DEF ChanInv
<1>1. \A h \in Handler : /\ Busy(h, e)' <=> Busy(h, e)
                         /\ ServesOpen(h, e)' <=> ServesOpen(h, e)
  BY DEF Busy, ServesOpen, Thread, Touches
<1>2. OpenQueued(e)' <=> OpenQueued(e)
  BY DEF OpenQueued
<1>3. Fresh(e) => Fresh(e)'
  BY DEF Fresh, Touches, Thread
<1> QED BY <1>0, <1>1, <1>2, <1>3 DEF Opening

LEMMA SetClosedKeeps ==
  ASSUME NCPU = 1, ChanInv, NEW t \in Client, SetClosed(t)
  PROVE  ChanInv'
<1>0. /\ At(t, "setclosed") /\ closed' = [closed EXCEPT ![chan[t]] = TRUE]
      /\ Leave(t, "user")
      /\ node' = node /\ refs' = refs
      /\ clientFile' = clientFile /\ driverFile' = driverFile /\ handler' = handler
      /\ sendList' = sendList /\ recvList' = recvList /\ deferred' = deferred
      /\ devAlive' = devAlive /\ children' = children /\ lastClient' = lastClient
      /\ UNCHANGED <<msgCount, nextRid, treeLock, asleep, sig, sent>>
  BY DEF SetClosed, nodeVars, listVars, devVars
<1>1. /\ TypeOK /\ ClientAt(t) /\ t \in Thread /\ t \notin Handler
      /\ pc[t] = "setclosed"
  BY <1>0, ChannelAssumption DEF ChanInv, Thread, At
<1>2. chan[t] \in Chan /\ req[t] = Idle0
  BY <1>1 DEF ClientAt
<1>3. PICK e \in Chan : e = chan[t]
  BY <1>2
<1>4. GoOn(t, e, "user") /\ "user" \in Points
  BY <1>0, <1>3 DEF Leave, Points, Outside
<1>5. /\ pc' \in [Thread -> Points] /\ pc'[t] = "user"
      /\ chan' \in [Thread -> Chan \cup {None}] /\ chan'[t] = None
      /\ req' \in [Thread -> Reqs] /\ req'[t] = Idle0
      /\ \A u \in Thread \ {t} :
           pc'[u] = pc[u] /\ chan'[u] = chan[u] /\ req'[u] = req[u]
  BY <1>1, <1>4, GoOnEffect
<1>6. Touches(t, e)
  BY <1>0, <1>3, <1>5 DEF Touches
<1>7. closed' \in [Chan -> BOOLEAN]
  BY <1>0, <1>1, <1>2 DEF TypeOK, NodeTypes
<1>8. TypeOK'
  <2>1. NodeTypes'
    BY <1>0, <1>1, <1>7 DEF TypeOK, NodeTypes
  <2>2. ListTypes'
    BY <1>0, <1>1 DEF TypeOK, ListTypes
  <2>3. ThreadTypes'
    BY <1>0, <1>1, <1>5 DEF TypeOK, ThreadTypes
  <2> QED BY <2>1, <2>2, <2>3 DEF TypeOK
<1>9. NodesStay /\ MailStays
  BY <1>0 DEF NodesStay, MailStays
<1>10. ClientAt(t)'
  BY <1>5 DEF ClientAt
<1>11. Held(e)'
  <2>1. t \in Openers(e)' <=> t \in Openers(e)
    BY <1>1, <1>2, <1>5, IdleType DEF Openers
  <2>2. req'[t].op \notin {"read", "write"}
    BY <1>5, IdleType
  <2> QED BY <1>0, <1>1, <1>6, <2>1, <2>2, HeldStays
<1>12. Opening(e)'
  BY <1>0, <1>1, <1>5, <1>6, OpeningStays
<1>13. node[e] # "unused"
  BY <1>1, <1>3, KnownChannel
<1>14. \A h \in Handler : pc'[h] = "nowork" /\ asleep'[h] = Dev =>
                            pc[h] = "nowork" /\ asleep[h] = Dev
  BY <1>0, <1>1, <1>5 DEF Thread
<1> QED BY <1>0, <1>1, <1>5, <1>6, <1>8, <1>9, <1>10, <1>11, <1>12, <1>13, <1>14, QuietStep

(* Small counts fit into an unsigned short.                                *)
LEMMA SmallCounts ==
  /\ 0 \in UShort /\ 1 \in UShort /\ 2 \in UShort
  /\ 0 % 65536 = 0 /\ 1 % 65536 = 1 /\ 2 % 65536 = 2
<1>1. 0 \in UShort /\ 1 \in UShort /\ 2 \in UShort
  BY DEF UShort
<1>2. 0 % 65536 = 0 /\ 1 % 65536 = 1 /\ 2 % 65536 = 2
  OBVIOUS
<1> QED BY <1>1, <1>2

(* What dropping a reference of e leaves alone.                            *)
UnrefFrame(t, e) ==
  /\ chan[t] \in {e, None}
  /\ clientFile' \in [Chan -> BOOLEAN] /\ driverFile' \in [Chan -> BOOLEAN]
  /\ deferred' \in [Chan -> SUBSET Rids] /\ deferred'[e] \in {deferred[e], {}}
  /\ \A d \in Chan \ {e} : /\ clientFile'[d] = clientFile[d]
                           /\ driverFile'[d] = driverFile[d]
                           /\ deferred'[d] = deferred[d]
  /\ clientFile'[e] => clientFile[e]
  /\ driverFile'[e] => driverFile[e]
  /\ \A u \in Client \ {t} : req[u].op \in {"read", "write"} /\ chan[u] = e =>
                               clientFile'[e]
  /\ closed' = closed /\ handler' = handler /\ sendList' = sendList
  /\ recvList' = recvList /\ devAlive' = devAlive /\ lastClient' = lastClient
  /\ msgCount' = msgCount /\ nextRid' = nextRid /\ sig' = sig /\ sent' = sent

(* The last reference: invalidate() is next.                               *)
LEMMA UnrefLast ==
  ASSUME NCPU = 1, ChanInv, NEW t \in Thread, NEW p, At(t, p), p # "inval",
         p \notin {"serve", "data"},
         NEW e \in Chan, NEW remove \in BOOLEAN, NEW q \in Points,
         Unref(t, e, remove, q), refs[e] = 1, UnrefFrame(t, e),
         ~ clientFile'[e], ~ driverFile'[e], Openers(e)' = {},
         t \in Client => req[t] = Idle0 /\ q = "user",
         t \in Handler => q = "loop"
  PROVE  ChanInv'
<1>1. TypeOK /\ pc[t] = p /\ Held(e)
  BY DEF ChanInv, At
<1>2. refs \in [Chan -> UShort] /\ pc \in [Thread -> Points] /\ msgCount \in Nat
      /\ chan \in [Thread -> Chan \cup {None}] /\ req \in [Thread -> Reqs]
      /\ asleep \in [Thread -> Chan \cup {Dev, None}]
  BY <1>1 DEF TypeOK, NodeTypes, ListTypes, ThreadTypes
<1>30. refs' = [refs EXCEPT ![e] = (refs[e] - 1) % 65536]
  BY DEF Unref
<1>31. req' = [req EXCEPT ![t].back = q, ![t].seen = msgCount]
  BY DEF Unref
<1>3. /\ treeLock' = t /\ Goto(t, "inval") /\ chan' = [chan EXCEPT ![t] = e]
      /\ asleep' = Woken(e) /\ node' = node /\ children' = children
  BY DEF Unref
<1>4. (refs[e] - 1) % 65536 = 0 /\ 0 \in UShort
  BY SmallCounts
<1>5. /\ refs' \in [Chan -> UShort] /\ refs'[e] = 0
      /\ \A d \in Chan \ {e} : refs'[d] = refs[d]
  BY <1>2, <1>30, <1>4
<1>6. "inval" \in Points
  BY DEF Points
<1>7. /\ pc' \in [Thread -> Points] /\ pc'[t] = "inval"
      /\ \A u \in Thread \ {t} : pc'[u] = pc[u]
  BY <1>1, <1>3, <1>6, GotoEffect
<1>8. /\ chan' \in [Thread -> Chan \cup {None}] /\ chan'[t] = e
      /\ \A u \in Thread \ {t} : chan'[u] = chan[u]
  BY <1>2, <1>3
<1>9. req[t] \in Reqs
  BY <1>2
<1>10. req'[t] = [req[t] EXCEPT !.back = q, !.seen = msgCount]
  BY <1>2, <1>31
<1>11. /\ req'[t] \in Reqs /\ req'[t].op = req[t].op
       /\ req'[t].back = q /\ req'[t].seen = msgCount
  <2>1. msgCount \in Int
    BY <1>2
  <2> QED BY <1>9, <1>10, <2>1 DEF Reqs
<1>12. \A u \in Thread \ {t} : req'[u] = req[u]
  BY <1>2, <1>31
<1>121. DOMAIN req' = Thread
  BY <1>2, <1>31
<1>122. req' = [u \in Thread |-> req'[u]]
  BY <1>2, <1>31
<1>13. req' \in [Thread -> Reqs]
  BY <1>2, <1>11, <1>12, <1>121, <1>122
<1>14. /\ asleep' \in [Thread -> Chan \cup {Dev, None}]
       /\ \A g \in Handler : asleep'[g] = Dev => asleep[g] = Dev
  BY <1>2, <1>3, ChannelAssumption DEF Woken, Thread
<1>15. Touches(t, e)
  BY <1>3, <1>5, <1>7, <1>8, <1>12 DEF Touches, UnrefFrame
<1>16. TypeOK'
  <2>1. NodeTypes'
    BY <1>1, <1>3, <1>5 DEF TypeOK, NodeTypes, UnrefFrame
  <2>2. ListTypes'
    BY <1>1, <1>3 DEF TypeOK, ListTypes, UnrefFrame
  <2>3. ThreadTypes'
    BY <1>1, <1>3, <1>7, <1>8, <1>13, <1>14 DEF TypeOK, ThreadTypes, UnrefFrame
  <2> QED BY <2>1, <2>2, <2>3 DEF TypeOK
<1>17. \A u \in Thread \ {t} : pc'[u] \in Outside
  BY <1>7, AloneInside
<1>18. Solo'
  BY <1>17 DEF Solo
<1>19. node[e] \in {"alive", "detached"}
  <2>1. node[e] \in {"unused", "alive", "detached", "freed"}
    BY <1>1 DEF TypeOK, NodeTypes
  <2> QED BY <1>1, <2>1 DEF Held
<1>20. Dropping'
  <2>1. \A u \in Thread : pc'[u] = "inval" => u = t
    BY <1>17 DEF Outside
  <2>2. req'[t].seen = msgCount' /\ refs'[chan'[t]] = 0
        /\ node'[chan'[t]] \in {"alive", "detached"}
    BY <1>3, <1>5, <1>8, <1>11, <1>19 DEF UnrefFrame
  <2>3. \A u \in Thread : pc'[u] = "inval" =>
          /\ treeLock' = u /\ refs'[chan'[u]] = 0 /\ req'[u].seen = msgCount'
          /\ node'[chan'[u]] \in {"alive", "detached"}
    BY <1>3, <2>1, <2>2
  <2>4. treeLock' # None => pc'[treeLock'] = "inval"
    BY <1>3, <1>7
  <2> QED BY <2>3, <2>4 DEF Dropping
<1>21. Kids'
  BY <1>3, KidsStay
<1>22. Counted'
  BY CountStays DEF UnrefFrame, MailStays
<1>23. LastClientValid'
  BY <1>3 DEF ChanInv, LastClientValid, UnrefFrame
<1>24. SleepsWithoutWork'
  <2>1. \A g \in Handler : pc'[g] = "nowork" /\ asleep'[g] = Dev =>
                             pc[g] = "nowork" /\ asleep[g] = Dev
    BY <1>7, <1>14 DEF Thread
  <2>2. \A c \in Chan : driverFile'[c] => driverFile[c]
    BY DEF UnrefFrame
  <2> QED BY <2>1, <2>2, SleepStays DEF UnrefFrame
<1>25. t \in Client => ClientAt(t)'
  BY <1>7, <1>8, <1>11, IdleType DEF ClientAt
<1>26. t \in Handler => HandlerAt(t)'
  BY <1>7, <1>8, <1>11 DEF HandlerAt
<1>27. Held(e)'
  <2>1. ASSUME NEW u \in Client, req'[u].op \in {"read", "write"}, chan'[u] = e
        PROVE  FALSE
    <3>1. u # t
      BY <1>11, <2>1, IdleType
    <3> QED BY <1>8, <1>12, <2>1, <3>1 DEF Thread, UnrefFrame
  <2> QED BY <1>5, <2>1 DEF Held
<1>28. Blank(e)'
  BY <1>3, <1>19 DEF Blank
<1>29. Opening(e)'
  BY <1>1, <1>7, <1>15, OpeningStays DEF UnrefFrame
<1> QED BY <1>15, <1>16, <1>18, <1>20, <1>21, <1>22, <1>23, <1>24, <1>25, <1>26, <1>27, <1>28, <1>29, Assembled

(* Others have references: the node may be taken out of the tree.          *)
LEMMA UnrefMore ==
  ASSUME NCPU = 1, ChanInv, NEW t \in Thread, NEW p, At(t, p), p # "inval",
         p \notin {"serve", "data"},
         NEW e \in Chan, NEW remove \in BOOLEAN, remove => node[e] = "alive",
         NEW q \in Points, q \notin {"inval", "nowork", "serve", "data"},
         q = "close" => ~ Fresh(e),
         Unref(t, e, remove, q), refs[e] \in {2, 3}, UnrefFrame(t, e),
         driverFile'[e] => ~ remove,
         refs[e] - 1 = (IF clientFile'[e] THEN 1 ELSE 0)
                       + (IF driverFile'[e] THEN 1 ELSE 0)
                       + (IF Openers(e)' # {} THEN 1 ELSE 0),
         \A u, v \in Openers(e)' : u = v,
         Openers(e)' # {} => ~ clientFile'[e],
         t \in Client => q \in {"user", "release", "close"},
         t \in Handler => q = "loop"
  PROVE  ChanInv'
<1>1. TypeOK /\ pc[t] = p /\ Held(e) /\ Kids
  BY DEF ChanInv, At
<1>2. /\ refs \in [Chan -> UShort] /\ children \in Seq(Chan) /\ Distinct(children)
      /\ node \in [Chan -> {"unused", "alive", "detached", "freed"}]
  BY <1>1 DEF TypeOK, NodeTypes, ListTypes
<1>30. refs' = [refs EXCEPT ![e] = (refs[e] - 1) % 65536]
  BY DEF Unref
<1>3. /\ treeLock' = treeLock /\ asleep' = asleep /\ GoOn(t, e, q)
      /\ IF remove THEN /\ node' = [node EXCEPT ![e] = "detached"]
                        /\ children' = Unlink(children, e)
                   ELSE node' = node /\ children' = children
  BY DEF Unref
<1>4. (refs[e] - 1) % 65536 = refs[e] - 1 /\ refs[e] - 1 \in UShort
  <2>1. CASE refs[e] = 2
    BY <2>1, SmallCounts
  <2>2. CASE refs[e] = 3
    BY <2>2, SmallCounts
  <2> QED BY <2>1, <2>2
<1>5. /\ refs' \in [Chan -> UShort] /\ refs'[e] = refs[e] - 1
      /\ \A d \in Chan \ {e} : refs'[d] = refs[d]
  BY <1>2, <1>30, <1>4
<1>6. /\ pc' \in [Thread -> Points] /\ pc'[t] = q
      /\ chan' \in [Thread -> Chan \cup {None}]
      /\ chan'[t] = IF q \in {"release", "close"} THEN e ELSE None
      /\ req' \in [Thread -> Reqs] /\ req'[t] = Idle0
      /\ \A u \in Thread \ {t} :
           pc'[u] = pc[u] /\ chan'[u] = chan[u] /\ req'[u] = req[u]
  BY <1>1, <1>3, GoOnEffect
<1>7. node[e] \in {"alive", "detached"}
  <2>1. node[e] \in {"unused", "alive", "detached", "freed"}
    BY <1>2
  <2> QED BY <1>1, <2>1 DEF Held
<1>8. /\ node' \in [Chan -> {"unused", "alive", "detached", "freed"}]
      /\ node'[e] = (IF remove THEN "detached" ELSE node[e])
      /\ \A d \in Chan \ {e} : node'[d] = node[d]
  BY <1>2, <1>3
<1>9. /\ children' \in Seq(Chan) /\ Distinct(children') /\ Kids'
  <2>1. CASE remove
    <3>1. /\ children' \in Seq(Chan) /\ Distinct(children')
          /\ \A x : InList(children', x) <=> InList(children, x) /\ x # e
      BY <1>2, <1>3, <2>1, UnlinkMembers
    <3> QED BY <1>1, <1>8, <2>1, <3>1 DEF Kids
  <2>2. CASE ~ remove
    BY <1>1, <1>2, <1>3, <2>2 DEF Kids
  <2> QED BY <2>1, <2>2
<1>10. Touches(t, e)
  BY <1>5, <1>6, <1>8 DEF Touches, UnrefFrame
<1>11. TypeOK'
  <2>1. NodeTypes'
    BY <1>1, <1>5, <1>8 DEF TypeOK, NodeTypes, UnrefFrame
  <2>2. ListTypes'
    BY <1>1, <1>9 DEF TypeOK, ListTypes, UnrefFrame
  <2>3. ThreadTypes'
    BY <1>1, <1>3, <1>6 DEF TypeOK, ThreadTypes, UnrefFrame
  <2> QED BY <2>1, <2>2, <2>3 DEF TypeOK
<1>12. Solo' /\ Dropping'
  BY <1>3, <1>6, <1>10, ClearStep
<1>13. Counted'
  BY CountStays DEF UnrefFrame, MailStays
<1>14. LastClientValid'
  <2>1. lastClient # None => lastClient \in Chan /\ node[lastClient] \in {"alive", "detached"}
    BY <1>1 DEF ChanInv, LastClientValid, TypeOK, NodeTypes
  <2> QED BY <1>7, <1>8, <2>1 DEF LastClientValid, UnrefFrame
<1>15. SleepsWithoutWork'
  <2>1. \A g \in Handler : pc'[g] = "nowork" /\ asleep'[g] = Dev =>
                             pc[g] = "nowork" /\ asleep[g] = Dev
    BY <1>3, <1>6 DEF Thread
  <2>2. \A c \in Chan : driverFile'[c] => driverFile[c]
    BY DEF UnrefFrame
  <2> QED BY <2>1, <2>2, SleepStays DEF UnrefFrame
<1>16. t \in Client => ClientAt(t)'
  BY <1>6 DEF ClientAt
<1>17. t \in Handler => HandlerAt(t)'
  BY <1>6 DEF HandlerAt
<1>18. Held(e)'
  <2>1. ASSUME NEW u \in Client, req'[u].op \in {"read", "write"}, chan'[u] = e
        PROVE  clientFile'[e]
    <3>1. u # t
      BY <1>6, <2>1, IdleType
    <3> QED BY <1>6, <2>1, <3>1 DEF Thread, UnrefFrame
  <2>2. driverFile'[e] => node'[e] = "alive"
    BY <1>1, <1>8 DEF Held, UnrefFrame
  <2>3. node'[e] \notin {"unused", "freed"}
    BY <1>7, <1>8
  <2> QED BY <1>5, <2>1, <2>2, <2>3 DEF Held
<1>19. Blank(e)'
  BY <1>7, <1>8 DEF Blank
<1>20. Opening(e)'
  BY <1>1, <1>6, <1>10, OpeningStays DEF UnrefFrame
<1> QED BY <1>9, <1>10, <1>11, <1>12, <1>13, <1>14, <1>15, <1>16, <1>17, <1>18, <1>19, <1>20, Assembled

(* openPath() releases the node of a failed open().                        *)
LEMMA ReleaseKeeps ==
  ASSUME NCPU = 1, ChanInv, NEW t \in Client, Release(t)
  PROVE  ChanInv'
<1>0. /\ At(t, "release") /\ Unref(t, chan[t], FALSE, "user")
      /\ clientFile' = clientFile /\ driverFile' = driverFile
      /\ closed' = closed /\ handler' = handler /\ sendList' = sendList
      /\ recvList' = recvList /\ devAlive' = devAlive /\ lastClient' = lastClient
      /\ msgCount' = msgCount /\ nextRid' = nextRid /\ sig' = sig /\ sent' = sent
      /\ deferred' = deferred
  BY DEF Release, chanVars, listVars
<1>1. /\ TypeOK /\ ClientAt(t) /\ t \in Thread /\ t \notin Handler /\ pc[t] = "release"
  BY <1>0, ChannelAssumption DEF ChanInv, Thread, At
<1>2. chan[t] \in Chan /\ req[t] = Idle0
  BY <1>1 DEF ClientAt
<1>3. PICK e \in Chan : e = chan[t]
  BY <1>2
<1>4. Held(e)
  BY DEF ChanInv
<1>5. t \in Openers(e)
  BY <1>1, <1>3 DEF Openers
<1>6. /\ ~ clientFile[e] /\ \A u \in Openers(e) : u = t
      /\ refs[e] = 0 + (IF driverFile[e] THEN 1 ELSE 0) + 1
  BY <1>4, <1>5 DEF Held
<1>7. /\ clientFile \in [Chan -> BOOLEAN] /\ driverFile \in [Chan -> BOOLEAN]
      /\ deferred \in [Chan -> SUBSET Rids]
  BY <1>1 DEF TypeOK, NodeTypes, ListTypes
<1>8. UnrefFrame(t, e)
  <2>1. \A u \in Client \ {t} : req[u].op \in {"read", "write"} /\ chan[u] = e =>
                                  clientFile[e]
    BY <1>4 DEF Held
  <2> QED BY <1>0, <1>3, <1>7, <2>1 DEF UnrefFrame
<1>9. Unref(t, e, FALSE, "user") /\ "user" \in Points
  BY <1>0, <1>3 DEF Points, Outside
<1>10. ASSUME \A u \in Thread \ {t} : pc'[u] = pc[u] /\ chan'[u] = chan[u] /\ req'[u] = req[u],
              t \notin Openers(e)'
       PROVE  Openers(e)' = {}
  <2>1. \A u \in Client \ {t} : u \in Openers(e)' <=> u \in Openers(e)
    BY <1>10 DEF Openers, Thread
  <2>2. Openers(e)' \subseteq Client
    BY DEF Openers
  <2> QED BY <1>6, <1>10, <2>1, <2>2
<1>11. CASE ~ driverFile[e]
  <2>1. refs[e] = 1
    BY <1>6, <1>11
  <2>2. /\ Goto(t, "inval") /\ chan' = [chan EXCEPT ![t] = e]
        /\ req' = [req EXCEPT ![t].back = "user", ![t].seen = msgCount]
    BY <1>9, <2>1 DEF Unref
  <2>3. /\ pc \in [Thread -> Points] /\ chan \in [Thread -> Chan \cup {None}]
        /\ req \in [Thread -> Reqs] /\ req[t] \in Reqs
    BY <1>1 DEF TypeOK, ThreadTypes
  <2>4. "inval" \in Points
    BY DEF Points
  <2>5. pc'[t] = "inval" /\ \A u \in Thread \ {t} : pc'[u] = pc[u]
    BY <1>1, <2>2, <2>4, GotoEffect
  <2>6. /\ \A u \in Thread \ {t} : chan'[u] = chan[u] /\ req'[u] = req[u]
    BY <2>2, <2>3
  <2>7. req'[t] = [req[t] EXCEPT !.back = "user", !.seen = msgCount]
    BY <1>1, <2>2, <2>3
  <2>8. req'[t].op = req[t].op /\ req'[t].back = "user"
    BY <2>3, <2>7 DEF Reqs
  <2>9. t \notin Openers(e)'
    BY <1>2, <2>5, <2>8, IdleType DEF Openers
  <2>10. Openers(e)' = {}
    BY <1>10, <2>5, <2>6, <2>9
  <2>11. ~ clientFile'[e] /\ ~ driverFile'[e]
    BY <1>0, <1>6, <1>11
  <2> QED BY <1>0, <1>1, <1>2, <1>8, <1>9, <2>1, <2>10, <2>11, UnrefLast
<1>12. CASE driverFile[e]
  <2>1. refs[e] = 2
    BY <1>6, <1>12
  <2>2. GoOn(t, e, "user")
    BY <1>9, <2>1 DEF Unref
  <2>3. /\ pc'[t] = "user" /\ chan'[t] = None /\ req'[t] = Idle0
        /\ \A u \in Thread \ {t} :
             pc'[u] = pc[u] /\ chan'[u] = chan[u] /\ req'[u] = req[u]
    BY <1>1, <1>9, <2>2, GoOnEffect
  <2>4. t \notin Openers(e)'
    BY <2>3, ChannelAssumption DEF Openers
  <2>5. Openers(e)' = {}
    BY <1>10, <2>3, <2>4
  <2>6. refs[e] - 1 = (IF clientFile'[e] THEN 1 ELSE 0)
                      + (IF driverFile'[e] THEN 1 ELSE 0)
                      + (IF Openers(e)' # {} THEN 1 ELSE 0)
    BY <1>0, <1>6, <1>12, <2>1, <2>5
  <2> QED BY <1>0, <1>1, <1>8, <1>9, <2>1, <2>5, <2>6, UnrefMore
<1> QED BY <1>11, <1>12

(* open() has failed: the file of the driver is closed.  There is still    *)
(* the reference of the creator.                                           *)
LEMMA OpenFailKeeps ==
  ASSUME NCPU = 1, ChanInv, NEW t \in Client, OpenFail(t)
  PROVE  ChanInv'
<1>0. /\ At(t, "openfail") /\ driverFile' = [driverFile EXCEPT ![chan[t]] = FALSE]
      /\ clientFile' = clientFile
      /\ closed' = closed /\ handler' = handler /\ sendList' = sendList
      /\ recvList' = recvList /\ devAlive' = devAlive /\ lastClient' = lastClient
      /\ msgCount' = msgCount /\ nextRid' = nextRid /\ sig' = sig /\ sent' = sent
      /\ deferred' = deferred
  BY DEF OpenFail, chanVars, listVars
<1>1. /\ TypeOK /\ ClientAt(t) /\ t \in Thread /\ t \notin Handler /\ pc[t] = "openfail"
  BY <1>0, ChannelAssumption DEF ChanInv, Thread, At
<1>2. chan[t] \in Chan /\ req[t].op = "open"
  BY <1>1 DEF ClientAt
<1>3. PICK e \in Chan : e = chan[t]
  BY <1>2
<1>4. Held(e)
  BY DEF ChanInv
<1>5. t \in Openers(e)
  BY <1>2, <1>3 DEF Openers
<1>6. /\ ~ clientFile[e] /\ \A u \in Openers(e) : u = t
      /\ refs[e] = 0 + (IF driverFile[e] THEN 1 ELSE 0) + 1
  BY <1>4, <1>5 DEF Held
<1>7. /\ clientFile \in [Chan -> BOOLEAN] /\ driverFile \in [Chan -> BOOLEAN]
      /\ deferred \in [Chan -> SUBSET Rids]
  BY <1>1 DEF TypeOK, NodeTypes, ListTypes
<1>8. /\ driverFile' \in [Chan -> BOOLEAN] /\ ~ driverFile'[e]
      /\ \A d \in Chan \ {e} : driverFile'[d] = driverFile[d]
  BY <1>0, <1>3, <1>7
<1>9. "release" \in Points
  BY DEF Points
<1>10. GoOn(t, e, "release")
  <2>1. CASE ~ driverFile[e]
    BY <1>3, <2>1 DEF OpenFail, Leave
  <2>2. CASE driverFile[e]
    <3>1. refs[e] = 2 /\ Unref(t, e, Alive(e), "release")
      BY <1>3, <1>6, <2>2 DEF OpenFail
    <3> QED BY <3>1 DEF Unref
  <2> QED BY <2>1, <2>2
<1>11. /\ pc' \in [Thread -> Points] /\ pc'[t] = "release"
       /\ chan' \in [Thread -> Chan \cup {None}] /\ chan'[t] = e
       /\ req' \in [Thread -> Reqs] /\ req'[t] = Idle0
       /\ \A u \in Thread \ {t} :
            pc'[u] = pc[u] /\ chan'[u] = chan[u] /\ req'[u] = req[u]
  BY <1>1, <1>9, <1>10, GoOnEffect
<1>12. t \in Openers(e)'
  BY <1>11 DEF Openers
<1>13. CASE ~ driverFile[e]
  <2>1. /\ node' = node /\ refs' = refs /\ children' = children
        /\ treeLock' = treeLock /\ asleep' = asleep
    BY <1>3, <1>13 DEF OpenFail
  <2>2. driverFile' = driverFile
    BY <1>0, <1>3, <1>7, <1>13
  <2>3. Touches(t, e)
    BY <1>0, <1>3, <1>11, <2>1, <2>2 DEF Touches
  <2>4. TypeOK'
    <3>1. NodeTypes'
      BY <1>0, <1>1, <1>8, <2>1 DEF TypeOK, NodeTypes
    <3>2. ListTypes'
      BY <1>0, <1>1, <2>1 DEF TypeOK, ListTypes
    <3>3. ThreadTypes'
      BY <1>0, <1>1, <1>11, <2>1 DEF TypeOK, ThreadTypes
    <3> QED BY <3>1, <3>2, <3>3 DEF TypeOK
  <2>5. NodesStay /\ MailStays
    BY <1>0, <2>1, <2>2 DEF NodesStay, MailStays
  <2>6. ClientAt(t)'
    BY <1>11 DEF ClientAt
  <2>7. Held(e)'
    BY <1>0, <1>1, <1>5, <1>11, <1>12, <2>1, <2>2, <2>3, IdleType, HeldStays
  <2>8. Opening(e)'
    BY <1>0, <1>1, <1>11, <2>3, OpeningStays
  <2>9. node[e] # "unused"
    BY <1>1, <1>3, KnownChannel
  <2>10. \A h \in Handler : pc'[h] = "nowork" /\ asleep'[h] = Dev =>
                              pc[h] = "nowork" /\ asleep[h] = Dev
    BY <1>1, <1>11, <2>1 DEF Thread
  <2> QED BY <1>0, <1>1, <1>11, <2>1, <2>3, <2>4, <2>5, <2>6, <2>7, <2>8, <2>9, <2>10, QuietStep
<1>14. CASE driverFile[e]
  <2>1. refs[e] = 2 /\ Unref(t, e, Alive(e), "release") /\ Alive(e) \in BOOLEAN
        /\ (Alive(e) => node[e] = "alive")
    BY <1>3, <1>6, <1>14 DEF OpenFail, Alive
  <2>2. UnrefFrame(t, e)
    <3>1. \A u \in Client \ {t} : req[u].op \in {"read", "write"} /\ chan[u] = e =>
                                    clientFile[e]
      BY <1>4 DEF Held
    <3> QED BY <1>0, <1>3, <1>7, <1>8, <1>14, <3>1 DEF UnrefFrame
  <2>3. \A u \in Openers(e)' : u = t
    <3>1. \A u \in Client \ {t} : u \in Openers(e)' <=> u \in Openers(e)
      BY <1>11 DEF Openers, Thread
    <3>2. Openers(e)' \subseteq Client
      BY DEF Openers
    <3> QED BY <1>6, <3>1, <3>2
  <2>4. Openers(e)' # {} /\ ~ clientFile'[e]
    BY <1>0, <1>6, <1>12
  <2>5. refs[e] - 1 = (IF clientFile'[e] THEN 1 ELSE 0)
                      + (IF driverFile'[e] THEN 1 ELSE 0)
                      + (IF Openers(e)' # {} THEN 1 ELSE 0)
    BY <1>8, <2>1, <2>4
  <2>6. \A u, v \in Openers(e)' : u = v
    BY <2>3
  <2> QED BY <1>0, <1>1, <1>8, <1>9, <2>1, <2>2, <2>4, <2>5, <2>6, UnrefMore
<1> QED BY <1>13, <1>14

LEMMA CloseKeeps ==
  ASSUME NCPU = 1, ChanInv, NEW t \in Client, NEW e \in Chan, Close(t, e)
  PROVE  ChanInv'
<1> DEFINE q == IF Alive(e) /\ refs[e] = 2 THEN "close" ELSE "user"
<1>0. /\ At(t, "user") /\ clientFile[e] /\ \A u \in Client : chan[u] # e
      /\ clientFile' = [clientFile EXCEPT ![e] = FALSE] /\ driverFile' = driverFile
      /\ Unref(t, e, FALSE, q)
      /\ closed' = closed /\ handler' = handler /\ sendList' = sendList
      /\ recvList' = recvList /\ devAlive' = devAlive /\ lastClient' = lastClient
      /\ msgCount' = msgCount /\ nextRid' = nextRid /\ sig' = sig /\ sent' = sent
      /\ deferred' = deferred
  BY DEF Close, chanVars, listVars
<1>1. /\ TypeOK /\ ClientAt(t) /\ t \in Thread /\ t \notin Handler /\ pc[t] = "user"
  BY <1>0, ChannelAssumption DEF ChanInv, Thread, At
<1>2. chan[t] = None /\ req[t] = Idle0
  BY <1>1 DEF ClientAt
<1>3. q \in Points /\ q \in {"user", "close"} /\ (refs[e] = 1 => q = "user")
  BY DEF Points, Outside
<1> HIDE DEF q
<1>4. Held(e)
  BY DEF ChanInv
<1>5. Openers(e) = {}
  BY <1>0, <1>4 DEF Held
<1>6. refs[e] = 1 + (IF driverFile[e] THEN 1 ELSE 0) + 0
  BY <1>0, <1>4, <1>5 DEF Held
<1>7. /\ clientFile \in [Chan -> BOOLEAN] /\ driverFile \in [Chan -> BOOLEAN]
      /\ deferred \in [Chan -> SUBSET Rids]
  BY <1>1 DEF TypeOK, NodeTypes, ListTypes
<1>8. /\ clientFile' \in [Chan -> BOOLEAN] /\ ~ clientFile'[e]
      /\ \A d \in Chan \ {e} : clientFile'[d] = clientFile[d]
  BY <1>0, <1>7
<1>9. UnrefFrame(t, e)
  BY <1>0, <1>2, <1>7, <1>8 DEF UnrefFrame
<1>10. ASSUME \A u \in Thread \ {t} : pc'[u] = pc[u] /\ chan'[u] = chan[u] /\ req'[u] = req[u],
              t \notin Openers(e)'
       PROVE  Openers(e)' = {}
  <2>1. \A u \in Client \ {t} : u \in Openers(e)' <=> u \in Openers(e)
    BY <1>10 DEF Openers, Thread
  <2>2. Openers(e)' \subseteq Client
    BY DEF Openers
  <2> QED BY <1>5, <1>10, <2>1, <2>2
<1>11. CASE ~ driverFile[e]
  <2>1. refs[e] = 1
    BY <1>6, <1>11
  <2>2. /\ Goto(t, "inval") /\ chan' = [chan EXCEPT ![t] = e]
        /\ req' = [req EXCEPT ![t].back = q, ![t].seen = msgCount]
    BY <1>0, <2>1 DEF Unref
  <2>3. /\ pc \in [Thread -> Points] /\ chan \in [Thread -> Chan \cup {None}]
        /\ req \in [Thread -> Reqs] /\ req[t] \in Reqs
    BY <1>1 DEF TypeOK, ThreadTypes
  <2>4. "inval" \in Points
    BY DEF Points
  <2>5. pc'[t] = "inval" /\ \A u \in Thread \ {t} : pc'[u] = pc[u]
    BY <1>1, <2>2, <2>4, GotoEffect
  <2>6. /\ \A u \in Thread \ {t} : chan'[u] = chan[u] /\ req'[u] = req[u]
    BY <2>2, <2>3
  <2>7. req'[t] = [req[t] EXCEPT !.back = q, !.seen = msgCount]
    BY <1>1, <2>2, <2>3
  <2>8. req'[t].op = req[t].op /\ req'[t].back = "user"
    BY <1>3, <2>1, <2>3, <2>7 DEF Reqs
  <2>9. t \notin Openers(e)'
    BY <1>2, <2>5, <2>8, IdleType DEF Openers
  <2>10. Openers(e)' = {}
    BY <1>10, <2>5, <2>6, <2>9
  <2>11. ~ driverFile'[e]
    BY <1>0, <1>11
  <2> QED BY <1>0, <1>1, <1>2, <1>3, <1>8, <1>9, <2>1, <2>10, <2>11, UnrefLast
<1>12. CASE driverFile[e]
  <2>1. refs[e] = 2
    BY <1>6, <1>12
  <2>2. GoOn(t, e, q)
    BY <1>0, <2>1 DEF Unref
  <2>3. /\ pc'[t] = q /\ req'[t] = Idle0
        /\ \A u \in Thread \ {t} :
             pc'[u] = pc[u] /\ chan'[u] = chan[u] /\ req'[u] = req[u]
    BY <1>1, <1>3, <2>2, GoOnEffect
  <2>4. t \notin Openers(e)'
    BY <1>3, <2>3, IdleType DEF Openers
  <2>5. Openers(e)' = {}
    BY <1>10, <2>3, <2>4
  <2>6. refs[e] - 1 = (IF clientFile'[e] THEN 1 ELSE 0)
                      + (IF driverFile'[e] THEN 1 ELSE 0)
                      + (IF Openers(e)' # {} THEN 1 ELSE 0)
    BY <1>0, <1>8, <1>12, <2>1, <2>5
  <2>7. ~ Fresh(e)
    BY <1>0 DEF Fresh
  <2> QED BY <1>0, <1>1, <1>3, <1>9, <2>1, <2>5, <2>6, <2>7, UnrefMore
<1> QED BY <1>11, <1>12

(* The driver closes its file: the node leaves the tree, unless that was   *)
(* the last reference.                                                     *)
LEMMA DriverCloseKeeps ==
  ASSUME NCPU = 1, ChanInv, NEW h \in Handler, DriverClose(h)
  PROVE  ChanInv'
<1>0. /\ At(h, "drvclose") /\ driverFile[chan[h]]
      /\ driverFile' = [driverFile EXCEPT ![chan[h]] = FALSE]
      /\ deferred' = [deferred EXCEPT ![chan[h]] = {}]
      /\ Unref(h, chan[h], Alive(chan[h]), "loop") /\ clientFile' = clientFile
      /\ closed' = closed /\ handler' = handler /\ sendList' = sendList
      /\ recvList' = recvList /\ devAlive' = devAlive /\ lastClient' = lastClient
      /\ msgCount' = msgCount /\ nextRid' = nextRid /\ sig' = sig /\ sent' = sent
  BY DEF DriverClose, CloseFile, chanVars, listVars
<1>1. pc[h] = "drvclose" /\ h \notin Client
  BY <1>0, ChannelAssumption DEF At
<1>2. TypeOK /\ h \in Thread /\ chan[h] \in Chan
  BY <1>1, BusyHandler
<1>3. PICK e \in Chan : e = chan[h]
  BY <1>2
<1>4. Held(e) /\ driverFile[e] /\ node[e] = "alive"
  BY <1>0, <1>3 DEF ChanInv, Held
<1>5. /\ clientFile \in [Chan -> BOOLEAN] /\ driverFile \in [Chan -> BOOLEAN]
      /\ deferred \in [Chan -> SUBSET Rids]
  BY <1>2 DEF TypeOK, NodeTypes, ListTypes
<1>6. /\ driverFile' \in [Chan -> BOOLEAN] /\ ~ driverFile'[e]
      /\ \A d \in Chan \ {e} : driverFile'[d] = driverFile[d]
  BY <1>0, <1>3, <1>5
<1>7. /\ deferred' \in [Chan -> SUBSET Rids] /\ deferred'[e] = {}
      /\ \A d \in Chan \ {e} : deferred'[d] = deferred[d]
  BY <1>0, <1>3, <1>5
<1>8. UnrefFrame(h, e)
  <2>1. \A u \in Client \ {h} : req[u].op \in {"read", "write"} /\ chan[u] = e =>
                                  clientFile[e]
    BY <1>4 DEF Held
  <2> QED BY <1>0, <1>3, <1>4, <1>5, <1>6, <1>7, <2>1 DEF UnrefFrame
<1>9. /\ Unref(h, e, TRUE, "loop") /\ "loop" \in Points
  <2>1. Alive(e) = TRUE
    BY <1>4 DEF Alive
  <2> QED BY <1>0, <1>3, <2>1 DEF Points, Outside
<1>10. Openers(e)' = Openers(e)
  <2>1. \A u \in Thread \ {h} : pc'[u] = pc[u] /\ chan'[u] = chan[u] /\ req'[u] = req[u]
    <3>1. CASE refs[e] = 1
      <4>1. /\ Goto(h, "inval") /\ chan' = [chan EXCEPT ![h] = e]
            /\ req' = [req EXCEPT ![h].back = "loop", ![h].seen = msgCount]
        BY <1>9, <3>1 DEF Unref
      <4>2. /\ chan \in [Thread -> Chan \cup {None}] /\ req \in [Thread -> Reqs]
        BY <1>2 DEF TypeOK, ThreadTypes
      <4>3. "inval" \in Points
        BY DEF Points
      <4>4. \A u \in Thread \ {h} : pc'[u] = pc[u]
        BY <1>2, <4>1, <4>3, GotoEffect
      <4>5. \A u \in Thread \ {h} : chan'[u] = chan[u] /\ req'[u] = req[u]
        BY <4>1, <4>2
      <4> QED BY <4>4, <4>5
    <3>2. CASE refs[e] # 1
      <4>1. GoOn(h, e, "loop")
        BY <1>9, <3>2 DEF Unref
      <4> QED BY <1>2, <1>9, <4>1, GoOnEffect
    <3> QED BY <3>1, <3>2
  <2>2. \A u \in Client : pc'[u] = pc[u] /\ chan'[u] = chan[u] /\ req'[u] = req[u]
    BY <1>1, <2>1 DEF Thread
  <2> QED BY <2>2 DEF Openers
<1>11. refs[e] = (IF clientFile[e] THEN 1 ELSE 0) + 1 + (IF Openers(e) # {} THEN 1 ELSE 0)
  BY <1>4 DEF Held
<1>12. CASE ~ clientFile[e] /\ Openers(e) = {}
  <2>1. refs[e] = 1
    BY <1>11, <1>12
  <2>2. ~ clientFile'[e] /\ Openers(e)' = {}
    BY <1>0, <1>10, <1>12
  <2> QED BY <1>0, <1>1, <1>2, <1>6, <1>8, <1>9, <2>1, <2>2, UnrefLast
<1>13. CASE clientFile[e] \/ Openers(e) # {}
  <2>1. refs[e] \in {2, 3}
    BY <1>11, <1>13
  <2>2. refs[e] - 1 = (IF clientFile'[e] THEN 1 ELSE 0)
                      + (IF driverFile'[e] THEN 1 ELSE 0)
                      + (IF Openers(e)' # {} THEN 1 ELSE 0)
    <3>1. clientFile'[e] = clientFile[e] /\ ~ driverFile'[e]
      BY <1>0, <1>6
    <3>2. (IF clientFile[e] THEN 1 ELSE 0) \in Nat /\ (IF Openers(e) # {} THEN 1 ELSE 0) \in Nat
      OBVIOUS
    <3> QED BY <1>10, <1>11, <3>1, <3>2
  <2>3. /\ \A u, v \in Openers(e)' : u = v
        /\ Openers(e)' # {} => ~ clientFile'[e]
    BY <1>0, <1>4, <1>10 DEF Held
  <2> QED BY <1>0, <1>1, <1>2, <1>4, <1>6, <1>8, <1>9, <2>1, <2>2, <2>3, UnrefMore
<1> QED BY <1>12, <1>13

-----------------------------------------------------------------------------
(* The rest of invalidate().                                               *)

LEMMA InvalidateKeeps ==
  ASSUME NCPU = 1, ChanInv, NEW t \in Thread, Invalidate(t)
  PROVE  ChanInv'
<1>0. /\ At(t, "inval") /\ msgCount' = req[t].seen - Len(sendList[chan[t]])
      /\ ClientRemoved(chan[t])
      /\ sendList' = [sendList EXCEPT ![chan[t]] = << >>]
      /\ recvList' = [recvList EXCEPT ![chan[t]] = << >>]
      /\ children' = Unlink(children, chan[t])
      /\ node' = [node EXCEPT ![chan[t]] = "freed"]
      /\ treeLock' = None /\ Leave(t, req[t].back)
      /\ refs' = refs /\ clientFile' = clientFile /\ driverFile' = driverFile
      /\ closed' = closed /\ handler' = handler /\ devAlive' = devAlive
      /\ nextRid' = nextRid /\ asleep' = asleep /\ sig' = sig
      /\ deferred' = deferred /\ sent' = sent
  BY DEF Invalidate, chanVars
<1>1. /\ TypeOK /\ Dropping /\ Kids /\ pc[t] = "inval"
      /\ \A u \in Thread \ {t} : pc[u] \in Outside
  BY <1>0, AloneInside DEF ChanInv
<1>2. /\ chan[t] \in Chan
      /\ t \in Client => req[t].op = "none" /\ req[t].back = "user"
      /\ t \in Handler => req[t].back = "loop"
  <2>1. CASE t \in Client
    <3>1. ClientAt(t) /\ t \notin Handler
      BY <2>1, ChannelAssumption DEF ChanInv
    <3> QED BY <1>1, <3>1 DEF ClientAt
  <2>2. CASE t \in Handler
    <3>1. HandlerAt(t) /\ t \notin Client
      BY <2>2, ChannelAssumption DEF ChanInv
    <3> QED BY <1>1, <3>1 DEF HandlerAt
  <2> QED BY <2>1, <2>2 DEF Thread
<1>3. PICK e \in Chan : e = chan[t]
  BY <1>2
<1>4. refs[e] = 0 /\ req[t].seen = msgCount
  BY <1>1, <1>3 DEF Dropping
<1>5. Held(e) /\ Opening(e)
  BY DEF ChanInv
<1>6. PICK b \in {"user", "loop"} : b = req[t].back
  BY <1>2 DEF Thread
<1>7. GoOn(t, e, b) /\ b \in Points
  BY <1>0, <1>3, <1>6 DEF Leave, Points, Outside
<1>8. /\ pc' \in [Thread -> Points] /\ pc'[t] = b
      /\ chan' \in [Thread -> Chan \cup {None}] /\ chan'[t] = None
      /\ req' \in [Thread -> Reqs] /\ req'[t] = Idle0
      /\ \A u \in Thread \ {t} :
           pc'[u] = pc[u] /\ chan'[u] = chan[u] /\ req'[u] = req[u]
  BY <1>1, <1>7, GoOnEffect
<1>9. /\ sendList \in [Chan -> Seq(Messages)] /\ recvList \in [Chan -> Seq(Replies)]
      /\ node \in [Chan -> {"unused", "alive", "detached", "freed"}]
      /\ children \in Seq(Chan) /\ Distinct(children) /\ msgCount \in Nat
      /\ lastClient \in Chan \cup {None}
  BY <1>1 DEF TypeOK, NodeTypes, ListTypes
<1>10. /\ sendList' \in [Chan -> Seq(Messages)] /\ sendList'[e] = << >>
       /\ \A d \in Chan \ {e} : sendList'[d] = sendList[d]
  BY <1>0, <1>3, <1>9
<1>11. /\ recvList' \in [Chan -> Seq(Replies)] /\ recvList'[e] = << >>
       /\ \A d \in Chan \ {e} : recvList'[d] = recvList[d]
  BY <1>0, <1>3, <1>9
<1>12. /\ node' \in [Chan -> {"unused", "alive", "detached", "freed"}]
       /\ node'[e] = "freed" /\ \A d \in Chan \ {e} : node'[d] = node[d]
  BY <1>0, <1>3, <1>9
<1>13. /\ children' \in Seq(Chan) /\ Distinct(children')
       /\ \A x : InList(children', x) <=> InList(children, x) /\ x # e
  BY <1>0, <1>3, <1>9, UnlinkMembers
<1>14. Kids'
  BY <1>1, <1>12, <1>13 DEF Kids
<1>15. Counted' /\ msgCount' \in Nat
  <2>1. Len(sendList[e]) \in Nat /\ Len(sendList'[e]) = 0
    BY <1>9, <1>10
  <2>2. msgCount' = msgCount - Len(sendList[e])
    BY <1>0, <1>3, <1>4
  <2>3. msgCount' = msgCount - Len(sendList[e]) + Len(sendList'[e])
    BY <1>9, <2>1, <2>2
  <2> QED BY <1>10, <2>3, CountFollows
<1>16. Touches(t, e)
  BY <1>0, <1>3, <1>8, <1>10, <1>11, <1>12 DEF Touches
<1>17. \A u \in Thread \ {t} : pc'[u] \in Outside
  BY <1>1, <1>8
<1>18. Solo'
  BY <1>17 DEF Solo
<1>19. Dropping'
  BY <1>0, <1>8, <1>17 DEF Dropping, Outside
<1>20. LastClientValid' /\ lastClient' \in Chan \cup {None}
  <2>0. lastClient # None => node[lastClient] \in {"alive", "detached"}
    BY DEF ChanInv, LastClientValid
  <2>1. CASE lastClient # e
    <3>1. lastClient' = lastClient
      BY <1>0, <1>3, <2>1 DEF ClientRemoved
    <3> QED BY <1>9, <1>12, <2>0, <2>1, <3>1 DEF LastClientValid
  <2>2. CASE lastClient = e /\ (~ InList(children, e) \/ Place(children, e) = Len(children))
    <3>1. lastClient' = None
      BY <1>0, <1>3, <2>2 DEF ClientRemoved
    <3> QED BY <3>1 DEF LastClientValid
  <2>3. CASE lastClient = e /\ InList(children, e) /\ Place(children, e) # Len(children)
    <3>1. Place(children, e) \in 1 .. Len(children) /\ children[Place(children, e)] = e
      BY <2>3 DEF Place, InList
    <3>2. PICK k \in 1 .. Len(children) : k = Place(children, e)
      BY <3>1
    <3>3. lastClient' = children[k + 1]
      BY <1>0, <1>3, <2>3, <3>2 DEF ClientRemoved
    <3>4. k + 1 \in 1 .. Len(children) /\ children[k] = e
      BY <1>9, <2>3, <3>1, <3>2
    <3>5. children[k + 1] # e
      BY <1>9, <3>4 DEF Distinct
    <3>6. children[k + 1] \in Chan /\ InList(children, children[k + 1])
      BY <1>9, <3>4 DEF InList
    <3>7. node[children[k + 1]] = "alive"
      BY <1>1, <3>6 DEF Kids
    <3> QED BY <1>12, <3>3, <3>5, <3>6, <3>7 DEF LastClientValid
  <2> QED BY <2>1, <2>2, <2>3
<1>21. TypeOK'
  <2>1. NodeTypes'
    BY <1>0, <1>1, <1>12, <1>20 DEF TypeOK, NodeTypes
  <2>2. ListTypes'
    BY <1>0, <1>1, <1>10, <1>11, <1>13, <1>15 DEF TypeOK, ListTypes
  <2>3. ThreadTypes'
    BY <1>0, <1>1, <1>8 DEF TypeOK, ThreadTypes
  <2> QED BY <2>1, <2>2, <2>3 DEF TypeOK
<1>22. SleepsWithoutWork'
  <2>1. \A g \in Handler : pc'[g] = "nowork" /\ asleep'[g] = Dev =>
                             pc[g] = "nowork" /\ asleep[g] = Dev
    BY <1>0, <1>8 DEF Thread
  <2>2. \A c \in Chan : sendList'[c] = << >> \/ sendList'[c] = sendList[c]
                          \/ sendList[c] # << >>
    BY <1>10
  <2> QED BY <1>0, <2>1, <2>2, SleepStays
<1>23. t \in Client => ClientAt(t)'
  BY <1>2, <1>6, <1>8 DEF ClientAt
<1>24. t \in Handler => HandlerAt(t)'
  BY <1>2, <1>6, <1>8 DEF HandlerAt
<1>25. Held(e)'
  <2>1. ~ clientFile[e] /\ ~ driverFile[e] /\ Openers(e) = {}
    BY <1>4, <1>5 DEF Held
  <2>2. Openers(e)' = {}
    <3>1. \A u \in Client \ {t} : u \in Openers(e)' <=> u \in Openers(e)
      BY <1>16, OpenersKept
    <3>2. t \notin Openers(e)'
      BY <1>8, ChannelAssumption DEF Openers
    <3>3. Openers(e)' \subseteq Client
      BY DEF Openers
    <3> QED BY <2>1, <3>1, <3>2, <3>3
  <2>3. \A u \in Client : ~ (req'[u].op \in {"read", "write"} /\ chan'[u] = e)
    <3>1. \A u \in Client : ~ (req[u].op \in {"read", "write"} /\ chan[u] = e)
      BY <1>5, <2>1 DEF Held
    <3> QED BY <1>8, <3>1, ChannelAssumption DEF Thread
  <2> QED BY <1>0, <1>4, <1>12, <2>1, <2>2, <2>3 DEF Held
<1>26. Blank(e)'
  BY <1>12 DEF Blank
<1>27. Opening(e)'
  <2>1. ~ OpenQueued(e)'
    BY <1>10 DEF OpenQueued
  <2>2. \A g \in Handler : /\ Busy(g, e)' <=> Busy(g, e)
                           /\ ServesOpen(g, e)' <=> ServesOpen(g, e)
    BY <1>1, <1>6, <1>8 DEF Busy, ServesOpen, Thread
  <2>3. Fresh(e) => Fresh(e)'
    BY <1>0, <1>6, <1>8, <1>11 DEF Fresh, Thread
  <2> QED BY <1>5, <1>10, <2>1, <2>2, <2>3 DEF Opening
<1> QED BY <1>14, <1>15, <1>16, <1>18, <1>19, <1>20, <1>21, <1>22, <1>23, <1>24, <1>25, <1>26, <1>27, Assembled

-----------------------------------------------------------------------------
LEMMA InitHolds == Init => ChanInv
<1> SUFFICES ASSUME Init PROVE ChanInv
  OBVIOUS
<1>1. /\ node = [c \in Chan |-> "unused"] /\ refs = [c \in Chan |-> 0]
      /\ clientFile = [c \in Chan |-> FALSE] /\ driverFile = [c \in Chan |-> FALSE]
      /\ closed = [c \in Chan |-> FALSE] /\ handler = [c \in Chan |-> Creator]
      /\ devAlive = TRUE /\ lastClient = None
  BY DEF Init
<1>2. /\ sendList = [c \in Chan |-> << >>] /\ recvList = [c \in Chan |-> << >>]
      /\ deferred = [c \in Chan |-> {}]
      /\ children = << >> /\ msgCount = 0 /\ nextRid = 1 % RidMod /\ sent = 0
  BY DEF Init
<1>3. /\ treeLock = None
      /\ pc = [t \in Thread |-> IF t \in Client THEN "user" ELSE "loop"]
      /\ chan = [t \in Thread |-> None] /\ req = [t \in Thread |-> Idle0]
      /\ asleep = [t \in Thread |-> None] /\ sig = [t \in Client |-> FALSE]
  BY DEF Init
<1>4. TypeOK
  <2>1. NodeTypes
    BY <1>1, SmallCounts, ChannelAssumption DEF NodeTypes
  <2>2. ListTypes
    <3>1. 1 % RidMod \in 0 .. RidMod - 1 /\ 0 \in 0 .. MaxSent
      BY ChannelAssumption
    <3>2. << >> \in Seq(Chan) /\ << >> \in Seq(Messages) /\ << >> \in Seq(Replies)
          /\ Distinct(<< >>)
      BY DEF Distinct
    <3> QED BY <1>2, <3>1, <3>2 DEF ListTypes
  <2>3. ThreadTypes
    <3>1. "user" \in Points /\ "loop" \in Points
      BY DEF Points, Outside
    <3> QED BY <1>3, <3>1, IdleType DEF ThreadTypes
  <2> QED BY <2>1, <2>2, <2>3 DEF TypeOK
<1>5. \A t \in Thread : /\ pc[t] \in {"user", "loop"} /\ chan[t] = None
                        /\ req[t] = Idle0 /\ asleep[t] = None
  BY <1>3
<1>6. \A t \in Client : pc[t] = "user" /\ t \in Thread
  BY <1>3 DEF Thread
<1>7. \A h \in Handler : pc[h] = "loop" /\ h \in Thread
  BY <1>3, ChannelAssumption DEF Thread
<1>8. Solo /\ Dropping
  BY <1>3, <1>5 DEF Solo, Dropping, Outside
<1>9. Kids
  BY <1>1, <1>2 DEF Kids, InList
<1>10. Counted
  <2>1. Queued = {}
    BY <1>2 DEF Queued
  <2> QED BY <1>2, <2>1, FS_EmptySet DEF Counted
<1>11. \A t \in Client : ClientAt(t)
  BY <1>5, <1>6 DEF ClientAt
<1>12. \A h \in Handler : HandlerAt(h)
  BY <1>5, <1>7 DEF HandlerAt
<1>13. ASSUME NEW c \in Chan PROVE Held(c) /\ Blank(c) /\ Opening(c)
  <2>1. \A t \in Thread : chan[t] # c
    BY <1>5, ChannelAssumption
  <2>2. Openers(c) = {}
    BY <1>6, <2>1 DEF Openers
  <2>3. Held(c)
    BY <1>1, <1>6, <2>1, <2>2 DEF Held
  <2>4. Blank(c)
    BY <1>2, <2>1 DEF Blank
  <2>5. Opening(c)
    <3>1. ~ OpenQueued(c)
      BY <1>2 DEF OpenQueued
    <3>2. \A h \in Handler : ~ ServesOpen(h, c)
      BY <1>7, <2>1 DEF ServesOpen
    <3> QED BY <3>1, <3>2 DEF Opening
  <2> QED BY <2>3, <2>4, <2>5
<1>14. LastClientValid /\ SleepsWithoutWork
  BY <1>1, <1>7 DEF LastClientValid, SleepsWithoutWork
<1> QED BY <1>4, <1>8, <1>9, <1>10, <1>11, <1>12, <1>13, <1>14 DEF ChanInv

(* Nobody is at the points of a driver that dies.                          *)
LEMMA Lives ==
  ASSUME ChanInv, NEW h \in Handler
  PROVE  pc[h] \notin {"destroy", "closeall"}
BY DEF ChanInv, HandlerAt

LEMMA StutterKeeps ==
  ASSUME ChanInv, UNCHANGED vars
  PROVE  ChanInv'
<1>1. /\ node' = node /\ refs' = refs
      /\ clientFile' = clientFile /\ driverFile' = driverFile
      /\ closed' = closed /\ handler' = handler /\ devAlive' = devAlive
      /\ lastClient' = lastClient
  BY DEF vars, nodeVars, chanVars, devVars
<1>2. /\ sendList' = sendList /\ recvList' = recvList /\ deferred' = deferred
      /\ children' = children /\ msgCount' = msgCount
      /\ nextRid' = nextRid /\ sent' = sent
  BY DEF vars, listVars, devVars
<1>3. /\ pc' = pc /\ chan' = chan /\ req' = req /\ treeLock' = treeLock
      /\ asleep' = asleep /\ sig' = sig
  BY DEF vars, threadVars
<1>4. TypeOK'
  <2>0. TypeOK
    BY DEF ChanInv
  <2>1. NodeTypes'
    BY <1>1, <2>0 DEF TypeOK, NodeTypes
  <2>2. ListTypes'
    BY <1>2, <2>0 DEF TypeOK, ListTypes
  <2>3. ThreadTypes'
    BY <1>3, <2>0 DEF TypeOK, ThreadTypes
  <2> QED BY <2>1, <2>2, <2>3 DEF TypeOK
<1>5. Solo' /\ Dropping' /\ Kids' /\ Counted' /\ LastClientValid'
  BY <1>1, <1>2, <1>3 DEF ChanInv, Solo, Dropping, Kids, Counted, Queued, LastClientValid
<1>6. SleepsWithoutWork'
  BY <1>1, <1>2, <1>3, SleepStays
<1>7. /\ \A u \in Client : ClientAt(u)'
      /\ \A h \in Handler : HandlerAt(h)'
  BY <1>3 DEF ChanInv, ClientAt, HandlerAt
<1>8. ASSUME NEW c \in Chan PROVE Held(c)' /\ Blank(c)' /\ Opening(c)'
  <2>1. Held(c) /\ Blank(c) /\ Opening(c)
    BY DEF ChanInv
  <2>2. Held(c)'
    BY <1>1, <1>3, <2>1 DEF Held, Openers
  <2>3. Blank(c)'
    BY <1>1, <1>2, <1>3, <2>1 DEF Blank
  <2>4. Opening(c)'
    BY <1>1, <1>2, <1>3, <2>1 DEF Opening, OpenQueued, ServesOpen, Busy, Fresh
  <2> QED BY <2>2, <2>3, <2>4
<1> QED BY <1>4, <1>5, <1>6, <1>7, <1>8 DEF ChanInv

LEMMA ClientStepKeeps ==
  ASSUME NCPU = 1, ChanInv, NEW t \in Client, ClientStep(t)
  PROVE  ChanInv'
<1>0. t \in Thread
  BY DEF Thread
<1>1. CASE OpenFail(t)
  BY <1>1, OpenFailKeeps
<1>2. CASE Release(t)
  BY <1>2, ReleaseKeeps
<1>3. CASE ReceiveReply(t)
  BY <1>3, ReceiveReplyKeeps
<1>4. CASE ReceiveNothing(t)
  BY <1>4, ReceiveNothingKeeps
<1>5. CASE ReceiveWait(t)
  BY <1>5, ReceiveWaitKeeps
<1>6. CASE Awake(t)
  BY <1>6, AwakeKeeps
<1>7. CASE Cancel(t)
  BY <1>7, CancelKeeps
<1>8. CASE SendClose(t)
  BY <1>8, SendCloseKeeps
<1>9. CASE SetClosed(t)
  BY <1>9, SetClosedKeeps
<1>10. CASE Invalidate(t)
  BY <1>0, <1>10, InvalidateKeeps
<1> QED BY <1>1, <1>2, <1>3, <1>4, <1>5, <1>6, <1>7, <1>8, <1>9, <1>10 DEF ClientStep

LEMMA HandlerStepKeeps ==
  ASSUME NCPU = 1, ChanInv, NEW h \in Handler, HandlerStep(h)
  PROVE  ChanInv'
<1>0. h \in Thread /\ pc[h] \notin {"destroy", "closeall"}
  BY Lives DEF Thread
<1>1. CASE GetWork(h)
  BY <1>1, GetWorkKeeps
<1>2. CASE Fetch(h)
  <2>1. CASE driverFile[chan[h]]
    BY <1>2, <2>1, FetchMessageKeeps
  <2>2. CASE ~ driverFile[chan[h]]
    BY <1>2, <2>2, FetchNothingKeeps
  <2> QED BY <2>1, <2>2
<1>3. CASE \E g \in Handler, res \in {"ok", "err"} : ServeOpen(h, g, res)
  BY <1>3, ServeOpenKeeps
<1>4. CASE \E res \in {"ok", "err"} : ServeRead(h, res) \/ ServeData(h, res)
  BY <1>4, ServeReadKeeps, ServeDataKeeps
<1>5. CASE SendData(h)
  BY <1>5, SendDataKeeps
<1>6. CASE Defer(h)
  BY <1>6, DeferKeeps
<1>7. CASE ServeWrite(h)
  BY <1>7, ServeWriteKeeps
<1>8. CASE ServeCancel(h)
  BY <1>8, ServeCancelKeeps
<1>9. CASE DriverClose(h)
  BY <1>9, DriverCloseKeeps
<1>10. CASE Invalidate(h)
  BY <1>0, <1>10, InvalidateKeeps
<1>11. CASE DestroyChild(h) \/ DestroyDevice(h) \/ CloseAll(h) \/ AllClosed(h)
  BY <1>0, <1>11 DEF DestroyChild, DestroyDevice, CloseAll, AllClosed, At
<1> QED BY <1>1, <1>2, <1>3, <1>4, <1>5, <1>6, <1>7, <1>8, <1>9, <1>10, <1>11 DEF HandlerStep

(* Every step of a system with one processor and a driver that lives.      *)
LEMMA StepHolds ==
  ASSUME NCPU = 1, ~ MayDie, ChanInv, [Next]_vars
  PROVE  ChanInv'
<1>1. CASE UNCHANGED vars
  BY <1>1, StutterKeeps
<1>2. ASSUME NEW t \in Client,
             \/ ClientStep(t) \/ Signal(t) \/ HandleSignal(t)
             \/ \E c \in Chan :
                  \/ Open(t, c) \/ Close(t, c)
                  \/ \E o \in {"read", "write"}, nb \in BOOLEAN : Request(t, c, o, nb)
      PROVE  ChanInv'
  <2>1. CASE ClientStep(t)
    BY <2>1, ClientStepKeeps
  <2>2. CASE Signal(t)
    BY <2>2, SignalKeeps
  <2>3. CASE HandleSignal(t)
    BY <2>3, HandleSignalKeeps
  <2>4. ASSUME NEW c \in Chan, Open(t, c) PROVE ChanInv'
    BY <2>4, OpenKeeps
  <2>5. ASSUME NEW c \in Chan, Close(t, c) PROVE ChanInv'
    BY <2>5, CloseKeeps
  <2>6. ASSUME NEW c \in Chan, NEW o \in {"read", "write"}, NEW nb \in BOOLEAN,
               Request(t, c, o, nb)
        PROVE  ChanInv'
    BY <2>6, RequestKeeps
  <2> QED BY <1>2, <2>1, <2>2, <2>3, <2>4, <2>5, <2>6
<1>3. ASSUME NEW h \in Handler,
             \/ HandlerStep(h) \/ GetWorkInterrupted(h) \/ Die(h)
             \/ \E c \in Chan, r \in Rids : Complete(h, c, r)
      PROVE  ChanInv'
  <2>1. CASE HandlerStep(h)
    BY <2>1, HandlerStepKeeps
  <2>2. CASE GetWorkInterrupted(h)
    BY <2>2, GetWorkInterruptedKeeps
  <2>3. CASE Die(h)
    BY <2>3 DEF Die
  <2>4. ASSUME NEW c \in Chan, NEW r \in Rids, Complete(h, c, r) PROVE ChanInv'
    BY <2>4, CompleteKeeps
  <2> QED BY <1>3, <2>1, <2>2, <2>3, <2>4
<1> QED BY <1>1, <1>2, <1>3 DEF Next

(* On one processor and while the driver lives, the inductive invariant of *)
(* channels holds.                                                         *)
THEOREM ChannelInvariant ==
  ASSUME NCPU = 1, ~ MayDie
  PROVE  Spec => []ChanInv
<1>1. Init => ChanInv
  BY InitHolds
<1>2. ChanInv /\ [Next]_vars => ChanInv'
  BY StepHolds
<1> QED BY <1>1, <1>2, PTL DEF Spec

(* msgCount of the device is the number of the messages in all channels,   *)
(* whatever is opened, requested, cancelled and closed (VFSDevice::msgCount *)
(* is changed by send, receive and remMsgs without a common lock).         *)
THEOREM MessagesCounted ==
  ASSUME NCPU = 1, ~ MayDie
  PROVE  Spec => []MsgCountExact
<1>1. ChanInv => MsgCountExact
  BY DEF ChanInv, Counted, MsgCountExact
<1> QED BY <1>1, ChannelInvariant, PTL

(* The references of a channel are its files and the client that creates   *)
(* it: whoever drops the last one destroys it, and nobody does before.     *)
THEOREM ReferencesExact ==
  ASSUME NCPU = 1, ~ MayDie
  PROVE  Spec => []RefsExact
<1>1. ChanInv => RefsExact
  <2> SUFFICES ASSUME ChanInv PROVE RefsExact
    OBVIOUS
  <2>1. TypeOK
    BY DEF ChanInv
  <2>2. ASSUME NEW c \in Chan PROVE Cardinality(Openers(c)) = IF Openers(c) # {} THEN 1 ELSE 0
    <3>1. Held(c)
      BY DEF ChanInv
    <3>2. CASE Openers(c) = {}
      BY <3>2, FS_EmptySet
    <3>3. CASE Openers(c) # {}
      <4>1. PICK t : t \in Openers(c)
        BY <3>3
      <4>2. Openers(c) = {t}
        BY <3>1, <4>1 DEF Held
      <4> QED BY <3>3, <4>2, FS_Singleton
    <3> QED BY <3>2, <3>3
  <2>3. \A c \in Chan : Held(c)
    BY DEF ChanInv
  <2> QED BY <2>1, <2>2, <2>3 DEF Held, RefsExact
<1> QED BY <1>1, ChannelInvariant, PTL

(* lastClient of the device is never a node that has been freed.           *)
THEOREM LastClientNeverDangles ==
  ASSUME NCPU = 1, ~ MayDie
  PROVE  Spec => []LastClientValid
<1>1. ChanInv => LastClientValid
  BY DEF ChanInv
<1> QED BY <1>1, ChannelInvariant, PTL

(* A thread of the driver that sleeps in getWork() has missed no message:  *)
(* neither by the count, nor by the order of the search, nor by a wakeup,  *)
(* nor because a channel is bound to another thread.                       *)
THEOREM DriverSleepsWithoutWork ==
  ASSUME NCPU = 1, ~ MayDie
  PROVE  Spec => []SleepsWithoutWork
<1>1. ChanInv => SleepsWithoutWork
  BY DEF ChanInv
<1> QED BY <1>1, ChannelInvariant, PTL
-----------------------------------------------------------------------------
(* An inductive invariant for the mail of a channel: the messages S and    *)
(* the replies R in its lists, the requests D that are put off, the        *)
(* messages W that the driver works on and the requests T of the clients   *)
(* that wait.  Everything belongs to a request, and a request is queued,   *)
(* worked on, put off or answered, one at a time.                          *)

Base(q) == IF q.want = "cancel" THEN q.old ELSE q.mid
Mine(q) == {q.mid, Base(q)}

(* The message m is the request q or the wish to cancel it.                *)
Asks(q, m) ==
  \/ m.op = "cancel" /\ q.want = "cancel" /\ m.rid = q.mid /\ m.of = q.old
  \/ /\ m.op = q.op \/ (m.op = "data" /\ q.op = "write")
     /\ m.rid = Base(q) /\ q.want # "data"

(* The reply a answers the request q or its cancellation.                  *)
Answers(q, a) ==
  \/ a.res \in {"cancelled", "there"} /\ q.want = "cancel" /\ a.rid = q.mid
  \/ /\ a.res \in {"ok", "err", "data"} /\ a.rid = Base(q)
     /\ a.res = "data" => q.op = "read"
     /\ q.want = "data" => a.res = "data"

IsQueued(S, r) == \E i \in 1 .. Len(S) : S[i].op # "close" /\ S[i].rid = r
IsWorkedOn(W, r) == \E w \in W : w.rid = r
IsAnswered(R, r) == \E i \in 1 .. Len(R) : R[i].rid = r
IsUnanswered(S, D, W, r) == IsQueued(S, r) \/ r \in D \/ IsWorkedOn(W, r)

(* The messages: the data follows its write, and a cancel comes behind     *)
(* what it cancels.                                                        *)
MessageOK(S, W, T, i) ==
  /\ \E q \in T : Asks(q, S[i])
  /\ S[i].op = "write" =>
       i + 1 \in 1 .. Len(S) /\ S[i + 1].op = "data" /\ S[i + 1].rid = S[i].rid
  /\ S[i].op = "data" =>
       IF i = 1 THEN \E w \in W : w.at = "serve" /\ w.op = "write" /\ w.rid = S[1].rid
                ELSE S[i - 1].op = "write" /\ S[i - 1].rid = S[i].rid

InTurn(S, i, j) ==
  /\ S[i].rid = S[j].rid => S[i].op = "write" /\ S[j].op = "data"
  /\ S[i].op = "cancel" => S[j].rid # S[i].of

QueueOK(S, W, T) ==
  /\ \A i \in 1 .. Len(S) : S[i].op # "close" => MessageOK(S, W, T, i)
  /\ \A i, j \in 1 .. Len(S) :
       i < j /\ S[i].op # "close" /\ S[j].op # "close" => InTurn(S, i, j)

(* What the driver works on: a message, or the data of a read.             *)
ServeOK(S, R, T, w) ==
  /\ \E q \in T : Asks(q, w)
  /\ ~ IsAnswered(R, w.rid)
  /\ w.op = "write" => S # << >> /\ S[1].op = "data" /\ S[1].rid = w.rid
  /\ w.op = "cancel" => ~ IsQueued(S, w.of)

DataOK(R, T, w) ==
  /\ \E q \in T : /\ q.op = "read" /\ w.rid = Base(q)
                  /\ q.want = "data" \/ IsAnswered(R, w.rid)
  /\ \A i \in 1 .. Len(R) : R[i].rid = w.rid => R[i].res = "ok"

WorkOK(S, R, D, W, T) ==
  \A w \in W :
    /\ w.rid \notin D
    /\ w.at = "serve" => ServeOK(S, R, T, w)
    /\ w.at = "data" => DataOK(R, T, w)
    /\ \A i \in 1 .. Len(S) : S[i].op # "close" /\ S[i].rid = w.rid =>
         i = 1 /\ w.at = "serve" /\ w.op = "write"

DeferredOK(S, R, D, T) ==
  \A r \in D :
    /\ \E q \in T : q.op = "read" /\ q.want # "data" /\ r = Base(q)
    /\ ~ IsQueued(S, r) /\ ~ IsAnswered(R, r)

(* The replies: the data follows the answer to a read, and comes unless    *)
(* the driver still has to send it; with a cancel answered, nothing of the *)
(* request is left.                                                        *)
ReplyOK(S, R, T, i) ==
  /\ \E q \in T : Answers(q, R[i])
  /\ ~ IsQueued(S, R[i].rid)
  /\ R[i].res = "data" =>
       \/ \E q \in T : q.want = "data" /\ q.mid = R[i].rid
       \/ \E j \in 1 .. Len(R) : j < i /\ R[j].rid = R[i].rid

DataComes(R, W, r) ==
  \/ IsWorkedOn(W, r)
  \/ \E j \in 1 .. Len(R) : R[j].res = "data" /\ R[j].rid = r

NothingLeft(S, R, D, W, r, res) ==
  /\ ~ IsUnanswered(S, D, W, r)
  /\ res = "cancelled" => ~ IsAnswered(R, r)

FateOK(S, R, D, W, q, a) ==
  /\ a.res = "ok" /\ q.op = "read" /\ Base(q) = a.rid => DataComes(R, W, a.rid)
  /\ a.res \in {"cancelled", "there"} /\ q.mid = a.rid =>
       NothingLeft(S, R, D, W, q.old, a.res)

RepliesOK(S, R, D, W, T) ==
  /\ \A i \in 1 .. Len(R) : ReplyOK(S, R, T, i)
  /\ \A i, j \in 1 .. Len(R) :
       i < j /\ R[i].rid = R[j].rid => R[i].res = "ok" /\ R[j].res = "data"
  /\ \A i \in 1 .. Len(R), q \in T : FateOK(S, R, D, W, q, R[i])

(* A read on a file with VFS_NOBLOCK gets its data with the answer.        *)
NoBlockOK(S, R, D, W, T) ==
  \A q \in T : q.nb =>
    /\ q.want = "resp" /\ ~ q.forced => ~ IsAnswered(R, q.mid)
    /\ q.forced => ~ IsUnanswered(S, D, W, q.mid)
    /\ q.want = "data" => q.forced /\ IsAnswered(R, q.mid)

RequestsOK(T) ==
  \A q \in T :
    /\ 0 \notin Mine(q) /\ q.op \in {"open", "read", "write"}
    /\ q.want = "cancel" => q.mid # q.old /\ ~ q.forced
    /\ q.want = "data" => q.op = "read"
    /\ \A p \in T : p # q => Mine(p) \cap Mine(q) = {}

Mail(S, R, D, W, T) ==
  /\ QueueOK(S, W, T) /\ WorkOK(S, R, D, W, T) /\ DeferredOK(S, R, D, T)
  /\ RepliesOK(S, R, D, W, T) /\ NoBlockOK(S, R, D, W, T) /\ RequestsOK(T)

Active(t, c) == chan[t] = c /\ pc[t] \in {"recv", "asleep", "cancel"}
Asking(c) == {req[t] : t \in {u \in Client : Active(u, c)}}

Works(c) ==
  {[at |-> pc[h], rid |-> req[h].mid, op |-> req[h].op, of |-> req[h].old] :
     h \in {g \in Handler : Busy(g, c)}}

(* What the threads know of it.                                            *)
Waiting(t) ==
  /\ pc[t] = "cancel" => req[t].want = "resp" /\ ~ req[t].forced
  /\ req[t].nb /\ req[t].want = "resp" /\ ~ req[t].forced => pc[t] # "asleep"
  /\ \A u \in Client \ {t} :
       req[t].op # "none" /\ req[u].op # "none" => Mine(req[t]) \cap Mine(req[u]) = {}

Bound(h) == pc[h] \in {"fetch", "serve", "data"} => handler[chan[h]] = h

Deserted(c) ==
  (closed[c] \/ \E t \in Client : chan[t] = c /\ pc[t] \in {"close", "setclosed"})
  => ~ clientFile[c] /\ Openers(c) = {} /\ node[c] # "unused"

MailInv ==
  /\ \A t \in Client : Waiting(t)
  /\ \A h \in Handler : Bound(h)
  /\ \A c \in Chan : Deserted(c)
  /\ \A c \in Chan : Alive(c) =>
       Mail(sendList[c], recvList[c], deferred[c], Works(c), Asking(c))

(* The next id is not the one of a request that is still under way.        *)
RidFree == \A t \in Client : req[t].op # "none" => Rid \notin Mine(req[t])
-----------------------------------------------------------------------------
LEMMA MailParts ==
  ASSUME NEW S, NEW R, NEW D, NEW W, NEW T
  PROVE  Mail(S, R, D, W, T) <=>
           /\ QueueOK(S, W, T) /\ WorkOK(S, R, D, W, T) /\ DeferredOK(S, R, D, T)
           /\ RepliesOK(S, R, D, W, T) /\ NoBlockOK(S, R, D, W, T) /\ RequestsOK(T)
BY DEF Mail

LEMMA OneOwner ==
  ASSUME NEW T, RequestsOK(T), NEW q \in T, NEW p \in T, NEW r,
         r \in Mine(q), r \in Mine(p)
  PROVE  q = p
BY DEF RequestsOK

LEMMA AsksMine ==
  ASSUME NEW q, NEW m, Asks(q, m)
  PROVE  m.rid \in Mine(q)
BY DEF Asks, Mine

LEMMA AnswersMine ==
  ASSUME NEW q, NEW a, Answers(q, a)
  PROVE  a.rid \in Mine(q)
BY DEF Answers, Mine

(* The replies are as good as before if nothing of an answered request     *)
(* comes back.                                                             *)
LEMMA RepliesKept ==
  ASSUME NEW S, NEW R, NEW D, NEW W, NEW T, NEW Z, NEW E, NEW V,
         RepliesOK(S, R, D, W, T),
         \A i \in 1 .. Len(R) : ~ IsQueued(Z, R[i].rid),
         \A i \in 1 .. Len(R) : IsWorkedOn(W, R[i].rid) => IsWorkedOn(V, R[i].rid),
         \A q \in T : IsUnanswered(Z, E, V, q.old) => IsUnanswered(S, D, W, q.old)
  PROVE  RepliesOK(Z, R, E, V, T)
<1>1. \A i \in 1 .. Len(R) : ReplyOK(Z, R, T, i)
  BY DEF RepliesOK, ReplyOK
<1>2. ASSUME NEW i \in 1 .. Len(R), NEW q \in T
      PROVE  FateOK(Z, R, E, V, q, R[i])
  <2>1. FateOK(S, R, D, W, q, R[i])
    BY DEF RepliesOK
  <2>2. DataComes(R, W, R[i].rid) => DataComes(R, V, R[i].rid)
    BY DEF DataComes
  <2>3. \A res : NothingLeft(S, R, D, W, q.old, res) => NothingLeft(Z, R, E, V, q.old, res)
    BY DEF NothingLeft
  <2> QED
    BY <2>1, <2>2, <2>3 DEF FateOK
<1> QED
  BY <1>1, <1>2 DEF RepliesOK

LEMMA NoBlockKept ==
  ASSUME NEW S, NEW R, NEW D, NEW W, NEW T, NEW Z, NEW E, NEW V,
         NoBlockOK(S, R, D, W, T),
         \A q \in T : IsUnanswered(Z, E, V, q.mid) => IsUnanswered(S, D, W, q.mid)
  PROVE  NoBlockOK(Z, R, E, V, T)
BY DEF NoBlockOK

(* The first message is taken.                                             *)
LEMMA ShortQueue ==
  ASSUME NEW S \in Seq(Messages), S # << >>
  PROVE  /\ Len(S) \in Nat \ {0} /\ 1 \in 1 .. Len(S)
         /\ Len(Tail(S)) = Len(S) - 1
         /\ \A i \in 1 .. Len(Tail(S)) :
              i + 1 \in 1 .. Len(S) /\ Tail(S)[i] = S[i + 1]
OBVIOUS

LEMMA QueueShorter ==
  ASSUME NEW S \in Seq(Messages), NEW W, NEW V, NEW T, S # << >>, QueueOK(S, W, T),
         1 < Len(S) /\ S[2].op = "data" =>
           \E w \in V : w.at = "serve" /\ w.op = "write" /\ w.rid = S[2].rid
  PROVE  QueueOK(Tail(S), V, T) /\ \A r : IsQueued(Tail(S), r) => IsQueued(S, r)
<1> DEFINE Z == Tail(S)
<1>1. /\ Len(S) \in Nat \ {0} /\ 1 \in 1 .. Len(S) /\ Len(Z) = Len(S) - 1
      /\ \A i \in 1 .. Len(Z) : i + 1 \in 1 .. Len(S) /\ Z[i] = S[i + 1]
  BY ShortQueue
<1> HIDE DEF Z
<1>2. ASSUME NEW i \in 1 .. Len(Z), Z[i].op # "close"
      PROVE  MessageOK(Z, V, T, i)
  <2> PICK k : k = i + 1
    OBVIOUS
  <2>1. k \in 1 .. Len(S) /\ S[k] = Z[i] /\ k # 1
    BY <1>1
  <2>2. MessageOK(S, W, T, k)
    BY <1>2, <2>1 DEF QueueOK
  <2>3. \E q \in T : Asks(q, Z[i])
    BY <2>1, <2>2 DEF MessageOK
  <2>4. ASSUME Z[i].op = "write"
        PROVE  i + 1 \in 1 .. Len(Z) /\ Z[i + 1].op = "data" /\ Z[i + 1].rid = Z[i].rid
    <3>1. k + 1 \in 1 .. Len(S) /\ S[k + 1].op = "data" /\ S[k + 1].rid = S[k].rid
      BY <2>1, <2>2, <2>4 DEF MessageOK
    <3>2. k \in 1 .. Len(Z)
      BY <3>1, <1>1, <2>1
    <3> QED
      BY <3>1, <3>2, <1>1, <2>1
  <2>5. ASSUME Z[i].op = "data"
        PROVE  IF i = 1 THEN \E w \in V : w.at = "serve" /\ w.op = "write" /\ w.rid = Z[1].rid
                        ELSE Z[i - 1].op = "write" /\ Z[i - 1].rid = Z[i].rid
    <3>1. S[k - 1].op = "write" /\ S[k - 1].rid = S[k].rid
      BY <2>1, <2>2, <2>5 DEF MessageOK
    <3>2. CASE i = 1
      <4>1. k = 2 /\ 1 < Len(S)
        BY <3>2, <1>1
      <4> QED
        BY <4>1, <3>2, <2>1, <2>5
    <3>3. CASE i # 1
      <4> PICK l : l = i - 1
        OBVIOUS
      <4>1. l \in 1 .. Len(Z) /\ l + 1 = i /\ k - 1 = i
        BY <3>3, <1>1
      <4>2. Z[l] = S[i]
        BY <4>1, <1>1
      <4> QED
        BY <3>1, <3>3, <4>1, <4>2, <2>1
    <3> QED
      BY <3>2, <3>3
  <2> QED
    BY <2>3, <2>4, <2>5 DEF MessageOK
<1>3. ASSUME NEW i \in 1 .. Len(Z), NEW j \in 1 .. Len(Z),
             i < j, Z[i].op # "close", Z[j].op # "close"
      PROVE  InTurn(Z, i, j)
  <2> PICK k, l : k = i + 1 /\ l = j + 1
    OBVIOUS
  <2>1. k \in 1 .. Len(S) /\ S[k] = Z[i] /\ l \in 1 .. Len(S) /\ S[l] = Z[j] /\ k < l
    BY <1>1, <1>3
  <2>2. InTurn(S, k, l)
    BY <1>3, <2>1 DEF QueueOK
  <2> QED
    BY <2>1, <2>2 DEF InTurn
<1>4. \A r : IsQueued(Z, r) => IsQueued(S, r)
  BY <1>1 DEF IsQueued
<1> QED
  BY <1>2, <1>3, <1>4 DEF QueueOK, Z

LEMMA MailFetch ==
  ASSUME NEW S \in Seq(Messages), NEW R \in Seq(Replies), NEW D, NEW T, NEW w,
         S # << >>, S[1].op # "close", Mail(S, R, D, {}, T),
         w.at = "serve", w.rid = S[1].rid, w.op = S[1].op, w.of = S[1].of
  PROVE  Mail(Tail(S), R, D, {w}, T)
<1> DEFINE Z == Tail(S)
<1>1. /\ Len(S) \in Nat \ {0} /\ 1 \in 1 .. Len(S) /\ Len(Z) = Len(S) - 1
      /\ \A i \in 1 .. Len(Z) : i + 1 \in 1 .. Len(S) /\ Z[i] = S[i + 1]
  BY ShortQueue
<1>3. /\ QueueOK(S, {}, T) /\ WorkOK(S, R, D, {}, T) /\ DeferredOK(S, R, D, T)
      /\ RepliesOK(S, R, D, {}, T) /\ NoBlockOK(S, R, D, {}, T) /\ RequestsOK(T)
  BY MailParts
<1>4. IsQueued(S, S[1].rid)
  BY <1>1 DEF IsQueued
<1>5. MessageOK(S, {}, T, 1)
  BY <1>1, <1>3 DEF QueueOK
<1>6. ASSUME 1 < Len(S), S[2].op = "data"
      PROVE  w.op = "write" /\ w.rid = S[2].rid
  <2>1. 2 \in 1 .. Len(S)
    BY <1>6, <1>1
  <2>2. MessageOK(S, {}, T, 2)
    BY <2>1, <1>6, <1>3 DEF QueueOK
  <2>3. S[2 - 1].op = "write" /\ S[2 - 1].rid = S[2].rid
    BY <2>2, <1>6 DEF MessageOK
  <2> QED
    BY <2>3
<1>7. QueueOK(Z, {w}, T) /\ \A r : IsQueued(Z, r) => IsQueued(S, r)
  BY <1>3, <1>6, QueueShorter
<1> HIDE DEF Z
<1>8. \A r : IsUnanswered(Z, D, {w}, r) => IsUnanswered(S, D, {}, r)
  BY <1>4, <1>7 DEF IsUnanswered, IsWorkedOn
<1>9. ServeOK(Z, R, T, w)
  <2>1. \E q \in T : Asks(q, w)
    <3> PICK q \in T : Asks(q, S[1])
      BY <1>5 DEF MessageOK
    <3> QED
      BY DEF Asks
  <2>2. ~ IsAnswered(R, w.rid)
    BY <1>3, <1>4 DEF RepliesOK, ReplyOK, IsAnswered
  <2>3. ASSUME w.op = "write" PROVE Z # << >> /\ Z[1].op = "data" /\ Z[1].rid = w.rid
    <3>1. 1 + 1 \in 1 .. Len(S) /\ S[1 + 1].op = "data" /\ S[1 + 1].rid = S[1].rid
      BY <2>3, <1>5 DEF MessageOK
    <3>2. 1 \in 1 .. Len(Z)
      BY <3>1, <1>1
    <3>3. Z # << >>
      BY <3>2
    <3> QED
      BY <3>1, <3>2, <3>3, <1>1
  <2>4. ASSUME w.op = "cancel", NEW i \in 1 .. Len(Z), Z[i].op # "close", Z[i].rid = w.of
        PROVE  FALSE
    <3> PICK k : k = i + 1
      OBVIOUS
    <3>1. k \in 1 .. Len(S) /\ S[k] = Z[i] /\ 1 < k
      BY <1>1
    <3>2. InTurn(S, 1, k)
      BY <3>1, <1>1, <2>4, <1>3 DEF QueueOK
    <3> QED
      BY <3>1, <3>2, <2>4 DEF InTurn
  <2> QED
    BY <2>1, <2>2, <2>3, <2>4 DEF ServeOK, IsQueued
<1>10. ASSUME NEW i \in 1 .. Len(Z), Z[i].op # "close", Z[i].rid = w.rid
       PROVE  i = 1 /\ w.op = "write"
  <2> PICK k : k = i + 1
    OBVIOUS
  <2>1. k \in 1 .. Len(S) /\ S[k] = Z[i] /\ 1 < k /\ k - 1 = i /\ i \in 1 .. Len(S) /\ k # 1
    BY <1>1
  <2>2. InTurn(S, 1, k)
    BY <2>1, <1>1, <1>10, <1>3 DEF QueueOK
  <2>3. S[1].op = "write" /\ S[k].op = "data"
    BY <2>1, <2>2, <1>10 DEF InTurn
  <2>4. MessageOK(S, {}, T, k)
    BY <2>1, <1>10, <1>3 DEF QueueOK
  <2>5. S[i].op = "write" /\ S[i].rid = S[k].rid
    BY <2>1, <2>3, <2>4 DEF MessageOK
  <2>6. ASSUME 1 < i PROVE FALSE
    <3>1. InTurn(S, 1, i)
      BY <2>1, <2>5, <2>6, <1>1, <1>3 DEF QueueOK
    <3> QED
      BY <3>1, <2>1, <2>5, <1>10 DEF InTurn
  <2> QED
    BY <2>3, <2>6
<1>11. w.rid \notin D
  BY <1>3, <1>4 DEF DeferredOK
<1>12. WorkOK(Z, R, D, {w}, T)
  BY <1>9, <1>10, <1>11 DEF WorkOK
<1>13. DeferredOK(Z, R, D, T)
  BY <1>3, <1>7 DEF DeferredOK
<1>14. RepliesOK(Z, R, D, {w}, T)
  <2>1. \A i \in 1 .. Len(R) : ~ IsQueued(Z, R[i].rid)
    BY <1>3, <1>7 DEF RepliesOK, ReplyOK
  <2>2. \A i \in 1 .. Len(R) : ~ IsWorkedOn({}, R[i].rid)
    BY DEF IsWorkedOn
  <2> QED
    BY <1>3, <1>8, <2>1, <2>2, RepliesKept
<1>15. NoBlockOK(Z, R, D, {w}, T)
  BY <1>3, <1>8, NoBlockKept
<1> QED
  BY <1>3, <1>7, <1>12, <1>13, <1>14, <1>15, MailParts DEF Z

LEMMA MailTakeData ==
  ASSUME NEW S \in Seq(Messages), NEW R \in Seq(Replies), NEW D, NEW T, NEW w, NEW v,
         w.at = "serve", w.op = "write", v.at = "serve", v.op = "data", v.rid = w.rid,
         Mail(S, R, D, {w}, T)
  PROVE  S # << >> /\ Mail(Tail(S), R, D, {v}, T)
<1> DEFINE Z == Tail(S)
<1>1. /\ QueueOK(S, {w}, T) /\ WorkOK(S, R, D, {w}, T) /\ DeferredOK(S, R, D, T)
      /\ RepliesOK(S, R, D, {w}, T) /\ NoBlockOK(S, R, D, {w}, T) /\ RequestsOK(T)
  BY MailParts
<1>2. w.rid \notin D /\ ServeOK(S, R, T, w)
  BY <1>1 DEF WorkOK
<1>3. S # << >> /\ S[1].op = "data" /\ S[1].rid = w.rid
  BY <1>2 DEF ServeOK
<1>4. /\ Len(S) \in Nat \ {0} /\ 1 \in 1 .. Len(S) /\ Len(Z) = Len(S) - 1
      /\ \A i \in 1 .. Len(Z) : i + 1 \in 1 .. Len(S) /\ Z[i] = S[i + 1]
  BY <1>3, ShortQueue
<1>5. ASSUME 1 < Len(S), S[2].op = "data" PROVE FALSE
  <2>1. 2 \in 1 .. Len(S)
    BY <1>5, <1>4
  <2>2. MessageOK(S, {w}, T, 2)
    BY <2>1, <1>5, <1>1 DEF QueueOK
  <2>3. S[2 - 1].op = "write"
    BY <2>2, <1>5 DEF MessageOK
  <2> QED
    BY <2>3, <1>3
<1>6. QueueOK(Z, {v}, T) /\ \A r : IsQueued(Z, r) => IsQueued(S, r)
  BY <1>1, <1>3, <1>5, QueueShorter
<1> HIDE DEF Z
<1>7. \A r : IsWorkedOn({v}, r) <=> IsWorkedOn({w}, r)
  BY DEF IsWorkedOn
<1>8. \A r : IsUnanswered(Z, D, {v}, r) => IsUnanswered(S, D, {w}, r)
  BY <1>6, <1>7 DEF IsUnanswered
<1>9. ServeOK(Z, R, T, v)
  <2>1. \E q \in T : Asks(q, v)
    <3> PICK q \in T : Asks(q, w)
      BY <1>2 DEF ServeOK
    <3> QED
      BY DEF Asks
  <2> QED
    BY <2>1, <1>2 DEF ServeOK
<1>10. ASSUME NEW i \in 1 .. Len(Z), Z[i].op # "close", Z[i].rid = w.rid PROVE FALSE
  <2> PICK k : k = i + 1
    OBVIOUS
  <2>1. k \in 1 .. Len(S) /\ S[k] = Z[i] /\ k # 1
    BY <1>4
  <2> QED
    BY <2>1, <1>10, <1>1 DEF WorkOK
<1>11. WorkOK(Z, R, D, {v}, T)
  BY <1>2, <1>9, <1>10 DEF WorkOK
<1>12. DeferredOK(Z, R, D, T)
  BY <1>1, <1>6 DEF DeferredOK
<1>13. RepliesOK(Z, R, D, {v}, T)
  <2>1. \A i \in 1 .. Len(R) : ~ IsQueued(Z, R[i].rid)
    BY <1>1, <1>6 DEF RepliesOK, ReplyOK
  <2> QED
    BY <1>1, <1>7, <1>8, <2>1, RepliesKept
<1>14. NoBlockOK(Z, R, D, {v}, T)
  BY <1>1, <1>8, NoBlockKept
<1> QED
  BY <1>1, <1>3, <1>6, <1>11, <1>12, <1>13, <1>14, MailParts DEF Z

LEMMA MailDefer ==
  ASSUME NEW S, NEW R, NEW D, NEW T, NEW w,
         w.at = "serve", w.op = "read", Mail(S, R, D, {w}, T)
  PROVE  Mail(S, R, D \cup {w.rid}, {}, T)
<1> DEFINE E == D \cup {w.rid}
<1>1. /\ QueueOK(S, {w}, T) /\ WorkOK(S, R, D, {w}, T) /\ DeferredOK(S, R, D, T)
      /\ RepliesOK(S, R, D, {w}, T) /\ NoBlockOK(S, R, D, {w}, T) /\ RequestsOK(T)
  BY MailParts
<1>2. w.rid \notin D /\ ServeOK(S, R, T, w)
  BY <1>1 DEF WorkOK
<1>3. \A r : IsUnanswered(S, E, {}, r) => IsUnanswered(S, D, {w}, r)
  BY DEF IsUnanswered, IsWorkedOn
<1>4. QueueOK(S, {}, T)
  <2>1. \A i : MessageOK(S, {w}, T, i) => MessageOK(S, {}, T, i)
    BY DEF MessageOK
  <2> QED
    BY <1>1, <2>1 DEF QueueOK
<1>5. WorkOK(S, R, E, {}, T)
  BY DEF WorkOK
<1>6. ~ IsQueued(S, w.rid)
  BY <1>1 DEF WorkOK, IsQueued
<1>7. \E q \in T : q.op = "read" /\ q.want # "data" /\ w.rid = Base(q)
  BY <1>2 DEF ServeOK, Asks
<1>8. DeferredOK(S, R, E, T)
  BY <1>1, <1>2, <1>6, <1>7 DEF DeferredOK, ServeOK
<1>9. RepliesOK(S, R, E, {}, T)
  <2>1. \A i \in 1 .. Len(R) : ~ IsQueued(S, R[i].rid)
    BY <1>1 DEF RepliesOK, ReplyOK
  <2>2. \A i \in 1 .. Len(R) : IsWorkedOn({w}, R[i].rid) => IsWorkedOn({}, R[i].rid)
    BY <1>2 DEF ServeOK, IsAnswered, IsWorkedOn
  <2> HIDE DEF E
  <2> QED
    BY <1>1, <1>3, <2>1, <2>2, RepliesKept
<1>10. NoBlockOK(S, R, E, {}, T)
  <2> HIDE DEF E
  <2> QED
    BY <1>1, <1>3, NoBlockKept
<1> QED
  BY <1>1, <1>4, <1>5, <1>8, <1>9, <1>10, MailParts DEF E

LEMMA LongReplies ==
  ASSUME NEW R \in Seq(Replies), NEW a \in Replies
  PROVE  /\ Len(R) \in Nat /\ Len(Append(R, a)) = Len(R) + 1
         /\ \A i \in 1 .. Len(R) : Append(R, a)[i] = R[i] /\ i \in 1 .. Len(R) + 1
         /\ Append(R, a)[Len(R) + 1] = a
         /\ \A r : IsAnswered(Append(R, a), r) <=> IsAnswered(R, r) \/ r = a.rid
<1>1. /\ Len(R) \in Nat /\ Len(Append(R, a)) = Len(R) + 1
      /\ \A i \in 1 .. Len(R) : Append(R, a)[i] = R[i] /\ i \in 1 .. Len(R) + 1
      /\ Append(R, a)[Len(R) + 1] = a
  OBVIOUS
<1>2. ASSUME NEW r PROVE IsAnswered(Append(R, a), r) <=> IsAnswered(R, r) \/ r = a.rid
  <2>1. Len(R) + 1 \in 1 .. Len(R) + 1
    BY <1>1
  <2>2. \A i \in 1 .. Len(R) + 1 : i \in 1 .. Len(R) \/ i = Len(R) + 1
    BY <1>1
  <2>3. IsAnswered(R, r) => IsAnswered(Append(R, a), r)
    BY <1>1 DEF IsAnswered
  <2>4. r = a.rid => IsAnswered(Append(R, a), r)
    BY <1>1, <2>1 DEF IsAnswered
  <2>5. IsAnswered(Append(R, a), r) => IsAnswered(R, r) \/ r = a.rid
    BY <1>1, <2>2 DEF IsAnswered
  <2> QED
    BY <2>3, <2>4, <2>5
<1> QED
  BY <1>1, <1>2

LEMMA RepliesLonger ==
  ASSUME NEW S, NEW R \in Seq(Replies), NEW D, NEW W, NEW T, NEW E, NEW V,
         NEW a \in Replies, RepliesOK(S, R, D, W, T),
         \E q \in T : Answers(q, a),
         ~ IsQueued(S, a.rid),
         IsUnanswered(S, D, W, a.rid),
         a.res = "data" =>
           (\E q \in T : q.want = "data" /\ q.mid = a.rid) \/ IsAnswered(R, a.rid),
         \A i \in 1 .. Len(R) : R[i].rid = a.rid => R[i].res = "ok" /\ a.res = "data",
         \A q \in T : FateOK(S, Append(R, a), E, V, q, a),
         \A i \in 1 .. Len(R) : IsWorkedOn(W, R[i].rid) => DataComes(Append(R, a), V, R[i].rid),
         \A q \in T : IsUnanswered(S, E, V, q.old) => IsUnanswered(S, D, W, q.old)
  PROVE  RepliesOK(S, Append(R, a), E, V, T)
<1> DEFINE Q == Append(R, a)
<1>1. /\ Len(R) \in Nat /\ Len(Q) = Len(R) + 1
      /\ \A i \in 1 .. Len(R) : Q[i] = R[i] /\ i \in 1 .. Len(R) + 1
      /\ Q[Len(R) + 1] = a
      /\ \A r : IsAnswered(Q, r) <=> IsAnswered(R, r) \/ r = a.rid
  BY LongReplies
<1> PICK n : n = Len(R) + 1
  OBVIOUS
<1>2. n \in 1 .. Len(Q) /\ Q[n] = a
  BY <1>1
<1>3. \A i \in 1 .. Len(Q) : i \in 1 .. Len(R) \/ i = n
  BY <1>1
<1>4. \A i \in 1 .. Len(R) : Q[i] = R[i] /\ i \in 1 .. Len(Q) /\ i < n
  BY <1>1
<1> HIDE DEF Q
<1>5. ASSUME NEW i \in 1 .. Len(R) PROVE ReplyOK(S, Q, T, i)
  <2>1. ReplyOK(S, R, T, i)
    BY DEF RepliesOK
  <2> QED
    BY <2>1, <1>4 DEF ReplyOK
<1>6. ReplyOK(S, Q, T, n)
  <2>1. IsAnswered(R, a.rid) => \E j \in 1 .. Len(Q) : j < n /\ Q[j].rid = Q[n].rid
    BY <1>2, <1>4 DEF IsAnswered
  <2> QED
    BY <2>1, <1>2 DEF ReplyOK
<1>7. ASSUME NEW i \in 1 .. Len(Q), NEW j \in 1 .. Len(Q), i < j, Q[i].rid = Q[j].rid
      PROVE  Q[i].res = "ok" /\ Q[j].res = "data"
  <2>1. i \in 1 .. Len(R)
    BY <1>1, <1>7
  <2>2. CASE j \in 1 .. Len(R)
    BY <2>1, <2>2, <1>4, <1>7 DEF RepliesOK
  <2>3. CASE j = n
    BY <2>1, <2>3, <1>2, <1>4, <1>7
  <2> QED
    BY <2>2, <2>3, <1>3
<1>8. ASSUME NEW i \in 1 .. Len(R), NEW q \in T PROVE FateOK(S, Q, E, V, q, R[i])
  <2>1. FateOK(S, R, D, W, q, R[i])
    BY DEF RepliesOK
  <2>2. DataComes(R, W, R[i].rid) => DataComes(Q, V, R[i].rid)
    <3>1. ASSUME NEW j \in 1 .. Len(R), R[j].res = "data", R[j].rid = R[i].rid
          PROVE  DataComes(Q, V, R[i].rid)
      BY <3>1, <1>4 DEF DataComes
    <3>2. IsWorkedOn(W, R[i].rid) => DataComes(Q, V, R[i].rid)
      BY DEF Q
    <3> QED
      BY <3>1, <3>2 DEF DataComes
  <2>3. ASSUME NEW res, NothingLeft(S, R, D, W, q.old, res) PROVE NothingLeft(S, Q, E, V, q.old, res)
    <3>1. a.rid # q.old
      BY <2>3 DEF NothingLeft
    <3> QED
      BY <2>3, <3>1, <1>1 DEF NothingLeft, Q
  <2> QED
    BY <2>1, <2>2, <2>3 DEF FateOK
<1>9. \A i \in 1 .. Len(Q), q \in T : FateOK(S, Q, E, V, q, Q[i])
  <2>1. \A q \in T : FateOK(S, Q, E, V, q, a)
    BY DEF Q
  <2> QED
    BY <2>1, <1>2, <1>3, <1>4, <1>8
<1>10. \A i \in 1 .. Len(Q) : ReplyOK(S, Q, T, i)
  BY <1>3, <1>5, <1>6
<1>11. RepliesOK(S, Q, E, V, T)
  BY <1>7, <1>9, <1>10 DEF RepliesOK
<1> QED
  BY <1>11 DEF Q

(* No client tries a request without blocking at the moment.               *)
Calm(T) == \A q \in T : ~ (q.nb /\ q.want = "resp" /\ ~ q.forced)

LEMMA NoBlockLonger ==
  ASSUME NEW S, NEW R \in Seq(Replies), NEW D, NEW W, NEW T, NEW E, NEW V,
         NEW a \in Replies, NoBlockOK(S, R, D, W, T), Calm(T),
         \A q \in T : IsUnanswered(S, E, V, q.mid) => IsUnanswered(S, D, W, q.mid)
  PROVE  NoBlockOK(S, Append(R, a), E, V, T)
<1>1. \A r : IsAnswered(Append(R, a), r) <=> IsAnswered(R, r) \/ r = a.rid
  BY LongReplies
<1> QED
  BY <1>1 DEF NoBlockOK, Calm

(* The driver answers for good.                                            *)
LEMMA MailReply ==
  ASSUME NEW S \in Seq(Messages), NEW R \in Seq(Replies), NEW D, NEW T, NEW w, NEW a \in Replies,
         w.at = "serve", w.op \in {"open", "read", "data"}, Mail(S, R, D, {w}, T), Calm(T),
         a.rid = w.rid, a.res \in {"ok", "err"}, w.op = "read" => a.res = "err"
  PROVE  Mail(S, Append(R, a), D, {}, T)
<1> DEFINE Q == Append(R, a)
<1>1. /\ QueueOK(S, {w}, T) /\ WorkOK(S, R, D, {w}, T) /\ DeferredOK(S, R, D, T)
      /\ RepliesOK(S, R, D, {w}, T) /\ NoBlockOK(S, R, D, {w}, T) /\ RequestsOK(T)
  BY MailParts
<1>2. w.rid \notin D /\ ServeOK(S, R, T, w)
  BY <1>1 DEF WorkOK
<1>3. \A r : IsAnswered(Q, r) <=> IsAnswered(R, r) \/ r = w.rid
  BY LongReplies
<1>4. \A r : IsUnanswered(S, D, {}, r) => IsUnanswered(S, D, {w}, r)
  BY DEF IsUnanswered, IsWorkedOn
<1>5. ~ IsQueued(S, w.rid)
  BY <1>1 DEF WorkOK, IsQueued
<1>6. ~ IsAnswered(R, w.rid)
  BY <1>2 DEF ServeOK
<1>7. QueueOK(S, {}, T)
  <2>1. \A i : MessageOK(S, {w}, T, i) => MessageOK(S, {}, T, i)
    BY DEF MessageOK
  <2> QED
    BY <1>1, <2>1 DEF QueueOK
<1>8. WorkOK(S, Q, D, {}, T)
  BY DEF WorkOK
<1>9. DeferredOK(S, Q, D, T)
  <2> HIDE DEF Q
  <2> QED
    BY <1>1, <1>2, <1>3 DEF DeferredOK
<1>10. RepliesOK(S, Q, D, {}, T)
  <2> PICK q \in T : Asks(q, w)
    BY <1>2 DEF ServeOK
  <2>1. w.rid = Base(q) /\ q.want # "data" /\ (w.op = q.op \/ (w.op = "data" /\ q.op = "write"))
    BY DEF Asks
  <2>2. Answers(q, a)
    BY <2>1 DEF Answers
  <2>3. IsUnanswered(S, D, {w}, a.rid)
    BY DEF IsUnanswered, IsWorkedOn
  <2>4. \A i \in 1 .. Len(R) : R[i].rid # a.rid
    BY <1>6 DEF IsAnswered
  <2>5. ASSUME NEW p \in T PROVE FateOK(S, Q, D, {}, p, a)
    <3> SUFFICES ASSUME a.res = "ok", p.op = "read", Base(p) = a.rid PROVE FALSE
      BY DEF FateOK
    <3>1. p = q
      BY <2>1, <1>1, OneOwner DEF Mine
    <3> QED
      BY <3>1, <2>1
  <2>6. \A i \in 1 .. Len(R) : IsWorkedOn({w}, R[i].rid) => DataComes(Q, {}, R[i].rid)
    BY <2>4 DEF IsWorkedOn
  <2> QED
    BY <1>1, <1>4, <1>5, <2>2, <2>3, <2>4, <2>5, <2>6, RepliesLonger
<1>11. NoBlockOK(S, Q, D, {}, T)
  BY <1>1, <1>4, NoBlockLonger
<1> QED
  BY <1>1, <1>7, <1>8, <1>9, <1>10, <1>11, MailParts

(* It answers a read, the data is to follow: at once or after the read has *)
(* been put off.                                                           *)
LEMMA MailReadOk ==
  ASSUME NEW S \in Seq(Messages), NEW R \in Seq(Replies), NEW D, NEW E, NEW T, NEW W,
         NEW v, NEW a \in Replies, Mail(S, R, D, W, T), Calm(T),
         \/ W = {} /\ a.rid \in D
         \/ \E w : W = {w} /\ w.at = "serve" /\ w.op = "read" /\ w.rid = a.rid,
         E = D \ {a.rid}, v.at = "data", v.rid = a.rid, a.res = "ok"
  PROVE  Mail(S, Append(R, a), E, {v}, T)
<1> DEFINE Q == Append(R, a)
<1>1. /\ QueueOK(S, W, T) /\ WorkOK(S, R, D, W, T) /\ DeferredOK(S, R, D, T)
      /\ RepliesOK(S, R, D, W, T) /\ NoBlockOK(S, R, D, W, T) /\ RequestsOK(T)
  BY MailParts
<1>2. /\ ~ IsQueued(S, a.rid) /\ ~ IsAnswered(R, a.rid)
      /\ \E q \in T : q.op = "read" /\ q.want # "data" /\ a.rid = Base(q)
      /\ \A r : IsWorkedOn(W, r) => r = a.rid
      /\ IsUnanswered(S, D, W, a.rid)
      /\ ~ \E w \in W : w.op = "write"
  <2>1. CASE W = {} /\ a.rid \in D
    BY <2>1, <1>1 DEF DeferredOK, IsWorkedOn, IsUnanswered
  <2>2. ASSUME NEW w, W = {w}, w.at = "serve", w.op = "read", w.rid = a.rid
        PROVE  <1>2!:
    <3>1. ServeOK(S, R, T, w)
      BY <2>2, <1>1 DEF WorkOK
    <3>2. ~ IsQueued(S, a.rid)
      BY <2>2, <1>1 DEF WorkOK, IsQueued
    <3>3. \E q \in T : q.op = "read" /\ q.want # "data" /\ a.rid = Base(q)
      BY <3>1, <2>2 DEF ServeOK, Asks
    <3>4. ~ IsAnswered(R, a.rid)
      BY <3>1, <2>2 DEF ServeOK
    <3>5. /\ \A r : IsWorkedOn(W, r) => r = a.rid
          /\ IsUnanswered(S, D, W, a.rid)
          /\ ~ \E x \in W : x.op = "write"
      BY <2>2 DEF IsWorkedOn, IsUnanswered
    <3> QED
      BY <3>2, <3>3, <3>4, <3>5
  <2> QED
    BY <2>1, <2>2
<1>3. /\ Len(R) \in Nat /\ Len(Q) = Len(R) + 1
      /\ \A i \in 1 .. Len(R) : Q[i] = R[i] /\ i \in 1 .. Len(R) + 1
      /\ Q[Len(R) + 1] = a
      /\ \A r : IsAnswered(Q, r) <=> IsAnswered(R, r) \/ r = a.rid
  BY LongReplies
<1> HIDE DEF Q
<1>4. \A r : IsUnanswered(S, E, {v}, r) => IsUnanswered(S, D, W, r)
  BY <1>2 DEF IsUnanswered, IsWorkedOn
<1>5. QueueOK(S, {v}, T)
  <2>1. \A i : MessageOK(S, W, T, i) => MessageOK(S, {v}, T, i)
    BY <1>2 DEF MessageOK
  <2> QED
    BY <1>1, <2>1 DEF QueueOK
<1>6. WorkOK(S, Q, E, {v}, T)
  <2>1. \A i \in 1 .. Len(Q) : Q[i].rid = a.rid => Q[i].res = "ok"
    <3>1. \A i \in 1 .. Len(Q) : i \in 1 .. Len(R) \/ i = Len(R) + 1
      BY <1>3
    <3>2. \A i \in 1 .. Len(R) : Q[i].rid # a.rid
      BY <1>2, <1>3 DEF IsAnswered
    <3> QED
      BY <3>1, <3>2, <1>3
  <2>2. DataOK(Q, T, v)
    BY <2>1, <1>2, <1>3 DEF DataOK
  <2> QED
    BY <2>2, <1>2 DEF WorkOK, IsQueued
<1>7. DeferredOK(S, Q, E, T)
  BY <1>1, <1>3 DEF DeferredOK
<1>8. RepliesOK(S, Q, E, {v}, T)
  <2> PICK q \in T : q.op = "read" /\ q.want # "data" /\ a.rid = Base(q)
    BY <1>2
  <2>1. Answers(q, a)
    BY DEF Answers
  <2>2. \A i \in 1 .. Len(R) : R[i].rid # a.rid
    BY <1>2 DEF IsAnswered
  <2>3. \A p \in T : FateOK(S, Append(R, a), E, {v}, p, a)
    BY DEF FateOK, DataComes, IsWorkedOn
  <2>4. \A i \in 1 .. Len(R) : IsWorkedOn(W, R[i].rid) => DataComes(Append(R, a), {v}, R[i].rid)
    BY <2>2, <1>2
  <2> QED
    BY <1>1, <1>2, <1>4, <2>1, <2>2, <2>3, <2>4, RepliesLonger DEF Q
<1>9. NoBlockOK(S, Q, E, {v}, T)
  BY <1>1, <1>4, NoBlockLonger DEF Q
<1> QED
  BY <1>1, <1>5, <1>6, <1>7, <1>8, <1>9, MailParts DEF Q

LEMMA MailSendData ==
  ASSUME NEW S \in Seq(Messages), NEW R \in Seq(Replies), NEW D, NEW T, NEW w, NEW a \in Replies,
         w.at = "data", Mail(S, R, D, {w}, T), Calm(T),
         a.rid = w.rid, a.res = "data"
  PROVE  Mail(S, Append(R, a), D, {}, T)
<1> DEFINE Q == Append(R, a)
<1>1. /\ QueueOK(S, {w}, T) /\ WorkOK(S, R, D, {w}, T) /\ DeferredOK(S, R, D, T)
      /\ RepliesOK(S, R, D, {w}, T) /\ NoBlockOK(S, R, D, {w}, T) /\ RequestsOK(T)
  BY MailParts
<1>2. w.rid \notin D /\ DataOK(R, T, w)
  BY <1>1 DEF WorkOK
<1>3. /\ Len(R) \in Nat /\ Len(Q) = Len(R) + 1 /\ Q[Len(R) + 1] = a
      /\ \A r : IsAnswered(Q, r) <=> IsAnswered(R, r) \/ r = w.rid
  BY LongReplies
<1>4. \A r : IsUnanswered(S, D, {}, r) => IsUnanswered(S, D, {w}, r)
  BY DEF IsUnanswered, IsWorkedOn
<1>5. ~ IsQueued(S, w.rid)
  BY <1>1 DEF WorkOK, IsQueued
<1>6. QueueOK(S, {}, T)
  <2>1. \A i : MessageOK(S, {w}, T, i) => MessageOK(S, {}, T, i)
    BY DEF MessageOK
  <2> QED
    BY <1>1, <2>1 DEF QueueOK
<1>7. WorkOK(S, Q, D, {}, T)
  BY DEF WorkOK
<1>8. DeferredOK(S, Q, D, T)
  <2> HIDE DEF Q
  <2> QED
    BY <1>1, <1>2, <1>3 DEF DeferredOK
<1>9. RepliesOK(S, Q, D, {}, T)
  <2> PICK q \in T : /\ q.op = "read" /\ w.rid = Base(q)
                     /\ q.want = "data" \/ IsAnswered(R, w.rid)
    BY <1>2 DEF DataOK
  <2>1. Answers(q, a)
    BY DEF Answers
  <2>2. IsUnanswered(S, D, {w}, a.rid)
    BY DEF IsUnanswered, IsWorkedOn
  <2>3. (\E p \in T : p.want = "data" /\ p.mid = a.rid) \/ IsAnswered(R, a.rid)
    BY DEF Base
  <2>4. \A i \in 1 .. Len(R) : R[i].rid = a.rid => R[i].res = "ok" /\ a.res = "data"
    BY <1>2 DEF DataOK
  <2>5. \A p \in T : FateOK(S, Q, D, {}, p, a)
    BY DEF FateOK
  <2>6. \A i \in 1 .. Len(R) : IsWorkedOn({w}, R[i].rid) => DataComes(Q, {}, R[i].rid)
    <3>1. DataComes(Q, {}, w.rid)
      <4>1. Len(R) + 1 \in 1 .. Len(Q)
        BY <1>3
      <4> HIDE DEF Q
      <4> QED
        BY <4>1, <1>3 DEF DataComes
    <3> HIDE DEF Q
    <3> QED
      BY <3>1 DEF IsWorkedOn
  <2> QED
    BY <1>1, <1>4, <1>5, <2>1, <2>2, <2>3, <2>4, <2>5, <2>6, RepliesLonger
<1>10. NoBlockOK(S, Q, D, {}, T)
  BY <1>1, <1>4, NoBlockLonger
<1> QED
  BY <1>1, <1>6, <1>7, <1>8, <1>9, <1>10, MailParts

LEMMA MailServeCancel ==
  ASSUME NEW S \in Seq(Messages), NEW R \in Seq(Replies), NEW D, NEW T, NEW w, NEW a \in Replies,
         w.at = "serve", w.op = "cancel", Mail(S, R, D, {w}, T), Calm(T),
         a.rid = w.rid, a.res = IF w.of \in D THEN "cancelled" ELSE "there"
  PROVE  Mail(S, Append(R, a), D \ {w.of}, {}, T)
<1> DEFINE Q == Append(R, a)
           E == D \ {w.of}
<1>1. /\ QueueOK(S, {w}, T) /\ WorkOK(S, R, D, {w}, T) /\ DeferredOK(S, R, D, T)
      /\ RepliesOK(S, R, D, {w}, T) /\ NoBlockOK(S, R, D, {w}, T) /\ RequestsOK(T)
  BY MailParts
<1>2. w.rid \notin D /\ ServeOK(S, R, T, w)
  BY <1>1 DEF WorkOK
<1>3. \A r : IsAnswered(Q, r) <=> IsAnswered(R, r) \/ r = w.rid
  BY LongReplies
<1>4. \A r : IsUnanswered(S, E, {}, r) => IsUnanswered(S, D, {w}, r)
  BY DEF IsUnanswered, IsWorkedOn
<1>5. ~ IsQueued(S, w.rid)
  BY <1>1 DEF WorkOK, IsQueued
<1>6. ~ IsAnswered(R, w.rid) /\ ~ IsQueued(S, w.of)
  BY <1>2 DEF ServeOK
<1>7. QueueOK(S, {}, T)
  <2>1. \A i : MessageOK(S, {w}, T, i) => MessageOK(S, {}, T, i)
    BY DEF MessageOK
  <2> QED
    BY <1>1, <2>1 DEF QueueOK
<1>8. WorkOK(S, Q, E, {}, T)
  BY DEF WorkOK
<1>9. DeferredOK(S, Q, E, T)
  <2> HIDE DEF Q
  <2> QED
    BY <1>1, <1>2, <1>3 DEF DeferredOK
<1>10. RepliesOK(S, Q, E, {}, T)
  <2> PICK q \in T : Asks(q, w)
    BY <1>2 DEF ServeOK
  <2>0. q.op # "cancel" /\ (q.want = "cancel" => q.mid # q.old)
    BY <1>1 DEF RequestsOK
  <2>1. q.want = "cancel" /\ w.rid = q.mid /\ w.of = q.old /\ w.of # w.rid
    BY <2>0 DEF Asks
  <2>2. Answers(q, a)
    BY <2>1 DEF Answers
  <2>3. IsUnanswered(S, D, {w}, a.rid)
    BY DEF IsUnanswered, IsWorkedOn
  <2>4. \A i \in 1 .. Len(R) : R[i].rid # a.rid
    BY <1>6 DEF IsAnswered
  <2>5. ASSUME NEW p \in T PROVE FateOK(S, Q, E, {}, p, a)
    <3> SUFFICES ASSUME p.mid = a.rid PROVE NothingLeft(S, Q, E, {}, p.old, a.res)
      BY DEF FateOK
    <3>1. p = q
      BY <2>1, <1>1, OneOwner DEF Mine
    <3>2. ~ IsUnanswered(S, E, {}, w.of)
      BY <1>6 DEF IsUnanswered, IsWorkedOn
    <3>3. w.of \in D => ~ IsAnswered(R, w.of)
      BY <1>1 DEF DeferredOK
    <3> HIDE DEF Q, E
    <3> QED
      BY <3>1, <3>2, <3>3, <2>1, <1>3 DEF NothingLeft
  <2>6. \A i \in 1 .. Len(R) : IsWorkedOn({w}, R[i].rid) => DataComes(Q, {}, R[i].rid)
    BY <2>4 DEF IsWorkedOn
  <2> HIDE DEF E
  <2> QED
    BY <1>1, <1>4, <1>5, <2>2, <2>3, <2>4, <2>5, <2>6, RepliesLonger
<1>11. NoBlockOK(S, Q, E, {}, T)
  <2> HIDE DEF E
  <2> QED
    BY <1>1, <1>4, NoBlockLonger
<1> QED
  BY <1>1, <1>7, <1>8, <1>9, <1>10, <1>11, MailParts

(* The driver forgets what it has put off.                                 *)
LEMMA MailForgotten ==
  ASSUME NEW S, NEW R, NEW D, NEW W, NEW T, Mail(S, R, D, W, T)
  PROVE  Mail(S, R, {}, W, T)
<1>1. /\ QueueOK(S, W, T) /\ WorkOK(S, R, D, W, T) /\ DeferredOK(S, R, D, T)
      /\ RepliesOK(S, R, D, W, T) /\ NoBlockOK(S, R, D, W, T) /\ RequestsOK(T)
  BY MailParts
<1>2. \A r : IsUnanswered(S, {}, W, r) => IsUnanswered(S, D, W, r)
  BY DEF IsUnanswered
<1>3. WorkOK(S, R, {}, W, T)
  BY <1>1 DEF WorkOK
<1>4. DeferredOK(S, R, {}, T)
  BY DEF DeferredOK
<1>5. RepliesOK(S, R, {}, W, T)
  <2>1. \A i \in 1 .. Len(R) : ~ IsQueued(S, R[i].rid)
    BY <1>1 DEF RepliesOK, ReplyOK
  <2> QED
    BY <1>1, <1>2, <2>1, RepliesKept
<1>6. NoBlockOK(S, R, {}, W, T)
  BY <1>1, <1>2, NoBlockKept
<1> QED
  BY <1>1, <1>3, <1>4, <1>5, <1>6, MailParts

(* Nobody waits: then there is nothing but the message of close().         *)
LEMMA MailDeserted ==
  ASSUME NEW S, NEW R \in Seq(Replies), NEW D, NEW W
  PROVE  /\ Mail(S, R, D, W, {}) =>
              /\ \A i \in 1 .. Len(S) : S[i].op = "close"
              /\ R = << >> /\ D = {} /\ \A w \in W : w.at \notin {"serve", "data"}
         /\ /\ \A i \in 1 .. Len(S) : S[i].op = "close"
            /\ D = {} /\ R = << >> /\ W = {}
            => Mail(S, R, D, W, {})
<1>1. ASSUME Mail(S, R, D, W, {})
      PROVE  /\ \A i \in 1 .. Len(S) : S[i].op = "close"
             /\ R = << >> /\ D = {} /\ \A w \in W : w.at \notin {"serve", "data"}
  <2>1. /\ QueueOK(S, W, {}) /\ WorkOK(S, R, D, W, {}) /\ DeferredOK(S, R, D, {})
        /\ RepliesOK(S, R, D, W, {})
    BY <1>1, MailParts
  <2>2. \A i \in 1 .. Len(S) : S[i].op = "close"
    BY <2>1 DEF QueueOK, MessageOK
  <2>3. \A i \in 1 .. Len(R) : FALSE
    BY <2>1 DEF RepliesOK, ReplyOK
  <2>4. R = << >>
    BY <2>3
  <2>5. D = {}
    BY <2>1 DEF DeferredOK
  <2>6. \A w \in W : w.at \notin {"serve", "data"}
    BY <2>1 DEF WorkOK, ServeOK, DataOK
  <2> QED
    BY <2>2, <2>4, <2>5, <2>6
<1>2. ASSUME \A i \in 1 .. Len(S) : S[i].op = "close", D = {}, R = << >>, W = {}
      PROVE  Mail(S, R, D, W, {})
  <2>1. QueueOK(S, W, {})
    BY <1>2 DEF QueueOK
  <2>2. WorkOK(S, R, D, W, {}) /\ DeferredOK(S, R, D, {})
    BY <1>2 DEF WorkOK, DeferredOK
  <2>3. RepliesOK(S, R, D, W, {})
    BY <1>2 DEF RepliesOK
  <2>4. NoBlockOK(S, R, D, W, {}) /\ RequestsOK({})
    BY DEF NoBlockOK, RequestsOK
  <2> QED
    BY <2>1, <2>2, <2>3, <2>4, MailParts
<1> QED
  BY <1>1, <1>2

(* The id r occurs nowhere.                                                *)
Unused(S, R, D, W, r) ==
  /\ ~ IsQueued(S, r) /\ ~ IsAnswered(R, r) /\ r \notin D /\ ~ IsWorkedOn(W, r)
  /\ \A i \in 1 .. Len(S) : S[i].op = "cancel" => S[i].of # r
  /\ \A w \in W : w.at = "serve" /\ w.op = "cancel" => w.of # r

(* An id that no waiting client uses occurs nowhere.                       *)
LEMMA FreshId ==
  ASSUME NEW S, NEW R, NEW D, NEW W, NEW T, NEW r, Mail(S, R, D, W, T),
         \A w \in W : w.at \in {"serve", "data"},
         \A q \in T : r \notin Mine(q)
  PROVE  Unused(S, R, D, W, r)
<1>1. /\ QueueOK(S, W, T) /\ WorkOK(S, R, D, W, T) /\ DeferredOK(S, R, D, T)
      /\ RepliesOK(S, R, D, W, T) /\ NoBlockOK(S, R, D, W, T) /\ RequestsOK(T)
  BY MailParts
<1>2. \A i \in 1 .. Len(S) : S[i].op # "close" => \E q \in T : Asks(q, S[i])
  BY <1>1 DEF QueueOK, MessageOK
<1>3. ~ IsQueued(S, r)
  BY <1>2, AsksMine DEF IsQueued
<1>4. ~ IsAnswered(R, r)
  BY <1>1, AnswersMine DEF RepliesOK, ReplyOK, IsAnswered
<1>5. \A q : Base(q) \in Mine(q)
  BY DEF Mine
<1>6. r \notin D
  BY <1>1, <1>5 DEF DeferredOK
<1>7. ~ IsWorkedOn(W, r)
  <2> SUFFICES ASSUME NEW w \in W, w.rid = r PROVE FALSE
    BY DEF IsWorkedOn
  <2>1. CASE w.at = "serve"
    BY <2>1, <1>1, AsksMine DEF WorkOK, ServeOK
  <2>2. CASE w.at = "data"
    BY <2>2, <1>1, <1>5 DEF WorkOK, DataOK
  <2> QED
    BY <2>1, <2>2
<1>8. ASSUME NEW q \in T, NEW m, Asks(q, m), m.op = "cancel" PROVE m.of # r
  <2>1. q.op # "cancel"
    BY <1>1 DEF RequestsOK
  <2>2. q.want = "cancel" /\ m.of = q.old
    BY <2>1, <1>8 DEF Asks
  <2>3. q.old \in Mine(q)
    BY <2>2 DEF Mine, Base
  <2> QED
    BY <2>2, <2>3
<1>9. \A i \in 1 .. Len(S) : S[i].op = "cancel" => S[i].of # r
  BY <1>2, <1>8
<1>10. \A w \in W : w.at = "serve" /\ w.op = "cancel" => w.of # r
  BY <1>1, <1>8 DEF WorkOK, ServeOK
<1> QED
  BY <1>3, <1>4, <1>6, <1>7, <1>9, <1>10 DEF Unused

(* Z is S with a request behind it, perhaps with its data.                 *)
Extended(S, Z) ==
  /\ Len(Z) \in {Len(S) + 1, Len(S) + 2}
  /\ \A i \in 1 .. Len(S) : Z[i] = S[i]
  /\ Z[Len(S) + 1].op \in {"open", "read", "write", "cancel"}
  /\ Z[Len(S) + 1].op = "write" <=> Len(Z) = Len(S) + 2
  /\ Len(Z) = Len(S) + 2 =>
       Z[Len(S) + 2].op = "data" /\ Z[Len(S) + 2].rid = Z[Len(S) + 1].rid

(* The messages in it ask for something.                                   *)
Asked(S, Z, T, U) ==
  /\ \A i \in 1 .. Len(S) : (\E q \in T : Asks(q, S[i])) => \E q \in U : Asks(q, S[i])
  /\ \A i \in 1 .. Len(Z) : i > Len(S) => \E q \in U : Asks(q, Z[i])

QueuedToo(S, Z, r) == \A x : IsQueued(Z, x) => IsQueued(S, x) \/ x = r

LEMMA QueueLonger ==
  ASSUME NEW S \in Seq(Messages), NEW Z, NEW W, NEW T, NEW U, NEW r,
         QueueOK(S, W, T), Extended(S, Z), Z[Len(S) + 1].rid = r,
         NEW R, NEW D, Unused(S, R, D, W, r), Asked(S, Z, T, U)
  PROVE  QueueOK(Z, W, U) /\ QueuedToo(S, Z, r)
<1> PICK n : n = Len(S) + 1
  OBVIOUS
<1>1. /\ Len(S) \in Nat /\ n \in Nat /\ n - 1 = Len(S) /\ n + 1 = Len(S) + 2
      /\ Len(Z) \in {n, n + 1} /\ n \in 1 .. Len(Z) /\ n # 1 + Len(Z)
  BY DEF Extended
<1>2. \A i \in 1 .. Len(S) : Z[i] = S[i] /\ i \in 1 .. Len(Z) /\ i < n
  BY <1>1 DEF Extended
<1>3. \A i \in 1 .. Len(Z) : i \in 1 .. Len(S) \/ i = n \/ (i = n + 1 /\ Len(Z) = n + 1)
  BY <1>1
<1>4. /\ Z[n].op \in {"open", "read", "write", "cancel"} /\ Z[n].rid = r
      /\ Z[n].op = "write" <=> Len(Z) = n + 1
      /\ Len(Z) = n + 1 => Z[n + 1].op = "data" /\ Z[n + 1].rid = r
  BY <1>1 DEF Extended
<1>5. ASSUME NEW i \in 1 .. Len(S), S[i].op # "close" PROVE MessageOK(Z, W, U, i)
  <2>1. MessageOK(S, W, T, i)
    BY <1>5 DEF QueueOK
  <2>2. \E q \in U : Asks(q, Z[i])
    BY <2>1, <1>2 DEF MessageOK, Asked
  <2>3. ASSUME Z[i].op = "write"
        PROVE  i + 1 \in 1 .. Len(Z) /\ Z[i + 1].op = "data" /\ Z[i + 1].rid = Z[i].rid
    BY <2>1, <2>3, <1>2 DEF MessageOK
  <2>4. ASSUME Z[i].op = "data"
        PROVE  IF i = 1 THEN \E w \in W : w.at = "serve" /\ w.op = "write" /\ w.rid = Z[1].rid
                        ELSE Z[i - 1].op = "write" /\ Z[i - 1].rid = Z[i].rid
    <3>1. CASE i = 1
      BY <3>1, <2>1, <2>4, <1>2 DEF MessageOK
    <3>2. CASE i # 1
      <4>1. i - 1 \in 1 .. Len(S)
        BY <3>2, <1>1
      <4> QED
        BY <4>1, <3>2, <2>1, <2>4, <1>2 DEF MessageOK
    <3> QED
      BY <3>1, <3>2
  <2> QED
    BY <2>2, <2>3, <2>4 DEF MessageOK
<1>6. MessageOK(Z, W, U, n)
  <2>1. \E q \in U : Asks(q, Z[n])
    BY <1>1 DEF Asked
  <2>2. Z[n].op = "write" => n + 1 \in 1 .. Len(Z)
    BY <1>1, <1>4
  <2> QED
    BY <2>1, <2>2, <1>4 DEF MessageOK
<1>7. ASSUME Len(Z) = n + 1 PROVE MessageOK(Z, W, U, n + 1)
  <2>1. n + 1 \in 1 .. Len(Z) /\ n + 1 > Len(S) /\ n + 1 # 1 /\ (n + 1) - 1 = n
    BY <1>1, <1>7
  <2>2. \E q \in U : Asks(q, Z[n + 1])
    BY <2>1 DEF Asked
  <2> QED
    BY <2>1, <2>2, <1>4, <1>7 DEF MessageOK
<1>8. ASSUME NEW i \in 1 .. Len(Z), NEW j \in 1 .. Len(Z), i < j,
             Z[i].op # "close", Z[j].op # "close"
      PROVE  InTurn(Z, i, j)
  <2>1. CASE j \in 1 .. Len(S)
    <3>1. i \in 1 .. Len(S)
      BY <2>1, <1>8, <1>1
    <3>2. InTurn(S, i, j)
      BY <2>1, <3>1, <1>2, <1>8 DEF QueueOK
    <3> QED
      BY <3>1, <3>2, <2>1, <1>2 DEF InTurn
  <2>2. CASE i \in 1 .. Len(S) /\ j \notin 1 .. Len(S)
    <3>1. Z[j].rid = r
      BY <2>2, <1>3, <1>4
    <3>2. Z[i].rid # r
      BY <2>2, <1>2, <1>8 DEF IsQueued, Unused
    <3> QED
      BY <3>1, <3>2, <2>2, <1>2 DEF InTurn, Unused
  <2>3. CASE i \notin 1 .. Len(S)
    <3>1. i = n /\ j = n + 1 /\ Len(Z) = n + 1
      BY <2>3, <1>1, <1>8
    <3> QED
      BY <3>1, <1>4 DEF InTurn
  <2> QED
    BY <2>1, <2>2, <2>3
<1>9. \A i \in 1 .. Len(Z) : Z[i].op # "close" => MessageOK(Z, W, U, i)
  BY <1>2, <1>3, <1>5, <1>6, <1>7
<1>10. QueuedToo(S, Z, r)
  <2> SUFFICES ASSUME NEW i \in 1 .. Len(Z), Z[i].op # "close", Z[i].rid # r
               PROVE  IsQueued(S, Z[i].rid)
    BY DEF IsQueued, QueuedToo
  <2> QED
    BY <1>2, <1>3, <1>4 DEF IsQueued
<1> QED
  BY <1>8, <1>9, <1>10 DEF QueueOK

(* A request goes on, perhaps as the wish to cancel it.                    *)
Follows(q, x) ==
  \/ x = q
  \/ /\ q.want = "resp" /\ x.want = "cancel" /\ x.old = q.mid /\ x.op = q.op
     /\ x.nb = q.nb

LEMMA FollowsKeeps ==
  ASSUME NEW q, NEW x, Follows(q, x)
  PROVE  /\ \A m : Asks(q, m) => Asks(x, m)
         /\ \A a : Answers(q, a) => Answers(x, a)
         /\ Base(x) = Base(q) /\ x.op = q.op
         /\ q.want = "data" => x = q
         /\ q.want # "data" => x.want # "data"
<1>1. Base(x) = Base(q) /\ x.op = q.op /\ (q.want = "data" => x = q) /\ (q.want # "data" => x.want # "data")
  BY DEF Follows, Base
<1>2. ASSUME NEW m, Asks(q, m) PROVE Asks(x, m)
  BY <1>1, <1>2 DEF Follows, Asks
<1>3. ASSUME NEW a, Answers(q, a) PROVE Answers(x, a)
  BY <1>1, <1>3 DEF Follows, Answers
<1> QED
  BY <1>1, <1>2, <1>3

(* A client sends a request, or the wish to cancel the one it has sent.    *)
LEMMA MailAsked ==
  ASSUME NEW S \in Seq(Messages), NEW R \in Seq(Replies), NEW D, NEW W, NEW T,
         NEW Z, NEW p, NEW r, NEW O, Mail(S, R, D, W, T),
         \A w \in W : w.at \in {"serve", "data"},
         \A q \in T : r \notin Mine(q), r # 0,
         p.mid = r, ~ p.forced, p.op \in {"open", "read", "write"},
         \/ O = {} /\ p.want = "resp"
         \/ /\ O \subseteq T /\ \E q \in T : O = {q} /\ q.want = "resp" /\ q.op = p.op
                             /\ p.old = q.mid /\ p.nb = q.nb
            /\ p.want = "cancel",
         Extended(S, Z), Z[Len(S) + 1].rid = r,
         \A i \in 1 .. Len(Z) : i > Len(S) => Asks(p, Z[i])
  PROVE  Mail(Z, R, D, W, (T \ O) \cup {p})
<1> DEFINE U == (T \ O) \cup {p}
<1>1. /\ QueueOK(S, W, T) /\ WorkOK(S, R, D, W, T) /\ DeferredOK(S, R, D, T)
      /\ RepliesOK(S, R, D, W, T) /\ NoBlockOK(S, R, D, W, T) /\ RequestsOK(T)
  BY MailParts
<1>2. /\ ~ IsQueued(S, r) /\ ~ IsAnswered(R, r) /\ r \notin D /\ ~ IsWorkedOn(W, r)
      /\ \A i \in 1 .. Len(S) : S[i].op = "cancel" => S[i].of # r
      /\ \A w \in W : w.at = "serve" /\ w.op = "cancel" => w.of # r
      /\ Unused(S, R, D, W, r)
  <2>1. Unused(S, R, D, W, r)
    BY FreshId
  <2> QED
    BY <2>1 DEF Unused
<1>3. \A q \in T : \E x \in U : Follows(q, x)
  BY DEF Follows
<1>4. p \in U /\ \A x \in U : x \in T \/ x = p
  BY DEF U
<1>5. \A q \in T : (\E x \in U : x = q) \/ (q \in O)
  OBVIOUS
<1>6. /\ QueueOK(Z, W, U)
      /\ \A x : IsQueued(Z, x) => IsQueued(S, x) \/ x = r
  <2>1. \A i \in 1 .. Len(S) : (\E q \in T : Asks(q, S[i])) => \E q \in U : Asks(q, S[i])
    <3> HIDE DEF U
    <3> QED
      BY <1>3, FollowsKeeps
  <2>2. \A i \in 1 .. Len(Z) : i > Len(S) => \E q \in U : Asks(q, Z[i])
    BY <1>4
  <2> HIDE DEF U
  <2>3. Asked(S, Z, T, U)
    BY <2>1, <2>2 DEF Asked
  <2>4. QueueOK(Z, W, U) /\ QueuedToo(S, Z, r)
    BY <2>3, <1>1, <1>2, QueueLonger
  <2> QED
    BY <2>4 DEF QueuedToo
<1> HIDE DEF U
<1>7. \A x : x # r /\ IsUnanswered(Z, D, W, x) => IsUnanswered(S, D, W, x)
  BY <1>6 DEF IsUnanswered
<1>8. WorkOK(Z, R, D, W, U)
  <2> SUFFICES ASSUME NEW w \in W
               PROVE  /\ w.rid \notin D
                      /\ w.at = "serve" => ServeOK(Z, R, U, w)
                      /\ w.at = "data" => DataOK(R, U, w)
                      /\ \A i \in 1 .. Len(Z) : Z[i].op # "close" /\ Z[i].rid = w.rid =>
                           i = 1 /\ w.at = "serve" /\ w.op = "write"
    BY DEF WorkOK
  <2>1. /\ w.rid \notin D
        /\ w.at = "serve" => ServeOK(S, R, T, w)
        /\ w.at = "data" => DataOK(R, T, w)
        /\ \A i \in 1 .. Len(S) : S[i].op # "close" /\ S[i].rid = w.rid =>
             i = 1 /\ w.at = "serve" /\ w.op = "write"
    BY <1>1 DEF WorkOK
  <2>2. ASSUME w.at = "serve" PROVE ServeOK(Z, R, U, w)
    <3>1. \E q \in U : Asks(q, w)
      BY <2>1, <2>2, <1>3, FollowsKeeps DEF ServeOK
    <3>2. ASSUME S # << >> PROVE Z # << >> /\ Z[1] = S[1]
      <4>1. 1 \in 1 .. Len(S) /\ Len(Z) > 0
        BY <3>2 DEF Extended
      <4>2. Z[1] = S[1]
        BY <4>1 DEF Extended
      <4>3. Z # << >>
        BY <4>1
      <4> QED
        BY <4>2, <4>3
    <3> QED
      BY <3>1, <3>2, <2>1, <2>2, <1>2, <1>6 DEF ServeOK
  <2>3. ASSUME w.at = "data" PROVE DataOK(R, U, w)
    <3> PICK q \in T : /\ q.op = "read" /\ w.rid = Base(q)
                       /\ q.want = "data" \/ IsAnswered(R, w.rid)
      BY <2>1, <2>3 DEF DataOK
    <3> PICK x \in U : Follows(q, x)
      BY <1>3
    <3>1. x.op = "read" /\ w.rid = Base(x) /\ (x.want = "data" \/ IsAnswered(R, w.rid))
      BY FollowsKeeps
    <3> QED
      BY <3>1, <2>1, <2>3 DEF DataOK
  <2>4. ASSUME NEW i \in 1 .. Len(Z), Z[i].op # "close", Z[i].rid = w.rid
        PROVE  i = 1 /\ w.at = "serve" /\ w.op = "write"
    <3>1. w.rid # r
      BY <1>2 DEF IsWorkedOn
    <3>2. i \in 1 .. Len(S) /\ Z[i] = S[i]
      <4>1. i \in 1 .. Len(S) \/ i = Len(S) + 1 \/ (i = Len(S) + 2 /\ Len(Z) = Len(S) + 2)
        BY DEF Extended
      <4> QED
        BY <4>1, <3>1, <2>4 DEF Extended
    <3> QED
      BY <3>2, <2>1, <2>4
  <2> QED
    BY <2>1, <2>2, <2>3, <2>4
<1>9. DeferredOK(Z, R, D, U)
  <2> SUFFICES ASSUME NEW x \in D
               PROVE  /\ \E q \in U : q.op = "read" /\ q.want # "data" /\ x = Base(q)
                      /\ ~ IsQueued(Z, x) /\ ~ IsAnswered(R, x)
    BY DEF DeferredOK
  <2>1. /\ \E q \in T : q.op = "read" /\ q.want # "data" /\ x = Base(q)
        /\ ~ IsQueued(S, x) /\ ~ IsAnswered(R, x)
    BY <1>1 DEF DeferredOK
  <2>2. \E q \in U : q.op = "read" /\ q.want # "data" /\ x = Base(q)
    BY <2>1, <1>3, FollowsKeeps
  <2> QED
    BY <2>1, <2>2, <1>2, <1>6
<1>10. RepliesOK(Z, R, D, W, U)
  <2>1. ASSUME NEW i \in 1 .. Len(R) PROVE R[i].rid # r /\ ReplyOK(Z, R, U, i)
    <3>1. ReplyOK(S, R, T, i)
      BY <1>1 DEF RepliesOK
    <3>2. R[i].rid # r
      BY <1>2 DEF IsAnswered
    <3>3. \E q \in U : Answers(q, R[i])
      BY <3>1, <1>3, FollowsKeeps DEF ReplyOK
    <3>4. ASSUME NEW q \in T, q.want = "data" PROVE q \in U
      <4> PICK x \in U : Follows(q, x)
        BY <1>3
      <4> QED
        BY <3>4, FollowsKeeps
    <3> QED
      BY <3>1, <3>2, <3>3, <3>4, <1>6 DEF ReplyOK
  <2>2. ASSUME NEW i \in 1 .. Len(R), NEW x \in U PROVE FateOK(Z, R, D, W, x, R[i])
    <3>1. CASE x \in T
      <4>1. FateOK(S, R, D, W, x, R[i]) /\ ReplyOK(S, R, T, i)
        BY <3>1, <1>1 DEF RepliesOK
      <4>2. ASSUME R[i].res \in {"cancelled", "there"}, x.mid = R[i].rid
            PROVE  NothingLeft(Z, R, D, W, x.old, R[i].res)
        <5> PICK q \in T : Answers(q, R[i])
          BY <4>1 DEF ReplyOK
        <5>1. q.want = "cancel" /\ R[i].rid = q.mid
          BY <4>2 DEF Answers
        <5>2. q = x
          <6>1. R[i].rid \in Mine(q) /\ R[i].rid \in Mine(x)
            BY <5>1, <4>2 DEF Mine
          <6> QED
            BY <6>1, <3>1, <1>1, OneOwner
        <5>3. x.old # r
          BY <5>1, <5>2 DEF Mine, Base
        <5> QED
          BY <5>3, <4>1, <4>2, <1>7 DEF FateOK, NothingLeft
      <4> QED
        BY <4>1, <4>2 DEF FateOK
    <3>2. CASE x = p
      <4>1. x.mid # R[i].rid
        BY <3>2, <2>1
      <4>2. ASSUME R[i].res = "ok", p.op = "read", Base(p) = R[i].rid
            PROVE  DataComes(R, W, R[i].rid)
        <5>1. Base(p) # r
          BY <4>2, <2>1
        <5>2. p.want = "cancel"
          BY <5>1 DEF Base
        <5> PICK q \in T : q.want = "resp" /\ q.op = p.op /\ p.old = q.mid
          BY <5>2
        <5>3. Base(q) = R[i].rid
          BY <4>2, <5>2 DEF Base
        <5>4. FateOK(S, R, D, W, q, R[i])
          BY <1>1 DEF RepliesOK
        <5> QED
          BY <5>3, <5>4, <4>2 DEF FateOK
      <4> QED
        BY <4>1, <4>2, <3>2 DEF FateOK
    <3> QED
      BY <3>1, <3>2, <1>4
  <2> QED
    BY <2>1, <2>2, <1>1 DEF RepliesOK
<1>11. NoBlockOK(Z, R, D, W, U)
  <2> SUFFICES ASSUME NEW q \in U, q.nb
               PROVE  /\ q.want = "resp" /\ ~ q.forced => ~ IsAnswered(R, q.mid)
                      /\ q.forced => ~ IsUnanswered(Z, D, W, q.mid)
                      /\ q.want = "data" => q.forced /\ IsAnswered(R, q.mid)
    BY DEF NoBlockOK
  <2>1. CASE q \in T
    <3>1. q.mid # r
      BY <2>1 DEF Mine
    <3> QED
      BY <2>1, <3>1, <1>1, <1>7 DEF NoBlockOK
  <2>2. CASE q = p
    BY <2>2, <1>2
  <2> QED
    BY <2>1, <2>2, <1>4
<1>12. RequestsOK(U)
  <2>1. 0 \notin Mine(p) /\ (p.want = "cancel" => p.mid # p.old)
    <3>1. CASE O = {} /\ p.want = "resp"
      BY <3>1 DEF Mine, Base
    <3>2. ASSUME NEW q \in T, p.want = "cancel", p.old = q.mid
          PROVE  0 \notin Mine(p) /\ p.mid # p.old
      <4>1. q.mid # 0 /\ q.mid # r
        BY <1>1 DEF RequestsOK, Mine
      <4> QED
        BY <4>1, <3>2 DEF Mine, Base
    <3> QED
      BY <3>1, <3>2
  <2>2. ASSUME NEW q \in T \ O PROVE Mine(p) \cap Mine(q) = {}
    <3>1. CASE O = {} /\ p.want = "resp"
      BY <3>1 DEF Mine, Base
    <3>2. ASSUME NEW o \in T, O = {o}, p.want = "cancel", p.old = o.mid
          PROVE  Mine(p) \cap Mine(q) = {}
      <4>1. o.mid \notin Mine(q)
        BY <3>2, <2>2, <1>1, OneOwner DEF Mine
      <4>2. Mine(p) = {r, o.mid}
        BY <3>2 DEF Mine, Base
      <4> QED
        BY <4>1, <4>2
    <3> QED
      BY <3>1, <3>2
  <2>3. \A q \in T \ O : \A x \in T \ O : q # x => Mine(q) \cap Mine(x) = {}
    BY <1>1 DEF RequestsOK
  <2>4. \A q \in T : /\ 0 \notin Mine(q) /\ q.op \in {"open", "read", "write"}
                     /\ q.want = "cancel" => q.mid # q.old /\ ~ q.forced
                     /\ q.want = "data" => q.op = "read"
    BY <1>1 DEF RequestsOK
  <2> QED
    BY <2>1, <2>2, <2>3, <2>4 DEF RequestsOK, U
<1> QED
  BY <1>6, <1>8, <1>9, <1>10, <1>11, <1>12, MailParts DEF U

(* Q is R without the reply at i.                                          *)
Without(R, i, Q) ==
  /\ Len(Q) \in Nat
  /\ \A k \in 1 .. Len(R) : k # i => \E j \in 1 .. Len(Q) : Q[j] = R[k]
  /\ \A j \in 1 .. Len(Q) : \E k \in 1 .. Len(R) :
       /\ k # i /\ Q[j] = R[k]
       /\ \A l \in 1 .. Len(R) : l < k /\ l # i => \E m \in 1 .. Len(Q) : m < j /\ Q[m] = R[l]
  /\ \A j, m \in 1 .. Len(Q) : j < m =>
       \E k, l \in 1 .. Len(R) : k # i /\ l # i /\ k < l /\ Q[j] = R[k] /\ Q[m] = R[l]

LEMMA WithoutOne ==
  ASSUME NEW R \in Seq(Replies), NEW i \in 1 .. Len(R)
  PROVE  Without(R, i, SubSeq(R, 1, i - 1) \o SubSeq(R, i + 1, Len(R)))
<1> DEFINE Q == SubSeq(R, 1, i - 1) \o SubSeq(R, i + 1, Len(R))
<1>1. /\ Len(R) \in Nat /\ Len(Q) = Len(R) - 1
      /\ \A j \in 1 .. Len(Q) : j < i => Q[j] = R[j]
      /\ \A j \in 1 .. Len(Q) : j >= i => Q[j] = R[j + 1]
  <2> DEFINE A == SubSeq(R, 1, i - 1)
             B == SubSeq(R, i + 1, Len(R))
  <2>1. /\ A \in Seq(Replies) /\ Len(A) = i - 1
        /\ \A j \in 1 .. Len(A) : A[j] = R[j]
    OBVIOUS
  <2>2. /\ B \in Seq(Replies) /\ Len(B) = Len(R) - i
        /\ \A j \in 1 .. Len(B) : B[j] = R[i + j]
    OBVIOUS
  <2> HIDE DEF A, B
  <2>3. /\ Len(A \o B) = Len(A) + Len(B)
        /\ \A j \in 1 .. Len(A) + Len(B) : (A \o B)[j] = IF j <= Len(A) THEN A[j] ELSE B[j - Len(A)]
    BY <2>1, <2>2, ConcatProperties
  <2>4. Len(Q) = Len(R) - 1 /\ Len(R) \in Nat
    <3>1. Q = A \o B
      BY DEF A, B
    <3>2. Len(R) \in Nat
      OBVIOUS
    <3> HIDE DEF Q
    <3> QED
      BY <3>1, <3>2, <2>1, <2>2, <2>3
  <2>5. ASSUME NEW j \in 1 .. Len(Q), j < i PROVE Q[j] = R[j]
    <3>1. j \in 1 .. Len(A) /\ j \in 1 .. Len(A) + Len(B) /\ j <= Len(A)
      BY <2>1, <2>2, <2>4, <2>5
    <3>2. (A \o B)[j] = A[j]
      BY <3>1, <2>3
    <3> QED
      BY <3>1, <3>2, <2>1 DEF A, B
  <2>6. ASSUME NEW j \in 1 .. Len(Q), j >= i PROVE Q[j] = R[j + 1]
    <3> PICK k : k = j - Len(A)
      OBVIOUS
    <3>1. k \in 1 .. Len(B) /\ j \in 1 .. Len(A) + Len(B) /\ ~ (j <= Len(A)) /\ i + k = j + 1
      <4> HIDE DEF Q
      <4> QED
        BY <2>1, <2>2, <2>4, <2>6
    <3>2. (A \o B)[j] = B[k]
      BY <3>1, <2>3
    <3> QED
      BY <3>1, <3>2, <2>2 DEF A, B
  <2> QED
    BY <2>4, <2>5, <2>6
<1> HIDE DEF Q
<1>2. ASSUME NEW k \in 1 .. Len(R), k # i PROVE \E j \in 1 .. Len(Q) : Q[j] = R[k]
  <2>1. CASE k < i
    <3>1. k \in 1 .. Len(Q)
      BY <2>1, <1>1
    <3> QED
      BY <3>1, <2>1, <1>1
  <2>2. CASE k > i
    <3> PICK j : j = k - 1
      OBVIOUS
    <3>1. j \in 1 .. Len(Q) /\ j >= i /\ j + 1 = k
      BY <2>2, <1>1
    <3> QED
      BY <3>1, <1>1
  <2> QED
    BY <2>1, <2>2, <1>2
<1>3. ASSUME NEW j \in 1 .. Len(Q)
      PROVE  \E k \in 1 .. Len(R) :
               /\ k # i /\ Q[j] = R[k]
               /\ \A l \in 1 .. Len(R) : l < k /\ l # i => \E m \in 1 .. Len(Q) : m < j /\ Q[m] = R[l]
  <2>1. PICK k \in 1 .. Len(R) : k # i /\ Q[j] = R[k] /\ ((k = j /\ j < i) \/ (k = j + 1 /\ j >= i))
    <3>1. CASE j < i
      <4>1. j \in 1 .. Len(R) /\ j # i /\ Q[j] = R[j]
        BY <3>1, <1>1
      <4> QED
        <5> WITNESS j \in 1 .. Len(R)
        <5> QED
          BY <3>1, <4>1
    <3>2. CASE j >= i
      <4>1. j + 1 \in 1 .. Len(R) /\ j + 1 # i /\ Q[j] = R[j + 1]
        BY <3>2, <1>1
      <4> QED
        BY <3>2, <4>1
    <3> QED
      BY <3>1, <3>2, <1>1
  <2>2. ASSUME NEW l \in 1 .. Len(R), l < k, l # i
        PROVE  \E m \in 1 .. Len(Q) : m < j /\ Q[m] = R[l]
    <3>1. CASE l < i
      <4>1. l \in 1 .. Len(Q) /\ l < j
        BY <3>1, <2>1, <2>2, <1>1
      <4> QED
        BY <3>1, <4>1, <1>1
    <3>2. CASE l > i
      <4> PICK m : m = l - 1
        OBVIOUS
      <4>1. m \in 1 .. Len(Q) /\ m < j /\ m >= i /\ m + 1 = l
        BY <3>2, <2>1, <2>2, <1>1
      <4> QED
        BY <4>1, <1>1
    <3> QED
      BY <3>1, <3>2, <2>2
  <2> QED
    BY <2>1, <2>2
<1>4. ASSUME NEW j \in 1 .. Len(Q), NEW m \in 1 .. Len(Q), j < m
      PROVE  \E k, l \in 1 .. Len(R) : k # i /\ l # i /\ k < l /\ Q[j] = R[k] /\ Q[m] = R[l]
  <2> DEFINE at(x) == IF x < i THEN x ELSE x + 1
  <2>1. at(j) \in 1 .. Len(R) /\ at(m) \in 1 .. Len(R) /\ at(j) # i /\ at(m) # i /\ at(j) < at(m)
    BY <1>1, <1>4
  <2>2. Q[j] = R[at(j)] /\ Q[m] = R[at(m)]
    BY <1>1
  <2> QED
    BY <2>1, <2>2
<1>5. Len(Q) \in Nat
  BY <1>1
<1> QED
  BY <1>2, <1>3, <1>4, <1>5 DEF Without, Q

LEMMA WithoutAnswer ==
  ASSUME NEW R, NEW i, NEW Q, Without(R, i, Q), NEW r
  PROVE  IsAnswered(Q, r) <=> \E k \in 1 .. Len(R) : k # i /\ R[k].rid = r
<1>1. ASSUME NEW j \in 1 .. Len(Q), Q[j].rid = r
      PROVE  \E k \in 1 .. Len(R) : k # i /\ R[k].rid = r
  <2> PICK k \in 1 .. Len(R) : k # i /\ Q[j] = R[k]
    BY DEF Without
  <2> QED
    BY <1>1
<1>2. ASSUME NEW k \in 1 .. Len(R), k # i, R[k].rid = r
      PROVE  \E j \in 1 .. Len(Q) : Q[j].rid = r
  <2> PICK j \in 1 .. Len(Q) : Q[j] = R[k]
    BY <1>2 DEF Without
  <2> QED
    BY <1>2
<1> QED
  BY <1>1, <1>2 DEF IsAnswered

(* What is left is fine for the requests U.                                *)
Fine(S, R, D, W, U, i, Q, k) ==
  /\ \E x \in U : Answers(x, R[k])
  /\ R[k].res = "data" =>
       \/ \E x \in U : x.want = "data" /\ x.mid = R[k].rid
       \/ \E l \in 1 .. Len(R) : l < k /\ l # i /\ R[l].rid = R[k].rid
  /\ \A x \in U : FateOK(S, Q, D, W, x, R[k])

LEMMA RepliesShorter ==
  ASSUME NEW S, NEW R, NEW D, NEW W, NEW T, NEW U, NEW i, NEW Q,
         Without(R, i, Q), RepliesOK(S, R, D, W, T),
         \A k \in 1 .. Len(R) : k # i => Fine(S, R, D, W, U, i, Q, k)
  PROVE  RepliesOK(S, Q, D, W, U)
<1>1. ASSUME NEW j \in 1 .. Len(Q) PROVE ReplyOK(S, Q, U, j)
  <2> PICK k \in 1 .. Len(R) :
         /\ k # i /\ Q[j] = R[k]
         /\ \A l \in 1 .. Len(R) : l < k /\ l # i => \E m \in 1 .. Len(Q) : m < j /\ Q[m] = R[l]
    BY DEF Without
  <2>1. Fine(S, R, D, W, U, i, Q, k)
    OBVIOUS
  <2>2. ~ IsQueued(S, R[k].rid)
    BY DEF RepliesOK, ReplyOK
  <2>3. ASSUME R[k].res = "data", NEW l \in 1 .. Len(R), l < k, l # i, R[l].rid = R[k].rid
        PROVE  \E m \in 1 .. Len(Q) : m < j /\ Q[m].rid = Q[j].rid
    BY <2>3
  <2> QED
    BY <2>1, <2>2, <2>3 DEF Fine, ReplyOK
<1>2. ASSUME NEW j \in 1 .. Len(Q), NEW m \in 1 .. Len(Q), j < m, Q[j].rid = Q[m].rid
      PROVE  Q[j].res = "ok" /\ Q[m].res = "data"
  <2> PICK k, l \in 1 .. Len(R) : k < l /\ Q[j] = R[k] /\ Q[m] = R[l]
    BY <1>2 DEF Without
  <2> QED
    BY <1>2 DEF RepliesOK
<1>3. ASSUME NEW j \in 1 .. Len(Q), NEW x \in U PROVE FateOK(S, Q, D, W, x, Q[j])
  <2> PICK k \in 1 .. Len(R) : k # i /\ Q[j] = R[k]
    BY DEF Without
  <2>1. Fine(S, R, D, W, U, i, Q, k)
    OBVIOUS
  <2> QED
    BY <2>1 DEF Fine
<1> QED
  BY <1>1, <1>2, <1>3 DEF RepliesOK

(* A client has the last answer to its request, of which nothing is left.  *)
LEMMA MailGone ==
  ASSUME NEW S, NEW R, NEW D, NEW W, NEW T, NEW q \in T, NEW i \in 1 .. Len(R), NEW Q,
         Without(R, i, Q), Mail(S, R, D, W, T), R[i].rid \in Mine(q),
         \A w \in W : w.at \in {"serve", "data"},
         \A k \in 1 .. Len(R) : k # i => R[k].rid \notin Mine(q),
         \A r \in Mine(q) : ~ IsUnanswered(S, D, W, r)
  PROVE  Mail(S, Q, D, W, T \ {q})
<1> DEFINE U == T \ {q}
<1>1. /\ QueueOK(S, W, T) /\ WorkOK(S, R, D, W, T) /\ DeferredOK(S, R, D, T)
      /\ RepliesOK(S, R, D, W, T) /\ NoBlockOK(S, R, D, W, T) /\ RequestsOK(T)
  BY MailParts
<1>2. /\ \A j \in 1 .. Len(S) : S[j].op # "close" => S[j].rid \notin Mine(q)
      /\ \A w \in W : w.rid \notin Mine(q)
      /\ \A r \in D : r \notin Mine(q)
  BY DEF IsUnanswered, IsQueued, IsWorkedOn
<1>3. \A x \in T : x \in U \/ x = q
  OBVIOUS
<1>4. \A x \in U : x \in T
  OBVIOUS
<1> HIDE DEF U
<1>5. QueueOK(S, W, U)
  <2>1. ASSUME NEW j \in 1 .. Len(S), S[j].op # "close" PROVE MessageOK(S, W, U, j)
    <3>1. MessageOK(S, W, T, j)
      BY <2>1, <1>1 DEF QueueOK
    <3>2. \E x \in U : Asks(x, S[j])
      BY <3>1, <2>1, <1>2, <1>3, AsksMine DEF MessageOK
    <3> QED
      BY <3>1, <3>2 DEF MessageOK
  <2> QED
    BY <2>1, <1>1 DEF QueueOK
<1>6a. \A r : IsAnswered(Q, r) <=> \E k \in 1 .. Len(R) : k # i /\ R[k].rid = r
  BY WithoutAnswer
<1>6. \A r : r \notin Mine(q) => (IsAnswered(Q, r) <=> IsAnswered(R, r))
  BY <1>2, <1>6a DEF IsAnswered
<1>7. \A k \in 1 .. Len(Q) : \E j \in 1 .. Len(R) : Q[k] = R[j]
  BY DEF Without
<1>8. WorkOK(S, Q, D, W, U)
  <2> SUFFICES ASSUME NEW w \in W
               PROVE  /\ w.rid \notin D
                      /\ w.at = "serve" => ServeOK(S, Q, U, w)
                      /\ w.at = "data" => DataOK(Q, U, w)
                      /\ \A j \in 1 .. Len(S) : S[j].op # "close" /\ S[j].rid = w.rid =>
                           j = 1 /\ w.at = "serve" /\ w.op = "write"
    BY DEF WorkOK
  <2>1. /\ w.rid \notin D
        /\ w.at = "serve" => ServeOK(S, R, T, w)
        /\ w.at = "data" => DataOK(R, T, w)
        /\ \A j \in 1 .. Len(S) : S[j].op # "close" /\ S[j].rid = w.rid =>
             j = 1 /\ w.at = "serve" /\ w.op = "write"
    BY <1>1 DEF WorkOK
  <2>2. ASSUME w.at = "serve" PROVE ServeOK(S, Q, U, w)
    <3>1. \E x \in U : Asks(x, w)
      BY <2>1, <2>2, <1>2, <1>3, AsksMine DEF ServeOK
    <3> QED
      BY <3>1, <2>1, <2>2, <1>2, <1>6 DEF ServeOK
  <2>3. ASSUME w.at = "data" PROVE DataOK(Q, U, w)
    <3> PICK x \in T : /\ x.op = "read" /\ w.rid = Base(x)
                       /\ x.want = "data" \/ IsAnswered(R, w.rid)
      BY <2>1, <2>3 DEF DataOK
    <3>1. x # q
      BY <1>2 DEF Mine
    <3>2. \A k \in 1 .. Len(Q) : Q[k].rid = w.rid => Q[k].res = "ok"
      BY <1>7, <2>1, <2>3 DEF DataOK
    <3> QED
      BY <3>1, <3>2, <1>2, <1>3, <1>6 DEF DataOK
  <2> QED
    BY <2>1, <2>2, <2>3
<1>9. DeferredOK(S, Q, D, U)
  <2> SUFFICES ASSUME NEW r \in D
               PROVE  /\ \E x \in U : x.op = "read" /\ x.want # "data" /\ r = Base(x)
                      /\ ~ IsQueued(S, r) /\ ~ IsAnswered(Q, r)
    BY DEF DeferredOK
  <2> PICK x \in T : x.op = "read" /\ x.want # "data" /\ r = Base(x)
    BY <1>1 DEF DeferredOK
  <2>1. x # q
    BY <1>2 DEF Mine
  <2> QED
    BY <2>1, <1>1, <1>2, <1>3, <1>6 DEF DeferredOK
<1>10. RepliesOK(S, Q, D, W, U)
  <2>1. ASSUME NEW k \in 1 .. Len(R), k # i PROVE Fine(S, R, D, W, U, i, Q, k)
    <3>1. ReplyOK(S, R, T, k) /\ \A x \in T : FateOK(S, R, D, W, x, R[k])
      BY <1>1 DEF RepliesOK
    <3>2. R[k].rid \notin Mine(q) /\ R[k].rid # R[i].rid
      BY <2>1
    <3>3. \E x \in U : Answers(x, R[k])
      BY <3>1, <3>2, <1>3, AnswersMine DEF ReplyOK
    <3>4. R[k].res = "data" =>
            \/ \E x \in U : x.want = "data" /\ x.mid = R[k].rid
            \/ \E l \in 1 .. Len(R) : l < k /\ l # i /\ R[l].rid = R[k].rid
      BY <3>1, <3>2, <1>3 DEF ReplyOK, Mine
    <3>5. ASSUME NEW x \in U PROVE FateOK(S, Q, D, W, x, R[k])
      <4>1. FateOK(S, R, D, W, x, R[k])
        BY <3>1, <1>4
      <4>2. DataComes(R, W, R[k].rid) => DataComes(Q, W, R[k].rid)
        <5>1. ASSUME NEW j \in 1 .. Len(R), R[j].res = "data", R[j].rid = R[k].rid
              PROVE  DataComes(Q, W, R[k].rid)
          <6>1. j # i
            BY <5>1, <3>2
          <6> PICK m \in 1 .. Len(Q) : Q[m] = R[j]
            BY <6>1 DEF Without
          <6> QED
            BY <5>1 DEF DataComes
        <5> QED
          BY <5>1 DEF DataComes
      <4>3. \A r : IsAnswered(Q, r) => IsAnswered(R, r)
        BY <1>6a DEF IsAnswered
      <4> QED
        BY <4>1, <4>2, <4>3 DEF FateOK, NothingLeft
    <3> QED
      BY <3>3, <3>4, <3>5 DEF Fine
  <2> QED
    BY <2>1, <1>1, RepliesShorter
<1>11. NoBlockOK(S, Q, D, W, U)
  <2>1. \A x \in U : x.mid \notin Mine(q)
    BY <1>1, OneOwner DEF Mine, U
  <2> QED
    BY <2>1, <1>1, <1>4, <1>6 DEF NoBlockOK
<1>12. RequestsOK(U)
  BY <1>1, <1>4 DEF RequestsOK
<1> QED
  BY <1>5, <1>8, <1>9, <1>10, <1>11, <1>12, MailParts DEF U

(* The reply at i is the first one with the id of the request q.           *)
IsFirst(R, i, q) ==
  R[i].rid = q.mid /\ \A k \in 1 .. Len(R) : k < i => R[k].rid # q.mid

LEMMA FirstAnswer ==
  ASSUME NEW S, NEW R \in Seq(Replies), NEW D, NEW W, NEW T, NEW q \in T, NEW i \in 1 .. Len(R),
         Mail(S, R, D, W, T), IsFirst(R, i, q)
  PROVE  /\ Answers(q, R[i]) /\ ~ IsQueued(S, q.mid) /\ FateOK(S, R, D, W, q, R[i])
         /\ R[i].res = "data" => q.want = "data"
         /\ \A k \in 1 .. Len(R) : k # i /\ R[k].rid = q.mid =>
              i < k /\ R[i].res = "ok" /\ R[k].res = "data"
<1>1. RepliesOK(S, R, D, W, T) /\ RequestsOK(T)
  BY MailParts
<1>2. ReplyOK(S, R, T, i) /\ FateOK(S, R, D, W, q, R[i])
  BY <1>1 DEF RepliesOK
<1>3. R[i].rid \in Mine(q) /\ R[i].rid = q.mid
  BY DEF IsFirst, Mine
<1>4. Answers(q, R[i]) /\ ~ IsQueued(S, q.mid)
  BY <1>1, <1>2, <1>3, OneOwner, AnswersMine DEF ReplyOK
<1>5. ASSUME R[i].res = "data" PROVE q.want = "data"
  <2>1. \E p \in T : p.want = "data" /\ p.mid = R[i].rid
    BY <1>2, <1>3, <1>5 DEF ReplyOK, IsFirst
  <2> PICK p \in T : p.want = "data" /\ p.mid = R[i].rid
    BY <2>1
  <2>2. R[i].rid \in Mine(p)
    BY DEF Mine
  <2> QED
    BY <2>2, <1>1, <1>3, OneOwner
<1>6. ASSUME NEW k \in 1 .. Len(R), k # i, R[k].rid = q.mid
      PROVE  i < k /\ R[i].res = "ok" /\ R[k].res = "data"
  <2>1. ~ (k < i)
    BY <1>6 DEF IsFirst
  <2>2. i < k
    BY <2>1, <1>6
  <2> QED
    BY <2>2, <1>1, <1>3, <1>6 DEF RepliesOK
<1> QED
  BY <1>2, <1>4, <1>5, <1>6

LEMMA MailLeft ==
  ASSUME NEW S, NEW R \in Seq(Replies), NEW D, NEW W, NEW T, NEW q \in T, NEW i \in 1 .. Len(R), NEW Q,
         Without(R, i, Q), Mail(S, R, D, W, T), IsFirst(R, i, q),
         \A w \in W : w.at \in {"serve", "data"},
         q.want \in {"resp", "data", "cancel"},
         q.op = "read" /\ q.want = "resp" => R[i].res # "ok",
         q.want = "cancel" => R[i].res # "there"
  PROVE  Mail(S, Q, D, W, T \ {q})
<1>1. /\ QueueOK(S, W, T) /\ WorkOK(S, R, D, W, T) /\ DeferredOK(S, R, D, T)
      /\ RepliesOK(S, R, D, W, T) /\ NoBlockOK(S, R, D, W, T) /\ RequestsOK(T)
  BY MailParts
<1>2. /\ Answers(q, R[i]) /\ ~ IsQueued(S, q.mid) /\ FateOK(S, R, D, W, q, R[i])
      /\ R[i].res = "data" => q.want = "data"
      /\ \A k \in 1 .. Len(R) : k # i /\ R[k].rid = q.mid =>
           i < k /\ R[i].res = "ok" /\ R[k].res = "data"
  BY FirstAnswer
<1>3. R[i].rid = q.mid /\ q.mid \in Mine(q) /\ IsAnswered(R, q.mid) /\ q.mid = R[i].rid
  BY DEF IsFirst, IsAnswered, Mine
<1>4. /\ q.want = "cancel" => q.mid # q.old
      /\ q.want = "data" => q.op = "read"
  BY <1>1 DEF RequestsOK
<1>5. q.want = "cancel" => R[i].res = "cancelled"
  BY <1>2, <1>3, <1>4 DEF Answers, Base
<1>6. q.want = "data" => R[i].res = "data"
  BY <1>2 DEF Answers
<1>7. q.want = "resp" => R[i].res \in {"ok", "err"}
  BY <1>2 DEF Answers
<1>8. R[i].res = "ok" => q.want = "resp" /\ q.op # "read"
  BY <1>5, <1>6
<1>9. ASSUME NEW k \in 1 .. Len(R), k # i, R[k].rid = q.mid PROVE FALSE
  <2>1. R[i].res = "ok" /\ R[k].res = "data"
    BY <1>2, <1>9
  <2>2. PICK p \in T : Answers(p, R[k])
    BY <1>1 DEF RepliesOK, ReplyOK
  <2>3. p = q
    <3>1. R[k].rid \in Mine(p)
      BY <2>2, AnswersMine
    <3> QED
      BY <3>1, <1>1, <1>3, <1>9, OneOwner
  <2> QED
    BY <2>1, <2>2, <2>3, <1>8 DEF Answers
<1>10. ~ IsWorkedOn(W, q.mid)
  <2> SUFFICES ASSUME NEW w \in W, w.rid = q.mid PROVE FALSE
    BY DEF IsWorkedOn
  <2>1. w.at # "serve"
    BY <1>1, <1>3 DEF WorkOK, ServeOK
  <2>2. DataOK(R, T, w)
    BY <2>1, <1>1 DEF WorkOK
  <2>3. R[i].res = "ok"
    BY <2>2, <1>3 DEF DataOK
  <2>4. PICK p \in T : p.op = "read" /\ w.rid = Base(p)
    BY <2>2 DEF DataOK
  <2>5. p = q
    <3>1. q.mid \in Mine(p)
      BY <2>4 DEF Mine
    <3> QED
      BY <3>1, <1>1, <1>3, OneOwner
  <2> QED
    BY <2>3, <2>4, <2>5, <1>8
<1>11. ~ IsUnanswered(S, D, W, q.mid)
  BY <1>1, <1>2, <1>3, <1>10 DEF IsUnanswered, DeferredOK
<1>12. q.want = "cancel" => ~ IsUnanswered(S, D, W, q.old) /\ ~ IsAnswered(R, q.old)
  BY <1>2, <1>3, <1>5 DEF FateOK, NothingLeft
<1>13. \A r \in Mine(q) : r = q.mid \/ (q.want = "cancel" /\ r = q.old)
  BY DEF Mine, Base
<1>14. \A r \in Mine(q) : ~ IsUnanswered(S, D, W, r)
  BY <1>11, <1>12, <1>13
<1>15. \A k \in 1 .. Len(R) : k # i => R[k].rid \notin Mine(q)
  BY <1>9, <1>12, <1>13 DEF IsAnswered
<1> QED
  BY <1>3, <1>14, <1>15, MailGone

(* The reply at i is not the last answer: the client goes on with p in the *)
(* place of q.                                                             *)
GoesOn(S, R, D, W, q, i, Q, p) ==
  /\ Mine(p) \subseteq Mine(q) /\ Base(p) = Base(q) /\ p.op = q.op /\ p.mid = Base(q)
  /\ q.want # "data" /\ p.want # "cancel" /\ (p.want = "data" => p.op = "read")
  /\ R[i].rid \in Mine(q)
  /\ \A r \in Mine(q) : ~ IsQueued(S, r) /\ r \notin D
  /\ \A w \in W : w.rid \in Mine(q) => w.at = "data" /\ p.want = "data"
  /\ p.nb => /\ p.want = "resp" /\ ~ p.forced => ~ IsAnswered(Q, p.mid)
             /\ p.forced => ~ IsUnanswered(S, D, W, p.mid)
             /\ p.want = "data" => p.forced /\ IsAnswered(Q, p.mid)

Continues(S, R, D, W, q, i, Q, p) ==
  \A k \in 1 .. Len(R) : k # i /\ R[k].rid \in Mine(q) =>
    /\ Answers(p, R[k]) /\ FateOK(S, Q, D, W, p, R[k])
    /\ R[k].res = "data" =>
         \/ p.want = "data" /\ p.mid = R[k].rid
         \/ \E l \in 1 .. Len(R) : l < k /\ l # i /\ R[l].rid = R[k].rid

LEMMA MailGoesOn ==
  ASSUME NEW S, NEW R, NEW D, NEW W, NEW T, NEW q \in T, NEW i \in 1 .. Len(R), NEW Q, NEW p,
         Without(R, i, Q), Mail(S, R, D, W, T),
         GoesOn(S, R, D, W, q, i, Q, p), Continues(S, R, D, W, q, i, Q, p)
  PROVE  Mail(S, Q, D, W, (T \ {q}) \cup {p})
<1> DEFINE U == (T \ {q}) \cup {p}
<1>1. /\ QueueOK(S, W, T) /\ WorkOK(S, R, D, W, T) /\ DeferredOK(S, R, D, T)
      /\ RepliesOK(S, R, D, W, T) /\ NoBlockOK(S, R, D, W, T) /\ RequestsOK(T)
  BY MailParts
<1>2. /\ \A j \in 1 .. Len(S) : S[j].op # "close" => S[j].rid \notin Mine(q)
      /\ \A r \in D : r \notin Mine(q)
      /\ R[i].rid \in Mine(q)
  BY DEF GoesOn, IsQueued
<1>3. \A x \in T : x \in U \/ x = q
  OBVIOUS
<1>4. p \in U /\ \A x \in U : (x \in T /\ x # q) \/ x = p
  OBVIOUS
<1> HIDE DEF U
<1>5. QueueOK(S, W, U)
  <2>1. ASSUME NEW j \in 1 .. Len(S), S[j].op # "close" PROVE MessageOK(S, W, U, j)
    <3>1. MessageOK(S, W, T, j)
      BY <2>1, <1>1 DEF QueueOK
    <3>2. \E x \in U : Asks(x, S[j])
      BY <3>1, <2>1, <1>2, <1>3, AsksMine DEF MessageOK
    <3> QED
      BY <3>1, <3>2 DEF MessageOK
  <2> QED
    BY <2>1, <1>1 DEF QueueOK
<1>6a. \A r : IsAnswered(Q, r) <=> \E k \in 1 .. Len(R) : k # i /\ R[k].rid = r
  BY WithoutAnswer
<1>6. \A r : r \notin Mine(q) => (IsAnswered(Q, r) <=> IsAnswered(R, r))
  BY <1>2, <1>6a DEF IsAnswered
<1>7. \A k \in 1 .. Len(Q) : \E j \in 1 .. Len(R) : Q[k] = R[j]
  BY DEF Without
<1>8. WorkOK(S, Q, D, W, U)
  <2> SUFFICES ASSUME NEW w \in W
               PROVE  /\ w.rid \notin D
                      /\ w.at = "serve" => ServeOK(S, Q, U, w)
                      /\ w.at = "data" => DataOK(Q, U, w)
                      /\ \A j \in 1 .. Len(S) : S[j].op # "close" /\ S[j].rid = w.rid =>
                           j = 1 /\ w.at = "serve" /\ w.op = "write"
    BY DEF WorkOK
  <2>1. /\ w.rid \notin D
        /\ w.at = "serve" => ServeOK(S, R, T, w)
        /\ w.at = "data" => DataOK(R, T, w)
        /\ \A j \in 1 .. Len(S) : S[j].op # "close" /\ S[j].rid = w.rid =>
             j = 1 /\ w.at = "serve" /\ w.op = "write"
    BY <1>1 DEF WorkOK
  <2>2. ASSUME w.at = "serve" PROVE ServeOK(S, Q, U, w)
    <3>1. w.rid \notin Mine(q)
      BY <2>2 DEF GoesOn
    <3>2. \E x \in U : Asks(x, w)
      BY <3>1, <2>1, <2>2, <1>3, AsksMine DEF ServeOK
    <3> QED
      BY <3>1, <3>2, <2>1, <2>2, <1>6 DEF ServeOK
  <2>3. ASSUME w.at = "data" PROVE DataOK(Q, U, w)
    <3> PICK x \in T : /\ x.op = "read" /\ w.rid = Base(x)
                       /\ x.want = "data" \/ IsAnswered(R, w.rid)
      BY <2>1, <2>3 DEF DataOK
    <3>1. \A k \in 1 .. Len(Q) : Q[k].rid = w.rid => Q[k].res = "ok"
      BY <1>7, <2>1, <2>3 DEF DataOK
    <3>2. CASE x = q
      <4>1. w.rid \in Mine(q)
        BY <3>2 DEF Mine
      <4>2. p.want = "data" /\ p.op = "read" /\ w.rid = Base(p)
        BY <3>2, <4>1 DEF GoesOn
      <4> QED
        BY <4>2, <3>1, <1>4 DEF DataOK
    <3>3. CASE x # q
      <4>1. w.rid \notin Mine(q)
        <5>1. w.rid \in Mine(x)
          BY DEF Mine
        <5> QED
          BY <5>1, <3>3, <1>1, OneOwner
      <4> QED
        BY <4>1, <3>1, <3>3, <1>3, <1>6 DEF DataOK
    <3> QED
      BY <3>2, <3>3
  <2> QED
    BY <2>1, <2>2, <2>3
<1>9. DeferredOK(S, Q, D, U)
  <2> SUFFICES ASSUME NEW r \in D
               PROVE  /\ \E x \in U : x.op = "read" /\ x.want # "data" /\ r = Base(x)
                      /\ ~ IsQueued(S, r) /\ ~ IsAnswered(Q, r)
    BY DEF DeferredOK
  <2> PICK x \in T : x.op = "read" /\ x.want # "data" /\ r = Base(x)
    BY <1>1 DEF DeferredOK
  <2>1. x # q
    BY <1>2 DEF Mine
  <2> QED
    BY <2>1, <1>1, <1>2, <1>3, <1>6 DEF DeferredOK
<1>10. ASSUME NEW x \in T, x # q PROVE x.mid \notin Mine(q) /\ Base(x) \notin Mine(q)
  <2>1. x.mid \in Mine(x) /\ Base(x) \in Mine(x)
    BY DEF Mine
  <2> QED
    BY <2>1, <1>1, <1>10, OneOwner
<1>11. RepliesOK(S, Q, D, W, U)
  <2>1. ASSUME NEW k \in 1 .. Len(R), k # i PROVE Fine(S, R, D, W, U, i, Q, k)
    <3>1. ReplyOK(S, R, T, k) /\ \A x \in T : FateOK(S, R, D, W, x, R[k])
      BY <1>1 DEF RepliesOK
    <3>2. CASE R[k].rid \in Mine(q)
      <4>1. /\ Answers(p, R[k]) /\ FateOK(S, Q, D, W, p, R[k])
            /\ R[k].res = "data" =>
                 \/ p.want = "data" /\ p.mid = R[k].rid
                 \/ \E l \in 1 .. Len(R) : l < k /\ l # i /\ R[l].rid = R[k].rid
        BY <2>1, <3>2 DEF Continues
      <4>2. ASSUME NEW x \in T, x # q PROVE FateOK(S, Q, D, W, x, R[k])
        BY <4>2, <3>2, <1>10 DEF FateOK
      <4> QED
        BY <4>1, <4>2, <1>4 DEF Fine
    <3>3. CASE R[k].rid \notin Mine(q)
      <4>1. \E x \in U : Answers(x, R[k])
        BY <3>1, <3>3, <1>3, AnswersMine DEF ReplyOK
      <4>2. R[k].res = "data" =>
              \/ \E x \in U : x.want = "data" /\ x.mid = R[k].rid
              \/ \E l \in 1 .. Len(R) : l < k /\ l # i /\ R[l].rid = R[k].rid
        BY <3>1, <3>3, <1>2, <1>3 DEF ReplyOK, Mine
      <4>3. FateOK(S, Q, D, W, p, R[k])
        BY <3>3 DEF FateOK, GoesOn, Mine
      <4>4. ASSUME NEW x \in T PROVE FateOK(S, Q, D, W, x, R[k])
        <5>1. FateOK(S, R, D, W, x, R[k])
          BY <3>1
        <5>2. DataComes(R, W, R[k].rid) => DataComes(Q, W, R[k].rid)
          <6>1. ASSUME NEW j \in 1 .. Len(R), R[j].res = "data", R[j].rid = R[k].rid
                PROVE  DataComes(Q, W, R[k].rid)
            <7>1. j # i
              BY <6>1, <3>3, <1>2
            <7> PICK m \in 1 .. Len(Q) : Q[m] = R[j]
              BY <7>1 DEF Without
            <7> QED
              BY <6>1 DEF DataComes
          <6> QED
            BY <6>1 DEF DataComes
        <5>3. \A r : IsAnswered(Q, r) => IsAnswered(R, r)
          BY <1>6a DEF IsAnswered
        <5> QED
          BY <5>1, <5>2, <5>3 DEF FateOK, NothingLeft
      <4> QED
        BY <4>1, <4>2, <4>3, <4>4, <1>4 DEF Fine
    <3> QED
      BY <3>2, <3>3
  <2> QED
    BY <2>1, <1>1, RepliesShorter
<1>12. NoBlockOK(S, Q, D, W, U)
  <2>1. \A x \in U : x # p => x \in T /\ x.mid \notin Mine(q)
    BY <1>4, <1>10
  <2> QED
    BY <2>1, <1>1, <1>6 DEF NoBlockOK, GoesOn
<1>13. RequestsOK(U)
  <2>1. /\ 0 \notin Mine(p) /\ p.op \in {"open", "read", "write"} /\ p.want # "cancel"
        /\ p.want = "data" => p.op = "read"
    BY <1>1 DEF RequestsOK, GoesOn
  <2>2. \A x \in T : x # q => Mine(p) \cap Mine(x) = {}
    BY <1>1 DEF RequestsOK, GoesOn
  <2> QED
    BY <1>1, <1>4, <2>1, <2>2 DEF RequestsOK
<1> QED
  BY <1>5, <1>8, <1>9, <1>11, <1>12, <1>13, MailParts DEF U

(* A read is answered: now the client wants the data.                      *)
LEMMA MailMore ==
  ASSUME NEW S, NEW R \in Seq(Replies), NEW D, NEW W, NEW T, NEW q \in T, NEW i \in 1 .. Len(R), NEW Q,
         NEW p, Without(R, i, Q), Mail(S, R, D, W, T), IsFirst(R, i, q),
         \A w \in W : w.at \in {"serve", "data"},
         q.op = "read", q.want = "resp", R[i].res = "ok",
         p.op = q.op, p.want = "data", p.mid = q.mid, p.nb = q.nb, p.forced = q.forced
  PROVE  Mail(S, Q, D, W, (T \ {q}) \cup {p})
<1>1. /\ QueueOK(S, W, T) /\ WorkOK(S, R, D, W, T) /\ DeferredOK(S, R, D, T)
      /\ RepliesOK(S, R, D, W, T) /\ NoBlockOK(S, R, D, W, T) /\ RequestsOK(T)
  BY MailParts
<1>2. /\ Answers(q, R[i]) /\ ~ IsQueued(S, q.mid) /\ FateOK(S, R, D, W, q, R[i])
      /\ \A k \in 1 .. Len(R) : k # i /\ R[k].rid = q.mid =>
           i < k /\ R[i].res = "ok" /\ R[k].res = "data"
  BY FirstAnswer
<1>3. R[i].rid = q.mid /\ IsAnswered(R, q.mid)
  BY DEF IsFirst, IsAnswered
<1>4. Mine(q) = {q.mid} /\ Mine(p) = {q.mid} /\ Base(q) = q.mid /\ Base(p) = q.mid
  BY DEF Mine, Base
<1>5. q.mid \notin D /\ \A w \in W : w.rid = q.mid => w.at = "data"
  BY <1>1, <1>3 DEF DeferredOK, WorkOK, ServeOK
<1>6. p.nb => p.forced /\ IsAnswered(Q, p.mid) /\ ~ IsUnanswered(S, D, W, p.mid)
  <2> SUFFICES ASSUME p.nb PROVE p.forced /\ IsAnswered(Q, p.mid) /\ ~ IsUnanswered(S, D, W, p.mid)
    OBVIOUS
  <2>1. q.forced /\ ~ IsUnanswered(S, D, W, q.mid)
    BY <1>1, <1>3 DEF NoBlockOK
  <2>2. DataComes(R, W, q.mid)
    BY <1>2, <1>3, <1>4 DEF FateOK
  <2>3. PICK j \in 1 .. Len(R) : R[j].res = "data" /\ R[j].rid = q.mid
    BY <2>1, <2>2 DEF DataComes, IsUnanswered
  <2>4. j # i
    BY <2>3
  <2> QED
    BY <2>1, <2>3, <2>4, WithoutAnswer
<1>7. GoesOn(S, R, D, W, q, i, Q, p)
  BY <1>2, <1>3, <1>4, <1>5, <1>6 DEF GoesOn
<1>8. Continues(S, R, D, W, q, i, Q, p)
  <2> SUFFICES ASSUME NEW k \in 1 .. Len(R), k # i, R[k].rid = q.mid
               PROVE  /\ Answers(p, R[k]) /\ FateOK(S, Q, D, W, p, R[k])
                      /\ p.want = "data" /\ p.mid = R[k].rid
    BY <1>4 DEF Continues
  <2>1. R[k].res = "data"
    BY <1>2
  <2> QED
    BY <2>1, <1>4 DEF Answers, FateOK
<1> QED
  BY <1>7, <1>8, MailGoesOn

(* The request to cancel has been answered before: the client is going to  *)
(* fetch the answer.                                                       *)
LEMMA MailThere ==
  ASSUME NEW S, NEW R \in Seq(Replies), NEW D, NEW W, NEW T, NEW q \in T, NEW i \in 1 .. Len(R), NEW Q,
         NEW p, Without(R, i, Q), Mail(S, R, D, W, T), IsFirst(R, i, q),
         \A w \in W : w.at \in {"serve", "data"},
         q.want = "cancel", R[i].res = "there",
         p.op = q.op, p.want = "resp", p.mid = q.old, p.nb = q.nb, p.forced
  PROVE  Mail(S, Q, D, W, (T \ {q}) \cup {p})
<1>1. /\ QueueOK(S, W, T) /\ WorkOK(S, R, D, W, T) /\ DeferredOK(S, R, D, T)
      /\ RepliesOK(S, R, D, W, T) /\ NoBlockOK(S, R, D, W, T) /\ RequestsOK(T)
  BY MailParts
<1>2. /\ Answers(q, R[i]) /\ ~ IsQueued(S, q.mid) /\ FateOK(S, R, D, W, q, R[i])
      /\ \A k \in 1 .. Len(R) : k # i /\ R[k].rid = q.mid =>
           i < k /\ R[i].res = "ok" /\ R[k].res = "data"
  BY FirstAnswer
<1>3. R[i].rid = q.mid /\ IsAnswered(R, q.mid) /\ q.mid # q.old
  BY <1>1 DEF IsFirst, IsAnswered, RequestsOK
<1>4. Mine(q) = {q.mid, q.old} /\ Mine(p) = {q.old} /\ Base(q) = q.old /\ Base(p) = q.old
  BY DEF Mine, Base
<1>5. ~ IsUnanswered(S, D, W, q.old)
  BY <1>2, <1>3 DEF FateOK, NothingLeft
<1>6. \A k \in 1 .. Len(R) : k # i => R[k].rid # q.mid
  BY <1>2
<1>7. /\ q.mid \notin D /\ q.old \notin D /\ ~ IsQueued(S, q.old)
      /\ \A w \in W : w.rid # q.old
  BY <1>1, <1>3, <1>5 DEF DeferredOK, IsUnanswered, IsWorkedOn
<1>8. ASSUME NEW w \in W, w.rid = q.mid PROVE FALSE
  <2>1. w.at # "serve"
    BY <1>1, <1>3, <1>8 DEF WorkOK, ServeOK
  <2>2. DataOK(R, T, w)
    BY <2>1, <1>1 DEF WorkOK
  <2> QED
    BY <2>2, <1>3, <1>8 DEF DataOK
<1>9. GoesOn(S, R, D, W, q, i, Q, p)
  BY <1>2, <1>3, <1>4, <1>5, <1>7, <1>8 DEF GoesOn
<1>10. ASSUME NEW k \in 1 .. Len(R), k # i, R[k].rid \in Mine(q)
       PROVE  /\ Answers(p, R[k]) /\ FateOK(S, Q, D, W, p, R[k])
              /\ R[k].res = "data" =>
                   \E l \in 1 .. Len(R) : l < k /\ l # i /\ R[l].rid = R[k].rid
  <2>1. R[k].rid = q.old
    BY <1>4, <1>6, <1>10
  <2>2. ReplyOK(S, R, T, k) /\ FateOK(S, R, D, W, q, R[k])
    BY <1>1 DEF RepliesOK
  <2>3. Answers(q, R[k])
    <3> PICK x \in T : Answers(x, R[k])
      BY <2>2 DEF ReplyOK
    <3>1. R[k].rid \in Mine(x)
      BY AnswersMine
    <3>2. x = q
      BY <3>1, <1>1, <1>10, OneOwner
    <3> QED
      BY <3>2
  <2>4. Answers(p, R[k]) /\ R[k].res \in {"ok", "err", "data"}
    BY <2>1, <2>3, <1>3, <1>4 DEF Answers
  <2>5. ASSUME R[k].res = "data"
        PROVE  \E l \in 1 .. Len(R) : l < k /\ l # i /\ R[l].rid = R[k].rid
    <3>1. ~ \E x \in T : x.want = "data" /\ x.mid = R[k].rid
      <4> SUFFICES ASSUME NEW x \in T, x.want = "data", x.mid = R[k].rid PROVE FALSE
        OBVIOUS
      <4>1. R[k].rid \in Mine(x)
        BY DEF Mine
      <4>2. x = q
        BY <4>1, <1>1, <1>10, OneOwner
      <4> QED
        BY <4>2
    <3> QED
      BY <3>1, <2>1, <2>2, <2>5, <1>3 DEF ReplyOK
  <2>6. DataComes(R, W, q.old) => DataComes(Q, W, q.old)
    <3>1. ASSUME NEW j \in 1 .. Len(R), R[j].res = "data", R[j].rid = q.old
          PROVE  DataComes(Q, W, q.old)
      <4>1. j # i
        BY <3>1, <1>3
      <4> PICK m \in 1 .. Len(Q) : Q[m] = R[j]
        BY <4>1 DEF Without
      <4> QED
        BY <3>1 DEF DataComes
    <3> QED
      BY <3>1 DEF DataComes
  <2>7. FateOK(S, Q, D, W, p, R[k])
    BY <2>1, <2>2, <2>4, <2>6, <1>4 DEF FateOK
  <2> QED
    BY <2>4, <2>5, <2>7
<1>11. Continues(S, R, D, W, q, i, Q, p)
  BY <1>10 DEF Continues
<1> QED
  BY <1>9, <1>11, MailGoesOn
-----------------------------------------------------------------------------
MailAt(c) == Mail(sendList[c], recvList[c], deferred[c], Works(c), Asking(c))

Job(h) == [at |-> pc[h], rid |-> req[h].mid, op |-> req[h].op, of |-> req[h].old]

LEMMA MailInvParts ==
  MailInv <=> /\ \A t \in Client : Waiting(t)
              /\ \A h \in Handler : Bound(h)
              /\ \A c \in Chan : Deserted(c)
              /\ \A c \in Chan : Alive(c) => MailAt(c)
BY DEF MailInv, MailAt

LEMMA MailInvPartsNext ==
  MailInv' <=> /\ \A t \in Client : Waiting(t)'
               /\ \A h \in Handler : Bound(h)'
               /\ \A c \in Chan : Deserted(c)'
               /\ \A c \in Chan : Alive(c)' => MailAt(c)'
BY DEF MailInv, MailAt

LEMMA WorksType ==
  ASSUME NEW c
  PROVE  \A w \in Works(c) : w.at \in {"serve", "data"}
BY DEF Works, Busy

(* The mail of a channel that a step does not touch.                       *)
LEMMA MailElsewhere ==
  ASSUME ChanInv, NEW t \in Thread, NEW e, Touches(t, e), NEW d \in Chan, d # e
  PROVE  Alive(d)' = Alive(d) /\ (MailAt(d)' <=> MailAt(d))
<1>1. chan[t] # d /\ chan'[t] # d
  BY ChannelAssumption DEF Touches
<1>2. \A u \in Thread : u # t =>
        pc'[u] = pc[u] /\ chan'[u] = chan[u] /\ req'[u] = req[u]
  BY DEF Touches
<1>3. /\ node'[d] = node[d]
      /\ sendList'[d] = sendList[d] /\ recvList'[d] = recvList[d]
      /\ deferred'[d] = deferred[d]
  BY DEF Touches
<1>4. Asking(d)' = Asking(d)
  <2>1. \A u \in Client : Active(u, d)' <=> Active(u, d)
    BY <1>1, <1>2 DEF Active, Thread
  <2>2. \A u \in Client : Active(u, d) => req'[u] = req[u]
    BY <1>1, <1>2 DEF Active, Thread
  <2> QED
    BY <2>1, <2>2 DEF Asking
<1>5. Works(d)' = Works(d)
  <2>1. \A h \in Handler : Busy(h, d)' <=> Busy(h, d)
    BY <1>1, <1>2 DEF Busy, Thread
  <2>2. \A h \in Handler : Busy(h, d) => req'[h] = req[h] /\ pc'[h] = pc[h]
    BY <1>1, <1>2 DEF Busy, Thread
  <2> QED
    BY <2>1, <2>2 DEF Works
<1> QED
  BY <1>3, <1>4, <1>5 DEF MailAt, Alive

LEMMA AskingStays ==
  ASSUME NEW t \in Thread, t \notin Client, NEW e, Touches(t, e)
  PROVE  Asking(e)' = Asking(e)
<1>1. \A u \in Client : pc'[u] = pc[u] /\ chan'[u] = chan[u] /\ req'[u] = req[u]
  BY DEF Touches, Thread
<1>2. \A u \in Client : Active(u, e)' <=> Active(u, e)
  BY <1>1 DEF Active
<1> QED
  BY <1>1, <1>2 DEF Asking

LEMMA WorksStay ==
  ASSUME NEW t \in Thread, t \notin Handler, NEW e, Touches(t, e)
  PROVE  Works(e)' = Works(e)
<1>1. \A u \in Handler : pc'[u] = pc[u] /\ chan'[u] = chan[u] /\ req'[u] = req[u]
  BY DEF Touches, Thread
<1>2. \A u \in Handler : Busy(u, e)' <=> Busy(u, e)
  BY <1>1 DEF Busy
<1> QED
  BY <1>1, <1>2 DEF Works

(* A channel that is bound to h has at most the work of h.                 *)
LEMMA OneJob ==
  ASSUME MailInv, NEW h \in Handler, NEW e \in Chan, handler[e] = h, Touches(h, e)
  PROVE  /\ Works(e) = IF Busy(h, e) THEN {Job(h)} ELSE {}
         /\ Works(e)' = IF Busy(h, e)' THEN {Job(h)'} ELSE {}
<1>1. \A g \in Handler : Bound(g)
  BY MailInvParts
<1>2. \A g \in Handler : Busy(g, e) => g = h
  BY <1>1 DEF Bound, Busy
<1>3. \A g \in Handler : g # h => pc'[g] = pc[g] /\ chan'[g] = chan[g]
  BY DEF Touches, Thread
<1>4. \A g \in Handler : Busy(g, e)' => g = h
  BY <1>2, <1>3 DEF Busy
<1>5. Works(e) = IF Busy(h, e) THEN {Job(h)} ELSE {}
  BY <1>2 DEF Works, Job
<1>6. Works(e)' = IF Busy(h, e)' THEN {Job(h)'} ELSE {}
  BY <1>4 DEF Works, Job
<1> QED
  BY <1>5, <1>6

(* The requests of the other clients are not that of t.                    *)
Own(t, e) == IF Active(t, e) THEN {req[t]} ELSE {}

LEMMA OneRequest ==
  ASSUME ChanInv, MailInv, NEW t \in Client, NEW e \in Chan, Touches(t, e)
  PROVE  Own(t, e) \subseteq Asking(e) /\ Asking(e)' = (Asking(e) \ Own(t, e)) \cup Own(t, e)'
<1>1. \A u \in Client : Waiting(u) /\ ClientAt(u)
  BY MailInvParts DEF ChanInv
<1>2. \A u \in Client : Active(u, e) => req[u].op # "none"
  BY <1>1 DEF ClientAt, Active
<1>3. \A q : Mine(q) # {}
  BY DEF Mine
<1>4. ASSUME NEW u \in Client, u # t, Active(u, e), Active(t, e) PROVE req[u] # req[t]
  <2>1. Mine(req[t]) \cap Mine(req[u]) = {}
    BY <1>1, <1>2, <1>4 DEF Waiting
  <2> QED
    BY <2>1, <1>3
<1>5. \A u \in Client : u # t => /\ pc'[u] = pc[u] /\ chan'[u] = chan[u] /\ req'[u] = req[u]
  BY DEF Touches, Thread
<1>6. \A u \in Client : u # t => (Active(u, e)' <=> Active(u, e))
  BY <1>5 DEF Active
<1>7. Own(t, e) \subseteq Asking(e)
  BY DEF Own, Asking
<1>8. ASSUME NEW x \in Asking(e)' PROVE x \in (Asking(e) \ Own(t, e)) \cup Own(t, e)'
  <2> PICK u \in Client : Active(u, e)' /\ x = req'[u]
    BY <1>8 DEF Asking
  <2>1. CASE u = t
    BY <2>1 DEF Own
  <2>2. CASE u # t
    BY <2>2, <1>4, <1>5, <1>6 DEF Own, Asking
  <2> QED
    BY <2>1, <2>2
<1>9. ASSUME NEW x \in Asking(e), x \notin Own(t, e) PROVE x \in Asking(e)'
  <2> PICK u \in Client : Active(u, e) /\ x = req[u]
    BY <1>9 DEF Asking
  <2>1. u # t
    BY <1>9 DEF Own
  <2> QED
    BY <2>1, <1>5, <1>6 DEF Asking
<1>10. Own(t, e)' \subseteq Asking(e)'
  BY DEF Own, Asking
<1> QED
  BY <1>7, <1>8, <1>9, <1>10

(* The clients still know what they wait for, and the ids stay apart.      *)
LEMMA WaitingKept ==
  ASSUME MailInv, RidFree, NEW t \in Client, NEW e, Touches(t, e),
         pc'[t] = "cancel" => req'[t].want = "resp" /\ ~ req'[t].forced,
         req'[t].nb /\ req'[t].want = "resp" /\ ~ req'[t].forced => pc'[t] # "asleep",
         req'[t].op # "none" =>
           \A x \in Mine(req'[t]) : x = Rid \/ (req[t].op # "none" /\ x \in Mine(req[t]))
  PROVE  \A u \in Client : Waiting(u)'
<1>1. \A u \in Client : Waiting(u)
  BY MailInvParts
<1>2. \A u \in Client : u # t => /\ pc'[u] = pc[u] /\ req'[u] = req[u]
  BY DEF Touches, Thread
<1>3. ASSUME NEW u \in Client, u # t, req'[t].op # "none", req[u].op # "none"
      PROVE  Mine(req'[t]) \cap Mine(req[u]) = {}
  <2>1. Rid \notin Mine(req[u])
    BY <1>3 DEF RidFree
  <2>2. req[t].op # "none" => Mine(req[t]) \cap Mine(req[u]) = {}
    BY <1>1, <1>3 DEF Waiting
  <2> QED
    BY <2>1, <2>2, <1>3
<1>4. \A u \in Client : Mine(req[u])' = Mine(req'[u])
  BY DEF Mine, Base
<1>5. Waiting(t)'
  BY <1>2, <1>3, <1>4 DEF Waiting
<1>6. ASSUME NEW u \in Client, u # t PROVE Waiting(u)'
  <2>1. Waiting(u)
    BY <1>1
  <2>2. ASSUME NEW v \in Client \ {u}, req'[u].op # "none", req'[v].op # "none"
        PROVE  Mine(req'[u]) \cap Mine(req'[v]) = {}
    <3>1. CASE v = t
      BY <3>1, <2>2, <1>2, <1>3, <1>6
    <3>2. CASE v # t
      BY <3>2, <2>1, <2>2, <1>2, <1>6 DEF Waiting
    <3> QED
      BY <3>1, <3>2
  <2> QED
    BY <2>1, <2>2, <1>2, <1>4, <1>6 DEF Waiting
<1> QED
  BY <1>5, <1>6

LEMMA WaitingStays ==
  ASSUME MailInv, NEW t \in Thread, t \notin Client, NEW e, Touches(t, e)
  PROVE  \A u \in Client : Waiting(u)'
<1>1. \A u \in Client : Waiting(u)
  BY MailInvParts
<1>2. \A u \in Client : /\ pc'[u] = pc[u] /\ req'[u] = req[u]
  BY DEF Touches, Thread
<1> QED
  BY <1>1, <1>2 DEF Waiting, Mine, Base

LEMMA BoundKept ==
  ASSUME MailInv, NEW t \in Thread, NEW e, Touches(t, e), t \in Handler => Bound(t)',
         \A d \in Chan : handler'[d] = handler[d] \/
           \A h \in Handler \ {t} : chan[h] = d => pc[h] \notin {"fetch", "serve", "data"},
         ChanInv
  PROVE  \A h \in Handler : Bound(h)'
<1>1. \A h \in Handler : Bound(h) /\ HandlerAt(h)
  BY MailInvParts DEF ChanInv
<1>2. ASSUME NEW h \in Handler, h # t PROVE Bound(h)'
  <2>1. pc'[h] = pc[h] /\ chan'[h] = chan[h]
    BY <1>2 DEF Touches, Thread
  <2>2. pc[h] \in {"fetch", "serve", "data"} => chan[h] \in Chan
    BY <1>1 DEF HandlerAt
  <2> QED
    BY <2>1, <2>2, <1>1, <1>2 DEF Bound
<1> QED
  BY <1>2

LEMMA DesertedKept ==
  ASSUME ChanInv, MailInv, NEW t \in Thread, NEW e, Touches(t, e),
         \A d \in Chan : d # e => closed'[d] = closed[d],
         e \in Chan => Deserted(e)'
  PROVE  \A c \in Chan : Deserted(c)'
<1>1. ASSUME NEW d \in Chan, d # e PROVE Deserted(d)'
  <2>1. Deserted(d)
    BY MailInvParts
  <2>2. chan[t] # d /\ chan'[t] # d
    BY <1>1, ChannelAssumption DEF Touches
  <2>3. \A u \in Client : u # t =>
          pc'[u] = pc[u] /\ chan'[u] = chan[u] /\ req'[u] = req[u]
    BY DEF Touches, Thread
  <2>4. node'[d] = node[d] /\ clientFile'[d] = clientFile[d] /\ closed'[d] = closed[d]
    BY <1>1 DEF Touches
  <2>5. Openers(d)' = Openers(d)
    BY <2>2, <2>3 DEF Openers
  <2>6. (\E u \in Client : chan[u] = d /\ pc[u] \in {"close", "setclosed"})' =>
          \E u \in Client : chan[u] = d /\ pc[u] \in {"close", "setclosed"}
    BY <2>2, <2>3
  <2> QED
    BY <2>1, <2>4, <2>5, <2>6 DEF Deserted
<1> QED
  BY <1>1

(* It stays deserted or not.                                               *)
LEMMA DesertedStays ==
  ASSUME ChanInv, MailInv, NEW t \in Thread, NEW e \in Chan, Touches(t, e),
         closed'[e] = closed[e], clientFile'[e] => clientFile[e],
         t \in Client => /\ t \in Openers(e)' => t \in Openers(e)
                         /\ pc'[t] \in {"close", "setclosed"} => pc[t] \in {"close", "setclosed"} /\ chan[t] = e,
         node'[e] # "unused"
  PROVE  Deserted(e)'
<1>1. Deserted(e)
  BY MailInvParts
<1>2. \A u \in Client \ {t} : u \in Openers(e)' <=> u \in Openers(e)
  BY OpenersKept
<1>3. Openers(e) \subseteq Client /\ Openers(e)' \subseteq Client
  BY DEF Openers
<1>4. Openers(e)' \subseteq Openers(e)
  BY <1>2, <1>3
<1>5. (\E u \in Client : chan[u] = e /\ pc[u] \in {"close", "setclosed"})' =>
        \E u \in Client : chan[u] = e /\ pc[u] \in {"close", "setclosed"}
  BY DEF Touches, Thread
<1> QED
  BY <1>1, <1>4, <1>5 DEF Deserted

(* The mail is fine again if it is where the step touches it.              *)
LEMMA MailAssembled ==
  ASSUME ChanInv, MailInv, NEW t \in Thread, NEW e, Touches(t, e),
         \A u \in Client : Waiting(u)', \A h \in Handler : Bound(h)',
         \A c \in Chan : Deserted(c)',
         e \in Chan /\ Alive(e)' => MailAt(e)'
  PROVE  MailInv'
<1>1. ASSUME NEW d \in Chan, Alive(d)' PROVE MailAt(d)'
  <2>1. CASE d = e
    BY <2>1, <1>1
  <2>2. CASE d # e
    BY <2>2, <1>1, MailElsewhere, MailInvParts
  <2> QED
    BY <2>1, <2>2
<1> QED
  BY <1>1, MailInvPartsNext

(* While a thread of the driver runs, no client is between its request on  *)
(* a file with VFS_NOBLOCK and the look for the answer.                    *)
LEMMA CalmHere ==
  ASSUME NCPU = 1, ChanInv, MailInv, NEW h \in Handler, NEW p, At(h, p), NEW e
  PROVE  Calm(Asking(e))
<1>1. h \in Thread /\ h \notin Client
  BY ChannelAssumption DEF Thread
<1>2. \A u \in Client : pc[u] \in Outside /\ Waiting(u)
  BY <1>1, AloneInside, MailInvParts DEF Thread
<1>3. ASSUME NEW u \in Client, Active(u, e)
      PROVE  ~ (req[u].nb /\ req[u].want = "resp" /\ ~ req[u].forced)
  BY <1>2, <1>3 DEF Active, Outside, Waiting
<1> QED BY <1>3 DEF Asking, Calm

(* A step of the driver that keeps the mail of its channel in order.       *)
LEMMA DriverActs ==
  ASSUME ChanInv, MailInv, NEW h \in Handler, NEW e, Touches(h, e),
         closed' = closed, clientFile' = clientFile,
         e \in Chan => node'[e] # "unused",
         \A d \in Chan : handler'[d] = handler[d] \/ (d = e /\ handler[e] = h),
         Bound(h)', e \in Chan /\ Alive(e)' => MailAt(e)'
  PROVE  MailInv'
<1>1. h \in Thread /\ h \notin Client
  BY ChannelAssumption DEF Thread
<1>2. \A u \in Client : Waiting(u)'
  BY <1>1, WaitingStays
<1>3. \A g \in Handler : Bound(g)'
  <2>1. ASSUME NEW d \in Chan, handler'[d] # handler[d], NEW g \in Handler \ {h}, chan[g] = d
        PROVE  pc[g] \notin {"fetch", "serve", "data"}
    <3>1. d = e /\ handler[e] = h
      BY <2>1
    <3>2. Bound(g)
      BY MailInvParts
    <3> QED BY <2>1, <3>1, <3>2 DEF Bound
  <2> QED BY <1>1, <2>1, BoundKept
<1>4. e \in Chan => Deserted(e)'
  BY <1>1, DesertedStays
<1>5. \A c \in Chan : Deserted(c)'
  BY <1>1, <1>4, DesertedKept
<1> QED BY <1>1, <1>2, <1>3, <1>5, MailAssembled

(* The driver has a request: where it stands in the mail of its channel.   *)
LEMMA AtWork ==
  ASSUME NCPU = 1, ChanInv, MailInv, NEW h \in Handler, NEW p \in {"serve", "data"}, At(h, p),
         NEW e \in Chan, e = chan[h]
  PROVE  /\ handler[e] = h /\ Calm(Asking(e)) /\ pc[h] = p /\ TypeOK /\ h \in Thread
         /\ h \notin Client /\ node[e] # "unused" /\ req[h] \in Reqs
         /\ req[h].mid \in Rids /\ req[h].old \in Rids
         /\ sendList[e] \in Seq(Messages) /\ recvList[e] \in Seq(Replies)
         /\ Works(e) = {Job(h)}
         /\ Alive(e) => Mail(sendList[e], recvList[e], deferred[e], {Job(h)}, Asking(e))
<1>1. pc[h] = p
  BY DEF At
<1>2. /\ TypeOK /\ h \in Thread /\ node[e] # "unused" /\ req[h] \in Reqs
      /\ req[h].mid \in Rids /\ req[h].old \in Rids /\ Busy(h, e)
  BY <1>1, BusyHandler
<1>3. Bound(h) /\ h \notin Client
  BY MailInvParts, ChannelAssumption
<1>4. handler[e] = h
  BY <1>1, <1>3 DEF Bound
<1>5. Calm(Asking(e))
  BY CalmHere
<1>6. sendList[e] \in Seq(Messages) /\ recvList[e] \in Seq(Replies)
  BY <1>2 DEF TypeOK, ListTypes
<1>7. Works(e) = {Job(h)}
  <2>1. \A g \in Handler : Busy(g, e) => g = h
    BY <1>4, MailInvParts DEF Bound, Busy
  <2> QED BY <1>2, <2>1 DEF Works, Job
<1>8. Alive(e) => MailAt(e)
  BY MailInvParts
<1> QED BY <1>1, <1>2, <1>3, <1>4, <1>5, <1>6, <1>7, <1>8 DEF MailAt

(* The driver is done with its request, and looks for the next one.        *)
LEMMA DoneWith ==
  ASSUME NCPU = 1, ChanInv, MailInv, NEW h \in Handler, NEW p \in {"serve", "data"}, At(h, p),
         NEW e \in Chan, e = chan[h], Leave(h, "loop"),
         UNCHANGED <<nodeVars, closed, sendList>>,
         \A d \in Chan \ {e} : /\ recvList'[d] = recvList[d] /\ deferred'[d] = deferred[d]
                               /\ handler'[d] = handler[d],
         Alive(e) => Mail(sendList[e], recvList'[e], deferred'[e], {}, Asking(e))
  PROVE  MailInv'
<1>1. /\ handler[e] = h /\ TypeOK /\ h \in Thread /\ h \notin Client /\ node[e] # "unused"
  BY AtWork
<1>2. GoOn(h, e, "loop") /\ "loop" \in Points
  BY DEF Leave, Points, Outside
<1>3. /\ pc'[h] = "loop" /\ chan'[h] = None
      /\ \A u \in Thread \ {h} : pc'[u] = pc[u] /\ chan'[u] = chan[u] /\ req'[u] = req[u]
  BY <1>1, <1>2, GoOnEffect
<1>4. /\ node' = node /\ refs' = refs /\ clientFile' = clientFile /\ driverFile' = driverFile
  BY DEF nodeVars
<1>5. Touches(h, e)
  BY <1>3, <1>4 DEF Touches
<1>6. Works(e)' = {}
  BY <1>1, <1>3, <1>5, OneJob DEF Busy
<1>7. Asking(e)' = Asking(e)
  BY <1>1, <1>5, AskingStays
<1>8. Alive(e)' => MailAt(e)'
  <2>1. Alive(e)' = Alive(e)
    BY <1>4 DEF Alive
  <2> QED BY <1>6, <1>7, <2>1 DEF MailAt
<1>9. Bound(h)'
  BY <1>3 DEF Bound
<1>10. \A d \in Chan : handler'[d] = handler[d] \/ (d = e /\ handler[e] = h)
  BY <1>1
<1> QED BY <1>1, <1>4, <1>5, <1>8, <1>9, <1>10, DriverActs

(* The reply as it is added.                                               *)
LEMMA ReplyAdded ==
  ASSUME TypeOK, NEW c \in Chan, NEW r \in Rids,
         NEW res \in {"ok", "err", "data", "cancelled", "there"},
         SendReply(c, r, res)
  PROVE  /\ [rid |-> r, res |-> res] \in Replies
         /\ recvList'[c] = Append(recvList[c], [rid |-> r, res |-> res])
         /\ sendList' = sendList
         /\ \A d \in Chan \ {c} : recvList'[d] = recvList[d]
<1>1. recvList \in [Chan -> Seq(Replies)]
  BY DEF TypeOK, ListTypes
<1>2. [rid |-> r, res |-> res] \in Replies
  BY DEF Replies
<1> DEFINE l == Append(recvList[c], [rid |-> r, res |-> res])
<1>3. recvList' = [recvList EXCEPT ![c] = l]
  BY DEF SendReply
<1> HIDE DEF l
<1>4. recvList'[c] = l
  BY <1>1, <1>3
<1> QED BY <1>2, <1>4, ReplyEffect DEF l

LEMMA ServeOpenMail ==
  ASSUME NCPU = 1, ChanInv, MailInv, NEW h \in Handler, NEW g \in Handler,
         NEW res \in {"ok", "err"}, ServeOpen(h, g, res)
  PROVE  MailInv'
<1>0. /\ At(h, "serve") /\ req[h].op = "open"
      /\ SendReply(chan[h], req[h].mid, res) /\ Leave(h, "loop")
      /\ handler' = [handler EXCEPT ![chan[h]] = g]
      /\ UNCHANGED <<nodeVars, closed>> /\ deferred' = deferred
  BY DEF ServeOpen, Serving
<1>1. PICK e \in Chan : e = chan[h]
  BY <1>0, BusyHandler DEF At
<1>2. /\ Calm(Asking(e)) /\ pc[h] = "serve" /\ TypeOK /\ req[h].mid \in Rids
      /\ sendList[e] \in Seq(Messages) /\ recvList[e] \in Seq(Replies)
      /\ Alive(e) => Mail(sendList[e], recvList[e], deferred[e], {Job(h)}, Asking(e))
  BY <1>0, <1>1, AtWork
<1> DEFINE a == [rid |-> req[h].mid, res |-> res]
<1>3. /\ a \in Replies /\ recvList'[e] = Append(recvList[e], a) /\ sendList' = sendList
      /\ \A d \in Chan \ {e} : recvList'[d] = recvList[d]
  <2>1. PICK r \in Rids : r = req[h].mid
    BY <1>2
  <2>2. TypeOK /\ res \in {"ok", "err", "data", "cancelled", "there"} /\ SendReply(e, r, res)
    BY <1>0, <1>1, <1>2, <2>1
  <2>3. /\ [rid |-> r, res |-> res] \in Replies
        /\ recvList'[e] = Append(recvList[e], [rid |-> r, res |-> res])
        /\ sendList' = sendList
        /\ \A d \in Chan \ {e} : recvList'[d] = recvList[d]
    BY <2>2, ReplyAdded
  <2> QED BY <2>1, <2>3
<1>4. Job(h).at = "serve" /\ Job(h).op = "open" /\ Job(h).rid = a.rid /\ a.res = res
  BY <1>0, <1>2 DEF Job
<1> HIDE DEF a
<1>5. ASSUME Alive(e)
      PROVE  Mail(sendList[e], Append(recvList[e], a), deferred[e], {}, Asking(e))
  BY <1>2, <1>3, <1>4, <1>5, MailReply
<1>6. \A d \in Chan \ {e} : handler'[d] = handler[d]
  BY <1>0, <1>1, <1>2 DEF TypeOK, NodeTypes
<1> QED BY <1>0, <1>1, <1>3, <1>5, <1>6, DoneWith

LEMMA ServeDataMail ==
  ASSUME NCPU = 1, ChanInv, MailInv, NEW h \in Handler,
         NEW res \in {"ok", "err"}, ServeData(h, res)
  PROVE  MailInv'
<1>0. /\ At(h, "serve") /\ req[h].op = "data"
      /\ SendReply(chan[h], req[h].mid, res) /\ Leave(h, "loop")
      /\ UNCHANGED <<nodeVars, closed>> /\ deferred' = deferred /\ handler' = handler
  BY DEF ServeData, Serving, chanVars
<1>1. PICK e \in Chan : e = chan[h]
  BY <1>0, BusyHandler DEF At
<1>2. /\ Calm(Asking(e)) /\ pc[h] = "serve" /\ TypeOK /\ req[h].mid \in Rids
      /\ sendList[e] \in Seq(Messages) /\ recvList[e] \in Seq(Replies)
      /\ Alive(e) => Mail(sendList[e], recvList[e], deferred[e], {Job(h)}, Asking(e))
  BY <1>0, <1>1, AtWork
<1> DEFINE a == [rid |-> req[h].mid, res |-> res]
<1>3. /\ a \in Replies /\ recvList'[e] = Append(recvList[e], a) /\ sendList' = sendList
      /\ \A d \in Chan \ {e} : recvList'[d] = recvList[d]
  <2>1. PICK r \in Rids : r = req[h].mid
    BY <1>2
  <2>2. TypeOK /\ res \in {"ok", "err", "data", "cancelled", "there"} /\ SendReply(e, r, res)
    BY <1>0, <1>1, <1>2, <2>1
  <2>3. /\ [rid |-> r, res |-> res] \in Replies
        /\ recvList'[e] = Append(recvList[e], [rid |-> r, res |-> res])
        /\ sendList' = sendList
        /\ \A d \in Chan \ {e} : recvList'[d] = recvList[d]
    BY <2>2, ReplyAdded
  <2> QED BY <2>1, <2>3
<1>4. Job(h).at = "serve" /\ Job(h).op = "data" /\ Job(h).rid = a.rid /\ a.res = res
  BY <1>0, <1>2 DEF Job
<1> HIDE DEF a
<1>5. ASSUME Alive(e)
      PROVE  Mail(sendList[e], Append(recvList[e], a), deferred[e], {}, Asking(e))
  BY <1>2, <1>3, <1>4, <1>5, MailReply
<1> QED BY <1>0, <1>1, <1>3, <1>5, DoneWith

LEMMA SendDataMail ==
  ASSUME NCPU = 1, ChanInv, MailInv, NEW h \in Handler, SendData(h)
  PROVE  MailInv'
<1>0. /\ At(h, "data")
      /\ SendReply(chan[h], req[h].mid, "data") /\ Leave(h, "loop")
      /\ UNCHANGED <<nodeVars, closed>> /\ deferred' = deferred /\ handler' = handler
  BY DEF SendData, chanVars
<1>1. PICK e \in Chan : e = chan[h]
  BY <1>0, BusyHandler DEF At
<1>2. /\ Calm(Asking(e)) /\ pc[h] = "data" /\ TypeOK /\ req[h].mid \in Rids
      /\ sendList[e] \in Seq(Messages) /\ recvList[e] \in Seq(Replies)
      /\ Alive(e) => Mail(sendList[e], recvList[e], deferred[e], {Job(h)}, Asking(e))
  BY <1>0, <1>1, AtWork
<1> DEFINE a == [rid |-> req[h].mid, res |-> "data"]
<1>3. /\ a \in Replies /\ recvList'[e] = Append(recvList[e], a) /\ sendList' = sendList
      /\ \A d \in Chan \ {e} : recvList'[d] = recvList[d]
  BY <1>0, <1>1, <1>2, ReplyAdded
<1>4. Job(h).at = "data" /\ Job(h).rid = a.rid /\ a.res = "data"
  BY <1>0, <1>2 DEF Job
<1> HIDE DEF a
<1>5. ASSUME Alive(e)
      PROVE  Mail(sendList[e], Append(recvList[e], a), deferred[e], {}, Asking(e))
  BY <1>2, <1>3, <1>4, <1>5, MailSendData
<1> QED BY <1>0, <1>1, <1>3, <1>5, DoneWith

LEMMA ServeCancelMail ==
  ASSUME NCPU = 1, ChanInv, MailInv, NEW h \in Handler, ServeCancel(h)
  PROVE  MailInv'
<1> DEFINE res == IF req[h].old \in deferred[chan[h]] THEN "cancelled" ELSE "there"
<1>0. /\ At(h, "serve") /\ req[h].op = "cancel"
      /\ SendReply(chan[h], req[h].mid, res) /\ Leave(h, "loop")
      /\ deferred' = [deferred EXCEPT ![chan[h]] = @ \ {req[h].old}]
      /\ UNCHANGED <<nodeVars, closed>> /\ handler' = handler
  BY DEF ServeCancel, Serving, chanVars
<1>1. PICK e \in Chan : e = chan[h]
  BY <1>0, BusyHandler DEF At
<1>2. /\ Calm(Asking(e)) /\ pc[h] = "serve" /\ TypeOK /\ req[h].mid \in Rids
      /\ sendList[e] \in Seq(Messages) /\ recvList[e] \in Seq(Replies)
      /\ Alive(e) => Mail(sendList[e], recvList[e], deferred[e], {Job(h)}, Asking(e))
  BY <1>0, <1>1, AtWork
<1>3. /\ deferred'[e] = deferred[e] \ {req[h].old}
      /\ \A d \in Chan \ {e} : deferred'[d] = deferred[d]
  BY <1>0, <1>1, <1>2 DEF TypeOK, ListTypes
<1>31. res \in {"ok", "err", "data", "cancelled", "there"}
  OBVIOUS
<1>32. res = IF req[h].old \in deferred[e] THEN "cancelled" ELSE "there"
  BY <1>1
<1> HIDE DEF res
<1> DEFINE a == [rid |-> req[h].mid, res |-> res]
<1>4. /\ a \in Replies /\ recvList'[e] = Append(recvList[e], a) /\ sendList' = sendList
      /\ \A d \in Chan \ {e} : recvList'[d] = recvList[d]
  BY <1>0, <1>1, <1>2, <1>31, ReplyAdded
<1>5. /\ Job(h).at = "serve" /\ Job(h).op = "cancel" /\ Job(h).rid = a.rid
      /\ Job(h).of = req[h].old /\ a.res = res
  BY <1>0, <1>2 DEF Job
<1> HIDE DEF a
<1>6. ASSUME Alive(e)
      PROVE  Mail(sendList[e], Append(recvList[e], a), deferred[e] \ {req[h].old}, {}, Asking(e))
  <2>1. a.res = IF Job(h).of \in deferred[e] THEN "cancelled" ELSE "there"
    BY <1>5, <1>32
  <2>2. Mail(sendList[e], Append(recvList[e], a), deferred[e] \ {Job(h).of}, {}, Asking(e))
    BY <1>2, <1>4, <1>5, <1>6, <2>1, MailServeCancel
  <2> QED BY <2>2, <1>5
<1> QED BY <1>0, <1>1, <1>3, <1>4, <1>6, DoneWith

LEMMA DeferMail ==
  ASSUME NCPU = 1, ChanInv, MailInv, NEW h \in Handler, Defer(h)
  PROVE  MailInv'
<1>0. /\ At(h, "serve") /\ req[h].op = "read" /\ Leave(h, "loop")
      /\ deferred' = [deferred EXCEPT ![chan[h]] = @ \cup {req[h].mid}]
      /\ UNCHANGED <<nodeVars, closed>> /\ handler' = handler
      /\ sendList' = sendList /\ recvList' = recvList
  BY DEF Defer, Serving, chanVars, listVars
<1>1. PICK e \in Chan : e = chan[h]
  BY <1>0, BusyHandler DEF At
<1>2. /\ pc[h] = "serve" /\ TypeOK
      /\ Alive(e) => Mail(sendList[e], recvList[e], deferred[e], {Job(h)}, Asking(e))
  BY <1>0, <1>1, AtWork
<1>3. /\ deferred'[e] = deferred[e] \cup {req[h].mid}
      /\ \A d \in Chan \ {e} : deferred'[d] = deferred[d]
  BY <1>0, <1>1, <1>2 DEF TypeOK, ListTypes
<1>4. Job(h).at = "serve" /\ Job(h).op = "read" /\ Job(h).rid = req[h].mid
  BY <1>0, <1>2 DEF Job
<1>5. ASSUME Alive(e)
      PROVE  Mail(sendList[e], recvList[e], deferred[e] \cup {req[h].mid}, {}, Asking(e))
  <2>1. Mail(sendList[e], recvList[e], deferred[e] \cup {Job(h).rid}, {}, Asking(e))
    BY <1>2, <1>4, <1>5, MailDefer
  <2> QED BY <2>1, <1>4
<1> QED BY <1>0, <1>1, <1>3, <1>5, DoneWith

(* The driver takes up work on a channel that is bound to the thread.      *)
LEMMA TakesUp ==
  ASSUME ChanInv, MailInv, NEW h \in Handler, NEW e \in Chan, handler[e] = h,
         Touches(h, e), chan'[h] = e, node[e] # "unused",
         UNCHANGED <<nodeVars, chanVars>>,
         Alive(e) => Mail(sendList'[e], recvList'[e], deferred'[e],
                          IF pc'[h] \in {"serve", "data"} THEN {Job(h)'} ELSE {}, Asking(e))
  PROVE  MailInv'
<1>1. h \in Thread /\ h \notin Client
  BY ChannelAssumption DEF Thread
<1>2. node' = node /\ clientFile' = clientFile /\ closed' = closed /\ handler' = handler
  BY DEF nodeVars, chanVars
<1>3. Works(e)' = IF pc'[h] \in {"serve", "data"} THEN {Job(h)'} ELSE {}
  BY OneJob DEF Busy
<1>4. Asking(e)' = Asking(e)
  BY <1>1, AskingStays
<1>5. Alive(e)' => MailAt(e)'
  <2>1. Alive(e)' = Alive(e)
    BY <1>2 DEF Alive
  <2> QED BY <1>3, <1>4, <2>1 DEF MailAt
<1>6. Bound(h)'
  BY <1>2 DEF Bound
<1> QED BY <1>2, <1>5, <1>6, DriverActs

LEMMA ServeReadMail ==
  ASSUME NCPU = 1, ChanInv, MailInv, NEW h \in Handler,
         NEW res \in {"ok", "err"}, ServeRead(h, res)
  PROVE  MailInv'
<1>0. /\ At(h, "serve") /\ req[h].op = "read"
      /\ SendReply(chan[h], req[h].mid, res)
      /\ UNCHANGED <<nodeVars, chanVars>> /\ closed' = closed
      /\ deferred' = deferred /\ handler' = handler
  BY DEF ServeRead, Serving, chanVars
<1>1. PICK e \in Chan : e = chan[h]
  BY <1>0, BusyHandler DEF At
<1>2. /\ Calm(Asking(e)) /\ pc[h] = "serve" /\ TypeOK /\ req[h].mid \in Rids
      /\ handler[e] = h /\ h \in Thread /\ node[e] # "unused"
      /\ sendList[e] \in Seq(Messages) /\ recvList[e] \in Seq(Replies)
      /\ Alive(e) => Mail(sendList[e], recvList[e], deferred[e], {Job(h)}, Asking(e))
  BY <1>0, <1>1, AtWork
<1> DEFINE a == [rid |-> req[h].mid, res |-> res]
<1>3. /\ a \in Replies /\ recvList'[e] = Append(recvList[e], a) /\ sendList' = sendList
      /\ \A d \in Chan \ {e} : recvList'[d] = recvList[d]
  <2>1. PICK r \in Rids : r = req[h].mid
    BY <1>2
  <2>2. TypeOK /\ res \in {"ok", "err", "data", "cancelled", "there"} /\ SendReply(e, r, res)
    BY <1>0, <1>1, <1>2, <2>1
  <2>3. /\ [rid |-> r, res |-> res] \in Replies
        /\ recvList'[e] = Append(recvList[e], [rid |-> r, res |-> res])
        /\ sendList' = sendList
        /\ \A d \in Chan \ {e} : recvList'[d] = recvList[d]
    BY <2>2, ReplyAdded
  <2> QED BY <2>1, <2>3
<1>4. /\ Job(h).at = "serve" /\ Job(h).op = "read" /\ Job(h).rid = a.rid
      /\ a.res = res /\ a.rid = req[h].mid
  BY <1>0, <1>2 DEF Job
<1> HIDE DEF a
<1>5. CASE res = "err"
  <2>1. Leave(h, "loop")
    BY <1>5 DEF ServeRead
  <2>2. ASSUME Alive(e)
        PROVE  Mail(sendList[e], Append(recvList[e], a), deferred[e], {}, Asking(e))
    BY <1>2, <1>3, <1>4, <1>5, <2>2, MailReply
  <2> QED BY <1>0, <1>1, <1>3, <2>1, <2>2, DoneWith
<1>6. CASE res = "ok"
  <2>1. Goto(h, "data") /\ chan' = chan /\ req' = req /\ "data" \in Points
    BY <1>6 DEF ServeRead, Points, Outside
  <2>2. pc'[h] = "data" /\ \A u \in Thread \ {h} : pc'[u] = pc[u]
    BY <1>2, <2>1, GotoEffect
  <2>3. Touches(h, e)
    BY <1>0, <1>1, <1>3, <2>1, <2>2 DEF Touches, nodeVars
  <2>4. PICK v : v = Job(h)'
    OBVIOUS
  <2>5. v.at = "data" /\ v.rid = a.rid
    BY <2>1, <2>2, <2>4, <1>4 DEF Job
  <2>6. ASSUME Alive(e)
        PROVE  Mail(sendList[e], Append(recvList[e], a), deferred[e], {v}, Asking(e))
    <3>1. PICK E : E = deferred[e] \ {a.rid}
      OBVIOUS
    <3>2. Mail(sendList[e], recvList[e], deferred[e], {Job(h)}, Asking(e))
      BY <1>2, <2>6
    <3>3. E = deferred[e]
      <4>1. Job(h).rid \notin deferred[e]
        BY <3>2 DEF Mail, WorkOK
      <4> QED BY <3>1, <4>1, <1>4
    <3>4. \E w : {Job(h)} = {w} /\ w.at = "serve" /\ w.op = "read" /\ w.rid = a.rid
      BY <1>4
    <3>5. Mail(sendList[e], Append(recvList[e], a), E, {v}, Asking(e))
      BY <1>2, <1>3, <1>4, <1>6, <2>5, <3>1, <3>2, <3>4, MailReadOk
    <3> QED BY <3>3, <3>5
  <2>7. Alive(e) => Mail(sendList'[e], recvList'[e], deferred'[e],
                         IF pc'[h] \in {"serve", "data"} THEN {Job(h)'} ELSE {}, Asking(e))
    BY <1>0, <1>3, <2>2, <2>4, <2>6
  <2>8. chan'[h] = e
    BY <1>1, <2>1
  <2> QED BY <1>0, <1>2, <2>3, <2>7, <2>8, TakesUp
<1> QED BY <1>5, <1>6

LEMMA CompleteMail ==
  ASSUME NCPU = 1, ChanInv, MailInv, NEW h \in Handler, NEW e \in Chan, NEW r \in Rids,
         Complete(h, e, r)
  PROVE  MailInv'
<1> DEFINE q == [Idle0 EXCEPT !.op = "read", !.mid = r]
<1>0. /\ Idling(h) /\ handler[e] = h /\ r \in deferred[e] /\ SendReply(e, r, "ok")
      /\ deferred' = [deferred EXCEPT ![e] = @ \ {r}]
      /\ Goto(h, "data") /\ "data" \in Points
      /\ chan' = [chan EXCEPT ![h] = e]
      /\ req' = [req EXCEPT ![h] = q]
      /\ UNCHANGED <<nodeVars, chanVars>>
  BY DEF Complete, chanVars, Points, Outside
<1>1. PICK p \in {"loop", "nowork"} : At(h, p)
  BY <1>0, IdlingAt
<1>2. TypeOK /\ h \in Thread /\ chan[h] = None /\ pc[h] = p /\ Calm(Asking(e))
  BY <1>0, <1>1, IdlingAt, CalmHere DEF At
<1>3. q.mid = r
  BY DEF Idle0
<1> HIDE DEF q
<1> DEFINE a == [rid |-> r, res |-> "ok"]
<1>4. /\ a \in Replies /\ recvList'[e] = Append(recvList[e], a) /\ sendList' = sendList
      /\ \A d \in Chan \ {e} : recvList'[d] = recvList[d]
  BY <1>0, <1>2, ReplyAdded
<1>41. a.rid = r /\ a.res = "ok"
  OBVIOUS
<1> HIDE DEF a
<1>5. /\ pc'[h] = "data" /\ \A u \in Thread \ {h} : pc'[u] = pc[u]
  BY <1>0, <1>2, GotoEffect
<1>6. /\ chan \in [Thread -> Chan \cup {None}] /\ req \in [Thread -> Reqs]
      /\ deferred \in [Chan -> SUBSET Rids]
      /\ sendList[e] \in Seq(Messages) /\ recvList[e] \in Seq(Replies)
  BY <1>2 DEF TypeOK, NodeTypes, ListTypes, ThreadTypes
<1>7. /\ chan'[h] = e /\ \A u \in Thread \ {h} : chan'[u] = chan[u]
  BY <1>0, <1>2, <1>6
<1>8. /\ req'[h] = q /\ \A u \in Thread \ {h} : req'[u] = req[u]
  BY <1>0, <1>2, <1>6
<1>9. /\ deferred'[e] = deferred[e] \ {r}
      /\ \A d \in Chan \ {e} : deferred'[d] = deferred[d]
  BY <1>0, <1>6
<1>10. Touches(h, e)
  BY <1>0, <1>2, <1>4, <1>5, <1>7, <1>8, <1>9 DEF Touches, nodeVars
<1>11. node[e] # "unused"
  BY <1>0 DEF ChanInv, Blank
<1>12. Works(e) = {}
  <2>1. ~ Busy(h, e)
    BY <1>2 DEF Busy
  <2> QED BY <1>0, <1>10, <2>1, OneJob
<1>13. PICK v : v = Job(h)'
  OBVIOUS
<1>14. v.at = "data" /\ v.rid = r
  BY <1>3, <1>5, <1>8, <1>13 DEF Job
<1>15. ASSUME Alive(e)
       PROVE  Mail(sendList[e], Append(recvList[e], a), deferred[e] \ {r}, {v}, Asking(e))
  <2>1. PICK E : E = deferred[e] \ {a.rid}
    OBVIOUS
  <2>2. Mail(sendList[e], recvList[e], deferred[e], {}, Asking(e))
    BY <1>12, <1>15, MailInvParts DEF MailAt
  <2>3. a.rid \in deferred[e] /\ v.rid = a.rid
    BY <1>0, <1>14, <1>41
  <2>4. Mail(sendList[e], Append(recvList[e], a), E, {v}, Asking(e))
    BY <1>2, <1>4, <1>41, <1>6, <1>14, <2>1, <2>2, <2>3, MailReadOk
  <2> QED BY <1>41, <2>1, <2>4
<1>16. Alive(e) => Mail(sendList'[e], recvList'[e], deferred'[e],
                        IF pc'[h] \in {"serve", "data"} THEN {Job(h)'} ELSE {}, Asking(e))
  BY <1>4, <1>5, <1>9, <1>13, <1>15
<1> QED BY <1>0, <1>7, <1>10, <1>11, <1>16, TakesUp

(* The message of a client that has closed its file.                       *)
LEMMA MailSkip ==
  ASSUME NEW S \in Seq(Messages), NEW R \in Seq(Replies), NEW D, NEW T,
         S # << >>, S[1].op = "close", Mail(S, R, D, {}, T)
  PROVE  Mail(Tail(S), R, D, {}, T)
<1>1. /\ QueueOK(S, {}, T) /\ DeferredOK(S, R, D, T)
      /\ RepliesOK(S, R, D, {}, T) /\ NoBlockOK(S, R, D, {}, T) /\ RequestsOK(T)
  BY DEF Mail
<1>2. ~ (1 < Len(S) /\ S[2].op = "data")
  <2> SUFFICES ASSUME 1 < Len(S), S[2].op = "data" PROVE FALSE
    OBVIOUS
  <2>1. Len(S) \in Nat /\ 2 \in 1 .. Len(S)
    OBVIOUS
  <2>2. MessageOK(S, {}, T, 2)
    BY <1>1, <2>1 DEF QueueOK
  <2>3. S[2 - 1].op = "write"
    BY <2>2 DEF MessageOK
  <2>4. 2 - 1 = 1
    OBVIOUS
  <2> QED BY <2>3, <2>4
<1>3. QueueOK(Tail(S), {}, T) /\ \A r : IsQueued(Tail(S), r) => IsQueued(S, r)
  BY <1>1, <1>2, QueueShorter
<1>4. WorkOK(Tail(S), R, D, {}, T)
  BY DEF WorkOK
<1>5. DeferredOK(Tail(S), R, D, T)
  BY <1>1, <1>3 DEF DeferredOK
<1>6. \A r : IsUnanswered(Tail(S), D, {}, r) => IsUnanswered(S, D, {}, r)
  BY <1>3 DEF IsUnanswered
<1>7. RepliesOK(Tail(S), R, D, {}, T)
  <2>1. \A i \in 1 .. Len(R) : ~ IsQueued(Tail(S), R[i].rid)
    BY <1>1, <1>3 DEF RepliesOK, ReplyOK
  <2> QED BY <1>1, <1>6, <2>1, RepliesKept
<1>8. NoBlockOK(Tail(S), R, D, {}, T)
  BY <1>1, <1>6, NoBlockKept
<1> QED BY <1>1, <1>3, <1>4, <1>5, <1>7, <1>8 DEF Mail

LEMMA FetchMail ==
  ASSUME NCPU = 1, ChanInv, MailInv, NEW h \in Handler, Fetch(h)
  PROVE  MailInv'
<1>0. /\ At(h, "fetch") /\ recvList' = recvList /\ deferred' = deferred
      /\ UNCHANGED <<nodeVars, chanVars>>
      /\ node' = node /\ clientFile' = clientFile /\ closed' = closed /\ handler' = handler
      /\ refs' = refs /\ driverFile' = driverFile
  BY DEF Fetch, nodeVars, chanVars
<1>1. pc[h] = "fetch" /\ h \notin Client
  BY <1>0, ChannelAssumption DEF At
<1>2. TypeOK /\ h \in Thread /\ chan[h] \in Chan /\ node[chan[h]] # "unused"
  BY <1>1, BusyHandler
<1>3. PICK e \in Chan : e = chan[h]
  BY <1>2
<1>4. Bound(h)
  BY MailInvParts
<1>5. handler[e] = h
  BY <1>1, <1>3, <1>4 DEF Bound
<1>6. CASE ~ driverFile[chan[h]]
  <2>1. Leave(h, "loop") /\ sendList' = sendList
    BY <1>6 DEF Fetch
  <2>2. GoOn(h, e, "loop") /\ "loop" \in Points
    BY <2>1, <1>3 DEF Leave, Points, Outside
  <2>3. /\ pc'[h] = "loop" /\ chan'[h] = None
        /\ \A u \in Thread \ {h} : pc'[u] = pc[u] /\ chan'[u] = chan[u] /\ req'[u] = req[u]
    BY <1>2, <2>2, GoOnEffect
  <2>4. Touches(h, e)
    BY <1>0, <1>3, <2>1, <2>3 DEF Touches
  <2>5. Works(e) = {} /\ Works(e)' = {}
    BY <1>1, <1>5, <2>3, <2>4, OneJob DEF Busy
  <2>6. Asking(e)' = Asking(e)
    BY <1>1, <1>2, <2>4, AskingStays
  <2>7. Alive(e)' => MailAt(e)'
    <3>1. Alive(e)' = Alive(e)
      BY <1>0 DEF Alive
    <3>2. Alive(e) => MailAt(e)
      BY MailInvParts
    <3> QED BY <1>0, <2>1, <2>5, <2>6, <3>1, <3>2 DEF MailAt
  <2>8. Bound(h)'
    BY <2>3 DEF Bound
  <2> QED BY <1>0, <1>2, <1>3, <2>4, <2>7, <2>8, DriverActs
<1>7. CASE driverFile[chan[h]]
  <2> DEFINE m == Head(sendList[chan[h]])
             q == [Idle0 EXCEPT !.op = m.op, !.mid = m.rid, !.old = m.of]
             w == IF m.op = "close" THEN "drvclose" ELSE "serve"
  <2>1. /\ sendList[chan[h]] # << >> /\ FetchFirst(chan[h]) /\ chan' = chan
        /\ req' = [req EXCEPT ![h] = q] /\ Goto(h, w)
    BY <1>7 DEF Fetch
  <2>2. sendList \in [Chan -> Seq(Messages)] /\ req \in [Thread -> Reqs]
        /\ recvList[e] \in Seq(Replies)
    BY <1>2 DEF TypeOK, ListTypes, ThreadTypes
  <2>3. m = sendList[e][1] /\ sendList[e] \in Seq(Messages) /\ sendList[e] # << >>
    BY <1>3, <2>1, <2>2
  <2>4. w \in Points /\ w \in {"serve", "drvclose"} /\ (w = "serve" <=> m.op # "close")
    BY DEF Points, Outside
  <2>5. q.op = m.op /\ q.mid = m.rid /\ q.old = m.of
    BY DEF Idle0
  <2> HIDE DEF w, q, m
  <2>6. pc'[h] = w /\ \A u \in Thread \ {h} : pc'[u] = pc[u]
    BY <1>2, <2>1, <2>4, GotoEffect
  <2>7. req'[h] = q /\ \A u \in Thread \ {h} : req'[u] = req[u]
    BY <1>2, <2>1, <2>2
  <2>8. /\ sendList'[e] = Tail(sendList[e])
        /\ \A d \in Chan \ {e} : sendList'[d] = sendList[d]
    BY <1>3, <2>1, <2>2 DEF FetchFirst
  <2>9. Touches(h, e)
    BY <1>0, <1>3, <2>1, <2>6, <2>7, <2>8 DEF Touches
  <2>10. Works(e) = {}
    BY <1>1, <1>5, <2>9, OneJob DEF Busy
  <2>11. PICK v : v = Job(h)'
    OBVIOUS
  <2>12. v.at = w /\ v.rid = m.rid /\ v.op = m.op /\ v.of = m.of
    BY <2>5, <2>6, <2>7, <2>11 DEF Job
  <2>13. ASSUME Alive(e)
         PROVE  Mail(Tail(sendList[e]), recvList[e], deferred[e],
                     IF w \in {"serve", "data"} THEN {v} ELSE {}, Asking(e))
    <3>1. Mail(sendList[e], recvList[e], deferred[e], {}, Asking(e))
      BY <2>10, <2>13, MailInvParts DEF MailAt
    <3>2. CASE m.op = "close"
      <4>1. Mail(Tail(sendList[e]), recvList[e], deferred[e], {}, Asking(e))
        BY <2>2, <2>3, <3>1, <3>2, MailSkip
      <4>2. w \notin {"serve", "data"}
        BY <2>4, <3>2
      <4> QED BY <4>1, <4>2
    <3>3. CASE m.op # "close"
      <4>1. w = "serve"
        BY <2>4, <3>3
      <4>2. Mail(Tail(sendList[e]), recvList[e], deferred[e], {v}, Asking(e))
        BY <2>2, <2>3, <2>12, <3>1, <3>3, <4>1, MailFetch
      <4> QED BY <4>1, <4>2
    <3> QED BY <3>2, <3>3
  <2>14. Alive(e) => Mail(sendList'[e], recvList'[e], deferred'[e],
                          IF pc'[h] \in {"serve", "data"} THEN {Job(h)'} ELSE {}, Asking(e))
    BY <1>0, <2>6, <2>8, <2>11, <2>13
  <2>15. chan'[h] = e
    BY <1>3, <2>1
  <2> QED BY <1>0, <1>2, <1>3, <1>5, <2>9, <2>14, <2>15, TakesUp
<1> QED BY <1>6, <1>7

LEMMA ServeWriteMail ==
  ASSUME NCPU = 1, ChanInv, MailInv, NEW h \in Handler, ServeWrite(h)
  PROVE  MailInv'
<1>0. /\ At(h, "serve") /\ req[h].op = "write" /\ sendList[chan[h]] # << >>
      /\ FetchFirst(chan[h])
      /\ req' = [req EXCEPT ![h].op = "data"] /\ chan' = chan /\ pc' = pc
      /\ UNCHANGED <<nodeVars, chanVars>> /\ recvList' = recvList /\ deferred' = deferred
  BY DEF ServeWrite, Serving
<1>1. PICK e \in Chan : e = chan[h]
  BY <1>0, BusyHandler DEF At
<1>2. /\ pc[h] = "serve" /\ TypeOK /\ handler[e] = h /\ h \in Thread /\ node[e] # "unused"
      /\ sendList[e] \in Seq(Messages) /\ recvList[e] \in Seq(Replies) /\ req[h] \in Reqs
      /\ Alive(e) => Mail(sendList[e], recvList[e], deferred[e], {Job(h)}, Asking(e))
  BY <1>0, <1>1, AtWork
<1>3. sendList \in [Chan -> Seq(Messages)] /\ req \in [Thread -> Reqs]
  BY <1>2 DEF TypeOK, ListTypes, ThreadTypes
<1>4. /\ req'[h].op = "data" /\ req'[h].mid = req[h].mid
      /\ \A u \in Thread \ {h} : req'[u] = req[u]
  <2> DEFINE q == [req[h] EXCEPT !.op = "data"]
  <2>1. q.op = "data" /\ q.mid = req[h].mid
    BY <1>2 DEF Reqs
  <2>2. req' = [req EXCEPT ![h] = q]
    BY <1>0
  <2> HIDE DEF q
  <2> QED BY <1>2, <1>3, <2>1, <2>2
<1>5. /\ sendList'[e] = Tail(sendList[e])
      /\ \A d \in Chan \ {e} : sendList'[d] = sendList[d]
  BY <1>0, <1>1, <1>3 DEF FetchFirst
<1>6. Touches(h, e)
  BY <1>0, <1>1, <1>4, <1>5 DEF Touches, nodeVars
<1>7. PICK v : v = Job(h)'
  OBVIOUS
<1>8. v.at = "serve" /\ v.op = "data" /\ v.rid = Job(h).rid
  BY <1>0, <1>2, <1>4, <1>7 DEF Job
<1>9. Job(h).at = "serve" /\ Job(h).op = "write"
  BY <1>0, <1>2 DEF Job
<1>10. ASSUME Alive(e) PROVE Mail(Tail(sendList[e]), recvList[e], deferred[e], {v}, Asking(e))
  BY <1>2, <1>8, <1>9, <1>10, MailTakeData
<1>11. Alive(e) => Mail(sendList'[e], recvList'[e], deferred'[e],
                        IF pc'[h] \in {"serve", "data"} THEN {Job(h)'} ELSE {}, Asking(e))
  BY <1>0, <1>2, <1>5, <1>7, <1>10
<1>12. chan'[h] = e
  BY <1>0, <1>1
<1> QED BY <1>0, <1>2, <1>6, <1>11, <1>12, TakesUp

(* A thread of the driver that has no channel.                             *)
LEMMA Aside ==
  ASSUME ChanInv, MailInv, NEW h \in Handler, Touches(h, None),
         UNCHANGED <<nodeVars, chanVars>>, chan'[h] = None,
         pc'[h] \in {"loop", "nowork"}
  PROVE  MailInv'
<1>1. clientFile' = clientFile /\ closed' = closed /\ handler' = handler
  BY DEF nodeVars, chanVars
<1>2. Bound(h)'
  BY DEF Bound
<1> QED BY <1>1, <1>2, ChannelAssumption, DriverActs

LEMMA GetWorkInterruptedMail ==
  ASSUME NCPU = 1, ChanInv, MailInv, NEW h \in Handler, GetWorkInterrupted(h)
  PROVE  MailInv'
<1>0. /\ At(h, "nowork") /\ Goto(h, "loop") /\ "loop" \in Points
      /\ UNCHANGED <<nodeVars, chanVars>> /\ sendList' = sendList /\ recvList' = recvList
      /\ chan' = chan /\ req' = req /\ deferred' = deferred
  BY DEF GetWorkInterrupted, Points, Outside, listVars
<1>1. TypeOK /\ HandlerAt(h) /\ h \in Thread /\ pc[h] = "nowork"
  BY <1>0 DEF ChanInv, Thread, At
<1>2. chan[h] = None
  BY <1>1 DEF HandlerAt
<1>3. pc'[h] = "loop" /\ \A u \in Thread \ {h} : pc'[u] = pc[u]
  BY <1>0, <1>1, GotoEffect
<1>4. Touches(h, None)
  BY <1>0, <1>2, <1>3 DEF Touches, nodeVars
<1> QED BY <1>0, <1>2, <1>3, <1>4, Aside

LEMMA GetWorkMail ==
  ASSUME NCPU = 1, ChanInv, MailInv, NEW h \in Handler, GetWork(h)
  PROVE  MailInv'
<1>0. Idling(h) /\ TypeOK /\ h \in Thread /\ children \in Seq(Chan) /\ chan[h] = None
  BY IdlingAt DEF GetWork, TypeOK, ListTypes
<1>1. /\ UNCHANGED <<nodeVars, chanVars>> /\ sendList' = sendList /\ recvList' = recvList
      /\ deferred' = deferred /\ req' = req
  BY DEF GetWork, listVars
<1>2. chan \in [Thread -> Chan \cup {None}]
  BY <1>0 DEF TypeOK, ThreadTypes
<1>3. CASE msgCount # 0 /\ WithWork(h) # {}
  <2> DEFINE i == Min(WithWork(h))
  <2>1. i \in WithWork(h)
    <3>1. WithWork(h) \in SUBSET (1 .. Len(SearchOrder)) /\ Len(SearchOrder) \in Nat
      BY <1>0, SearchMembers DEF WithWork
    <3> QED BY <1>3, <3>1, LeastPlace
  <2>2. chan' = [chan EXCEPT ![h] = SearchOrder[i]] /\ Goto(h, "fetch")
    BY <1>3 DEF GetWork
  <2> HIDE DEF i
  <2>3. InList(children, SearchOrder[i]) /\ HasWork(h, SearchOrder[i])
    BY <1>0, <2>1, SearchMembers DEF WithWork
  <2>4. SearchOrder[i] \in Chan
    BY <1>0, <2>3, NoMembers
  <2>5. PICK e \in Chan : e = SearchOrder[i]
    BY <2>4
  <2>6. "fetch" \in Points
    BY DEF Points
  <2>7. pc'[h] = "fetch" /\ \A u \in Thread \ {h} : pc'[u] = pc[u]
    BY <1>0, <2>2, <2>6, GotoEffect
  <2>8. chan'[h] = e /\ \A u \in Thread \ {h} : chan'[u] = chan[u]
    BY <1>0, <1>2, <2>2, <2>5
  <2>9. Touches(h, e)
    BY <1>0, <1>1, <2>7, <2>8 DEF Touches, nodeVars
  <2>10. handler[e] = h /\ node[e] # "unused"
    BY <2>3, <2>5 DEF HasWork, ChanInv, Kids
  <2>11. Works(e) = {}
    BY <1>0, <2>9, <2>10, OneJob, ChannelAssumption DEF Busy
  <2>12. Alive(e) => Mail(sendList'[e], recvList'[e], deferred'[e],
                          IF pc'[h] \in {"serve", "data"} THEN {Job(h)'} ELSE {}, Asking(e))
    <3>1. Alive(e) => MailAt(e)
      BY MailInvParts
    <3> QED BY <1>1, <2>7, <2>11, <3>1 DEF MailAt
  <2> QED BY <1>1, <2>8, <2>9, <2>10, <2>12, TakesUp
<1>4. CASE ~ (msgCount # 0 /\ WithWork(h) # {})
  <2>1. Goto(h, "nowork") /\ chan' = chan /\ "nowork" \in Points
    BY <1>4 DEF GetWork, Points, Outside
  <2>2. pc'[h] = "nowork" /\ \A u \in Thread \ {h} : pc'[u] = pc[u]
    BY <1>0, <2>1, GotoEffect
  <2>3. Touches(h, None)
    BY <1>0, <1>1, <2>1, <2>2 DEF Touches, nodeVars
  <2> QED BY <1>0, <1>1, <2>1, <2>2, <2>3, Aside
<1> QED BY <1>3, <1>4

(* What dropping a reference changes.                                      *)
LEMMA UnrefShape ==
  ASSUME ChanInv, NEW t \in Thread, NEW e \in Chan, NEW remove \in BOOLEAN,
         NEW p \in Points, Unref(t, e, remove, p)
  PROVE  /\ \A u \in Thread \ {t} :
              pc'[u] = pc[u] /\ chan'[u] = chan[u] /\ req'[u] = req[u]
         /\ pc'[t] \in {"inval", p} /\ chan'[t] \in {e, None}
         /\ node'[e] \in {node[e], "detached"}
         /\ \A d \in Chan \ {e} : node'[d] = node[d] /\ refs'[d] = refs[d]
<1>1. TypeOK
  BY DEF ChanInv
<1>2. /\ refs \in [Chan -> UShort] /\ pc \in [Thread -> Points]
      /\ chan \in [Thread -> Chan \cup {None}] /\ req \in [Thread -> Reqs]
      /\ node \in [Chan -> {"unused", "alive", "detached", "freed"}]
  BY <1>1 DEF TypeOK, NodeTypes, ThreadTypes
<1>3. \A d \in Chan \ {e} : refs'[d] = refs[d]
  BY <1>2 DEF Unref
<1>4. CASE refs[e] = 1
  <2>1. /\ Goto(t, "inval") /\ chan' = [chan EXCEPT ![t] = e] /\ node' = node
        /\ req' = [req EXCEPT ![t].back = p, ![t].seen = msgCount]
    BY <1>4 DEF Unref
  <2>2. pc'[t] = "inval" /\ \A u \in Thread \ {t} : pc'[u] = pc[u]
    BY <1>2, <2>1 DEF Goto
  <2>3. chan'[t] = e /\ \A u \in Thread \ {t} : chan'[u] = chan[u]
    BY <1>2, <2>1
  <2>4. \A u \in Thread \ {t} : req'[u] = req[u]
    BY <1>2, <2>1
  <2> QED BY <1>3, <2>1, <2>2, <2>3, <2>4
<1>5. CASE refs[e] # 1
  <2>1. GoOn(t, e, p) /\ (node' = node \/ node' = [node EXCEPT ![e] = "detached"])
    BY <1>5 DEF Unref
  <2>2. /\ pc'[t] = p /\ chan'[t] \in {e, None}
        /\ \A u \in Thread \ {t} :
             pc'[u] = pc[u] /\ chan'[u] = chan[u] /\ req'[u] = req[u]
    BY <1>1, <2>1, GoOnEffect
  <2>3. node'[e] \in {node[e], "detached"} /\ \A d \in Chan \ {e} : node'[d] = node[d]
    BY <1>2, <2>1
  <2> QED BY <1>3, <2>2, <2>3
<1> QED BY <1>4, <1>5

LEMMA WorksAside ==
  ASSUME NEW h \in Handler, NEW e, Touches(h, e), ~ Busy(h, e), ~ Busy(h, e)'
  PROVE  Works(e)' = Works(e)
<1>1. \A u \in Handler : u # h => pc'[u] = pc[u] /\ chan'[u] = chan[u] /\ req'[u] = req[u]
  BY DEF Touches, Thread
<1>2. \A u \in Handler : Busy(u, e)' <=> Busy(u, e)
  BY <1>1 DEF Busy
<1>3. \A u \in Handler : Busy(u, e) => pc'[u] = pc[u] /\ chan'[u] = chan[u] /\ req'[u] = req[u]
  BY <1>1
<1> QED BY <1>2, <1>3 DEF Works

LEMMA DriverCloseMail ==
  ASSUME NCPU = 1, ChanInv, MailInv, NEW h \in Handler, DriverClose(h)
  PROVE  MailInv'
<1>0. /\ At(h, "drvclose")
      /\ driverFile' = [driverFile EXCEPT ![chan[h]] = FALSE]
      /\ deferred' = [deferred EXCEPT ![chan[h]] = {}]
      /\ Unref(h, chan[h], Alive(chan[h]), "loop") /\ clientFile' = clientFile
      /\ closed' = closed /\ handler' = handler /\ sendList' = sendList
      /\ recvList' = recvList
  BY DEF DriverClose, CloseFile, chanVars, listVars
<1>1. pc[h] = "drvclose" /\ h \notin Client
  BY <1>0, ChannelAssumption DEF At
<1>2. TypeOK /\ h \in Thread /\ chan[h] \in Chan /\ node[chan[h]] # "unused"
  BY <1>1, BusyHandler
<1>3. PICK e \in Chan : e = chan[h]
  BY <1>2
<1>4. Alive(e) \in BOOLEAN /\ "loop" \in Points
  BY DEF Alive, Points, Outside
<1>5. /\ \A u \in Thread \ {h} :
           pc'[u] = pc[u] /\ chan'[u] = chan[u] /\ req'[u] = req[u]
      /\ pc'[h] \in {"inval", "loop"} /\ chan'[h] \in {e, None}
      /\ node'[e] \in {node[e], "detached"}
      /\ \A d \in Chan \ {e} : node'[d] = node[d] /\ refs'[d] = refs[d]
  BY <1>0, <1>2, <1>3, <1>4, UnrefShape
<1>6. /\ \A d \in Chan \ {e} : driverFile'[d] = driverFile[d] /\ deferred'[d] = deferred[d]
      /\ deferred'[e] = {}
  BY <1>0, <1>2, <1>3 DEF TypeOK, NodeTypes, ListTypes
<1>7. Touches(h, e)
  BY <1>0, <1>3, <1>5, <1>6 DEF Touches
<1>8. Works(e)' = Works(e)
  BY <1>1, <1>5, <1>7, WorksAside DEF Busy
<1>9. Asking(e)' = Asking(e)
  BY <1>1, <1>2, <1>7, AskingStays
<1>10. ASSUME Alive(e)' PROVE MailAt(e)'
  <2>1. Alive(e)
    BY <1>5, <1>10 DEF Alive
  <2>2. Mail(sendList[e], recvList[e], deferred[e], Works(e), Asking(e))
    BY <2>1, MailInvParts DEF MailAt
  <2>3. Mail(sendList[e], recvList[e], {}, Works(e), Asking(e))
    BY <2>2, MailForgotten
  <2> QED BY <1>0, <1>6, <1>8, <1>9, <2>3 DEF MailAt
<1>11. Bound(h)'
  BY <1>5 DEF Bound
<1>12. node'[e] # "unused"
  BY <1>2, <1>3, <1>5
<1> QED BY <1>0, <1>7, <1>10, <1>11, <1>12, DriverActs

(* invalidate() of a thread of the driver.                                 *)
LEMMA DriverInvalidateMail ==
  ASSUME NCPU = 1, ChanInv, MailInv, NEW h \in Handler, Invalidate(h)
  PROVE  MailInv'
<1>0. /\ At(h, "inval")
      /\ sendList' = [sendList EXCEPT ![chan[h]] = << >>]
      /\ recvList' = [recvList EXCEPT ![chan[h]] = << >>]
      /\ node' = [node EXCEPT ![chan[h]] = "freed"]
      /\ Leave(h, req[h].back)
      /\ refs' = refs /\ clientFile' = clientFile /\ driverFile' = driverFile
      /\ closed' = closed /\ handler' = handler /\ deferred' = deferred
  BY DEF Invalidate, chanVars
<1>1. TypeOK /\ HandlerAt(h) /\ h \in Thread /\ pc[h] = "inval"
  BY <1>0 DEF ChanInv, Thread, At
<1>2. chan[h] \in Chan /\ req[h].back = "loop"
  BY <1>1 DEF HandlerAt
<1>3. PICK e \in Chan : e = chan[h]
  BY <1>2
<1>4. GoOn(h, e, "loop") /\ "loop" \in Points
  BY <1>0, <1>2, <1>3 DEF Leave, Points, Outside
<1>5. /\ pc'[h] = "loop" /\ chan'[h] = None
      /\ \A u \in Thread \ {h} : pc'[u] = pc[u] /\ chan'[u] = chan[u] /\ req'[u] = req[u]
  BY <1>1, <1>4, GoOnEffect
<1>6. /\ node'[e] = "freed"
      /\ \A d \in Chan \ {e} : /\ node'[d] = node[d]
                               /\ sendList'[d] = sendList[d] /\ recvList'[d] = recvList[d]
  BY <1>0, <1>1, <1>3 DEF TypeOK, NodeTypes, ListTypes
<1>7. Touches(h, e)
  BY <1>0, <1>3, <1>5, <1>6 DEF Touches
<1>8. Bound(h)' /\ ~ Alive(e)' /\ node'[e] # "unused"
  BY <1>5, <1>6 DEF Bound, Alive
<1> QED BY <1>0, <1>7, <1>8, DriverActs

(* A step of a client that does not wait for a reply behind it.            *)
LEMMA ClientGoes ==
  ASSUME ChanInv, ChanInv', MailInv, RidFree, NEW t \in Client, NEW e \in Chan,
         Touches(t, e), handler' = handler,
         pc'[t] \notin {"recv", "asleep", "cancel"},
         pc'[t] = "openfail" => req'[t] = req[t],
         \A d \in Chan : d # e => closed'[d] = closed[d], Deserted(e)',
         Alive(e)' => Mail(sendList'[e], recvList'[e], deferred'[e], Works(e),
                           Asking(e) \ Own(t, e))
  PROVE  MailInv'
<1>1. t \in Thread /\ t \notin Handler
  BY ChannelAssumption DEF Thread
<1>2. ClientAt(t)'
  BY DEF ChanInv
<1>3. pc'[t] # "openfail" => req'[t].op = "none"
  BY <1>2, IdleType DEF ClientAt
<1>4. \A u \in Client : Waiting(u)'
  BY <1>3, WaitingKept
<1>5. \A h \in Handler : Bound(h)'
  BY <1>1, BoundKept
<1>6. \A c \in Chan : Deserted(c)'
  BY <1>1, DesertedKept
<1>7. Asking(e)' = Asking(e) \ Own(t, e)
  <2>1. Own(t, e)' = {}
    BY DEF Own, Active
  <2>2. Asking(e)' = (Asking(e) \ Own(t, e)) \cup Own(t, e)'
    BY OneRequest
  <2> QED BY <2>1, <2>2
<1>8. Works(e)' = Works(e)
  BY <1>1, WorksStay
<1>9. Alive(e)' => MailAt(e)'
  BY <1>7, <1>8 DEF MailAt
<1> QED BY <1>1, <1>4, <1>5, <1>6, <1>9, MailAssembled

(* It has not waited before either, and leaves the mail alone.             *)
LEMMA ClientAside ==
  ASSUME ChanInv, ChanInv', MailInv, RidFree, NEW t \in Client, NEW e \in Chan,
         Touches(t, e), handler' = handler,
         pc[t] \notin {"recv", "asleep", "cancel"},
         pc'[t] \notin {"recv", "asleep", "cancel", "openfail"},
         \A d \in Chan : d # e => closed'[d] = closed[d], Deserted(e)',
         Alive(e)' => /\ Alive(e) /\ sendList'[e] = sendList[e] /\ recvList'[e] = recvList[e]
                      /\ deferred'[e] = deferred[e]
  PROVE  MailInv'
<1>1. Asking(e) \ Own(t, e) = Asking(e)
  BY DEF Own, Active
<1>2. ASSUME Alive(e)'
      PROVE  Mail(sendList'[e], recvList'[e], deferred'[e], Works(e), Asking(e))
  BY <1>2, MailInvParts DEF MailAt
<1> QED BY <1>1, <1>2, ClientGoes

LEMMA ReleaseMail ==
  ASSUME ChanInv, ChanInv', MailInv, RidFree, NEW t \in Client, Release(t)
  PROVE  MailInv'
<1>0. /\ At(t, "release") /\ Unref(t, chan[t], FALSE, "user")
      /\ clientFile' = clientFile /\ driverFile' = driverFile
      /\ closed' = closed /\ handler' = handler /\ sendList' = sendList
      /\ recvList' = recvList /\ deferred' = deferred
  BY DEF Release, chanVars, listVars
<1>1. ClientAt(t) /\ t \in Thread /\ pc[t] = "release"
  BY <1>0 DEF ChanInv, Thread, At
<1>2. PICK e \in Chan : e = chan[t]
  BY <1>1 DEF ClientAt
<1>3. node[e] # "unused" /\ "user" \in Points /\ t \in Openers(e)
  BY <1>1, <1>2, KnownChannel DEF Points, Outside, Openers
<1>4. /\ \A u \in Thread \ {t} :
           pc'[u] = pc[u] /\ chan'[u] = chan[u] /\ req'[u] = req[u]
      /\ pc'[t] \in {"inval", "user"} /\ chan'[t] \in {e, None}
      /\ node'[e] \in {node[e], "detached"}
      /\ \A d \in Chan \ {e} : node'[d] = node[d] /\ refs'[d] = refs[d]
  BY <1>0, <1>1, <1>2, <1>3, UnrefShape
<1>5. Touches(t, e)
  BY <1>0, <1>2, <1>4 DEF Touches
<1>6. Deserted(e)'
  BY <1>0, <1>1, <1>3, <1>4, <1>5, DesertedStays
<1>7. Alive(e)' => Alive(e)
  BY <1>4 DEF Alive
<1> QED BY <1>0, <1>1, <1>4, <1>5, <1>6, <1>7, ClientAside

LEMMA OpenFailMail ==
  ASSUME ChanInv, ChanInv', MailInv, RidFree, NEW t \in Client, OpenFail(t)
  PROVE  MailInv'
<1>0. /\ At(t, "openfail") /\ driverFile' = [driverFile EXCEPT ![chan[t]] = FALSE]
      /\ clientFile' = clientFile
      /\ closed' = closed /\ handler' = handler /\ sendList' = sendList
      /\ recvList' = recvList /\ deferred' = deferred
  BY DEF OpenFail, chanVars, listVars
<1>1. ClientAt(t) /\ t \in Thread /\ pc[t] = "openfail" /\ TypeOK
  BY <1>0 DEF ChanInv, Thread, At
<1>2. PICK e \in Chan : e = chan[t]
  BY <1>1 DEF ClientAt
<1>3. node[e] # "unused" /\ "release" \in Points /\ t \in Openers(e)
  BY <1>1, <1>2, KnownChannel DEF Points, Openers, ClientAt
<1>4. /\ \A u \in Thread \ {t} :
           pc'[u] = pc[u] /\ chan'[u] = chan[u] /\ req'[u] = req[u]
      /\ pc'[t] \in {"inval", "release"} /\ chan'[t] \in {e, None}
      /\ node'[e] \in {node[e], "detached"}
      /\ \A d \in Chan \ {e} : node'[d] = node[d] /\ refs'[d] = refs[d]
  <2>1. CASE ~ driverFile[e]
    <3>1. GoOn(t, e, "release") /\ node' = node /\ refs' = refs
      BY <1>2, <2>1 DEF OpenFail, Leave
    <3> QED BY <1>1, <1>3, <3>1, GoOnEffect
  <2>2. CASE driverFile[e]
    <3>1. Unref(t, e, Alive(e), "release") /\ Alive(e) \in BOOLEAN
      BY <1>2, <2>2 DEF OpenFail, Alive
    <3> QED BY <1>1, <1>3, <3>1, UnrefShape
  <2> QED BY <2>1, <2>2
<1>41. \A d \in Chan \ {e} : driverFile'[d] = driverFile[d]
  BY <1>0, <1>1, <1>2 DEF TypeOK, NodeTypes
<1>5. Touches(t, e)
  BY <1>0, <1>2, <1>4, <1>41 DEF Touches
<1>6. Deserted(e)'
  BY <1>0, <1>1, <1>3, <1>4, <1>5, DesertedStays
<1>7. Alive(e)' => Alive(e)
  BY <1>4 DEF Alive
<1> QED BY <1>0, <1>1, <1>4, <1>5, <1>6, <1>7, ClientAside

(* A client closes its file: nobody uses it anymore.                       *)
LEMMA CloseMail ==
  ASSUME ChanInv, ChanInv', MailInv, RidFree, NEW t \in Client, NEW e \in Chan, Close(t, e)
  PROVE  MailInv'
<1> DEFINE q == IF Alive(e) /\ refs[e] = 2 THEN "close" ELSE "user"
<1>0. /\ At(t, "user") /\ clientFile[e] /\ \A u \in Client : chan[u] # e
      /\ clientFile' = [clientFile EXCEPT ![e] = FALSE] /\ driverFile' = driverFile
      /\ Unref(t, e, FALSE, q)
      /\ closed' = closed /\ handler' = handler /\ sendList' = sendList
      /\ recvList' = recvList /\ deferred' = deferred
  BY DEF Close, chanVars, listVars
<1>1. ClientAt(t) /\ t \in Thread /\ pc[t] = "user" /\ TypeOK
  BY <1>0 DEF ChanInv, Thread, At
<1>2. chan[t] = None
  BY <1>1 DEF ClientAt
<1>3. q \in Points /\ q \in {"user", "close"}
  BY DEF Points, Outside
<1> HIDE DEF q
<1>4. /\ \A u \in Thread \ {t} :
           pc'[u] = pc[u] /\ chan'[u] = chan[u] /\ req'[u] = req[u]
      /\ pc'[t] \in {"inval", "user", "close"} /\ chan'[t] \in {e, None}
      /\ node'[e] \in {node[e], "detached"}
      /\ \A d \in Chan \ {e} : node'[d] = node[d] /\ refs'[d] = refs[d]
  <2>1. FALSE \in BOOLEAN /\ q \in Points /\ t \in Thread /\ Unref(t, e, FALSE, q)
    BY <1>0, <1>1, <1>3
  <2>2. /\ \A u \in Thread \ {t} :
             pc'[u] = pc[u] /\ chan'[u] = chan[u] /\ req'[u] = req[u]
        /\ pc'[t] \in {"inval", q} /\ chan'[t] \in {e, None}
        /\ node'[e] \in {node[e], "detached"}
        /\ \A d \in Chan \ {e} : node'[d] = node[d] /\ refs'[d] = refs[d]
    BY <2>1, UnrefShape
  <2> QED BY <1>3, <2>2
<1>5. ~ clientFile'[e] /\ \A d \in Chan \ {e} : clientFile'[d] = clientFile[d]
  BY <1>0, <1>1 DEF TypeOK, NodeTypes
<1>6. Touches(t, e)
  BY <1>0, <1>2, <1>4, <1>5 DEF Touches
<1>7. node[e] # "unused"
  <2>1. Held(e)
    BY DEF ChanInv
  <2>2. refs[e] # 0
    BY <1>0, <2>1 DEF Held
  <2> QED BY <2>1, <2>2 DEF Held
<1>8. Openers(e)' = {}
  <2>1. ClientAt(t)'
    BY DEF ChanInv
  <2>2. t \notin Openers(e)'
    BY <1>4, <2>1, IdleType DEF ClientAt, Openers
  <2>3. \A u \in Client \ {t} : u \notin Openers(e)'
    BY <1>0, <1>4 DEF Openers, Thread
  <2> QED BY <2>2, <2>3 DEF Openers
<1>9. Deserted(e)'
  BY <1>4, <1>5, <1>7, <1>8 DEF Deserted
<1>10. Alive(e)' => Alive(e)
  BY <1>4 DEF Alive
<1> QED BY <1>0, <1>1, <1>4, <1>6, <1>9, <1>10, ClientAside

LEMMA SetClosedMail ==
  ASSUME ChanInv, ChanInv', MailInv, RidFree, NEW t \in Client, SetClosed(t)
  PROVE  MailInv'
<1>0. /\ At(t, "setclosed") /\ closed' = [closed EXCEPT ![chan[t]] = TRUE]
      /\ Leave(t, "user")
      /\ node' = node /\ refs' = refs
      /\ clientFile' = clientFile /\ driverFile' = driverFile /\ handler' = handler
      /\ sendList' = sendList /\ recvList' = recvList /\ deferred' = deferred
  BY DEF SetClosed, nodeVars, listVars
<1>1. TypeOK /\ ClientAt(t) /\ t \in Thread /\ pc[t] = "setclosed"
  BY <1>0 DEF ChanInv, Thread, At
<1>2. PICK e \in Chan : e = chan[t]
  BY <1>1 DEF ClientAt
<1>3. GoOn(t, e, "user") /\ "user" \in Points
  BY <1>0, <1>2 DEF Leave, Points, Outside
<1>4. /\ pc'[t] = "user" /\ chan'[t] = None
      /\ \A u \in Thread \ {t} :
           pc'[u] = pc[u] /\ chan'[u] = chan[u] /\ req'[u] = req[u]
  BY <1>1, <1>3, GoOnEffect
<1>5. Touches(t, e)
  BY <1>0, <1>2, <1>4 DEF Touches
<1>6. \A d \in Chan : d # e => closed'[d] = closed[d]
  BY <1>0, <1>1, <1>2 DEF TypeOK, NodeTypes
<1>7. Deserted(e)'
  <2>1. ~ clientFile[e] /\ Openers(e) = {} /\ node[e] # "unused"
    <3>1. Deserted(e)
      BY MailInvParts
    <3> QED BY <1>1, <1>2, <3>1 DEF Deserted
  <2>2. Openers(e)' = {}
    <3>1. \A u \in Client \ {t} : u \in Openers(e)' <=> u \in Openers(e)
      BY <1>5, OpenersKept
    <3>2. t \notin Openers(e)'
      BY <1>4, ChannelAssumption DEF Openers
    <3> QED BY <2>1, <3>1, <3>2 DEF Openers
  <2> QED BY <1>0, <2>1, <2>2 DEF Deserted
<1>8. Alive(e)' = Alive(e)
  BY <1>0 DEF Alive
<1> QED BY <1>0, <1>1, <1>4, <1>5, <1>6, <1>7, <1>8, ClientAside

LEMMA ClientInvalidateMail ==
  ASSUME ChanInv, ChanInv', MailInv, RidFree, NEW t \in Client, Invalidate(t)
  PROVE  MailInv'
<1>0. /\ At(t, "inval")
      /\ sendList' = [sendList EXCEPT ![chan[t]] = << >>]
      /\ recvList' = [recvList EXCEPT ![chan[t]] = << >>]
      /\ node' = [node EXCEPT ![chan[t]] = "freed"]
      /\ Leave(t, req[t].back)
      /\ refs' = refs /\ clientFile' = clientFile /\ driverFile' = driverFile
      /\ closed' = closed /\ handler' = handler /\ deferred' = deferred
  BY DEF Invalidate, chanVars
<1>1. TypeOK /\ ClientAt(t) /\ t \in Thread /\ pc[t] = "inval"
  BY <1>0 DEF ChanInv, Thread, At
<1>2. chan[t] \in Chan /\ req[t].back = "user"
  BY <1>1 DEF ClientAt
<1>3. PICK e \in Chan : e = chan[t]
  BY <1>2
<1>4. GoOn(t, e, "user") /\ "user" \in Points
  BY <1>0, <1>2, <1>3 DEF Leave, Points, Outside
<1>5. /\ pc'[t] = "user" /\ chan'[t] = None
      /\ \A u \in Thread \ {t} : pc'[u] = pc[u] /\ chan'[u] = chan[u] /\ req'[u] = req[u]
  BY <1>1, <1>4, GoOnEffect
<1>6. /\ node'[e] = "freed"
      /\ \A d \in Chan \ {e} : /\ node'[d] = node[d]
                               /\ sendList'[d] = sendList[d] /\ recvList'[d] = recvList[d]
  BY <1>0, <1>1, <1>3 DEF TypeOK, NodeTypes, ListTypes
<1>7. Touches(t, e)
  BY <1>0, <1>3, <1>5, <1>6 DEF Touches
<1>8. ~ Alive(e)'
  BY <1>6 DEF Alive
<1>9. Deserted(e)'
  <2>1. t \notin Openers(e)'
    BY <1>5, ChannelAssumption DEF Openers
  <2> QED BY <1>0, <1>1, <1>5, <1>6, <1>7, <2>1, DesertedStays
<1> QED BY <1>0, <1>1, <1>5, <1>7, <1>8, <1>9, ClientAside

(* A step of a client that waits for a reply behind it.                    *)
LEMMA ClientStays ==
  ASSUME ChanInv, MailInv, RidFree, NEW t \in Client, NEW e \in Chan, Touches(t, e),
         \A d \in Chan : handler'[d] = handler[d] \/ \A h \in Handler : chan[h] # d,
         pc'[t] \in {"recv", "asleep", "cancel"}, chan'[t] = e,
         pc'[t] = "cancel" => req'[t].want = "resp" /\ ~ req'[t].forced,
         req'[t].nb /\ req'[t].want = "resp" /\ ~ req'[t].forced => pc'[t] # "asleep",
         \A x \in Mine(req'[t]) : x = Rid \/ (req[t].op # "none" /\ x \in Mine(req[t])),
         closed' = closed, Deserted(e)',
         Alive(e)' => Mail(sendList'[e], recvList'[e], deferred'[e], Works(e),
                           (Asking(e) \ Own(t, e)) \cup {req'[t]})
  PROVE  MailInv'
<1>1. t \in Thread /\ t \notin Handler
  BY ChannelAssumption DEF Thread
<1>2. \A u \in Client : Waiting(u)'
  BY WaitingKept
<1>3. \A h \in Handler : Bound(h)'
  BY <1>1, BoundKept
<1>4. \A c \in Chan : Deserted(c)'
  BY <1>1, DesertedKept
<1>5. Asking(e)' = (Asking(e) \ Own(t, e)) \cup {req'[t]}
  <2>1. Own(t, e)' = {req'[t]}
    BY DEF Own, Active
  <2>2. Asking(e)' = (Asking(e) \ Own(t, e)) \cup Own(t, e)'
    BY OneRequest
  <2> QED BY <2>1, <2>2
<1>6. Works(e)' = Works(e)
  BY <1>1, WorksStay
<1>7. Alive(e)' => MailAt(e)'
  BY <1>5, <1>6 DEF MailAt
<1> QED BY <1>1, <1>2, <1>3, <1>4, <1>7, MailAssembled

(* Nobody waits for a reply in a channel that its clients have left.       *)
LEMMA NobodyThere ==
  ASSUME ChanInv, MailInv, NEW e \in Chan,
         closed[e] \/ \E t \in Client : chan[t] = e /\ pc[t] \in {"close", "setclosed"},
         NEW u \in Client, chan[u] = e
  PROVE  req[u].op \notin {"open", "read", "write"}
<1>1. Deserted(e) /\ Held(e)
  BY MailInvParts DEF ChanInv
<1>2. ~ clientFile[e] /\ Openers(e) = {}
  BY <1>1 DEF Deserted
<1> QED BY <1>1, <1>2 DEF Held, Openers

(* The message as it is added.                                             *)
RequestGoes(c, o, r, S, Z) ==
  /\ S \in Seq(Messages) /\ Len(S) \in Nat
  /\ Len(Z) = IF o = "write" THEN Len(S) + 2 ELSE Len(S) + 1
  /\ \A i \in 1 .. Len(S) : Z[i] = S[i]
  /\ Z[Len(S) + 1] = [rid |-> Rid, op |-> o, of |-> r]
  /\ o = "write" => Z[Len(S) + 2] = [rid |-> Rid, op |-> "data", of |-> r]
  /\ \A d \in Chan \ {c} : sendList'[d] = sendList[d]
  /\ recvList' = recvList

LEMMA RequestAdded ==
  ASSUME TypeOK, NEW c \in Chan, NEW o \in {"open", "read", "write", "cancel", "close"},
         NEW r \in Rids, SendRequest(c, o, r)
  PROVE  RequestGoes(c, o, r, sendList[c], sendList'[c])
<1>00. PICK S : S = sendList[c]
  OBVIOUS
<1>01. PICK Z : Z = sendList'[c]
  OBVIOUS
<1> DEFINE m == [rid |-> Rid, op |-> o, of |-> r]
           n == [rid |-> Rid, op |-> "data", of |-> r]
           ms == IF o = "write" THEN << m, n >> ELSE << m >>
<1>0. [m EXCEPT !.op = "data"] = n
  OBVIOUS
<1>1. sendList' = [sendList EXCEPT ![c] = @ \o ms] /\ recvList' = recvList
  BY <1>0 DEF SendRequest
<1>2. m \in Messages /\ n \in Messages
  BY RidType DEF Messages
<1> HIDE DEF m, n
<1>3. /\ ms \in Seq(Messages) /\ Len(ms) = (IF o = "write" THEN 2 ELSE 1) /\ ms[1] = m
      /\ o = "write" => ms[2] = n
  <2>1. CASE o = "write"
    <3>1. ms = << m, n >>
      BY <2>1
    <3> HIDE DEF ms
    <3> QED BY <2>1, <3>1, <1>2
  <2>2. CASE o # "write"
    <3>1. ms = << m >>
      BY <2>2
    <3> HIDE DEF ms
    <3> QED BY <2>2, <3>1, <1>2
  <2> QED BY <2>1, <2>2
<1> HIDE DEF ms
<1>4. sendList \in [Chan -> Seq(Messages)]
  BY DEF TypeOK, ListTypes
<1>5. Z = S \o ms /\ S \in Seq(Messages) /\ Len(S) \in Nat
  BY <1>00, <1>01, <1>1, <1>4
<1>51. Len(ms) \in {1, 2} /\ (o = "write" => Len(ms) = 2)
  BY <1>3
<1>61. /\ Len(S \o ms) = Len(S) + Len(ms)
       /\ \A i \in 1 .. Len(S) + Len(ms) :
            (S \o ms)[i] = IF i <= Len(S) THEN S[i] ELSE ms[i - Len(S)]
  <2> HIDE DEF Messages
  <2>1. S \in Seq(Messages) /\ ms \in Seq(Messages)
    BY <1>3, <1>5
  <2> QED BY <2>1, ConcatProperties
<1>62. PICK a : a = Len(S)
  OBVIOUS
<1>63. PICK b : b = Len(ms)
  OBVIOUS
<1>64. a \in Nat /\ b \in {1, 2} /\ (o = "write" => b = 2)
  BY <1>51, <1>5, <1>62, <1>63
<1>65. \A i \in 1 .. a + b : Z[i] = IF i <= a THEN S[i] ELSE ms[i - a]
  BY <1>5, <1>61, <1>62, <1>63
<1>66. Len(Z) = a + b
  BY <1>5, <1>61, <1>62, <1>63
<1>7. \A i \in 1 .. Len(S) : Z[i] = S[i]
  <2>1. \A i \in 1 .. a : i \in 1 .. a + b /\ i <= a
    BY <1>64
  <2> QED BY <2>1, <1>62, <1>65
<1>8. Z[Len(S) + 1] = m
  <2>1. PICK k : k = a + 1
    OBVIOUS
  <2>2. k \in 1 .. a + b
    BY <1>64, <2>1
  <2>3. ~ (k <= a) /\ k - a = 1
    BY <1>64, <2>1
  <2>4. Z[k] = ms[1]
    BY <1>65, <2>2, <2>3
  <2> QED BY <1>3, <1>62, <2>1, <2>4
<1>9. ASSUME o = "write" PROVE Z[Len(S) + 2] = n
  <2>1. PICK k : k = a + 2
    OBVIOUS
  <2>0. b = 2
    BY <1>64, <1>9
  <2>2. k \in 1 .. a + b
    BY <1>64, <2>1, <2>0
  <2>3. ~ (k <= a) /\ k - a = 2
    BY <1>64, <2>1
  <2>4. Z[k] = ms[2]
    BY <1>65, <2>2, <2>3
  <2> QED BY <1>3, <1>62, <1>9, <2>1, <2>4
<1>10. \A d \in Chan \ {c} : sendList'[d] = sendList[d]
  BY <1>1, <1>4
<1>11. Len(Z) = IF o = "write" THEN Len(S) + 2 ELSE Len(S) + 1
  BY <1>3, <1>62, <1>63, <1>66
<1>12. RequestGoes(c, o, r, S, Z)
  BY <1>1, <1>5, <1>7, <1>8, <1>9, <1>10, <1>11 DEF m, n, RequestGoes
<1> QED BY <1>00, <1>01, <1>12

LEMMA SendCloseMail ==
  ASSUME ChanInv, ChanInv', MailInv, RidFree, NEW t \in Client, SendClose(t)
  PROVE  MailInv'
<1>0. /\ At(t, "close") /\ SendRequest(chan[t], "close", 0) /\ Goto(t, "setclosed")
      /\ chan' = chan /\ req' = req /\ deferred' = deferred
      /\ node' = node /\ refs' = refs /\ clientFile' = clientFile
      /\ driverFile' = driverFile /\ closed' = closed /\ handler' = handler
  BY DEF SendClose, nodeVars, chanVars
<1>1. TypeOK /\ ClientAt(t) /\ t \in Thread /\ pc[t] = "close"
  BY <1>0 DEF ChanInv, Thread, At
<1>2. PICK e \in Chan : e = chan[t]
  BY <1>1 DEF ClientAt
<1>3. PICK S : S = sendList[e]
  OBVIOUS
<1>4. PICK Z : Z = sendList'[e]
  OBVIOUS
<1>5. /\ S \in Seq(Messages) /\ Len(S) \in Nat /\ Len(Z) = Len(S) + 1
      /\ \A i \in 1 .. Len(S) : Z[i] = S[i]
      /\ Z[Len(S) + 1] = [rid |-> Rid, op |-> "close", of |-> 0]
      /\ \A d \in Chan \ {e} : sendList'[d] = sendList[d]
      /\ recvList' = recvList
  <2>1. SendRequest(e, "close", 0) /\ 0 \in Rids
    BY <1>0, <1>2, IdleType
  <2> DEFINE o == "close"
  <2>2. o \in {"open", "read", "write", "cancel", "close"} /\ o # "write"
    OBVIOUS
  <2>3. SendRequest(e, o, 0)
    BY <2>1
  <2> HIDE DEF o
  <2>4. /\ S \in Seq(Messages) /\ Len(S) \in Nat
        /\ Len(Z) = IF o = "write" THEN Len(S) + 2 ELSE Len(S) + 1
        /\ \A i \in 1 .. Len(S) : Z[i] = S[i]
        /\ Z[Len(S) + 1] = [rid |-> Rid, op |-> o, of |-> 0]
        /\ o = "write" => Z[Len(S) + 2] = [rid |-> Rid, op |-> "data", of |-> 0]
        /\ \A d \in Chan \ {e} : sendList'[d] = sendList[d]
        /\ recvList' = recvList
    <3>1. TypeOK /\ o \in {"open", "read", "write", "cancel", "close"} /\ 0 \in Rids
          /\ SendRequest(e, o, 0)
      BY <1>1, <2>1, <2>2, <2>3
    <3>2. RequestGoes(e, o, 0, sendList[e], sendList'[e])
      BY <3>1, RequestAdded
    <3> QED BY <1>3, <1>4, <3>2 DEF RequestGoes
  <2> QED BY <2>2, <2>4 DEF o
<1>6. pc'[t] = "setclosed" /\ \A u \in Thread \ {t} : pc'[u] = pc[u]
  BY <1>0, <1>1, GotoEffect DEF Points
<1>7. Touches(t, e)
  BY <1>0, <1>2, <1>5, <1>6 DEF Touches
<1>8. node[e] # "unused"
  BY <1>1, <1>2, KnownChannel
<1>9. Deserted(e)'
  <2>1. t \notin Openers(e)'
    BY <1>0, <1>1, <1>6, IdleType DEF ClientAt, Openers
  <2> QED BY <1>0, <1>1, <1>2, <1>6, <1>7, <1>8, <2>1, DesertedStays
<1>10. Asking(e) = {}
  <2>1. ASSUME NEW u \in Client, Active(u, e) PROVE FALSE
    <3>1. ClientAt(u) /\ chan[u] = e
      BY <2>1 DEF ChanInv, Active
    <3>2. req[u].op \in {"open", "read", "write"}
      BY <2>1, <3>1 DEF ClientAt, Active
    <3> QED BY <1>1, <1>2, <3>1, <3>2, NobodyThere
  <2> QED BY <2>1 DEF Asking
<1>11. ASSUME Alive(e)'
       PROVE  Mail(sendList'[e], recvList'[e], deferred'[e], Works(e), Asking(e) \ Own(t, e))
  <2>1. recvList[e] \in Seq(Replies)
    BY <1>1 DEF TypeOK, ListTypes
  <2>2. Mail(S, recvList[e], deferred[e], Works(e), {})
    BY <1>0, <1>3, <1>10, <1>11, MailInvParts DEF MailAt, Alive
  <2>3. /\ \A i \in 1 .. Len(S) : S[i].op = "close"
        /\ recvList[e] = << >> /\ deferred[e] = {}
        /\ \A w \in Works(e) : w.at \notin {"serve", "data"}
    BY <2>1, <2>2, MailDeserted
  <2>4. Works(e) = {}
    BY <2>3, WorksType
  <2>5. \A i \in 1 .. Len(Z) : Z[i].op = "close"
    <3>1. ASSUME NEW i \in 1 .. Len(Z) PROVE Z[i].op = "close"
      <4>1. CASE i = Len(S) + 1
        BY <1>5, <4>1
      <4>2. CASE i # Len(S) + 1
        <5>1. i \in 1 .. Len(S)
          BY <1>5, <4>2
        <5> QED BY <1>5, <2>3, <5>1
      <4> QED BY <4>1, <4>2
    <3> QED BY <3>1
  <2>6. Mail(Z, recvList[e], deferred[e], Works(e), {})
    BY <2>1, <2>3, <2>4, <2>5, MailDeserted
  <2>7. Asking(e) \ Own(t, e) = {}
    BY <1>10
  <2> QED BY <1>0, <1>4, <1>5, <2>6, <2>7
<1> QED BY <1>0, <1>6, <1>7, <1>9, <1>11, ClientGoes

(* The client in receive() or behind it.                                   *)
LEMMA AtReceive ==
  ASSUME ChanInv, MailInv, NEW t \in Client, NEW p \in {"recv", "asleep", "cancel"}, At(t, p)
  PROVE  /\ TypeOK /\ t \in Thread /\ t \notin Handler /\ pc[t] = p
         /\ chan[t] \in Chan /\ node[chan[t]] # "unused"
         /\ req[t] \in Reqs /\ req[t].op \in {"open", "read", "write"}
         /\ req[t].op = "open" => req[t].want = "resp" /\ ~ req[t].nb
         /\ Own(t, chan[t]) = {req[t]} /\ req[t] \in Asking(chan[t])
         /\ (Asking(chan[t]) \ {req[t]}) \cup {req[t]} = Asking(chan[t])
         /\ Waiting(t)
         /\ sendList[chan[t]] \in Seq(Messages) /\ recvList[chan[t]] \in Seq(Replies)
         /\ Alive(chan[t]) => Mail(sendList[chan[t]], recvList[chan[t]], deferred[chan[t]],
                                   Works(chan[t]), Asking(chan[t]))
<1>1. TypeOK /\ ClientAt(t) /\ t \in Thread /\ t \notin Handler /\ pc[t] = p /\ Waiting(t)
  BY ChannelAssumption, MailInvParts DEF ChanInv, Thread, At
<1>2. chan[t] \in Chan /\ req[t].op \in {"open", "read", "write"}
      /\ (req[t].op = "open" => req[t].want = "resp" /\ ~ req[t].nb)
  BY <1>1 DEF ClientAt
<1>3. PICK e \in Chan : e = chan[t]
  BY <1>2
<1>4. node[e] # "unused"
  BY <1>1, <1>3, KnownChannel
<1>5. req[t] \in Reqs /\ sendList[e] \in Seq(Messages) /\ recvList[e] \in Seq(Replies)
  BY <1>1 DEF TypeOK, ListTypes, ThreadTypes
<1>6. Own(t, e) = {req[t]} /\ req[t] \in Asking(e)
  BY <1>1, <1>3 DEF Own, Active, Asking
<1>7. Alive(e) => Mail(sendList[e], recvList[e], deferred[e], Works(e), Asking(e))
  BY MailInvParts DEF MailAt
<1>8. (Asking(e) \ {req[t]}) \cup {req[t]} = Asking(e)
  BY <1>6
<1> QED BY <1>1, <1>2, <1>3, <1>4, <1>5, <1>6, <1>7, <1>8

(* The client goes on waiting with the same request.                       *)
LEMMA WaitsOn ==
  ASSUME ChanInv, MailInv, RidFree, NEW t \in Client,
         NEW p \in {"recv", "asleep", "cancel"}, At(t, p),
         NEW q \in {"recv", "asleep", "cancel"}, Goto(t, q), chan' = chan, req' = req,
         UNCHANGED <<nodeVars, chanVars, listVars, deferred>>,
         q = "cancel" => req[t].want = "resp" /\ ~ req[t].forced,
         req[t].nb /\ req[t].want = "resp" /\ ~ req[t].forced => q # "asleep"
  PROVE  MailInv'
<1>1. PICK e \in Chan : e = chan[t]
  BY AtReceive
<1>2. /\ TypeOK /\ t \in Thread /\ t \notin Handler /\ pc[t] = p /\ node[e] # "unused"
      /\ req[t].op \in {"open", "read", "write"}
      /\ Own(t, e) = {req[t]} /\ (Asking(e) \ {req[t]}) \cup {req[t]} = Asking(e)
      /\ Alive(e) => Mail(sendList[e], recvList[e], deferred[e], Works(e), Asking(e))
  BY <1>1, AtReceive
<1>3. /\ node' = node /\ refs' = refs /\ clientFile' = clientFile
      /\ driverFile' = driverFile /\ closed' = closed /\ handler' = handler
      /\ sendList' = sendList /\ recvList' = recvList /\ deferred' = deferred
  BY DEF nodeVars, chanVars, listVars
<1>4. pc'[t] = q /\ \A u \in Thread \ {t} : pc'[u] = pc[u]
  BY <1>2, GotoEffect DEF Points, Outside
<1>5. Touches(t, e)
  BY <1>1, <1>3, <1>4 DEF Touches
<1>6. Deserted(e)'
  <2>1. t \in Openers(e)' => t \in Openers(e)
    BY <1>4 DEF Openers
  <2> QED BY <1>2, <1>3, <1>4, <1>5, <2>1, DesertedStays
<1>7. Alive(e)' => Mail(sendList'[e], recvList'[e], deferred'[e], Works(e),
                        (Asking(e) \ Own(t, e)) \cup {req'[t]})
  BY <1>2, <1>3 DEF Alive
<1>8. \A x \in Mine(req'[t]) : x = Rid \/ (req[t].op # "none" /\ x \in Mine(req[t]))
  BY <1>2
<1> QED BY <1>1, <1>3, <1>4, <1>5, <1>6, <1>7, <1>8, ClientStays

(* The client gives up because the channel is gone.                        *)
LEMMA LeavesRuins ==
  ASSUME ChanInv, ChanInv', MailInv, RidFree, NEW t \in Client,
         NEW p \in {"recv", "asleep", "cancel"}, At(t, p), ~ Alive(chan[t]),
         \/ Goto(t, "openfail") /\ chan' = chan /\ req' = req
         \/ Leave(t, "user"),
         UNCHANGED <<nodeVars, chanVars, listVars, deferred>>
  PROVE  MailInv'
<1>1. PICK e \in Chan : e = chan[t]
  BY AtReceive
<1>2. /\ TypeOK /\ t \in Thread /\ t \notin Handler /\ pc[t] = p /\ node[e] # "unused"
  BY <1>1, AtReceive
<1>3. /\ node' = node /\ refs' = refs /\ clientFile' = clientFile
      /\ driverFile' = driverFile /\ closed' = closed /\ handler' = handler
      /\ sendList' = sendList /\ recvList' = recvList /\ deferred' = deferred
  BY DEF nodeVars, chanVars, listVars
<1>4. /\ \A u \in Thread \ {t} : pc'[u] = pc[u] /\ chan'[u] = chan[u] /\ req'[u] = req[u]
      /\ \/ pc'[t] = "openfail" /\ chan'[t] = e /\ req'[t] = req[t]
         \/ pc'[t] = "user" /\ chan'[t] = None
  <2>1. CASE Goto(t, "openfail") /\ chan' = chan /\ req' = req
    <3>1. "openfail" \in Points
      BY DEF Points
    <3>2. pc'[t] = "openfail" /\ \A u \in Thread \ {t} : pc'[u] = pc[u]
      BY <1>2, <2>1, <3>1, GotoEffect
    <3> QED BY <1>1, <2>1, <3>2
  <2>2. CASE Leave(t, "user")
    <3>1. GoOn(t, e, "user") /\ "user" \in Points
      BY <1>1, <2>2 DEF Leave, Points, Outside
    <3> QED BY <1>2, <3>1, GoOnEffect
  <2> QED BY <2>1, <2>2
<1>5. Touches(t, e)
  BY <1>1, <1>3, <1>4 DEF Touches
<1>6. Deserted(e)'
  <2>1. t \in Openers(e)' => t \in Openers(e)
    BY <1>1, <1>4, ChannelAssumption DEF Openers
  <2> QED BY <1>2, <1>3, <1>4, <1>5, <2>1, DesertedStays
<1>7. ~ Alive(e)'
  BY <1>1, <1>3 DEF Alive
<1> QED BY <1>3, <1>4, <1>5, <1>6, <1>7, ClientGoes

LEMMA AwakeMail ==
  ASSUME ChanInv, ChanInv', MailInv, RidFree, NEW t \in Client, Awake(t)
  PROVE  MailInv'
<1>0. At(t, "asleep") /\ UNCHANGED <<nodeVars, chanVars, listVars, deferred>>
  BY DEF Awake
<1>1. CASE Interruptible(t) /\ sig[t]
  <2>1. Goto(t, "cancel") /\ chan' = chan /\ req' = req
    BY <1>1 DEF Awake
  <2>2. req[t].want = "resp" /\ ~ req[t].forced
    BY <1>1 DEF Interruptible
  <2> QED BY <1>0, <2>1, <2>2, WaitsOn
<1>2. CASE ~ (Interruptible(t) /\ sig[t]) /\ ~ Alive(chan[t])
  <2>1. Destroyed(t)
    BY <1>2 DEF Awake
  <2> QED BY <1>0, <1>2, <2>1, LeavesRuins DEF Destroyed
<1>3. CASE ~ (Interruptible(t) /\ sig[t]) /\ Alive(chan[t])
  <2>1. Goto(t, "recv") /\ chan' = chan /\ req' = req
    BY <1>3 DEF Awake
  <2> QED BY <1>0, <2>1, WaitsOn
<1> QED BY <1>1, <1>2, <1>3

LEMMA ReceiveWaitMail ==
  ASSUME Cancellable, ChanInv, ChanInv', MailInv, RidFree, NEW t \in Client, ReceiveWait(t)
  PROVE  MailInv'
<1>0. At(t, "recv") /\ ~ NonBlocking(t) /\ UNCHANGED <<nodeVars, chanVars, listVars, deferred>>
  BY DEF ReceiveWait
<1>1. /\ chan[t] \in Chan /\ req[t].op \in {"open", "read", "write"}
      /\ req[t].op = "open" => req[t].want = "resp" /\ ~ req[t].nb
  BY <1>0, AtReceive
<1>2. CASE closed[chan[t]] \/ ~ Alive(chan[t])
  <2>1. Destroyed(t)
    BY <1>2 DEF ReceiveWait
  <2>2. ~ closed[chan[t]]
    BY <1>1, NobodyThere
  <2> QED BY <1>0, <1>2, <2>1, <2>2, LeavesRuins DEF Destroyed
<1>3. CASE ~ (closed[chan[t]] \/ ~ Alive(chan[t]))
  <2>1. Goto(t, "asleep") /\ chan' = chan /\ req' = req
    BY <1>3 DEF ReceiveWait
  <2>2. ~ (req[t].nb /\ req[t].want = "resp" /\ ~ req[t].forced)
    BY <1>0, <1>1 DEF NonBlocking, Interruptible
  <2> QED BY <1>0, <2>1, <2>2, WaitsOn
<1> QED BY <1>2, <1>3

LEMMA ReceiveNothingMail ==
  ASSUME ChanInv, ChanInv', MailInv, RidFree, NEW t \in Client, ReceiveNothing(t)
  PROVE  MailInv'
<1>0. /\ At(t, "recv") /\ Matching(t) = {} /\ NonBlocking(t)
      /\ UNCHANGED <<nodeVars, chanVars, listVars, deferred>>
  BY DEF ReceiveNothing
<1>1. CASE req[t].want = "resp"
  <2>1. Goto(t, "cancel") /\ chan' = chan /\ req' = req
    BY <1>1 DEF ReceiveNothing
  <2>2. ~ req[t].forced
    BY <1>0, <1>1 DEF NonBlocking, Interruptible
  <2> QED BY <1>0, <1>1, <2>1, <2>2, WaitsOn
<1>2. CASE req[t].want # "resp"
  <2>1. Leave(t, "user")
    BY <1>2 DEF ReceiveNothing
  <2>2. req[t].nb /\ req[t].want = "data"
    BY <1>0, <1>2 DEF NonBlocking, Interruptible
  <2>3. PICK e \in Chan : e = chan[t]
    BY <1>0, AtReceive
  <2>4. ASSUME Alive(chan[t]) PROVE FALSE
    <3>1. /\ req[t] \in Asking(e)
          /\ Mail(sendList[e], recvList[e], deferred[e], Works(e), Asking(e))
      BY <1>0, <2>3, <2>4, AtReceive
    <3>2. IsAnswered(recvList[e], req[t].mid)
      BY <2>2, <3>1 DEF Mail, NoBlockOK
    <3> QED BY <1>0, <2>3, <3>2 DEF IsAnswered, Matching
  <2> QED BY <1>0, <2>1, <2>4, LeavesRuins
<1> QED BY <1>1, <1>2

LEMMA NoReplyToZero ==
  ASSUME NEW S, NEW R, NEW D, NEW W, NEW T, Mail(S, R, D, W, T), NEW i \in 1 .. Len(R)
  PROVE  R[i].rid # 0
<1>1. RepliesOK(S, R, D, W, T) /\ RequestsOK(T)
  BY DEF Mail
<1>2. PICK q \in T : Answers(q, R[i])
  BY <1>1 DEF RepliesOK, ReplyOK
<1>3. R[i].rid \in Mine(q)
  BY <1>2, AnswersMine
<1>4. 0 \notin Mine(q)
  BY <1>1 DEF RequestsOK
<1> QED BY <1>3, <1>4

(* The reply that receive() takes is the first one with the id of t.       *)
LEMMA ReplyChosen ==
  ASSUME ChanInv, MailInv, NEW t \in Client, At(t, "recv"), Matching(t) # {},
         NEW e \in Chan, e = chan[t], NEW l, l = recvList[e], NEW i, i = Min(Matching(t))
  PROVE  /\ l \in Seq(Replies) /\ i \in 1 .. Len(l)
         /\ Without(l, i, SubSeq(l, 1, i - 1) \o SubSeq(l, i + 1, Len(l)))
         /\ Alive(e) => IsFirst(l, i, req[t])
<1>1. l \in Seq(Replies)
      /\ (Alive(e) => Mail(sendList[e], l, deferred[e], Works(e), Asking(e)))
  BY AtReceive
<1>2. Len(l) \in Nat
  BY <1>1
<1>3. Matching(t) = {k \in 1 .. Len(l) : l[k].rid \in {req[t].mid, 0}}
  BY DEF Matching
<1>4. PICK M : M = Matching(t)
  OBVIOUS
<1>5. M \in SUBSET (1 .. Len(l)) /\ M # {}
  BY <1>3, <1>4
<1>6. Min(M) \in M /\ \A y \in M : ~ (y < Min(M))
  BY <1>2, <1>5, LeastPlace
<1>7. i \in M /\ \A y \in M : ~ (y < i)
  BY <1>4, <1>6
<1>8. i \in 1 .. Len(l)
  BY <1>5, <1>7
<1>9. Without(l, i, SubSeq(l, 1, i - 1) \o SubSeq(l, i + 1, Len(l)))
  BY <1>1, <1>8, WithoutOne
<1>10. ASSUME Alive(e) PROVE IsFirst(l, i, req[t])
  <2>1. \A k \in 1 .. Len(l) : l[k].rid # 0
    BY <1>1, <1>10, NoReplyToZero
  <2>2. l[i].rid = req[t].mid
    BY <1>3, <1>4, <1>7, <1>8, <2>1
  <2>3. \A k \in 1 .. Len(l) : k < i => l[k].rid # req[t].mid
    BY <1>3, <1>4, <1>7
  <2> QED BY <2>2, <2>3 DEF IsFirst
<1> QED BY <1>1, <1>8, <1>9, <1>10

(* The client leaves receive() for good.                                   *)
LEMMA TakesAndGoes ==
  ASSUME ChanInv, ChanInv', MailInv, RidFree, NEW t \in Client, At(t, "recv"),
         NEW e \in Chan, e = chan[t], Touches(t, e), handler' = handler, closed' = closed,
         pc'[t] \notin {"recv", "asleep", "cancel"}, pc'[t] = "openfail" => req'[t] = req[t],
         Deserted(e)', node' = node, sendList' = sendList, deferred' = deferred,
         NEW l, l = recvList[e], NEW i \in 1 .. Len(l), Without(l, i, recvList'[e]),
         Alive(e) => IsFirst(l, i, req[t]),
         req[t].op = "read" /\ req[t].want = "resp" => l[i].res # "ok",
         req[t].want = "cancel" => l[i].res # "there"
  PROVE  MailInv'
<1>1. /\ l \in Seq(Replies) /\ req[t] \in Asking(e) /\ Own(t, e) = {req[t]}
      /\ req[t] \in Reqs
      /\ Alive(e) => Mail(sendList[e], l, deferred[e], Works(e), Asking(e))
  BY AtReceive
<1>2. req[t].want \in {"resp", "data", "cancel"}
  BY <1>1 DEF Reqs
<1>3. \A w \in Works(e) : w.at \in {"serve", "data"}
  BY WorksType
<1>4. ASSUME Alive(e)
      PROVE  Mail(sendList[e], recvList'[e], deferred[e], Works(e), Asking(e) \ {req[t]})
  <2>1. PICK q \in Asking(e) : q = req[t]
    BY <1>1
  <2>2. PICK Q : Q = recvList'[e]
    OBVIOUS
  <2>3. Mail(sendList[e], Q, deferred[e], Works(e), Asking(e) \ {q})
    BY <1>1, <1>2, <1>3, <1>4, <2>1, <2>2, MailLeft
  <2> QED BY <2>1, <2>2, <2>3
<1>5. Alive(e)' => Mail(sendList'[e], recvList'[e], deferred'[e], Works(e),
                        Asking(e) \ Own(t, e))
  BY <1>1, <1>4 DEF Alive
<1> QED BY <1>5, ClientGoes

(* The client goes on with what is left of its request.                    *)
LEMMA TakesAndStays ==
  ASSUME ChanInv, ChanInv', MailInv, RidFree, NEW t \in Client, At(t, "recv"),
         NEW e \in Chan, e = chan[t], Touches(t, e), handler' = handler, closed' = closed,
         pc' = pc, chan' = chan, node' = node, sendList' = sendList, deferred' = deferred,
         clientFile' = clientFile, req'[t].op = req[t].op, req[t].op # "open",
         req'[t].want \in {"data", "resp"}, Mine(req'[t]) \subseteq Mine(req[t]),
         Alive(e) => Mail(sendList[e], recvList'[e], deferred[e], Works(e),
                          (Asking(e) \ {req[t]}) \cup {req'[t]})
  PROVE  MailInv'
<1>1. /\ Own(t, e) = {req[t]} /\ pc[t] = "recv" /\ t \in Thread /\ t \notin Handler
      /\ req[t].op \in {"open", "read", "write"} /\ node[e] # "unused"
  BY AtReceive
<1>2. Deserted(e)'
  <2>1. t \in Openers(e)' => t \in Openers(e)
    BY <1>1 DEF Openers
  <2>2. pc'[t] = "recv"
    BY <1>1
  <2> QED BY <1>1, <2>1, <2>2, DesertedStays
<1>3. \A x \in Mine(req'[t]) : x = Rid \/ (req[t].op # "none" /\ x \in Mine(req[t]))
  BY <1>1
<1>4. Alive(e)' => Mail(sendList'[e], recvList'[e], deferred'[e], Works(e),
                        (Asking(e) \ Own(t, e)) \cup {req'[t]})
  BY <1>1 DEF Alive
<1>5. pc'[t] = "recv" /\ chan'[t] = e
  BY <1>1
<1> QED BY <1>2, <1>3, <1>4, <1>5, ClientStays

LEMMA ReceiveReplyMail ==
  ASSUME ChanInv, ChanInv', MailInv, RidFree, NEW t \in Client, ReceiveReply(t)
  PROVE  MailInv'
<1>0. /\ At(t, "recv") /\ Matching(t) # {}
      /\ node' = node /\ refs' = refs /\ driverFile' = driverFile
      /\ closed' = closed /\ handler' = handler /\ sendList' = sendList
      /\ deferred' = deferred
  BY DEF ReceiveReply, chanVars
<1>1. PICK e \in Chan : e = chan[t]
  BY <1>0, AtReceive
<1>2. /\ TypeOK /\ t \in Thread /\ t \notin Handler /\ pc[t] = "recv" /\ node[e] # "unused"
      /\ req[t] \in Reqs /\ req[t].op \in {"open", "read", "write"}
      /\ req[t].op = "open" => req[t].want = "resp" /\ ~ req[t].nb
      /\ req[t] \in Asking(e) /\ recvList[e] \in Seq(Replies)
      /\ Alive(e) => Mail(sendList[e], recvList[e], deferred[e], Works(e), Asking(e))
  BY <1>0, <1>1, AtReceive
<1>3. PICK l : l = recvList[e]
  OBVIOUS
<1>4. PICK i : i = Min(Matching(t))
  OBVIOUS
<1>5. PICK Q : Q = SubSeq(l, 1, i - 1) \o SubSeq(l, i + 1, Len(l))
  OBVIOUS
<1>6. /\ i \in 1 .. Len(l) /\ Without(l, i, Q) /\ (Alive(e) => IsFirst(l, i, req[t]))
  BY <1>0, <1>1, <1>3, <1>4, <1>5, ReplyChosen
<1>7. recvList' = [recvList EXCEPT ![e] = Q]
  BY <1>1, <1>3, <1>4, <1>5 DEF ReceiveReply
<1>8. \/ /\ req[t].op = "open" /\ l[i].res = "ok"
         /\ clientFile' = [clientFile EXCEPT ![e] = TRUE]
         /\ Leave(t, "user")
      \/ /\ req[t].op = "open" /\ l[i].res # "ok"
         /\ Goto(t, "openfail")
         /\ clientFile' = clientFile /\ chan' = chan /\ req' = req
      \/ /\ req[t].op = "read" /\ req[t].want = "resp" /\ l[i].res = "ok"
         /\ req' = [req EXCEPT ![t].want = "data"]
         /\ clientFile' = clientFile /\ chan' = chan /\ pc' = pc
      \/ /\ req[t].want = "cancel" /\ l[i].res = "there"
         /\ req' = [req EXCEPT ![t].want = "resp", ![t].mid = req[t].old,
                                ![t].forced = TRUE]
         /\ clientFile' = clientFile /\ chan' = chan /\ pc' = pc
      \/ /\ req[t].op # "open"
         /\ req[t].op = "read" /\ req[t].want = "resp" => l[i].res # "ok"
         /\ req[t].want = "cancel" => l[i].res # "there"
         /\ Leave(t, "user")
         /\ clientFile' = clientFile
  BY <1>1, <1>3, <1>4 DEF ReceiveReply
<1>9. recvList \in [Chan -> Seq(Replies)] /\ clientFile \in [Chan -> BOOLEAN]
      /\ req \in [Thread -> Reqs]
  BY <1>2 DEF TypeOK, NodeTypes, ListTypes, ThreadTypes
<1>10. recvList'[e] = Q /\ \A d \in Chan \ {e} : recvList'[d] = recvList[d]
  BY <1>7, <1>9
<1>11. ASSUME Leave(t, "user")
       PROVE  /\ pc'[t] = "user" /\ chan'[t] = None /\ req'[t] = Idle0
              /\ \A u \in Thread \ {t} :
                   pc'[u] = pc[u] /\ chan'[u] = chan[u] /\ req'[u] = req[u]
  <2>1. GoOn(t, e, "user") /\ "user" \in Points
    BY <1>1, <1>11 DEF Leave, Points, Outside
  <2> QED BY <1>2, <2>1, GoOnEffect
<1>12. ASSUME Leave(t, "user"), \A d \in Chan \ {e} : clientFile'[d] = clientFile[d]
       PROVE  Touches(t, e)
  BY <1>0, <1>1, <1>10, <1>11, <1>12 DEF Touches
<1>13. CASE /\ req[t].op = "open" /\ l[i].res = "ok"
            /\ clientFile' = [clientFile EXCEPT ![e] = TRUE]
            /\ Leave(t, "user")
  <2>1. \A d \in Chan \ {e} : clientFile'[d] = clientFile[d]
    BY <1>9, <1>13
  <2>2. Touches(t, e) /\ pc'[t] = "user"
    BY <1>11, <1>12, <1>13, <2>1
  <2>3. t \in Openers(e)
    BY <1>1, <1>13 DEF Openers
  <2>4. Deserted(e)
    BY MailInvParts
  <2>5. ~ closed[e] /\ ~ \E u \in Client : chan[u] = e /\ pc[u] \in {"close", "setclosed"}
    BY <2>3, <2>4 DEF Deserted
  <2>6. ~ \E u \in Client : chan'[u] = e /\ pc'[u] \in {"close", "setclosed"}
    BY <1>2, <2>2, <2>5 DEF Touches, Thread
  <2>7. Deserted(e)'
    BY <1>0, <2>5, <2>6 DEF Deserted
  <2> QED BY <1>0, <1>1, <1>2, <1>3, <1>6, <1>10, <1>13, <2>2, <2>7, TakesAndGoes
<1>14. CASE /\ req[t].op = "open" /\ l[i].res # "ok"
            /\ Goto(t, "openfail")
            /\ clientFile' = clientFile /\ chan' = chan /\ req' = req
  <2>1. "openfail" \in Points
    BY DEF Points
  <2>2. pc'[t] = "openfail" /\ \A u \in Thread \ {t} : pc'[u] = pc[u]
    BY <1>2, <1>14, <2>1, GotoEffect
  <2>3. Touches(t, e)
    BY <1>0, <1>1, <1>10, <1>14, <2>2 DEF Touches
  <2>4. t \in Openers(e)
    BY <1>1, <1>14 DEF Openers
  <2>5. Deserted(e)'
    BY <1>0, <1>2, <1>14, <2>2, <2>3, <2>4, DesertedStays
  <2> QED BY <1>0, <1>1, <1>2, <1>3, <1>6, <1>10, <1>14, <2>2, <2>3, <2>5, TakesAndGoes
<1>15. CASE /\ req[t].op # "open"
            /\ req[t].op = "read" /\ req[t].want = "resp" => l[i].res # "ok"
            /\ req[t].want = "cancel" => l[i].res # "there"
            /\ Leave(t, "user")
            /\ clientFile' = clientFile
  <2>2. Touches(t, e) /\ pc'[t] = "user" /\ chan'[t] = None
    BY <1>11, <1>12, <1>15
  <2>4. t \notin Openers(e)'
    BY <2>2, ChannelAssumption DEF Openers
  <2>5. Deserted(e)'
    BY <1>0, <1>2, <1>15, <2>2, <2>4, DesertedStays
  <2> QED BY <1>0, <1>1, <1>3, <1>6, <1>10, <1>15, <2>2, <2>5, TakesAndGoes
<1>16. CASE /\ req[t].op = "read" /\ req[t].want = "resp" /\ l[i].res = "ok"
            /\ req' = [req EXCEPT ![t].want = "data"]
            /\ clientFile' = clientFile /\ chan' = chan /\ pc' = pc
  <2> DEFINE p == [req[t] EXCEPT !.want = "data"]
  <2>1. /\ p \in Reqs /\ p.op = req[t].op /\ p.want = "data" /\ p.mid = req[t].mid
        /\ p.nb = req[t].nb /\ p.forced = req[t].forced
    BY <1>2 DEF Reqs
  <2>2. req' = [req EXCEPT ![t] = p]
    BY <1>16
  <2> HIDE DEF p
  <2>3. req'[t] = p /\ \A u \in Thread \ {t} : req'[u] = req[u]
    BY <1>2, <1>9, <2>2
  <2>4. Touches(t, e)
    BY <1>0, <1>1, <1>10, <1>16, <2>3 DEF Touches
  <2>5. Mine(p) \subseteq Mine(req[t])
    BY <1>16, <2>1 DEF Mine, Base
  <2>6. \A w \in Works(e) : w.at \in {"serve", "data"}
    BY WorksType
  <2>7. ASSUME Alive(e)
        PROVE  Mail(sendList[e], Q, deferred[e], Works(e), (Asking(e) \ {req[t]}) \cup {p})
    <3>1. PICK q \in Asking(e) : q = req[t]
      BY <1>2
    <3>2. Mail(sendList[e], Q, deferred[e], Works(e), (Asking(e) \ {q}) \cup {p})
      BY <1>2, <1>3, <1>6, <1>16, <2>1, <2>6, <2>7, <3>1, MailMore
    <3> QED BY <3>1, <3>2
  <2>8. Alive(e) => Mail(sendList[e], recvList'[e], deferred[e], Works(e),
                         (Asking(e) \ {req[t]}) \cup {req'[t]})
    BY <1>10, <2>3, <2>7
  <2>9. /\ req'[t].op = req[t].op /\ req[t].op # "open" /\ req'[t].want \in {"data", "resp"}
        /\ Mine(req'[t]) \subseteq Mine(req[t])
    BY <1>16, <2>1, <2>3, <2>5
  <2> QED BY <1>0, <1>1, <1>16, <2>4, <2>8, <2>9, TakesAndStays
<1>17. CASE /\ req[t].want = "cancel" /\ l[i].res = "there"
            /\ req' = [req EXCEPT ![t].want = "resp", ![t].mid = req[t].old,
                                   ![t].forced = TRUE]
            /\ clientFile' = clientFile /\ chan' = chan /\ pc' = pc
  <2> DEFINE p == [req[t] EXCEPT !.want = "resp", !.mid = req[t].old, !.forced = TRUE]
  <2>1. /\ p.op = req[t].op /\ p.want = "resp" /\ p.mid = req[t].old
        /\ p.nb = req[t].nb /\ p.forced
    BY <1>2 DEF Reqs
  <2>2. req'[t] = p
    BY <1>2, <1>9, <1>17
  <2>21. \A u \in Thread \ {t} : req'[u] = req[u]
    BY <1>2, <1>9, <1>17
  <2> HIDE DEF p
  <2>4. Touches(t, e)
    BY <1>0, <1>1, <1>10, <1>17, <2>21 DEF Touches
  <2>5. Mine(p) \subseteq Mine(req[t])
    BY <1>17, <2>1 DEF Mine, Base
  <2>6. \A w \in Works(e) : w.at \in {"serve", "data"}
    BY WorksType
  <2>7. ASSUME Alive(e)
        PROVE  Mail(sendList[e], Q, deferred[e], Works(e), (Asking(e) \ {req[t]}) \cup {p})
    <3>1. PICK q \in Asking(e) : q = req[t]
      BY <1>2
    <3>2. Mail(sendList[e], Q, deferred[e], Works(e), (Asking(e) \ {q}) \cup {p})
      BY <1>2, <1>3, <1>6, <1>17, <2>1, <2>6, <2>7, <3>1, MailThere
    <3> QED BY <3>1, <3>2
  <2>8. Alive(e) => Mail(sendList[e], recvList'[e], deferred[e], Works(e),
                         (Asking(e) \ {req[t]}) \cup {req'[t]})
    BY <1>10, <2>2, <2>7
  <2>9. /\ req'[t].op = req[t].op /\ req[t].op # "open" /\ req'[t].want \in {"data", "resp"}
        /\ Mine(req'[t]) \subseteq Mine(req[t])
    BY <1>2, <1>17, <2>1, <2>2, <2>5
  <2> QED BY <1>0, <1>1, <1>17, <2>4, <2>8, <2>9, TakesAndStays
<1> QED BY <1>8, <1>13, <1>14, <1>15, <1>16, <1>17

(* What a client sends extends the queue by its request.                   *)
LEMMA QueueExtended ==
  ASSUME TypeOK, NEW c \in Chan, NEW o \in {"open", "read", "write", "cancel"},
         NEW r \in Rids, SendRequest(c, o, r), NEW S, S = sendList[c], NEW Z, Z = sendList'[c],
         NEW p, p.mid = Rid,
         IF o = "cancel" THEN p.want = "cancel" /\ p.old = r
                         ELSE p.want = "resp" /\ p.op = o
  PROVE  /\ S \in Seq(Messages) /\ Extended(S, Z) /\ Z[Len(S) + 1].rid = Rid
         /\ \A i \in 1 .. Len(Z) : i > Len(S) => Asks(p, Z[i])
         /\ \A d \in Chan \ {c} : sendList'[d] = sendList[d]
         /\ recvList' = recvList
<1>1. /\ S \in Seq(Messages) /\ Len(S) \in Nat
      /\ Len(Z) = IF o = "write" THEN Len(S) + 2 ELSE Len(S) + 1
      /\ \A i \in 1 .. Len(S) : Z[i] = S[i]
      /\ Z[Len(S) + 1] = [rid |-> Rid, op |-> o, of |-> r]
      /\ o = "write" => Z[Len(S) + 2] = [rid |-> Rid, op |-> "data", of |-> r]
      /\ \A d \in Chan \ {c} : sendList'[d] = sendList[d]
      /\ recvList' = recvList
  <2>1. o \in {"open", "read", "write", "cancel", "close"}
    OBVIOUS
  <2>2. RequestGoes(c, o, r, sendList[c], sendList'[c])
    BY <2>1, RequestAdded
  <2> QED BY <2>2 DEF RequestGoes
<1>2. PICK n : n = Len(S)
  OBVIOUS
<1>3. PICK x : x = Z[Len(S) + 1]
  OBVIOUS
<1>4. PICK y : y = Z[Len(S) + 2]
  OBVIOUS
<1>5. /\ x.rid = Rid /\ x.op = o /\ x.of = r
      /\ o = "write" => y.rid = Rid /\ y.op = "data"
  BY <1>1, <1>3, <1>4
<1>6. Asks(p, x) /\ (o = "write" => Asks(p, y))
  BY <1>5 DEF Asks, Base
<1>7. \A i \in 1 .. Len(Z) : i > Len(S) => Asks(p, Z[i])
  <2>1. ASSUME NEW i \in 1 .. Len(Z), i > Len(S) PROVE Asks(p, Z[i])
    <3>1. n \in Nat /\ i > n /\ Len(Z) = IF o = "write" THEN n + 2 ELSE n + 1
      BY <1>1, <1>2, <2>1
    <3>2. i \in Int /\ i <= Len(Z)
      BY <3>1
    <3>3. i = n + 1 \/ (o = "write" /\ i = n + 2)
      BY <3>1, <3>2
    <3>4. CASE i = n + 1
      BY <1>2, <1>3, <1>6, <3>4
    <3>5. CASE o = "write" /\ i = n + 2
      BY <1>2, <1>4, <1>6, <3>5
    <3> QED BY <3>3, <3>4, <3>5
  <2> QED BY <2>1
<1>8. Len(Z) \in {Len(S) + 1, Len(S) + 2} /\ (o = "write" <=> Len(Z) = Len(S) + 2)
  BY <1>1
<1>9. Extended(S, Z)
  BY <1>1, <1>3, <1>4, <1>5, <1>8 DEF Extended
<1> QED BY <1>1, <1>3, <1>5, <1>7, <1>9

LEMMA RidPositive ==
  ASSUME TypeOK
  PROVE  Rid # 0
BY DEF Rid

(* A client asks for something.                                            *)
LEMMA AsksMore ==
  ASSUME ChanInv, MailInv, RidFree, NEW t \in Client, NEW e \in Chan, Touches(t, e),
         \A d \in Chan : handler'[d] = handler[d] \/ \A h \in Handler : chan[h] # d,
         pc'[t] = "recv", chan'[t] = e, closed' = closed, Deserted(e)',
         deferred' = deferred,
         NEW o \in {"open", "read", "write", "cancel"}, NEW r \in Rids, SendRequest(e, o, r),
         req'[t].mid = Rid, ~ req'[t].forced, req'[t].op \in {"open", "read", "write"},
         \/ /\ Own(t, e) = {} /\ o # "cancel" /\ req'[t].want = "resp" /\ req'[t].op = o
         \/ /\ Own(t, e) = {req[t]} /\ o = "cancel" /\ req[t].want = "resp"
            /\ req[t].op \in {"open", "read", "write"}
            /\ req'[t].op = req[t].op /\ req'[t].old = req[t].mid /\ req'[t].nb = req[t].nb
            /\ req'[t].want = "cancel" /\ r = req[t].mid,
         Alive(e)' => Mail(sendList[e], recvList[e], deferred[e], Works(e), Asking(e))
  PROVE  MailInv'
<1>1. TypeOK /\ sendList[e] \in Seq(Messages) /\ recvList[e] \in Seq(Replies)
  BY DEF ChanInv, TypeOK, ListTypes
<1>2. PICK p : p = req'[t]
  OBVIOUS
<1>3. PICK S : S = sendList[e]
  OBVIOUS
<1>4. PICK Z : Z = sendList'[e]
  OBVIOUS
<1>5. /\ S \in Seq(Messages) /\ Extended(S, Z) /\ Z[Len(S) + 1].rid = Rid
      /\ \A i \in 1 .. Len(Z) : i > Len(S) => Asks(p, Z[i])
      /\ recvList' = recvList
  BY <1>1, <1>2, <1>3, <1>4, QueueExtended
<1>6. PICK O : O = Own(t, e)
  OBVIOUS
<1>7. O \subseteq Asking(e)
  BY <1>6, OneRequest
<1>8. \A q \in Asking(e) : Rid \notin Mine(q)
  <2>1. ASSUME NEW u \in Client, Active(u, e) PROVE Rid \notin Mine(req[u])
    <3>1. ClientAt(u)
      BY DEF ChanInv
    <3>2. req[u].op # "none"
      BY <2>1, <3>1 DEF ClientAt, Active
    <3> QED BY <3>2 DEF RidFree
  <2> QED BY <2>1 DEF Asking
<1>9. \A w \in Works(e) : w.at \in {"serve", "data"}
  BY WorksType
<1>10. \/ O = {} /\ p.want = "resp"
       \/ /\ O \subseteq Asking(e)
          /\ \E q \in Asking(e) : O = {q} /\ q.want = "resp" /\ q.op = p.op
                                  /\ p.old = q.mid /\ p.nb = q.nb
          /\ p.want = "cancel"
  BY <1>2, <1>6, <1>7
<1>11. ASSUME Alive(e)'
       PROVE  Mail(Z, recvList[e], deferred[e], Works(e), (Asking(e) \ O) \cup {p})
  <2>1. PICK T : T = Asking(e)
    OBVIOUS
  <2>2. PICK R : R = recvList[e]
    OBVIOUS
  <2>3. PICK D : D = deferred[e]
    OBVIOUS
  <2>4. PICK W : W = Works(e)
    OBVIOUS
  <2>5. PICK x : x = Rid
    OBVIOUS
  <2>6. /\ R \in Seq(Replies) /\ Mail(S, R, D, W, T)
        /\ \A w \in W : w.at \in {"serve", "data"}
        /\ \A q \in T : x \notin Mine(q)
    BY <1>1, <1>3, <1>8, <1>9, <1>11, <2>1, <2>2, <2>3, <2>4, <2>5
  <2>7. x # 0 /\ p.mid = x /\ ~ p.forced /\ p.op \in {"open", "read", "write"}
    BY <1>1, <1>2, <2>5, RidPositive
  <2>8. Z[Len(S) + 1].rid = x
    BY <1>5, <2>5
  <2>9. \/ O = {} /\ p.want = "resp"
        \/ /\ O \subseteq T /\ \E q \in T : O = {q} /\ q.want = "resp" /\ q.op = p.op
                             /\ p.old = q.mid /\ p.nb = q.nb
           /\ p.want = "cancel"
    BY <1>10, <2>1
  <2>10. Mail(Z, R, D, W, (T \ O) \cup {p})
    BY <1>5, <2>6, <2>7, <2>8, <2>9, MailAsked
  <2> QED BY <2>1, <2>2, <2>3, <2>4, <2>10
<1>12. Alive(e)' => Mail(sendList'[e], recvList'[e], deferred'[e], Works(e),
                         (Asking(e) \ Own(t, e)) \cup {req'[t]})
  BY <1>2, <1>4, <1>5, <1>6, <1>11
<1>13. \A x \in Mine(req'[t]) : x = Rid \/ (req[t].op # "none" /\ x \in Mine(req[t]))
  BY DEF Mine, Base
<1>14. pc'[t] # "cancel" /\ pc'[t] # "asleep"
  OBVIOUS
<1> QED BY <1>12, <1>13, <1>14, ClientStays

LEMMA CancelMail ==
  ASSUME ChanInv, ChanInv', MailInv, RidFree, NEW t \in Client, Cancel(t)
  PROVE  MailInv'
<1>0. At(t, "cancel")
  BY DEF Cancel
<1>1. CASE ~ Alive(chan[t])
  <2>1. Leave(t, "user") /\ UNCHANGED <<nodeVars, chanVars, listVars, deferred>>
    BY <1>1 DEF Cancel
  <2> QED BY <1>0, <1>1, <2>1, LeavesRuins
<1>2. CASE Alive(chan[t])
  <2>0. /\ SendRequest(chan[t], "cancel", req[t].mid)
        /\ req' = [req EXCEPT ![t].want = "cancel", ![t].mid = Rid,
                               ![t].old = req[t].mid]
        /\ Goto(t, "recv") /\ chan' = chan
        /\ node' = node /\ refs' = refs /\ clientFile' = clientFile
        /\ driverFile' = driverFile /\ closed' = closed /\ handler' = handler
        /\ deferred' = deferred
    BY <1>2 DEF Cancel, nodeVars, chanVars
  <2>1. PICK e \in Chan : e = chan[t]
    BY <1>0, AtReceive
  <2>2. /\ TypeOK /\ t \in Thread /\ t \notin Handler /\ pc[t] = "cancel"
        /\ node[e] # "unused" /\ req[t] \in Reqs /\ req[t].op \in {"open", "read", "write"}
        /\ Own(t, e) = {req[t]} /\ Waiting(t)
        /\ Mail(sendList[e], recvList[e], deferred[e], Works(e), Asking(e))
    BY <1>0, <1>2, <2>1, AtReceive
  <2>3. req[t].want = "resp" /\ ~ req[t].forced
    BY <2>2 DEF Waiting
  <2>4. req \in [Thread -> Reqs]
    BY <2>2 DEF TypeOK, ThreadTypes
  <2>5. req'[t] = [req[t] EXCEPT !.want = "cancel", !.mid = Rid, !.old = req[t].mid]
    BY <2>0, <2>2, <2>4
  <2>6. /\ req'[t].mid = Rid /\ req'[t].forced = req[t].forced /\ req'[t].op = req[t].op
        /\ req'[t].want = "cancel" /\ req'[t].old = req[t].mid /\ req'[t].nb = req[t].nb
    BY <2>2, <2>5 DEF Reqs
  <2>7. \A u \in Thread \ {t} : req'[u] = req[u]
    BY <2>0, <2>2, <2>4
  <2>8. "recv" \in Points
    BY DEF Points
  <2>9. pc'[t] = "recv" /\ \A u \in Thread \ {t} : pc'[u] = pc[u]
    BY <2>0, <2>2, <2>8, GotoEffect
  <2> DEFINE o == "cancel"
  <2>10. SendRequest(e, o, req[t].mid) /\ o \in {"open", "read", "write", "cancel"} /\ o = "cancel"
    BY <2>0, <2>1
  <2> HIDE DEF o
  <2>11. req[t].mid \in Rids
    BY <2>2 DEF Reqs
  <2>12. /\ \A d \in Chan \ {e} : sendList'[d] = sendList[d]
         /\ recvList' = recvList
    <3>1. PICK r \in Rids : r = req[t].mid
      BY <2>11
    <3>2. o \in {"open", "read", "write", "cancel", "close"} /\ SendRequest(e, o, r)
      BY <2>10, <3>1
    <3>3. RequestGoes(e, o, r, sendList[e], sendList'[e])
      BY <2>2, <3>2, RequestAdded
    <3> QED BY <3>3 DEF RequestGoes
  <2>13. Touches(t, e)
    BY <2>0, <2>1, <2>7, <2>9, <2>12 DEF Touches
  <2>14. Deserted(e)'
    <3>1. t \in Openers(e)' => t \in Openers(e)
      BY <2>0, <2>6, <2>9 DEF Openers
    <3> QED BY <2>0, <2>2, <2>9, <2>13, <3>1, DesertedStays
  <2>15. chan'[t] = e
    BY <2>0, <2>1
  <2>16. \A d \in Chan : handler'[d] = handler[d] \/ \A h \in Handler : chan[h] # d
    BY <2>0
  <2>17. PICK r \in Rids : r = req[t].mid
    BY <2>11
  <2>18. SendRequest(e, o, r)
    BY <2>10, <2>17
  <2> QED BY <2>0, <2>2, <2>3, <2>6, <2>9, <2>10, <2>13, <2>14, <2>15, <2>16, <2>17, <2>18,
             AsksMore
<1> QED BY <1>1, <1>2

LEMMA RequestMail ==
  ASSUME ChanInv, ChanInv', MailInv, RidFree, NEW t \in Client, NEW e \in Chan,
         NEW o \in {"read", "write"}, NEW nb \in BOOLEAN, Request(t, e, o, nb)
  PROVE  MailInv'
<1> DEFINE q == [Idle0 EXCEPT !.op = o, !.mid = Rid, !.nb = nb]
<1>0. /\ At(t, "user") /\ clientFile[e] /\ Alive(e)
      /\ SendRequest(e, o, 0) /\ Goto(t, "recv") /\ chan' = [chan EXCEPT ![t] = e]
      /\ req' = [req EXCEPT ![t] = q]
      /\ node' = node /\ refs' = refs /\ clientFile' = clientFile
      /\ driverFile' = driverFile /\ closed' = closed /\ handler' = handler
      /\ deferred' = deferred
  BY DEF Request, nodeVars, chanVars
<1>1. TypeOK /\ ClientAt(t) /\ t \in Thread /\ pc[t] = "user"
  BY <1>0 DEF ChanInv, Thread, At
<1>2. chan[t] = None /\ req[t] = Idle0
  BY <1>1 DEF ClientAt
<1>3. q.op = o /\ q.mid = Rid /\ ~ q.forced /\ q.want = "resp"
  BY DEF Idle0
<1> HIDE DEF q
<1>4. chan \in [Thread -> Chan \cup {None}] /\ req \in [Thread -> Reqs]
  BY <1>1 DEF TypeOK, ThreadTypes
<1>5. "recv" \in Points
  BY DEF Points
<1>6. pc'[t] = "recv" /\ \A u \in Thread \ {t} : pc'[u] = pc[u]
  BY <1>0, <1>1, <1>5, GotoEffect
<1>7. /\ chan'[t] = e /\ req'[t] = q
      /\ \A u \in Thread \ {t} : chan'[u] = chan[u] /\ req'[u] = req[u]
  BY <1>0, <1>1, <1>4
<1>8. /\ \A d \in Chan \ {e} : sendList'[d] = sendList[d]
      /\ recvList' = recvList
  <2>1. o \in {"open", "read", "write", "cancel", "close"} /\ 0 \in Rids
    BY IdleType
  <2>2. RequestGoes(e, o, 0, sendList[e], sendList'[e])
    BY <1>0, <1>1, <2>1, RequestAdded
  <2> QED BY <2>2 DEF RequestGoes
<1>9. Touches(t, e)
  BY <1>0, <1>2, <1>6, <1>7, <1>8 DEF Touches
<1>10. Deserted(e)'
  <2>1. t \notin Openers(e)'
    BY <1>3, <1>6, <1>7 DEF Openers
  <2>2. node'[e] # "unused"
    BY <1>0 DEF Alive
  <2> QED BY <1>0, <1>1, <1>6, <1>9, <2>1, <2>2, DesertedStays
<1>11. Own(t, e) = {}
  BY <1>1 DEF Own, Active
<1>12. Mail(sendList[e], recvList[e], deferred[e], Works(e), Asking(e))
  BY <1>0, MailInvParts DEF MailAt
<1>13. \A d \in Chan : handler'[d] = handler[d] \/ \A h \in Handler : chan[h] # d
  BY <1>0
<1>14. /\ req'[t].mid = Rid /\ ~ req'[t].forced /\ req'[t].op \in {"open", "read", "write"}
       /\ o # "cancel" /\ req'[t].want = "resp" /\ req'[t].op = o /\ 0 \in Rids
       /\ o \in {"open", "read", "write", "cancel"}
  BY <1>3, <1>7, IdleType
<1> QED BY <1>0, <1>6, <1>7, <1>9, <1>10, <1>11, <1>12, <1>13, <1>14, AsksMore

LEMMA OpenMail ==
  ASSUME ChanInv, ChanInv', MailInv, RidFree, NEW t \in Client, NEW e \in Chan, Open(t, e)
  PROVE  MailInv'
<1> DEFINE q == [Idle0 EXCEPT !.op = "open", !.mid = Rid]
           o == "open"
<1>0. /\ At(t, "user") /\ node[e] = "unused"
      /\ node' = [node EXCEPT ![e] = "alive"]
      /\ refs' = [refs EXCEPT ![e] = 2]
      /\ driverFile' = [driverFile EXCEPT ![e] = TRUE]
      /\ handler' = [handler EXCEPT ![e] = Creator]
      /\ SendRequest(e, o, 0) /\ Goto(t, "recv")
      /\ chan' = [chan EXCEPT ![t] = e]
      /\ req' = [req EXCEPT ![t] = q]
      /\ clientFile' = clientFile /\ closed' = closed /\ deferred' = deferred
  BY DEF Open
<1>1. TypeOK /\ ClientAt(t) /\ t \in Thread /\ pc[t] = "user"
  BY <1>0 DEF ChanInv, Thread, At
<1>2. chan[t] = None /\ req[t] = Idle0
  BY <1>1 DEF ClientAt
<1>3. q.op = o /\ q.mid = Rid /\ ~ q.forced /\ q.want = "resp"
  BY DEF Idle0
<1>31. o \in {"open", "read", "write", "cancel"} /\ o # "cancel" /\ o = "open"
  OBVIOUS
<1> HIDE DEF q, o
<1>4. /\ chan \in [Thread -> Chan \cup {None}] /\ req \in [Thread -> Reqs]
      /\ node \in [Chan -> {"unused", "alive", "detached", "freed"}]
      /\ refs \in [Chan -> UShort] /\ driverFile \in [Chan -> BOOLEAN]
      /\ handler \in [Chan -> Handler]
  BY <1>1 DEF TypeOK, NodeTypes, ThreadTypes
<1>5. /\ sendList[e] = << >> /\ recvList[e] = << >> /\ deferred[e] = {}
      /\ \A u \in Thread : chan[u] # e
  BY <1>0 DEF ChanInv, Blank
<1>50. "recv" \in Points
  BY DEF Points
<1>6. pc'[t] = "recv" /\ \A u \in Thread \ {t} : pc'[u] = pc[u]
  BY <1>0, <1>1, <1>50, GotoEffect
<1>7. /\ chan'[t] = e /\ req'[t] = q
      /\ \A u \in Thread \ {t} : chan'[u] = chan[u] /\ req'[u] = req[u]
  BY <1>0, <1>1, <1>4
<1>8. /\ \A d \in Chan \ {e} : sendList'[d] = sendList[d]
      /\ recvList' = recvList
  <2>1. o \in {"open", "read", "write", "cancel", "close"} /\ 0 \in Rids
    BY <1>31, IdleType
  <2>2. RequestGoes(e, o, 0, sendList[e], sendList'[e])
    BY <1>0, <1>1, <2>1, RequestAdded
  <2> QED BY <2>2 DEF RequestGoes
<1>81. \A d \in Chan \ {e} : node'[d] = node[d] /\ refs'[d] = refs[d]
                             /\ driverFile'[d] = driverFile[d] /\ handler'[d] = handler[d]
  BY <1>0, <1>4
<1>9. Touches(t, e)
  BY <1>0, <1>2, <1>6, <1>7, <1>8, <1>81 DEF Touches
<1>10. Deserted(e)'
  <2>1. Deserted(e)
    BY MailInvParts
  <2>2. ~ closed[e]
    BY <1>0, <2>1 DEF Deserted
  <2>3. ~ \E u \in Client : chan'[u] = e /\ pc'[u] \in {"close", "setclosed"}
    BY <1>5, <1>6, <1>7 DEF Thread
  <2> QED BY <1>0, <2>2, <2>3 DEF Deserted
<1>11. Own(t, e) = {}
  BY <1>1 DEF Own, Active
<1>12. Mail(sendList[e], recvList[e], deferred[e], Works(e), Asking(e))
  <2>1. Works(e) = {} /\ Asking(e) = {}
    BY <1>5 DEF Works, Busy, Asking, Active, Thread
  <2>2. recvList[e] \in Seq(Replies)
    BY <1>1 DEF TypeOK, ListTypes
  <2>3. PICK S : S = sendList[e]
    OBVIOUS
  <2>4. Len(S) = 0
    BY <1>5, <2>3
  <2>5. \A i \in 1 .. Len(S) : S[i].op = "close"
    BY <2>4
  <2>6. Mail(S, recvList[e], deferred[e], Works(e), {})
    BY <1>5, <2>1, <2>2, <2>5, MailDeserted
  <2> QED BY <2>1, <2>3, <2>6
<1>13. \A d \in Chan : handler'[d] = handler[d] \/ \A h \in Handler : chan[h] # d
  BY <1>5, <1>81 DEF Thread
<1>14. /\ req'[t].mid = Rid /\ ~ req'[t].forced /\ req'[t].op \in {"open", "read", "write"}
       /\ req'[t].want = "resp" /\ req'[t].op = o /\ 0 \in Rids
  BY <1>3, <1>31, <1>7, IdleType
<1> QED BY <1>0, <1>6, <1>7, <1>9, <1>10, <1>11, <1>12, <1>13, <1>14, <1>31, AsksMore

(* Steps that leave the channels and the requests alone.                   *)
LEMMA MailSame ==
  ASSUME MailInv, node' = node, clientFile' = clientFile, closed' = closed,
         handler' = handler, sendList' = sendList, recvList' = recvList,
         deferred' = deferred, pc' = pc, chan' = chan, req' = req
  PROVE  MailInv'
<1>1. ASSUME NEW u \in Client PROVE Waiting(u)'
  <2>1. Waiting(u)
    BY MailInvParts
  <2> QED BY <2>1 DEF Waiting, Mine, Base
<1>2. ASSUME NEW h \in Handler PROVE Bound(h)'
  <2>1. Bound(h)
    BY MailInvParts
  <2> QED BY <2>1 DEF Bound
<1>3. ASSUME NEW c \in Chan PROVE Deserted(c)'
  <2>1. Deserted(c)
    BY MailInvParts
  <2> QED BY <2>1 DEF Deserted, Openers
<1>4. ASSUME NEW c \in Chan, Alive(c)' PROVE MailAt(c)'
  <2>1. Alive(c) => MailAt(c)
    BY MailInvParts
  <2>2. Works(c)' = Works(c) /\ Asking(c)' = Asking(c)
    BY DEF Works, Busy, Asking, Active
  <2>3. Alive(c)
    BY <1>4 DEF Alive
  <2> QED BY <2>1, <2>2, <2>3 DEF MailAt
<1> QED BY <1>1, <1>2, <1>3, <1>4, MailInvPartsNext

LEMMA MailInitially == Init => MailInv
<1> SUFFICES ASSUME Init PROVE MailInv
  OBVIOUS
<1>1. /\ \A c \in Chan : node[c] = "unused" /\ ~ closed[c]
      /\ \A t \in Thread : chan[t] = None /\ req[t] = Idle0
      /\ \A t \in Client : pc[t] = "user"
      /\ \A h \in Handler : pc[h] = "loop"
  BY ChannelAssumption DEF Init, Thread
<1>2. ASSUME NEW t \in Client PROVE Waiting(t)
  <2>1. pc[t] = "user" /\ req[t].op = "none"
    BY <1>1, IdleType DEF Thread
  <2> QED BY <2>1 DEF Waiting
<1>3. ASSUME NEW h \in Handler PROVE Bound(h)
  BY <1>1 DEF Bound
<1>4. ASSUME NEW c \in Chan PROVE Deserted(c) /\ ~ Alive(c)
  BY <1>1 DEF Deserted, Alive
<1> QED BY <1>2, <1>3, <1>4, MailInvParts

LEMMA ClientStepMail ==
  ASSUME Cancellable, ChanInv, ChanInv', MailInv, RidFree, NEW t \in Client, ClientStep(t)
  PROVE  MailInv'
<1>1. CASE OpenFail(t)
  BY <1>1, OpenFailMail
<1>2. CASE Release(t)
  BY <1>2, ReleaseMail
<1>3. CASE ReceiveReply(t)
  BY <1>3, ReceiveReplyMail
<1>4. CASE ReceiveNothing(t)
  BY <1>4, ReceiveNothingMail
<1>5. CASE ReceiveWait(t)
  BY <1>5, ReceiveWaitMail
<1>6. CASE Awake(t)
  BY <1>6, AwakeMail
<1>7. CASE Cancel(t)
  BY <1>7, CancelMail
<1>8. CASE SendClose(t)
  BY <1>8, SendCloseMail
<1>9. CASE SetClosed(t)
  BY <1>9, SetClosedMail
<1>10. CASE Invalidate(t)
  BY <1>10, ClientInvalidateMail
<1> QED BY <1>1, <1>2, <1>3, <1>4, <1>5, <1>6, <1>7, <1>8, <1>9, <1>10 DEF ClientStep

LEMMA HandlerStepMail ==
  ASSUME NCPU = 1, ChanInv, MailInv, NEW h \in Handler, HandlerStep(h)
  PROVE  MailInv'
<1>0. pc[h] \notin {"destroy", "closeall"}
  BY Lives
<1>1. CASE GetWork(h)
  BY <1>1, GetWorkMail
<1>2. CASE Fetch(h)
  BY <1>2, FetchMail
<1>3. CASE \E g \in Handler, res \in {"ok", "err"} : ServeOpen(h, g, res)
  BY <1>3, ServeOpenMail
<1>4. CASE \E res \in {"ok", "err"} : ServeRead(h, res) \/ ServeData(h, res)
  BY <1>4, ServeReadMail, ServeDataMail
<1>5. CASE SendData(h)
  BY <1>5, SendDataMail
<1>6. CASE Defer(h)
  BY <1>6, DeferMail
<1>7. CASE ServeWrite(h)
  BY <1>7, ServeWriteMail
<1>8. CASE ServeCancel(h)
  BY <1>8, ServeCancelMail
<1>9. CASE DriverClose(h)
  BY <1>9, DriverCloseMail
<1>10. CASE Invalidate(h)
  BY <1>10, DriverInvalidateMail
<1>11. CASE DestroyChild(h) \/ DestroyDevice(h) \/ CloseAll(h) \/ AllClosed(h)
  BY <1>0, <1>11 DEF DestroyChild, DestroyDevice, CloseAll, AllClosed, At
<1> QED BY <1>1, <1>2, <1>3, <1>4, <1>5, <1>6, <1>7, <1>8, <1>9, <1>10, <1>11 DEF HandlerStep

LEMMA MailHolds ==
  ASSUME NCPU = 1, ~ MayDie, Cancellable, ChanInv, ChanInv', MailInv, RidFree, [Next]_vars
  PROVE  MailInv'
<1>1. CASE UNCHANGED vars
  <2>1. /\ node' = node /\ clientFile' = clientFile /\ closed' = closed
        /\ handler' = handler /\ sendList' = sendList /\ recvList' = recvList
        /\ deferred' = deferred /\ pc' = pc /\ chan' = chan /\ req' = req
    BY <1>1 DEF vars, nodeVars, chanVars, listVars, threadVars
  <2> QED BY <2>1, MailSame
<1>2. ASSUME NEW t \in Client,
             \/ ClientStep(t) \/ Signal(t) \/ HandleSignal(t)
             \/ \E c \in Chan :
                  \/ Open(t, c) \/ Close(t, c)
                  \/ \E o \in {"read", "write"}, nb \in BOOLEAN : Request(t, c, o, nb)
      PROVE  MailInv'
  <2>1. CASE ClientStep(t)
    BY <2>1, ClientStepMail
  <2>2. CASE Signal(t) \/ HandleSignal(t)
    <3>1. /\ node' = node /\ clientFile' = clientFile /\ closed' = closed
          /\ handler' = handler /\ sendList' = sendList /\ recvList' = recvList
          /\ deferred' = deferred /\ pc' = pc /\ chan' = chan /\ req' = req
      BY <2>2 DEF Signal, HandleSignal, nodeVars, chanVars, listVars, threadVars
    <3> QED BY <3>1, MailSame
  <2>4. ASSUME NEW c \in Chan, Open(t, c) PROVE MailInv'
    BY <2>4, OpenMail
  <2>5. ASSUME NEW c \in Chan, Close(t, c) PROVE MailInv'
    BY <2>5, CloseMail
  <2>6. ASSUME NEW c \in Chan, NEW o \in {"read", "write"}, NEW nb \in BOOLEAN,
               Request(t, c, o, nb)
        PROVE  MailInv'
    BY <2>6, RequestMail
  <2> QED BY <1>2, <2>1, <2>2, <2>4, <2>5, <2>6
<1>3. ASSUME NEW h \in Handler,
             \/ HandlerStep(h) \/ GetWorkInterrupted(h) \/ Die(h)
             \/ \E c \in Chan, r \in Rids : Complete(h, c, r)
      PROVE  MailInv'
  <2>1. CASE HandlerStep(h)
    BY <2>1, HandlerStepMail
  <2>2. CASE GetWorkInterrupted(h)
    BY <2>2, GetWorkInterruptedMail
  <2>3. CASE Die(h)
    BY <2>3 DEF Die
  <2>4. ASSUME NEW c \in Chan, NEW r \in Rids, Complete(h, c, r) PROVE MailInv'
    BY <2>4, CompleteMail
  <2> QED BY <1>3, <2>1, <2>2, <2>3, <2>4
<1> QED BY <1>1, <1>2, <1>3 DEF Next

LEMMA MailNotStale == MailInv => NoStaleReply
<1> SUFFICES ASSUME MailInv, NEW c \in Chan, Alive(c), NEW i \in 1 .. Len(recvList[c])
             PROVE  \E t \in Client :
                      /\ chan[t] = c
                      /\ recvList[c][i].rid \in {req[t].mid} \cup
                           (IF req[t].want = "cancel" THEN {req[t].old} ELSE {})
  BY DEF NoStaleReply
<1>1. PICK a : a = recvList[c][i]
  OBVIOUS
<1>2. Mail(sendList[c], recvList[c], deferred[c], Works(c), Asking(c))
  BY MailInvParts DEF MailAt
<1>3. PICK q \in Asking(c) : Answers(q, a)
  BY <1>1, <1>2 DEF Mail, RepliesOK, ReplyOK
<1>4. PICK t \in Client : Active(t, c) /\ q = req[t]
  BY <1>3 DEF Asking
<1>5. a.rid \in Mine(req[t])
  BY <1>3, <1>4, AnswersMine
<1>6. a.rid = req[t].mid \/ (req[t].want = "cancel" /\ a.rid = req[t].old)
  BY <1>5 DEF Mine, Base
<1>7. chan[t] = c
  BY <1>4 DEF Active
<1> QED BY <1>1, <1>6, <1>7

(* On one processor, with a driver that lives and can cancel: as long as   *)
(* the next request id is not that of a request still under way (the       *)
(* counter of 15 bits does not come round to it), every reply in a channel *)
(* is one that a client of the channel is still going to fetch, whatever   *)
(* is interrupted, cancelled, put off and closed meanwhile.                *)
THEOREM RepliesFetched ==
  ASSUME NCPU = 1, ~ MayDie, Cancellable
  PROVE  Spec /\ []RidFree => []NoStaleReply
<1>1. Init => MailInv
  BY MailInitially
<1>2. ChanInv /\ ChanInv' /\ MailInv /\ RidFree /\ [Next]_vars => MailInv'
  BY MailHolds
<1>3. MailInv => NoStaleReply
  BY MailNotStale
<1>4. Spec => []ChanInv
  BY ChannelInvariant
<1> QED BY <1>1, <1>2, <1>3, <1>4, PTL DEF Spec
=============================================================================
