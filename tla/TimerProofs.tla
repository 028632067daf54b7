---------------------------- MODULE TimerProofs ----------------------------
(***************************************************************************)
(* The timer keeps its entries and implements the remaining times, for     *)
(* every set of threads and of times, every tick and every pool.  Until is *)
(* a recursive function: that it exists, that it is unique and that it     *)
(* grows is shown by looking at the least place where it fails.            *)
(***************************************************************************)
EXTENDS Timer, FiniteSetTheorems, SequenceTheorems, WellFoundedInduction, TLAPS

(* A set of numbers that is not empty has a least one.                     *)
LEMMA LeastNat ==
  ASSUME NEW S, S \subseteq Nat, S # {}
  PROVE  \E k \in S : \A j \in S : k <= j
<1>1. IsWellFoundedOn(OpToRel(<, Nat), Nat)
  BY NatLessThanWellFounded
<1>2. PICK k \in S : \A j \in S : ~ (<<j, k>> \in OpToRel(<, Nat))
  BY <1>1, WFMin
<1>3. \A j \in S : ~ (j < k)
  BY <1>2 DEF OpToRel
<1> QED BY <1>3

(* What an entry of a list holds.                                          *)
LEMMA EntryAt ==
  ASSUME NEW l \in Seq(Entry)
  PROVE  /\ Len(l) \in Nat /\ DOMAIN l = 1 .. Len(l)
         /\ \A i \in 1 .. Len(l) :
              /\ l[i] \in Entry /\ l[i].tid \in Thread
              /\ l[i].time \in Nat /\ l[i].block \in BOOLEAN
<1>1. Len(l) \in Nat /\ DOMAIN l = 1 .. Len(l) /\ \A i \in 1 .. Len(l) : l[i] \in Entry
  OBVIOUS
<1>2. \A e \in Entry : e.tid \in Thread /\ e.time \in Nat /\ e.block \in BOOLEAN
  BY DEF Entry
<1> QED BY <1>1, <1>2

(* The recursive definition of Until has a solution: the first place up to *)
(* which there is none would have one.                                     *)
LEMMA UntilFunction ==
  ASSUME NEW l \in Seq(Entry)
  PROVE  Until(l) = [i \in 0 .. Len(l) |-> IF i = 0 THEN 0 ELSE Until(l)[i - 1] + l[i].time]
<1> DEFINE n == Len(l)
           Step(f, i) == IF i = 0 THEN 0 ELSE f[i - 1] + l[i].time
           Good(f, m) == f = [i \in 0 .. m |-> Step(f, i)]
           Bad == {m \in 0 .. n : ~ \E f : Good(f, m)}
<1>1. n \in Nat
  OBVIOUS
<1>2. Bad = {}
  <2> SUFFICES ASSUME Bad # {} PROVE FALSE
    OBVIOUS
  <2>0. Bad \subseteq Nat
    OBVIOUS
  <2>1. PICK m \in Bad : \A j \in Bad : m <= j
    <3> HIDE DEF Bad
    <3> QED BY <2>0, <2>1, LeastNat
  <2>11. m \in 0 .. n /\ \A f : ~ Good(f, m)
    BY <2>1
  <2>2. m # 0
    <3> DEFINE z == [i \in 0 .. 0 |-> 0]
    <3>1. \A i \in 0 .. 0 : Step(z, i) = 0
      OBVIOUS
    <3>2. Good(z, 0)
      BY <3>1
    <3> HIDE DEF Good, z
    <3> QED BY <3>2, <2>11
  <2>21. m - 1 \in 0 .. n /\ m - 1 \notin Bad
    <3> HIDE DEF Bad
    <3> QED BY <2>1, <2>11, <2>2
  <2>3. PICK f : Good(f, m - 1)
    <3> HIDE DEF Good
    <3> QED BY <2>21
  <2> DEFINE g == [i \in 0 .. m |-> Step(f, i)]
  <2>4. ASSUME NEW i \in 0 .. m - 1 PROVE g[i] = f[i]
    <3>1. i \in 0 .. m
      BY <2>11
    <3>2. g[i] = Step(f, i)
      BY <3>1
    <3>3. f[i] = [j \in 0 .. m - 1 |-> Step(f, j)][i]
      BY <2>3
    <3> QED BY <3>2, <3>3
  <2>5. ASSUME NEW i \in 0 .. m PROVE Step(g, i) = Step(f, i)
    <3>1. CASE i = 0
      BY <3>1
    <3>2. CASE i # 0
      <4>1. i - 1 \in 0 .. m - 1
        BY <3>2, <2>11
      <4>2. g[i - 1] = f[i - 1]
        BY <4>1, <2>4
      <4> HIDE DEF g
      <4> QED BY <4>2
    <3> QED BY <3>1, <3>2
  <2>6. Good(g, m)
    BY <2>5
  <2> HIDE DEF Good, g
  <2> QED BY <2>6, <2>11
<1>3. PICK f : Good(f, n)
  BY <1>1, <1>2
<1>4. Until(l) = CHOOSE s : s = [i \in 0 .. Len(l) |-> IF i = 0 THEN 0 ELSE s[i - 1] + l[i].time]
  BY DEF Until
<1> QED BY <1>3, <1>4

(* The defining equations, and that the sums are natural numbers.          *)
LEMMA UntilDef ==
  ASSUME NEW l \in Seq(Entry)
  PROVE  /\ Until(l) \in [0 .. Len(l) -> Nat]
         /\ Until(l)[0] = 0
         /\ \A i \in 1 .. Len(l) : Until(l)[i] = Until(l)[i - 1] + l[i].time
<1> DEFINE n == Len(l)
           u == Until(l)
           Bad == {m \in 0 .. n : u[m] \notin Nat}
<1>1. n \in Nat /\ \A i \in 1 .. n : l[i].time \in Nat
  BY EntryAt
<1>2. u = [i \in 0 .. n |-> IF i = 0 THEN 0 ELSE u[i - 1] + l[i].time]
  BY UntilFunction
<1> HIDE DEF n, u
<1>3. u[0] = 0
  BY <1>1, <1>2
<1>4. ASSUME NEW i \in 1 .. n PROVE u[i] = u[i - 1] + l[i].time
  <2>1. i \in 0 .. n /\ i # 0
    BY <1>1
  <2>2. u[i] = [j \in 0 .. n |-> IF j = 0 THEN 0 ELSE u[j - 1] + l[j].time][i]
    BY <1>2
  <2> QED BY <2>1, <2>2
<1>5. Bad = {}
  <2> SUFFICES ASSUME Bad # {} PROVE FALSE
    OBVIOUS
  <2>0. Bad \subseteq Nat
    BY <1>1
  <2>1. PICK m \in Bad : \A j \in Bad : m <= j
    <3> HIDE DEF Bad
    <3> QED BY <2>0, <2>1, LeastNat
  <2>2. m \in 1 .. n
    BY <2>1, <1>1, <1>3
  <2>3. m - 1 \in 0 .. n /\ m - 1 \notin Bad
    <3> HIDE DEF Bad
    <3> QED BY <2>1, <2>2, <1>1
  <2>4. u[m - 1] \in Nat
    BY <2>3
  <2>5. u[m] \in Nat
    <3>1. u[m] = u[m - 1] + l[m].time /\ l[m].time \in Nat
      BY <2>2, <1>1, <1>4
    <3> QED BY <3>1, <2>4
  <2> QED BY <2>1, <2>5
<1>6. u \in [0 .. n -> Nat]
  <2>1. \A i \in 0 .. n : u[i] \in Nat
    BY <1>5
  <2> QED BY <2>1, <1>2
<1> QED BY <1>3, <1>4, <1>6 DEF n, u

(* Only the sums fulfil the equations.                                     *)
LEMMA UntilUnique ==
  ASSUME NEW l \in Seq(Entry), NEW g, g[0] = 0,
         g = [i \in 0 .. Len(l) |-> g[i]],
         \A i \in 1 .. Len(l) : g[i] = g[i - 1] + l[i].time
  PROVE  Until(l) = g
<1> DEFINE n == Len(l)
           u == Until(l)
           Bad == {m \in 0 .. n : u[m] # g[m]}
<1>1. n \in Nat
  OBVIOUS
<1>2. /\ u \in [0 .. n -> Nat] /\ u[0] = 0
      /\ \A i \in 1 .. n : u[i] = u[i - 1] + l[i].time
  BY UntilDef
<1>21. /\ g[0] = 0 /\ g = [i \in 0 .. n |-> g[i]]
       /\ \A i \in 1 .. n : g[i] = g[i - 1] + l[i].time
  OBVIOUS
<1> HIDE DEF n, u
<1>5. Bad = {}
  <2> SUFFICES ASSUME Bad # {} PROVE FALSE
    OBVIOUS
  <2>0. Bad \subseteq Nat
    BY <1>1
  <2>1. PICK m \in Bad : \A j \in Bad : m <= j
    <3> HIDE DEF Bad
    <3> QED BY <2>0, <2>1, LeastNat
  <2>2. m \in 1 .. n
    BY <2>1, <1>1, <1>2, <1>21
  <2>3. m - 1 \in 0 .. n /\ m - 1 \notin Bad
    <3> HIDE DEF Bad
    <3> QED BY <2>1, <2>2, <1>1
  <2>4. u[m - 1] = g[m - 1]
    BY <2>3
  <2>5. u[m] = g[m]
    BY <2>2, <2>4, <1>2, <1>21
  <2> QED BY <2>1, <2>5
<1>6. \A i \in 0 .. n : u[i] = g[i]
  BY <1>5
<1>7. u = [i \in 0 .. n |-> u[i]]
  BY <1>2
<1> QED BY <1>6, <1>7, <1>21 DEF u

(* The sums do not decrease.                                               *)
LEMMA UntilGrows ==
  ASSUME NEW l \in Seq(Entry), NEW i \in 0 .. Len(l), NEW j \in 0 .. Len(l), i <= j
  PROVE  Until(l)[i] <= Until(l)[j]
<1> DEFINE n == Len(l)
           u == Until(l)
           Bad == {m \in i .. n : ~ (u[i] <= u[m])}
<1>1. n \in Nat /\ i \in Nat /\ j \in i .. n /\ \A k \in 1 .. n : l[k].time \in Nat
  BY EntryAt
<1>2. /\ u \in [0 .. n -> Nat]
      /\ \A k \in 1 .. n : u[k] = u[k - 1] + l[k].time
  BY UntilDef
<1> HIDE DEF n, u
<1>5. Bad = {}
  <2> SUFFICES ASSUME Bad # {} PROVE FALSE
    OBVIOUS
  <2>0. Bad \subseteq Nat
    BY <1>1
  <2>1. PICK m \in Bad : \A k \in Bad : m <= k
    <3> HIDE DEF Bad
    <3> QED BY <2>0, <2>1, LeastNat
  <2>2. m \in i + 1 .. n
    <3>1. i \in 0 .. n /\ u[i] \in Nat
      BY <1>1, <1>2
    <3>2. m \in i .. n /\ m # i
      BY <2>1, <3>1
    <3> QED BY <3>2, <1>1
  <2>3. m - 1 \in i .. n /\ m - 1 \notin Bad
    <3> HIDE DEF Bad
    <3> QED BY <2>1, <2>2, <1>1
  <2>4. u[i] <= u[m - 1]
    BY <2>3
  <2>5. /\ m \in 1 .. n /\ u[i] \in Nat /\ u[m - 1] \in Nat /\ l[m].time \in Nat
        /\ u[m] = u[m - 1] + l[m].time
    BY <2>2, <1>1, <1>2
  <2>6. u[i] <= u[m]
    BY <2>4, <2>5
  <2> QED BY <2>1, <2>6
<1> QED BY <1>1, <1>5 DEF u

(* The entries that end within m are the first ones.                       *)
LEMMA EndedFirst ==
  ASSUME NEW l \in Seq(Entry), NEW m \in Nat
  PROVE  /\ EndedBy(l, m) \in 0 .. Len(l)
         /\ {i \in 1 .. Len(l) : Until(l)[i] <= m} = 1 .. EndedBy(l, m)
         /\ Until(l)[EndedBy(l, m)] <= m
         /\ EndedBy(l, m) < Len(l) => Until(l)[EndedBy(l, m) + 1] > m
<1> DEFINE n == Len(l)
           u == Until(l)
           S == {i \in 1 .. n : u[i] <= m}
           More == {i \in 1 .. n + 1 : i \notin S}
<1>1. n \in Nat /\ u \in [0 .. n -> Nat] /\ u[0] = 0
  BY UntilDef
<1>2. \A i, j \in 0 .. n : i <= j => u[i] <= u[j]
  BY UntilGrows
<1>3. EndedBy(l, m) = Cardinality(S)
  <2>1. DOMAIN l = 1 .. n
    OBVIOUS
  <2> QED BY <2>1 DEF EndedBy
<1> HIDE DEF n, u
<1>4. PICK k \in More : \A j \in More : k <= j
  <2>1. More \subseteq Nat /\ n + 1 \in More
    BY <1>1
  <2> HIDE DEF More
  <2> QED BY <2>1, LeastNat
<1>5. \A i \in 1 .. k - 1 : i \in S
  <2>1. \A i \in 1 .. k - 1 : i \in 1 .. n + 1 /\ i \notin More
    <3>1. k \in 1 .. n + 1
      BY <1>4
    <3> HIDE DEF More
    <3> QED BY <3>1, <1>4, <1>1
  <2> HIDE DEF S
  <2> QED BY <2>1
<1>6. \A i \in S : i \in 1 .. k - 1
  <2> SUFFICES ASSUME NEW i \in S, ~ (i < k) PROVE FALSE
    BY <1>4, <1>1
  <2>1. k \in 1 .. n /\ k \notin S /\ u[i] <= m /\ i \in 1 .. n
    BY <1>4, <1>1
  <2>2. u[k] <= u[i] /\ u[k] \in Nat /\ u[i] \in Nat
    BY <2>1, <1>1, <1>2
  <2>3. u[k] <= m
    BY <2>1, <2>2
  <2> QED BY <2>1, <2>3
<1>7. S = 1 .. k - 1 /\ k \in 1 .. n + 1 /\ k \notin S
  <2>1. k \in 1 .. n + 1 /\ k \notin S
    BY <1>4
  <2> HIDE DEF S
  <2> QED BY <2>1, <1>5, <1>6
<1>8. Cardinality(S) = k - 1
  <2> HIDE DEF S
  <2>1. 1 \in Int /\ k - 1 \in Int /\ (IF 1 > k - 1 THEN 0 ELSE k - 1 - 1 + 1) = k - 1
    BY <1>7, <1>1
  <2> QED BY <2>1, <1>7, FS_Interval
<1>9. u[k - 1] <= m
  <2>1. CASE k = 1
    BY <2>1, <1>1
  <2>2. CASE k # 1
    <3>1. k - 1 \in S
      BY <2>2, <1>7, <1>1
    <3> QED BY <3>1
  <2> QED BY <2>1, <2>2
<1>10. k - 1 < n => u[k] > m
  <2> SUFFICES ASSUME k - 1 < n PROVE u[k] > m
    OBVIOUS
  <2>1. k \in 1 .. n /\ u[k] \in Nat
    BY <1>7, <1>1
  <2> QED BY <2>1, <1>7
<1>11. k - 1 + 1 = k /\ k - 1 \in 0 .. n
  BY <1>7, <1>1
<1> HIDE DEF S
<1>12. EndedBy(l, m) = k - 1
  BY <1>3, <1>8
<1> QED BY <1>7, <1>9, <1>10, <1>11, <1>12 DEF n, u, S

(* The elements of a concatenation.                                        *)
LEMMA ConcatAt ==
  ASSUME NEW S, NEW a \in Seq(S), NEW b \in Seq(S), NEW m \in Nat, NEW n \in Nat,
         Len(a) = m, Len(b) = n
  PROVE  /\ a \o b \in Seq(S) /\ Len(a \o b) = m + n
         /\ \A i \in 1 .. m + n : (a \o b)[i] = IF i <= m THEN a[i] ELSE b[i - m]
<1>1. a \o b \in Seq(S) /\ Len(a \o b) = m + n
  OBVIOUS
<1>2. \A i \in 1 .. m + n : (a \o b)[i] = IF i <= m THEN a[i] ELSE b[i - m]
  OBVIOUS
<1> QED BY <1>1, <1>2

(* The elements of a sequence with an element inserted or removed.         *)
LEMMA InsertedAt ==
  ASSUME NEW S, NEW s \in Seq(S), NEW p \in 1 .. Len(s) + 1, NEW e \in S
  PROVE  /\ InsertAt(s, p, e) \in Seq(S) /\ Len(InsertAt(s, p, e)) = Len(s) + 1
         /\ \A i \in 1 .. Len(s) + 1 : InsertAt(s, p, e)[i] =
              IF i < p THEN s[i] ELSE IF i = p THEN e ELSE s[i - 1]
<1> DEFINE n == Len(s)
           k == p - 1
           a == SubSeq(s, 1, k)
           b == SubSeq(s, p, n)
           ae == Append(a, e)
<1>1. n \in Nat /\ k \in 0 .. n /\ p = k + 1
  OBVIOUS
<1>2. a \in Seq(S) /\ Len(a) = k /\ \A i \in 1 .. k : a[i] = s[i]
  OBVIOUS
<1>3. b \in Seq(S) /\ Len(b) = n - k /\ \A i \in 1 .. n - k : b[i] = s[i + k]
  OBVIOUS
<1>4. InsertAt(s, p, e) = a \o <<e>> \o b
  BY DEF InsertAt
<1> HIDE DEF a, b, n, k
<1>5. a \o <<e>> = ae
  BY <1>2
<1>6. ae \in Seq(S) /\ Len(ae) = k + 1
      /\ \A i \in 1 .. k + 1 : ae[i] = IF i <= k THEN s[i] ELSE e
  BY <1>1, <1>2
<1> HIDE DEF ae
<1> DEFINE r == ae \o b
<1>7. r \in Seq(S) /\ Len(r) = k + 1 + (n - k)
      /\ \A i \in 1 .. k + 1 + (n - k) : r[i] = IF i <= k + 1 THEN ae[i] ELSE b[i - (k + 1)]
  <2>1. k + 1 \in Nat /\ n - k \in Nat
    BY <1>1
  <2>2. ae \in Seq(S) /\ b \in Seq(S) /\ Len(ae) = k + 1 /\ Len(b) = n - k
    BY <1>3, <1>6
  <2> HIDE DEF r
  <2>3. r \in Seq(S) /\ Len(r) = k + 1 + (n - k)
    BY <2>1, <2>2, ConcatAt DEF r
  <2>4. \A i \in 1 .. Len(ae) + Len(b) : r[i] = IF i <= Len(ae) THEN ae[i] ELSE b[i - Len(ae)]
    <3>1. ae \in Seq(S) /\ b \in Seq(S)
      BY <2>2
    <3> QED BY <3>1 DEF r
  <2>5. \A i \in 1 .. k + 1 + (n - k) : r[i] = IF i <= k + 1 THEN ae[i] ELSE b[i - (k + 1)]
    BY <2>2, <2>4, Zenon
  <2> QED BY <2>3, <2>5
<1> HIDE DEF r
<1>8. ASSUME NEW i \in 1 .. n + 1
      PROVE  r[i] = IF i < p THEN s[i] ELSE IF i = p THEN e ELSE s[i - 1]
  <2>1. r[i] = IF i <= k + 1 THEN ae[i] ELSE b[i - (k + 1)]
    BY <1>7, <1>1
  <2>2. CASE i <= k + 1
    <3>1. i \in 1 .. k + 1 /\ (i <= k <=> i < p) /\ (~ (i < p) => i = p)
      BY <2>2, <1>1
    <3>2. r[i] = IF i <= k THEN s[i] ELSE e
      BY <2>1, <2>2, <3>1, <1>6
    <3> QED BY <3>1, <3>2
  <2>3. CASE ~ (i <= k + 1)
    <3>1. i - (k + 1) \in 1 .. n - k /\ i - (k + 1) + k = i - 1
      BY <2>3, <1>1
    <3>2. r[i] = s[i - (k + 1) + k]
      BY <2>1, <2>3, <3>1, <1>3
    <3>3. ~ (i < p) /\ i # p
      BY <2>3, <1>1
    <3> QED BY <3>1, <3>2, <3>3
  <2> QED BY <2>2, <2>3
<1>9. InsertAt(s, p, e) = r /\ Len(r) = n + 1
  <2>1. k + 1 + (n - k) = n + 1
    BY <1>1
  <2>2. InsertAt(s, p, e) = r
    BY <1>4, <1>5 DEF r
  <2> QED BY <2>1, <2>2, <1>7
<1> QED BY <1>7, <1>8, <1>9 DEF n

(* The elements of a list without the one at place k.                      *)
LEMMA RemovedFrom ==
  ASSUME NEW S, NEW s \in Seq(S), NEW k \in 1 .. Len(s)
  PROVE  /\ RemoveAt(s, k) \in Seq(S) /\ Len(RemoveAt(s, k)) = Len(s) - 1
         /\ \A i \in 1 .. Len(s) - 1 : RemoveAt(s, k)[i] = IF i < k THEN s[i] ELSE s[i + 1]
<1> DEFINE n == Len(s)
           a == SubSeq(s, 1, k - 1)
           b == SubSeq(s, k + 1, n)
<1>1. n \in Nat /\ k \in 1 .. n
  OBVIOUS
<1>2. a \in Seq(S) /\ Len(a) = k - 1 /\ \A i \in 1 .. k - 1 : a[i] = s[i]
  OBVIOUS
<1>3. b \in Seq(S) /\ Len(b) = n - k /\ \A i \in 1 .. n - k : b[i] = s[i + k]
  OBVIOUS
<1>4. RemoveAt(s, k) = a \o b
  BY DEF RemoveAt
<1> HIDE DEF a, b, n
<1> DEFINE r == a \o b
<1>7. r \in Seq(S) /\ Len(r) = k - 1 + (n - k)
      /\ \A i \in 1 .. k - 1 + (n - k) : r[i] = IF i <= k - 1 THEN a[i] ELSE b[i - (k - 1)]
  <2>1. k - 1 \in Nat /\ n - k \in Nat
    BY <1>1
  <2>2. a \in Seq(S) /\ b \in Seq(S) /\ Len(a) = k - 1 /\ Len(b) = n - k
    BY <1>2, <1>3
  <2> HIDE DEF r
  <2>3. r \in Seq(S) /\ Len(r) = k - 1 + (n - k)
    BY <2>1, <2>2, ConcatAt DEF r
  <2>4. \A i \in 1 .. Len(a) + Len(b) : r[i] = IF i <= Len(a) THEN a[i] ELSE b[i - Len(a)]
    BY <2>2 DEF r
  <2>5. \A i \in 1 .. k - 1 + (n - k) : r[i] = IF i <= k - 1 THEN a[i] ELSE b[i - (k - 1)]
    BY <2>2, <2>4, Zenon
  <2> QED BY <2>3, <2>5
<1> HIDE DEF r
<1>8. ASSUME NEW i \in 1 .. n - 1
      PROVE  r[i] = IF i < k THEN s[i] ELSE s[i + 1]
  <2>1. r[i] = IF i <= k - 1 THEN a[i] ELSE b[i - (k - 1)]
    BY <1>7, <1>1
  <2>2. CASE i < k
    <3>1. i \in 1 .. k - 1 /\ i <= k - 1
      BY <2>2, <1>1
    <3> QED BY <2>1, <2>2, <3>1, <1>2
  <2>3. CASE ~ (i < k)
    <3>1. i - (k - 1) \in 1 .. n - k /\ i - (k - 1) + k = i + 1 /\ ~ (i <= k - 1)
      BY <2>3, <1>1
    <3>2. r[i] = s[i - (k - 1) + k]
      BY <2>1, <3>1, <1>3
    <3> QED BY <2>3, <3>1, <3>2
  <2> QED BY <2>2, <2>3
<1>9. RemoveAt(s, k) = r /\ Len(r) = n - 1
  BY <1>1, <1>4, <1>7 DEF r
<1> QED BY <1>7, <1>8, <1>9 DEF n
-----------------------------------------------------------------------------
(* What sleepFor() makes of the list: the new entry comes behind the first *)
(* k and ends when it should; the others keep their order, their owner and *)
(* their end.                                                              *)
Insertion(l, t, m, block, k, r) ==
  /\ k \in 0 .. Len(l)
  /\ r \in Seq(Entry) /\ Len(r) = Len(l) + 1
  /\ r[k + 1].tid = t /\ r[k + 1].block = block /\ Until(r)[k + 1] = m
  /\ \A i \in 1 .. Len(l) : LET j == IF i <= k THEN i ELSE i + 1
       IN  /\ r[j].tid = l[i].tid /\ r[j].block = l[i].block
           /\ Until(r)[j] = Until(l)[i]

(* Inserted makes just that of the list.                                   *)
LEMMA InsertedEffect ==
  ASSUME NEW l \in Seq(Entry), NEW t \in Thread, NEW m \in Nat, NEW block \in BOOLEAN,
         NEW k, k = EndedBy(l, m), NEW r, r = Inserted(l, t, m, block)
  PROVE  Insertion(l, t, m, block, k, r)
<1> DEFINE n == Len(l)
           u == Until(l)
           e == [tid |-> t, time |-> m - u[k], block |-> block]
           rest == IF k < n THEN [l EXCEPT ![k + 1].time = @ - (m - u[k])] ELSE l
<1>1. n \in Nat /\ \A i \in 1 .. n : l[i] \in Entry /\ l[i].time \in Nat
  BY EntryAt
<1>2. /\ u \in [0 .. n -> Nat] /\ u[0] = 0
      /\ \A i \in 1 .. n : u[i] = u[i - 1] + l[i].time
  BY UntilDef
<1>3. k \in 0 .. n /\ u[k] <= m /\ (k < n => u[k + 1] > m)
  BY EndedFirst
<1>4. r = InsertAt(rest, k + 1, e)
  BY DEF Inserted
<1>5. e \in Entry
  <2>1. u[k] \in Nat /\ m - u[k] \in Nat
    BY <1>2, <1>3
  <2> HIDE DEF u
  <2> QED BY <2>1 DEF Entry
<1>6. /\ rest \in Seq(Entry) /\ Len(rest) = n
      /\ \A i \in 1 .. n : i # k + 1 => rest[i] = l[i]
      /\ k < n => /\ rest[k + 1].tid = l[k + 1].tid /\ rest[k + 1].block = l[k + 1].block
                  /\ rest[k + 1].time = u[k + 1] - m
  <2>1. CASE k < n
    <3> DEFINE x == [l[k + 1] EXCEPT !.time = @ - (m - u[k])]
    <3>1. k + 1 \in 1 .. n /\ (k + 1) - 1 = k /\ u[k] \in Nat /\ u[k + 1] \in Nat
      BY <2>1, <1>1, <1>2, <1>3
    <3>2. u[k + 1] = u[k] + l[k + 1].time /\ l[k + 1] \in Entry /\ l[k + 1].time \in Nat
      BY <3>1, <1>1, <1>2
    <3>3. l[k + 1].time - (m - u[k]) = u[k + 1] - m /\ u[k + 1] - m \in Nat
      BY <2>1, <3>1, <3>2, <1>3
    <3>4. /\ x \in Entry /\ x.tid = l[k + 1].tid /\ x.block = l[k + 1].block
          /\ x.time = u[k + 1] - m
      <4> HIDE DEF u
      <4> QED BY <3>2, <3>3 DEF Entry
    <3>5. rest = [l EXCEPT ![k + 1] = x]
      BY <2>1
    <3> HIDE DEF x, rest, u
    <3>6. rest \in Seq(Entry) /\ Len(rest) = n
      BY <3>1, <3>4, <3>5
    <3>7. rest[k + 1] = x /\ \A i \in 1 .. n : i # k + 1 => rest[i] = l[i]
      BY <3>1, <3>5
    <3> QED BY <3>4, <3>6, <3>7
  <2>2. CASE ~ (k < n)
    <3>1. rest = l
      BY <2>2
    <3> QED BY <2>2, <3>1
  <2> QED BY <2>1, <2>2
<1> HIDE DEF rest, e, n, u
<1>7. /\ r \in Seq(Entry) /\ Len(r) = n + 1
      /\ \A i \in 1 .. n + 1 : r[i] = IF i <= k THEN rest[i] ELSE IF i = k + 1 THEN e ELSE rest[i - 1]
  <2>0. PICK p \in Int : p = k + 1
    BY <1>3
  <2>1. p \in 1 .. Len(rest) + 1 /\ rest \in Seq(Entry) /\ \A i \in Int : i < p <=> i <= k
    BY <2>0, <1>1, <1>3, <1>6
  <2>2. /\ r \in Seq(Entry) /\ Len(r) = Len(rest) + 1
        /\ \A i \in 1 .. Len(rest) + 1 :
             r[i] = IF i <= k THEN rest[i] ELSE IF i = k + 1 THEN e ELSE rest[i - 1]
    <3> DEFINE q == InsertAt(rest, p, e)
    <3>1. /\ q \in Seq(Entry) /\ Len(q) = Len(rest) + 1
          /\ \A i \in 1 .. Len(rest) + 1 :
               q[i] = IF i < p THEN rest[i] ELSE IF i = p THEN e ELSE rest[i - 1]
      BY <2>1, <1>5, InsertedAt
    <3> HIDE DEF q
    <3>3. r = q
      BY <1>4, <2>0 DEF q
    <3> QED BY <2>0, <2>1, <3>1, <3>3
  <2>3. Len(rest) = n
    BY <1>6
  <2> QED BY <2>2, <2>3, Zenon
<1>8. /\ e.tid = t /\ e.block = block /\ e.time = m - u[k]
  BY DEF e
<1> DEFINE g == [i \in 0 .. n + 1 |-> IF i <= k THEN u[i] ELSE IF i = k + 1 THEN m ELSE u[i - 1]]
<1>9. ASSUME NEW i \in 1 .. n + 1 PROVE g[i] = g[i - 1] + r[i].time
  <2>1. i \in 0 .. n + 1 /\ i - 1 \in 0 .. n + 1 /\ k \in Nat
    BY <1>1, <1>3
  <2>2. CASE i <= k
    <3>1. g[i] = u[i] /\ g[i - 1] = u[i - 1]
      BY <2>1, <2>2
    <3>2. r[i] = l[i] /\ i \in 1 .. n
      BY <2>1, <2>2, <1>3, <1>6, <1>7
    <3> QED BY <3>1, <3>2, <1>2
  <2>3. CASE i = k + 1
    <3>1. g[i] = m /\ g[i - 1] = u[k] /\ u[k] \in Nat
      BY <2>1, <2>3, <1>2, <1>3
    <3>2. r[i].time = m - u[k]
      BY <2>1, <2>3, <1>7, <1>8
    <3> QED BY <3>1, <3>2
  <2>4. CASE i = k + 2
    <3>1. g[i] = u[k + 1] /\ g[i - 1] = m /\ k < n /\ u[k + 1] \in Nat
      <4>1. k < n /\ k + 1 \in 0 .. n /\ i - 1 = k + 1 /\ ~ (i <= k) /\ i # k + 1 /\ ~ (i - 1 <= k)
        BY <2>1, <2>4, <1>1, <1>3
      <4>2. g[i] = u[i - 1] /\ g[i - 1] = m
        BY <2>1, <4>1
      <4> HIDE DEF g
      <4> QED BY <4>1, <4>2, <1>2
    <3>2. r[i].time = u[k + 1] - m
      <4>1. i \in 1 .. n + 1 /\ ~ (i <= k) /\ i # k + 1 /\ i - 1 = k + 1
        BY <2>1, <2>4
      <4>2. r[i] = rest[k + 1]
        BY <4>1, <1>7
      <4> HIDE DEF g
      <4> QED BY <4>2, <3>1, <1>6
    <3> QED BY <3>1, <3>2
  <2>5. CASE i > k + 2
    <3>1. g[i] = u[i - 1] /\ g[i - 1] = u[i - 1 - 1]
      BY <2>1, <2>5
    <3>2. i - 1 \in 1 .. n /\ i - 1 # k + 1 /\ ~ (i <= k) /\ i # k + 1
      BY <2>1, <2>5, <1>1, <1>3
    <3>3. r[i] = l[i - 1]
      BY <3>2, <1>6, <1>7
    <3> QED BY <3>1, <3>2, <3>3, <1>2
  <2> QED BY <2>1, <2>2, <2>3, <2>4, <2>5
<1>10. g[0] = 0
  BY <1>1, <1>2, <1>3
<1>11. g = [i \in 0 .. n + 1 |-> g[i]]
  OBVIOUS
<1>13. Until(r) = g
  <2> HIDE DEF g
  <2>1. \A i \in 1 .. Len(r) : g[i] = g[i - 1] + r[i].time
    BY <1>7, <1>9
  <2> QED BY <1>7, <1>10, <1>11, <2>1, UntilUnique
<1>14. r[k + 1].tid = t /\ r[k + 1].block = block /\ Until(r)[k + 1] = m
  <2>1. k + 1 \in 1 .. n + 1 /\ k + 1 \in 0 .. n + 1 /\ ~ (k + 1 <= k)
    BY <1>1, <1>3
  <2>2. r[k + 1] = e
    BY <2>1, <1>7
  <2>3. g[k + 1] = m
    BY <2>1
  <2> HIDE DEF g
  <2> QED BY <2>2, <2>3, <1>8, <1>13
<1>15. ASSUME NEW i \in 1 .. n, NEW j, j = IF i <= k THEN i ELSE i + 1
       PROVE  /\ r[j].tid = l[i].tid /\ r[j].block = l[i].block
              /\ Until(r)[j] = u[i]
  <2>1. CASE i <= k
    <3>1. j = i /\ i \in 1 .. n + 1 /\ i \in 0 .. n + 1 /\ i # k + 1
      BY <2>1, <1>15, <1>1, <1>3
    <3>2. r[j] = l[i] /\ g[j] = u[i]
      BY <2>1, <3>1, <1>6, <1>7
    <3> HIDE DEF g
    <3> QED BY <3>2, <1>13
  <2>2. CASE ~ (i <= k)
    <3>1. j = i + 1 /\ j \in 1 .. n + 1 /\ j \in 0 .. n + 1 /\ ~ (j <= k) /\ j # k + 1 /\ j - 1 = i
      BY <2>2, <1>15, <1>1, <1>3
    <3>2. r[j] = rest[i] /\ g[j] = u[i]
      BY <3>1, <1>7
    <3>3. rest[i].tid = l[i].tid /\ rest[i].block = l[i].block
      <4>1. CASE i = k + 1
        <5>1. k < n
          BY <4>1, <1>1, <1>3
        <5> QED BY <4>1, <5>1, <1>6
      <4>2. CASE i # k + 1
        BY <4>2, <1>6
      <4> QED BY <4>1, <4>2
    <3> HIDE DEF g
    <3> QED BY <3>2, <3>3, <1>13
  <2> QED BY <2>1, <2>2
<1> HIDE DEF g
<1> QED BY <1>3, <1>7, <1>14, <1>15 DEF n, u, Insertion

(* removeThread(): the entry is gone, and the others keep their end.       *)
LEMMA RemovedEffect ==
  ASSUME NEW l \in Seq(Entry), NEW k \in 1 .. Len(l), NEW r, r = Removed(l, k)
  PROVE  /\ r \in Seq(Entry) /\ Len(r) = Len(l) - 1
         /\ \A i \in 1 .. Len(l) - 1 : LET j == IF i < k THEN i ELSE i + 1
              IN  /\ r[i].tid = l[j].tid /\ r[i].block = l[j].block
                  /\ Until(r)[i] = Until(l)[j]
<1> DEFINE n == Len(l)
           u == Until(l)
           rest == IF k < n THEN [l EXCEPT ![k + 1].time = @ + l[k].time] ELSE l
<1>1. n \in Nat /\ k \in 1 .. n /\ \A i \in 1 .. n : l[i] \in Entry /\ l[i].time \in Nat
  BY EntryAt
<1>2. /\ u \in [0 .. n -> Nat] /\ u[0] = 0
      /\ \A i \in 1 .. n : u[i] = u[i - 1] + l[i].time
  BY UntilDef
<1>4. r = RemoveAt(rest, k)
  BY DEF Removed
<1>6. /\ rest \in Seq(Entry) /\ Len(rest) = n
      /\ \A i \in 1 .. n : i # k + 1 => rest[i] = l[i]
      /\ k < n => /\ rest[k + 1].tid = l[k + 1].tid /\ rest[k + 1].block = l[k + 1].block
                  /\ rest[k + 1].time = l[k + 1].time + l[k].time
  <2>1. CASE k < n
    <3> DEFINE x == [l[k + 1] EXCEPT !.time = @ + l[k].time]
    <3>1. k + 1 \in 1 .. n /\ l[k + 1] \in Entry /\ l[k].time \in Nat /\ l[k + 1].time \in Nat
      BY <2>1, <1>1
    <3>2. l[k + 1].time + l[k].time \in Nat
      BY <3>1
    <3>4. /\ x \in Entry /\ x.tid = l[k + 1].tid /\ x.block = l[k + 1].block
          /\ x.time = l[k + 1].time + l[k].time
      BY <3>1, <3>2 DEF Entry
    <3>5. rest = [l EXCEPT ![k + 1] = x]
      BY <2>1
    <3> HIDE DEF x, rest
    <3>6. rest \in Seq(Entry) /\ Len(rest) = n
      BY <3>1, <3>4, <3>5
    <3>7. rest[k + 1] = x /\ \A i \in 1 .. n : i # k + 1 => rest[i] = l[i]
      BY <3>1, <3>5
    <3> QED BY <3>4, <3>6, <3>7
  <2>2. CASE ~ (k < n)
    <3>1. rest = l
      BY <2>2
    <3> QED BY <2>2, <3>1
  <2> QED BY <2>1, <2>2
<1> HIDE DEF rest, n, u
<1>7. /\ r \in Seq(Entry) /\ Len(r) = n - 1
      /\ \A i \in 1 .. n - 1 : r[i] = IF i < k THEN rest[i] ELSE rest[i + 1]
  <2>1. rest \in Seq(Entry) /\ k \in 1 .. Len(rest)
    BY <1>1, <1>6
  <2>2. /\ r \in Seq(Entry) /\ Len(r) = Len(rest) - 1
        /\ \A i \in 1 .. Len(rest) - 1 : r[i] = IF i < k THEN rest[i] ELSE rest[i + 1]
    BY <2>1, <1>4, RemovedFrom
  <2> QED BY <2>2, <1>6
<1> DEFINE g == [i \in 0 .. n - 1 |-> IF i < k THEN u[i] ELSE u[i + 1]]
<1>9. ASSUME NEW i \in 1 .. n - 1 PROVE g[i] = g[i - 1] + r[i].time
  <2>1. i \in 0 .. n - 1 /\ i - 1 \in 0 .. n - 1
    BY <1>1
  <2>2. CASE i < k
    <3>1. g[i] = u[i] /\ g[i - 1] = u[i - 1]
      BY <2>1, <2>2
    <3>2. r[i] = l[i] /\ i \in 1 .. n
      BY <2>1, <2>2, <1>1, <1>6, <1>7
    <3> QED BY <3>1, <3>2, <1>2
  <2>3. CASE i = k
    <3>1. k < n /\ k + 1 \in 1 .. n /\ (k + 1) - 1 = k /\ k - 1 \in 0 .. n
      BY <2>1, <2>3, <1>1
    <3>2. g[i] = u[k + 1] /\ g[i - 1] = u[k - 1] /\ u[k - 1] \in Nat
      BY <2>1, <2>3, <3>1, <1>2
    <3>3. r[i].time = l[k + 1].time + l[k].time
      BY <2>3, <3>1, <1>6, <1>7
    <3>4. u[k] = u[k - 1] + l[k].time /\ u[k + 1] = u[k] + l[k + 1].time
      BY <3>1, <1>1, <1>2
    <3>5. l[k].time \in Nat /\ l[k + 1].time \in Nat
      BY <3>1, <1>1
    <3> HIDE DEF g
    <3> QED BY <3>2, <3>3, <3>4, <3>5
  <2>4. CASE i > k
    <3>1. i + 1 \in 1 .. n /\ i + 1 # k + 1 /\ ~ (i < k) /\ ~ (i - 1 < k) /\ i - 1 + 1 = i /\ (i + 1) - 1 = i
      BY <2>1, <2>4, <1>1
    <3>2. g[i] = u[i + 1] /\ g[i - 1] = u[i]
      <4>1. g[i] = u[i + 1]
        BY <2>1, <3>1
      <4>2. g[i - 1] = u[(i - 1) + 1] /\ (i - 1) + 1 = i
        BY <2>1, <3>1
      <4> HIDE DEF g
      <4> QED BY <4>1, <4>2
    <3>3. r[i] = l[i + 1]
      BY <3>1, <1>6, <1>7
    <3>4. u[i + 1] = u[i] + l[i + 1].time
      BY <3>1, <1>2
    <3> HIDE DEF g
    <3> QED BY <3>2, <3>3, <3>4
  <2> QED BY <2>1, <2>2, <2>3, <2>4, <1>1
<1>10. g[0] = 0
  BY <1>1, <1>2
<1>11. g = [i \in 0 .. n - 1 |-> g[i]]
  OBVIOUS
<1>13. Until(r) = g
  <2> HIDE DEF g
  <2>1. \A i \in 1 .. Len(r) : g[i] = g[i - 1] + r[i].time
    BY <1>7, <1>9
  <2>2. g = [i \in 0 .. Len(r) |-> g[i]]
    BY <1>7, <1>11
  <2> QED BY <1>7, <1>10, <2>1, <2>2, UntilUnique
<1>15. ASSUME NEW i \in 1 .. n - 1, NEW j, j = IF i < k THEN i ELSE i + 1
       PROVE  /\ r[i].tid = l[j].tid /\ r[i].block = l[j].block
              /\ Until(r)[i] = u[j]
  <2>1. r[i] = rest[j] /\ j \in 1 .. n
    BY <1>15, <1>1, <1>7
  <2>2. i \in 0 .. n - 1
    BY <1>1
  <2>3. g[i] = u[j]
    BY <2>2, <1>15
  <2>4. rest[j].tid = l[j].tid /\ rest[j].block = l[j].block
    <3>1. CASE j = k + 1
      <4>1. k < n
        BY <3>1, <2>1, <1>1
      <4> QED BY <3>1, <4>1, <1>6
    <3>2. CASE j # k + 1
      BY <2>1, <3>2, <1>6
    <3> QED BY <3>1, <3>2
  <2> HIDE DEF g
  <2> QED BY <2>1, <2>3, <2>4, <1>13
<1> HIDE DEF g
<1> QED BY <1>7, <1>15 DEF n, u

(* What intrpt() makes of the list: the first k entries are gone, and the  *)
(* others are TimeInc closer to their end.                                 *)
Shift(l, k, r) ==
  /\ k \in 0 .. Len(l)
  /\ r \in Seq(Entry) /\ Len(r) = Len(l) - k
  /\ \A i \in 1 .. Len(l) - k :
       /\ r[i].tid = l[i + k].tid /\ r[i].block = l[i + k].block
       /\ Until(r)[i] = Until(l)[i + k] - TimeInc

(* Ticked makes just that of the list.                                     *)
LEMMA TickedEffect ==
  ASSUME NEW l \in Seq(Entry), NEW k, k = EndedBy(l, TimeInc), NEW r, r = Ticked(l)
  PROVE  Shift(l, k, r)
<1> DEFINE n == Len(l)
           u == Until(l)
           rest == SubSeq(l, k + 1, n)
<1>1. /\ n \in Nat /\ TimeInc \in Nat
      /\ \A i \in 1 .. n : l[i] \in Entry /\ l[i].time \in Nat
  BY EntryAt, TimerAssumption
<1>2. /\ u \in [0 .. n -> Nat] /\ u[0] = 0
      /\ \A i \in 1 .. n : u[i] = u[i - 1] + l[i].time
  BY UntilDef
<1>3. k \in 0 .. n /\ u[k] <= TimeInc /\ (k < n => u[k + 1] > TimeInc)
  BY <1>1, EndedFirst
<1>4. r = IF rest = << >> THEN rest ELSE [rest EXCEPT ![1].time = u[k + 1] - TimeInc]
  BY DEF Ticked
<1>5. rest \in Seq(Entry) /\ Len(rest) = n - k /\ \A i \in 1 .. n - k : rest[i] = l[i + k]
  BY <1>3
<1> HIDE DEF rest, n, u
<1>6. CASE k = n
  <2>1. rest = << >> /\ r = rest
    BY <1>1, <1>3, <1>4, <1>5, <1>6
  <2> QED BY <2>1, <1>1, <1>3, <1>5, <1>6 DEF n, Shift
<1>7. CASE k # n
  <2>0. k < n /\ n - k \in Nat /\ 1 \in 1 .. n - k /\ k + 1 \in 1 .. n /\ 1 + k = k + 1
    BY <1>1, <1>3, <1>7
  <2> DEFINE x == [rest[1] EXCEPT !.time = u[k + 1] - TimeInc]
  <2>1. rest # << >> /\ rest[1] = l[k + 1] /\ rest[1] \in Entry
    BY <2>0, <1>1, <1>5
  <2>2. u[k + 1] \in Nat /\ u[k + 1] - TimeInc \in Nat
    <3>1. k + 1 \in 0 .. n
      BY <2>0, <1>1
    <3>2. u[k + 1] \in Nat
      BY <3>1, <1>2
    <3>3. u[k + 1] > TimeInc
      BY <2>0, <1>3
    <3> QED BY <3>2, <3>3, <1>1
  <2>3. /\ x \in Entry /\ x.tid = l[k + 1].tid /\ x.block = l[k + 1].block
        /\ x.time = u[k + 1] - TimeInc
    BY <2>1, <2>2 DEF Entry
  <2>4. r = [rest EXCEPT ![1] = x]
    BY <2>1, <1>4
  <2> HIDE DEF x
  <2>5. r \in Seq(Entry) /\ Len(r) = n - k
    BY <2>0, <2>3, <2>4, <1>5
  <2>6. r[1] = x /\ \A i \in 1 .. n - k : i # 1 => r[i] = l[i + k]
    BY <2>0, <2>4, <1>5
  <2> DEFINE g == [i \in 0 .. n - k |-> IF i = 0 THEN 0 ELSE u[i + k] - TimeInc]
  <2>7. ASSUME NEW i \in 1 .. n - k PROVE g[i] = g[i - 1] + r[i].time
    <3>1. i \in 0 .. n - k /\ i - 1 \in 0 .. n - k /\ i + k \in 1 .. n /\ k \in Nat
      BY <2>0, <1>1, <1>3
    <3>2. CASE i = 1
      <4>1. g[i] = u[k + 1] - TimeInc /\ g[i - 1] = 0 /\ r[i].time = u[k + 1] - TimeInc
        BY <2>0, <2>3, <2>6, <3>1, <3>2
      <4> HIDE DEF g
      <4> QED BY <4>1, <2>2
    <3>3. CASE i # 1
      <4>1. g[i] = u[i + k] - TimeInc
        BY <3>1
      <4>2. g[i - 1] = u[(i - 1) + k] - TimeInc /\ (i - 1) + k = (i + k) - 1 /\ (i + k) - 1 \in 0 .. n
        <5>1. i - 1 # 0 /\ i - 1 \in 0 .. n - k
          BY <3>1, <3>3
        <5>2. g[i - 1] = u[(i - 1) + k] - TimeInc
          BY <5>1
        <5>0. i \in Nat
          OBVIOUS
        <5> HIDE DEF g
        <5>3. (i - 1) + k = (i + k) - 1
          BY <5>0, <3>1
        <5>4. (i + k) - 1 \in 0 .. n
          BY <5>0, <3>1, <1>1
        <5> QED BY <5>2, <5>3, <5>4
      <4>3. r[i] = l[i + k]
        BY <2>6, <3>3
      <4>4. u[i + k] = u[(i + k) - 1] + l[i + k].time
        BY <3>1, <1>2
      <4>5. l[i + k].time \in Nat /\ u[(i + k) - 1] \in Nat
        BY <3>1, <4>2, <1>1, <1>2
      <4> HIDE DEF g
      <4> QED BY <4>1, <4>2, <4>3, <4>4, <4>5, <1>1
    <3> QED BY <3>2, <3>3
  <2>8. g[0] = 0 /\ g = [i \in 0 .. n - k |-> g[i]]
    BY <2>0
  <2>9. Until(r) = g
    <3> HIDE DEF g
    <3>1. \A i \in 1 .. Len(r) : g[i] = g[i - 1] + r[i].time
      BY <2>5, <2>7
    <3>2. g = [i \in 0 .. Len(r) |-> g[i]]
      BY <2>5, <2>8
    <3> QED BY <2>5, <2>8, <3>1, <3>2, UntilUnique
  <2>10. ASSUME NEW i \in 1 .. n - k
         PROVE  /\ r[i].tid = l[i + k].tid /\ r[i].block = l[i + k].block
                /\ Until(r)[i] = u[i + k] - TimeInc
    <3>1. i \in 0 .. n - k /\ i # 0
      BY <2>0
    <3>2. g[i] = u[i + k] - TimeInc
      BY <3>1
    <3>3. r[i].tid = l[i + k].tid /\ r[i].block = l[i + k].block
      BY <2>0, <2>3, <2>6
    <3> HIDE DEF g
    <3> QED BY <3>2, <3>3, <2>9
  <2> HIDE DEF g
  <2> QED BY <2>5, <2>10, <1>3 DEF n, u, Shift
<1> QED BY <1>6, <1>7

-----------------------------------------------------------------------------
(* What an operation does to the list: the entries of gone leave it, one   *)
(* comes to place p, and the one at place i was at place f[i] before.      *)
Moved(f, p, gone) ==
  /\ \A i \in DOMAIN listener' \ {p} :
       /\ f[i] \in DOMAIN listener \ gone
       /\ listener'[i].tid = listener[f[i]].tid
       /\ listener'[i].block = listener[f[i]].block
  /\ \A i, j \in DOMAIN listener' \ {p} : f[i] = f[j] => i = j
  /\ \A j \in DOMAIN listener \ gone : \E i \in DOMAIN listener' \ {p} : f[i] = j

Has(t, block) == \E i \in EntriesOf(t) : listener[i].block = block

(* The same for the entries of one thread.                                 *)
LEMMA MovedEntries ==
  ASSUME NEW f, NEW p, NEW gone, Moved(f, p, gone), NEW t
  PROVE  /\ \A i \in EntriesOf(t)' \ {p} :
              /\ f[i] \in EntriesOf(t) \ gone
              /\ listener'[i].block = listener[f[i]].block
         /\ \A i, j \in EntriesOf(t)' \ {p} : f[i] = f[j] => i = j
         /\ \A j \in EntriesOf(t) \ gone : \E i \in EntriesOf(t)' \ {p} : f[i] = j
BY DEF Moved, EntriesOf

(* A thread of which no entry comes has no more than before. *)
LEMMA MovedFewer ==
  ASSUME NEW f, NEW p, NEW gone, Moved(f, p, gone), NEW t, p \notin EntriesOf(t)'
  PROVE  /\ EntriesOf(t) = {} => EntriesOf(t)' = {}
         /\ AtMostOne(t) => AtMostOne(t)'
         /\ AtMostTwo(t) => AtMostTwo(t)'
         /\ \A b : Has(t, b)' => Has(t, b)
<1>1. /\ \A i \in EntriesOf(t)' :
           /\ f[i] \in EntriesOf(t) \ gone
           /\ listener'[i].block = listener[f[i]].block
      /\ \A i, j \in EntriesOf(t)' : f[i] = f[j] => i = j
  BY MovedEntries
<1>2. EntriesOf(t) = {} => EntriesOf(t)' = {}
  BY <1>1
<1>3. AtMostOne(t) => AtMostOne(t)'
  BY <1>1 DEF AtMostOne
<1>4. AtMostTwo(t) => AtMostTwo(t)'
  BY <1>1 DEF AtMostTwo
<1>5. \A b : Has(t, b)' => Has(t, b)
  BY <1>1 DEF Has
<1> QED BY <1>2, <1>3, <1>4, <1>5

(* One of which an entry leaves has one less.                              *)
LEMMA MovedLess ==
  ASSUME NEW f, NEW p, NEW gone, Moved(f, p, gone), NEW t, p \notin EntriesOf(t)',
         NEW k \in EntriesOf(t), k \in gone
  PROVE  /\ AtMostOne(t) => EntriesOf(t)' = {}
         /\ AtMostTwo(t) => AtMostOne(t)'
<1>1. /\ \A i \in EntriesOf(t)' : f[i] \in EntriesOf(t) \ gone
      /\ \A i, j \in EntriesOf(t)' : f[i] = f[j] => i = j
  BY MovedEntries
<1>2. AtMostOne(t) => EntriesOf(t)' = {}
  BY <1>1 DEF AtMostOne
<1>3. AtMostTwo(t) => AtMostOne(t)'
  <2> SUFFICES ASSUME AtMostTwo(t), NEW i \in EntriesOf(t)', NEW j \in EntriesOf(t)'
               PROVE  i = j
    BY DEF AtMostOne
  <2>1. f[i] = f[j] \/ f[i] = k \/ f[j] = k
    BY <1>1 DEF AtMostTwo
  <2> QED BY <2>1, <1>1
<1> QED BY <1>2, <1>3

(* One of which an entry comes has at most one more.                       *)
LEMMA MovedMore ==
  ASSUME NEW f, NEW p, NEW gone, Moved(f, p, gone), NEW t
  PROVE  /\ EntriesOf(t) = {} => AtMostOne(t)' /\ EntriesOf(t)' \subseteq {p}
         /\ AtMostOne(t) => AtMostTwo(t)'
<1>1. /\ \A i \in EntriesOf(t)' \ {p} : f[i] \in EntriesOf(t) \ gone
      /\ \A i, j \in EntriesOf(t)' \ {p} : f[i] = f[j] => i = j
  BY MovedEntries
<1>2. EntriesOf(t) = {} => AtMostOne(t)' /\ EntriesOf(t)' \subseteq {p}
  BY <1>1 DEF AtMostOne
<1>3. AtMostOne(t) => AtMostTwo(t)'
  BY <1>1 DEF AtMostOne, AtMostTwo
<1> QED BY <1>2, <1>3

(* An entry that does not leave the list is still there. *)
LEMMA MovedKeeps ==
  ASSUME NEW f, NEW p, NEW gone, Moved(f, p, gone), NEW t,
         NEW j \in EntriesOf(t), j \notin gone, NEW b, listener[j].block = b
  PROVE  Has(t, b)'
<1>1. PICK i \in EntriesOf(t)' \ {p} : f[i] = j /\ listener'[i].block = listener[f[i]].block
  BY MovedEntries
<1>2. listener'[i].block = b
  BY <1>1
<1> QED BY <1>1, <1>2 DEF Has

(* removeThread() takes one entry and moves the others.                    *)
LEMMA RemovedMoves ==
  ASSUME listener \in Seq(Entry), NEW k \in 1 .. Len(listener),
         listener' = Removed(listener, k)
  PROVE  /\ listener' \in Seq(Entry) /\ Len(listener') = Len(listener) - 1
         /\ \E f : Moved(f, 0, {k})
<1> DEFINE n == Len(listener)
           f == [i \in 1 .. n - 1 |-> IF i < k THEN i ELSE i + 1]
<1>1. /\ listener' \in Seq(Entry) /\ Len(listener') = n - 1
      /\ \A i \in 1 .. n - 1 : /\ listener'[i].tid = listener[f[i]].tid
                               /\ listener'[i].block = listener[f[i]].block
  <2>1. PICK r : r = listener'
    OBVIOUS
  <2>2. /\ r \in Seq(Entry) /\ Len(r) = Len(listener) - 1
        /\ \A i \in 1 .. Len(listener) - 1 : LET j == IF i < k THEN i ELSE i + 1
             IN  /\ r[i].tid = listener[j].tid /\ r[i].block = listener[j].block
                 /\ Until(r)[i] = Until(listener)[j]
    BY <2>1, RemovedEffect
  <2>3. \A i \in 1 .. n - 1 : f[i] = IF i < k THEN i ELSE i + 1
    OBVIOUS
  <2>4. \A i \in 1 .. n - 1 : r[i].tid = listener[f[i]].tid /\ r[i].block = listener[f[i]].block
    <3> HIDE DEF f
    <3> QED BY <2>2, <2>3
  <2> QED BY <2>1, <2>2, <2>4
<1>2. n \in Nat /\ DOMAIN listener = 1 .. n /\ DOMAIN listener' = 1 .. n - 1
  BY <1>1
<1> HIDE DEF n
<1>3. \A i \in 1 .. n - 1 : f[i] \in (1 .. n) \ {k}
  BY <1>2
<1>4. \A i, j \in 1 .. n - 1 : f[i] = f[j] => i = j
  BY <1>2
<1>5. ASSUME NEW j \in (1 .. n) \ {k} PROVE \E i \in 1 .. n - 1 : f[i] = j
  <2>1. CASE j < k
    <3>1. j \in 1 .. n - 1 /\ f[j] = j
      BY <2>1, <1>2 DEF n
    <3> QED BY <3>1
  <2>2. CASE ~ (j < k)
    <3>1. j - 1 \in 1 .. n - 1 /\ ~ (j - 1 < k) /\ (j - 1) + 1 = j
      BY <2>2, <1>2
    <3>2. f[j - 1] = j
      BY <3>1
    <3> QED BY <3>1, <3>2
  <2> QED BY <2>1, <2>2
<1>6. (1 .. n - 1) \ {0} = 1 .. n - 1
  BY <1>2
<1> HIDE DEF f
<1>7. Moved(f, 0, {k})
  BY <1>1, <1>2, <1>3, <1>4, <1>5, <1>6 DEF Moved
<1> QED BY <1>1, <1>7 DEF n

(* intrpt() takes the first entries and moves the others.                  *)
LEMMA TickedMoves ==
  ASSUME listener \in Seq(Entry), NEW k, k = EndedBy(listener, TimeInc),
         listener' = Ticked(listener)
  PROVE  /\ k \in 0 .. Len(listener)
         /\ listener' \in Seq(Entry) /\ Len(listener') = Len(listener) - k
         /\ \E f : Moved(f, 0, 1 .. k)
<1> DEFINE n == Len(listener)
           f == [i \in 1 .. n - k |-> i + k]
<1>1. /\ k \in 0 .. n
      /\ listener' \in Seq(Entry) /\ Len(listener') = n - k
      /\ \A i \in 1 .. n - k : /\ listener'[i].tid = listener[i + k].tid
                               /\ listener'[i].block = listener[i + k].block
  <2>1. PICK r : r = listener'
    OBVIOUS
  <2>2. Shift(listener, k, r)
    BY <2>1, TickedEffect
  <2> QED BY <2>1, <2>2 DEF Shift
<1>2. n \in Nat /\ DOMAIN listener = 1 .. n /\ DOMAIN listener' = 1 .. n - k
  BY <1>1
<1> HIDE DEF n
<1>8. \A i \in 1 .. n - k : f[i] = i + k
  OBVIOUS
<1> HIDE DEF f
<1>3. \A i \in 1 .. n - k : f[i] \in (1 .. n) \ (1 .. k)
  BY <1>1, <1>2, <1>8
<1>4. \A i, j \in 1 .. n - k : f[i] = f[j] => i = j
  BY <1>1, <1>2, <1>8
<1>5. ASSUME NEW j \in (1 .. n) \ (1 .. k) PROVE \E i \in 1 .. n - k : f[i] = j
  <2>0. j \in Nat /\ k \in Nat /\ j > k /\ j <= n
    BY <1>1, <1>2
  <2>1. j - k \in 1 .. n - k /\ (j - k) + k = j
    BY <2>0, <1>1, <1>2
  <2>2. f[j - k] = j
    BY <2>1, <1>8
  <2> QED BY <2>1, <2>2
<1>6. (1 .. n - k) \ {0} = 1 .. n - k
  BY <1>1, <1>2
<1>7. Moved(f, 0, 1 .. k)
  <2>1. \A i \in 1 .. n - k : /\ listener'[i].tid = listener[f[i]].tid
                              /\ listener'[i].block = listener[f[i]].block
    BY <1>1, <1>8
  <2> QED BY <2>1, <1>2, <1>3, <1>4, <1>5, <1>6 DEF Moved
<1> QED BY <1>1, <1>7 DEF n

(* sleepFor() adds one entry and moves the others.                         *)
LEMMA InsertedMoves ==
  ASSUME listener \in Seq(Entry), NEW t \in Thread, NEW m \in Nat, NEW block \in BOOLEAN,
         listener' = Inserted(listener, t, m, block)
  PROVE  /\ listener' \in Seq(Entry) /\ Len(listener') = Len(listener) + 1
         /\ \E f, p : /\ Moved(f, p, {}) /\ p \in DOMAIN listener'
                      /\ listener'[p].tid = t /\ listener'[p].block = block
<1> DEFINE n == Len(listener)
<1>0. PICK k : k = EndedBy(listener, m)
  OBVIOUS
<1>1. /\ k \in 0 .. n
      /\ listener' \in Seq(Entry) /\ Len(listener') = n + 1
      /\ listener'[k + 1].tid = t /\ listener'[k + 1].block = block
      /\ \A i \in 1 .. n : LET j == IF i <= k THEN i ELSE i + 1
           IN  /\ listener'[j].tid = listener[i].tid
               /\ listener'[j].block = listener[i].block
  <2>1. PICK q : q = listener'
    OBVIOUS
  <2>2. Insertion(listener, t, m, block, k, q)
    BY <1>0, <2>1, InsertedEffect
  <2> QED BY <2>1, <2>2 DEF Insertion
<1>2. n \in Nat /\ DOMAIN listener = 1 .. n /\ DOMAIN listener' = 1 .. n + 1
  BY <1>1
<1> HIDE DEF n
<1> DEFINE f == [i \in 1 .. n + 1 |-> IF i <= k THEN i ELSE i - 1]
<1>3. ASSUME NEW i \in (1 .. n + 1) \ {k + 1}
      PROVE  /\ f[i] \in 1 .. n
             /\ i = IF f[i] <= k THEN f[i] ELSE f[i] + 1
  <2>1. f[i] = IF i <= k THEN i ELSE i - 1
    OBVIOUS
  <2> HIDE DEF f
  <2> QED BY <2>1, <1>1, <1>2
<1>5. ASSUME NEW j \in 1 .. n PROVE \E i \in (1 .. n + 1) \ {k + 1} : f[i] = j
  <2>1. CASE j <= k
    <3>1. j \in (1 .. n + 1) \ {k + 1}
      BY <2>1, <1>1, <1>2
    <3>2. f[j] = j
      BY <2>1, <3>1
    <3> QED BY <3>1, <3>2
  <2>2. CASE ~ (j <= k)
    <3>1. j + 1 \in (1 .. n + 1) \ {k + 1} /\ ~ (j + 1 <= k) /\ (j + 1) - 1 = j
      BY <2>2, <1>1, <1>2
    <3>2. f[j + 1] = j
      BY <3>1
    <3> QED BY <3>1, <3>2
  <2> QED BY <2>1, <2>2
<1> HIDE DEF f
<1>4. \A i, j \in (1 .. n + 1) \ {k + 1} : f[i] = f[j] => i = j
  BY <1>3
<1>6. \A i \in (1 .. n + 1) \ {k + 1} :
        /\ listener'[i].tid = listener[f[i]].tid
        /\ listener'[i].block = listener[f[i]].block
  BY <1>1, <1>3
<1>7. Moved(f, k + 1, {})
  BY <1>2, <1>3, <1>4, <1>5, <1>6 DEF Moved
<1>8. k + 1 \in DOMAIN listener'
  BY <1>1, <1>2
<1> QED BY <1>1, <1>7, <1>8 DEF n

-----------------------------------------------------------------------------
(* What the invariant says of one thread. *)
Fine(t) ==
  /\ Held(t)
  /\ t \in armed /\ t \notin mixed => Has(t, FALSE)
  /\ t \notin mixed /\ Has(t, TRUE) => pc[t] = "sleep"

(* The invariant, thread by thread.                                        *)
LEMMA FineAll ==
  ASSUME TypeOK
  PROVE  TimerInv <=> /\ free + Len(listener) = LISTENER_COUNT
                      /\ \A t \in Thread : Fine(t)
<1>1. \A t, i : i \in EntriesOf(t) => listener[i].block \in BOOLEAN
  BY EntryAt DEF TypeOK, EntriesOf
<1>2. \A t : Has(t, FALSE) <=> \E i \in EntriesOf(t) : ~ listener[i].block
  BY <1>1 DEF Has
<1>3. \A t : Has(t, TRUE) <=> \E i \in EntriesOf(t) : listener[i].block
  BY <1>1 DEF Has
<1>4. armed \subseteq Thread
  BY TimerAssumption DEF TypeOK
<1>5. AlarmKept <=> \A t \in Thread : t \in armed /\ t \notin mixed => Has(t, FALSE)
  BY <1>2, <1>4 DEF AlarmKept
<1>6. NoStrayWakeup <=> \A t \in Thread : t \notin mixed /\ Has(t, TRUE) => pc[t] = "sleep"
  BY <1>3 DEF NoStrayWakeup
<1> QED BY <1>5, <1>6 DEF TimerInv, Fine

(* The same after a step.                                                  *)
LEMMA FineAllPrime ==
  ASSUME TypeOK', (free + Len(listener) = LISTENER_COUNT)', \A t \in Thread : Fine(t)'
  PROVE  TimerInv'
<1>1. \A t, i : i \in EntriesOf(t)' => listener'[i].block \in BOOLEAN
  BY EntryAt DEF TypeOK, EntriesOf
<1>2. \A t : Has(t, FALSE)' <=> \E i \in EntriesOf(t)' : ~ listener'[i].block
  BY <1>1 DEF Has
<1>3. \A t : Has(t, TRUE)' <=> \E i \in EntriesOf(t)' : listener'[i].block
  BY <1>1 DEF Has
<1>4. armed' \subseteq Thread
  BY TimerAssumption DEF TypeOK
<1>5. AlarmKept'
  BY <1>2, <1>4 DEF AlarmKept, Fine
<1>6. NoStrayWakeup'
  BY <1>3 DEF NoStrayWakeup, Fine
<1> QED BY <1>5, <1>6 DEF TimerInv, Fine

(* A step leaves the entries of a thread as they are, wherever they move.  *)
Alike(t) ==
  /\ EntriesOf(t) = {} => EntriesOf(t)' = {}
  /\ AtMostOne(t) => AtMostOne(t)'
  /\ AtMostTwo(t) => AtMostTwo(t)'
  /\ \A b : Has(t, b)' <=> Has(t, b)

(* A step that does not touch the list.                                    *)
LEMMA AlikeUnchanged ==
  ASSUME listener' = listener, NEW t
  PROVE  Alike(t)
<1>1. EntriesOf(t)' = EntriesOf(t)
  BY DEF EntriesOf
<1> QED BY <1>1 DEF Alike, AtMostOne, AtMostTwo, Has

(* A thread of which no entry comes or goes.                               *)
LEMMA MovedAlike ==
  ASSUME NEW f, NEW p, NEW gone, Moved(f, p, gone), NEW t, p \notin EntriesOf(t)',
         EntriesOf(t) \cap gone = {}
  PROVE  Alike(t)
<1>1. \A b : Has(t, b) => Has(t, b)'
  <2> SUFFICES ASSUME NEW b, Has(t, b) PROVE Has(t, b)'
    OBVIOUS
  <2>1. PICK j \in EntriesOf(t) : listener[j].block = b
    BY DEF Has
  <2> QED BY <2>1, MovedKeeps
<1> QED BY <1>1, MovedFewer DEF Alike

(* A thread whose entries stay and that does not go on is fine after the   *)
(* step.                                                                   *)
LEMMA AlikeFine ==
  ASSUME NEW t, Fine(t), Alike(t), pc'[t] = pc[t],
         t \in mixed' <=> t \in mixed, t \in armed' => t \in armed
  PROVE  Fine(t)'
<1>1. Held(t)'
  BY DEF Fine, Held, Alike
<1> QED BY <1>1 DEF Fine, Alike

-----------------------------------------------------------------------------
(* removeThread() takes one entry of the thread, if there is one.          *)
LEMMA RemoveThreadFirst ==
  ASSUME listener \in Seq(Entry), NEW t, RemoveThread(t)
  PROVE  \/ EntriesOf(t) = {} /\ UNCHANGED <<listener, free>>
         \/ \E k \in EntriesOf(t) : listener' = Removed(listener, k) /\ free' = free + 1
<1>1. CASE EntriesOf(t) = {}
  BY <1>1 DEF RemoveThread
<1>2. CASE EntriesOf(t) # {}
  <2>1. EntriesOf(t) \subseteq Nat
    BY DEF EntriesOf
  <2>2. \E j \in EntriesOf(t) : \A k \in EntriesOf(t) : j <= k
    BY <1>2, <2>1, LeastNat
  <2> DEFINE i == CHOOSE j \in EntriesOf(t) : \A k \in EntriesOf(t) : j <= k
  <2>3. i \in EntriesOf(t)
    BY <2>2
  <2>4. listener' = Removed(listener, i) /\ free' = free + 1
    BY <1>2 DEF RemoveThread
  <2> QED BY <2>3, <2>4
<1> QED BY <1>1, <1>2

(* removeThread() takes one entry of the thread back to the pool.          *)
LEMMA RemoveThreadEffect ==
  ASSUME TypeOK, free + Len(listener) = LISTENER_COUNT, NEW t \in Thread, RemoveThread(t)
  PROVE  /\ listener' \in Seq(Entry) /\ free' \in 0 .. LISTENER_COUNT
         /\ free' + Len(listener') = LISTENER_COUNT
         /\ AtMostOne(t) => EntriesOf(t)' = {}
         /\ AtMostTwo(t) => AtMostOne(t)'
         /\ \A b : Has(t, b)' => Has(t, b)
         /\ \A u \in Thread \ {t} : Alike(u)
<1>0. listener \in Seq(Entry) /\ free \in 0 .. LISTENER_COUNT /\ LISTENER_COUNT \in Nat
  BY TimerAssumption DEF TypeOK
<1>1. CASE EntriesOf(t) = {} /\ UNCHANGED <<listener, free>>
  <2>1. \A u : Alike(u)
    BY <1>1, AlikeUnchanged
  <2>2. EntriesOf(t)' = {}
    BY <1>1, <2>1 DEF Alike
  <2>3. AtMostOne(t)'
    BY <2>2 DEF AtMostOne
  <2> QED BY <1>0, <1>1, <2>1, <2>2, <2>3 DEF Alike
<1>2. CASE \E k \in EntriesOf(t) : listener' = Removed(listener, k) /\ free' = free + 1
  <2>1. PICK k \in EntriesOf(t) : listener' = Removed(listener, k) /\ free' = free + 1
    BY <1>2
  <2>2. k \in 1 .. Len(listener) /\ listener[k].tid = t
    BY <1>0 DEF EntriesOf
  <2>3. /\ listener' \in Seq(Entry) /\ Len(listener') = Len(listener) - 1
        /\ \E f : Moved(f, 0, {k})
    BY <1>0, <2>1, <2>2, RemovedMoves
  <2>4. PICK f : Moved(f, 0, {k})
    BY <2>3
  <2>5. free' \in 0 .. LISTENER_COUNT /\ free' + Len(listener') = LISTENER_COUNT
    <3>1. Len(listener) \in Nat /\ Len(listener) >= 1
      BY <1>0, <2>2
    <3> QED BY <1>0, <2>1, <2>3, <3>1
  <2>6. \A u : 0 \notin EntriesOf(u)'
    BY <2>3 DEF EntriesOf
  <2>7. /\ AtMostOne(t) => EntriesOf(t)' = {}
        /\ AtMostTwo(t) => AtMostOne(t)'
    BY <2>1, <2>4, <2>6, MovedLess
  <2>8. \A b : Has(t, b)' => Has(t, b)
    BY <2>4, <2>6, MovedFewer
  <2>9. ASSUME NEW u \in Thread \ {t} PROVE Alike(u)
    <3>1. EntriesOf(u) \cap {k} = {}
      BY <2>2 DEF EntriesOf
    <3> QED BY <3>1, <2>4, <2>6, MovedAlike
  <2> QED BY <2>3, <2>5, <2>7, <2>8, <2>9
<1> QED BY <1>0, <1>1, <1>2, RemoveThreadFirst

(* sleepFor() takes an entry of the pool for the thread.                   *)
LEMMA SleepForEffect ==
  ASSUME TypeOK, free + Len(listener) = LISTENER_COUNT,
         NEW t \in Thread, NEW m \in Nat, NEW block \in BOOLEAN, SleepFor(t, m, block)
  PROVE  /\ listener' \in Seq(Entry) /\ free' \in 0 .. LISTENER_COUNT
         /\ free' + Len(listener') = LISTENER_COUNT
         /\ EntriesOf(t) = {} => AtMostOne(t)'
         /\ AtMostOne(t) => AtMostTwo(t)'
         /\ Has(t, block)'
         /\ EntriesOf(t) = {} => \A b : Has(t, b)' => b = block
         /\ \A u \in Thread \ {t} : Alike(u)
<1>0. /\ listener \in Seq(Entry) /\ free \in 0 .. LISTENER_COUNT /\ LISTENER_COUNT \in Nat
      /\ Len(listener) \in Nat
  BY TimerAssumption DEF TypeOK
<1>1. free > 0 /\ free' = free - 1 /\ listener' = Inserted(listener, t, m, block)
  BY DEF SleepFor
<1>2. /\ listener' \in Seq(Entry) /\ Len(listener') = Len(listener) + 1
      /\ \E f, p : /\ Moved(f, p, {}) /\ p \in DOMAIN listener'
                   /\ listener'[p].tid = t /\ listener'[p].block = block
  BY <1>0, <1>1, InsertedMoves
<1>3. PICK f, p : /\ Moved(f, p, {}) /\ p \in DOMAIN listener'
                  /\ listener'[p].tid = t /\ listener'[p].block = block
  BY <1>2
<1>4. free' \in 0 .. LISTENER_COUNT /\ free' + Len(listener') = LISTENER_COUNT
  BY <1>0, <1>1, <1>2
<1>5. /\ EntriesOf(t) = {} => AtMostOne(t)' /\ EntriesOf(t)' \subseteq {p}
      /\ AtMostOne(t) => AtMostTwo(t)'
  BY <1>3, MovedMore
<1>6. p \in EntriesOf(t)' /\ \A u \in Thread \ {t} : p \notin EntriesOf(u)'
  BY <1>3 DEF EntriesOf
<1>7. Has(t, block)' /\ (EntriesOf(t) = {} => \A b : Has(t, b)' => b = block)
  BY <1>3, <1>5, <1>6 DEF Has
<1>8. ASSUME NEW u \in Thread \ {t} PROVE Alike(u)
  BY <1>3, <1>6, MovedAlike
<1> QED BY <1>2, <1>4, <1>5, <1>7, <1>8

-----------------------------------------------------------------------------
(* The invariant is kept, action by action.  alarm(), first half.          *)
LEMMA AlarmKeeps ==
  ASSUME TimerInv, NEW t \in Thread, Alarm(t) PROVE TimerInv'
<1>1. TypeOK /\ free + Len(listener) = LISTENER_COUNT /\ \A u \in Thread : Fine(u)
  BY FineAll DEF TimerInv
<1>2. /\ pc[t] = "user" /\ t \in Alarmers /\ RemoveThread(t)
      /\ pc' = [pc EXCEPT ![t] = "alarm"] /\ armed' = armed \ {t}
      /\ blocked' = blocked /\ sig' = sig /\ mixed' = mixed
  BY DEF Alarm
<1>3. /\ listener' \in Seq(Entry) /\ free' \in 0 .. LISTENER_COUNT
      /\ free' + Len(listener') = LISTENER_COUNT
      /\ AtMostOne(t) => EntriesOf(t)' = {}
      /\ \A b : Has(t, b)' => Has(t, b)
      /\ \A u \in Thread \ {t} : Alike(u)
  BY <1>1, <1>2, RemoveThreadEffect
<1>4. pc \in [Thread -> {"user", "alarm", "sleep", "wait", "dead"}] /\ t \notin blocked
  BY <1>1, <1>2 DEF TypeOK
<1>5. TypeOK'
  BY <1>1, <1>2, <1>3, <1>4 DEF TypeOK
<1>6. EntriesOf(t)' = {}
  BY <1>1, <1>2, <1>3 DEF Fine, Held
<1>7. Fine(t)'
  BY <1>2, <1>4, <1>6 DEF Fine, Held, Has
<1>8. ASSUME NEW u \in Thread \ {t} PROVE Fine(u)'
  BY <1>1, <1>2, <1>3, <1>4, AlikeFine
<1> QED BY <1>3, <1>5, <1>7, <1>8, FineAllPrime

(* alarm(), second half.                                                   *)
LEMMA AlarmSetKeeps ==
  ASSUME TimerInv, NEW t \in Thread, NEW m \in Msecs, AlarmSet(t, m) PROVE TimerInv'
<1>1. TypeOK /\ free + Len(listener) = LISTENER_COUNT /\ \A u \in Thread : Fine(u)
  BY FineAll DEF TimerInv
<1>2. /\ pc[t] = "alarm" /\ SleepFor(t, m, FALSE)
      /\ pc' = [pc EXCEPT ![t] = "user"] /\ armed' = armed \cup {t}
      /\ blocked' = blocked /\ sig' = sig /\ mixed' = mixed
  BY DEF AlarmSet
<1>3. /\ listener' \in Seq(Entry) /\ free' \in 0 .. LISTENER_COUNT
      /\ free' + Len(listener') = LISTENER_COUNT
      /\ EntriesOf(t) = {} => AtMostOne(t)'
      /\ Has(t, FALSE)'
      /\ EntriesOf(t) = {} => \A b : Has(t, b)' => b = FALSE
      /\ \A u \in Thread \ {t} : Alike(u)
  <2>1. m \in Nat
    BY TimerAssumption
  <2> QED BY <1>1, <1>2, <2>1, SleepForEffect
<1>4. pc \in [Thread -> {"user", "alarm", "sleep", "wait", "dead"}] /\ t \notin blocked
  BY <1>1, <1>2 DEF TypeOK
<1>6. EntriesOf(t) = {} /\ t \in Alarmers
  BY <1>1, <1>2 DEF Fine, Held
<1>5. TypeOK'
  BY <1>1, <1>2, <1>3, <1>4, <1>6 DEF TypeOK
<1>7. Fine(t)'
  <2>1. AtMostOne(t)' /\ Has(t, FALSE)' /\ ~ Has(t, TRUE)'
    BY <1>3, <1>6
  <2> QED BY <1>2, <1>4, <2>1 DEF Fine, Held
<1>8. ASSUME NEW u \in Thread \ {t} PROVE Fine(u)'
  BY <1>1, <1>2, <1>3, <1>4, AlikeFine
<1> QED BY <1>3, <1>5, <1>7, <1>8, FineAllPrime

(* sleep(), up to the sleep.                                               *)
LEMMA SleepKeeps ==
  ASSUME TimerInv, NEW t \in Thread, NEW m \in Msecs, Sleep(t, m) PROVE TimerInv'
<1>1. TypeOK /\ free + Len(listener) = LISTENER_COUNT /\ \A u \in Thread : Fine(u)
  BY FineAll DEF TimerInv
<1>2. /\ pc[t] = "user" /\ SleepFor(t, m, TRUE)
      /\ pc' = [pc EXCEPT ![t] = "sleep"] /\ blocked' = blocked \cup {t}
      /\ mixed' = IF EntriesOf(t) = {} THEN mixed ELSE mixed \cup {t}
      /\ sig' = sig /\ armed' = armed
  BY DEF Sleep
<1>3. /\ listener' \in Seq(Entry) /\ free' \in 0 .. LISTENER_COUNT
      /\ free' + Len(listener') = LISTENER_COUNT
      /\ EntriesOf(t) = {} => AtMostOne(t)'
      /\ AtMostOne(t) => AtMostTwo(t)'
      /\ \A u \in Thread \ {t} : Alike(u)
  <2>1. m \in Nat
    BY TimerAssumption
  <2> QED BY <1>1, <1>2, <2>1, SleepForEffect
<1>4. pc \in [Thread -> {"user", "alarm", "sleep", "wait", "dead"}]
  BY <1>1 DEF TypeOK
<1>5. TypeOK'
  BY <1>1, <1>2, <1>3, <1>4 DEF TypeOK
<1>6. AtMostTwo(t)'
  BY <1>1, <1>2, <1>3 DEF Fine, Held
<1>7. Fine(t)'
  <2>1. CASE EntriesOf(t) = {}
    <3>1. t \in mixed' <=> t \in mixed
      BY <2>1, <1>2
    <3>2. t \notin mixed => t \notin armed
      BY <2>1, <1>1 DEF Fine, Has
    <3> QED BY <2>1, <3>1, <3>2, <1>2, <1>3, <1>4, <1>6 DEF Fine, Held
  <2>2. CASE EntriesOf(t) # {}
    <3>1. t \in mixed'
      BY <2>2, <1>2
    <3> QED BY <3>1, <1>2, <1>4, <1>6 DEF Fine, Held
  <2> QED BY <2>1, <2>2
<1>8. ASSUME NEW u \in Thread \ {t} PROVE Fine(u)'
  BY <1>1, <1>2, <1>3, <1>4, AlikeFine
<1> QED BY <1>3, <1>5, <1>7, <1>8, FineAllPrime

(* The end of sleep().                                                     *)
LEMMA SleepReturnKeeps ==
  ASSUME TimerInv, NEW t \in Thread, SleepReturn(t) PROVE TimerInv'
<1>1. TypeOK /\ free + Len(listener) = LISTENER_COUNT /\ \A u \in Thread : Fine(u)
  BY FineAll DEF TimerInv
<1>2. /\ pc[t] = "sleep" /\ t \notin blocked /\ RemoveThread(t)
      /\ pc' = [pc EXCEPT ![t] = "user"] /\ armed' = armed
      /\ blocked' = blocked /\ sig' = sig /\ mixed' = mixed
  BY DEF SleepReturn
<1>3. /\ listener' \in Seq(Entry) /\ free' \in 0 .. LISTENER_COUNT
      /\ free' + Len(listener') = LISTENER_COUNT
      /\ AtMostOne(t) => EntriesOf(t)' = {}
      /\ AtMostTwo(t) => AtMostOne(t)'
      /\ \A u \in Thread \ {t} : Alike(u)
  BY <1>1, <1>2, RemoveThreadEffect
<1>4. pc \in [Thread -> {"user", "alarm", "sleep", "wait", "dead"}]
  BY <1>1 DEF TypeOK
<1>5. TypeOK'
  BY <1>1, <1>2, <1>3, <1>4 DEF TypeOK
<1>7. Fine(t)'
  <2>1. AtMostOne(t)'
    BY <1>1, <1>2, <1>3 DEF Fine, Held
  <2>2. t \notin mixed => EntriesOf(t)' = {} /\ t \notin armed
    BY <1>1, <1>2, <1>3 DEF Fine, Held
  <2>3. t \notin mixed => ~ Has(t, TRUE)'
    BY <2>2 DEF Has
  <2> QED BY <1>2, <1>4, <2>1, <2>2, <2>3 DEF Fine, Held
<1>8. ASSUME NEW u \in Thread \ {t} PROVE Fine(u)'
  BY <1>1, <1>2, <1>3, <1>4, AlikeFine
<1> QED BY <1>3, <1>5, <1>7, <1>8, FineAllPrime

(* The end of a thread.                                                    *)
LEMMA TerminateKeeps ==
  ASSUME TimerInv, NEW t \in Thread, Terminate(t) PROVE TimerInv'
<1>1. TypeOK /\ free + Len(listener) = LISTENER_COUNT /\ \A u \in Thread : Fine(u)
  BY FineAll DEF TimerInv
<1>2. /\ pc[t] = "user" /\ RemoveThread(t)
      /\ pc' = [pc EXCEPT ![t] = "dead"] /\ armed' = armed \ {t}
      /\ blocked' = blocked /\ sig' = sig \ {t} /\ mixed' = mixed \ {t}
  BY DEF Terminate
<1>3. /\ listener' \in Seq(Entry) /\ free' \in 0 .. LISTENER_COUNT
      /\ free' + Len(listener') = LISTENER_COUNT
      /\ AtMostOne(t) => EntriesOf(t)' = {}
      /\ \A u \in Thread \ {t} : Alike(u)
  BY <1>1, <1>2, RemoveThreadEffect
<1>4. pc \in [Thread -> {"user", "alarm", "sleep", "wait", "dead"}] /\ t \notin blocked
  BY <1>1, <1>2 DEF TypeOK
<1>5. TypeOK'
  BY <1>1, <1>2, <1>3, <1>4 DEF TypeOK
<1>6. EntriesOf(t)' = {}
  BY <1>1, <1>2, <1>3 DEF Fine, Held
<1>7. Fine(t)'
  BY <1>2, <1>4, <1>6 DEF Fine, Held, Has
<1>8. ASSUME NEW u \in Thread \ {t} PROVE Fine(u)'
  BY <1>1, <1>2, <1>3, <1>4, AlikeFine
<1> QED BY <1>3, <1>5, <1>7, <1>8, FineAllPrime

(* The steps that leave the list alone: the thread goes on as one that may *)
(* have as many entries.                                                   *)
LEMMA ListKept ==
  ASSUME TimerInv, NEW t \in Thread, NEW w, UNCHANGED <<listener, free, armed, mixed>>,
         pc' = [pc EXCEPT ![t] = w], TypeOK',
         \/ w = pc[t]
         \/ w \in {"user", "wait"} /\ pc[t] \in {"user", "wait", "alarm", "dead"}
  PROVE  TimerInv'
<1>1. TypeOK /\ free + Len(listener) = LISTENER_COUNT /\ \A u \in Thread : Fine(u)
  BY FineAll DEF TimerInv
<1>2. pc \in [Thread -> {"user", "alarm", "sleep", "wait", "dead"}]
  BY <1>1 DEF TypeOK
<1>3. \A u : Alike(u)
  BY AlikeUnchanged
<1>4. Fine(t)'
  <2>1. CASE w = pc[t]
    BY <2>1, <1>1, <1>2, <1>3, AlikeFine
  <2>2. CASE w \in {"user", "wait"} /\ pc[t] \in {"user", "wait", "alarm", "dead"}
    <3>1. AtMostOne(t)
      BY <1>1, <2>2 DEF Fine, Held, AtMostOne
    <3>2. AtMostOne(t)' /\ pc'[t] = w /\ \A b : Has(t, b)' <=> Has(t, b)
      BY <3>1, <1>2, <1>3 DEF Alike
    <3>3. t \notin mixed => ~ Has(t, TRUE)
      BY <1>1, <2>2 DEF Fine
    <3> QED BY <1>1, <2>2, <3>2, <3>3 DEF Fine, Held
  <2> QED BY <2>1, <2>2
<1>5. ASSUME NEW u \in Thread \ {t} PROVE Fine(u)'
  BY <1>1, <1>2, <1>3, AlikeFine
<1> QED BY <1>1, <1>4, <1>5, FineAllPrime

(* The actions that leave the list alone.                                  *)
LEMMA OtherKeeps ==
  ASSUME TimerInv, NEW t \in Thread,
         \/ AlarmFails(t) \/ Wait(t) \/ Wakeup(t) \/ WaitReturn(t)
         \/ Signal(t) \/ HandleSignal(t) \/ Create(t)
  PROVE  TimerInv'
<1>1. TypeOK
  BY DEF TimerInv
<1>2. pc \in [Thread -> {"user", "alarm", "sleep", "wait", "dead"}]
  BY <1>1 DEF TypeOK
<1>3. pc = [pc EXCEPT ![t] = pc[t]]
  BY <1>2
<1>4. CASE AlarmFails(t)
  <2>1. TypeOK'
    BY <1>1, <1>4 DEF AlarmFails, TypeOK
  <2> QED BY <1>4, <2>1, ListKept DEF AlarmFails
<1>5. CASE Wait(t)
  <2>1. TypeOK'
    BY <1>1, <1>5 DEF Wait, TypeOK
  <2> QED BY <1>5, <2>1, ListKept DEF Wait
<1>6. CASE Wakeup(t)
  <2>1. TypeOK'
    BY <1>1, <1>6 DEF Wakeup, TypeOK
  <2> QED BY <1>3, <1>6, <2>1, ListKept DEF Wakeup
<1>7. CASE WaitReturn(t)
  <2>1. TypeOK'
    BY <1>1, <1>7 DEF WaitReturn, TypeOK
  <2> QED BY <1>7, <2>1, ListKept DEF WaitReturn
<1>8. CASE Signal(t)
  <2>1. TypeOK'
    BY <1>1, <1>8 DEF Signal, TypeOK
  <2> QED BY <1>3, <1>8, <2>1, ListKept DEF Signal
<1>9. CASE HandleSignal(t)
  <2>1. TypeOK'
    BY <1>1, <1>9 DEF HandleSignal, TypeOK
  <2> QED BY <1>3, <1>9, <2>1, ListKept DEF HandleSignal
<1>10. CASE Create(t)
  <2>1. TypeOK'
    BY <1>1, <1>10 DEF Create, TypeOK
  <2> QED BY <1>10, <2>1, ListKept DEF Create
<1> QED BY <1>4, <1>5, <1>6, <1>7, <1>8, <1>9, <1>10

(* The timer interrupt.                                                    *)
LEMMA TickKeeps ==
  ASSUME TimerInv, Tick PROVE TimerInv'
<1>1. TypeOK /\ free + Len(listener) = LISTENER_COUNT /\ \A u \in Thread : Fine(u)
  BY FineAll DEF TimerInv
<1>2. PICK handlers \in SUBSET Alarmers : Intrpt(handlers)
  BY DEF Tick
<1>3. PICK k : k = EndedBy(listener, TimeInc)
  OBVIOUS
<1> DEFINE ended   == {listener[i] : i \in 1 .. k}
           woken   == {e.tid : e \in {x \in ended : x.block}}
           expired == {e.tid : e \in {x \in ended : ~x.block}}
<1>4. /\ listener' = Ticked(listener)
      /\ free' = free + k
      /\ sig' = sig \cup handlers
      /\ blocked' = blocked \ (woken \cup handlers)
      /\ armed' = armed \ expired
      /\ pc' = pc /\ mixed' = mixed
  BY <1>2, <1>3 DEF Intrpt
<1>5. /\ listener \in Seq(Entry) /\ free \in 0 .. LISTENER_COUNT /\ LISTENER_COUNT \in Nat
      /\ Len(listener) \in Nat
  BY <1>1, TimerAssumption DEF TypeOK
<1>6. /\ k \in 0 .. Len(listener)
      /\ listener' \in Seq(Entry) /\ Len(listener') = Len(listener) - k
      /\ \E f : Moved(f, 0, 1 .. k)
  BY <1>3, <1>4, <1>5, TickedMoves
<1>7. PICK f : Moved(f, 0, 1 .. k)
  BY <1>6
<1>8. free' \in 0 .. LISTENER_COUNT /\ free' + Len(listener') = LISTENER_COUNT
  BY <1>1, <1>4, <1>5, <1>6
<1>9. \A u : 0 \notin EntriesOf(u)'
  BY <1>6 DEF EntriesOf
<1>10. ASSUME NEW t \in Thread, t \in armed', Has(t, FALSE) PROVE Has(t, FALSE)'
  <2>1. PICK j \in EntriesOf(t) : listener[j].block = FALSE
    BY <1>10 DEF Has
  <2>2. j \notin 1 .. k
    <3> SUFFICES ASSUME j \in 1 .. k PROVE FALSE
      OBVIOUS
    <3>1. listener[j] \in ended /\ ~ listener[j].block /\ listener[j].tid = t
      BY <2>1 DEF EntriesOf
    <3>2. t \in expired
      BY <3>1
    <3> QED BY <3>2, <1>4, <1>10
  <2> QED BY <2>1, <2>2, <1>7, MovedKeeps
<1>11. handlers \subseteq Thread
  BY <1>2, TimerAssumption
<1>12. /\ armed' \subseteq armed /\ blocked' \subseteq blocked
  BY <1>4
<1> HIDE DEF ended, woken, expired
<1>13. TypeOK'
  BY <1>1, <1>4, <1>6, <1>8, <1>11, <1>12 DEF TypeOK
<1>14. ASSUME NEW t \in Thread PROVE Fine(t)'
  <2>1. /\ EntriesOf(t) = {} => EntriesOf(t)' = {}
        /\ AtMostOne(t) => AtMostOne(t)'
        /\ AtMostTwo(t) => AtMostTwo(t)'
        /\ \A b : Has(t, b)' => Has(t, b)
    BY <1>7, <1>9, MovedFewer
  <2>2. Held(t)'
    BY <1>1, <1>4, <1>12, <2>1 DEF Fine, Held
  <2> QED BY <1>1, <1>4, <1>10, <1>12, <2>1, <2>2 DEF Fine
<1> QED BY <1>8, <1>13, <1>14, FineAllPrime

-----------------------------------------------------------------------------
(* The invariant holds in every reachable state, for every set of threads, *)
(* every set of times, every length of a tick and every size of the pool.  *)
THEOREM TimerInvariant == Spec => []TimerInv
<1>1. Init => TimerInv
  <2> SUFFICES ASSUME Init PROVE TimerInv
    OBVIOUS
  <2>1. TypeOK
    BY TimerAssumption DEF Init, TypeOK
  <2>2. \A t : EntriesOf(t) = {}
    BY DEF Init, EntriesOf
  <2>3. \A t \in Thread : Fine(t)
    BY <2>2 DEF Init, Fine, Held, AtMostOne, AtMostTwo, Has
  <2>4. free + Len(listener) = LISTENER_COUNT
    BY TimerAssumption DEF Init
  <2> QED BY <2>1, <2>3, <2>4, FineAll
<1>2. TimerInv /\ [Next]_vars => TimerInv'
  <2> SUFFICES ASSUME TimerInv, [Next]_vars PROVE TimerInv'
    OBVIOUS
  <2>1. CASE UNCHANGED vars
    BY <2>1 DEF vars, TimerInv, TypeOK, Held, AlarmKept, NoStrayWakeup, EntriesOf,
                AtMostOne, AtMostTwo
  <2>2. CASE Next
    BY <2>2, TickKeeps, AlarmKeeps, AlarmSetKeeps, SleepKeeps, SleepReturnKeeps,
       TerminateKeeps, OtherKeeps DEF Next
  <2> QED BY <2>1, <2>2
<1> QED BY <1>1, <1>2, PTL DEF Spec

(* The number of entries of a thread with at most one.                     *)
LEMMA OneAtMost ==
  ASSUME NEW t, AtMostOne(t)
  PROVE  Cardinality(EntriesOf(t)) <= 1
<1>1. CASE EntriesOf(t) = {}
  BY <1>1, FS_EmptySet
<1>2. CASE EntriesOf(t) # {}
  <2>1. PICK i : i \in EntriesOf(t)
    BY <1>2
  <2>2. EntriesOf(t) = {i}
    BY <2>1 DEF AtMostOne
  <2> QED BY <2>2, FS_Singleton
<1> QED BY <1>1, <1>2

(* The number of entries of a thread with at most two.                     *)
LEMMA TwoAtMost ==
  ASSUME NEW t, AtMostTwo(t)
  PROVE  Cardinality(EntriesOf(t)) <= 2
<1>1. CASE AtMostOne(t)
  <2>1. Cardinality(EntriesOf(t)) \in Nat
    <3>1. CASE EntriesOf(t) = {}
      BY <3>1, FS_EmptySet
    <3>2. CASE EntriesOf(t) # {}
      <4>1. PICK i : i \in EntriesOf(t)
        BY <3>2
      <4>2. EntriesOf(t) = {i}
        BY <4>1, <1>1 DEF AtMostOne
      <4> QED BY <4>2, FS_Singleton
    <3> QED BY <3>1, <3>2
  <2> QED BY <1>1, <2>1, OneAtMost
<1>2. CASE ~ AtMostOne(t)
  <2>1. PICK i \in EntriesOf(t), j \in EntriesOf(t) : i # j
    BY <1>2 DEF AtMostOne
  <2>2. EntriesOf(t) = {i} \cup {j}
    BY <2>1 DEF AtMostTwo
  <2>3. IsFiniteSet({i}) /\ Cardinality({i}) = 1 /\ j \notin {i}
    BY <2>1, FS_Singleton
  <2>4. Cardinality({i} \cup {j}) = 2
    BY <2>3, FS_AddElement
  <2> QED BY <2>2, <2>4
<1> QED BY <1>1, <1>2

(* removeThread() stops at the first entry of a thread, and this is enough:*)
(* no entry is lost or left behind, an alarm stays in the list until it    *)
(* goes off, and the timer wakes only who sleeps.                          *)
THEOREM TimerEntries == Spec => []EntriesExact
<1>1. TimerInv => EntriesExact
  <2> SUFFICES ASSUME TimerInv, NEW t \in Thread
               PROVE  Cardinality(EntriesOf(t)) <=
                        CASE pc[t] = "dead"  -> 0
                          [] pc[t] = "alarm" -> 0
                          [] pc[t] = "sleep" -> 2
                          [] OTHER           -> 1
    BY DEF TimerInv, EntriesExact, NoEntryOfDead
  <2>0. pc[t] \in {"user", "alarm", "sleep", "wait", "dead"} /\ Held(t)
    BY DEF TimerInv, TypeOK
  <2>1. CASE pc[t] \in {"dead", "alarm"}
    <3>1. Cardinality(EntriesOf(t)) = 0
      BY <2>0, <2>1, FS_EmptySet DEF Held
    <3> QED BY <2>1, <3>1
  <2>2. CASE pc[t] = "sleep"
    BY <2>0, <2>2, TwoAtMost DEF Held
  <2>3. CASE pc[t] \in {"user", "wait"}
    BY <2>0, <2>3, OneAtMost DEF Held
  <2> QED BY <2>0, <2>1, <2>2, <2>3
<1> QED BY <1>1, TimerInvariant, PTL

-----------------------------------------------------------------------------
(* The refinement: the remaining times of the entries are the abstract     *)
(* requests.                                                               *)
Request == [tid : Thread, block : BOOLEAN, left : Nat]

(* The requests that a list stands for.                                    *)
LEMMA PendingSeq ==
  ASSUME NEW l \in Seq(Entry)
  PROVE  /\ Pending(l) \in Seq(Request) /\ Len(Pending(l)) = Len(l)
         /\ DOMAIN Pending(l) = 1 .. Len(l)
         /\ \A i \in 1 .. Len(l) :
              /\ Pending(l)[i] \in Request
              /\ Pending(l)[i] = [tid |-> l[i].tid, block |-> l[i].block, left |-> Until(l)[i]]
<1>1. /\ Len(l) \in Nat /\ DOMAIN l = 1 .. Len(l)
      /\ \A i \in 1 .. Len(l) : l[i].tid \in Thread /\ l[i].block \in BOOLEAN
  BY EntryAt
<1>2. \A i \in 1 .. Len(l) : Until(l)[i] \in Nat
  <2>1. Until(l) \in [0 .. Len(l) -> Nat]
    BY UntilDef
  <2> QED BY <1>1, <2>1
<1>3. \A i \in 1 .. Len(l) :
        [tid |-> l[i].tid, block |-> l[i].block, left |-> Until(l)[i]] \in Request
  BY <1>1, <1>2 DEF Request
<1>4. Pending(l) = [i \in 1 .. Len(l) |->
                      [tid |-> l[i].tid, block |-> l[i].block, left |-> Until(l)[i]]]
  BY <1>1 DEF Pending
<1>5. Pending(l) \in Seq(Request) /\ DOMAIN Pending(l) = 1 .. Len(l)
  BY <1>1, <1>3, <1>4
<1>6. Len(Pending(l)) = Len(l)
  BY <1>1, <1>5
<1> QED BY <1>3, <1>4, <1>5, <1>6

(* The requests that end within m are the first ones.                      *)
LEMMA PendingEnded ==
  ASSUME NEW l \in Seq(Entry), NEW m \in Nat
  PROVE  {i \in DOMAIN Pending(l) : Pending(l)[i].left <= m} = 1 .. EndedBy(l, m)
<1>0. \A i \in 1 .. Len(l) :
        Pending(l)[i] = [tid |-> l[i].tid, block |-> l[i].block, left |-> Until(l)[i]]
  BY PendingSeq
<1>2. ASSUME NEW i \in 1 .. Len(l) PROVE Pending(l)[i].left = Until(l)[i]
  <2>1. PICK q : q = Pending(l)[i]
    OBVIOUS
  <2>2. q = [tid |-> l[i].tid, block |-> l[i].block, left |-> Until(l)[i]]
    BY <1>0, <2>1
  <2>3. q.left = Until(l)[i]
    BY <2>2
  <2> QED BY <2>1, <2>3
<1>3. {i \in DOMAIN Pending(l) : Pending(l)[i].left <= m} = {i \in 1 .. Len(l) : Until(l)[i] <= m}
  BY <1>2, PendingSeq
<1>4. {i \in 1 .. Len(l) : Until(l)[i] <= m} = 1 .. EndedBy(l, m)
  BY EndedFirst
<1> QED BY <1>3, <1>4

(* sleepFor() adds a request.                                              *)
LEMMA PendingInserted ==
  ASSUME NEW l \in Seq(Entry), NEW t \in Thread, NEW m \in Nat, NEW block \in BOOLEAN
  PROVE  Pending(Inserted(l, t, m, block)) =
           InsertAt(Pending(l), EndedBy(l, m) + 1, [tid |-> t, block |-> block, left |-> m])
<1>1. PICK r : r = Inserted(l, t, m, block)
  OBVIOUS
<1>2. PICK k : k = EndedBy(l, m)
  OBVIOUS
<1>3. Insertion(l, t, m, block, k, r)
  BY <1>1, <1>2, InsertedEffect
<1>4. PICK p : p = k + 1
  OBVIOUS
<1>5. PICK e : e = [tid |-> t, block |-> block, left |-> m]
  OBVIOUS
<1>6. PICK s : s = Pending(l)
  OBVIOUS
<1>7. /\ k \in 0 .. Len(l) /\ r \in Seq(Entry) /\ Len(r) = Len(l) + 1
      /\ r[p].tid = t /\ r[p].block = block /\ Until(r)[p] = m
      /\ p \in 1 .. Len(l) + 1 /\ Len(l) \in Nat
  BY <1>3, <1>4 DEF Insertion
<1>8. /\ s \in Seq(Request) /\ Len(s) = Len(l)
      /\ \A i \in 1 .. Len(l) :
           s[i] = [tid |-> l[i].tid, block |-> l[i].block, left |-> Until(l)[i]]
  BY <1>6, PendingSeq
<1>9. e \in Request
  BY <1>5 DEF Request
<1>10. PICK a : a = InsertAt(s, p, e)
  OBVIOUS
<1>11. /\ a \in Seq(Request) /\ Len(a) = Len(s) + 1
       /\ \A i \in 1 .. Len(s) + 1 : a[i] =
            IF i < p THEN s[i] ELSE IF i = p THEN e ELSE s[i - 1]
  <2>1. p \in 1 .. Len(s) + 1
    BY <1>7, <1>8
  <2>2. s \in Seq(Request)
    BY <1>8
  <2>3. /\ InsertAt(s, p, e) \in Seq(Request) /\ Len(InsertAt(s, p, e)) = Len(s) + 1
        /\ \A i \in 1 .. Len(s) + 1 : InsertAt(s, p, e)[i] =
             IF i < p THEN s[i] ELSE IF i = p THEN e ELSE s[i - 1]
    BY <2>1, <2>2, <1>9, InsertedAt
  <2> QED BY <2>3, <1>10
<1>12. PICK b : b = Pending(r)
  OBVIOUS
<1>13. /\ b \in Seq(Request) /\ Len(b) = Len(r)
       /\ \A i \in 1 .. Len(r) :
            b[i] = [tid |-> r[i].tid, block |-> r[i].block, left |-> Until(r)[i]]
  BY <1>7, <1>12, PendingSeq
<1>14. ASSUME NEW i \in 1 .. Len(l) + 1 PROVE b[i] = a[i]
  <2>0. i \in 1 .. Len(s) + 1 /\ i \in 1 .. Len(r)
    BY <1>7, <1>8
  <2>1. CASE i < p
    <3>1. i \in 1 .. Len(l) /\ i <= k
      BY <2>1, <1>4, <1>7
    <3>2. r[i].tid = l[i].tid /\ r[i].block = l[i].block /\ Until(r)[i] = Until(l)[i]
      BY <3>1, <1>3 DEF Insertion
    <3>3. a[i] = s[i]
      BY <2>0, <2>1, <1>11
    <3>4. s[i] = [tid |-> l[i].tid, block |-> l[i].block, left |-> Until(l)[i]]
      BY <3>1, <1>8
    <3>5. b[i] = [tid |-> r[i].tid, block |-> r[i].block, left |-> Until(r)[i]]
      BY <2>0, <1>13
    <3> QED BY <3>2, <3>3, <3>4, <3>5
  <2>2. CASE i = p
    <3>1. a[i] = e
      BY <2>0, <2>2, <1>7, <1>11
    <3>5. b[i] = [tid |-> r[i].tid, block |-> r[i].block, left |-> Until(r)[i]]
      BY <2>0, <1>13
    <3> QED BY <2>2, <3>1, <3>5, <1>5, <1>7
  <2>3. CASE ~ (i < p) /\ i # p
    <3>0. PICK j : j = i - 1
      OBVIOUS
    <3>1. j \in 1 .. Len(l) /\ ~ (j <= k) /\ j + 1 = i
      BY <2>3, <3>0, <1>4, <1>7
    <3>2. r[i].tid = l[j].tid /\ r[i].block = l[j].block /\ Until(r)[i] = Until(l)[j]
      BY <3>1, <1>3 DEF Insertion
    <3>3. a[i] = s[j]
      BY <2>0, <2>3, <3>0, <1>11
    <3>4. s[j] = [tid |-> l[j].tid, block |-> l[j].block, left |-> Until(l)[j]]
      BY <3>1, <1>8
    <3>5. b[i] = [tid |-> r[i].tid, block |-> r[i].block, left |-> Until(r)[i]]
      BY <2>0, <1>13
    <3> QED BY <3>2, <3>3, <3>4, <3>5
  <2> QED BY <2>1, <2>2, <2>3
<1>15. Len(a) = Len(b) /\ \A i \in 1 .. Len(b) : b[i] = a[i]
  BY <1>7, <1>8, <1>11, <1>13, <1>14
<1>16. a = b
  BY <1>11, <1>13, <1>15, SeqEqual
<1> QED BY <1>1, <1>2, <1>4, <1>5, <1>6, <1>10, <1>12, <1>16

(* removeThread() drops a request.                                         *)
LEMMA PendingRemoved ==
  ASSUME NEW l \in Seq(Entry), NEW k \in 1 .. Len(l)
  PROVE  Pending(Removed(l, k)) = RemoveAt(Pending(l), k)
<1>1. PICK r : r = Removed(l, k)
  OBVIOUS
<1>3. /\ r \in Seq(Entry) /\ Len(r) = Len(l) - 1
      /\ \A i \in 1 .. Len(l) - 1 : LET j == IF i < k THEN i ELSE i + 1
           IN  /\ r[i].tid = l[j].tid /\ r[i].block = l[j].block
               /\ Until(r)[i] = Until(l)[j]
  BY <1>1, RemovedEffect
<1>6. PICK s : s = Pending(l)
  OBVIOUS
<1>7. Len(l) \in Nat
  OBVIOUS
<1>8. /\ s \in Seq(Request) /\ Len(s) = Len(l)
      /\ \A i \in 1 .. Len(l) :
           s[i] = [tid |-> l[i].tid, block |-> l[i].block, left |-> Until(l)[i]]
  BY <1>6, PendingSeq
<1>10. PICK a : a = RemoveAt(s, k)
  OBVIOUS
<1>11. /\ a \in Seq(Request) /\ Len(a) = Len(s) - 1
       /\ \A i \in 1 .. Len(s) - 1 : a[i] = IF i < k THEN s[i] ELSE s[i + 1]
  BY <1>8, <1>10, RemovedFrom
<1>12. PICK b : b = Pending(r)
  OBVIOUS
<1>13. /\ b \in Seq(Request) /\ Len(b) = Len(r)
       /\ \A i \in 1 .. Len(r) :
            b[i] = [tid |-> r[i].tid, block |-> r[i].block, left |-> Until(r)[i]]
  BY <1>3, <1>12, PendingSeq
<1>14. ASSUME NEW i \in 1 .. Len(l) - 1 PROVE b[i] = a[i]
  <2>0. PICK j : j = IF i < k THEN i ELSE i + 1
    OBVIOUS
  <2>1. i \in 1 .. Len(s) - 1 /\ i \in 1 .. Len(r) /\ j \in 1 .. Len(l)
    BY <2>0, <1>3, <1>7, <1>8
  <2>2. r[i].tid = l[j].tid /\ r[i].block = l[j].block /\ Until(r)[i] = Until(l)[j]
    BY <2>0, <1>3
  <2>3. a[i] = s[j]
    BY <2>0, <2>1, <1>11
  <2>4. s[j] = [tid |-> l[j].tid, block |-> l[j].block, left |-> Until(l)[j]]
    BY <2>1, <1>8
  <2>5. b[i] = [tid |-> r[i].tid, block |-> r[i].block, left |-> Until(r)[i]]
    BY <2>1, <1>13
  <2> QED BY <2>2, <2>3, <2>4, <2>5
<1>15. Len(a) = Len(b) /\ \A i \in 1 .. Len(b) : b[i] = a[i]
  BY <1>3, <1>8, <1>11, <1>13, <1>14
<1>16. a = b
  BY <1>11, <1>13, <1>15, SeqEqual
<1> QED BY <1>1, <1>6, <1>10, <1>12, <1>16

Suffix(s, k, r) ==
  \A i \in 1 .. Len(s) - k : r[i] = s[i + k]

(* The elements of the rest of a list.                                     *)
LEMMA SuffixAt ==
  ASSUME NEW S, NEW s \in Seq(S), NEW k \in 0 .. Len(s), NEW r, r = SubSeq(s, k + 1, Len(s))
  PROVE  /\ r \in Seq(S) /\ Len(r) = Len(s) - k
         /\ Suffix(s, k, r)
BY DEF Suffix

(* intrpt() takes the time of the tick from every request that stays.      *)
LEMMA PendingTicked ==
  ASSUME NEW l \in Seq(Entry), NEW left,
         left = SubSeq(Pending(l), EndedBy(l, TimeInc) + 1, Len(Pending(l)))
  PROVE  Pending(Ticked(l)) = [i \in DOMAIN left |-> [left[i] EXCEPT !.left = @ - TimeInc]]
<1>1. PICK r : r = Ticked(l)
  OBVIOUS
<1>2. PICK k : k = EndedBy(l, TimeInc)
  OBVIOUS
<1>3. /\ k \in 0 .. Len(l)
      /\ r \in Seq(Entry) /\ Len(r) = Len(l) - k
      /\ \A i \in 1 .. Len(l) - k :
           /\ r[i].tid = l[i + k].tid /\ r[i].block = l[i + k].block
           /\ Until(r)[i] = Until(l)[i + k] - TimeInc
  <2>1. Shift(l, k, r)
    BY <1>1, <1>2, TickedEffect
  <2> QED BY <2>1 DEF Shift
<1>6. PICK s : s = Pending(l)
  OBVIOUS
<1>7. Len(l) \in Nat /\ Len(l) - k \in Nat
  BY <1>3
<1>8. /\ s \in Seq(Request) /\ Len(s) = Len(l)
      /\ \A i \in 1 .. Len(l) :
           s[i] = [tid |-> l[i].tid, block |-> l[i].block, left |-> Until(l)[i]]
  BY <1>6, PendingSeq
<1>9. left = SubSeq(s, k + 1, Len(l))
  BY <1>2, <1>6, <1>8
<1>10. /\ left \in Seq(Request) /\ DOMAIN left = 1 .. Len(l) - k
       /\ \A i \in 1 .. Len(l) - k : left[i] = s[i + k]
  <2>1. k \in 0 .. Len(s)
    BY <1>3, <1>8
  <2>2. /\ left \in Seq(Request) /\ Len(left) = Len(s) - k
        /\ \A i \in 1 .. Len(s) - k : left[i] = s[i + k]
    <3>1. left = SubSeq(s, k + 1, Len(s))
      BY <1>8, <1>9
    <3>2. s \in Seq(Request)
      BY <1>8
    <3>3. PICK S : S = Request
      OBVIOUS
    <3>4. s \in Seq(S)
      BY <3>2, <3>3
    <3>5. left \in Seq(S) /\ Len(left) = Len(s) - k /\ Suffix(s, k, left)
      BY <2>1, <3>1, <3>4, SuffixAt
    <3> QED BY <3>3, <3>5 DEF Suffix
  <2>3. DOMAIN left = 1 .. Len(left)
    BY <2>2
  <2> QED BY <2>2, <2>3, <1>8
<1>12. PICK b : b = Pending(r)
  OBVIOUS
<1>13. /\ b \in Seq(Request) /\ Len(b) = Len(r)
       /\ \A i \in 1 .. Len(r) :
            b[i] = [tid |-> r[i].tid, block |-> r[i].block, left |-> Until(r)[i]]
  BY <1>3, <1>12, PendingSeq
<1>14. ASSUME NEW i \in 1 .. Len(l) - k PROVE b[i] = [left[i] EXCEPT !.left = @ - TimeInc]
  <2>0. PICK j : j = i + k
    OBVIOUS
  <2>1. j \in 1 .. Len(l) /\ i \in 1 .. Len(r)
    BY <2>0, <1>3, <1>7
  <2>2. /\ r[i].tid = l[j].tid /\ r[i].block = l[j].block
        /\ Until(r)[i] = Until(l)[j] - TimeInc
    BY <2>0, <1>3
  <2>3. left[i] = s[j]
    BY <2>0, <1>10
  <2>4. s[j] = [tid |-> l[j].tid, block |-> l[j].block, left |-> Until(l)[j]]
    BY <2>1, <1>8
  <2>5. b[i] = [tid |-> r[i].tid, block |-> r[i].block, left |-> Until(r)[i]]
    BY <2>1, <1>13
  <2>6. PICK q : q = left[i]
    OBVIOUS
  <2>7. [q EXCEPT !.left = @ - TimeInc] =
          [tid |-> l[j].tid, block |-> l[j].block, left |-> Until(l)[j] - TimeInc]
    BY <2>3, <2>4, <2>6
  <2> QED BY <2>2, <2>5, <2>6, <2>7
<1>15. DOMAIN b = 1 .. Len(l) - k /\ b = [i \in 1 .. Len(l) - k |-> b[i]]
  <2>1. b \in [1 .. Len(b) -> Request] /\ Len(b) = Len(l) - k
    BY <1>3, <1>13, LenProperties
  <2> QED BY <2>1
<1>16. b = [i \in DOMAIN left |-> [left[i] EXCEPT !.left = @ - TimeInc]]
  BY <1>10, <1>14, <1>15
<1> QED BY <1>1, <1>12, <1>16

(* A step that makes an entry adds its request.                            *)
LEMMA AddStep ==
  ASSUME TypeOK, NEW t \in Thread, NEW m \in Msecs, NEW block \in BOOLEAN,
         SleepFor(t, m, block), blocked' = IF block THEN blocked \cup {t} ELSE blocked
  PROVE  D!Next
<1>1. listener \in Seq(Entry) /\ m \in Nat
  BY TimerAssumption DEF TypeOK
<1>2. listener' = Inserted(listener, t, m, block)
  BY DEF SleepFor
<1>3. Pending(listener)' = InsertAt(Pending(listener), EndedBy(listener, m) + 1,
                                    [tid |-> t, block |-> block, left |-> m])
  BY <1>1, <1>2, PendingInserted
<1>4. PICK k : k = EndedBy(listener, m)
  OBVIOUS
<1>5. k \in 0 .. Len(Pending(listener))
  BY <1>1, <1>4, EndedFirst, PendingSeq
<1>6. D!FirstEnded(k, m)
  BY <1>1, <1>4, PendingEnded DEF D!FirstEnded
<1>7. \A s, i, e : D!InsertAt(s, i, e) = InsertAt(s, i, e)
  BY DEF D!InsertAt, InsertAt
<1>8. D!Add(t, m, block)
  BY <1>3, <1>4, <1>5, <1>6, <1>7 DEF D!Add
<1> QED BY <1>8 DEF D!Next

(* A step that removes an entry drops its request.                         *)
LEMMA DropStep ==
  ASSUME TypeOK, NEW t \in Thread, RemoveThread(t), blocked' = blocked
  PROVE  [D!Next]_(D!vars)
<1>1. listener \in Seq(Entry)
  BY DEF TypeOK
<1>2. CASE UNCHANGED listener
  <2>1. Pending(listener)' = Pending(listener)
    BY <1>2 DEF Pending
  <2> QED BY <2>1 DEF D!vars
<1>3. CASE \E k \in EntriesOf(t) : listener' = Removed(listener, k)
  <2>1. PICK k \in EntriesOf(t) : listener' = Removed(listener, k)
    BY <1>3
  <2>2. k \in 1 .. Len(listener) /\ listener[k].tid = t
    BY <1>1 DEF EntriesOf
  <2>3. Pending(listener)' = RemoveAt(Pending(listener), k)
    BY <1>1, <2>1, <2>2, PendingRemoved
  <2>4. k \in DOMAIN Pending(listener) /\ Pending(listener)[k].tid = t
    BY <1>1, <2>2 DEF Pending
  <2>5. \A s, i : D!RemoveAt(s, i) = RemoveAt(s, i)
    BY DEF D!RemoveAt, RemoveAt
  <2>6. D!Drop(t)
    BY <2>3, <2>4, <2>5 DEF D!Drop
  <2> QED BY <2>6 DEF D!Next
<1> QED BY <1>1, <1>2, <1>3, RemoveThreadFirst

(* A step that leaves the list alone at most changes who waits.            *)
LEMMA OtherStep ==
  ASSUME NEW t \in Thread, listener' = listener,
         blocked' \in {blocked, blocked \cup {t}, blocked \ {t}}
  PROVE  [D!Next]_(D!vars)
<1>1. Pending(listener)' = Pending(listener)
  BY DEF Pending
<1>2. CASE blocked' = blocked
  BY <1>1, <1>2 DEF D!vars
<1>3. CASE blocked' # blocked
  <2>1. D!Other(t)
    BY <1>1, <1>3 DEF D!Other
  <2> QED BY <2>1 DEF D!Next
<1> QED BY <1>2, <1>3

(* A tick is a tick.                                                       *)
LEMMA TickStep ==
  ASSUME TypeOK, Tick
  PROVE  D!Next
<1>1. listener \in Seq(Entry) /\ TimeInc \in Nat
  BY TimerAssumption DEF TypeOK
<1>2. PICK handlers \in SUBSET Alarmers : Intrpt(handlers)
  BY DEF Tick
<1>3. PICK k : k = EndedBy(listener, TimeInc)
  OBVIOUS
<1>4. k \in 0 .. Len(listener)
  BY <1>1, <1>3, EndedFirst
<1> DEFINE ended   == {listener[i] : i \in 1 .. k}
           woken   == {e.tid : e \in {x \in ended : x.block}}
           expired == {e.tid : e \in {x \in ended : ~x.block}}
           P       == Pending(listener)
           left    == SubSeq(P, k + 1, Len(P))
<1>5. /\ listener' = Ticked(listener)
      /\ blocked' = blocked \ (woken \cup handlers)
      /\ handlers \subseteq expired
  BY <1>2, <1>3 DEF Intrpt
<1>6. D!FirstEnded(k, TimeInc) /\ k \in 0 .. Len(Pending(listener))
  BY <1>1, <1>3, <1>4, PendingEnded, PendingSeq DEF D!FirstEnded
<1>7. P' = [i \in DOMAIN left |-> [left[i] EXCEPT !.left = @ - TimeInc]]
  BY <1>1, <1>3, <1>5, PendingTicked
<1>8. ASSUME NEW i \in 1 .. k
      PROVE  P[i].tid = listener[i].tid /\ P[i].block = listener[i].block
  <2>1. i \in DOMAIN listener
    BY <1>1, <1>4
  <2> QED BY <2>1 DEF Pending
<1> HIDE DEF P, left
<1>9. woken = {P[i].tid : i \in {j \in 1 .. k : P[j].block}}
  BY <1>8
<1>10. expired \subseteq {P[i].tid : i \in 1 .. k}
  BY <1>8
<1> HIDE DEF ended, woken, expired
<1>11. D!Tick
  <2>1. handlers \in SUBSET {P[i].tid : i \in 1 .. k}
    BY <1>5, <1>10
  <2>2. \E alarmed \in SUBSET {P[i].tid : i \in 1 .. k} :
          blocked' = blocked \ ({P[i].tid : i \in {j \in 1 .. k : P[j].block}} \cup alarmed)
    BY <2>1, <1>5, <1>9
  <2> QED BY <1>6, <1>7, <2>2 DEF D!Tick, P, left
<1> QED BY <1>11 DEF D!Next

(* The list of differences implements the list of remaining times, for     *)
(* every pool and every tick: sleepFor() and removeThread() correct the    *)
(* entry behind the one they add or take, and intrpt() the first one that  *)
(* stays, so that no request is ever shifted.                              *)
THEOREM TimerImplementsDeadlines == Spec => ImplementsDeadlines
<1>1. Init => D!Init
  <2> SUFFICES ASSUME Init PROVE D!Init
    OBVIOUS
  <2>1. listener = << >> /\ blocked = {}
    BY DEF Init
  <2>2. Pending(<< >>) = << >>
    BY DEF Pending
  <2> QED BY <2>1, <2>2 DEF D!Init
<1>2. TypeOK /\ [Next]_vars => [D!Next]_(D!vars)
  <2> SUFFICES ASSUME TypeOK, [Next]_vars PROVE [D!Next]_(D!vars)
    OBVIOUS
  <2>1. CASE UNCHANGED vars
    <3>1. Pending(listener)' = Pending(listener) /\ blocked' = blocked
      BY <2>1 DEF vars, Pending
    <3> QED BY <3>1 DEF D!vars
  <2>2. CASE Tick
    BY <2>2, TickStep
  <2>3. ASSUME NEW t \in Thread, Alarm(t) \/ SleepReturn(t) \/ Terminate(t)
        PROVE  [D!Next]_(D!vars)
    <3>1. RemoveThread(t) /\ blocked' = blocked
      BY <2>3 DEF Alarm, SleepReturn, Terminate
    <3> QED BY <3>1, DropStep
  <2>4. ASSUME NEW t \in Thread, NEW m \in Msecs, AlarmSet(t, m) \/ Sleep(t, m)
        PROVE  D!Next
    <3>1. CASE AlarmSet(t, m)
      <4>1. SleepFor(t, m, FALSE) /\ blocked' = IF FALSE THEN blocked \cup {t} ELSE blocked
        BY <3>1 DEF AlarmSet
      <4> QED BY <4>1, AddStep
    <3>2. CASE Sleep(t, m)
      <4>1. SleepFor(t, m, TRUE) /\ blocked' = IF TRUE THEN blocked \cup {t} ELSE blocked
        BY <3>2 DEF Sleep
      <4> QED BY <4>1, AddStep
    <3> QED BY <2>4, <3>1, <3>2
  <2>5. ASSUME NEW t \in Thread,
               \/ AlarmFails(t) \/ Wait(t) \/ Wakeup(t) \/ WaitReturn(t)
               \/ Signal(t) \/ HandleSignal(t) \/ Create(t)
        PROVE  [D!Next]_(D!vars)
    <3>1. listener' = listener /\ blocked' \in {blocked, blocked \cup {t}, blocked \ {t}}
      BY <2>5 DEF AlarmFails, Wait, Wakeup, WaitReturn, Signal, HandleSignal, Create
    <3> QED BY <3>1, OtherStep
  <2> QED BY <2>1, <2>2, <2>3, <2>4, <2>5 DEF Next
<1>3. Spec => []TypeOK
  <2>1. TimerInv => TypeOK
    BY DEF TimerInv
  <2> QED BY <2>1, TimerInvariant, PTL
<1> QED BY <1>1, <1>2, <1>3, PTL DEF Spec, ImplementsDeadlines, D!Spec

=============================================================================
