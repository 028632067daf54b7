---------------------------- MODULE SchedProofs ----------------------------
(***************************************************************************)
(* The scheduler's data structures stay consistent, for every number of    *)
(* threads, processors, priorities and events: IndInv is inductive.        *)
(***************************************************************************)
EXTENDS Sched, DList, FiniteSetTheorems, TLAPS

-----------------------------------------------------------------------------
(* What the list operations do to membership and to distinctness. *)

(* Appending links the new element and nothing else.                       *)
LEMMA AppendMembers ==
  ASSUME NEW S, NEW s \in Seq(S), NEW e \in S, NEW x
  PROVE  InList(Append(s, e), x) <=> InList(s, x) \/ x = e
<1> DEFINE a == Append(s, e)
<1>1. Len(a) = Len(s) + 1 /\ Len(s) \in Nat
  OBVIOUS
<1>2. \A i \in 1 .. Len(s) : a[i] = s[i]
  OBVIOUS
<1>3. a[Len(s) + 1] = e
  OBVIOUS
<1> HIDE DEF a
<1>4. InList(a, x) <=> InList(s, x) \/ x = e
  BY <1>1, <1>2, <1>3 DEF InList
<1> QED BY <1>4 DEF a

(* Appending an element that is not linked keeps the list distinct.        *)
LEMMA AppendDistinct ==
  ASSUME NEW S, NEW s \in Seq(S), NEW e \in S, Distinct(s), ~ InList(s, e)
  PROVE  Distinct(Append(s, e)) /\ Append(s, e) \in Seq(S)
<1> DEFINE a == Append(s, e)
<1>1. Len(a) = Len(s) + 1 /\ Len(s) \in Nat
  OBVIOUS
<1>2. \A i \in 1 .. Len(s) : a[i] = s[i]
  OBVIOUS
<1>3. a[Len(s) + 1] = e
  OBVIOUS
<1>5. a \in Seq(S)
  OBVIOUS
<1> HIDE DEF a
<1>4. Distinct(a)
  BY <1>1, <1>2, <1>3 DEF InList, Distinct
<1> QED BY <1>4, <1>5 DEF a

(* Taking the first element off a distinct list unlinks just that one.     *)
LEMMA TailMembers ==
  ASSUME NEW S, NEW s \in Seq(S), s # << >>, Distinct(s)
  PROVE  /\ Tail(s) \in Seq(S)
         /\ Head(s) \in S
         /\ InList(s, Head(s))
         /\ Distinct(Tail(s))
         /\ \A x : InList(Tail(s), x) <=> InList(s, x) /\ x # Head(s)
<1> DEFINE a == Tail(s)
<1>1. Len(a) = Len(s) - 1 /\ Len(s) \in Nat /\ Len(s) >= 1
  OBVIOUS
<1>2. \A i \in 1 .. Len(a) : a[i] = s[i + 1]
  OBVIOUS
<1>3. Head(s) = s[1] /\ s[1] \in S /\ a \in Seq(S)
  OBVIOUS
<1> HIDE DEF a
<1>4. Distinct(a)
  BY <1>1, <1>2 DEF Distinct
<1>5. ASSUME NEW x
      PROVE  InList(a, x) <=> InList(s, x) /\ x # s[1]
  <2>1. ASSUME InList(a, x)
        PROVE  InList(s, x) /\ x # s[1]
    BY <2>1, <1>1, <1>2 DEF InList, Distinct
  <2>2. ASSUME InList(s, x), x # s[1]
        PROVE  InList(a, x)
    <3>1. PICK i \in 1 .. Len(s) : s[i] = x
      BY <2>2 DEF InList
    <3>2. i - 1 \in 1 .. Len(a) /\ a[i - 1] = x
      BY <3>1, <2>2, <1>1, <1>2
    <3> QED BY <3>2 DEF InList
  <2> QED BY <2>1, <2>2
<1>6. InList(s, s[1])
  BY <1>1 DEF InList
<1> QED BY <1>3, <1>4, <1>5, <1>6 DEF a

(* Only the empty list has no members.                                     *)
LEMMA NoMembers ==
  ASSUME NEW S, NEW s \in Seq(S)
  PROVE  /\ s = << >> <=> \A x \in S : ~ InList(s, x)
         /\ \A x : InList(s, x) => x \in S
<1>1. ASSUME s # << >> PROVE \E x \in S : InList(s, x)
  <2>1. Len(s) \in Nat /\ Len(s) >= 1 /\ s[1] \in S
    BY <1>1
  <2> QED BY <2>1 DEF InList
<1>2. ASSUME s = << >> PROVE \A x \in S : ~ InList(s, x)
  BY <1>2 DEF InList
<1>3. \A x : InList(s, x) => x \in S
  BY DEF InList
<1> QED BY <1>1, <1>2, <1>3

(* Unlinking takes just the one element off a distinct list.               *)
LEMMA UnlinkMembers ==
  ASSUME NEW S, NEW s \in Seq(S), NEW e, Distinct(s)
  PROVE  /\ Unlink(s, e) \in Seq(S)
         /\ Distinct(Unlink(s, e))
         /\ \A x : InList(Unlink(s, e), x) <=> InList(s, x) /\ x # e
<1>1. CASE ~ InList(s, e)
  BY <1>1 DEF Unlink, InList
<1>2. CASE InList(s, e)
  <2> DEFINE k == Place(s, e)
             u == [i \in 1 .. (Len(s) - 1) |-> IF i < k THEN s[i] ELSE s[i + 1]]
  <2>1. k \in 1 .. Len(s) /\ s[k] = e
    BY <1>2 DEF Place, InList
  <2>2. Len(s) \in Nat /\ Len(s) - 1 \in Nat
    BY <2>1
  <2>3. u \in Seq(S) /\ Len(u) = Len(s) - 1
    <3>1. u \in [1 .. (Len(s) - 1) -> S]
      BY <2>1, <2>2
    <3> QED BY <3>1, <2>2
  <2>4. \A i \in 1 .. (Len(s) - 1) : u[i] = IF i < k THEN s[i] ELSE s[i + 1]
    OBVIOUS
  <2>5. Unlink(s, e) = u
    BY <1>2 DEF Unlink
  <2> HIDE DEF u, k
  <2>6. Distinct(u)
    BY <2>1, <2>2, <2>3, <2>4 DEF Distinct
  <2>7. ASSUME NEW x, InList(u, x)
        PROVE  InList(s, x) /\ x # e
    BY <2>7, <2>1, <2>2, <2>3, <2>4 DEF InList, Distinct
  <2>8. ASSUME NEW x, InList(s, x), x # e
        PROVE  InList(u, x)
    <3>1. PICK i \in 1 .. Len(s) : s[i] = x
      BY <2>8 DEF InList
    <3>2. CASE i < k
      BY <3>1, <3>2, <2>1, <2>2, <2>3, <2>4 DEF InList
    <3>3. CASE i > k
      <4>1. i - 1 \in 1 .. Len(u) /\ u[i - 1] = x
        BY <3>1, <3>3, <2>1, <2>2, <2>3, <2>4
      <4> QED BY <4>1 DEF InList
    <3> QED BY <3>1, <3>2, <3>3, <2>1, <2>8
  <2> QED BY <2>3, <2>5, <2>6, <2>7, <2>8
<1> QED BY <1>1, <1>2

(* Unlinking leaves the elements before the unlinked one where they are.   *)
LEMMA UnlinkPrefix ==
  ASSUME NEW S, NEW s \in Seq(S), Distinct(s), NEW k \in 1 .. Len(s)
  PROVE  /\ Len(Unlink(s, s[k])) = Len(s) - 1
         /\ \A i \in 1 .. (Len(s) - 1) : i < k => Unlink(s, s[k])[i] = s[i]
<1> DEFINE e == s[k]
           u == [i \in 1 .. (Len(s) - 1) |-> IF i < k THEN s[i] ELSE s[i + 1]]
<1>1. InList(s, e)
  BY DEF InList
<1>2. Place(s, e) = k
  <2>1. Place(s, e) \in 1 .. Len(s) /\ s[Place(s, e)] = e
    BY <1>1 DEF Place, InList
  <2> QED BY <2>1 DEF Distinct
<1>3. Unlink(s, e) = u
  BY <1>1, <1>2 DEF Unlink
<1>4. Len(s) \in Nat /\ Len(s) - 1 \in Nat
  OBVIOUS
<1>5. Len(u) = Len(s) - 1
  <2>1. u \in [1 .. (Len(s) - 1) -> S]
    BY <1>4
  <2> QED BY <2>1, <1>4
<1>6. \A i \in 1 .. (Len(s) - 1) : i < k => u[i] = s[i]
  OBVIOUS
<1> HIDE DEF u
<1> QED BY <1>3, <1>5, <1>6

-----------------------------------------------------------------------------
-----------------------------------------------------------------------------
(* How the operations on queues preserve Exact.                            *)

(* Making one more thread ready or one less changes the count by one.      *)
LEMMA ReadyCount ==
  ASSUME NEW st \in [Thread -> States], NEW t \in Thread, NEW v \in States
  PROVE  /\ IsFiniteSet(Ready(st)) /\ Cardinality(Ready(st)) \in Nat
         /\ st[t] # "READY" /\ v = "READY" =>
              Cardinality(Ready([st EXCEPT ![t] = v])) = Cardinality(Ready(st)) + 1
         /\ st[t] = "READY" /\ v # "READY" =>
              Cardinality(Ready([st EXCEPT ![t] = v])) = Cardinality(Ready(st)) - 1
         /\ st[t] # "READY" /\ v # "READY" => Ready([st EXCEPT ![t] = v]) = Ready(st)
<1> DEFINE R == Ready(st)
           S == Ready([st EXCEPT ![t] = v])
<1>1. IsFiniteSet(R)
  BY SchedAssumption, FS_Subset DEF Ready
<1>2. Cardinality(R) \in Nat
  BY <1>1, FS_CardinalityType
<1>3. ASSUME st[t] # "READY", v = "READY"
      PROVE  Cardinality(S) = Cardinality(R) + 1
  <2>1. S = R \cup {t} /\ t \notin R
    BY <1>3 DEF Ready
  <2> QED BY <1>1, <2>1, FS_AddElement
<1>4. ASSUME st[t] = "READY", v # "READY"
      PROVE  Cardinality(S) = Cardinality(R) - 1
  <2>1. S = R \ {t} /\ t \in R
    BY <1>4 DEF Ready
  <2> QED BY <1>1, <2>1, FS_RemoveElement
<1>5. ASSUME st[t] # "READY", v # "READY"
      PROVE  S = R
  BY <1>5 DEF Ready
<1> QED BY <1>1, <1>2, <1>3, <1>4, <1>5

(* enqueue(): a thread that becomes ready.                                 *)
LEMMA EnqueueExact ==
  ASSUME NEW q \in [Prio -> Seq(Thread)], NEW m, NEW n \in Int,
         NEW st \in [Thread -> States], NEW pr \in [Thread -> Prio],
         NEW t \in Thread, Exact(q, m, n, st, pr), st[t] # "READY"
  PROVE  LET q1 == [q EXCEPT ![pr[t]] = Append(@, t)]
         IN  /\ q1 \in [Prio -> Seq(Thread)]
             /\ Exact(q1, m \cup {pr[t]}, n + 1, [st EXCEPT ![t] = "READY"], pr)
<1> DEFINE q1 == [q EXCEPT ![pr[t]] = Append(@, t)]
           s1 == [st EXCEPT ![t] = "READY"]
<1>1. q1 \in [Prio -> Seq(Thread)]
  OBVIOUS
<1>2. pr[t] \in Prio /\ ~ InList(q[pr[t]], t)
  BY DEF Exact
<1>3. /\ Distinct(q1[pr[t]])
      /\ \A x : InList(q1[pr[t]], x) <=> InList(q[pr[t]], x) \/ x = t
  BY <1>2, AppendDistinct, AppendMembers DEF Exact
<1>4. ASSUME NEW p \in Prio
      PROVE  /\ Distinct(q1[p])
             /\ \A u \in Thread :
                  InList(q1[p], u) <=> s1[u] = "READY" /\ pr[u] = p
  <2>1. CASE p = pr[t]
    BY <2>1, <1>3 DEF Exact
  <2>2. CASE p # pr[t]
    <3>1. q1[p] = q[p]
      BY <2>2
    <3> QED BY <2>2, <3>1 DEF Exact
  <2> QED BY <2>1, <2>2
<1>5. m \cup {pr[t]} = {p \in Prio : q1[p] # << >>}
  <2>1. q1[pr[t]] # << >>
    BY <1>1, <1>2, <1>3, NoMembers
  <2>2. \A p \in Prio : p # pr[t] => q1[p] = q[p]
    OBVIOUS
  <2> QED BY <1>2, <2>1, <2>2 DEF Exact
<1>6. n + 1 = Cardinality(Ready(s1))
  BY ReadyCount DEF Exact, States
<1> QED BY <1>1, <1>4, <1>5, <1>6 DEF Exact

(* removeFirst() in perform(): a ready thread that starts to run.          *)
LEMMA TakeExact ==
  ASSUME NEW q \in [Prio -> Seq(Thread)], NEW m, NEW n \in Int,
         NEW st \in [Thread -> States], NEW pr \in [Thread -> Prio],
         NEW p \in Prio, Exact(q, m, n, st, pr), q[p] # << >>
  PROVE  LET t == Head(q[p])
             q1 == [q EXCEPT ![p] = Tail(@)]
         IN  /\ q1 \in [Prio -> Seq(Thread)]
             /\ t \in Thread /\ st[t] = "READY" /\ pr[t] = p
             /\ Exact(q1, IF q1[p] = << >> THEN m \ {p} ELSE m, n - 1,
                      [st EXCEPT ![t] = "RUNNING"], pr)
<1> DEFINE t == Head(q[p])
           q1 == [q EXCEPT ![p] = Tail(@)]
           s1 == [st EXCEPT ![t] = "RUNNING"]
<1>1. /\ Tail(q[p]) \in Seq(Thread) /\ t \in Thread /\ InList(q[p], t)
      /\ Distinct(Tail(q[p]))
      /\ \A x : InList(Tail(q[p]), x) <=> InList(q[p], x) /\ x # t
  BY TailMembers DEF Exact
<1>2. st[t] = "READY" /\ pr[t] = p
  BY <1>1 DEF Exact
<1>3. q1 \in [Prio -> Seq(Thread)]
  BY <1>1
<1>4. ASSUME NEW r \in Prio
      PROVE  /\ Distinct(q1[r])
             /\ \A u \in Thread :
                  InList(q1[r], u) <=> s1[u] = "READY" /\ pr[u] = r
  <2>1. CASE r = p
    <3>1. q1[r] = Tail(q[p])
      BY <2>1
    <3> QED BY <2>1, <3>1, <1>1 DEF Exact
  <2>2. CASE r # p
    <3>1. q1[r] = q[r]
      BY <2>2
    <3> QED BY <2>2, <3>1, <1>1, <1>2 DEF Exact
  <2> QED BY <2>1, <2>2
<1>5. (IF q1[p] = << >> THEN m \ {p} ELSE m) = {r \in Prio : q1[r] # << >>}
  <2>1. \A r \in Prio : r # p => q1[r] = q[r]
    OBVIOUS
  <2> QED BY <2>1 DEF Exact
<1>6. n - 1 = Cardinality(Ready(s1))
  BY <1>1, <1>2, ReadyCount DEF Exact, States
<1> QED BY <1>1, <1>2, <1>3, <1>4, <1>5, <1>6 DEF Exact

(* dequeue(), setPriority() and enqueue() in adjustPrio().                 *)
LEMMA RequeueExact ==
  ASSUME NEW q \in [Prio -> Seq(Thread)], NEW m, NEW n \in Int,
         NEW st \in [Thread -> States], NEW pr \in [Thread -> Prio],
         NEW t \in Thread, NEW p \in Prio,
         Exact(q, m, n, st, pr), st[t] = "READY"
  PROVE  LET q0 == [q EXCEPT ![pr[t]] = Unlink(@, t)]
             q1 == [q0 EXCEPT ![p] = Append(@, t)]
             m0 == IF q0[pr[t]] = << >> THEN m \ {pr[t]} ELSE m
         IN  /\ q1 \in [Prio -> Seq(Thread)]
             /\ Exact(q1, m0 \cup {p}, n, st, [pr EXCEPT ![t] = p])
<1> DEFINE o == pr[t]
           q0 == [q EXCEPT ![o] = Unlink(@, t)]
           q1 == [q0 EXCEPT ![p] = Append(@, t)]
           m0 == IF q0[o] = << >> THEN m \ {o} ELSE m
           pr1 == [pr EXCEPT ![t] = p]
<1>1. o \in Prio
  OBVIOUS
<1>2. /\ Unlink(q[o], t) \in Seq(Thread)
      /\ Distinct(Unlink(q[o], t))
      /\ \A x : InList(Unlink(q[o], t), x) <=> InList(q[o], x) /\ x # t
  BY <1>1, UnlinkMembers DEF Exact
<1>3. q0 \in [Prio -> Seq(Thread)]
  BY <1>1, <1>2
<1>4. ASSUME NEW r \in Prio
      PROVE  /\ Distinct(q0[r])
             /\ \A u \in Thread :
                  InList(q0[r], u) <=> st[u] = "READY" /\ pr[u] = r /\ u # t
  <2>1. CASE r = o
    BY <2>1, <1>1, <1>2 DEF Exact
  <2>2. CASE r # o
    <3>1. q0[r] = q[r]
      BY <2>2
    <3> QED BY <2>2, <3>1 DEF Exact
  <2> QED BY <2>1, <2>2
<1>5. m0 = {r \in Prio : q0[r] # << >>}
  <2>1. \A r \in Prio : r # o => q0[r] = q[r]
    OBVIOUS
  <2>2. q[o] # << >>
    <3>1. InList(q[o], t)
      BY <1>1 DEF Exact
    <3> QED BY <1>1, <3>1, NoMembers
  <2>3. m = {r \in Prio : q[r] # << >>}
    BY DEF Exact
  <2> HIDE DEF q0, o
  <2> QED BY <1>1, <2>1, <2>2, <2>3
<1> HIDE DEF q0, m0, o
<1>6. /\ Append(q0[p], t) \in Seq(Thread)
      /\ Distinct(Append(q0[p], t))
      /\ \A x : InList(Append(q0[p], t), x) <=> InList(q0[p], x) \/ x = t
  BY <1>3, <1>4, AppendDistinct, AppendMembers
<1>7. q1 \in [Prio -> Seq(Thread)]
  BY <1>3, <1>6
<1>8. ASSUME NEW r \in Prio
      PROVE  /\ Distinct(q1[r])
             /\ \A u \in Thread :
                  InList(q1[r], u) <=> st[u] = "READY" /\ pr1[u] = r
  <2>1. CASE r = p
    <3>1. q1[r] = Append(q0[p], t)
      BY <2>1, <1>3
    <3> QED BY <2>1, <3>1, <1>4, <1>6
  <2>2. CASE r # p
    <3>1. q1[r] = q0[r]
      BY <2>2, <1>3
    <3> QED BY <2>2, <3>1, <1>4
  <2> QED BY <2>1, <2>2
<1>9. m0 \cup {p} = {r \in Prio : q1[r] # << >>}
  <2>1. \A r \in Prio : r # p => q1[r] = q0[r]
    BY <1>3
  <2>2. q1[p] # << >>
    <3>1. q1[p] = Append(q0[p], t)
      BY <1>3
    <3> QED BY <3>1, <1>6, NoMembers
  <2> QED BY <2>1, <2>2, <1>5
<1> QED BY <1>7, <1>8, <1>9 DEF Exact, q0, m0, o

-----------------------------------------------------------------------------
(* The parts of the invariant that setReady() and removeFromEventlist()    *)
(* touch.                                                                  *)

(* removeFromEventlist() keeps the event lists exact.                      *)
LEMMA RemoveFromEventlistEffect ==
  ASSUME TypeOK, EventsExact, NEW t \in Thread, RemoveFromEventlist(t)
  PROVE  /\ event' \in [Thread -> Event \cup {NoEvent}]
         /\ evlists' \in [Event -> Seq(Thread)]
         /\ event'[t] = NoEvent
         /\ \A u \in Thread : u # t => event'[u] = event[u]
         /\ \A e \in Event :
              /\ Distinct(evlists'[e])
              /\ \A u \in Thread : InList(evlists'[e], u) <=> event'[u] = e
<1>1. /\ event' \in [Thread -> Event \cup {NoEvent}]
      /\ event'[t] = NoEvent
      /\ \A u \in Thread : u # t => event'[u] = event[u]
  BY DEF TypeOK, RemoveFromEventlist
<1>2. CASE event[t] = NoEvent
  BY <1>1, <1>2 DEF TypeOK, EventsExact, RemoveFromEventlist
<1>3. CASE event[t] # NoEvent
  <2> DEFINE v == event[t]
  <2>1. v \in Event /\ evlists' = [evlists EXCEPT ![v] = Unlink(@, t)]
    BY <1>3 DEF TypeOK, RemoveFromEventlist
  <2>2. evlists \in [Event -> Seq(Thread)] /\ Distinct(evlists[v])
    BY <2>1 DEF TypeOK, EventsExact
  <2>3. /\ Unlink(evlists[v], t) \in Seq(Thread)
        /\ Distinct(Unlink(evlists[v], t))
        /\ \A x : InList(Unlink(evlists[v], t), x)
                    <=> InList(evlists[v], x) /\ x # t
    BY <2>1, <2>2, UnlinkMembers
  <2>4. evlists' \in [Event -> Seq(Thread)]
    BY <2>1, <2>2, <2>3
  <2>5. ASSUME NEW e \in Event
        PROVE  /\ Distinct(evlists'[e])
               /\ \A u \in Thread : InList(evlists'[e], u) <=> event'[u] = e
    <3>1. CASE e = v
      <4>1. evlists'[e] = Unlink(evlists[v], t)
        BY <3>1, <2>1, <2>2
      <4> QED BY <3>1, <4>1, <2>1, <2>3, <1>1, SchedAssumption DEF EventsExact
    <3>2. CASE e # v
      <4>1. evlists'[e] = evlists[e]
        BY <3>2, <2>1, <2>2
      <4> QED BY <3>2, <4>1, <1>1, SchedAssumption DEF EventsExact
    <3> QED BY <3>1, <3>2
  <2> QED BY <1>1, <2>4, <2>5
<1> QED BY <1>2, <1>3

(* setReady() keeps the queues, the event lists and the processors exact   *)
(* and makes a blocked thread ready.                                       *)
LEMMA SetReadyEffect ==
  ASSUME TypeOK, QueuesExact, EventsExact, OneCPUPerThread,
         NEW t \in Thread, SetReady(t), UNCHANGED <<priority, running>>
  PROVE  /\ state' \in [Thread -> States]
         /\ newState' \in [Thread -> States \ {"RUNNING"}]
         /\ event' \in [Thread -> Event \cup {NoEvent}]
         /\ evobject' \in [Thread -> Object \cup {NoObject}]
         /\ rdyQueues' \in [Prio -> Seq(Thread)]
         /\ readyMask' \in SUBSET Prio
         /\ rdyCount' \in Int
         /\ evlists' \in [Event -> Seq(Thread)]
         /\ QueuesExact' /\ EventsExact' /\ OneCPUPerThread'
         /\ state'[t] # "BLOCKED"
         /\ state'[t] = "RUNNING" => newState'[t] = "READY"
         /\ \A u \in Thread : u # t =>
              /\ state'[u] = state[u] /\ newState'[u] = newState[u]
              /\ event'[u] = event[u]
<1>1. CASE state[t] = "RUNNING"
  <2>1. /\ RemoveFromEventlist(t)
        /\ newState' = [newState EXCEPT ![t] = "READY"]
        /\ UNCHANGED <<state, evobject, rdyQueues, readyMask, rdyCount>>
    BY <1>1 DEF SetReady, queueVars
  <2>2. /\ event' \in [Thread -> Event \cup {NoEvent}]
        /\ evlists' \in [Event -> Seq(Thread)]
        /\ event'[t] = NoEvent
        /\ \A u \in Thread : u # t => event'[u] = event[u]
        /\ \A e \in Event :
             /\ Distinct(evlists'[e])
             /\ \A u \in Thread : InList(evlists'[e], u) <=> event'[u] = e
    BY <2>1, RemoveFromEventlistEffect
  <2>3. QueuesExact'
    BY <2>1 DEF QueuesExact, Exact, Ready
  <2>4. EventsExact'
    BY <2>1, <2>2 DEF EventsExact, TypeOK, States
  <2>5. OneCPUPerThread'
    BY <2>1 DEF OneCPUPerThread
  <2>6. /\ newState' \in [Thread -> States \ {"RUNNING"}]
        /\ newState'[t] = "READY"
        /\ \A u \in Thread : u # t => newState'[u] = newState[u]
    BY <2>1 DEF TypeOK, States
  <2>7. /\ state' \in [Thread -> States]
        /\ evobject' \in [Thread -> Object \cup {NoObject}]
        /\ rdyQueues' \in [Prio -> Seq(Thread)]
        /\ readyMask' \in SUBSET Prio
        /\ rdyCount' \in Int
    BY <2>1 DEF TypeOK
  <2> QED BY <1>1, <2>1, <2>2, <2>3, <2>4, <2>5, <2>6, <2>7
<1>2. CASE state[t] = "BLOCKED"
  <2>1. /\ RemoveFromEventlist(t)
        /\ state' = [state EXCEPT ![t] = "READY"]
        /\ Enqueue(t)
        /\ UNCHANGED <<newState, evobject>>
    BY <1>2 DEF SetReady
  <2>2. /\ event' \in [Thread -> Event \cup {NoEvent}]
        /\ evlists' \in [Event -> Seq(Thread)]
        /\ event'[t] = NoEvent
        /\ \A u \in Thread : u # t => event'[u] = event[u]
        /\ \A e \in Event :
             /\ Distinct(evlists'[e])
             /\ \A u \in Thread : InList(evlists'[e], u) <=> event'[u] = e
    BY <2>1, RemoveFromEventlistEffect
  <2>3. rdyQueues' \in [Prio -> Seq(Thread)] /\ QueuesExact'
    BY <1>2, <2>1, EnqueueExact DEF Enqueue, QueuesExact, TypeOK
  <2>4. EventsExact'
    BY <2>1, <2>2 DEF EventsExact, TypeOK, States
  <2>5. OneCPUPerThread'
    BY <1>2, <2>1 DEF OneCPUPerThread, TypeOK
  <2>6. /\ state' \in [Thread -> States] /\ state'[t] = "READY"
        /\ \A u \in Thread : u # t => state'[u] = state[u]
    BY <2>1 DEF TypeOK, States
  <2>7. readyMask' \in SUBSET Prio /\ rdyCount' \in Int
    BY <2>1 DEF TypeOK, Enqueue
  <2>8. /\ newState' \in [Thread -> States \ {"RUNNING"}]
        /\ evobject' \in [Thread -> Object \cup {NoObject}]
        /\ \A u \in Thread : newState'[u] = newState[u]
    BY <2>1 DEF TypeOK
  <2> QED BY <2>2, <2>3, <2>4, <2>5, <2>6, <2>7, <2>8
<1>3. CASE state[t] \notin {"RUNNING", "BLOCKED"}
  <2>1. UNCHANGED <<state, newState, event, evobject, evlists, rdyQueues,
                    readyMask, rdyCount>>
    BY <1>3 DEF SetReady, thVars, queueVars
  <2> QED BY <1>3, <2>1 DEF TypeOK, QueuesExact, Exact, Ready, EventsExact,
                          OneCPUPerThread
<1> QED BY <1>1, <1>2, <1>3

-----------------------------------------------------------------------------
(* Every action preserves the invariant.                                   *)

(* The initial state: the first thread runs, nothing is queued.            *)
LEMMA InitInd == Init => IndInv
<1> SUFFICES ASSUME Init PROVE IndInv
  OBVIOUS
<1>1. TypeOK
  <2>1. wk \in [event : Event \cup {NoEvent}, object : Object \cup {NoObject},
                all : BOOLEAN, pos : Nat]
    BY DEF Init, NoWakeup
  <2>2. /\ priority \in [Thread -> Prio]
        /\ prioGoodCnt \in [Thread -> 0 .. ForgiveCnt - 1]
    BY SchedAssumption DEF Init, Prio
  <2>3. /\ rdyQueues \in [Prio -> Seq(Thread)]
        /\ evlists \in [Event -> Seq(Thread)]
    BY DEF Init
  <2> QED BY <2>1, <2>2, <2>3, SchedAssumption DEF Init, TypeOK, States, Contexts
<1>2. QueuesExact
  <2>1. Ready(state) = {}
    BY DEF Init, Ready
  <2>2. Cardinality(Ready(state)) = 0
    BY <2>1, FS_EmptySet
  <2>3. \A p \in Prio : Distinct(rdyQueues[p]) /\ \A t \in Thread : ~ InList(rdyQueues[p], t)
    BY DEF Init, Distinct, InList
  <2> QED BY <2>2, <2>3 DEF Init, QueuesExact, Exact
<1>3. EventsExact
  BY SchedAssumption DEF Init, EventsExact, Distinct, InList
<1>4. OneCPUPerThread
  BY SchedAssumption DEF Init, OneCPUPerThread
<1>5. Coherent /\ NoLostSignal
  BY DEF Init, Coherent, NoLostSignal, HasSignal, Unlocked
<1> QED BY <1>1, <1>2, <1>3, <1>4, <1>5 DEF IndInv

(* Steps that leave the states and the queues alone.                       *)
LEMMA QuietQueues ==
  ASSUME QueuesExact, OneCPUPerThread,
         UNCHANGED <<state, priority, rdyQueues, readyMask, rdyCount, running>>
  PROVE  QueuesExact' /\ OneCPUPerThread'
BY DEF QueuesExact, Exact, Ready, OneCPUPerThread

(* Sched::wait links the running thread into the list of the event.        *)
LEMMA WaitInd ==
  ASSUME IndInv, NEW t \in Thread, NEW e \in Event,
         NEW o \in Object \cup {NoObject}, Wait(t, e, o)
  PROVE  IndInv'
<1> USE DEF IndInv
<1>1. state[t] = "RUNNING" /\ newState[t] = "READY" /\ event[t] = NoEvent
  BY DEF Wait, Coherent, EventsExact
<1>2. /\ evlists \in [Event -> Seq(Thread)]
      /\ Distinct(evlists[e]) /\ ~ InList(evlists[e], t)
  BY <1>1, SchedAssumption DEF EventsExact, TypeOK
<1>3. /\ Append(evlists[e], t) \in Seq(Thread)
      /\ Distinct(Append(evlists[e], t))
      /\ \A x : InList(Append(evlists[e], t), x) <=> InList(evlists[e], x) \/ x = t
  BY <1>2, AppendDistinct, AppendMembers
<1>4. evlists' = [evlists EXCEPT ![e] = Append(evlists[e], t)]
  BY DEF Wait
<1>5. TypeOK'
  <2>1. evlists' \in [Event -> Seq(Thread)]
    BY <1>2, <1>3, <1>4
  <2> QED BY <2>1 DEF TypeOK, Wait, SetBlocked, States, Contexts, sigVars,
                      prioVars, queueVars
<1>6. QueuesExact' /\ OneCPUPerThread'
  BY QuietQueues DEF Wait, prioVars, queueVars
<1>7. EventsExact'
  <2>1. event' = [event EXCEPT ![t] = e] /\ newState' = [newState EXCEPT ![t] = "BLOCKED"]
        /\ state' = state
    BY DEF Wait, SetBlocked
  <2>2. ASSUME NEW f \in Event
        PROVE  /\ Distinct(evlists'[f])
               /\ \A u \in Thread : InList(evlists'[f], u) <=> event'[u] = f
    <3>1. CASE f = e
      <4>1. evlists'[f] = Append(evlists[e], t)
        BY <3>1, <1>2, <1>4
      <4> QED BY <3>1, <4>1, <1>3, <2>1 DEF EventsExact, TypeOK
    <3>2. CASE f # e
      <4>1. evlists'[f] = evlists[f]
        BY <3>2, <1>2, <1>4
      <4> QED BY <3>2, <4>1, <1>1, <2>1, SchedAssumption DEF EventsExact, TypeOK
    <3> QED BY <3>1, <3>2
  <2>3. \A u \in Thread : event'[u] # NoEvent =>
          \/ state'[u] = "BLOCKED"
          \/ state'[u] = "RUNNING" /\ newState'[u] = "BLOCKED"
    BY <2>1, <1>1 DEF EventsExact, TypeOK
  <2> QED BY <2>2, <2>3 DEF EventsExact
<1>8. Coherent'
  BY DEF Coherent, Wait, SetBlocked, TypeOK, sigVars, Unlocked
<1>9. NoLostSignal'
  BY DEF NoLostSignal, HasSignal, Wait, sigVars
<1> QED BY <1>5, <1>6, <1>7, <1>8, <1>9

(* The other operations of the running thread on itself.                   *)
LEMMA OwnStepInd ==
  ASSUME IndInv, NEW t \in Thread,
         Block(t) \/ BeginNoSigs(t) \/ EndNoSigs(t) \/ Terminate(t)
           \/ HandleSignal(t)
  PROVE  IndInv'
<1> USE DEF IndInv
<1>1. /\ state[t] = "RUNNING"
      /\ ctx[t] = "run" => newState[t] = "READY" /\ event[t] = NoEvent
      /\ UNCHANGED <<state, event, evobject, priority, prioGoodCnt, rdyQueues,
                     readyMask, rdyCount, evlists, running, wk, signalling>>
  BY DEF Block, BeginNoSigs, EndNoSigs, Terminate, HandleSignal, Coherent,
         EventsExact, prioVars, queueVars, thVars, sigVars
<1>2. TypeOK'
  BY <1>1 DEF TypeOK, Block, SetBlocked, BeginNoSigs, EndNoSigs, Terminate,
         HandleSignal, States, Contexts, thVars, sigVars
<1>3. QueuesExact' /\ OneCPUPerThread'
  BY <1>1, QuietQueues
<1>4. EventsExact'
  BY <1>1 DEF EventsExact, Block, SetBlocked, BeginNoSigs, EndNoSigs, Terminate,
         HandleSignal, thVars, TypeOK
<1>5. Coherent'
  BY <1>1 DEF Coherent, Block, SetBlocked, BeginNoSigs, EndNoSigs, Terminate,
         HandleSignal, thVars, TypeOK, Unlocked
<1>6. NoLostSignal'
  <2>1. \A u \in Thread : u # t =>
          ignSigs'[u] = ignSigs[u] /\ sigmask'[u] = sigmask[u]
    BY DEF Block, BeginNoSigs, EndNoSigs, Terminate, HandleSignal, sigVars, TypeOK
  <2> QED BY <1>1, <2>1 DEF NoLostSignal, HasSignal
<1> QED BY <1>2, <1>3, <1>4, <1>5, <1>6

(* Thread::create and Thread::kill: a thread that neither runs nor is      *)
(* queued appears or vanishes.                                             *)
LEMMA CreateInd ==
  ASSUME IndInv, NEW t \in Thread, NEW p \in Prio, Create(t, p)
  PROVE  IndInv'
<1> USE DEF IndInv
<1>1. state[t] = "BLOCKED" /\ event[t] = NoEvent /\ t \notin signalling
  BY DEF Create, Coherent
<1>2. state' = state /\ event' = event
  BY <1>1 DEF Create, TypeOK
<1>3. TypeOK'
  BY SchedAssumption DEF TypeOK, Create, States, Contexts, queueVars
<1>4. QueuesExact'
  <2>1. \A u \in Thread : u # t => priority'[u] = priority[u]
    BY DEF Create, TypeOK
  <2>2. Ready(state') = Ready(state) /\ UNCHANGED <<rdyQueues, readyMask, rdyCount>>
    BY <1>2 DEF Ready, Create, queueVars
  <2>3. \A u \in Thread, r \in Prio :
          state'[u] = "READY" /\ priority'[u] = r
            <=> state[u] = "READY" /\ priority[u] = r
    BY <1>1, <1>2, <2>1
  <2> QED BY <2>2, <2>3 DEF QueuesExact, Exact
<1>5. EventsExact' /\ OneCPUPerThread'
  BY <1>1, <1>2 DEF EventsExact, OneCPUPerThread, Create, TypeOK
<1>6. Coherent' /\ NoLostSignal'
  BY <1>1, <1>2 DEF Coherent, NoLostSignal, HasSignal, Create, TypeOK, Unlocked
<1> QED BY <1>3, <1>4, <1>5, <1>6

LEMMA KillInd ==
  ASSUME IndInv, NEW t \in Thread, NEW o \in Object, Kill(t, o)
  PROVE  IndInv'
<1> USE DEF IndInv
<1>1. state[t] = "ZOMBIE" /\ event[t] = NoEvent /\ t \notin signalling
  BY DEF Kill, EventsExact
<1>2. /\ state' = [state EXCEPT ![t] = "BLOCKED"]
      /\ UNCHANGED <<event, evlists, running, rdyQueues, readyMask, rdyCount,
                     signalling>>
  BY DEF Kill, queueVars
<1>3. TypeOK'
  <2>1. wk' \in [event : Event \cup {NoEvent}, object : Object \cup {NoObject},
                 all : BOOLEAN, pos : Nat]
    BY SchedAssumption DEF Kill
  <2>2. MaxPrio \in Prio /\ 0 \in 0 .. ForgiveCnt - 1
    BY SchedAssumption DEF Prio
  <2> QED BY <2>1, <2>2 DEF TypeOK, Kill, States, Contexts, queueVars
<1>4. QueuesExact'
  <2>1. \A u \in Thread : u # t => priority'[u] = priority[u] /\ state'[u] = state[u]
    BY DEF Kill, TypeOK
  <2>2. state'[t] = "BLOCKED"
    BY <1>2 DEF TypeOK
  <2>3. Ready(state') = Ready(state)
    BY <1>1, <2>1, <2>2 DEF Ready
  <2>4. \A u \in Thread, r \in Prio :
          state'[u] = "READY" /\ priority'[u] = r
            <=> state[u] = "READY" /\ priority[u] = r
    BY <1>1, <2>1, <2>2
  <2> QED BY <1>2, <2>3, <2>4 DEF QueuesExact, Exact
<1>5. EventsExact' /\ OneCPUPerThread'
  BY <1>1, <1>2 DEF EventsExact, OneCPUPerThread, Kill, TypeOK
<1>6. Coherent'
  BY <1>1, <1>2, SchedAssumption DEF Coherent, Kill, TypeOK, Unlocked
<1>7. NoLostSignal'
  BY <1>1, <1>2 DEF NoLostSignal, HasSignal, Kill, TypeOK
<1> QED BY <1>3, <1>4, <1>5, <1>6, <1>7

(* Sched::unblock and the second step of addSignalFor.                     *)
LEMMA UnblockInd ==
  ASSUME IndInv, NEW t \in Thread, Unblock(t)
  PROVE  IndInv'
<1> USE DEF IndInv
<1>1. /\ SetReady(t) /\ ctx[t] # "none"
      /\ UNCHANGED <<priority, prioGoodCnt, ignSigs, sigmask, signalling, ctx,
                     running, wk>>
  BY DEF Unblock, prioVars, sigVars
<1>2. TypeOK'
  BY <1>1, SetReadyEffect DEF TypeOK
<1>3. QueuesExact' /\ EventsExact' /\ OneCPUPerThread'
  BY <1>1, SetReadyEffect
<1>4. /\ state'[t] # "BLOCKED"
      /\ state'[t] = "RUNNING" => newState'[t] = "READY"
      /\ \A u \in Thread : u # t =>
           /\ state'[u] = state[u] /\ newState'[u] = newState[u]
           /\ event'[u] = event[u]
  BY <1>1, SetReadyEffect
<1>5. Coherent'
  BY <1>1, <1>4 DEF Coherent, Unlocked
<1>6. NoLostSignal'
  BY <1>1, <1>4 DEF NoLostSignal, HasSignal
<1> QED BY <1>2, <1>3, <1>5, <1>6

LEMMA SignalUnblockInd ==
  ASSUME IndInv, NEW t \in Thread, SignalUnblock(t)
  PROVE  IndInv'
<1> USE DEF IndInv
<1>1. /\ ctx[t] # "none" /\ signalling' = signalling \ {t}
      /\ UNCHANGED <<priority, prioGoodCnt, ignSigs, sigmask, ctx, running, wk>>
  BY DEF SignalUnblock, prioVars, Coherent
<1>2. CASE ignSigs[t]
  <2>1. UNCHANGED <<state, newState, event, evobject, evlists, rdyQueues,
                    readyMask, rdyCount>>
    BY <1>2 DEF SignalUnblock, thVars, queueVars
  <2>2. TypeOK'
    BY <1>1, <2>1 DEF TypeOK
  <2>3. QueuesExact' /\ OneCPUPerThread'
    BY <1>1, <2>1, QuietQueues
  <2>4. EventsExact' /\ Coherent' /\ NoLostSignal'
    BY <1>1, <1>2, <2>1 DEF EventsExact, Coherent, NoLostSignal, HasSignal, Unlocked
  <2> QED BY <2>2, <2>3, <2>4
<1>3. CASE ~ ignSigs[t]
  <2>1. SetReady(t)
    BY <1>3 DEF SignalUnblock
  <2>2. TypeOK'
    BY <1>1, <2>1, SetReadyEffect DEF TypeOK
  <2>3. QueuesExact' /\ EventsExact' /\ OneCPUPerThread'
    BY <1>1, <2>1, SetReadyEffect
  <2>4. /\ state'[t] # "BLOCKED"
        /\ state'[t] = "RUNNING" => newState'[t] = "READY"
        /\ \A u \in Thread : u # t =>
             /\ state'[u] = state[u] /\ newState'[u] = newState[u]
             /\ event'[u] = event[u]
    BY <1>1, <2>1, SetReadyEffect
  <2>5. Coherent'
    BY <1>1, <2>4 DEF Coherent, Unlocked
  <2>6. NoLostSignal'
    BY <1>1, <2>4 DEF NoLostSignal, HasSignal
  <2> QED BY <2>2, <2>3, <2>5, <2>6
<1> QED BY <1>2, <1>3

(* The first step of addSignalFor, and the start of wakeup().              *)
LEMMA AddSignalInd ==
  ASSUME IndInv, NEW t \in Thread, AddSignal(t)
  PROVE  IndInv'
<1> USE DEF IndInv
<1>1. UNCHANGED <<state, newState, event, evobject, priority, prioGoodCnt, ignSigs,
                  rdyQueues, readyMask, rdyCount, ctx, evlists, running, wk>>
  BY DEF AddSignal, thVars, prioVars, queueVars
<1>2. TypeOK'
  BY <1>1 DEF TypeOK, AddSignal
<1>3. QueuesExact' /\ OneCPUPerThread'
  BY <1>1, QuietQueues
<1>4. EventsExact' /\ Coherent'
  BY <1>1 DEF EventsExact, Coherent, AddSignal, Exists, Unlocked
<1>5. NoLostSignal'
  BY <1>1 DEF NoLostSignal, HasSignal, AddSignal, TypeOK
<1> QED BY <1>2, <1>3, <1>4, <1>5

LEMMA WakeupInd ==
  ASSUME IndInv, NEW e \in Event, NEW o \in Object \cup {NoObject},
         Wakeup(e, o, TRUE)
  PROVE  IndInv'
<1> USE DEF IndInv
<1>1. UNCHANGED <<state, newState, event, evobject, priority, prioGoodCnt, ignSigs,
                  sigmask, signalling, rdyQueues, readyMask, rdyCount, ctx,
                  evlists, running>>
  BY DEF Wakeup, thVars, prioVars, sigVars, queueVars
<1>2. TypeOK'
  BY <1>1 DEF TypeOK, Wakeup
<1>3. QueuesExact' /\ OneCPUPerThread'
  BY <1>1, QuietQueues
<1>4. EventsExact' /\ Coherent' /\ NoLostSignal'
  BY <1>1 DEF EventsExact, Coherent, NoLostSignal, HasSignal, Wakeup
<1> QED BY <1>2, <1>3, <1>4

(* One step of the walk in wakeup().                                       *)
LEMMA WakeupStepInd ==
  ASSUME IndInv, WakeupStep
  PROVE  IndInv'
<1> USE DEF IndInv
<1> DEFINE list == evlists[wk.event]
           t == list[wk.pos]
<1>1. /\ wk.event \in Event /\ wk.pos \in Nat /\ wk.pos > 0
      /\ UNCHANGED <<priority, prioGoodCnt, ignSigs, sigmask, signalling, ctx,
                     running>>
  BY DEF WakeupStep, Coherent, prioVars, sigVars, TypeOK
<1>2. /\ wk' \in [event : Event \cup {NoEvent}, object : Object \cup {NoObject},
                  all : BOOLEAN, pos : Nat]
      /\ Unlocked' \/ (wk'.event \in Event /\ wk'.pos > 0)
  <2>1. wk' = NoWakeup \/ wk' = wk \/ wk' = [wk EXCEPT !.pos = @ + 1]
    BY DEF WakeupStep, Resume
  <2>2. NoWakeup \in [event : Event \cup {NoEvent}, object : Object \cup {NoObject},
                      all : BOOLEAN, pos : Nat]
    BY DEF NoWakeup
  <2>3. CASE wk' = NoWakeup
    BY <2>2, <2>3 DEF Unlocked
  <2>4. CASE wk' = wk
    BY <1>1, <2>4 DEF TypeOK
  <2>5. CASE wk' = [wk EXCEPT !.pos = @ + 1]
    <3>1. wk \in [event : Event \cup {NoEvent}, object : Object \cup {NoObject},
                  all : BOOLEAN, pos : Nat]
      BY DEF TypeOK
    <3>2. wk' = [event |-> wk.event, object |-> wk.object, all |-> wk.all,
                 pos |-> wk.pos + 1]
      BY <2>5, <3>1
    <3>3. wk.object \in Object \cup {NoObject} /\ wk.all \in BOOLEAN
      BY <3>1
    <3>4. wk.pos + 1 \in Nat /\ wk.pos + 1 > 0
      BY <1>1
    <3> QED BY <1>1, <3>2, <3>3, <3>4
  <2> QED BY <2>1, <2>3, <2>4, <2>5
<1>3. CASE UNCHANGED <<thVars, evlists, queueVars>>
  <2>1. UNCHANGED <<state, newState, event, evobject, evlists, rdyQueues,
                    readyMask, rdyCount>>
    BY <1>3 DEF thVars, queueVars
  <2>2. TypeOK'
    BY <1>1, <1>2, <2>1 DEF TypeOK
  <2>3. QueuesExact' /\ OneCPUPerThread'
    BY <1>1, <2>1, QuietQueues
  <2>4. EventsExact' /\ Coherent' /\ NoLostSignal'
    BY <1>1, <1>2, <2>1 DEF EventsExact, Coherent, NoLostSignal, HasSignal
  <2> QED BY <2>2, <2>3, <2>4
<1>4. CASE ~ (wk.pos > Len(list)) /\ SetReady(t)
  <2>1. t \in Thread /\ InList(list, t)
    BY <1>1, <1>4 DEF TypeOK, InList
  <2>2. event[t] = wk.event /\ ctx[t] # "none"
    BY <1>1, <2>1, SchedAssumption DEF EventsExact, Coherent
  <2> HIDE DEF t
  <2>3. TypeOK'
    BY <1>1, <1>2, <1>4, <2>1, SetReadyEffect DEF TypeOK
  <2>4. QueuesExact' /\ EventsExact' /\ OneCPUPerThread'
    BY <1>1, <1>4, <2>1, SetReadyEffect
  <2>5. /\ state'[t] # "BLOCKED"
        /\ state'[t] = "RUNNING" => newState'[t] = "READY"
        /\ \A u \in Thread : u # t =>
             /\ state'[u] = state[u] /\ newState'[u] = newState[u]
             /\ event'[u] = event[u]
    BY <1>1, <1>4, <2>1, SetReadyEffect
  <2>6. Coherent'
    BY <1>1, <1>2, <2>2, <2>5 DEF Coherent
  <2>7. NoLostSignal'
    BY <1>1, <2>5 DEF NoLostSignal, HasSignal
  <2> QED BY <2>3, <2>4, <2>6, <2>7
<1> QED BY <1>1, <1>3, <1>4 DEF WakeupStep

(* Sched::adjustPrio moves a ready thread to the queue of its new          *)
(* priority.                                                               *)
LEMMA AdjustPrioInd ==
  ASSUME IndInv, NEW t \in Thread, NEW b \in BlockedTime, AdjustPrio(t, b)
  PROVE  IndInv'
<1> USE DEF IndInv
<1>1. UNCHANGED <<state, newState, event, evobject, ignSigs, sigmask, signalling,
                  rdyCount, ctx, evlists, running, wk>>
  BY DEF AdjustPrio, thVars, sigVars
<1>2. prioGoodCnt' \in [Thread -> 0 .. ForgiveCnt - 1]
  <2>1. /\ ForgiveCnt \in Nat \ {0}
        /\ prioGoodCnt \in [Thread -> 0 .. ForgiveCnt - 1]
        /\ priority[t] \in Int /\ MaxPrio \in Nat
    BY SchedAssumption DEF TypeOK, Prio
  <2>2. \E v \in 0 .. ForgiveCnt - 1 : prioGoodCnt' = [prioGoodCnt EXCEPT ![t] = v]
    <3> DEFINE v == GoodCnt(t, b)
    <3>1. prioGoodCnt' = [prioGoodCnt EXCEPT ![t] = v]
      BY DEF AdjustPrio
    <3>2. prioGoodCnt[t] \in 0 .. ForgiveCnt - 1
      BY <2>1
    <3>3. v \in 0 .. ForgiveCnt - 1
      BY <2>1, <3>2 DEF GoodCnt, Good, Forgive
    <3> QED BY <3>1, <3>3
  <2> QED BY <2>1, <2>2
<1>3. CASE UNCHANGED <<priority, rdyQueues, readyMask>>
  <2>1. QueuesExact' /\ OneCPUPerThread'
    BY <1>1, <1>3, QuietQueues
  <2>2. TypeOK'
    BY <1>1, <1>2, <1>3 DEF TypeOK
  <2>3. EventsExact' /\ Coherent' /\ NoLostSignal'
    BY <1>1 DEF EventsExact, Coherent, NoLostSignal, HasSignal, Unlocked
  <2> QED BY <2>1, <2>2, <2>3
<1>4. ASSUME NEW p \in Prio, SetPriority(t, p)
      PROVE  IndInv'
  <2>1. priority' = [priority EXCEPT ![t] = p] /\ priority' \in [Thread -> Prio]
    BY <1>4 DEF SetPriority, TypeOK
  <2>2. /\ rdyQueues' \in [Prio -> Seq(Thread)]
        /\ QueuesExact'
    <3>1. CASE state[t] = "READY"
      <4> DEFINE q0 == [rdyQueues EXCEPT ![priority[t]] = Unlink(@, t)]
                 q1 == [q0 EXCEPT ![p] = Append(@, t)]
                 m0 == IF q0[priority[t]] = << >> THEN readyMask \ {priority[t]}
                                                  ELSE readyMask
      <4>1. /\ rdyQueues \in [Prio -> Seq(Thread)] /\ rdyCount \in Int
            /\ state \in [Thread -> States] /\ priority \in [Thread -> Prio]
            /\ Exact(rdyQueues, readyMask, rdyCount, state, priority)
        BY DEF TypeOK, QueuesExact
      <4>2. /\ q1 \in [Prio -> Seq(Thread)]
            /\ Exact(q1, m0 \cup {p}, rdyCount, state, [priority EXCEPT ![t] = p])
        BY <3>1, <4>1, RequeueExact
      <4>3. rdyQueues' = q1 /\ readyMask' = m0 \cup {p}
        BY <1>4, <3>1 DEF SetPriority
      <4> HIDE DEF q1, m0
      <4> QED BY <1>1, <2>1, <4>2, <4>3 DEF QueuesExact
    <3>2. CASE state[t] # "READY"
      <4>1. UNCHANGED <<rdyQueues, readyMask>>
        BY <1>4, <3>2 DEF SetPriority
      <4>2. \A u \in Thread, r \in Prio :
              state'[u] = "READY" /\ priority'[u] = r
                <=> state[u] = "READY" /\ priority[u] = r
        BY <1>1, <2>1, <3>2 DEF TypeOK
      <4>3. Ready(state') = Ready(state)
        BY <1>1
      <4> QED BY <1>1, <4>1, <4>2, <4>3 DEF QueuesExact, Exact, TypeOK
    <3> QED BY <3>1, <3>2
  <2>3. readyMask' \in SUBSET Prio
    BY <2>2 DEF QueuesExact, Exact
  <2>4. TypeOK'
    BY <1>1, <1>2, <2>1, <2>2, <2>3 DEF TypeOK
  <2>5. EventsExact' /\ Coherent' /\ NoLostSignal' /\ OneCPUPerThread'
    BY <1>1 DEF EventsExact, Coherent, NoLostSignal, HasSignal, Unlocked,
                OneCPUPerThread
  <2> QED BY <2>2, <2>4, <2>5
<1>5. \/ UNCHANGED <<priority, rdyQueues, readyMask>>
      \/ priority[t] > 0 /\ SetPriority(t, priority[t] - 1)
      \/ priority[t] < MaxPrio /\ SetPriority(t, priority[t] + 1)
  BY DEF AdjustPrio, Forgive, Good
<1>6. priority[t] \in Int /\ priority[t] >= 0 /\ priority[t] <= MaxPrio /\ MaxPrio \in Nat
  BY SchedAssumption DEF TypeOK, Prio
<1>7. /\ priority[t] > 0 => priority[t] - 1 \in Prio
      /\ priority[t] < MaxPrio => priority[t] + 1 \in Prio
  BY <1>6 DEF Prio
<1> QED BY <1>3, <1>4, <1>5, <1>7

(* perform() with a pending signal.                                        *)
LEMMA KeepSignalledInd ==
  ASSUME IndInv, NEW c \in CPU, KeepSignalled(c)
  PROVE  IndInv'
<1> USE DEF IndInv
<1> DEFINE t == running[c]
<1>1. /\ t \in Thread /\ state[t] = "RUNNING"
      /\ UNCHANGED <<state, evobject, priority, prioGoodCnt, ignSigs, sigmask,
                     signalling, rdyQueues, readyMask, rdyCount, running, wk>>
  BY DEF KeepSignalled, Interrupted, OneCPUPerThread, prioVars, sigVars, queueVars
<1>2. RemoveFromEventlist(t) /\ newState' = [newState EXCEPT ![t] = "READY"]
  BY DEF KeepSignalled
<1>3. ctx' = [ctx EXCEPT ![t] = After(t)] /\ After(t) \in Contexts /\ ctx[t] # "none"
  BY <1>1 DEF KeepSignalled, After, TypeOK, Contexts, Coherent
<1>4. After(t) # "none"
  BY <1>3 DEF After
<1> HIDE DEF t
<1>5. /\ event' \in [Thread -> Event \cup {NoEvent}]
      /\ evlists' \in [Event -> Seq(Thread)]
      /\ event'[t] = NoEvent
      /\ \A u \in Thread : u # t => event'[u] = event[u]
      /\ \A e \in Event :
           /\ Distinct(evlists'[e])
           /\ \A u \in Thread : InList(evlists'[e], u) <=> event'[u] = e
  BY <1>1, <1>2, RemoveFromEventlistEffect
<1>6. newState'[t] = "READY" /\ \A u \in Thread : u # t => newState'[u] = newState[u]
  BY <1>1, <1>2 DEF TypeOK
<1>7. TypeOK'
  BY <1>1, <1>2, <1>3, <1>5 DEF TypeOK, States
<1>8. QueuesExact' /\ OneCPUPerThread'
  BY <1>1, QuietQueues
<1>9. EventsExact'
  BY <1>1, <1>5, <1>6 DEF EventsExact
<1>10. Coherent'
  BY <1>1, <1>3, <1>4, <1>5, <1>6 DEF Coherent, Unlocked, TypeOK
<1>11. NoLostSignal'
  BY <1>1 DEF NoLostSignal, HasSignal
<1> QED BY <1>7, <1>8, <1>9, <1>10, <1>11

(* The state of the scheduler once the old thread has left the processor:  *)
(* still exact, and only the old thread has changed.                       *)
LEMMA LeaveExact ==
  ASSUME IndInv, NEW c \in CPU
  PROVE  /\ StateOf(c) \in [Thread -> States]
         /\ QueuesOf(c) \in [Prio -> Seq(Thread)]
         /\ CountOf(c) \in Int
         /\ MaskOf(c) \in SUBSET Prio
         /\ Exact(QueuesOf(c), MaskOf(c), CountOf(c), StateOf(c), priority)
         /\ \A u \in Thread : u # running[c] => StateOf(c)[u] = state[u]
         /\ running[c] \in Thread =>
              /\ state[running[c]] = "RUNNING"
              /\ StateOf(c)[running[c]] = newState[running[c]]
<1> USE DEF IndInv
<1> DEFINE t == running[c]
<1>1. CASE t \notin Thread
  BY <1>1 DEF StateOf, QueuesOf, CountOf, MaskOf, Requeue, TypeOK, QueuesExact
<1>2. CASE t \in Thread
  <2>1. /\ state[t] = "RUNNING" /\ newState[t] \in States \ {"RUNNING"}
        /\ priority[t] \in Prio
    BY <1>2 DEF OneCPUPerThread, TypeOK
  <2>2. /\ StateOf(c) = [state EXCEPT ![t] = newState[t]]
        /\ StateOf(c) \in [Thread -> States]
    BY <1>2, <2>1 DEF StateOf, TypeOK
  <2>3. CASE newState[t] = "READY"
    <3>1. /\ QueuesOf(c) = [rdyQueues EXCEPT ![priority[t]] = Append(@, t)]
          /\ MaskOf(c) = readyMask \cup {priority[t]}
          /\ CountOf(c) = rdyCount + 1
      BY <1>2, <2>3 DEF QueuesOf, MaskOf, CountOf, Requeue
    <3>2. /\ QueuesOf(c) \in [Prio -> Seq(Thread)]
          /\ Exact(QueuesOf(c), MaskOf(c), CountOf(c), StateOf(c), priority)
      <4>1. /\ rdyQueues \in [Prio -> Seq(Thread)] /\ rdyCount \in Int
            /\ state \in [Thread -> States] /\ priority \in [Thread -> Prio]
            /\ Exact(rdyQueues, readyMask, rdyCount, state, priority)
        BY DEF TypeOK, QueuesExact
      <4>2. StateOf(c) = [state EXCEPT ![t] = "READY"] /\ state[t] # "READY"
        BY <2>1, <2>2, <2>3
      <4> DEFINE q1 == [rdyQueues EXCEPT ![priority[t]] = Append(@, t)]
      <4> HIDE DEF t
      <4>3. /\ q1 \in [Prio -> Seq(Thread)]
            /\ Exact(q1, readyMask \cup {priority[t]}, rdyCount + 1,
                     [state EXCEPT ![t] = "READY"], priority)
        BY <1>2, <4>1, <4>2, EnqueueExact
      <4> HIDE DEF q1
      <4> QED BY <3>1, <4>2, <4>3 DEF q1
    <3> QED BY <1>2, <2>1, <2>2, <3>1, <3>2 DEF TypeOK
  <2>4. CASE newState[t] # "READY"
    <3>1. /\ QueuesOf(c) = rdyQueues /\ MaskOf(c) = readyMask
          /\ CountOf(c) = rdyCount
      BY <2>4 DEF QueuesOf, MaskOf, CountOf, Requeue
    <3>3. \A u \in Thread : StateOf(c)[u] = "READY" <=> state[u] = "READY"
      BY <1>2, <2>1, <2>2, <2>4 DEF TypeOK
    <3>2. Ready(StateOf(c)) = Ready(state)
      BY <3>3 DEF Ready
    <3>4. Exact(QueuesOf(c), MaskOf(c), CountOf(c), StateOf(c), priority)
      BY <3>1, <3>2, <3>3 DEF QueuesExact, Exact
    <3> QED BY <1>2, <2>1, <2>2, <3>1, <3>4 DEF TypeOK
  <2> QED BY <2>3, <2>4
<1> QED BY <1>1, <1>2

(* The search passes over no queue but the one that holds nothing but the  *)
(* old thread, which it leaves as it is; what it does not find is not      *)
(* there.                                                                  *)
LEMMA PassedUnchanged ==
  ASSUME IndInv, NEW c \in CPU, NEW r \in Prio, r \notin Takeable(c)
  PROVE  /\ Passed(c, r) = QueuesOf(c)[r]
         /\ QueuesOf(c)[r] # << >> =>
              /\ CountOf(c) > 1 /\ running[c] \in Thread
              /\ \A u \in Thread : InList(QueuesOf(c)[r], u) => u = running[c]
<1> USE DEF IndInv
<1> DEFINE q == QueuesOf(c)[r]
           t == running[c]
<1>1. CASE q = << >>
  BY <1>1 DEF Passed
<1>2. CASE q # << >>
  <2>1. CountOf(c) > 1 /\ Head(q) = t
    BY <1>2 DEF Takeable, Again
  <2>2. /\ q \in Seq(Thread) /\ Distinct(q)
        /\ \A u \in Thread : InList(q, u) <=> StateOf(c)[u] = "READY" /\ priority[u] = r
    BY LeaveExact DEF Exact
  <2>3. t \in Thread /\ InList(q, t)
    BY <1>2, <2>1, <2>2, TailMembers
  <2>4. StateOf(c)[t] = "READY" /\ priority[t] = r
    BY <2>2, <2>3
  <2>5. Requeue(c)
    BY <2>3, <2>4, LeaveExact DEF Requeue
  <2>6. q = Append(rdyQueues[r], t)
    BY <2>4, <2>5 DEF QueuesOf, TypeOK
  <2>7. rdyQueues[r] = << >>
    <3>1. state[t] = "RUNNING"
      BY <2>3, LeaveExact
    <3>2. rdyQueues[r] \in Seq(Thread) /\ ~ InList(rdyQueues[r], t)
      BY <2>3, <3>1 DEF TypeOK, QueuesExact, Exact
    <3>3. ASSUME rdyQueues[r] # << >> PROVE FALSE
      <4>1. Head(q) = rdyQueues[r][1] /\ Len(rdyQueues[r]) \in Nat /\ Len(rdyQueues[r]) >= 1
        BY <2>6, <3>2, <3>3
      <4> QED BY <2>1, <3>2, <4>1 DEF InList
    <3> QED BY <3>3
  <2>8. q = << t >>
    BY <2>6, <2>7
  <2>9. Passed(c, r) = q
    BY <1>2, <2>8 DEF Passed
  <2>10. \A u \in Thread : InList(q, u) => u = t
    BY <2>8 DEF InList
  <2> QED BY <2>1, <2>3, <2>9, <2>10
<1> QED BY <1>1, <1>2

(* perform() that finds a thread.                                          *)
LEMMA SwitchToInd ==
  ASSUME IndInv, NEW c \in CPU, NEW p \in Prio, SwitchTo(c, p)
  PROVE  /\ IndInv'
         /\ running'[c] \in Thread
         /\ StateOf(c)[running'[c]] = "READY" /\ priority[running'[c]] = p
<1> USE DEF IndInv
<1> DEFINE t == Head(QueuesOf(c)[p])
           q1 == [QueuesOf(c) EXCEPT ![p] = Tail(@)]
           s1 == [StateOf(c) EXCEPT ![t] = "RUNNING"]
           m1 == IF q1[p] = << >> THEN MaskOf(c) \ {p} ELSE MaskOf(c)
           old == running[c]
<1>1. /\ StateOf(c) \in [Thread -> States]
      /\ QueuesOf(c) \in [Prio -> Seq(Thread)]
      /\ CountOf(c) \in Int
      /\ Exact(QueuesOf(c), MaskOf(c), CountOf(c), StateOf(c), priority)
      /\ priority \in [Thread -> Prio]
  BY LeaveExact DEF TypeOK
<1>2. p \in Takeable(c) /\ QueuesOf(c)[p] # << >> /\ \A r \in Takeable(c) : r <= p
  BY DEF SwitchTo, FirstFound, Takeable
<1>3. /\ q1 \in [Prio -> Seq(Thread)]
      /\ t \in Thread /\ StateOf(c)[t] = "READY" /\ priority[t] = p
      /\ Exact(q1, m1, CountOf(c) - 1, s1, priority)
  BY <1>1, <1>2, TakeExact
<1>4. rdyQueues' = q1
  <2>1. rdyQueues' = [r \in Prio |-> CASE r > p -> Passed(c, r)
                                       [] r = p -> Tail(QueuesOf(c)[p])
                                       [] OTHER -> QueuesOf(c)[r]]
    BY DEF SwitchTo
  <2>2. \A r \in Prio : r > p => Passed(c, r) = QueuesOf(c)[r]
    <3>1. \A r \in Prio : r > p => r \notin Takeable(c)
      BY <1>2, SchedAssumption DEF Prio
    <3> QED BY <3>1, PassedUnchanged
  <2>3. \A r \in Prio : rdyQueues'[r] = q1[r]
    BY <1>1, <2>1, <2>2
  <2> QED BY <1>3, <2>1, <2>3
<1>5. /\ readyMask' = m1 /\ rdyCount' = CountOf(c) - 1 /\ state' = s1
      /\ newState' = [newState EXCEPT ![t] = "READY"]
      /\ running' = [running EXCEPT ![c] = t]
      /\ ctx' = [ctx EXCEPT ![t] = After(t)]
      /\ UNCHANGED <<event, evobject, priority, prioGoodCnt, ignSigs, sigmask,
                     signalling, evlists, wk>>
  BY <1>1, <1>4 DEF SwitchTo, prioVars, sigVars
<1> HIDE DEF q1, m1, t
<1>6. QueuesExact'
  BY <1>3, <1>4, <1>5 DEF QueuesExact
<1>7. After(t) \in Contexts
  BY <1>3 DEF After, TypeOK, Contexts
<1>8. /\ s1 \in [Thread -> States] /\ state'[t] = "RUNNING"
      /\ \A u \in Thread : u # t => state'[u] = StateOf(c)[u]
  BY <1>1, <1>3, <1>5 DEF States
<1>9. TypeOK'
  <2>1. readyMask' \in SUBSET Prio
    BY <1>6 DEF QueuesExact, Exact
  <2>2. rdyCount' \in Int
    BY <1>1, <1>5
  <2>3. /\ newState' \in [Thread -> States \ {"RUNNING"}]
        /\ running' \in [CPU -> Thread \cup {Idle, NoThread}]
        /\ ctx' \in [Thread -> Contexts]
    BY <1>3, <1>5, <1>7 DEF TypeOK, States
  <2> QED BY <1>3, <1>4, <1>5, <1>8, <2>1, <2>2, <2>3 DEF TypeOK
<1>10. /\ old \in Thread => state[old] = "RUNNING" /\ StateOf(c)[old] = newState[old]
                            /\ newState[old] # "RUNNING"
       /\ \A u \in Thread : u # old => StateOf(c)[u] = state[u]
  BY LeaveExact DEF TypeOK
<1>11. t = old \/ state[t] = "READY"
  BY <1>3, <1>10
<1>12. event[t] = NoEvent /\ ctx[t] # "none"
  BY <1>3, <1>10, <1>11 DEF EventsExact, Coherent
<1>13. EventsExact'
  <2>1. ASSUME NEW u \in Thread, event[u] # NoEvent
        PROVE  \/ state'[u] = "BLOCKED"
               \/ state'[u] = "RUNNING" /\ newState'[u] = "BLOCKED"
    <3>1. u # t /\ newState'[u] = newState[u]
      BY <1>3, <1>5, <1>12, <2>1 DEF TypeOK
    <3>2. state'[u] = StateOf(c)[u]
      BY <1>8, <3>1
    <3> QED BY <1>10, <2>1, <3>1, <3>2 DEF EventsExact
  <2> QED BY <1>5, <2>1 DEF EventsExact
<1>14. OneCPUPerThread'
  <2>1. running \in [CPU -> Thread \cup {Idle, NoThread}]
    BY DEF TypeOK
  <2>2. ASSUME NEW u \in Thread
        PROVE  /\ state'[u] = "RUNNING" <=> \E d \in CPU : running'[d] = u
               /\ \A d, e \in CPU : running'[d] = u /\ running'[e] = u => d = e
    <3>1. CASE u = t
      <4>1. \A d \in CPU : d # c => running[d] # t
        BY <1>10, <1>11, <1>3 DEF OneCPUPerThread
      <4> QED BY <3>1, <4>1, <2>1, <1>5, <1>8
    <3>2. CASE u # t
      <4>1. state'[u] = "RUNNING" <=> state[u] = "RUNNING" /\ u # old
        BY <1>8, <1>10, <3>2
      <4>2. \A d \in CPU : running'[d] = u <=> running[d] = u /\ d # c
        BY <1>5, <2>1, <3>2
      <4> QED BY <4>1, <4>2 DEF OneCPUPerThread
    <3> QED BY <3>1, <3>2
  <2> QED BY <2>2 DEF OneCPUPerThread
<1>15. Coherent'
  <2>1. ASSUME NEW u \in Thread
        PROVE  /\ ctx'[u] = "none" =>
                    state'[u] = "BLOCKED" /\ event'[u] = NoEvent /\ u \notin signalling'
               /\ state'[u] = "RUNNING" /\ ctx'[u] \in {"run", "resumed", "unreached"}
                    => newState'[u] = "READY"
    <3>1. CASE u = t
      <4>1. After(t) # "none"
        BY <1>12 DEF After
      <4> QED BY <3>1, <4>1, <1>3, <1>5 DEF TypeOK
    <3>2. CASE u # t
      <4>1. ctx'[u] = ctx[u] /\ newState'[u] = newState[u] /\ state'[u] = StateOf(c)[u]
        BY <3>2, <1>3, <1>5, <1>8 DEF TypeOK
      <4> QED BY <4>1, <1>5, <1>10 DEF Coherent
    <3> QED BY <3>1, <3>2
  <2> QED BY <2>1, <1>5 DEF Coherent, Unlocked
<1>16. NoLostSignal'
  <2>1. old \in Thread /\ newState[old] = "BLOCKED" => ~ HasSignal(old)
    BY DEF SwitchTo, Interrupted
  <2>2. \A u \in Thread : state'[u] = "BLOCKED" => u # t
    BY <1>8
  <2> QED BY <2>1, <2>2, <1>5, <1>8, <1>10 DEF NoLostSignal, HasSignal
<1>17. running'[c] = t
  BY <1>5 DEF TypeOK
<1> QED BY <1>3, <1>6, <1>9, <1>13, <1>14, <1>15, <1>16, <1>17

(* perform() that finds no thread: nobody is ready.                        *)
LEMMA SwitchToIdleInd ==
  ASSUME IndInv, NEW c \in CPU, SwitchToIdle(c)
  PROVE  /\ IndInv'
         /\ running' = [running EXCEPT ![c] = Idle]
         /\ \A u \in Thread : state'[u] # "READY"
<1> USE DEF IndInv
<1> DEFINE old == running[c]
<1>1. /\ StateOf(c) \in [Thread -> States]
      /\ QueuesOf(c) \in [Prio -> Seq(Thread)]
      /\ CountOf(c) \in Int
      /\ Exact(QueuesOf(c), MaskOf(c), CountOf(c), StateOf(c), priority)
      /\ priority \in [Thread -> Prio]
  BY LeaveExact DEF TypeOK
<1>2. ASSUME NEW r \in Prio
      PROVE  Passed(c, r) = QueuesOf(c)[r] /\ QueuesOf(c)[r] = << >>
  <2>1. \A p \in Prio : p \notin Takeable(c)
    BY DEF SwitchToIdle
  <2>2. ASSUME QueuesOf(c)[r] # << >> PROVE FALSE
    <3>1. CountOf(c) > 1 /\ old \in Thread
      BY <2>1, <2>2, PassedUnchanged
    <3>2. \A u \in Ready(StateOf(c)) : u = old
      <4>1. SUFFICES ASSUME NEW u \in Ready(StateOf(c)) PROVE u = old
        OBVIOUS
      <4>2. u \in Thread /\ priority[u] \in Prio /\ InList(QueuesOf(c)[priority[u]], u)
        BY <1>1 DEF Ready, Exact
      <4>3. QueuesOf(c)[priority[u]] # << >>
        BY <1>1, <4>2, NoMembers
      <4> QED BY <2>1, <4>2, <4>3, PassedUnchanged
    <3>3. Cardinality({old}) = 1 /\ IsFiniteSet({old})
      BY FS_Singleton
    <3>4. Cardinality(Ready(StateOf(c))) <= 1
      BY <3>2, <3>3, FS_Subset
    <3> QED BY <1>1, <3>1, <3>4 DEF Exact
  <2> QED BY <2>1, <2>2, PassedUnchanged
<1>3. rdyQueues' = QueuesOf(c)
  <2>1. rdyQueues' = [r \in Prio |-> Passed(c, r)]
    BY DEF SwitchToIdle
  <2> QED BY <1>1, <1>2, <2>1
<1>4. /\ running' = [running EXCEPT ![c] = Idle] /\ state' = StateOf(c)
      /\ readyMask' = MaskOf(c) /\ rdyCount' = CountOf(c)
      /\ UNCHANGED <<newState, event, evobject, priority, prioGoodCnt, ignSigs,
                     sigmask, signalling, ctx, evlists, wk>>
  <2>1. 0 \in Prio
    BY SchedAssumption DEF Prio
  <2>2. QueuesOf(c)[0] = << >>
    BY <1>2, <2>1
  <2> QED BY <2>2 DEF SwitchToIdle, prioVars, sigVars
<1>5. QueuesExact'
  BY <1>1, <1>3, <1>4 DEF QueuesExact
<1>6. TypeOK'
  <2>1. readyMask' \in SUBSET Prio
    BY <1>5 DEF QueuesExact, Exact
  <2> QED BY <1>1, <1>3, <1>4, <2>1 DEF TypeOK
<1>7. /\ old \in Thread => state[old] = "RUNNING" /\ StateOf(c)[old] = newState[old]
                           /\ newState[old] # "RUNNING"
      /\ \A u \in Thread : u # old => StateOf(c)[u] = state[u]
  BY LeaveExact DEF TypeOK
<1>8. EventsExact'
  BY <1>4, <1>7 DEF EventsExact
<1>9. OneCPUPerThread'
  <2>1. \A u \in Thread : u # Idle
    BY SchedAssumption
  <2>2. \A u \in Thread, d \in CPU : running'[d] = u <=> running[d] = u /\ d # c
    BY <1>4, <2>1 DEF TypeOK
  <2>3. \A u \in Thread : state'[u] = "RUNNING" <=> state[u] = "RUNNING" /\ u # old
    BY <1>4, <1>7
  <2> QED BY <2>2, <2>3 DEF OneCPUPerThread
<1>10. Coherent'
  BY <1>4, <1>7 DEF Coherent, Unlocked
<1>11. NoLostSignal'
  <2>1. old \in Thread /\ newState[old] = "BLOCKED" => ~ HasSignal(old)
    BY DEF SwitchToIdle, Interrupted
  <2> QED BY <2>1, <1>4, <1>7 DEF NoLostSignal, HasSignal
<1>12. \A u \in Thread : state'[u] # "READY"
  <2>1. SUFFICES ASSUME NEW u \in Thread, StateOf(c)[u] = "READY" PROVE FALSE
    BY <1>4
  <2>2. priority[u] \in Prio /\ InList(QueuesOf(c)[priority[u]], u)
    BY <1>1, <2>1 DEF Exact
  <2> QED BY <1>1, <1>2, <2>2, NoMembers
<1> QED BY <1>4, <1>5, <1>6, <1>8, <1>9, <1>10, <1>11, <1>12

(* Every step of the scheduler preserves the invariant.                    *)
LEMMA NextInd == IndInv /\ [Next]_vars => IndInv'
<1> SUFFICES ASSUME IndInv, [Next]_vars PROVE IndInv'
  OBVIOUS
<1>1. CASE UNCHANGED vars
  <2>1. UNCHANGED <<state, newState, event, evobject, priority, prioGoodCnt,
                    ignSigs, sigmask, signalling, rdyQueues, readyMask, rdyCount,
                    ctx, evlists, running, wk>>
    BY <1>1 DEF vars, thVars, prioVars, sigVars, queueVars
  <2> QED BY <2>1, QuietQueues DEF IndInv, TypeOK, EventsExact, Coherent,
             NoLostSignal, HasSignal, Unlocked
<1>2. ASSUME NEW t \in Thread, ThreadNext(t)
      PROVE  IndInv'
  BY <1>2, WaitInd, OwnStepInd, CreateInd, UnblockInd, AddSignalInd,
     SignalUnblockInd, KillInd DEF ThreadNext
<1>3. ASSUME NEW c \in CPU, Perform(c)
      PROVE  IndInv'
  BY <1>3, KeepSignalledInd, SwitchToInd, SwitchToIdleInd DEF Perform, Switch
<1>4. CASE AdjustNext
  BY <1>4, AdjustPrioInd DEF AdjustNext
<1>5. CASE SchedNext
  BY <1>2, <1>3, <1>5, WakeupInd, WakeupStepInd DEF SchedNext
<1> QED BY <1>1, <1>4, <1>5 DEF Next

(* The invariant holds in every state of the scheduler.                    *)
THEOREM SchedInvariant == Spec => []IndInv
BY InitInd, NextInd, PTL DEF Spec

(* Type correctness of the scheduler's and the threads' state.             *)
THEOREM SchedTypeOK == Spec => []TypeOK
<1>1. IndInv => TypeOK
  BY DEF IndInv
<1> QED BY <1>1, SchedInvariant, PTL

(* The ready queues hold exactly the ready threads, each once and at its   *)
(* priority, and readyMask and rdyCount agree with them.                   *)
THEOREM SchedQueuesExact == Spec => []QueuesExact
<1>1. IndInv => QueuesExact
  BY DEF IndInv
<1> QED BY <1>1, SchedInvariant, PTL

(* The event lists hold exactly the waiting threads, each once.            *)
THEOREM SchedEventsExact == Spec => []EventsExact
<1>1. IndInv => EventsExact
  BY DEF IndInv
<1> QED BY <1>1, SchedInvariant, PTL

(* No two processors execute the same thread.                              *)
THEOREM SchedOneCPUPerThread == Spec => []OneCPUPerThread
<1>1. IndInv => OneCPUPerThread
  BY DEF IndInv
<1> QED BY <1>1, SchedInvariant, PTL

(* No thread sleeps on a signal that may interrupt it.                     *)
THEOREM SchedNoLostSignal == Spec => []NoLostSignal
<1>1. IndInv => NoLostSignal
  BY DEF IndInv
<1> QED BY <1>1, SchedInvariant, PTL

-----------------------------------------------------------------------------
(* What perform() picks.                                                   *)

(* Only perform() changes what a processor executes.                       *)
LEMMA OnlyPerformSwitches ==
  ASSUME [Next]_vars
  PROVE  \/ UNCHANGED running
         \/ \E c \in CPU : SwitchToIdle(c) \/ \E p \in Prio : SwitchTo(c, p)
<1>1. CASE UNCHANGED vars
  BY <1>1 DEF vars
<1>2. ASSUME NEW t \in Thread, ThreadNext(t)
      PROVE  UNCHANGED running
  BY <1>2 DEF ThreadNext, Wait, Block, BeginNoSigs, EndNoSigs, HandleSignal,
     Terminate, Create, Unblock, AddSignal, SignalUnblock, Kill
<1>3. ASSUME NEW c \in CPU, KeepSignalled(c)
      PROVE  UNCHANGED running
  BY <1>3 DEF KeepSignalled
<1>4. CASE AdjustNext
  BY <1>4 DEF AdjustNext, AdjustPrio
<1>5. CASE SchedNext
  <2>1. ASSUME NEW e \in Event, NEW o \in Object \cup {NoObject},
               Wakeup(e, o, TRUE)
        PROVE  UNCHANGED running
    BY <2>1 DEF Wakeup
  <2>2. WakeupStep => UNCHANGED running
    BY DEF WakeupStep
  <2> QED BY <1>2, <1>3, <1>5, <2>1, <2>2 DEF SchedNext, Perform, Switch
<1> QED BY <1>1, <1>4, <1>5 DEF Next

(* A processor turns to its idle thread only if no thread is ready.        *)
THEOREM SchedWorkConserving == Spec => WorkConserving
<1> DEFINE A == \A c \in CPU : running'[c] = Idle /\ running[c] # Idle =>
                  \A t \in Thread : state'[t] # "READY"
<1>1. IndInv /\ [Next]_vars => [A]_vars
  <2> SUFFICES ASSUME IndInv, [Next]_vars, NEW c \in CPU,
                      running'[c] = Idle, running[c] # Idle
               PROVE  \A t \in Thread : state'[t] # "READY"
    OBVIOUS
  <2>1. running \in [CPU -> Thread \cup {Idle, NoThread}]
    BY DEF IndInv, TypeOK
  <2>2. ASSUME NEW d \in CPU, SwitchToIdle(d)
        PROVE  \A t \in Thread : state'[t] # "READY"
    BY <2>2, SwitchToIdleInd
  <2>3. ASSUME NEW d \in CPU, NEW p \in Prio, SwitchTo(d, p)
        PROVE  FALSE
    <3>1. running'[d] \in Thread
      BY <2>3, SwitchToInd
    <3>2. d # c => running'[c] = running[c]
      BY <2>1, <2>3 DEF SwitchTo
    <3> QED BY <3>1, <3>2, SchedAssumption
  <2> QED BY <2>2, <2>3, OnlyPerformSwitches
<1> QED BY <1>1, SchedInvariant, PTL DEF Spec, WorkConserving

(* A processor that turns to another thread takes one of the highest       *)
(* priority among the ready ones.                                          *)
THEOREM SchedHighestFirst == Spec => HighestFirst
<1> DEFINE A == \A c \in CPU, t \in Thread : running'[c] = t /\ running[c] # t =>
                  \A u \in Ready(state) : priority[u] <= priority[t]
<1>1. IndInv /\ [Next]_vars => [A]_vars
  <2> SUFFICES ASSUME IndInv, [Next]_vars, NEW c \in CPU, NEW t \in Thread,
                      running'[c] = t, running[c] # t, NEW u \in Ready(state)
               PROVE  priority[u] <= priority[t]
    OBVIOUS
  <2>1. running \in [CPU -> Thread \cup {Idle, NoThread}]
    BY DEF IndInv, TypeOK
  <2>2. ASSUME NEW d \in CPU, SwitchToIdle(d)
        PROVE  FALSE
    <3>1. running' = [running EXCEPT ![d] = Idle]
      BY <2>2, SwitchToIdleInd
    <3> QED BY <2>1, <3>1, SchedAssumption
  <2>3. ASSUME NEW d \in CPU, NEW p \in Prio, SwitchTo(d, p)
        PROVE  priority[u] <= priority[t]
    <3>1. d = c
      BY <2>1, <2>3 DEF SwitchTo
    <3>2. priority[t] = p
      BY <2>3, <3>1, SwitchToInd
    <3>3. u \in Thread /\ state[u] = "READY" /\ u # running[c]
      BY LeaveExact DEF Ready
    <3>4. /\ StateOf(c)[u] = "READY" /\ priority[u] \in Prio
          /\ QueuesOf(c)[priority[u]] \in Seq(Thread)
          /\ InList(QueuesOf(c)[priority[u]], u)
      BY <3>3, LeaveExact DEF Exact, IndInv, TypeOK
    <3>5. QueuesOf(c)[priority[u]] # << >>
      BY <3>3, <3>4, NoMembers
    <3>6. priority[u] \in Takeable(c)
      BY <3>3, <3>4, <3>5, PassedUnchanged
    <3> QED BY <2>3, <3>1, <3>2, <3>6 DEF SwitchTo, FirstFound
  <2> QED BY <2>2, <2>3, OnlyPerformSwitches
<1> QED BY <1>1, SchedInvariant, PTL DEF Spec, HighestFirst

-----------------------------------------------------------------------------
(* Who revives a thread that terminates.                                   *)

(* A thread whose program point and states a step leaves alone is not      *)
(* revived by it.                                                          *)
LEMMA RevivedKept ==
  ASSUME NEW u \in Thread, ctx'[u] = ctx[u],
         state'[u] = state[u], newState'[u] = newState[u]
  PROVE  Revived(u)' <=> Revived(u)
BY DEF Revived, Doomed

(* The steps of the threads.                                               *)
LEMMA ThreadRevives ==
  ASSUME IndInv, NEW t \in Thread, ThreadNext(t),
         NEW u \in Thread, Revived(u)', ~ Revived(u)
  PROVE  u \in signalling \ signalling'
<1> USE DEF IndInv
<1> USE DEF TypeOK
<1>1. ASSUME NEW e \in Event, NEW o \in Object \cup {NoObject}, Wait(t, e, o)
      PROVE  /\ UNCHANGED <<state, sigmask, signalling>>
             /\ ctx'[t] = "wait"
             /\ u # t => ctx'[u] = ctx[u] /\ newState'[u] = newState[u]
  BY <1>1 DEF Wait, SetBlocked, sigVars
<1>2. ASSUME Block(t)
      PROVE  /\ UNCHANGED <<state, sigmask, signalling>>
             /\ ctx'[t] = "wait"
             /\ u # t => ctx'[u] = ctx[u] /\ newState'[u] = newState[u]
  BY <1>2 DEF Block, SetBlocked, sigVars
<1>3. ASSUME BeginNoSigs(t) \/ EndNoSigs(t)
      PROVE  /\ UNCHANGED <<state, newState, sigmask, signalling>>
             /\ ctx'[t] \in {"nosigs", "run"}
             /\ u # t => ctx'[u] = ctx[u]
  BY <1>3 DEF BeginNoSigs, EndNoSigs, thVars
<1>4. ASSUME HandleSignal(t)
      PROVE  /\ UNCHANGED <<state, newState, signalling, ctx>>
             /\ ctx[t] = "run"
             /\ u # t => sigmask'[u] = sigmask[u]
  BY <1>4 DEF HandleSignal, thVars
<1>5. ASSUME Terminate(t)
      PROVE  /\ UNCHANGED <<state, sigmask, signalling>>
             /\ ctx'[t] = "dying" /\ newState'[t] = "ZOMBIE"
             /\ state[t] = "RUNNING"
             /\ u # t => ctx'[u] = ctx[u] /\ newState'[u] = newState[u]
  BY <1>5 DEF Terminate, sigVars
<1>6. ASSUME NEW p \in Prio, Create(t, p)
      PROVE  /\ UNCHANGED signalling
             /\ ctx'[t] = "run"
             /\ u # t => /\ ctx'[u] = ctx[u] /\ newState'[u] = newState[u]
                         /\ state'[u] = state[u] /\ sigmask'[u] = sigmask[u]
  BY <1>6 DEF Create
<1>7. ASSUME Unblock(t)
      PROVE  /\ UNCHANGED <<signalling, sigmask, ctx>>
             /\ ctx[t] \notin {"dying", "unreached"}
             /\ u # t => newState'[u] = newState[u] /\ state'[u] = state[u]
  <2>1. SetReady(t) /\ UNCHANGED <<priority, running>>
    BY <1>7 DEF Unblock, prioVars
  <2>2. u # t => newState'[u] = newState[u] /\ state'[u] = state[u]
    BY <2>1, SetReadyEffect
  <2> QED BY <1>7, <2>2 DEF Unblock, sigVars
<1>8. ASSUME AddSignal(t)
      PROVE  /\ UNCHANGED <<state, newState, ctx>>
             /\ sigmask'[t] = TRUE
             /\ u # t => /\ sigmask'[u] = sigmask[u]
                         /\ u \in signalling' => u \in signalling
  BY <1>8 DEF AddSignal, thVars
<1>9. ASSUME SignalUnblock(t)
      PROVE  /\ UNCHANGED <<sigmask, ctx>>
             /\ t \in signalling \ signalling'
             /\ u # t => /\ newState'[u] = newState[u] /\ state'[u] = state[u]
                         /\ u \in signalling' => u \in signalling
  <2>1. CASE ignSigs[t]
    BY <1>9, <2>1 DEF SignalUnblock, thVars
  <2>2. CASE ~ ignSigs[t]
    <3>1. SetReady(t) /\ UNCHANGED <<priority, running>>
      BY <1>9, <2>2 DEF SignalUnblock, prioVars
    <3>2. u # t => newState'[u] = newState[u] /\ state'[u] = state[u]
      BY <3>1, SetReadyEffect
    <3> QED BY <1>9, <3>2 DEF SignalUnblock
  <2> QED BY <2>1, <2>2
<1>10. ASSUME NEW o \in Object, Kill(t, o)
       PROVE  /\ UNCHANGED signalling
              /\ ctx'[t] = "none"
              /\ u # t => /\ ctx'[u] = ctx[u] /\ newState'[u] = newState[u]
                          /\ state'[u] = state[u] /\ sigmask'[u] = sigmask[u]
  BY <1>10 DEF Kill
<1>11. u = t
  <2>1. ASSUME u # t
        PROVE  /\ ctx'[u] = ctx[u]
               /\ state'[u] = state[u] /\ newState'[u] = newState[u]
    BY <1>1, <1>2, <1>3, <1>4, <1>5, <1>6, <1>7, <1>8, <1>9, <1>10, <2>1
       DEF ThreadNext
  <2> QED BY <2>1, RevivedKept
<1>12. ~ Terminate(t)
  BY <1>5, <1>11 DEF Revived, Doomed
<1>13. SignalUnblock(t)
  <2>1. ctx'[t] \in {"dying", "unreached"}
    BY <1>11 DEF Revived
  <2>2. ~ (HandleSignal(t) \/ AddSignal(t))
    BY <1>4, <1>8, <1>11, RevivedKept
  <2>3. ~ Unblock(t)
    BY <1>7, <2>1
  <2> QED BY <1>1, <1>2, <1>3, <1>6, <1>10, <1>12, <2>1, <2>2, <2>3
             DEF ThreadNext
<1> QED BY <1>9, <1>11, <1>13

(* A wakeup revives no thread: one that terminates is in no event list.    *)
LEMMA WakeupStepRevives ==
  ASSUME IndInv, WakeupStep, NEW u \in Thread, Revived(u)'
  PROVE  Revived(u)
<1> USE DEF IndInv
<1> DEFINE list == evlists[wk.event]
           t == list[wk.pos]
<1>1. /\ wk.event \in Event /\ wk.pos \in Nat /\ wk.pos > 0
      /\ UNCHANGED <<priority, ctx, running>>
  BY DEF WakeupStep, Coherent, prioVars, sigVars, TypeOK
<1>2. CASE UNCHANGED <<thVars, evlists, queueVars>>
  BY <1>1, <1>2, RevivedKept DEF thVars
<1>3. CASE ~ (wk.pos > Len(list)) /\ SetReady(t)
  <2>0. list \in Seq(Thread) /\ wk.pos \in 1 .. Len(list)
    BY <1>1, <1>3 DEF TypeOK
  <2>1. t \in Thread /\ InList(list, t)
    BY <2>0 DEF InList
  <2>2. event[t] # NoEvent
    BY <1>1, <2>1, SchedAssumption DEF EventsExact
  <2>3. state[t] = "BLOCKED" \/ newState[t] = "BLOCKED"
    BY <2>1, <2>2 DEF EventsExact
  <2> HIDE DEF t
  <2>4. u # t => state'[u] = state[u] /\ newState'[u] = newState[u]
    BY <1>1, <1>3, <2>1, SetReadyEffect
  <2>5. CASE u # t
    BY <1>1, <2>4, <2>5, RevivedKept
  <2>6. CASE u = t
    BY <1>1, <2>3, <2>6 DEF Revived, Doomed
  <2> QED BY <2>5, <2>6
<1> QED BY <1>2, <1>3 DEF WakeupStep

(* perform() revives no thread: it leaves one that terminates for good.    *)
LEMMA PerformRevives ==
  ASSUME IndInv, NEW c \in CPU, Perform(c), NEW u \in Thread, Revived(u)'
  PROVE  Revived(u)
<1> USE DEF IndInv
<1> DEFINE old == running[c]
<1>1. SUFFICES ASSUME ctx[u] \in {"dying", "unreached"} => Doomed(u)
               PROVE  FALSE
  BY DEF Revived
<1>2. CASE KeepSignalled(c)
  <2>1. /\ old \in Thread /\ newState[old] # "ZOMBIE"
        /\ newState' = [newState EXCEPT ![old] = "READY"]
        /\ ctx' = [ctx EXCEPT ![old] = After(old)]
        /\ UNCHANGED state
    BY <1>2 DEF KeepSignalled, Interrupted
  <2>2. u # old => newState'[u] = newState[u] /\ ctx'[u] = ctx[u]
    BY <2>1 DEF TypeOK
  <2>3. u = old
    BY <1>1, <2>1, <2>2, RevivedKept DEF Revived
  <2>4. ctx'[u] = After(u)
    BY <2>1, <2>3 DEF TypeOK
  <2>5. ctx[u] \in {"dying", "unreached"}
    BY <2>4 DEF After, Revived
  <2> QED BY <1>1, <2>1, <2>3, <2>5 DEF Doomed
<1>3. ASSUME NEW p \in Prio, SwitchTo(c, p)
      PROVE  FALSE
  <2> DEFINE t == Head(QueuesOf(c)[p])
  <2>1. /\ state' = [StateOf(c) EXCEPT ![t] = "RUNNING"]
        /\ newState' = [newState EXCEPT ![t] = "READY"]
        /\ running' = [running EXCEPT ![c] = t]
        /\ ctx' = [ctx EXCEPT ![t] = After(t)]
    BY <1>3 DEF SwitchTo
  <2>2. running'[c] = t
    BY <2>1 DEF TypeOK
  <2>3. t \in Thread /\ StateOf(c)[t] = "READY"
    BY <1>3, <2>2, SwitchToInd
  <2> HIDE DEF t
  <2>4. StateOf(c) \in [Thread -> States]
    BY LeaveExact
  <2>5. StateOf(c)[u] = state[u] \/ StateOf(c)[u] = newState[u]
    BY LeaveExact
  <2>6. CASE u # t
    <3>1. /\ ctx'[u] = ctx[u] /\ newState'[u] = newState[u]
          /\ state'[u] = StateOf(c)[u]
      BY <2>1, <2>3, <2>4, <2>6 DEF TypeOK
    <3>2. ctx[u] \in {"dying", "unreached"} /\ Doomed(u)
      BY <1>1, <3>1 DEF Revived
    <3> QED BY <2>5, <3>1, <3>2 DEF Revived, Doomed
  <2>7. CASE u = t
    <3>1. ctx'[u] = After(u)
      BY <2>1, <2>3, <2>7 DEF TypeOK
    <3>2. ctx[u] \in {"dying", "unreached"}
      BY <3>1 DEF After, Revived
    <3>3. newState[u] = "ZOMBIE" /\ state[u] \in {"RUNNING", "ZOMBIE"}
      BY <1>1, <3>2 DEF Doomed
    <3> QED BY <2>3, <2>5, <2>7, <3>3
  <2> QED BY <2>6, <2>7
<1>4. CASE SwitchToIdle(c)
  <2>1. running' = [running EXCEPT ![c] = Idle]
    BY <1>4, SwitchToIdleInd
  <2>2. UNCHANGED <<newState, ctx>>
    BY <1>4 DEF SwitchToIdle
  <2>3. state' = StateOf(c)
    <3>1. running'[c] = Idle
      BY <2>1 DEF TypeOK
    <3>2. ASSUME NEW t, running' = [running EXCEPT ![c] = t]
          PROVE  t = Idle
      BY <3>1, <3>2 DEF TypeOK
    <3>3. \E t : /\ running' = [running EXCEPT ![c] = t]
                 /\ state' = IF t = Idle THEN StateOf(c)
                                         ELSE [StateOf(c) EXCEPT ![t] = "RUNNING"]
      BY <1>4 DEF SwitchToIdle
    <3> QED BY <3>2, <3>3
  <2>4. state'[u] = state[u] \/ state'[u] = newState[u]
    BY <2>3, LeaveExact
  <2>5. ctx[u] \in {"dying", "unreached"} /\ Doomed(u)
    BY <1>1, <2>2 DEF Revived
  <2> QED BY <2>2, <2>4, <2>5 DEF Revived, Doomed
<1> QED BY <1>2, <1>3, <1>4 DEF Perform, Switch

(* Nothing but the second step of a signaller revives a thread that has    *)
(* called Thread::terminate: otherwise it becomes a zombie and stays one.  *)
THEOREM SchedOnlySignalsRevive == Spec => OnlySignalsRevive
<1>1. IndInv /\ [Next]_vars =>
        [\A t \in Thread :
           Revived(t)' /\ ~ Revived(t) => t \in signalling \ signalling']_vars
  <2> SUFFICES ASSUME IndInv, Next, NEW t \in Thread,
                      Revived(t)', ~ Revived(t)
               PROVE  t \in signalling \ signalling'
    OBVIOUS
  <2>1. ~ AdjustNext
    <3> SUFFICES ASSUME AdjustNext PROVE FALSE
      OBVIOUS
    <3>1. UNCHANGED <<state, newState, ctx>>
      BY DEF AdjustNext, AdjustPrio, thVars
    <3> QED BY <3>1, RevivedKept
  <2>2. ASSUME NEW e \in Event, NEW o \in Object \cup {NoObject}
        PROVE  ~ Wakeup(e, o, TRUE)
    <3> SUFFICES ASSUME Wakeup(e, o, TRUE) PROVE FALSE
      OBVIOUS
    <3>1. UNCHANGED <<state, newState, ctx>>
      BY DEF Wakeup, thVars
    <3> QED BY <3>1, RevivedKept
  <2>3. ~ WakeupStep
    BY WakeupStepRevives
  <2>4. ASSUME NEW c \in CPU
        PROVE  ~ Perform(c)
    BY PerformRevives
  <2>5. \E u \in Thread : ThreadNext(u)
    BY <2>1, <2>2, <2>3, <2>4 DEF Next, SchedNext
  <2> QED BY <2>5, ThreadRevives
<1> QED BY <1>1, SchedInvariant, PTL DEF Spec, OnlySignalsRevive

-----------------------------------------------------------------------------
(* Whom a wakeup reaches.                                                  *)

(* While a wakeup holds the lock nothing but its own steps changes the     *)
(* event lists and the walk.                                               *)
LEMMA LockedLists ==
  ASSUME IndInv, [Next]_vars, ~ Unlocked
  PROVE  \/ WakeupStep
         \/ /\ UNCHANGED <<event, evlists, wk>>
            /\ \A u \in Thread : evobject'[u] # evobject[u] => event[u] = NoEvent
<1> USE DEF IndInv
<1>1. CASE UNCHANGED vars
  BY <1>1 DEF vars, thVars
<1>2. CASE AdjustNext
  BY <1>2 DEF AdjustNext, AdjustPrio
<1>3. ASSUME NEW t \in Thread, ThreadNext(t), ~ \E p \in Prio : Create(t, p)
      PROVE  UNCHANGED <<event, evobject, evlists, wk>>
  BY <1>3 DEF ThreadNext, Wait, Block, BeginNoSigs, EndNoSigs, HandleSignal,
     Terminate, Unblock, AddSignal, SignalUnblock, Kill, thVars
<1>4. ASSUME NEW t \in Thread, NEW p \in Prio, Create(t, p)
      PROVE  /\ UNCHANGED <<event, evlists, wk>>
             /\ \A u \in Thread : evobject'[u] # evobject[u] => event[u] = NoEvent
  <2>1. event[t] = NoEvent
    BY <1>4 DEF Create, Coherent
  <2>2. /\ event' = [event EXCEPT ![t] = NoEvent]
        /\ evobject' = [evobject EXCEPT ![t] = NoObject]
        /\ UNCHANGED <<evlists, wk>>
    BY <1>4 DEF Create
  <2>3. event' = event
    BY <2>1, <2>2 DEF TypeOK
  <2> QED BY <2>1, <2>2, <2>3 DEF TypeOK
<1>5. CASE SchedNext
  <2>1. ASSUME NEW c \in CPU, Perform(c) PROVE FALSE
    BY <2>1 DEF Perform, Switch, KeepSignalled, SwitchTo, SwitchToIdle
  <2>2. ASSUME NEW e \in Event, NEW o \in Object \cup {NoObject},
               Wakeup(e, o, TRUE)
        PROVE  FALSE
    BY <2>2 DEF Wakeup
  <2>3. ASSUME NEW t \in Thread, ThreadNext(t)
        PROVE  /\ UNCHANGED <<event, evlists, wk>>
               /\ \A u \in Thread : evobject'[u] # evobject[u] => event[u] = NoEvent
    BY <2>3, <1>3, <1>4
  <2> QED BY <1>5, <2>1, <2>2, <2>3 DEF SchedNext
<1> QED BY <1>1, <1>2, <1>5 DEF Next

(* A wakeup that begins has passed nobody.                                 *)
LEMMA WalkBegins ==
  ASSUME IndInv, [Next]_vars, Unlocked
  PROVE  Walked'
<1> SUFFICES ASSUME ~ Unlocked' PROVE wk'.pos = 1
  BY DEF Walked
<1>1. wk = NoWakeup /\ wk' # NoWakeup
  BY DEF Unlocked
<1>2. ASSUME NEW t \in Thread, ThreadNext(t)
      PROVE  UNCHANGED wk \/ wk'.pos = 1
  BY <1>2 DEF ThreadNext, Wait, Block, BeginNoSigs, EndNoSigs, HandleSignal,
     Terminate, Create, Unblock, AddSignal, SignalUnblock, Kill
<1>3. ASSUME NEW c \in CPU, Perform(c)
      PROVE  UNCHANGED wk
  BY <1>3 DEF Perform, Switch, KeepSignalled, SwitchTo, SwitchToIdle
<1>4. ASSUME NEW e \in Event, NEW o \in Object \cup {NoObject},
             Wakeup(e, o, TRUE)
      PROVE  wk'.pos = 1
  BY <1>4 DEF Wakeup
<1>5. ~ WakeupStep
  BY DEF WakeupStep
<1>6. AdjustNext => UNCHANGED wk
  BY DEF AdjustNext, AdjustPrio
<1>7. UNCHANGED vars => UNCHANGED wk
  BY DEF vars
<1> QED BY <1>1, <1>2, <1>3, <1>4, <1>5, <1>6, <1>7 DEF Next, SchedNext

(* A step of the walk: a thread that matches is unlinked, which moves the  *)
(* next one to its place; any other is passed.                             *)
LEMMA WakeupStepWalked ==
  ASSUME IndInv, Walked, WakeupStep
  PROVE  Walked'
<1> USE DEF IndInv
<1> DEFINE list == evlists[wk.event]
           t == list[wk.pos]
<1> SUFFICES ASSUME ~ Unlocked', wk'.all, NEW i \in 1 .. Len(evlists'[wk'.event]),
                    i < wk'.pos
             PROVE  ~ evobject'[evlists'[wk'.event][i]] \in {NoObject, wk'.object}
  BY DEF Walked, Matches
<1>1. /\ wk.event \in Event /\ wk.pos \in Nat /\ wk.pos > 0
      /\ ~ Unlocked /\ wk' # NoWakeup
  BY DEF WakeupStep, Coherent, TypeOK, Unlocked
<1>2. /\ list \in Seq(Thread) /\ Distinct(list)
      /\ wk \in [event : Event \cup {NoEvent}, object : Object \cup {NoObject},
                 all : BOOLEAN, pos : Nat]
  BY <1>1 DEF TypeOK, EventsExact
<1>3. /\ wk.pos <= Len(list)
      /\ \/ SetReady(t) /\ wk' = Resume
         \/ /\ ~ Matches(t) /\ wk' = [wk EXCEPT !.pos = @ + 1]
            /\ UNCHANGED <<thVars, evlists, queueVars>>
  BY <1>1, <1>2 DEF WakeupStep
<1>4. CASE ~ Matches(t) /\ wk' = [wk EXCEPT !.pos = @ + 1]
            /\ UNCHANGED <<thVars, evlists, queueVars>>
  <2>1. /\ UNCHANGED <<evobject, evlists>>
        /\ wk'.event = wk.event /\ wk'.object = wk.object /\ wk'.all = wk.all
        /\ wk'.pos = wk.pos + 1
    BY <1>2, <1>4 DEF thVars
  <2>2. \A j \in 1 .. Len(list) : j < wk.pos => ~ Matches(list[j])
    BY <1>1, <2>1 DEF Walked
  <2>3. i \in 1 .. Len(list) /\ (i < wk.pos \/ i = wk.pos)
    BY <1>1, <2>1
  <2>4. ~ Matches(list[i])
    BY <1>4, <2>2, <2>3
  <2> QED BY <2>1, <2>4 DEF Matches
<1>5. CASE SetReady(t) /\ wk' = Resume
  <2>1. wk' = wk /\ wk.all
    BY <1>1, <1>5 DEF Resume
  <2>2. wk.pos \in 1 .. Len(list)
    BY <1>1, <1>2, <1>3
  <2>3. t \in Thread /\ InList(list, t)
    BY <1>2, <2>2 DEF InList
  <2>4. event[t] = wk.event /\ event[t] # NoEvent
    BY <1>1, <2>3, SchedAssumption DEF EventsExact
  <2>5. state[t] = "BLOCKED" \/ state[t] = "RUNNING"
    BY <2>3, <2>4 DEF EventsExact
  <2>6. RemoveFromEventlist(t) /\ UNCHANGED evobject
    BY <1>5, <2>5 DEF SetReady
  <2>7. evlists' = [evlists EXCEPT ![wk.event] = Unlink(@, t)]
    BY <2>4, <2>6 DEF RemoveFromEventlist
  <2>8. evlists'[wk.event] = Unlink(list, t)
    BY <1>1, <2>7 DEF TypeOK
  <2>9. /\ Len(Unlink(list, t)) = Len(list) - 1
        /\ \A j \in 1 .. (Len(list) - 1) : j < wk.pos => Unlink(list, t)[j] = list[j]
    BY <1>2, <2>2, UnlinkPrefix
  <2>10. i \in 1 .. (Len(list) - 1) /\ i < wk.pos
    BY <2>1, <2>8, <2>9
  <2>11. evlists'[wk.event][i] = list[i]
    BY <2>8, <2>9, <2>10
  <2>12. i \in 1 .. Len(list)
    BY <1>2, <2>10
  <2>13. ~ Matches(list[i])
    BY <1>1, <2>1, <2>10, <2>12 DEF Walked
  <2> QED BY <2>1, <2>6, <2>11, <2>13 DEF Matches
<1> QED BY <1>3, <1>4, <1>5

(* Every step leaves the walk without a match behind it.                   *)
LEMMA WalkedInd == IndInv /\ Walked /\ [Next]_vars => Walked'
<1> SUFFICES ASSUME IndInv, Walked, [Next]_vars PROVE Walked'
  OBVIOUS
<1>1. CASE Unlocked
  BY <1>1, WalkBegins
<1>2. CASE WakeupStep
  BY <1>2, WakeupStepWalked
<1>3. CASE /\ ~ Unlocked /\ UNCHANGED <<event, evlists, wk>>
           /\ \A u \in Thread : evobject'[u] # evobject[u] => event[u] = NoEvent
  <2> SUFFICES ASSUME wk.all, NEW i \in 1 .. Len(evlists[wk.event]), i < wk.pos
               PROVE  ~ evobject'[evlists[wk.event][i]] \in {NoObject, wk.object}
    BY <1>3 DEF Walked, Matches
  <2> DEFINE u == evlists[wk.event][i]
  <2>1. wk.event \in Event /\ u \in Thread
    BY <1>3 DEF IndInv, Coherent, TypeOK
  <2>2. event[u] = wk.event
    BY <2>1 DEF IndInv, EventsExact, InList
  <2>3. evobject'[u] = evobject[u]
    BY <1>3, <2>1, <2>2, SchedAssumption
  <2> QED BY <1>3, <2>3 DEF Walked, Matches
<1> QED BY <1>1, <1>2, <1>3, LockedLists

(* A wakeup of all threads leaves nobody behind who waits for the event    *)
(* and the object, although it unlinks threads from the list it walks.     *)
THEOREM SchedWakeupComplete == Spec => WakeupComplete
<1> DEFINE A == wk # NoWakeup /\ wk.all /\ wk' = NoWakeup =>
                  \A t \in Thread : event'[t] = wk.event => ~ Matches(t)
<1>1. Init => Walked
  BY DEF Init, Walked, Unlocked
<1>2. IndInv /\ Walked /\ [Next]_vars => [A]_vars
  <2> SUFFICES ASSUME IndInv, Walked, [Next]_vars, ~ Unlocked, wk.all,
                      wk' = NoWakeup, NEW t \in Thread, event'[t] = wk.event
               PROVE  ~ Matches(t)
    BY DEF Unlocked
  <2> DEFINE list == evlists[wk.event]
  <2>1. WakeupStep
    BY LockedLists DEF Unlocked
  <2>2. /\ wk.event \in Event /\ wk.pos \in Nat /\ list \in Seq(Thread)
        /\ wk \in [event : Event \cup {NoEvent}, object : Object \cup {NoObject},
                   all : BOOLEAN, pos : Nat]
    BY DEF IndInv, Coherent, TypeOK
  <2>3. [wk EXCEPT !.pos = @ + 1] # NoWakeup
    <3>1. [wk EXCEPT !.pos = @ + 1].event = wk.event
      BY <2>2
    <3> QED BY <2>2, <3>1, SchedAssumption DEF NoWakeup
  <2>4. Resume # NoWakeup
    BY DEF Resume, Unlocked
  <2>5. wk.pos > Len(list) /\ UNCHANGED event
    BY <2>1, <2>3, <2>4 DEF WakeupStep, thVars
  <2>6. InList(list, t)
    BY <2>2, <2>5 DEF IndInv, EventsExact
  <2>7. PICK i \in 1 .. Len(list) : list[i] = t
    BY <2>6 DEF InList
  <2>8. i < wk.pos
    BY <2>2, <2>5, <2>7
  <2> QED BY <2>7, <2>8 DEF Walked
<1>3. Spec => []Walked
  BY <1>1, WalkedInd, SchedInvariant, PTL DEF Spec
<1> QED BY <1>2, <1>3, SchedInvariant, PTL DEF Spec, WakeupComplete
=============================================================================
