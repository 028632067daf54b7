---------------------------- MODULE ProcsProofs ----------------------------
(***************************************************************************)
(* Processes are counted, reaped, waited for and released as they should   *)
(* be, for every number of processes and threads.                          *)
(***************************************************************************)
EXTENDS Procs, DList, FiniteSetTheorems, TLAPS

-----------------------------------------------------------------------------
(* What the list operations do to membership and to distinctness. *)

(* Appending links the new element and nothing else.                       *)
LEMMA AppendMembers ==
  ASSUME NEW S, NEW s \in Seq(S), NEW e \in S, NEW x
  PROVE  InList(Append(s, e), x) <=> InList(s, x) \/ x = e
<1> DEFINE a == Append(s, e)
<1>1. Len(a) = Len(s) + 1 /\ Len(s) \in Nat
  OBVIOUS
<1>2. \A i \in 1 .. Len(s) : a[i] = s[i]
  OBVIOUS
<1>3. a[Len(s) + 1] = e
  OBVIOUS
<1> HIDE DEF a
<1>4. InList(a, x) <=> InList(s, x) \/ x = e
  BY <1>1, <1>2, <1>3 DEF InList
<1> QED BY <1>4 DEF a

(* Appending an element that is not linked keeps the list distinct.        *)
LEMMA AppendDistinct ==
  ASSUME NEW S, NEW s \in Seq(S), NEW e \in S, Distinct(s), ~ InList(s, e)
  PROVE  Distinct(Append(s, e)) /\ Append(s, e) \in Seq(S)
<1> DEFINE a == Append(s, e)
<1>1. Len(a) = Len(s) + 1 /\ Len(s) \in Nat
  OBVIOUS
<1>2. \A i \in 1 .. Len(s) : a[i] = s[i]
  OBVIOUS
<1>3. a[Len(s) + 1] = e
  OBVIOUS
<1>5. a \in Seq(S)
  OBVIOUS
<1> HIDE DEF a
<1>4. Distinct(a)
  BY <1>1, <1>2, <1>3 DEF InList, Distinct
<1> QED BY <1>4, <1>5 DEF a

(* Taking the first element off a distinct list unlinks just that one.     *)
LEMMA TailMembers ==
  ASSUME NEW S, NEW s \in Seq(S), s # << >>, Distinct(s)
  PROVE  /\ Tail(s) \in Seq(S)
         /\ Head(s) \in S
         /\ InList(s, Head(s))
         /\ Distinct(Tail(s))
         /\ \A x : InList(Tail(s), x) <=> InList(s, x) /\ x # Head(s)
<1> DEFINE a == Tail(s)
<1>1. Len(a) = Len(s) - 1 /\ Len(s) \in Nat /\ Len(s) >= 1
  OBVIOUS
<1>2. \A i \in 1 .. Len(a) : a[i] = s[i + 1]
  OBVIOUS
<1>3. Head(s) = s[1] /\ s[1] \in S /\ a \in Seq(S)
  OBVIOUS
<1> HIDE DEF a
<1>4. Distinct(a)
  BY <1>1, <1>2 DEF Distinct
<1>5. ASSUME NEW x
      PROVE  InList(a, x) <=> InList(s, x) /\ x # s[1]
  <2>1. ASSUME InList(a, x)
        PROVE  InList(s, x) /\ x # s[1]
    BY <2>1, <1>1, <1>2 DEF InList, Distinct
  <2>2. ASSUME InList(s, x), x # s[1]
        PROVE  InList(a, x)
    <3>1. PICK i \in 1 .. Len(s) : s[i] = x
      BY <2>2 DEF InList
    <3>2. i - 1 \in 1 .. Len(a) /\ a[i - 1] = x
      BY <3>1, <2>2, <1>1, <1>2
    <3> QED BY <3>2 DEF InList
  <2> QED BY <2>1, <2>2
<1>6. InList(s, s[1])
  BY <1>1 DEF InList
<1> QED BY <1>3, <1>4, <1>5, <1>6 DEF a

-----------------------------------------------------------------------------
(* Which locks a thread holds follows from where it is.                    *)
HoldsOwn(t) ==
  \/ at[t].pc \in {"cl_add", "cl_fill", "cl_end"}
  \/ at[t].pc \in {"rel", "rm"} /\ at[t].ret = "cl_end"
HoldsTarget(t) ==
  at[t].pc \in {"kt_child", "kt_note", "ki_child", "ki_proc", "ki_loop",
                "ki_note", "ki_end"}
HoldsChild(t) ==
  at[t].pc \in {"kt_note", "wc_get", "wc_get_again", "wc_event", "ki_proc",
                "ki_loop", "ki_note"}

ProgExact ==
  \A t \in Thread, p \in Pid :
    prog[p] = t <=> \/ HoldsOwn(t) /\ home[t] = p
                    \/ HoldsTarget(t) /\ at[t].tgt = p

ChildExact ==
  /\ \A t \in Thread : HoldsChild(t) => childLock = t
  /\ \A t \in Thread : ~ kept /\ childLock = t => HoldsChild(t)
  /\ kept => childLock # None

OthersExact ==
  /\ \A t \in Thread : procLock = t <=> at[t].pc \in {"ki_loop", "ki_note"}
  /\ \A t \in Thread : refLock = t <=> at[t].pc = "rm"

(* What a thread remembers, by where it is.                                *)
Burying == {"idle", "kt_req", "kt", "kt_child", "kt_note"}
Returns == {"user", "te_req", "jo_req", "jo_wait", "fin_req", "gone", "idle", "cl_end"}

PlaceOf(t) ==
  /\ home[t] = None <=> at[t].pc = "free"
  /\ at[t].pc \in {"rel", "rm"} => at[t].ret \in Returns
  /\ at[t].pc \notin {"rel", "rm"} =>
       at[t].ret = IF at[t].pc \in {"kt_child", "kt_note"} THEN "idle" ELSE "user"
  /\ t = Terminator <=> at[t].pc \in Burying \/ at[t].ret = "idle"
  /\ at[t].pc \in {"clone", "cl_add", "cl_fill"} => at[t].tgt = home[t]
  /\ at[t].pc = "cl_fill" => at[t].arg \in Pid /\ at[t].arg # home[t]
  /\ at[t].ret = "cl_end" => at[t].tgt # home[t]
  /\ at[t].pc = "ki_req" => at[t].arg \in Pid

Places == home[Terminator] = 0 /\ \A t \in Thread : PlaceOf(t)

(* The threads that wait to be buried.                                     *)
Gone(t) == "gone" \in {at[t].pc, at[t].ret}

DeadExact ==
  /\ Distinct(deadThreads)
  /\ \A t \in Thread : InList(deadThreads, t) => Gone(t)
  /\ \A t \in Thread : at[t].pc \in {"kt_req", "kt"} =>
       /\ at[t].arg \in Thread /\ Gone(at[t].arg)
       /\ ~ InList(deadThreads, at[t].arg)
  /\ \A t \in Thread : at[t].pc = "kt" =>
       at[at[t].arg].pc = "gone" /\ home[at[t].arg] = at[t].tgt

(* The references are counted.                                             *)
Born(p) == IF p \in born THEN 1 ELSE 0

CountExact ==
  \A p \in Pid : refs[p] = Cardinality(Threads(p)) + Cardinality(Holders(p)) + Born(p)

LastGone ==
  /\ \A p \in Pid : p \notin present => refs[p] = 0
  /\ \A p \in Pid : p \in present /\ refs[p] = 0 =>
       \E t \in Thread : At(t, "rm") /\ at[t].tgt = p
  /\ \A t \in Thread : at[t].pc = "rm" => at[t].tgt \in present /\ refs[at[t].tgt] = 0

(* A process that has threads lives, and one that is dead is reaped once.  *)
Reaping == {"kill", "ki_child", "ki_proc", "ki_loop", "ki_note", "ki_end"}
Reaps(t, p) ==
  \/ at[t].pc = "ki_req" /\ at[t].arg = p
  \/ at[t].pc \in Reaping /\ at[t].tgt = p

Lives ==
  /\ \A t \in Thread : home[t] \in Pid =>
       home[t] \in born /\ life[home[t]] \in {"alive", "prezombie"}
  /\ \A p \in Pid \ present : life[p] = "alive" /\ code[p] = "none" /\ p \notin released
  /\ \A p \in Pid : life[p] = "zombie" => p \in born
  /\ \A t \in Thread, p \in Pid : Reaps(t, p) => life[p] = "killed" /\ p \in born
  /\ \A t, u \in Thread, p \in Pid : Reaps(t, p) /\ Reaps(u, p) => t = u
  /\ \A t \in Thread : at[t].pc \in {"kt_child", "kt_note"} =>
       life[at[t].tgt] \in {"zombie", "killed"}

(* A process that is being cloned belongs to the cloning thread alone.     *)
Unborn ==
  /\ \A t \in Thread : at[t].pc = "cl_fill" =>
       /\ at[t].arg \in born /\ life[at[t].arg] = "alive"
       /\ \A u \in Thread : home[u] # at[t].arg
       /\ \A c \in present : ppid[c] # at[t].arg
  /\ \A t, u \in Thread :
       at[t].pc = "cl_fill" /\ at[u].pc = "cl_fill" /\ at[t].arg = at[u].arg => t = u

Parents ==
  /\ OrphansAdopted
  /\ \A c \in Pid \ {0} : ppid[c] # c
  /\ \A t \in Thread : at[t].pc = "ki_end" =>
       \A c \in present : ppid[c] # at[t].tgt

(* Whoever is about to sleep in waitChild() has seen all zombies but those *)
(* whose death is still to be announced.                                   *)
Watches ==
  /\ NoLostChild
  /\ \A t \in Thread : at[t].pc = "wc_event" =>
       \A c \in Children(home[t]) : life[c] = "zombie" =>
         \E u \in Thread : at[u].pc = "kt_child" /\ at[u].tgt = c

(* Whoever waits in join() is not alone, and whoever goes on is.           *)
Ending(t) ==
  \/ at[t].pc \in {"jo_req", "join", "jo_wait", "fin_req", "finish"}
  \/ at[t].ret \in {"jo_req", "jo_wait", "fin_req"}

Joins ==
  /\ \A t \in Thread : "jo_wait" \in {at[t].pc, at[t].ret} /\ t \notin woken =>
       \E u \in Thread \ {t} : home[u] = home[t]
  /\ \A t \in Thread : at[t].pc \in {"fin_req", "finish"} \/ at[t].ret = "fin_req" =>
       \A u \in Thread : home[u] = home[t] => u = t
  /\ \A p \in Pid : code[p] # "none" =>
       p \in released \/ \E t \in Thread : home[t] = p /\ Ending(t)

ProcsInv ==
  /\ TypeOK /\ ProgExact /\ ChildExact /\ OthersExact /\ Places /\ DeadExact
  /\ CountExact /\ LastGone /\ Lives /\ Unborn /\ Parents /\ Watches /\ Joins

-----------------------------------------------------------------------------
(* How a step moves a thread.                                              *)
Spot == [pc : Points, tgt : Pid, ret : Points, arg : Pid \cup Thread \cup {None}]
AtType == at \in [Thread -> Spot]

Moved(t, pc, tgt, ret, arg) ==
  /\ at'[t].pc = pc /\ at'[t].tgt = tgt /\ at'[t].ret = ret /\ at'[t].arg = arg
  /\ \A u \in Thread \ {t} : at'[u] = at[u]

LEMMA PlaceOfThread ==
  ASSUME AtType, NEW t \in Thread
  PROVE  /\ at[t] \in Spot
         /\ at[t].pc \in Points /\ at[t].tgt \in Pid /\ at[t].ret \in Points
         /\ at[t].arg \in Pid \cup Thread \cup {None}
  BY DEF AtType, Spot

LEMMA GoMoves ==
  ASSUME AtType, NEW t \in Thread, NEW x \in Points, Go(t, x)
  PROVE  AtType' /\ Moved(t, x, at[t].tgt, at[t].ret, at[t].arg)
  BY DEF AtType, Spot, Go, Moved

LEMMA ReleaseMoves ==
  ASSUME AtType, NEW t \in Thread, NEW r \in Points, Release(t, r)
  PROVE  AtType' /\ Moved(t, "rel", at[t].tgt, r, at[t].arg)
<1>1. "rel" \in Points
  BY DEF Points, Referring
<1> QED BY <1>1 DEF AtType, Spot, Release, Moved

LEMMA RequestMoves ==
  ASSUME AtType, NEW t \in Thread, NEW p \in Pid, NEW x \in Points, Request(t, p, x)
  PROVE  AtType' /\ Moved(t, x, p, at[t].ret, at[t].arg)
  BY DEF AtType, Spot, Request, Moved

LEMMA ContinueMoves ==
  ASSUME AtType, NEW t \in Thread, Continue(t)
  PROVE  AtType' /\ Moved(t, at[t].ret, 0, "user", None)
<1>1. "user" \in Points /\ 0 \in Pid
  BY ProcsAssumption DEF Points
<1> QED BY <1>1 DEF AtType, Spot, Continue, Moved, Loc

LEMMA ArgMoves ==
  ASSUME AtType, NEW t \in Thread, NEW x \in Points,
         NEW a \in Pid \cup Thread \cup {None},
         at' = [at EXCEPT ![t].pc = x, ![t].arg = a]
  PROVE  AtType' /\ Moved(t, x, at[t].tgt, at[t].ret, a)
  BY DEF AtType, Spot, Moved

LEMMA ReferMoves ==
  ASSUME AtType, NEW t \in Thread, NEW p \in Pid,
         at' = [at EXCEPT ![t].pc = "rel", ![t].tgt = p, ![t].ret = "user"]
  PROVE  AtType' /\ Moved(t, "rel", p, "user", at[t].arg)
<1>1. "rel" \in Points /\ "user" \in Points
  BY DEF Points, Referring
<1> QED BY <1>1 DEF AtType, Spot, Moved

LEMMA CloneFailsMoves ==
  ASSUME AtType, NEW t \in Thread, at[t].arg \in Pid, CloneFails(t)
  PROVE  AtType' /\ Moved(t, "rel", at[t].arg, "cl_end", None)
<1>1. "rel" \in Points /\ "cl_end" \in Points
  BY DEF Points, Referring
<1> QED BY <1>1 DEF AtType, Spot, CloneFails, Moved

(* A thread n begins, or is buried, in a step of thread t.                 *)
Pair(t, n, pc, tgt, ret, arg, npc) ==
  /\ at'[t].pc = pc /\ at'[t].tgt = tgt /\ at'[t].ret = ret /\ at'[t].arg = arg
  /\ at'[n].pc = npc /\ at'[n].tgt = 0 /\ at'[n].ret = "user" /\ at'[n].arg = None
  /\ \A u \in Thread \ {t, n} : at'[u] = at[u]

LEMMA CloneDoneMoves ==
  ASSUME AtType, NEW t \in Thread, NEW n \in Thread, CloneDone(t, n)
  PROVE  AtType' /\ n # t /\ Pair(t, n, "rel", at[t].tgt, "user", None, "user")
<1>1. "rel" \in Points /\ "user" \in Points /\ 0 \in Pid
  BY ProcsAssumption DEF Points, Referring
<1>2. n # t
  BY DEF CloneDone, At
<1> QED BY <1>1, <1>2 DEF AtType, Spot, CloneDone, Pair, Loc

LEMMA StartThreadMoves ==
  ASSUME AtType, NEW t \in Thread, NEW n \in Thread, StartThread(t, n)
  PROVE  AtType' /\ n # t /\ Pair(t, n, "rel", at[t].tgt, "user", at[t].arg, "user")
<1>1. "rel" \in Points /\ "user" \in Points /\ 0 \in Pid
  BY ProcsAssumption DEF Points, Referring
<1>2. n # t
  BY DEF StartThread, At
<1> QED BY <1>1, <1>2 DEF AtType, Spot, StartThread, Pair, Loc

LEMMA KillThreadMoves ==
  ASSUME AtType, NEW t \in Thread, KillThread(t),
         at[t].arg \in Thread, at[at[t].arg].pc = "gone"
  PROVE  /\ AtType' /\ at[t].arg # t
         /\ Pair(t, at[t].arg,
                 IF IsLast(at[t].arg, at[t].tgt) THEN "kt_child" ELSE "rel",
                 at[t].tgt, "idle", None, "free")
<1>1. /\ "rel" \in Points /\ "kt_child" \in Points /\ "idle" \in Points
      /\ "free" \in Points /\ "user" \in Points /\ 0 \in Pid
  BY ProcsAssumption DEF Points, Referring
<1>2. at[t].arg # t
  BY DEF KillThread, At
<1> DEFINE d == at[t].arg
           x == IF IsLast(d, at[t].tgt) THEN "kt_child" ELSE "rel"
<1>3. x \in Points
  BY <1>1
<1>4. at' = [at EXCEPT ![d] = Loc("free"),
                       ![t] = [@ EXCEPT !.pc = x, !.ret = "idle", !.arg = None]]
  BY DEF KillThread
<1> HIDE DEF x
<1>5. AtType' /\ Pair(t, d, x, at[t].tgt, "idle", None, "free")
  BY <1>1, <1>2, <1>3, <1>4 DEF AtType, Spot, Pair, Loc
<1> QED BY <1>2, <1>5 DEF x

(* The steps, one component after the other.  A thread that is asked to do *)
(* something for a process has one, which is a pid.                        *)
LEMMA RefMoves ==
  ASSUME AtType, NEW t \in Thread
  PROVE  /\ RelRef(t) => /\ AtType'
                         /\ IF refs[at[t].tgt] = 1
                              THEN Moved(t, "rm", at[t].tgt, at[t].ret, at[t].arg)
                              ELSE Moved(t, at[t].ret, 0, "user", None)
         /\ Remove(t) => AtType' /\ Moved(t, at[t].ret, 0, "user", None)
         /\ \A p \in Pid : Peek(t, p) => AtType' /\ Moved(t, "rel", p, "user", at[t].arg)
         /\ \A x \in Points : home[t] \in Pid /\ OwnRequest(t, x) =>
              AtType' /\ Moved(t, x, home[t], at[t].ret, at[t].arg)
<1>1. RelRef(t) /\ refs[at[t].tgt] = 1 =>
        AtType' /\ Moved(t, "rm", at[t].tgt, at[t].ret, at[t].arg)
  <2>1. "rm" \in Points
    BY DEF Points
  <2> QED BY <2>1, GoMoves DEF RelRef
<1>2. RelRef(t) /\ refs[at[t].tgt] # 1 =>
        AtType' /\ Moved(t, at[t].ret, 0, "user", None)
  BY ContinueMoves DEF RelRef
<1>3. Remove(t) => AtType' /\ Moved(t, at[t].ret, 0, "user", None)
  BY ContinueMoves DEF Remove
<1>4. ASSUME NEW p \in Pid, Peek(t, p)
      PROVE  AtType' /\ Moved(t, "rel", p, "user", at[t].arg)
  BY <1>4, ReferMoves DEF Peek
<1>5. ASSUME NEW x \in Points, home[t] \in Pid, OwnRequest(t, x)
      PROVE  AtType' /\ Moved(t, x, home[t], at[t].ret, at[t].arg)
  BY <1>5, RequestMoves DEF OwnRequest
<1> QED BY <1>1, <1>2, <1>3, <1>4, <1>5

LEMMA CloneMoves ==
  ASSUME AtType, NEW t \in Thread
  PROVE  /\ Clone(t) => /\ AtType'
                        /\ IF Dying(home[t])
                             THEN Moved(t, "rel", at[t].tgt, "user", at[t].arg)
                             ELSE Moved(t, "cl_add", at[t].tgt, at[t].ret, at[t].arg)
         /\ \A q \in Pid : CloneAdd(t, q) =>
              AtType' /\ Moved(t, "cl_fill", at[t].tgt, at[t].ret, q)
         /\ CloneNoPid(t) => AtType' /\ Moved(t, "rel", at[t].tgt, "user", at[t].arg)
         /\ home[t] \in Pid /\ CloneEnd(t) =>
              AtType' /\ Moved(t, "rel", home[t], "user", at[t].arg)
         /\ home[t] \in Pid /\ StartRequest(t) =>
              AtType' /\ Moved(t, "start", home[t], at[t].ret, at[t].arg)
         /\ StartFails(t) => AtType' /\ Moved(t, "rel", at[t].tgt, "user", at[t].arg)
<1>0. {"user", "cl_add", "cl_fill", "start"} \subseteq Points
  BY DEF Points, Referring
<1>1. Clone(t) /\ Dying(home[t]) => AtType' /\ Moved(t, "rel", at[t].tgt, "user", at[t].arg)
  BY <1>0, ReleaseMoves DEF Clone
<1>2. Clone(t) /\ ~ Dying(home[t]) =>
        AtType' /\ Moved(t, "cl_add", at[t].tgt, at[t].ret, at[t].arg)
  BY <1>0, GoMoves DEF Clone
<1>3. ASSUME NEW q \in Pid, CloneAdd(t, q)
      PROVE  AtType' /\ Moved(t, "cl_fill", at[t].tgt, at[t].ret, q)
  BY <1>0, <1>3, ArgMoves DEF CloneAdd
<1>4. CloneNoPid(t) \/ StartFails(t) =>
        AtType' /\ Moved(t, "rel", at[t].tgt, "user", at[t].arg)
  BY <1>0, ReleaseMoves DEF CloneNoPid, StartFails
<1>5. home[t] \in Pid /\ CloneEnd(t) =>
        AtType' /\ Moved(t, "rel", home[t], "user", at[t].arg)
  BY ReferMoves DEF CloneEnd
<1>6. home[t] \in Pid /\ StartRequest(t) =>
        AtType' /\ Moved(t, "start", home[t], at[t].ret, at[t].arg)
  BY <1>0, RequestMoves DEF StartRequest
<1> QED BY <1>1, <1>2, <1>3, <1>4, <1>5, <1>6

LEMMA EndMoves ==
  ASSUME AtType, NEW t \in Thread
  PROVE  /\ TerminateThread(t) =>
              /\ AtType'
              /\ Moved(t, "rel", at[t].tgt,
                       IF Threads(home[t]) = {t} THEN "te_req" ELSE "gone", at[t].arg)
         /\ Terminate(t) =>
              /\ AtType'
              /\ Moved(t, "rel", at[t].tgt,
                       IF Dying(home[t]) THEN "gone" ELSE "jo_req", at[t].arg)
         /\ Join(t) =>
              /\ AtType'
              /\ Moved(t, "rel", at[t].tgt,
                       IF Threads(home[t]) = {t} THEN "fin_req" ELSE "jo_wait", at[t].arg)
         /\ JoinWoken(t) => AtType' /\ Moved(t, "jo_req", at[t].tgt, at[t].ret, at[t].arg)
         /\ Finish(t) => AtType' /\ Moved(t, "rel", at[t].tgt, "gone", at[t].arg)
<1>0. {"te_req", "jo_req", "fin_req", "jo_wait", "gone"} \subseteq Points
  BY DEF Points
<1>1. ASSUME NEW r \in {"te_req", "jo_req", "fin_req", "jo_wait", "gone"}, Release(t, r)
      PROVE  AtType' /\ Moved(t, "rel", at[t].tgt, r, at[t].arg)
  BY <1>0, <1>1, ReleaseMoves
<1>2. JoinWoken(t) => AtType' /\ Moved(t, "jo_req", at[t].tgt, at[t].ret, at[t].arg)
  BY <1>0, GoMoves DEF JoinWoken
<1>3. TerminateThread(t) =>
        Release(t, IF Threads(home[t]) = {t} THEN "te_req" ELSE "gone")
  BY DEF TerminateThread, Bury
<1>4. Terminate(t) => Release(t, IF Dying(home[t]) THEN "gone" ELSE "jo_req")
  BY DEF Terminate, Bury
<1>5. Join(t) => Release(t, IF Threads(home[t]) = {t} THEN "fin_req" ELSE "jo_wait")
  BY DEF Join
<1>6. Finish(t) => Release(t, "gone")
  BY DEF Finish, Bury
<1> QED BY <1>1, <1>2, <1>3, <1>4, <1>5, <1>6

LEMMA BuryMoves ==
  ASSUME AtType, NEW t \in Thread
  PROVE  /\ deadThreads \in Seq(Thread) /\ TakeDead(t) =>
              AtType' /\ Moved(t, "kt_req", at[t].tgt, at[t].ret, Head(deadThreads))
         /\ home[at[t].arg] \in Pid /\ KillThreadRequest(t) =>
              AtType' /\ Moved(t, "kt", home[at[t].arg], at[t].ret, at[t].arg)
         /\ KillThreadLock(t) =>
              AtType' /\ Moved(t, "kt_note", at[t].tgt, at[t].ret, at[t].arg)
         /\ KillThreadNotify(t) =>
              AtType' /\ Moved(t, "rel", at[t].tgt, "idle", at[t].arg)
<1>0. {"kt_req", "kt", "kt_note", "idle"} \subseteq Points
  BY DEF Points, Referring
<1>1. ASSUME deadThreads \in Seq(Thread), TakeDead(t)
      PROVE  AtType' /\ Moved(t, "kt_req", at[t].tgt, at[t].ret, Head(deadThreads))
  <2>1. Head(deadThreads) \in Thread
    BY <1>1 DEF TakeDead
  <2> QED BY <1>0, <1>1, <2>1, ArgMoves DEF TakeDead
<1>2. home[at[t].arg] \in Pid /\ KillThreadRequest(t) =>
        AtType' /\ Moved(t, "kt", home[at[t].arg], at[t].ret, at[t].arg)
  BY <1>0, RequestMoves DEF KillThreadRequest
<1>3. KillThreadLock(t) => AtType' /\ Moved(t, "kt_note", at[t].tgt, at[t].ret, at[t].arg)
  BY <1>0, GoMoves DEF KillThreadLock
<1>4. KillThreadNotify(t) => AtType' /\ Moved(t, "rel", at[t].tgt, "idle", at[t].arg)
  BY <1>0, ReleaseMoves DEF KillThreadNotify
<1> QED BY <1>1, <1>2, <1>3, <1>4

LEMMA WaitMoves ==
  ASSUME AtType, NEW t \in Thread
  PROVE  /\ WaitChild(t) => AtType' /\ Moved(t, "wc", at[t].tgt, at[t].ret, at[t].arg)
         /\ WaitLock(t) =>
              /\ AtType'
              /\ Moved(t, IF at[t].pc = "wc" THEN "wc_get" ELSE "wc_get_again",
                       at[t].tgt, at[t].ret, at[t].arg)
         /\ \A c \in Pid : GetExitState(t, c) =>
              AtType' /\ Moved(t, "ki_req", at[t].tgt, at[t].ret, c)
         /\ GetNoZombie(t) =>
              AtType' /\ Moved(t, "wc_event", at[t].tgt, at[t].ret, at[t].arg)
         /\ WaitEvent(t) => AtType' /\ Moved(t, "wc_wait", at[t].tgt, at[t].ret, at[t].arg)
         /\ GetNoChild(t) => AtType' /\ Moved(t, "user", at[t].tgt, at[t].ret, at[t].arg)
         /\ WaitWoken(t) =>
              /\ AtType'
              /\ Moved(t, IF t \in sig THEN "user" ELSE "wc_again",
                       at[t].tgt, at[t].ret, at[t].arg)
<1>0. {"wc", "wc_get", "wc_get_again", "wc_again", "wc_event", "wc_wait", "user", "ki_req"}
        \subseteq Points
  BY DEF Points
<1>1. ASSUME NEW x \in {"wc", "wc_get", "wc_get_again", "wc_again", "wc_event",
                        "wc_wait", "user"}, Go(t, x)
      PROVE  AtType' /\ Moved(t, x, at[t].tgt, at[t].ret, at[t].arg)
  BY <1>0, <1>1, GoMoves
<1>2. ASSUME NEW c \in Pid, GetExitState(t, c)
      PROVE  AtType' /\ Moved(t, "ki_req", at[t].tgt, at[t].ret, c)
  BY <1>0, <1>2, ArgMoves DEF GetExitState
<1>3. /\ WaitChild(t) => Go(t, "wc")
      /\ WaitLock(t) => Go(t, IF at[t].pc = "wc" THEN "wc_get" ELSE "wc_get_again")
      /\ GetNoZombie(t) => Go(t, "wc_event")
      /\ WaitEvent(t) => Go(t, "wc_wait")
      /\ GetNoChild(t) => Go(t, "user")
      /\ WaitWoken(t) => Go(t, IF t \in sig THEN "user" ELSE "wc_again")
  BY DEF WaitChild, WaitLock, GetNoZombie, WaitEvent, GetNoChild, WaitWoken, At
<1> QED BY <1>1, <1>2, <1>3

LEMMA KillMoves ==
  ASSUME AtType, NEW t \in Thread
  PROVE  /\ at[t].arg \in Pid /\ KillRequest(t) =>
              AtType' /\ Moved(t, "kill", at[t].arg, at[t].ret, at[t].arg)
         /\ Kill(t) => AtType' /\ Moved(t, "ki_child", at[t].tgt, at[t].ret, None)
         /\ KillLockChild(t) =>
              AtType' /\ Moved(t, "ki_proc", at[t].tgt, at[t].ret, at[t].arg)
         /\ KillLockProc(t) =>
              AtType' /\ Moved(t, "ki_loop", at[t].tgt, at[t].ret, at[t].arg)
         /\ \A c \in Pid : KillAdopt(t, c) =>
              /\ AtType'
              /\ Moved(t, IF life[c] \in {"zombie", "killed"} THEN "ki_note" ELSE "ki_loop",
                       at[t].tgt, at[t].ret, at[t].arg)
         /\ KillNotify(t) =>
              AtType' /\ Moved(t, "ki_loop", at[t].tgt, at[t].ret, at[t].arg)
         /\ KillUnlock(t) =>
              AtType' /\ Moved(t, "ki_end", at[t].tgt, at[t].ret, at[t].arg)
         /\ KillEnd(t) => AtType' /\ Moved(t, "rel", at[t].tgt, "user", at[t].arg)
<1>0. {"kill", "ki_child", "ki_proc", "ki_loop", "ki_note", "ki_end", "user"} \subseteq Points
  BY DEF Points, Referring
<1>1. ASSUME NEW x \in {"ki_proc", "ki_loop", "ki_note", "ki_end"}, Go(t, x)
      PROVE  AtType' /\ Moved(t, x, at[t].tgt, at[t].ret, at[t].arg)
  BY <1>0, <1>1, GoMoves
<1>2. at[t].arg \in Pid /\ KillRequest(t) =>
        AtType' /\ Moved(t, "kill", at[t].arg, at[t].ret, at[t].arg)
  BY <1>0, RequestMoves DEF KillRequest
<1>3. Kill(t) => AtType' /\ Moved(t, "ki_child", at[t].tgt, at[t].ret, None)
  BY <1>0, ArgMoves DEF Kill
<1>4. KillEnd(t) => AtType' /\ Moved(t, "rel", at[t].tgt, "user", at[t].arg)
  BY <1>0, ReleaseMoves DEF KillEnd
<1>5. /\ KillLockChild(t) => Go(t, "ki_proc")
      /\ KillLockProc(t) => Go(t, "ki_loop")
      /\ \A c \in Pid : KillAdopt(t, c) =>
           Go(t, IF life[c] \in {"zombie", "killed"} THEN "ki_note" ELSE "ki_loop")
      /\ KillNotify(t) => Go(t, "ki_loop")
      /\ KillUnlock(t) => Go(t, "ki_end")
  BY DEF KillLockChild, KillLockProc, KillAdopt, KillNotify, KillUnlock
<1> QED BY <1>1, <1>2, <1>3, <1>4, <1>5

(* What the proofs below use of the types and the places of threads.       *)
Typed ==
  /\ AtType
  /\ home \in [Thread -> Pid \cup {None}] /\ prog \in [Pid -> Thread \cup {None}]
  /\ \A t \in Thread : at[t].pc # "free" => home[t] \in Pid
  /\ \A t \in Thread : at[t].pc = "cl_fill" => at[t].arg \in Pid
  /\ \A t \in Thread : at[t].pc = "ki_req" => at[t].arg \in Pid
  /\ \A t \in Thread : at[t].pc \in {"kt_req", "kt"} =>
       at[t].arg \in Thread /\ home[at[t].arg] \in Pid
  /\ \A t \in Thread : at[t].pc = "kt" =>
       at[at[t].arg].pc = "gone" /\ home[at[t].arg] = at[t].tgt
  /\ deadThreads \in Seq(Thread)
  /\ None \notin Thread /\ None \notin Pid

LEMMA InvTyped ==
  ASSUME ProcsInv
  PROVE  Typed
<1>1. /\ AtType /\ home \in [Thread -> Pid \cup {None}]
      /\ prog \in [Pid -> Thread \cup {None}] /\ deadThreads \in Seq(Thread)
  BY DEF ProcsInv, TypeOK, AtType, Spot
<1>2. None \notin Thread /\ None \notin Pid
  BY ProcsAssumption
<1>3. \A t \in Thread : /\ at[t].pc # "free" => home[t] \in Pid
                        /\ at[t].pc = "cl_fill" => at[t].arg \in Pid
                        /\ at[t].pc = "ki_req" => at[t].arg \in Pid
  BY <1>1 DEF ProcsInv, Places, PlaceOf
<1>4. ASSUME NEW t \in Thread, at[t].pc \in {"kt_req", "kt"}
      PROVE  /\ at[t].arg \in Thread /\ home[at[t].arg] \in Pid
             /\ at[t].pc = "kt" => at[at[t].arg].pc = "gone" /\ home[at[t].arg] = at[t].tgt
  <2>1. /\ at[t].arg \in Thread /\ Gone(at[t].arg)
        /\ at[t].pc = "kt" => at[at[t].arg].pc = "gone" /\ home[at[t].arg] = at[t].tgt
    BY <1>4 DEF ProcsInv, DeadExact
  <2>2. at[at[t].arg].pc # "free"
    BY <2>1 DEF ProcsInv, Places, PlaceOf, Gone
  <2> QED BY <1>3, <2>1, <2>2
<1> QED BY <1>1, <1>2, <1>3, <1>4 DEF Typed

LEMMA TypedMoves ==
  ASSUME Typed, NEW t \in Thread
  PROVE  /\ \A x \in {"clone", "exit", "term", "join", "finish"} : OwnRequest(t, x) =>
              AtType' /\ home[t] \in Pid /\ Moved(t, x, home[t], at[t].ret, at[t].arg)
         /\ CloneEnd(t) => AtType' /\ home[t] \in Pid /\ Moved(t, "rel", home[t], "user", at[t].arg)
         /\ StartRequest(t) =>
              AtType' /\ home[t] \in Pid /\ Moved(t, "start", home[t], at[t].ret, at[t].arg)
         /\ CloneFails(t) =>
              AtType' /\ at[t].arg \in Pid /\ Moved(t, "rel", at[t].arg, "cl_end", None)
         /\ TakeDead(t) =>
              AtType' /\ Moved(t, "kt_req", at[t].tgt, at[t].ret, Head(deadThreads))
         /\ KillThreadRequest(t) =>
              AtType' /\ Moved(t, "kt", home[at[t].arg], at[t].ret, at[t].arg)
         /\ KillRequest(t) => AtType' /\ Moved(t, "kill", at[t].arg, at[t].ret, at[t].arg)
         /\ KillThread(t) =>
              /\ AtType' /\ at[t].arg # t
              /\ Pair(t, at[t].arg,
                      IF IsLast(at[t].arg, at[t].tgt) THEN "kt_child" ELSE "rel",
                      at[t].tgt, "idle", None, "free")
<1>0. AtType /\ {"clone", "exit", "term", "join", "finish"} \subseteq Points
  BY DEF Typed, Points, Referring
<1>1. ASSUME NEW x \in {"clone", "exit", "term", "join", "finish"}, OwnRequest(t, x)
      PROVE  AtType' /\ home[t] \in Pid /\ Moved(t, x, home[t], at[t].ret, at[t].arg)
  <2>1. at[t].pc # "free"
    BY <1>1 DEF OwnRequest, At
  <2> QED BY <1>0, <1>1, <2>1, RefMoves DEF Typed
<1>2. /\ CloneEnd(t) => AtType' /\ home[t] \in Pid /\ Moved(t, "rel", home[t], "user", at[t].arg)
      /\ StartRequest(t) =>
           AtType' /\ home[t] \in Pid /\ Moved(t, "start", home[t], at[t].ret, at[t].arg)
  <2>1. CloneEnd(t) \/ StartRequest(t) => home[t] \in Pid
    BY DEF CloneEnd, StartRequest, At, Typed
  <2> QED BY <1>0, <2>1, CloneMoves
<1>3. CloneFails(t) => AtType' /\ at[t].arg \in Pid /\ Moved(t, "rel", at[t].arg, "cl_end", None)
  <2>1. CloneFails(t) => at[t].arg \in Pid
    BY DEF CloneFails, At, Typed
  <2> QED BY <1>0, <2>1, CloneFailsMoves
<1>4. /\ TakeDead(t) => AtType' /\ Moved(t, "kt_req", at[t].tgt, at[t].ret, Head(deadThreads))
      /\ KillThreadRequest(t) => AtType' /\ Moved(t, "kt", home[at[t].arg], at[t].ret, at[t].arg)
  <2>1. deadThreads \in Seq(Thread) /\ (KillThreadRequest(t) => home[at[t].arg] \in Pid)
    BY DEF KillThreadRequest, At, Typed
  <2> QED BY <1>0, <2>1, BuryMoves
<1>5. KillRequest(t) => AtType' /\ Moved(t, "kill", at[t].arg, at[t].ret, at[t].arg)
  <2>1. KillRequest(t) => at[t].arg \in Pid
    BY DEF KillRequest, At, Typed
  <2> QED BY <1>0, <2>1, KillMoves
<1>6. KillThread(t) =>
        /\ AtType' /\ at[t].arg # t
        /\ Pair(t, at[t].arg,
                IF IsLast(at[t].arg, at[t].tgt) THEN "kt_child" ELSE "rel",
                at[t].tgt, "idle", None, "free")
  <2>1. KillThread(t) => at[t].arg \in Thread /\ at[at[t].arg].pc = "gone"
    BY DEF KillThread, At, Typed
  <2> QED BY <1>0, <2>1, KillThreadMoves
<1> QED BY <1>1, <1>2, <1>3, <1>4, <1>5, <1>6
(* A process without references has no threads, nobody works on it, and it *)
(* has given back the reference with which it was born.                    *)
LEMMA Unreferenced ==
  ASSUME ProcsInv, NEW p \in Pid, refs[p] = 0
  PROVE  Threads(p) = {} /\ Holders(p) = {} /\ p \notin born
<1>1. IsFiniteSet(Threads(p)) /\ IsFiniteSet(Holders(p))
  BY ProcsAssumption, FS_Subset DEF Threads, Holders
<1>2. Cardinality(Threads(p)) \in Nat /\ Cardinality(Holders(p)) \in Nat
  BY <1>1, FS_CardinalityType
<1>3. Cardinality(Threads(p)) + Cardinality(Holders(p)) + Born(p) = 0
  BY DEF ProcsInv, CountExact
<1>4. Born(p) \in {0, 1} /\ (Born(p) = 0 => p \notin born)
  BY DEF Born
<1>5. Cardinality(Threads(p)) = 0 /\ Cardinality(Holders(p)) = 0 /\ Born(p) = 0
  BY <1>2, <1>3, <1>4
<1> QED BY <1>1, <1>4, <1>5, FS_EmptySet

(* Whoever is referred to exists, and so do the processes with threads.    *)
LEMMA Present ==
  ASSUME ProcsInv
  PROVE  /\ born \subseteq present
         /\ \A t \in Thread : home[t] \in Pid => home[t] \in born /\ home[t] \in present
         /\ \A t \in Thread : at[t].pc \in Referring =>
              at[t].tgt \in present /\ refs[at[t].tgt] # 0
<1>0. Typed /\ born \subseteq Pid
  BY InvTyped DEF ProcsInv, TypeOK
<1>1. \A p \in Pid : p \notin present => refs[p] = 0
  BY DEF ProcsInv, LastGone
<1>2. born \subseteq present
  BY <1>0, <1>1, Unreferenced
<1>3. \A t \in Thread : home[t] \in Pid => home[t] \in born /\ home[t] \in present
  BY <1>2 DEF ProcsInv, Lives
<1>4. ASSUME NEW t \in Thread, at[t].pc \in Referring
      PROVE  at[t].tgt \in present /\ refs[at[t].tgt] # 0
  <2>1. at[t].tgt \in Pid /\ t \in Holders(at[t].tgt)
    BY <1>0, <1>4, PlaceOfThread DEF Typed, Holders
  <2> QED BY <1>1, <2>1, Unreferenced
<1> QED BY <1>2, <1>3, <1>4

(* A thread that ends its process is still one of its threads.             *)
LEMMA EndingHome ==
  ASSUME Typed, Places, NEW t \in Thread, Ending(t)
  PROVE  home[t] \in Pid
<1>1. at[t].pc # "free"
  BY DEF Places, PlaceOf, Ending
<1> QED BY <1>1 DEF Typed

(* The types, apart from what the threads do.                              *)
Fields ==
  /\ present \subseteq Pid /\ released \subseteq Pid /\ born \subseteq Pid
  /\ ppid \in [Pid -> Pid] /\ refs \in [Pid -> Nat]
  /\ life \in [Pid -> {"alive", "prezombie", "zombie", "killed"}]
  /\ code \in [Pid -> {"none", "exit", "signal"}]
  /\ home \in [Thread -> Pid \cup {None}]
  /\ sig \subseteq Thread /\ woken \subseteq Thread
  /\ deadThreads \in Seq(Thread)
  /\ prog \in [Pid -> Thread \cup {None}]
  /\ childLock \in Thread \cup {None} /\ procLock \in Thread \cup {None}
  /\ refLock \in Thread \cup {None} /\ kept \in BOOLEAN

(* How the number of references to a process changes with a step of thread *)
(* t in which only thread n may enter or leave a process.                  *)
Refers(t, p) ==
  \/ at[t].pc \in Referring /\ at[t].tgt = p
  \/ "cl_end" \in {at[t].pc, at[t].ret} /\ home[t] = p
Ref(t, p) == IF Refers(t, p) THEN 1 ELSE 0
In(t, p)  == IF home[t] = p THEN 1 ELSE 0

(* A finite set that changes in one element at most.                       *)
LEMMA OneElement ==
  ASSUME NEW S, IsFiniteSet(S), NEW T, NEW e,
         \A x : x # e => (x \in S <=> x \in T)
  PROVE  /\ IsFiniteSet(T) /\ Cardinality(S) \in Nat /\ Cardinality(T) \in Nat
         /\ Cardinality(T) + (IF e \in S THEN 1 ELSE 0)
              = Cardinality(S) + (IF e \in T THEN 1 ELSE 0)
<1>0. Cardinality(S) \in Nat
  BY FS_CardinalityType
<1>1. CASE (e \in S) <=> (e \in T)
  <2>1. S = T
    BY <1>1
  <2> QED BY <1>0, <1>1, <2>1
<1>2. CASE e \in S /\ e \notin T
  <2>1. T = S \ {e}
    BY <1>2
  <2>2. IsFiniteSet(T) /\ Cardinality(T) = Cardinality(S) - 1
    BY <1>2, <2>1, FS_RemoveElement
  <2>3. Cardinality(T) \in Nat
    BY <2>2, FS_CardinalityType
  <2> QED BY <1>0, <1>2, <2>2, <2>3
<1>3. CASE e \notin S /\ e \in T
  <2>1. T = S \cup {e}
    BY <1>3
  <2>2. IsFiniteSet(T) /\ Cardinality(T) = Cardinality(S) + 1
    BY <1>3, <2>1, FS_AddElement
  <2> QED BY <1>0, <1>3, <2>2
<1> QED BY <1>1, <1>2, <1>3

LEMMA Balanced ==
  ASSUME ProcsInv, NEW t \in Thread, NEW n \in Thread,
         \A u \in Thread \ {t}, p \in Pid : Refers(u, p)' <=> Refers(u, p),
         \A u \in Thread \ {n} : home'[u] = home[u],
         \A p \in Pid : refs'[p] + Ref(t, p) + In(n, p) + Born(p)
                          = refs[p] + Ref(t, p)' + In(n, p)' + Born(p)',
         refs' \in [Pid -> Nat]
  PROVE  CountExact'
<1> SUFFICES ASSUME NEW p \in Pid
             PROVE  refs'[p] = Cardinality(Threads(p)') + Cardinality(Holders(p)') + Born(p)'
  BY DEF CountExact
<1>0. /\ refs[p] = Cardinality(Threads(p)) + Cardinality(Holders(p)) + Born(p)
      /\ refs'[p] + Ref(t, p) + In(n, p) + Born(p)
           = refs[p] + Ref(t, p)' + In(n, p)' + Born(p)'
      /\ refs'[p] \in Nat
  BY DEF ProcsInv, CountExact
<1>1. /\ Threads(p) = {u \in Thread : home[u] = p}
      /\ Threads(p)' = {u \in Thread : home'[u] = p}
      /\ Holders(p) = {u \in Thread : Refers(u, p)}
      /\ Holders(p)' = {u \in Thread : Refers(u, p)'}
  BY DEF Threads, Holders, Refers
<1>2. IsFiniteSet(Threads(p)) /\ IsFiniteSet(Holders(p))
  BY <1>1, ProcsAssumption, FS_Subset
<1>3. /\ Cardinality(Threads(p)) \in Nat /\ Cardinality(Threads(p)') \in Nat
      /\ Cardinality(Threads(p)') + In(n, p) = Cardinality(Threads(p)) + In(n, p)'
  <2>1. \A u : u # n => (u \in Threads(p) <=> u \in Threads(p)')
    BY <1>1
  <2>2. In(n, p) = (IF n \in Threads(p) THEN 1 ELSE 0)
    BY <1>1 DEF In
  <2>3. In(n, p)' = (IF n \in Threads(p)' THEN 1 ELSE 0)
    BY <1>1 DEF In
  <2> DEFINE S == Threads(p)
             T == Threads(p)'
  <2>4. IsFiniteSet(S) /\ \A u : u # n => (u \in S <=> u \in T)
    BY <1>2, <2>1
  <2> HIDE DEF S, T
  <2>5. /\ Cardinality(S) \in Nat /\ Cardinality(T) \in Nat
        /\ Cardinality(T) + (IF n \in S THEN 1 ELSE 0) = Cardinality(S) + (IF n \in T THEN 1 ELSE 0)
    BY <2>4, OneElement
  <2> QED BY <2>2, <2>3, <2>5 DEF S, T
<1>4. /\ Cardinality(Holders(p)) \in Nat /\ Cardinality(Holders(p)') \in Nat
      /\ Cardinality(Holders(p)') + Ref(t, p) = Cardinality(Holders(p)) + Ref(t, p)'
  <2>1. \A u : u # t => (u \in Holders(p) <=> u \in Holders(p)')
    BY <1>1
  <2>2. Ref(t, p) = (IF t \in Holders(p) THEN 1 ELSE 0)
    BY <1>1 DEF Ref
  <2>3. Ref(t, p)' = (IF t \in Holders(p)' THEN 1 ELSE 0)
    BY <1>1 DEF Ref
  <2> DEFINE S == Holders(p)
             T == Holders(p)'
  <2>4. IsFiniteSet(S) /\ \A u : u # t => (u \in S <=> u \in T)
    BY <1>2, <2>1
  <2> HIDE DEF S, T
  <2>5. /\ Cardinality(S) \in Nat /\ Cardinality(T) \in Nat
        /\ Cardinality(T) + (IF t \in S THEN 1 ELSE 0) = Cardinality(S) + (IF t \in T THEN 1 ELSE 0)
    BY <2>4, OneElement
  <2> QED BY <2>2, <2>3, <2>5 DEF S, T
<1>5. /\ Ref(t, p) \in {0, 1} /\ In(n, p) \in {0, 1} /\ Born(p) \in {0, 1}
      /\ Ref(t, p)' \in {0, 1} /\ In(n, p)' \in {0, 1} /\ Born(p)' \in {0, 1}
  BY DEF Ref, In, Born
<1> QED BY <1>0, <1>3, <1>4, <1>5

(* A process has as many references as anybody who counts on them.         *)
LEMMA Enough ==
  ASSUME ProcsInv, NEW t \in Thread, NEW n \in Thread, NEW p \in Pid
  PROVE  refs[p] \in Nat /\ refs[p] >= Ref(t, p) + In(n, p) + Born(p)
<1>0. refs[p] \in Nat /\ refs[p] = Cardinality(Threads(p)) + Cardinality(Holders(p)) + Born(p)
  BY DEF ProcsInv, CountExact, TypeOK
<1>1. /\ Threads(p) = {u \in Thread : home[u] = p}
      /\ Holders(p) = {u \in Thread : Refers(u, p)}
  BY DEF Threads, Holders, Refers
<1>2. IsFiniteSet(Threads(p)) /\ IsFiniteSet(Holders(p))
  BY <1>1, ProcsAssumption, FS_Subset
<1>3. Cardinality(Threads(p)) \in Nat /\ Cardinality(Threads(p)) >= In(n, p)
  <2>1. Cardinality(Threads(p)) \in Nat /\ (Cardinality(Threads(p)) = 0 => Threads(p) = {})
    BY <1>2, FS_CardinalityType, FS_EmptySet
  <2>2. In(n, p) = (IF n \in Threads(p) THEN 1 ELSE 0)
    BY <1>1 DEF In
  <2> QED BY <2>1, <2>2
<1>4. Cardinality(Holders(p)) \in Nat /\ Cardinality(Holders(p)) >= Ref(t, p)
  <2>1. Cardinality(Holders(p)) \in Nat /\ (Cardinality(Holders(p)) = 0 => Holders(p) = {})
    BY <1>2, FS_CardinalityType, FS_EmptySet
  <2>2. Ref(t, p) = (IF t \in Holders(p) THEN 1 ELSE 0)
    BY <1>1 DEF Ref
  <2> QED BY <2>1, <2>2
<1>5. Ref(t, p) \in {0, 1} /\ In(n, p) \in {0, 1} /\ Born(p) \in {0, 1}
  BY DEF Ref, In, Born
<1> QED BY <1>0, <1>3, <1>4, <1>5

LEMMA CountUnmoved ==
  ASSUME ProcsInv, UNCHANGED <<refs, home, born>>,
         \A u \in Thread, p \in Pid : Refers(u, p)' <=> Refers(u, p)
  PROVE  CountExact'
<1>1. \A p \in Pid : Threads(p)' = Threads(p) /\ Holders(p)' = Holders(p) /\ Born(p)' = Born(p)
  BY DEF Threads, Holders, Refers, Born
<1>2. \A p \in Pid : refs[p] = Cardinality(Threads(p)) + Cardinality(Holders(p)) + Born(p)
  BY DEF ProcsInv, CountExact
<1> QED BY <1>1, <1>2 DEF CountExact

-----------------------------------------------------------------------------
(* What every step of thread t relies on.                                  *)
Stands(t) ==
  /\ AtType /\ Typed /\ Fields
  /\ None \notin Thread /\ None \notin Pid /\ 0 \in Pid /\ Terminator \in Thread
  /\ prog \in [Pid -> Thread \cup {None}] /\ home \in [Thread -> Pid \cup {None}]
  /\ life \in [Pid -> {"alive", "prezombie", "zombie", "killed"}]
  /\ code \in [Pid -> {"none", "exit", "signal"}]
  /\ ppid \in [Pid -> Pid] /\ refs \in [Pid -> Nat]
  /\ present \subseteq Pid /\ born \subseteq present
  /\ at[t].tgt \in Pid /\ (at[t].pc # "free" => home[t] \in Pid)
  /\ PlaceOf(t)
  /\ \A u \in Thread : home[u] \in Pid => home[u] \in born /\ home[u] \in present
  /\ at[t].pc \in {"rel", "rm"} =>
       at[t].ret \in {"user", "te_req", "jo_req", "jo_wait", "fin_req", "gone", "idle", "cl_end"}
  /\ at[t].pc = "kt" =>
       /\ at[t].arg \in Thread /\ at[at[t].arg].pc = "gone"
       /\ home[at[t].arg] = at[t].tgt /\ home[at[t].arg] \in Pid

LEMMA Standing ==
  ASSUME ProcsInv, NEW t \in Thread
  PROVE  Stands(t)
<1>1. /\ AtType /\ Typed /\ Fields /\ Places
  BY InvTyped DEF ProcsInv, TypeOK, Fields, Typed
<1>2. /\ prog \in [Pid -> Thread \cup {None}] /\ home \in [Thread -> Pid \cup {None}]
      /\ life \in [Pid -> {"alive", "prezombie", "zombie", "killed"}]
      /\ code \in [Pid -> {"none", "exit", "signal"}]
      /\ ppid \in [Pid -> Pid] /\ refs \in [Pid -> Nat] /\ present \subseteq Pid
  BY <1>1 DEF Fields
<1>3. /\ None \notin Thread /\ None \notin Pid /\ 0 \in Pid /\ Terminator \in Thread
  BY ProcsAssumption
<1>4. /\ born \subseteq present
      /\ \A u \in Thread : home[u] \in Pid => home[u] \in born /\ home[u] \in present
  BY Present
<1>5. at[t].tgt \in Pid /\ (at[t].pc # "free" => home[t] \in Pid) /\ PlaceOf(t)
  BY <1>1, PlaceOfThread DEF Typed, Places
<1>6. at[t].pc \in {"rel", "rm"} =>
        at[t].ret \in {"user", "te_req", "jo_req", "jo_wait", "fin_req", "gone", "idle", "cl_end"}
  BY <1>5 DEF PlaceOf, Returns
<1>7. at[t].pc = "kt" =>
        /\ at[t].arg \in Thread /\ at[at[t].arg].pc = "gone"
        /\ home[at[t].arg] = at[t].tgt /\ home[at[t].arg] \in Pid
  BY <1>1 DEF Typed
<1> QED BY <1>1, <1>2, <1>3, <1>4, <1>5, <1>6, <1>7 DEF Stands

-----------------------------------------------------------------------------
(* Every step of a thread keeps the invariant, conjunct by conjunct: f is  *)
(* what it relies on, e, s and d what it does to processes, to waiting     *)
(* threads and to the dead, m where it goes.                               *)

(* relRef() gives back the last reference and goes on with refLock.        *)
LEMMA RelRefLastKeeps ==
  ASSUME ProcsInv, NEW t \in Thread, RelRef(t), refs[at[t].tgt] = 1
  PROVE  ProcsInv'
<1>f. Stands(t)
  BY Standing
<1>e. /\ at[t].pc = "rel" /\ refLock = None /\ refs[at[t].tgt] = 1
      /\ refs' = [refs EXCEPT ![at[t].tgt] = 0] /\ refLock' = t
      /\ UNCHANGED <<present, ppid, life, code, released, born, home, prog, childLock,
           procLock, kept>>
  BY DEF RelRef, At, procVars, lockVars
<1>s. /\ UNCHANGED <<sig, woken>>
  BY DEF RelRef, At, procVars, lockVars
<1>m. AtType' /\ Moved(t, "rm", at[t].tgt, at[t].ret, at[t].arg)
  BY <1>f, RefMoves DEF Stands
<1>d. /\ UNCHANGED deadThreads
  BY DEF RelRef, At, procVars, lockVars
<1>i. /\ ProgExact /\ ChildExact /\ OthersExact /\ Places /\ DeadExact /\ CountExact
      /\ LastGone /\ Lives /\ Unborn /\ Parents /\ Watches /\ Joins
  BY DEF ProcsInv
<1>1. TypeOK'
  <2>1. Fields'
    BY <1>f, <1>e, <1>s, <1>d DEF Stands, Fields
  <2> QED BY <1>m, <2>1 DEF TypeOK, AtType, Spot, Fields
<1>2. ProgExact'
  BY <1>f, <1>e, <1>m, <1>i DEF Stands, Moved, ProgExact, HoldsOwn, HoldsTarget
<1>3. ChildExact'
  BY <1>f, <1>e, <1>m, <1>i DEF Stands, Moved, ChildExact, HoldsChild
<1>4. OthersExact'
  BY <1>f, <1>e, <1>m, <1>i DEF Stands, Moved, OthersExact
<1>5. Places'
  BY <1>f, <1>e, <1>m, <1>i DEF Stands, Moved, Places, PlaceOf, Burying, Returns
<1>6. DeadExact'
  BY <1>f, <1>e, <1>d, <1>m, <1>i DEF Stands, Moved, DeadExact, Gone, PlaceOf
<1>7. CountExact'
  <2>2. \A u \in Thread \ {t}, p \in Pid : Refers(u, p)' <=> Refers(u, p)
    BY <1>e, <1>m DEF Moved, Refers
  <2>3. \A p \in Pid : refs'[p] + Ref(t, p) + In(t, p) + Born(p)
                        = refs[p] + Ref(t, p)' + In(t, p)' + Born(p)'
    BY <1>f, <1>e, <1>m DEF Stands, Moved, Ref, Refers, Referring, In, Born, PlaceOf
  <2>4. refs' \in [Pid -> Nat] /\ \A u \in Thread \ {t} : home'[u] = home[u]
    BY <1>f, <1>e, <1>1 DEF Stands, TypeOK
  <2> QED BY <2>2, <2>3, <2>4, Balanced
<1>8. LastGone'
  <2>1. at[t].tgt \in present /\ refs[at[t].tgt] # 0
    BY <1>e, Present DEF Referring
  <2>2. \A u \in Thread : at[u].pc # "rm"
    BY <1>f, <1>e, <1>i DEF Stands, OthersExact
  <2> QED BY <1>f, <1>e, <1>m, <1>i, <2>1, <2>2 DEF Stands, Moved, LastGone, At
<1>9. Lives'
  <2>1. \A u \in Thread, p \in Pid : Reaps(u, p)' => Reaps(u, p)
    BY <1>f, <1>e, <1>m DEF Stands, Moved, Reaps, Reaping
  <2> QED BY <1>f, <1>e, <1>m, <1>i, <2>1 DEF Stands, Moved, Lives
<1>10. Unborn'
  BY <1>f, <1>e, <1>m, <1>i DEF Stands, Moved, Unborn
<1>11. Parents'
  BY <1>f, <1>e, <1>m, <1>i DEF Stands, Moved, Parents, OrphansAdopted
<1>12. Watches'
  BY <1>f, <1>e, <1>s, <1>m, <1>i DEF Stands, Moved, Watches, NoLostChild, Children, At
<1>13. Joins'
  BY <1>f, <1>e, <1>s, <1>m, <1>i DEF Stands, Moved, Joins, Ending, PlaceOf
<1> QED BY <1>1, <1>2, <1>3, <1>4, <1>5, <1>6, <1>7, <1>8, <1>9, <1>10, <1>11, <1>12, <1>13
           DEF ProcsInv

(* relRef() gives back a reference that is not the last.                   *)
LEMMA RelRefMoreKeeps ==
  ASSUME ProcsInv, NEW t \in Thread, RelRef(t), refs[at[t].tgt] # 1
  PROVE  ProcsInv'
<1>f. Stands(t)
  BY Standing
<1>e. /\ at[t].pc = "rel" /\ refLock = None /\ refs[at[t].tgt] # 1
      /\ refs' = [refs EXCEPT ![at[t].tgt] = @ - 1]
      /\ UNCHANGED <<present, ppid, life, code, released, born, home, prog, childLock,
           procLock, refLock, kept>>
  BY DEF RelRef, At, procVars, lockVars
<1>s. /\ UNCHANGED <<sig, woken>>
  BY DEF RelRef, At, procVars, lockVars
<1>m. AtType' /\ Moved(t, at[t].ret, 0, "user", None)
  BY <1>f, RefMoves DEF Stands
<1>d. /\ UNCHANGED deadThreads
  BY DEF RelRef, At, procVars, lockVars
<1>i. /\ ProgExact /\ ChildExact /\ OthersExact /\ Places /\ DeadExact /\ CountExact
      /\ LastGone /\ Lives /\ Unborn /\ Parents /\ Watches /\ Joins
  BY DEF ProcsInv
<1>1. TypeOK'
  <2>1. refs[at[t].tgt] \in Nat \ {0}
    BY <1>f, <1>e, Present DEF Stands, Referring
  <2>2. Fields'
    BY <1>f, <1>e, <1>s, <1>d, <2>1 DEF Stands, Fields
  <2> QED BY <1>m, <2>2 DEF TypeOK, AtType, Spot, Fields
<1>2. ProgExact'
  BY <1>f, <1>e, <1>m, <1>i DEF Stands, Moved, ProgExact, HoldsOwn, HoldsTarget
<1>3. ChildExact'
  BY <1>f, <1>e, <1>m, <1>i DEF Stands, Moved, ChildExact, HoldsChild
<1>4. OthersExact'
  BY <1>f, <1>e, <1>m, <1>i DEF Stands, Moved, OthersExact
<1>5. Places'
  BY <1>f, <1>e, <1>m, <1>i DEF Stands, Moved, Places, PlaceOf, Burying, Returns
<1>6. DeadExact'
  BY <1>f, <1>e, <1>d, <1>m, <1>i DEF Stands, Moved, DeadExact, Gone, PlaceOf
<1>7. CountExact'
  <2>2. \A u \in Thread \ {t}, p \in Pid : Refers(u, p)' <=> Refers(u, p)
    BY <1>e, <1>m DEF Moved, Refers
  <2>3. \A p \in Pid : refs'[p] + Ref(t, p) + In(t, p) + Born(p)
                        = refs[p] + Ref(t, p)' + In(t, p)' + Born(p)'
    BY <1>f, <1>e, <1>m DEF Stands, Moved, Ref, Refers, Referring, In, Born, PlaceOf
  <2>4. refs' \in [Pid -> Nat] /\ \A u \in Thread \ {t} : home'[u] = home[u]
    BY <1>f, <1>e, <1>1 DEF Stands, TypeOK
  <2> QED BY <2>2, <2>3, <2>4, Balanced
<1>8. LastGone'
  <2>1. at[t].tgt \in present /\ refs[at[t].tgt] # 0
    BY <1>e, Present DEF Referring
  <2>2. \A u \in Thread : at[u].pc # "rm"
    BY <1>f, <1>e, <1>i DEF Stands, OthersExact
  <2> QED BY <1>f, <1>e, <1>m, <1>i, <2>1, <2>2 DEF Stands, Moved, LastGone, At
<1>9. Lives'
  <2>1. \A u \in Thread, p \in Pid : Reaps(u, p)' => Reaps(u, p)
    BY <1>f, <1>e, <1>m DEF Stands, Moved, Reaps, Reaping
  <2> QED BY <1>f, <1>e, <1>m, <1>i, <2>1 DEF Stands, Moved, Lives
<1>10. Unborn'
  BY <1>f, <1>e, <1>m, <1>i DEF Stands, Moved, Unborn
<1>11. Parents'
  BY <1>f, <1>e, <1>m, <1>i DEF Stands, Moved, Parents, OrphansAdopted
<1>12. Watches'
  BY <1>f, <1>e, <1>s, <1>m, <1>i DEF Stands, Moved, Watches, NoLostChild, Children, At
<1>13. Joins'
  BY <1>f, <1>e, <1>s, <1>m, <1>i DEF Stands, Moved, Joins, Ending, PlaceOf
<1> QED BY <1>1, <1>2, <1>3, <1>4, <1>5, <1>6, <1>7, <1>8, <1>9, <1>10, <1>11, <1>12, <1>13
           DEF ProcsInv

(* The process leaves the lists and refLock is released.                   *)
LEMMA RemoveKeeps ==
  ASSUME ProcsInv, NEW t \in Thread, Remove(t)
  PROVE  ProcsInv'
<1>f. Stands(t)
  BY Standing
<1>e. /\ at[t].pc = "rm" /\ procLock = None /\ present' = present \ {at[t].tgt}
      /\ ppid' = [ppid EXCEPT ![at[t].tgt] = 0]
      /\ life' = [life EXCEPT ![at[t].tgt] = "alive"]
      /\ code' = [code EXCEPT ![at[t].tgt] = "none"] /\ released' = released \ {at[t].tgt}
      /\ refLock' = None /\ UNCHANGED <<refs, born, home, prog, childLock, procLock, kept>>
  BY DEF Remove, At, procVars, lockVars, Continue
<1>s. /\ UNCHANGED <<sig, woken>>
  BY DEF Remove, At, procVars, lockVars, Continue
<1>m. AtType' /\ Moved(t, at[t].ret, 0, "user", None)
  BY <1>f, RefMoves DEF Stands
<1>d. /\ UNCHANGED deadThreads
  BY DEF Remove, At, procVars, lockVars, Continue
<1>i. /\ ProgExact /\ ChildExact /\ OthersExact /\ Places /\ DeadExact /\ CountExact
      /\ LastGone /\ Lives /\ Unborn /\ Parents /\ Watches /\ Joins
  BY DEF ProcsInv
<1>1. TypeOK'
  <2>1. Fields'
    BY <1>f, <1>e, <1>s, <1>d DEF Stands, Fields
  <2> QED BY <1>m, <2>1 DEF TypeOK, AtType, Spot, Fields
<1>2. ProgExact'
  BY <1>f, <1>e, <1>m, <1>i DEF Stands, Moved, ProgExact, HoldsOwn, HoldsTarget
<1>3. ChildExact'
  BY <1>f, <1>e, <1>m, <1>i DEF Stands, Moved, ChildExact, HoldsChild
<1>4. OthersExact'
  BY <1>f, <1>e, <1>m, <1>i DEF Stands, Moved, OthersExact
<1>5. Places'
  BY <1>f, <1>e, <1>m, <1>i DEF Stands, Moved, Places, PlaceOf, Burying, Returns
<1>6. DeadExact'
  BY <1>f, <1>e, <1>d, <1>m, <1>i DEF Stands, Moved, DeadExact, Gone, PlaceOf
<1>7. CountExact'
  <2>1. \A u \in Thread, p \in Pid : Refers(u, p)' <=> Refers(u, p)
    BY <1>f, <1>e, <1>m DEF Stands, PlaceOf, Moved, Refers, Referring
  <2> QED BY <1>e, <2>1, CountUnmoved
<1>8. LastGone'
  <2>1. \A u \in Thread \ {t} : at[u].pc # "rm"
    BY <1>e, <1>i DEF OthersExact
  <2> QED BY <1>f, <1>e, <1>m, <1>i, <2>1 DEF Stands, Moved, LastGone, At
<1>9. Lives'
  <2>1. at[t].tgt \notin born /\ Holders(at[t].tgt) = {}
    BY <1>f, <1>e, <1>i, Unreferenced DEF Stands, LastGone
  <2>2. \A u \in Thread : at[u].pc \in {"kt_child", "kt_note"} => at[u].tgt # at[t].tgt
    BY <2>1 DEF Holders, Referring
  <2>3. \A u \in Thread \ {t}, p \in Pid : Reaps(u, p)' => Reaps(u, p)
    BY <1>m DEF Moved, Reaps
  <2>4. \A p \in Pid : ~ Reaps(t, p)'
    BY <1>f, <1>e, <1>m DEF Stands, Moved, Reaps, Reaping
  <2> QED BY <1>f, <1>e, <1>m, <1>i, <2>1, <2>2, <2>3, <2>4 DEF Stands, Moved, Lives
<1>10. Unborn'
  BY <1>f, <1>e, <1>m, <1>i DEF Stands, Moved, Unborn
<1>11. Parents'
  BY <1>f, <1>e, <1>m, <1>i DEF Stands, Moved, Parents, OrphansAdopted
<1>12. Watches'
  BY <1>f, <1>e, <1>s, <1>m, <1>i DEF Stands, Moved, Watches, NoLostChild, Children, At
<1>13. Joins'
  BY <1>f, <1>e, <1>s, <1>m, <1>i DEF Stands, Moved, Joins, Ending, PlaceOf
<1> QED BY <1>1, <1>2, <1>3, <1>4, <1>5, <1>6, <1>7, <1>8, <1>9, <1>10, <1>11, <1>12, <1>13
           DEF ProcsInv

(* The request with which clone, exit and terminate begin.                 *)
LEMMA OwnRequestKeeps ==
  ASSUME ProcsInv, NEW t \in Thread, NEW x \in {"clone", "exit", "term", "join", "finish"},
         OwnRequest(t, x)
  PROVE  ProcsInv'
<1>f. Stands(t)
  BY Standing
<1>e. /\ at[t].pc # "free" /\ refLock = None /\ home[t] \in present
      /\ <<at[t].pc, x>> \in {<<"user", "clone">>, <<"user", "exit">>, <<"user", "term">>,
           <<"te_req", "term">>, <<"jo_req", "join">>, <<"fin_req", "finish">>}
      /\ refs' = [refs EXCEPT ![home[t]] = @ + 1]
      /\ UNCHANGED <<present, ppid, life, code, released, born, home, prog, childLock,
           procLock, refLock, kept>>
  BY DEF OwnRequest, At, procVars, lockVars, Request
<1>s. /\ UNCHANGED <<sig, woken>>
  BY DEF OwnRequest, At, procVars, lockVars, Request
<1>m. AtType' /\ Moved(t, x, home[t], at[t].ret, at[t].arg)
  BY <1>f, TypedMoves DEF Stands
<1>d. /\ UNCHANGED deadThreads
  BY DEF OwnRequest, At, procVars, lockVars, Request
<1>i. /\ ProgExact /\ ChildExact /\ OthersExact /\ Places /\ DeadExact /\ CountExact
      /\ LastGone /\ Lives /\ Unborn /\ Parents /\ Watches /\ Joins
  BY DEF ProcsInv
<1>1. TypeOK'
  <2>1. Fields'
    BY <1>f, <1>e, <1>s, <1>d DEF Stands, Fields
  <2> QED BY <1>m, <2>1 DEF TypeOK, AtType, Spot, Fields
<1>2. ProgExact'
  BY <1>f, <1>e, <1>m, <1>i DEF Stands, Moved, ProgExact, HoldsOwn, HoldsTarget
<1>3. ChildExact'
  BY <1>f, <1>e, <1>m, <1>i DEF Stands, Moved, ChildExact, HoldsChild
<1>4. OthersExact'
  BY <1>f, <1>e, <1>m, <1>i DEF Stands, Moved, OthersExact
<1>5. Places'
  BY <1>f, <1>e, <1>m, <1>i DEF Stands, Moved, Places, PlaceOf, Burying, Returns
<1>6. DeadExact'
  BY <1>f, <1>e, <1>d, <1>m, <1>i DEF Stands, Moved, DeadExact, Gone, PlaceOf
<1>7. CountExact'
  <2>2. \A u \in Thread \ {t}, p \in Pid : Refers(u, p)' <=> Refers(u, p)
    BY <1>e, <1>m DEF Moved, Refers
  <2>3. \A p \in Pid : refs'[p] + Ref(t, p) + In(t, p) + Born(p)
                        = refs[p] + Ref(t, p)' + In(t, p)' + Born(p)'
    BY <1>f, <1>e, <1>m DEF Stands, Moved, Ref, Refers, Referring, In, Born, PlaceOf
  <2>4. refs' \in [Pid -> Nat] /\ \A u \in Thread \ {t} : home'[u] = home[u]
    BY <1>f, <1>e, <1>1 DEF Stands, TypeOK
  <2> QED BY <2>2, <2>3, <2>4, Balanced
<1>8. LastGone'
  <2>1. \A u \in Thread : at[u].pc # "rm"
    BY <1>f, <1>e, <1>i DEF Stands, OthersExact
  <2> QED BY <1>f, <1>e, <1>m, <1>i, <2>1 DEF Stands, Moved, LastGone, At
<1>9. Lives'
  <2>1. \A u \in Thread, p \in Pid : Reaps(u, p)' => Reaps(u, p)
    BY <1>f, <1>e, <1>m DEF Stands, Moved, Reaps, Reaping
  <2> QED BY <1>f, <1>e, <1>m, <1>i, <2>1 DEF Stands, Moved, Lives
<1>10. Unborn'
  BY <1>f, <1>e, <1>m, <1>i DEF Stands, Moved, Unborn
<1>11. Parents'
  BY <1>f, <1>e, <1>m, <1>i DEF Stands, Moved, Parents, OrphansAdopted
<1>12. Watches'
  BY <1>f, <1>e, <1>s, <1>m, <1>i DEF Stands, Moved, Watches, NoLostChild, Children, At
<1>13. Joins'
  BY <1>f, <1>e, <1>s, <1>m, <1>i DEF Stands, Moved, Joins, Ending, PlaceOf
<1> QED BY <1>1, <1>2, <1>3, <1>4, <1>5, <1>6, <1>7, <1>8, <1>9, <1>10, <1>11, <1>12, <1>13
           DEF ProcsInv

(* clone() in a process that is being ended.                               *)
LEMMA CloneRefusedKeeps ==
  ASSUME ProcsInv, NEW t \in Thread, Clone(t), Dying(home[t])
  PROVE  ProcsInv'
<1>f. Stands(t)
  BY Standing
<1>e. /\ at[t].pc = "clone" /\ prog[home[t]] = None
      /\ UNCHANGED <<present, ppid, life, refs, code, released, born, home, prog, childLock,
           procLock, refLock, kept>>
  BY DEF Clone, At, procVars, lockVars
<1>s. /\ UNCHANGED <<sig, woken>>
  BY DEF Clone, At, procVars, lockVars
<1>m. AtType' /\ Moved(t, "rel", at[t].tgt, "user", at[t].arg)
  BY <1>f, CloneMoves DEF Stands
<1>d. /\ UNCHANGED deadThreads
  BY DEF Clone, At, procVars, lockVars
<1>i. /\ ProgExact /\ ChildExact /\ OthersExact /\ Places /\ DeadExact /\ CountExact
      /\ LastGone /\ Lives /\ Unborn /\ Parents /\ Watches /\ Joins
  BY DEF ProcsInv
<1>1. TypeOK'
  <2>1. Fields'
    BY <1>f, <1>e, <1>s, <1>d DEF Stands, Fields
  <2> QED BY <1>m, <2>1 DEF TypeOK, AtType, Spot, Fields
<1>2. ProgExact'
  BY <1>f, <1>e, <1>m, <1>i DEF Stands, Moved, ProgExact, HoldsOwn, HoldsTarget
<1>3. ChildExact'
  BY <1>f, <1>e, <1>m, <1>i DEF Stands, Moved, ChildExact, HoldsChild
<1>4. OthersExact'
  BY <1>f, <1>e, <1>m, <1>i DEF Stands, Moved, OthersExact
<1>5. Places'
  BY <1>f, <1>e, <1>m, <1>i DEF Stands, Moved, Places, PlaceOf, Burying, Returns
<1>6. DeadExact'
  BY <1>f, <1>e, <1>d, <1>m, <1>i DEF Stands, Moved, DeadExact, Gone, PlaceOf
<1>7. CountExact'
  <2>1. \A u \in Thread, p \in Pid : Refers(u, p)' <=> Refers(u, p)
    BY <1>f, <1>e, <1>m DEF Stands, PlaceOf, Moved, Refers, Referring
  <2> QED BY <1>e, <2>1, CountUnmoved
<1>8. LastGone'
  BY <1>f, <1>e, <1>m, <1>i DEF Stands, Moved, LastGone, At
<1>9. Lives'
  <2>1. \A u \in Thread, p \in Pid : Reaps(u, p)' => Reaps(u, p)
    BY <1>f, <1>e, <1>m DEF Stands, Moved, Reaps, Reaping
  <2> QED BY <1>f, <1>e, <1>m, <1>i, <2>1 DEF Stands, Moved, Lives
<1>10. Unborn'
  BY <1>f, <1>e, <1>m, <1>i DEF Stands, Moved, Unborn
<1>11. Parents'
  BY <1>f, <1>e, <1>m, <1>i DEF Stands, Moved, Parents, OrphansAdopted
<1>12. Watches'
  BY <1>f, <1>e, <1>s, <1>m, <1>i DEF Stands, Moved, Watches, NoLostChild, Children, At
<1>13. Joins'
  BY <1>f, <1>e, <1>s, <1>m, <1>i DEF Stands, Moved, Joins, Ending, PlaceOf
<1> QED BY <1>1, <1>2, <1>3, <1>4, <1>5, <1>6, <1>7, <1>8, <1>9, <1>10, <1>11, <1>12, <1>13
           DEF ProcsInv

(* clone() goes on with the lock of the process.                           *)
LEMMA CloneBeginsKeeps ==
  ASSUME ProcsInv, NEW t \in Thread, Clone(t), ~ Dying(home[t])
  PROVE  ProcsInv'
<1>f. Stands(t)
  BY Standing
<1>e. /\ at[t].pc = "clone" /\ prog[home[t]] = None /\ prog' = [prog EXCEPT ![home[t]] = t]
      /\ UNCHANGED <<present, ppid, life, refs, code, released, born, home, childLock,
           procLock, refLock, kept>>
  BY DEF Clone, At, procVars, lockVars
<1>s. /\ UNCHANGED <<sig, woken>>
  BY DEF Clone, At, procVars, lockVars
<1>m. AtType' /\ Moved(t, "cl_add", at[t].tgt, at[t].ret, at[t].arg)
  BY <1>f, CloneMoves DEF Stands
<1>d. /\ UNCHANGED deadThreads
  BY DEF Clone, At, procVars, lockVars
<1>i. /\ ProgExact /\ ChildExact /\ OthersExact /\ Places /\ DeadExact /\ CountExact
      /\ LastGone /\ Lives /\ Unborn /\ Parents /\ Watches /\ Joins
  BY DEF ProcsInv
<1>1. TypeOK'
  <2>1. Fields'
    BY <1>f, <1>e, <1>s, <1>d DEF Stands, Fields
  <2> QED BY <1>m, <2>1 DEF TypeOK, AtType, Spot, Fields
<1>2. ProgExact'
  BY <1>f, <1>e, <1>m, <1>i DEF Stands, Moved, ProgExact, HoldsOwn, HoldsTarget
<1>3. ChildExact'
  BY <1>f, <1>e, <1>m, <1>i DEF Stands, Moved, ChildExact, HoldsChild
<1>4. OthersExact'
  BY <1>f, <1>e, <1>m, <1>i DEF Stands, Moved, OthersExact
<1>5. Places'
  BY <1>f, <1>e, <1>m, <1>i DEF Stands, Moved, Places, PlaceOf, Burying, Returns
<1>6. DeadExact'
  BY <1>f, <1>e, <1>d, <1>m, <1>i DEF Stands, Moved, DeadExact, Gone, PlaceOf
<1>7. CountExact'
  <2>1. \A u \in Thread, p \in Pid : Refers(u, p)' <=> Refers(u, p)
    BY <1>f, <1>e, <1>m DEF Stands, PlaceOf, Moved, Refers, Referring
  <2> QED BY <1>e, <2>1, CountUnmoved
<1>8. LastGone'
  BY <1>f, <1>e, <1>m, <1>i DEF Stands, Moved, LastGone, At
<1>9. Lives'
  <2>1. \A u \in Thread, p \in Pid : Reaps(u, p)' => Reaps(u, p)
    BY <1>f, <1>e, <1>m DEF Stands, Moved, Reaps, Reaping
  <2> QED BY <1>f, <1>e, <1>m, <1>i, <2>1 DEF Stands, Moved, Lives
<1>10. Unborn'
  BY <1>f, <1>e, <1>m, <1>i DEF Stands, Moved, Unborn
<1>11. Parents'
  BY <1>f, <1>e, <1>m, <1>i DEF Stands, Moved, Parents, OrphansAdopted
<1>12. Watches'
  BY <1>f, <1>e, <1>s, <1>m, <1>i DEF Stands, Moved, Watches, NoLostChild, Children, At
<1>13. Joins'
  BY <1>f, <1>e, <1>s, <1>m, <1>i DEF Stands, Moved, Joins, Ending, PlaceOf
<1> QED BY <1>1, <1>2, <1>3, <1>4, <1>5, <1>6, <1>7, <1>8, <1>9, <1>10, <1>11, <1>12, <1>13
           DEF ProcsInv

(* clone() finds no free pid.                                              *)
LEMMA CloneNoPidKeeps ==
  ASSUME ProcsInv, NEW t \in Thread, CloneNoPid(t)
  PROVE  ProcsInv'
<1>f. Stands(t)
  BY Standing
<1>e. /\ at[t].pc = "cl_add" /\ procLock = None /\ prog' = [prog EXCEPT ![home[t]] = None]
      /\ UNCHANGED <<present, ppid, life, refs, code, released, born, home, childLock,
           procLock, refLock, kept>>
  BY DEF CloneNoPid, At, procVars, lockVars
<1>s. /\ UNCHANGED <<sig, woken>>
  BY DEF CloneNoPid, At, procVars, lockVars
<1>m. AtType' /\ Moved(t, "rel", at[t].tgt, "user", at[t].arg)
  BY <1>f, CloneMoves DEF Stands
<1>d. /\ UNCHANGED deadThreads
  BY DEF CloneNoPid, At, procVars, lockVars
<1>i. /\ ProgExact /\ ChildExact /\ OthersExact /\ Places /\ DeadExact /\ CountExact
      /\ LastGone /\ Lives /\ Unborn /\ Parents /\ Watches /\ Joins
  BY DEF ProcsInv
<1>1. TypeOK'
  <2>1. Fields'
    BY <1>f, <1>e, <1>s, <1>d DEF Stands, Fields
  <2> QED BY <1>m, <2>1 DEF TypeOK, AtType, Spot, Fields
<1>2. ProgExact'
  BY <1>f, <1>e, <1>m, <1>i DEF Stands, Moved, ProgExact, HoldsOwn, HoldsTarget
<1>3. ChildExact'
  BY <1>f, <1>e, <1>m, <1>i DEF Stands, Moved, ChildExact, HoldsChild
<1>4. OthersExact'
  BY <1>f, <1>e, <1>m, <1>i DEF Stands, Moved, OthersExact
<1>5. Places'
  BY <1>f, <1>e, <1>m, <1>i DEF Stands, Moved, Places, PlaceOf, Burying, Returns
<1>6. DeadExact'
  BY <1>f, <1>e, <1>d, <1>m, <1>i DEF Stands, Moved, DeadExact, Gone, PlaceOf
<1>7. CountExact'
  <2>1. \A u \in Thread, p \in Pid : Refers(u, p)' <=> Refers(u, p)
    BY <1>f, <1>e, <1>m DEF Stands, PlaceOf, Moved, Refers, Referring
  <2> QED BY <1>e, <2>1, CountUnmoved
<1>8. LastGone'
  BY <1>f, <1>e, <1>m, <1>i DEF Stands, Moved, LastGone, At
<1>9. Lives'
  <2>1. \A u \in Thread, p \in Pid : Reaps(u, p)' => Reaps(u, p)
    BY <1>f, <1>e, <1>m DEF Stands, Moved, Reaps, Reaping
  <2> QED BY <1>f, <1>e, <1>m, <1>i, <2>1 DEF Stands, Moved, Lives
<1>10. Unborn'
  BY <1>f, <1>e, <1>m, <1>i DEF Stands, Moved, Unborn
<1>11. Parents'
  BY <1>f, <1>e, <1>m, <1>i DEF Stands, Moved, Parents, OrphansAdopted
<1>12. Watches'
  BY <1>f, <1>e, <1>s, <1>m, <1>i DEF Stands, Moved, Watches, NoLostChild, Children, At
<1>13. Joins'
  BY <1>f, <1>e, <1>s, <1>m, <1>i DEF Stands, Moved, Joins, Ending, PlaceOf
<1> QED BY <1>1, <1>2, <1>3, <1>4, <1>5, <1>6, <1>7, <1>8, <1>9, <1>10, <1>11, <1>12, <1>13
           DEF ProcsInv

(* clone() lets the new process go again.                                  *)
LEMMA CloneFailsKeeps ==
  ASSUME ProcsInv, NEW t \in Thread, CloneFails(t)
  PROVE  ProcsInv'
<1>f. Stands(t)
  BY Standing
<1>e. /\ at[t].pc = "cl_fill" /\ born' = born \ {at[t].arg}
      /\ UNCHANGED <<present, ppid, life, refs, code, released, home, prog, childLock,
           procLock, refLock, kept>>
  BY DEF CloneFails, At, procVars, lockVars
<1>s. /\ UNCHANGED <<sig, woken>>
  BY DEF CloneFails, At, procVars, lockVars
<1>m. AtType' /\ Moved(t, "rel", at[t].arg, "cl_end", None)
  BY <1>f, TypedMoves DEF Stands
<1>d. /\ UNCHANGED deadThreads
  BY DEF CloneFails, At, procVars, lockVars
<1>i. /\ ProgExact /\ ChildExact /\ OthersExact /\ Places /\ DeadExact /\ CountExact
      /\ LastGone /\ Lives /\ Unborn /\ Parents /\ Watches /\ Joins
  BY DEF ProcsInv
<1>1. TypeOK'
  <2>1. at[t].arg \in Pid
    BY <1>f, <1>e DEF Stands, Typed
  <2>2. Fields'
    BY <1>f, <1>e, <1>s, <1>d, <2>1 DEF Stands, Fields
  <2> QED BY <1>m, <2>2 DEF TypeOK, AtType, Spot, Fields
<1>2. ProgExact'
  BY <1>f, <1>e, <1>m, <1>i DEF Stands, Moved, ProgExact, HoldsOwn, HoldsTarget
<1>3. ChildExact'
  BY <1>f, <1>e, <1>m, <1>i DEF Stands, Moved, ChildExact, HoldsChild
<1>4. OthersExact'
  BY <1>f, <1>e, <1>m, <1>i DEF Stands, Moved, OthersExact
<1>5. Places'
  BY <1>f, <1>e, <1>m, <1>i DEF Stands, Moved, Places, PlaceOf, Burying, Returns
<1>6. DeadExact'
  BY <1>f, <1>e, <1>d, <1>m, <1>i DEF Stands, Moved, DeadExact, Gone, PlaceOf
<1>7. CountExact'
  <2>1. at[t].arg \in born /\ at[t].arg \in Pid
    BY <1>f, <1>e, <1>i DEF Stands, Unborn, Typed
  <2>2. \A u \in Thread \ {t}, p \in Pid : Refers(u, p)' <=> Refers(u, p)
    BY <1>e, <1>m, <2>1 DEF Moved, Refers
  <2>3. \A p \in Pid : refs'[p] + Ref(t, p) + In(t, p) + Born(p)
                        = refs[p] + Ref(t, p)' + In(t, p)' + Born(p)'
    BY <1>f, <1>e, <1>m, <2>1 DEF Stands, Moved, Ref, Refers, Referring, In, Born, PlaceOf
  <2>4. refs' \in [Pid -> Nat] /\ \A u \in Thread \ {t} : home'[u] = home[u]
    BY <1>f, <1>e, <1>1 DEF Stands, TypeOK
  <2> QED BY <2>2, <2>3, <2>4, Balanced
<1>8. LastGone'
  BY <1>f, <1>e, <1>m, <1>i DEF Stands, Moved, LastGone, At
<1>9. Lives'
  <2>1. /\ at[t].arg \in Pid /\ life[at[t].arg] = "alive"
        /\ \A u \in Thread : home[u] # at[t].arg
    BY <1>f, <1>e, <1>i DEF Stands, Unborn, Typed
  <2> QED BY <1>f, <1>e, <1>m, <1>i, <2>1 DEF Stands, Moved, Lives, Reaps, Reaping
<1>10. Unborn'
  BY <1>f, <1>e, <1>m, <1>i DEF Stands, Moved, Unborn
<1>11. Parents'
  BY <1>f, <1>e, <1>m, <1>i DEF Stands, Moved, Parents, OrphansAdopted, Unborn
<1>12. Watches'
  BY <1>f, <1>e, <1>s, <1>m, <1>i DEF Stands, Moved, Watches, NoLostChild, Children, At
<1>13. Joins'
  BY <1>f, <1>e, <1>s, <1>m, <1>i DEF Stands, Moved, Joins, Ending, PlaceOf
<1> QED BY <1>1, <1>2, <1>3, <1>4, <1>5, <1>6, <1>7, <1>8, <1>9, <1>10, <1>11, <1>12, <1>13
           DEF ProcsInv

(* clone() releases the lock of its own process after a failure.           *)
LEMMA CloneEndKeeps ==
  ASSUME ProcsInv, NEW t \in Thread, CloneEnd(t)
  PROVE  ProcsInv'
<1>f. Stands(t)
  BY Standing
<1>e. /\ at[t].pc = "cl_end" /\ prog' = [prog EXCEPT ![home[t]] = None]
      /\ UNCHANGED <<present, ppid, life, refs, code, released, born, home, childLock,
           procLock, refLock, kept>>
  BY DEF CloneEnd, At, procVars, lockVars
<1>s. /\ UNCHANGED <<sig, woken>>
  BY DEF CloneEnd, At, procVars, lockVars
<1>m. AtType' /\ Moved(t, "rel", home[t], "user", at[t].arg)
  BY <1>f, TypedMoves DEF Stands
<1>d. /\ UNCHANGED deadThreads
  BY DEF CloneEnd, At, procVars, lockVars
<1>i. /\ ProgExact /\ ChildExact /\ OthersExact /\ Places /\ DeadExact /\ CountExact
      /\ LastGone /\ Lives /\ Unborn /\ Parents /\ Watches /\ Joins
  BY DEF ProcsInv
<1>1. TypeOK'
  <2>1. Fields'
    BY <1>f, <1>e, <1>s, <1>d DEF Stands, Fields
  <2> QED BY <1>m, <2>1 DEF TypeOK, AtType, Spot, Fields
<1>2. ProgExact'
  BY <1>f, <1>e, <1>m, <1>i DEF Stands, Moved, ProgExact, HoldsOwn, HoldsTarget
<1>3. ChildExact'
  BY <1>f, <1>e, <1>m, <1>i DEF Stands, Moved, ChildExact, HoldsChild
<1>4. OthersExact'
  BY <1>f, <1>e, <1>m, <1>i DEF Stands, Moved, OthersExact
<1>5. Places'
  BY <1>f, <1>e, <1>m, <1>i DEF Stands, Moved, Places, PlaceOf, Burying, Returns
<1>6. DeadExact'
  BY <1>f, <1>e, <1>d, <1>m, <1>i DEF Stands, Moved, DeadExact, Gone, PlaceOf
<1>7. CountExact'
  <2>1. \A u \in Thread, p \in Pid : Refers(u, p)' <=> Refers(u, p)
    BY <1>f, <1>e, <1>m DEF Stands, PlaceOf, Moved, Refers, Referring
  <2> QED BY <1>e, <2>1, CountUnmoved
<1>8. LastGone'
  BY <1>f, <1>e, <1>m, <1>i DEF Stands, Moved, LastGone, At
<1>9. Lives'
  <2>1. \A u \in Thread, p \in Pid : Reaps(u, p)' => Reaps(u, p)
    BY <1>f, <1>e, <1>m DEF Stands, Moved, Reaps, Reaping
  <2> QED BY <1>f, <1>e, <1>m, <1>i, <2>1 DEF Stands, Moved, Lives
<1>10. Unborn'
  BY <1>f, <1>e, <1>m, <1>i DEF Stands, Moved, Unborn
<1>11. Parents'
  BY <1>f, <1>e, <1>m, <1>i DEF Stands, Moved, Parents, OrphansAdopted
<1>12. Watches'
  <2>1. \A u \in Thread : at'[u].pc \in {"wc_wait", "wc_event"} =>
          at'[u] = at[u] /\ home'[u] = home[u]
    BY <1>f, <1>e, <1>m DEF Stands, Moved
  <2>2. \A u \in Thread : at[u].pc \in {"kt_child", "kt_note", "ki_note"} => at'[u] = at[u]
    BY <1>e, <1>m DEF Moved
  <2> QED BY <1>e, <1>s, <1>i, <2>1, <2>2 DEF Watches, NoLostChild, Children, At
<1>13. Joins'
  BY <1>f, <1>e, <1>s, <1>m, <1>i DEF Stands, Moved, Joins, Ending, PlaceOf
<1> QED BY <1>1, <1>2, <1>3, <1>4, <1>5, <1>6, <1>7, <1>8, <1>9, <1>10, <1>11, <1>12, <1>13
           DEF ProcsInv

(* startThread() asks for its process.                                     *)
LEMMA StartRequestKeeps ==
  ASSUME ProcsInv, NEW t \in Thread, StartRequest(t)
  PROVE  ProcsInv'
<1>f. Stands(t)
  BY Standing
<1>e. /\ at[t].pc = "user" /\ refLock = None /\ home[t] \in present
      /\ refs' = [refs EXCEPT ![home[t]] = @ + 1]
      /\ UNCHANGED <<present, ppid, life, code, released, born, home, prog, childLock,
           procLock, refLock, kept>>
  BY DEF StartRequest, At, procVars, lockVars, Request
<1>s. /\ UNCHANGED <<sig, woken>>
  BY DEF StartRequest, At, procVars, lockVars, Request
<1>m. AtType' /\ Moved(t, "start", home[t], at[t].ret, at[t].arg)
  BY <1>f, TypedMoves DEF Stands
<1>d. /\ UNCHANGED deadThreads
  BY DEF StartRequest, At, procVars, lockVars, Request
<1>i. /\ ProgExact /\ ChildExact /\ OthersExact /\ Places /\ DeadExact /\ CountExact
      /\ LastGone /\ Lives /\ Unborn /\ Parents /\ Watches /\ Joins
  BY DEF ProcsInv
<1>1. TypeOK'
  <2>1. Fields'
    BY <1>f, <1>e, <1>s, <1>d DEF Stands, Fields
  <2> QED BY <1>m, <2>1 DEF TypeOK, AtType, Spot, Fields
<1>2. ProgExact'
  BY <1>f, <1>e, <1>m, <1>i DEF Stands, Moved, ProgExact, HoldsOwn, HoldsTarget
<1>3. ChildExact'
  BY <1>f, <1>e, <1>m, <1>i DEF Stands, Moved, ChildExact, HoldsChild
<1>4. OthersExact'
  BY <1>f, <1>e, <1>m, <1>i DEF Stands, Moved, OthersExact
<1>5. Places'
  BY <1>f, <1>e, <1>m, <1>i DEF Stands, Moved, Places, PlaceOf, Burying, Returns
<1>6. DeadExact'
  BY <1>f, <1>e, <1>d, <1>m, <1>i DEF Stands, Moved, DeadExact, Gone, PlaceOf
<1>7. CountExact'
  <2>2. \A u \in Thread \ {t}, p \in Pid : Refers(u, p)' <=> Refers(u, p)
    BY <1>e, <1>m DEF Moved, Refers
  <2>3. \A p \in Pid : refs'[p] + Ref(t, p) + In(t, p) + Born(p)
                        = refs[p] + Ref(t, p)' + In(t, p)' + Born(p)'
    BY <1>f, <1>e, <1>m DEF Stands, Moved, Ref, Refers, Referring, In, Born, PlaceOf
  <2>4. refs' \in [Pid -> Nat] /\ \A u \in Thread \ {t} : home'[u] = home[u]
    BY <1>f, <1>e, <1>1 DEF Stands, TypeOK
  <2> QED BY <2>2, <2>3, <2>4, Balanced
<1>8. LastGone'
  <2>1. \A u \in Thread : at[u].pc # "rm"
    BY <1>f, <1>e, <1>i DEF Stands, OthersExact
  <2> QED BY <1>f, <1>e, <1>m, <1>i, <2>1 DEF Stands, Moved, LastGone, At
<1>9. Lives'
  <2>1. \A u \in Thread, p \in Pid : Reaps(u, p)' => Reaps(u, p)
    BY <1>f, <1>e, <1>m DEF Stands, Moved, Reaps, Reaping
  <2> QED BY <1>f, <1>e, <1>m, <1>i, <2>1 DEF Stands, Moved, Lives
<1>10. Unborn'
  BY <1>f, <1>e, <1>m, <1>i DEF Stands, Moved, Unborn
<1>11. Parents'
  BY <1>f, <1>e, <1>m, <1>i DEF Stands, Moved, Parents, OrphansAdopted
<1>12. Watches'
  BY <1>f, <1>e, <1>s, <1>m, <1>i DEF Stands, Moved, Watches, NoLostChild, Children, At
<1>13. Joins'
  BY <1>f, <1>e, <1>s, <1>m, <1>i DEF Stands, Moved, Joins, Ending, PlaceOf
<1> QED BY <1>1, <1>2, <1>3, <1>4, <1>5, <1>6, <1>7, <1>8, <1>9, <1>10, <1>11, <1>12, <1>13
           DEF ProcsInv

(* startThread() gets no thread.                                           *)
LEMMA StartFailsKeeps ==
  ASSUME ProcsInv, NEW t \in Thread, StartFails(t)
  PROVE  ProcsInv'
<1>f. Stands(t)
  BY Standing
<1>e. /\ at[t].pc = "start"
      /\ UNCHANGED <<present, ppid, life, refs, code, released, born, home, prog, childLock,
           procLock, refLock, kept>>
  BY DEF StartFails, At, procVars, lockVars
<1>s. /\ UNCHANGED <<sig, woken>>
  BY DEF StartFails, At, procVars, lockVars
<1>m. AtType' /\ Moved(t, "rel", at[t].tgt, "user", at[t].arg)
  BY <1>f, CloneMoves DEF Stands
<1>d. /\ UNCHANGED deadThreads
  BY DEF StartFails, At, procVars, lockVars
<1>i. /\ ProgExact /\ ChildExact /\ OthersExact /\ Places /\ DeadExact /\ CountExact
      /\ LastGone /\ Lives /\ Unborn /\ Parents /\ Watches /\ Joins
  BY DEF ProcsInv
<1>1. TypeOK'
  <2>1. Fields'
    BY <1>f, <1>e, <1>s, <1>d DEF Stands, Fields
  <2> QED BY <1>m, <2>1 DEF TypeOK, AtType, Spot, Fields
<1>2. ProgExact'
  BY <1>f, <1>e, <1>m, <1>i DEF Stands, Moved, ProgExact, HoldsOwn, HoldsTarget
<1>3. ChildExact'
  BY <1>f, <1>e, <1>m, <1>i DEF Stands, Moved, ChildExact, HoldsChild
<1>4. OthersExact'
  BY <1>f, <1>e, <1>m, <1>i DEF Stands, Moved, OthersExact
<1>5. Places'
  BY <1>f, <1>e, <1>m, <1>i DEF Stands, Moved, Places, PlaceOf, Burying, Returns
<1>6. DeadExact'
  BY <1>f, <1>e, <1>d, <1>m, <1>i DEF Stands, Moved, DeadExact, Gone, PlaceOf
<1>7. CountExact'
  <2>1. \A u \in Thread, p \in Pid : Refers(u, p)' <=> Refers(u, p)
    BY <1>f, <1>e, <1>m DEF Stands, PlaceOf, Moved, Refers, Referring
  <2> QED BY <1>e, <2>1, CountUnmoved
<1>8. LastGone'
  BY <1>f, <1>e, <1>m, <1>i DEF Stands, Moved, LastGone, At
<1>9. Lives'
  <2>1. \A u \in Thread, p \in Pid : Reaps(u, p)' => Reaps(u, p)
    BY <1>f, <1>e, <1>m DEF Stands, Moved, Reaps, Reaping
  <2> QED BY <1>f, <1>e, <1>m, <1>i, <2>1 DEF Stands, Moved, Lives
<1>10. Unborn'
  BY <1>f, <1>e, <1>m, <1>i DEF Stands, Moved, Unborn
<1>11. Parents'
  BY <1>f, <1>e, <1>m, <1>i DEF Stands, Moved, Parents, OrphansAdopted
<1>12. Watches'
  BY <1>f, <1>e, <1>s, <1>m, <1>i DEF Stands, Moved, Watches, NoLostChild, Children, At
<1>13. Joins'
  BY <1>f, <1>e, <1>s, <1>m, <1>i DEF Stands, Moved, Joins, Ending, PlaceOf
<1> QED BY <1>1, <1>2, <1>3, <1>4, <1>5, <1>6, <1>7, <1>8, <1>9, <1>10, <1>11, <1>12, <1>13
           DEF ProcsInv

(* The last thread goes on to end its process.                             *)
LEMMA TerminateLastThreadKeeps ==
  ASSUME ProcsInv, NEW t \in Thread, TerminateThread(t), Threads(home[t]) = {t}
  PROVE  ProcsInv'
<1>f. Stands(t)
  BY Standing
<1>e. /\ at[t].pc = "exit"
      /\ UNCHANGED <<present, ppid, life, refs, code, released, born, home, prog, childLock,
           procLock, refLock, kept>>
  BY DEF TerminateThread, At, procVars, lockVars, Bury
<1>s. /\ UNCHANGED <<sig, woken>>
  BY DEF TerminateThread, At, procVars, lockVars, Bury
<1>m. AtType' /\ Moved(t, "rel", at[t].tgt, "te_req", at[t].arg)
  BY <1>f, EndMoves DEF Stands
<1>d. /\ UNCHANGED deadThreads
  BY DEF TerminateThread, At, procVars, lockVars, Bury
<1>i. /\ ProgExact /\ ChildExact /\ OthersExact /\ Places /\ DeadExact /\ CountExact
      /\ LastGone /\ Lives /\ Unborn /\ Parents /\ Watches /\ Joins
  BY DEF ProcsInv
<1>1. TypeOK'
  <2>1. Fields'
    BY <1>f, <1>e, <1>s, <1>d DEF Stands, Fields
  <2> QED BY <1>m, <2>1 DEF TypeOK, AtType, Spot, Fields
<1>2. ProgExact'
  BY <1>f, <1>e, <1>m, <1>i DEF Stands, Moved, ProgExact, HoldsOwn, HoldsTarget
<1>3. ChildExact'
  BY <1>f, <1>e, <1>m, <1>i DEF Stands, Moved, ChildExact, HoldsChild
<1>4. OthersExact'
  BY <1>f, <1>e, <1>m, <1>i DEF Stands, Moved, OthersExact
<1>5. Places'
  BY <1>f, <1>e, <1>m, <1>i DEF Stands, Moved, Places, PlaceOf, Burying, Returns
<1>6. DeadExact'
  BY <1>f, <1>e, <1>d, <1>m, <1>i DEF Stands, Moved, DeadExact, Gone, PlaceOf
<1>7. CountExact'
  <2>1. \A u \in Thread, p \in Pid : Refers(u, p)' <=> Refers(u, p)
    BY <1>f, <1>e, <1>m DEF Stands, PlaceOf, Moved, Refers, Referring
  <2> QED BY <1>e, <2>1, CountUnmoved
<1>8. LastGone'
  BY <1>f, <1>e, <1>m, <1>i DEF Stands, Moved, LastGone, At
<1>9. Lives'
  <2>1. \A u \in Thread, p \in Pid : Reaps(u, p)' => Reaps(u, p)
    BY <1>f, <1>e, <1>m DEF Stands, Moved, Reaps, Reaping
  <2> QED BY <1>f, <1>e, <1>m, <1>i, <2>1 DEF Stands, Moved, Lives
<1>10. Unborn'
  BY <1>f, <1>e, <1>m, <1>i DEF Stands, Moved, Unborn
<1>11. Parents'
  BY <1>f, <1>e, <1>m, <1>i DEF Stands, Moved, Parents, OrphansAdopted
<1>12. Watches'
  BY <1>f, <1>e, <1>s, <1>m, <1>i DEF Stands, Moved, Watches, NoLostChild, Children, At
<1>13. Joins'
  BY <1>f, <1>e, <1>s, <1>m, <1>i DEF Stands, Moved, Joins, Ending, PlaceOf
<1> QED BY <1>1, <1>2, <1>3, <1>4, <1>5, <1>6, <1>7, <1>8, <1>9, <1>10, <1>11, <1>12, <1>13
           DEF ProcsInv

(* A thread that is not the last one goes to the terminator.               *)
LEMMA TerminateOtherThreadKeeps ==
  ASSUME ProcsInv, NEW t \in Thread, TerminateThread(t), Threads(home[t]) # {t}
  PROVE  ProcsInv'
<1>f. Stands(t)
  BY Standing
<1>e. /\ at[t].pc = "exit"
      /\ UNCHANGED <<present, ppid, life, refs, code, released, born, home, prog, childLock,
           procLock, refLock, kept>>
  BY DEF TerminateThread, At, procVars, lockVars, Bury
<1>s. /\ UNCHANGED <<sig, woken>>
  BY DEF TerminateThread, At, procVars, lockVars, Bury
<1>m. AtType' /\ Moved(t, "rel", at[t].tgt, "gone", at[t].arg)
  BY <1>f, EndMoves DEF Stands
<1>d. /\ deadThreads' = Append(deadThreads, t)
  BY DEF TerminateThread, At, procVars, lockVars, Bury
<1>i. /\ ProgExact /\ ChildExact /\ OthersExact /\ Places /\ DeadExact /\ CountExact
      /\ LastGone /\ Lives /\ Unborn /\ Parents /\ Watches /\ Joins
  BY DEF ProcsInv
<1>1. TypeOK'
  <2>1. Fields'
    BY <1>f, <1>e, <1>s, <1>d DEF Stands, Fields
  <2> QED BY <1>m, <2>1 DEF TypeOK, AtType, Spot, Fields
<1>2. ProgExact'
  BY <1>f, <1>e, <1>m, <1>i DEF Stands, Moved, ProgExact, HoldsOwn, HoldsTarget
<1>3. ChildExact'
  BY <1>f, <1>e, <1>m, <1>i DEF Stands, Moved, ChildExact, HoldsChild
<1>4. OthersExact'
  BY <1>f, <1>e, <1>m, <1>i DEF Stands, Moved, OthersExact
<1>5. Places'
  BY <1>f, <1>e, <1>m, <1>i DEF Stands, Moved, Places, PlaceOf, Burying, Returns
<1>6. DeadExact'
  <2>1. ~ Gone(t)
    BY <1>f, <1>e DEF Stands, Gone, PlaceOf
  <2>2. /\ ~ InList(deadThreads, t)
        /\ \A u \in Thread : at[u].pc \in {"kt_req", "kt"} => at[u].arg # t
    BY <1>i, <2>1 DEF DeadExact
  <2>3. /\ Distinct(Append(deadThreads, t))
        /\ \A u \in Thread : InList(Append(deadThreads, t), u) <=> InList(deadThreads, u) \/ u = t
    BY <1>f, <1>i, <2>2, AppendMembers, AppendDistinct DEF Stands, Typed, DeadExact
  <2> QED BY <1>f, <1>e, <1>d, <1>m, <1>i, <2>2, <2>3 DEF Moved, Gone, DeadExact
<1>7. CountExact'
  <2>1. \A u \in Thread, p \in Pid : Refers(u, p)' <=> Refers(u, p)
    BY <1>f, <1>e, <1>m DEF Stands, PlaceOf, Moved, Refers, Referring
  <2> QED BY <1>e, <2>1, CountUnmoved
<1>8. LastGone'
  BY <1>f, <1>e, <1>m, <1>i DEF Stands, Moved, LastGone, At
<1>9. Lives'
  <2>1. \A u \in Thread, p \in Pid : Reaps(u, p)' => Reaps(u, p)
    BY <1>f, <1>e, <1>m DEF Stands, Moved, Reaps, Reaping
  <2> QED BY <1>f, <1>e, <1>m, <1>i, <2>1 DEF Stands, Moved, Lives
<1>10. Unborn'
  BY <1>f, <1>e, <1>m, <1>i DEF Stands, Moved, Unborn
<1>11. Parents'
  BY <1>f, <1>e, <1>m, <1>i DEF Stands, Moved, Parents, OrphansAdopted
<1>12. Watches'
  BY <1>f, <1>e, <1>s, <1>m, <1>i DEF Stands, Moved, Watches, NoLostChild, Children, At
<1>13. Joins'
  BY <1>f, <1>e, <1>s, <1>m, <1>i DEF Stands, Moved, Joins, Ending, PlaceOf
<1> QED BY <1>1, <1>2, <1>3, <1>4, <1>5, <1>6, <1>7, <1>8, <1>9, <1>10, <1>11, <1>12, <1>13
           DEF ProcsInv

(* A process that is being ended loses one more thread.                    *)
LEMMA TerminateAgainKeeps ==
  ASSUME ProcsInv, NEW t \in Thread, Terminate(t), Dying(home[t])
  PROVE  ProcsInv'
<1>f. Stands(t)
  BY Standing
<1>e. /\ at[t].pc = "term"
      /\ UNCHANGED <<present, ppid, life, refs, code, released, born, home, prog, childLock,
           procLock, refLock, kept>>
  BY DEF Terminate, At, procVars, lockVars, Bury
<1>s. /\ UNCHANGED <<sig, woken>>
  BY DEF Terminate, At, procVars, lockVars, Bury
<1>m. AtType' /\ Moved(t, "rel", at[t].tgt, "gone", at[t].arg)
  BY <1>f, EndMoves DEF Stands
<1>d. /\ deadThreads' = Append(deadThreads, t)
  BY DEF Terminate, At, procVars, lockVars, Bury
<1>i. /\ ProgExact /\ ChildExact /\ OthersExact /\ Places /\ DeadExact /\ CountExact
      /\ LastGone /\ Lives /\ Unborn /\ Parents /\ Watches /\ Joins
  BY DEF ProcsInv
<1>1. TypeOK'
  <2>1. Fields'
    BY <1>f, <1>e, <1>s, <1>d DEF Stands, Fields
  <2> QED BY <1>m, <2>1 DEF TypeOK, AtType, Spot, Fields
<1>2. ProgExact'
  BY <1>f, <1>e, <1>m, <1>i DEF Stands, Moved, ProgExact, HoldsOwn, HoldsTarget
<1>3. ChildExact'
  BY <1>f, <1>e, <1>m, <1>i DEF Stands, Moved, ChildExact, HoldsChild
<1>4. OthersExact'
  BY <1>f, <1>e, <1>m, <1>i DEF Stands, Moved, OthersExact
<1>5. Places'
  BY <1>f, <1>e, <1>m, <1>i DEF Stands, Moved, Places, PlaceOf, Burying, Returns
<1>6. DeadExact'
  <2>1. ~ Gone(t)
    BY <1>f, <1>e DEF Stands, Gone, PlaceOf
  <2>2. /\ ~ InList(deadThreads, t)
        /\ \A u \in Thread : at[u].pc \in {"kt_req", "kt"} => at[u].arg # t
    BY <1>i, <2>1 DEF DeadExact
  <2>3. /\ Distinct(Append(deadThreads, t))
        /\ \A u \in Thread : InList(Append(deadThreads, t), u) <=> InList(deadThreads, u) \/ u = t
    BY <1>f, <1>i, <2>2, AppendMembers, AppendDistinct DEF Stands, Typed, DeadExact
  <2> QED BY <1>f, <1>e, <1>d, <1>m, <1>i, <2>2, <2>3 DEF Moved, Gone, DeadExact
<1>7. CountExact'
  <2>1. \A u \in Thread, p \in Pid : Refers(u, p)' <=> Refers(u, p)
    BY <1>f, <1>e, <1>m DEF Stands, PlaceOf, Moved, Refers, Referring
  <2> QED BY <1>e, <2>1, CountUnmoved
<1>8. LastGone'
  BY <1>f, <1>e, <1>m, <1>i DEF Stands, Moved, LastGone, At
<1>9. Lives'
  <2>1. \A u \in Thread, p \in Pid : Reaps(u, p)' => Reaps(u, p)
    BY <1>f, <1>e, <1>m DEF Stands, Moved, Reaps, Reaping
  <2> QED BY <1>f, <1>e, <1>m, <1>i, <2>1 DEF Stands, Moved, Lives
<1>10. Unborn'
  BY <1>f, <1>e, <1>m, <1>i DEF Stands, Moved, Unborn
<1>11. Parents'
  BY <1>f, <1>e, <1>m, <1>i DEF Stands, Moved, Parents, OrphansAdopted
<1>12. Watches'
  BY <1>f, <1>e, <1>s, <1>m, <1>i DEF Stands, Moved, Watches, NoLostChild, Children, At
<1>13. Joins'
  BY <1>f, <1>e, <1>s, <1>m, <1>i DEF Stands, Moved, Joins, Ending, PlaceOf
<1> QED BY <1>1, <1>2, <1>3, <1>4, <1>5, <1>6, <1>7, <1>8, <1>9, <1>10, <1>11, <1>12, <1>13
           DEF ProcsInv

(* The first thread marks the process and kills the others.                *)
LEMMA TerminateFirstKeeps ==
  ASSUME ProcsInv, NEW t \in Thread, Terminate(t), ~ Dying(home[t])
  PROVE  ProcsInv'
<1>f. Stands(t)
  BY Standing
<1>e. /\ at[t].pc = "term" /\ life' = [life EXCEPT ![home[t]] = "prezombie"]
      /\ code' = [code EXCEPT ![home[t]] = IF t \in sig THEN "signal" ELSE "exit"]
      /\ UNCHANGED <<present, ppid, refs, released, born, home, prog, childLock, procLock,
           refLock, kept>>
  BY DEF Terminate, At, procVars, lockVars, Bury
<1>s. /\ sig' = (sig \cup Threads(home[t])) \ {t} /\ UNCHANGED woken
  BY DEF Terminate, At, procVars, lockVars, Bury
<1>m. AtType' /\ Moved(t, "rel", at[t].tgt, "jo_req", at[t].arg)
  BY <1>f, EndMoves DEF Stands
<1>d. /\ UNCHANGED deadThreads
  BY DEF Terminate, At, procVars, lockVars, Bury
<1>i. /\ ProgExact /\ ChildExact /\ OthersExact /\ Places /\ DeadExact /\ CountExact
      /\ LastGone /\ Lives /\ Unborn /\ Parents /\ Watches /\ Joins
  BY DEF ProcsInv
<1>1. TypeOK'
  <2>1. Fields'
    BY <1>f, <1>e, <1>s, <1>d DEF Stands, Fields, Threads
  <2> QED BY <1>m, <2>1 DEF TypeOK, AtType, Spot, Fields
<1>2. ProgExact'
  BY <1>f, <1>e, <1>m, <1>i DEF Stands, Moved, ProgExact, HoldsOwn, HoldsTarget
<1>3. ChildExact'
  BY <1>f, <1>e, <1>m, <1>i DEF Stands, Moved, ChildExact, HoldsChild
<1>4. OthersExact'
  BY <1>f, <1>e, <1>m, <1>i DEF Stands, Moved, OthersExact
<1>5. Places'
  BY <1>f, <1>e, <1>m, <1>i DEF Stands, Moved, Places, PlaceOf, Burying, Returns
<1>6. DeadExact'
  BY <1>f, <1>e, <1>d, <1>m, <1>i DEF Stands, Moved, DeadExact, Gone, PlaceOf
<1>7. CountExact'
  <2>1. \A u \in Thread, p \in Pid : Refers(u, p)' <=> Refers(u, p)
    BY <1>f, <1>e, <1>m DEF Stands, PlaceOf, Moved, Refers, Referring
  <2> QED BY <1>e, <2>1, CountUnmoved
<1>8. LastGone'
  BY <1>f, <1>e, <1>m, <1>i DEF Stands, Moved, LastGone, At
<1>9. Lives'
  <2>1. \A u \in Thread, p \in Pid : Reaps(u, p)' => Reaps(u, p)
    BY <1>f, <1>e, <1>m DEF Stands, Moved, Reaps, Reaping
  <2> QED BY <1>f, <1>e, <1>m, <1>i, <2>1 DEF Stands, Moved, Lives
<1>10. Unborn'
  BY <1>f, <1>e, <1>m, <1>i DEF Stands, Moved, Unborn
<1>11. Parents'
  BY <1>f, <1>e, <1>m, <1>i DEF Stands, Moved, Parents, OrphansAdopted
<1>12. Watches'
  BY <1>f, <1>e, <1>s, <1>m, <1>i DEF Stands, Moved, Watches, NoLostChild, Children, At
<1>13. Joins'
  BY <1>f, <1>e, <1>s, <1>m, <1>i DEF Stands, Moved, Joins, Ending, PlaceOf
<1> QED BY <1>1, <1>2, <1>3, <1>4, <1>5, <1>6, <1>7, <1>8, <1>9, <1>10, <1>11, <1>12, <1>13
           DEF ProcsInv

(* join() finds no other thread.                                           *)
LEMMA JoinAloneKeeps ==
  ASSUME ProcsInv, NEW t \in Thread, Join(t), Threads(home[t]) = {t}
  PROVE  ProcsInv'
<1>f. Stands(t)
  BY Standing
<1>e. /\ at[t].pc = "join" /\ Threads(home[t]) = {t}
      /\ UNCHANGED <<present, ppid, life, refs, code, released, born, home, prog, childLock,
           procLock, refLock, kept>>
  BY DEF Join, At, procVars, lockVars
<1>s. /\ woken' = woken \ {t} /\ UNCHANGED sig
  BY DEF Join, At, procVars, lockVars
<1>m. AtType' /\ Moved(t, "rel", at[t].tgt, "fin_req", at[t].arg)
  BY <1>f, EndMoves DEF Stands
<1>d. /\ UNCHANGED deadThreads
  BY DEF Join, At, procVars, lockVars
<1>i. /\ ProgExact /\ ChildExact /\ OthersExact /\ Places /\ DeadExact /\ CountExact
      /\ LastGone /\ Lives /\ Unborn /\ Parents /\ Watches /\ Joins
  BY DEF ProcsInv
<1>1. TypeOK'
  <2>1. Fields'
    BY <1>f, <1>e, <1>s, <1>d DEF Stands, Fields
  <2> QED BY <1>m, <2>1 DEF TypeOK, AtType, Spot, Fields
<1>2. ProgExact'
  BY <1>f, <1>e, <1>m, <1>i DEF Stands, Moved, ProgExact, HoldsOwn, HoldsTarget
<1>3. ChildExact'
  BY <1>f, <1>e, <1>m, <1>i DEF Stands, Moved, ChildExact, HoldsChild
<1>4. OthersExact'
  BY <1>f, <1>e, <1>m, <1>i DEF Stands, Moved, OthersExact
<1>5. Places'
  BY <1>f, <1>e, <1>m, <1>i DEF Stands, Moved, Places, PlaceOf, Burying, Returns
<1>6. DeadExact'
  BY <1>f, <1>e, <1>d, <1>m, <1>i DEF Stands, Moved, DeadExact, Gone, PlaceOf
<1>7. CountExact'
  <2>1. \A u \in Thread, p \in Pid : Refers(u, p)' <=> Refers(u, p)
    BY <1>f, <1>e, <1>m DEF Stands, PlaceOf, Moved, Refers, Referring
  <2> QED BY <1>e, <2>1, CountUnmoved
<1>8. LastGone'
  BY <1>f, <1>e, <1>m, <1>i DEF Stands, Moved, LastGone, At
<1>9. Lives'
  <2>1. \A u \in Thread, p \in Pid : Reaps(u, p)' => Reaps(u, p)
    BY <1>f, <1>e, <1>m DEF Stands, Moved, Reaps, Reaping
  <2> QED BY <1>f, <1>e, <1>m, <1>i, <2>1 DEF Stands, Moved, Lives
<1>10. Unborn'
  BY <1>f, <1>e, <1>m, <1>i DEF Stands, Moved, Unborn
<1>11. Parents'
  BY <1>f, <1>e, <1>m, <1>i DEF Stands, Moved, Parents, OrphansAdopted
<1>12. Watches'
  BY <1>f, <1>e, <1>s, <1>m, <1>i DEF Stands, Moved, Watches, NoLostChild, Children, At
<1>13. Joins'
  BY <1>f, <1>e, <1>s, <1>m, <1>i DEF Stands, Moved, Joins, Ending, PlaceOf, Threads
<1> QED BY <1>1, <1>2, <1>3, <1>4, <1>5, <1>6, <1>7, <1>8, <1>9, <1>10, <1>11, <1>12, <1>13
           DEF ProcsInv

(* join() announces to wait for the other threads.                         *)
LEMMA JoinWaitsKeeps ==
  ASSUME ProcsInv, NEW t \in Thread, Join(t), Threads(home[t]) # {t}
  PROVE  ProcsInv'
<1>f. Stands(t)
  BY Standing
<1>e. /\ at[t].pc = "join" /\ Threads(home[t]) # {t}
      /\ UNCHANGED <<present, ppid, life, refs, code, released, born, home, prog, childLock,
           procLock, refLock, kept>>
  BY DEF Join, At, procVars, lockVars
<1>s. /\ woken' = woken \ {t} /\ UNCHANGED sig
  BY DEF Join, At, procVars, lockVars
<1>m. AtType' /\ Moved(t, "rel", at[t].tgt, "jo_wait", at[t].arg)
  BY <1>f, EndMoves DEF Stands
<1>d. /\ UNCHANGED deadThreads
  BY DEF Join, At, procVars, lockVars
<1>i. /\ ProgExact /\ ChildExact /\ OthersExact /\ Places /\ DeadExact /\ CountExact
      /\ LastGone /\ Lives /\ Unborn /\ Parents /\ Watches /\ Joins
  BY DEF ProcsInv
<1>1. TypeOK'
  <2>1. Fields'
    BY <1>f, <1>e, <1>s, <1>d DEF Stands, Fields
  <2> QED BY <1>m, <2>1 DEF TypeOK, AtType, Spot, Fields
<1>2. ProgExact'
  BY <1>f, <1>e, <1>m, <1>i DEF Stands, Moved, ProgExact, HoldsOwn, HoldsTarget
<1>3. ChildExact'
  BY <1>f, <1>e, <1>m, <1>i DEF Stands, Moved, ChildExact, HoldsChild
<1>4. OthersExact'
  BY <1>f, <1>e, <1>m, <1>i DEF Stands, Moved, OthersExact
<1>5. Places'
  BY <1>f, <1>e, <1>m, <1>i DEF Stands, Moved, Places, PlaceOf, Burying, Returns
<1>6. DeadExact'
  BY <1>f, <1>e, <1>d, <1>m, <1>i DEF Stands, Moved, DeadExact, Gone, PlaceOf
<1>7. CountExact'
  <2>1. \A u \in Thread, p \in Pid : Refers(u, p)' <=> Refers(u, p)
    BY <1>f, <1>e, <1>m DEF Stands, PlaceOf, Moved, Refers, Referring
  <2> QED BY <1>e, <2>1, CountUnmoved
<1>8. LastGone'
  BY <1>f, <1>e, <1>m, <1>i DEF Stands, Moved, LastGone, At
<1>9. Lives'
  <2>1. \A u \in Thread, p \in Pid : Reaps(u, p)' => Reaps(u, p)
    BY <1>f, <1>e, <1>m DEF Stands, Moved, Reaps, Reaping
  <2> QED BY <1>f, <1>e, <1>m, <1>i, <2>1 DEF Stands, Moved, Lives
<1>10. Unborn'
  BY <1>f, <1>e, <1>m, <1>i DEF Stands, Moved, Unborn
<1>11. Parents'
  BY <1>f, <1>e, <1>m, <1>i DEF Stands, Moved, Parents, OrphansAdopted
<1>12. Watches'
  BY <1>f, <1>e, <1>s, <1>m, <1>i DEF Stands, Moved, Watches, NoLostChild, Children, At
<1>13. Joins'
  BY <1>f, <1>e, <1>s, <1>m, <1>i DEF Stands, Moved, Joins, Ending, PlaceOf, Threads
<1> QED BY <1>1, <1>2, <1>3, <1>4, <1>5, <1>6, <1>7, <1>8, <1>9, <1>10, <1>11, <1>12, <1>13
           DEF ProcsInv

(* A thread that waits in join() is woken.                                 *)
LEMMA JoinWokenKeeps ==
  ASSUME ProcsInv, NEW t \in Thread, JoinWoken(t)
  PROVE  ProcsInv'
<1>f. Stands(t)
  BY Standing
<1>e. /\ at[t].pc = "jo_wait"
      /\ UNCHANGED <<present, ppid, life, refs, code, released, born, home, prog, childLock,
           procLock, refLock, kept>>
  BY DEF JoinWoken, At, procVars, lockVars
<1>s. /\ woken' = woken \ {t} /\ UNCHANGED sig
  BY DEF JoinWoken, At, procVars, lockVars
<1>m. AtType' /\ Moved(t, "jo_req", at[t].tgt, at[t].ret, at[t].arg)
  BY <1>f, EndMoves DEF Stands
<1>d. /\ UNCHANGED deadThreads
  BY DEF JoinWoken, At, procVars, lockVars
<1>i. /\ ProgExact /\ ChildExact /\ OthersExact /\ Places /\ DeadExact /\ CountExact
      /\ LastGone /\ Lives /\ Unborn /\ Parents /\ Watches /\ Joins
  BY DEF ProcsInv
<1>1. TypeOK'
  <2>1. Fields'
    BY <1>f, <1>e, <1>s, <1>d DEF Stands, Fields
  <2> QED BY <1>m, <2>1 DEF TypeOK, AtType, Spot, Fields
<1>2. ProgExact'
  BY <1>f, <1>e, <1>m, <1>i DEF Stands, Moved, ProgExact, HoldsOwn, HoldsTarget
<1>3. ChildExact'
  BY <1>f, <1>e, <1>m, <1>i DEF Stands, Moved, ChildExact, HoldsChild
<1>4. OthersExact'
  BY <1>f, <1>e, <1>m, <1>i DEF Stands, Moved, OthersExact
<1>5. Places'
  BY <1>f, <1>e, <1>m, <1>i DEF Stands, Moved, Places, PlaceOf, Burying, Returns
<1>6. DeadExact'
  BY <1>f, <1>e, <1>d, <1>m, <1>i DEF Stands, Moved, DeadExact, Gone, PlaceOf
<1>7. CountExact'
  <2>1. \A u \in Thread, p \in Pid : Refers(u, p)' <=> Refers(u, p)
    BY <1>f, <1>e, <1>m DEF Stands, PlaceOf, Moved, Refers, Referring
  <2> QED BY <1>e, <2>1, CountUnmoved
<1>8. LastGone'
  BY <1>f, <1>e, <1>m, <1>i DEF Stands, Moved, LastGone, At
<1>9. Lives'
  <2>1. \A u \in Thread, p \in Pid : Reaps(u, p)' => Reaps(u, p)
    BY <1>f, <1>e, <1>m DEF Stands, Moved, Reaps, Reaping
  <2> QED BY <1>f, <1>e, <1>m, <1>i, <2>1 DEF Stands, Moved, Lives
<1>10. Unborn'
  BY <1>f, <1>e, <1>m, <1>i DEF Stands, Moved, Unborn
<1>11. Parents'
  BY <1>f, <1>e, <1>m, <1>i DEF Stands, Moved, Parents, OrphansAdopted
<1>12. Watches'
  BY <1>f, <1>e, <1>s, <1>m, <1>i DEF Stands, Moved, Watches, NoLostChild, Children, At
<1>13. Joins'
  BY <1>f, <1>e, <1>s, <1>m, <1>i DEF Stands, Moved, Joins, Ending, PlaceOf
<1> QED BY <1>1, <1>2, <1>3, <1>4, <1>5, <1>6, <1>7, <1>8, <1>9, <1>10, <1>11, <1>12, <1>13
           DEF ProcsInv

(* terminate() has released the resources.                                 *)
LEMMA FinishKeeps ==
  ASSUME ProcsInv, NEW t \in Thread, Finish(t)
  PROVE  ProcsInv'
<1>f. Stands(t)
  BY Standing
<1>e. /\ at[t].pc = "finish" /\ released' = released \cup {home[t]}
      /\ UNCHANGED <<present, ppid, life, refs, code, born, home, prog, childLock, procLock,
           refLock, kept>>
  BY DEF Finish, At, procVars, lockVars, Bury
<1>s. /\ UNCHANGED <<sig, woken>>
  BY DEF Finish, At, procVars, lockVars, Bury
<1>m. AtType' /\ Moved(t, "rel", at[t].tgt, "gone", at[t].arg)
  BY <1>f, EndMoves DEF Stands
<1>d. /\ deadThreads' = Append(deadThreads, t)
  BY DEF Finish, At, procVars, lockVars, Bury
<1>i. /\ ProgExact /\ ChildExact /\ OthersExact /\ Places /\ DeadExact /\ CountExact
      /\ LastGone /\ Lives /\ Unborn /\ Parents /\ Watches /\ Joins
  BY DEF ProcsInv
<1>1. TypeOK'
  <2>1. Fields'
    BY <1>f, <1>e, <1>s, <1>d DEF Stands, Fields
  <2> QED BY <1>m, <2>1 DEF TypeOK, AtType, Spot, Fields
<1>2. ProgExact'
  BY <1>f, <1>e, <1>m, <1>i DEF Stands, Moved, ProgExact, HoldsOwn, HoldsTarget
<1>3. ChildExact'
  BY <1>f, <1>e, <1>m, <1>i DEF Stands, Moved, ChildExact, HoldsChild
<1>4. OthersExact'
  BY <1>f, <1>e, <1>m, <1>i DEF Stands, Moved, OthersExact
<1>5. Places'
  BY <1>f, <1>e, <1>m, <1>i DEF Stands, Moved, Places, PlaceOf, Burying, Returns
<1>6. DeadExact'
  <2>1. ~ Gone(t)
    BY <1>f, <1>e DEF Stands, Gone, PlaceOf
  <2>2. /\ ~ InList(deadThreads, t)
        /\ \A u \in Thread : at[u].pc \in {"kt_req", "kt"} => at[u].arg # t
    BY <1>i, <2>1 DEF DeadExact
  <2>3. /\ Distinct(Append(deadThreads, t))
        /\ \A u \in Thread : InList(Append(deadThreads, t), u) <=> InList(deadThreads, u) \/ u = t
    BY <1>f, <1>i, <2>2, AppendMembers, AppendDistinct DEF Stands, Typed, DeadExact
  <2> QED BY <1>f, <1>e, <1>d, <1>m, <1>i, <2>2, <2>3 DEF Moved, Gone, DeadExact
<1>7. CountExact'
  <2>1. \A u \in Thread, p \in Pid : Refers(u, p)' <=> Refers(u, p)
    BY <1>f, <1>e, <1>m DEF Stands, PlaceOf, Moved, Refers, Referring
  <2> QED BY <1>e, <2>1, CountUnmoved
<1>8. LastGone'
  BY <1>f, <1>e, <1>m, <1>i DEF Stands, Moved, LastGone, At
<1>9. Lives'
  <2>1. \A u \in Thread, p \in Pid : Reaps(u, p)' => Reaps(u, p)
    BY <1>f, <1>e, <1>m DEF Stands, Moved, Reaps, Reaping
  <2> QED BY <1>f, <1>e, <1>m, <1>i, <2>1 DEF Stands, Moved, Lives
<1>10. Unborn'
  BY <1>f, <1>e, <1>m, <1>i DEF Stands, Moved, Unborn
<1>11. Parents'
  BY <1>f, <1>e, <1>m, <1>i DEF Stands, Moved, Parents, OrphansAdopted
<1>12. Watches'
  BY <1>f, <1>e, <1>s, <1>m, <1>i DEF Stands, Moved, Watches, NoLostChild, Children, At
<1>13. Joins'
  BY <1>f, <1>e, <1>s, <1>m, <1>i DEF Stands, Moved, Joins, Ending, PlaceOf
<1> QED BY <1>1, <1>2, <1>3, <1>4, <1>5, <1>6, <1>7, <1>8, <1>9, <1>10, <1>11, <1>12, <1>13
           DEF ProcsInv

(* The terminator takes a thread from its list.                            *)
LEMMA TakeDeadKeeps ==
  ASSUME ProcsInv, NEW t \in Thread, TakeDead(t)
  PROVE  ProcsInv'
<1>f. Stands(t)
  BY Standing
<1>e. /\ at[t].pc = "idle"
      /\ UNCHANGED <<present, ppid, life, refs, code, released, born, home, prog, childLock,
           procLock, refLock, kept>>
  BY DEF TakeDead, At, procVars, lockVars
<1>s. /\ UNCHANGED <<sig, woken>>
  BY DEF TakeDead, At, procVars, lockVars
<1>k. AtType' /\ Moved(t, "kt_req", at[t].tgt, at[t].ret, Head(deadThreads))
  BY <1>f, TypedMoves DEF Stands
<1>m. AtType' /\ Moved(t, "kt_req", at[t].tgt, at[t].ret, at'[t].arg)
  BY <1>k DEF Moved
<1>d. /\ deadThreads # <<>> /\ at'[t].arg = Head(deadThreads)
      /\ deadThreads' = Tail(deadThreads)
  BY <1>k DEF Moved, TakeDead, At, procVars, lockVars
<1>i. /\ ProgExact /\ ChildExact /\ OthersExact /\ Places /\ DeadExact /\ CountExact
      /\ LastGone /\ Lives /\ Unborn /\ Parents /\ Watches /\ Joins
  BY DEF ProcsInv
<1>1. TypeOK'
  <2>1. Fields'
    BY <1>f, <1>e, <1>s, <1>d DEF Stands, Fields
  <2> QED BY <1>m, <2>1 DEF TypeOK, AtType, Spot, Fields
<1>2. ProgExact'
  BY <1>f, <1>e, <1>m, <1>i DEF Stands, Moved, ProgExact, HoldsOwn, HoldsTarget
<1>3. ChildExact'
  BY <1>f, <1>e, <1>m, <1>i DEF Stands, Moved, ChildExact, HoldsChild
<1>4. OthersExact'
  BY <1>f, <1>e, <1>m, <1>i DEF Stands, Moved, OthersExact
<1>5. Places'
  BY <1>f, <1>e, <1>m, <1>i DEF Stands, Moved, Places, PlaceOf, Burying, Returns
<1>6. DeadExact'
  <2>1. /\ Head(deadThreads) \in Thread /\ InList(deadThreads, Head(deadThreads))
        /\ Distinct(Tail(deadThreads))
        /\ \A u : InList(Tail(deadThreads), u) <=> InList(deadThreads, u) /\ u # Head(deadThreads)
    BY <1>f, <1>d, <1>i, TailMembers DEF Stands, Typed, DeadExact
  <2>2. Gone(Head(deadThreads)) /\ Head(deadThreads) # t /\ t = Terminator
    BY <1>f, <1>e, <1>i, <2>1 DEF Stands, DeadExact, Gone, PlaceOf, Burying
  <2>3. \A u \in Thread \ {t} : at[u].pc \notin {"kt_req", "kt"}
    BY <1>i, <2>2 DEF Places, PlaceOf, Burying
  <2>4. /\ at'[t].pc = "kt_req" /\ at'[t].arg = Head(deadThreads)
        /\ at'[Head(deadThreads)] = at[Head(deadThreads)]
        /\ \A u \in Thread \ {t} : at'[u].pc \notin {"kt_req", "kt"}
    BY <1>m, <1>d, <2>1, <2>2, <2>3 DEF Moved
  <2>5. \A u \in Thread : InList(deadThreads', u) => Gone(u)'
    BY <1>f, <1>e, <1>d, <1>m, <1>i, <2>1 DEF Stands, Moved, Gone, PlaceOf, DeadExact
  <2>6. /\ at'[t].arg \in Thread /\ Gone(at[t].arg)' /\ ~ InList(deadThreads', at'[t].arg)
    BY <1>d, <2>1, <2>2, <2>4 DEF Gone
  <2> QED BY <1>d, <2>1, <2>4, <2>5, <2>6 DEF DeadExact
<1>7. CountExact'
  <2>1. \A u \in Thread, p \in Pid : Refers(u, p)' <=> Refers(u, p)
    BY <1>f, <1>e, <1>m DEF Stands, PlaceOf, Moved, Refers, Referring
  <2> QED BY <1>e, <2>1, CountUnmoved
<1>8. LastGone'
  BY <1>f, <1>e, <1>m, <1>i DEF Stands, Moved, LastGone, At
<1>9. Lives'
  <2>1. \A u \in Thread, p \in Pid : Reaps(u, p)' => Reaps(u, p)
    BY <1>f, <1>e, <1>m DEF Stands, Moved, Reaps, Reaping
  <2> QED BY <1>f, <1>e, <1>m, <1>i, <2>1 DEF Stands, Moved, Lives
<1>10. Unborn'
  BY <1>f, <1>e, <1>m, <1>i DEF Stands, Moved, Unborn
<1>11. Parents'
  BY <1>f, <1>e, <1>m, <1>i DEF Stands, Moved, Parents, OrphansAdopted
<1>12. Watches'
  BY <1>f, <1>e, <1>s, <1>m, <1>i DEF Stands, Moved, Watches, NoLostChild, Children, At
<1>13. Joins'
  BY <1>f, <1>e, <1>s, <1>m, <1>i DEF Stands, Moved, Joins, Ending, PlaceOf
<1> QED BY <1>1, <1>2, <1>3, <1>4, <1>5, <1>6, <1>7, <1>8, <1>9, <1>10, <1>11, <1>12, <1>13
           DEF ProcsInv

(* The terminator asks for the process of a thread that has gone.          *)
LEMMA KillThreadRequestKeeps ==
  ASSUME ProcsInv, NEW t \in Thread, KillThreadRequest(t)
  PROVE  ProcsInv'
<1>f. Stands(t)
  BY Standing
<1>e. /\ at[t].pc = "kt_req" /\ at[at[t].arg].pc = "gone" /\ refLock = None
      /\ home[at[t].arg] \in present /\ refs' = [refs EXCEPT ![home[at[t].arg]] = @ + 1]
      /\ UNCHANGED <<present, ppid, life, code, released, born, home, prog, childLock,
           procLock, refLock, kept>>
  BY DEF KillThreadRequest, At, procVars, lockVars, Request
<1>s. /\ UNCHANGED <<sig, woken>>
  BY DEF KillThreadRequest, At, procVars, lockVars, Request
<1>m. AtType' /\ Moved(t, "kt", home[at[t].arg], at[t].ret, at[t].arg)
  BY <1>f, TypedMoves DEF Stands
<1>d. /\ UNCHANGED deadThreads
  BY DEF KillThreadRequest, At, procVars, lockVars, Request
<1>i. /\ ProgExact /\ ChildExact /\ OthersExact /\ Places /\ DeadExact /\ CountExact
      /\ LastGone /\ Lives /\ Unborn /\ Parents /\ Watches /\ Joins
  BY DEF ProcsInv
<1>1. TypeOK'
  <2>1. home[at[t].arg] \in Pid
    BY <1>f, <1>e DEF Stands, Typed
  <2>2. Fields'
    BY <1>f, <1>e, <1>s, <1>d, <2>1 DEF Stands, Fields
  <2> QED BY <1>m, <2>2 DEF TypeOK, AtType, Spot, Fields
<1>2. ProgExact'
  BY <1>f, <1>e, <1>m, <1>i DEF Stands, Moved, ProgExact, HoldsOwn, HoldsTarget
<1>3. ChildExact'
  BY <1>f, <1>e, <1>m, <1>i DEF Stands, Moved, ChildExact, HoldsChild
<1>4. OthersExact'
  BY <1>f, <1>e, <1>m, <1>i DEF Stands, Moved, OthersExact
<1>5. Places'
  BY <1>f, <1>e, <1>m, <1>i DEF Stands, Moved, Places, PlaceOf, Burying, Returns
<1>6. DeadExact'
  BY <1>f, <1>e, <1>d, <1>m, <1>i DEF Stands, Moved, DeadExact, Gone, PlaceOf
<1>7. CountExact'
  <2>1. home[at[t].arg] \in Pid
    BY <1>f, <1>e DEF Stands, Typed
  <2>2. \A u \in Thread \ {t}, p \in Pid : Refers(u, p)' <=> Refers(u, p)
    BY <1>e, <1>m, <2>1 DEF Moved, Refers
  <2>3. \A p \in Pid : refs'[p] + Ref(t, p) + In(t, p) + Born(p)
                        = refs[p] + Ref(t, p)' + In(t, p)' + Born(p)'
    BY <1>f, <1>e, <1>m, <2>1 DEF Stands, Moved, Ref, Refers, Referring, In, Born, PlaceOf
  <2>4. refs' \in [Pid -> Nat] /\ \A u \in Thread \ {t} : home'[u] = home[u]
    BY <1>f, <1>e, <1>1 DEF Stands, TypeOK
  <2> QED BY <2>2, <2>3, <2>4, Balanced
<1>8. LastGone'
  <2>1. \A u \in Thread : at[u].pc # "rm"
    BY <1>f, <1>e, <1>i DEF Stands, OthersExact
  <2>2. home[at[t].arg] \in Pid
    BY <1>f, <1>e DEF Stands, Typed
  <2> QED BY <1>f, <1>e, <1>m, <1>i, <2>1, <2>2 DEF Stands, Moved, LastGone, At
<1>9. Lives'
  <2>1. \A u \in Thread, p \in Pid : Reaps(u, p)' => Reaps(u, p)
    BY <1>f, <1>e, <1>m DEF Stands, Moved, Reaps, Reaping
  <2> QED BY <1>f, <1>e, <1>m, <1>i, <2>1 DEF Stands, Moved, Lives
<1>10. Unborn'
  BY <1>f, <1>e, <1>m, <1>i DEF Stands, Moved, Unborn
<1>11. Parents'
  BY <1>f, <1>e, <1>m, <1>i DEF Stands, Moved, Parents, OrphansAdopted
<1>12. Watches'
  BY <1>f, <1>e, <1>s, <1>m, <1>i DEF Stands, Moved, Watches, NoLostChild, Children, At
<1>13. Joins'
  BY <1>f, <1>e, <1>s, <1>m, <1>i DEF Stands, Moved, Joins, Ending, PlaceOf
<1> QED BY <1>1, <1>2, <1>3, <1>4, <1>5, <1>6, <1>7, <1>8, <1>9, <1>10, <1>11, <1>12, <1>13
           DEF ProcsInv

(* The last thread of a process is buried.                                 *)
LEMMA KillThreadLastKeeps ==
  ASSUME ProcsInv, NEW t \in Thread, KillThread(t), IsLast(at[t].arg, at[t].tgt)
  PROVE  ProcsInv'
<1>f. Stands(t)
  BY Standing
<1>e. /\ at[t].pc = "kt" /\ prog[at[t].tgt] = None /\ refLock = None
      /\ Threads(at[t].tgt) = {at[t].arg} /\ life' = [life EXCEPT ![at[t].tgt] = "zombie"]
      /\ refs' = [refs EXCEPT ![at[t].tgt] = @ - 1]
      /\ home' = [home EXCEPT ![at[t].arg] = None] /\ prog' = [prog EXCEPT ![at[t].tgt] = t]
      /\ UNCHANGED <<present, ppid, code, released, born, childLock, procLock, refLock,
           kept>>
  BY DEF KillThread, At, procVars, lockVars, IsLast
<1>s. /\ sig' = sig \ {at[t].arg} /\ woken' = woken \cup Sleepers(at[t].tgt)
  BY DEF KillThread, At, procVars, lockVars, IsLast
<1>m. AtType' /\ at[t].arg # t /\ Pair(t, at[t].arg, "kt_child", at[t].tgt, "idle", None,
         "free")
  BY <1>f, TypedMoves DEF Stands
<1>d. /\ UNCHANGED deadThreads
  BY DEF KillThread, At, procVars, lockVars, IsLast
<1>i. /\ ProgExact /\ ChildExact /\ OthersExact /\ Places /\ DeadExact /\ CountExact
      /\ LastGone /\ Lives /\ Unborn /\ Parents /\ Watches /\ Joins
  BY DEF ProcsInv
<1>1. TypeOK'
  <2>1. refs[at[t].tgt] \in Nat \ {0}
    BY <1>f, <1>e, Present DEF Stands, Referring
  <2>2. Fields'
    BY <1>f, <1>e, <1>s, <1>d, <2>1 DEF Stands, Fields, Sleepers, Threads
  <2> QED BY <1>m, <2>2 DEF TypeOK, AtType, Spot, Fields
<1>2. ProgExact'
  BY <1>f, <1>e, <1>m, <1>i DEF Stands, Pair, ProgExact, HoldsOwn, HoldsTarget
<1>3. ChildExact'
  BY <1>f, <1>e, <1>m, <1>i DEF Stands, Pair, ChildExact, HoldsChild
<1>4. OthersExact'
  BY <1>f, <1>e, <1>m, <1>i DEF Stands, Pair, OthersExact
<1>5. Places'
  BY <1>f, <1>e, <1>m, <1>i DEF Stands, Pair, Places, PlaceOf, Burying, Returns
<1>6. DeadExact'
  <2>1. \A u \in Thread \ {t} : at[u].pc \notin {"kt_req", "kt"}
    BY <1>f, <1>e, <1>i DEF Stands, Places, PlaceOf, Burying
  <2>2. \A u \in Thread : at'[u].pc \notin {"kt_req", "kt"}
    BY <1>f, <1>e, <1>m, <2>1 DEF Stands, Pair
  <2>3. ~ InList(deadThreads, at[t].arg)
    BY <1>e, <1>i DEF DeadExact
  <2>4. \A u \in Thread : InList(deadThreads', u) => Gone(u)'
    BY <1>f, <1>e, <1>d, <1>m, <1>i, <2>3 DEF Stands, Pair, Gone, PlaceOf, DeadExact
  <2> QED BY <1>d, <1>i, <2>2, <2>4 DEF DeadExact
<1>7. CountExact'
  <2>0. PICK d \in Thread : d = at[t].arg
    BY <1>f, <1>e DEF Stands
  <2>1. /\ at[d].pc = "gone" /\ at[d].ret = "user" /\ home'[d] = None /\ home'[t] = home[t]
        /\ home[d] = at[t].tgt /\ d # t
    BY <1>f, <1>e, <1>m, <1>i, <2>0 DEF Stands, Places, PlaceOf
  <2>2. \A u \in Thread \ {t}, p \in Pid : Refers(u, p)' <=> Refers(u, p)
    BY <1>e, <2>0, <1>m, <2>1 DEF Pair, Refers, Referring
  <2>3. \A p \in Pid : refs'[p] + Ref(t, p) + In(d, p) + Born(p)
                        = refs[p] + Ref(t, p)' + In(d, p)' + Born(p)'
    BY <1>f, <1>e, <2>0, <1>m, <2>1 DEF Stands, Pair, Ref, Refers, Referring, In, Born, PlaceOf
  <2>4. refs' \in [Pid -> Nat] /\ \A u \in Thread \ {d} : home'[u] = home[u]
    BY <1>f, <1>e, <2>0, <1>1 DEF Stands, TypeOK
  <2> QED BY <2>2, <2>3, <2>4, Balanced
<1>8. LastGone'
  <2>1. \A u \in Thread : at[u].pc # "rm"
    BY <1>f, <1>e, <1>i DEF Stands, OthersExact
  <2>2. /\ Ref(t, at[t].tgt) = 1 /\ In(at[t].arg, at[t].tgt) = 1
        /\ Born(at[t].tgt) \in {0, 1}
    BY <1>f, <1>e DEF Stands, Ref, Refers, Referring, In, Born
  <2>3. refs[at[t].tgt] >= 2
    BY <1>f, <1>e, <2>2, Enough DEF Stands
  <2> QED BY <1>f, <1>e, <1>m, <1>i, <2>1, <2>3 DEF Stands, Pair, LastGone, At
<1>9. Lives'
  <2>1. /\ at[t].tgt \in born /\ at[t].tgt \in present
        /\ life[at[t].tgt] \in {"alive", "prezombie"}
    BY <1>f, <1>e, <1>i DEF Stands, Lives
  <2>2. \A u \in Thread : home'[u] = IF u = at[t].arg THEN None ELSE home[u]
    BY <1>f, <1>e DEF Stands
  <2>3. \A u \in Thread, p \in Pid : Reaps(u, p)' => Reaps(u, p) /\ p # at[t].tgt
    BY <1>f, <1>e, <1>m, <1>i, <2>1 DEF Stands, Pair, Lives, Reaps, Reaping
  <2>4. \A u \in Thread : home'[u] # at[t].tgt
    BY <1>f, <1>e, <2>2 DEF Stands, Threads
  <2> QED BY <1>f, <1>e, <1>m, <1>i, <2>1, <2>2, <2>3, <2>4 DEF Stands, Pair, Lives
<1>10. Unborn'
  BY <1>f, <1>e, <1>m, <1>i DEF Stands, Pair, Unborn
<1>11. Parents'
  BY <1>f, <1>e, <1>m, <1>i DEF Stands, Pair, Parents, OrphansAdopted
<1>12. Watches'
  BY <1>f, <1>e, <1>s, <1>m, <1>i DEF Stands, Pair, Watches, NoLostChild, Children, At
<1>13. Joins'
  <2>1. /\ at[at[t].arg].ret = "user" /\ at[t].ret = "user" /\ at[t].arg \in Thread
        /\ home[at[t].arg] = at[t].tgt
    BY <1>f, <1>e, <1>i DEF Stands, Places, PlaceOf
  <2>2. \A u \in Thread : home'[u] = IF u = at[t].arg THEN None ELSE home[u]
    BY <1>f, <1>e DEF Stands
  <2>3. \A u \in Thread : "jo_wait" \in {at'[u].pc, at'[u].ret} =>
          "jo_wait" \in {at[u].pc, at[u].ret} /\ u # at[t].arg
    BY <1>f, <1>e, <1>m, <2>1 DEF Stands, Pair
  <2>4. \A u \in Thread : at'[u].pc \in {"fin_req", "finish"} \/ at'[u].ret = "fin_req" =>
          (at[u].pc \in {"fin_req", "finish"} \/ at[u].ret = "fin_req") /\ u # at[t].arg
    BY <1>f, <1>e, <1>m, <2>1 DEF Stands, Pair
  <2>5. \A u \in Thread : Ending(u) => Ending(u)' /\ u # at[t].arg /\ home[u] \in Pid
    BY <1>f, <1>e, <1>m, <1>i, <2>1, EndingHome DEF Stands, Pair, Ending
  <2>6. \A u \in Thread : "jo_wait" \in {at[u].pc, at[u].ret} /\ u \notin woken' =>
          u \notin woken /\ home[u] # at[t].tgt
    BY <1>s DEF Sleepers, Threads
  <2>7. \A u \in Thread : "jo_wait" \in {at'[u].pc, at'[u].ret} /\ u \notin woken' =>
          \E w \in Thread \ {u} : home'[w] = home'[u]
    BY <1>i, <2>1, <2>2, <2>3, <2>6 DEF Joins
  <2>8. \A u \in Thread : at'[u].pc \in {"fin_req", "finish"} \/ at'[u].ret = "fin_req" =>
          home[u] \in Pid
    BY <2>4, <2>5 DEF Ending
  <2>9. \A u \in Thread : at'[u].pc \in {"fin_req", "finish"} \/ at'[u].ret = "fin_req" =>
          \A w \in Thread : home'[w] = home'[u] => w = u
    BY <1>f, <1>i, <2>2, <2>4, <2>8 DEF Stands, Joins
  <2>10. \A p \in Pid : code'[p] # "none" =>
           p \in released' \/ \E u \in Thread : home'[u] = p /\ Ending(u)'
    BY <1>e, <1>i, <2>2, <2>5 DEF Joins
  <2> QED BY <2>7, <2>9, <2>10 DEF Joins
<1> QED BY <1>1, <1>2, <1>3, <1>4, <1>5, <1>6, <1>7, <1>8, <1>9, <1>10, <1>11, <1>12, <1>13
           DEF ProcsInv

(* A thread that has others beside it is buried.                           *)
LEMMA KillThreadOtherKeeps ==
  ASSUME ProcsInv, NEW t \in Thread, KillThread(t), ~ IsLast(at[t].arg, at[t].tgt)
  PROVE  ProcsInv'
<1>f. Stands(t)
  BY Standing
<1>e. /\ at[t].pc = "kt" /\ prog[at[t].tgt] = None /\ refLock = None
      /\ refs' = [refs EXCEPT ![at[t].tgt] = @ - 1]
      /\ home' = [home EXCEPT ![at[t].arg] = None]
      /\ UNCHANGED <<present, ppid, life, code, released, born, prog, childLock, procLock,
           refLock, kept>>
  BY DEF KillThread, At, procVars, lockVars
<1>s. /\ sig' = sig \ {at[t].arg} /\ woken' = woken \cup Sleepers(at[t].tgt)
  BY DEF KillThread, At, procVars, lockVars
<1>m. AtType' /\ at[t].arg # t /\ Pair(t, at[t].arg, "rel", at[t].tgt, "idle", None, "free")
  BY <1>f, TypedMoves DEF Stands
<1>d. /\ UNCHANGED deadThreads
  BY DEF KillThread, At, procVars, lockVars
<1>i. /\ ProgExact /\ ChildExact /\ OthersExact /\ Places /\ DeadExact /\ CountExact
      /\ LastGone /\ Lives /\ Unborn /\ Parents /\ Watches /\ Joins
  BY DEF ProcsInv
<1>1. TypeOK'
  <2>1. refs[at[t].tgt] \in Nat \ {0}
    BY <1>f, <1>e, Present DEF Stands, Referring
  <2>2. Fields'
    BY <1>f, <1>e, <1>s, <1>d, <2>1 DEF Stands, Fields, Sleepers, Threads
  <2> QED BY <1>m, <2>2 DEF TypeOK, AtType, Spot, Fields
<1>2. ProgExact'
  BY <1>f, <1>e, <1>m, <1>i DEF Stands, Pair, ProgExact, HoldsOwn, HoldsTarget
<1>3. ChildExact'
  BY <1>f, <1>e, <1>m, <1>i DEF Stands, Pair, ChildExact, HoldsChild
<1>4. OthersExact'
  BY <1>f, <1>e, <1>m, <1>i DEF Stands, Pair, OthersExact
<1>5. Places'
  BY <1>f, <1>e, <1>m, <1>i DEF Stands, Pair, Places, PlaceOf, Burying, Returns
<1>6. DeadExact'
  <2>1. \A u \in Thread \ {t} : at[u].pc \notin {"kt_req", "kt"}
    BY <1>f, <1>e, <1>i DEF Stands, Places, PlaceOf, Burying
  <2>2. \A u \in Thread : at'[u].pc \notin {"kt_req", "kt"}
    BY <1>f, <1>e, <1>m, <2>1 DEF Stands, Pair
  <2>3. ~ InList(deadThreads, at[t].arg)
    BY <1>e, <1>i DEF DeadExact
  <2>4. \A u \in Thread : InList(deadThreads', u) => Gone(u)'
    BY <1>f, <1>e, <1>d, <1>m, <1>i, <2>3 DEF Stands, Pair, Gone, PlaceOf, DeadExact
  <2> QED BY <1>d, <1>i, <2>2, <2>4 DEF DeadExact
<1>7. CountExact'
  <2>0. PICK d \in Thread : d = at[t].arg
    BY <1>f, <1>e DEF Stands
  <2>1. /\ at[d].pc = "gone" /\ at[d].ret = "user" /\ home'[d] = None /\ home'[t] = home[t]
        /\ home[d] = at[t].tgt /\ d # t
    BY <1>f, <1>e, <1>m, <1>i, <2>0 DEF Stands, Places, PlaceOf
  <2>2. \A u \in Thread \ {t}, p \in Pid : Refers(u, p)' <=> Refers(u, p)
    BY <1>e, <2>0, <1>m, <2>1 DEF Pair, Refers, Referring
  <2>3. \A p \in Pid : refs'[p] + Ref(t, p) + In(d, p) + Born(p)
                        = refs[p] + Ref(t, p)' + In(d, p)' + Born(p)'
    BY <1>f, <1>e, <2>0, <1>m, <2>1 DEF Stands, Pair, Ref, Refers, Referring, In, Born, PlaceOf
  <2>4. refs' \in [Pid -> Nat] /\ \A u \in Thread \ {d} : home'[u] = home[u]
    BY <1>f, <1>e, <2>0, <1>1 DEF Stands, TypeOK
  <2> QED BY <2>2, <2>3, <2>4, Balanced
<1>8. LastGone'
  <2>1. \A u \in Thread : at[u].pc # "rm"
    BY <1>f, <1>e, <1>i DEF Stands, OthersExact
  <2>2. /\ Ref(t, at[t].tgt) = 1 /\ In(at[t].arg, at[t].tgt) = 1
        /\ Born(at[t].tgt) \in {0, 1}
    BY <1>f, <1>e DEF Stands, Ref, Refers, Referring, In, Born
  <2>3. refs[at[t].tgt] >= 2
    BY <1>f, <1>e, <2>2, Enough DEF Stands
  <2> QED BY <1>f, <1>e, <1>m, <1>i, <2>1, <2>3 DEF Stands, Pair, LastGone, At
<1>9. Lives'
  <2>1. \A u \in Thread : home'[u] \in Pid => home'[u] = home[u]
    BY <1>f, <1>e DEF Stands
  <2>2. \A u \in Thread, p \in Pid : Reaps(u, p)' => Reaps(u, p)
    BY <1>f, <1>e, <1>m DEF Stands, Pair, Reaps, Reaping
  <2>3. \A u \in Thread : at'[u].pc \in {"kt_child", "kt_note"} => at'[u] = at[u]
    BY <1>f, <1>e, <1>m DEF Stands, Pair
  <2> QED BY <1>e, <1>i, <2>1, <2>2, <2>3 DEF Lives
<1>10. Unborn'
  BY <1>f, <1>e, <1>m, <1>i DEF Stands, Pair, Unborn
<1>11. Parents'
  BY <1>f, <1>e, <1>m, <1>i DEF Stands, Pair, Parents, OrphansAdopted
<1>12. Watches'
  BY <1>f, <1>e, <1>s, <1>m, <1>i DEF Stands, Pair, Watches, NoLostChild, Children, At
<1>13. Joins'
  <2>1. /\ at[at[t].arg].ret = "user" /\ at[t].ret = "user" /\ at[t].arg \in Thread
        /\ home[at[t].arg] = at[t].tgt
    BY <1>f, <1>e, <1>i DEF Stands, Places, PlaceOf
  <2>2. \A u \in Thread : home'[u] = IF u = at[t].arg THEN None ELSE home[u]
    BY <1>f, <1>e DEF Stands
  <2>3. \A u \in Thread : "jo_wait" \in {at'[u].pc, at'[u].ret} =>
          "jo_wait" \in {at[u].pc, at[u].ret} /\ u # at[t].arg
    BY <1>f, <1>e, <1>m, <2>1 DEF Stands, Pair
  <2>4. \A u \in Thread : at'[u].pc \in {"fin_req", "finish"} \/ at'[u].ret = "fin_req" =>
          (at[u].pc \in {"fin_req", "finish"} \/ at[u].ret = "fin_req") /\ u # at[t].arg
    BY <1>f, <1>e, <1>m, <2>1 DEF Stands, Pair
  <2>5. \A u \in Thread : Ending(u) => Ending(u)' /\ u # at[t].arg /\ home[u] \in Pid
    BY <1>f, <1>e, <1>m, <1>i, <2>1, EndingHome DEF Stands, Pair, Ending
  <2>6. \A u \in Thread : "jo_wait" \in {at[u].pc, at[u].ret} /\ u \notin woken' =>
          u \notin woken /\ home[u] # at[t].tgt
    BY <1>s DEF Sleepers, Threads
  <2>7. \A u \in Thread : "jo_wait" \in {at'[u].pc, at'[u].ret} /\ u \notin woken' =>
          \E w \in Thread \ {u} : home'[w] = home'[u]
    BY <1>i, <2>1, <2>2, <2>3, <2>6 DEF Joins
  <2>8. \A u \in Thread : at'[u].pc \in {"fin_req", "finish"} \/ at'[u].ret = "fin_req" =>
          home[u] \in Pid
    BY <2>4, <2>5 DEF Ending
  <2>9. \A u \in Thread : at'[u].pc \in {"fin_req", "finish"} \/ at'[u].ret = "fin_req" =>
          \A w \in Thread : home'[w] = home'[u] => w = u
    BY <1>f, <1>i, <2>2, <2>4, <2>8 DEF Stands, Joins
  <2>10. \A p \in Pid : code'[p] # "none" =>
           p \in released' \/ \E u \in Thread : home'[u] = p /\ Ending(u)'
    BY <1>e, <1>i, <2>2, <2>5 DEF Joins
  <2> QED BY <2>7, <2>9, <2>10 DEF Joins
<1> QED BY <1>1, <1>2, <1>3, <1>4, <1>5, <1>6, <1>7, <1>8, <1>9, <1>10, <1>11, <1>12, <1>13
           DEF ProcsInv

(* The terminator has childLock.                                           *)
LEMMA KillThreadLockKeeps ==
  ASSUME ProcsInv, NEW t \in Thread, KillThreadLock(t)
  PROVE  ProcsInv'
<1>f. Stands(t)
  BY Standing
<1>e. /\ at[t].pc = "kt_child" /\ childLock \in {None, t} /\ childLock' = t
      /\ UNCHANGED <<present, ppid, life, refs, code, released, born, home, prog, procLock,
           refLock, kept>>
  BY DEF KillThreadLock, At, procVars, lockVars, ChildDown
<1>s. /\ UNCHANGED <<sig, woken>>
  BY DEF KillThreadLock, At, procVars, lockVars, ChildDown
<1>m. AtType' /\ Moved(t, "kt_note", at[t].tgt, at[t].ret, at[t].arg)
  BY <1>f, BuryMoves DEF Stands
<1>d. /\ UNCHANGED deadThreads
  BY DEF KillThreadLock, At, procVars, lockVars, ChildDown
<1>i. /\ ProgExact /\ ChildExact /\ OthersExact /\ Places /\ DeadExact /\ CountExact
      /\ LastGone /\ Lives /\ Unborn /\ Parents /\ Watches /\ Joins
  BY DEF ProcsInv
<1>1. TypeOK'
  <2>1. Fields'
    BY <1>f, <1>e, <1>s, <1>d DEF Stands, Fields
  <2> QED BY <1>m, <2>1 DEF TypeOK, AtType, Spot, Fields
<1>2. ProgExact'
  BY <1>f, <1>e, <1>m, <1>i DEF Stands, Moved, ProgExact, HoldsOwn, HoldsTarget
<1>3. ChildExact'
  BY <1>f, <1>e, <1>m, <1>i DEF Stands, Moved, ChildExact, HoldsChild
<1>4. OthersExact'
  BY <1>f, <1>e, <1>m, <1>i DEF Stands, Moved, OthersExact
<1>5. Places'
  BY <1>f, <1>e, <1>m, <1>i DEF Stands, Moved, Places, PlaceOf, Burying, Returns
<1>6. DeadExact'
  BY <1>f, <1>e, <1>d, <1>m, <1>i DEF Stands, Moved, DeadExact, Gone, PlaceOf
<1>7. CountExact'
  <2>1. \A u \in Thread, p \in Pid : Refers(u, p)' <=> Refers(u, p)
    BY <1>f, <1>e, <1>m DEF Stands, PlaceOf, Moved, Refers, Referring
  <2> QED BY <1>e, <2>1, CountUnmoved
<1>8. LastGone'
  BY <1>f, <1>e, <1>m, <1>i DEF Stands, Moved, LastGone, At
<1>9. Lives'
  <2>1. \A u \in Thread, p \in Pid : Reaps(u, p)' => Reaps(u, p)
    BY <1>f, <1>e, <1>m DEF Stands, Moved, Reaps, Reaping
  <2> QED BY <1>f, <1>e, <1>m, <1>i, <2>1 DEF Stands, Moved, Lives
<1>10. Unborn'
  BY <1>f, <1>e, <1>m, <1>i DEF Stands, Moved, Unborn
<1>11. Parents'
  BY <1>f, <1>e, <1>m, <1>i DEF Stands, Moved, Parents, OrphansAdopted
<1>12. Watches'
  <2>1. \A u \in Thread : at[u].pc # "wc_event"
    BY <1>f, <1>e, <1>i DEF Stands, ChildExact, HoldsChild
  <2> QED BY <1>f, <1>e, <1>s, <1>m, <1>i, <2>1 DEF Stands, Moved, Watches, NoLostChild,
             Children, At
<1>13. Joins'
  BY <1>f, <1>e, <1>s, <1>m, <1>i DEF Stands, Moved, Joins, Ending, PlaceOf
<1> QED BY <1>1, <1>2, <1>3, <1>4, <1>5, <1>6, <1>7, <1>8, <1>9, <1>10, <1>11, <1>12, <1>13
           DEF ProcsInv

(* The terminator tells the parent and releases both locks.                *)
LEMMA KillThreadNotifyKeeps ==
  ASSUME ProcsInv, NEW t \in Thread, KillThreadNotify(t)
  PROVE  ProcsInv'
<1>f. Stands(t)
  BY Standing
<1>e. /\ at[t].pc = "kt_note"
      /\ (ppid[at[t].tgt] \in present => prog[ppid[at[t].tgt]] = None)
      /\ prog' = [prog EXCEPT ![at[t].tgt] = None]
      /\ childLock' = IF kept THEN childLock ELSE None
      /\ UNCHANGED <<present, ppid, life, refs, code, released, born, home, procLock,
           refLock, kept>>
  BY DEF KillThreadNotify, At, procVars, lockVars, ChildUp, NotifyProcDied, Release
<1>s. /\ woken' = woken \cup {u \in Threads(ppid[at[t].tgt]) : at[u].pc = "wc_wait"}
      /\ UNCHANGED sig
  BY DEF KillThreadNotify, At, procVars, lockVars, ChildUp, NotifyProcDied, Release
<1>m. AtType' /\ Moved(t, "rel", at[t].tgt, "idle", at[t].arg)
  BY <1>f, BuryMoves DEF Stands
<1>d. /\ UNCHANGED deadThreads
  BY DEF KillThreadNotify, At, procVars, lockVars, ChildUp, NotifyProcDied, Release
<1>i. /\ ProgExact /\ ChildExact /\ OthersExact /\ Places /\ DeadExact /\ CountExact
      /\ LastGone /\ Lives /\ Unborn /\ Parents /\ Watches /\ Joins
  BY DEF ProcsInv
<1>1. TypeOK'
  <2>1. Fields'
    BY <1>f, <1>e, <1>s, <1>d DEF Stands, Fields, Threads
  <2> QED BY <1>m, <2>1 DEF TypeOK, AtType, Spot, Fields
<1>2. ProgExact'
  BY <1>f, <1>e, <1>m, <1>i DEF Stands, Moved, ProgExact, HoldsOwn, HoldsTarget
<1>3. ChildExact'
  BY <1>f, <1>e, <1>m, <1>i DEF Stands, Moved, ChildExact, HoldsChild
<1>4. OthersExact'
  BY <1>f, <1>e, <1>m, <1>i DEF Stands, Moved, OthersExact
<1>5. Places'
  BY <1>f, <1>e, <1>m, <1>i DEF Stands, Moved, Places, PlaceOf, Burying, Returns
<1>6. DeadExact'
  BY <1>f, <1>e, <1>d, <1>m, <1>i DEF Stands, Moved, DeadExact, Gone, PlaceOf
<1>7. CountExact'
  <2>1. \A u \in Thread, p \in Pid : Refers(u, p)' <=> Refers(u, p)
    BY <1>f, <1>e, <1>m DEF Stands, PlaceOf, Moved, Refers, Referring
  <2> QED BY <1>e, <2>1, CountUnmoved
<1>8. LastGone'
  BY <1>f, <1>e, <1>m, <1>i DEF Stands, Moved, LastGone, At
<1>9. Lives'
  <2>1. \A u \in Thread, p \in Pid : Reaps(u, p)' => Reaps(u, p)
    BY <1>f, <1>e, <1>m DEF Stands, Moved, Reaps, Reaping
  <2> QED BY <1>f, <1>e, <1>m, <1>i, <2>1 DEF Stands, Moved, Lives
<1>10. Unborn'
  BY <1>f, <1>e, <1>m, <1>i DEF Stands, Moved, Unborn
<1>11. Parents'
  BY <1>f, <1>e, <1>m, <1>i DEF Stands, Moved, Parents, OrphansAdopted
<1>12. Watches'
  BY <1>f, <1>e, <1>s, <1>m, <1>i DEF Stands, Moved, Watches, NoLostChild, Children, At,
     Threads
<1>13. Joins'
  BY <1>f, <1>e, <1>s, <1>m, <1>i DEF Stands, Moved, Joins, Ending, PlaceOf
<1> QED BY <1>1, <1>2, <1>3, <1>4, <1>5, <1>6, <1>7, <1>8, <1>9, <1>10, <1>11, <1>12, <1>13
           DEF ProcsInv

(* waitChild() begins.                                                     *)
LEMMA WaitChildKeeps ==
  ASSUME ProcsInv, NEW t \in Thread, WaitChild(t)
  PROVE  ProcsInv'
<1>f. Stands(t)
  BY Standing
<1>e. /\ at[t].pc = "user"
      /\ UNCHANGED <<present, ppid, life, refs, code, released, born, home, prog, childLock,
           procLock, refLock, kept>>
  BY DEF WaitChild, At, procVars, lockVars
<1>s. /\ UNCHANGED <<sig, woken>>
  BY DEF WaitChild, At, procVars, lockVars
<1>m. AtType' /\ Moved(t, "wc", at[t].tgt, at[t].ret, at[t].arg)
  BY <1>f, WaitMoves DEF Stands
<1>d. /\ UNCHANGED deadThreads
  BY DEF WaitChild, At, procVars, lockVars
<1>i. /\ ProgExact /\ ChildExact /\ OthersExact /\ Places /\ DeadExact /\ CountExact
      /\ LastGone /\ Lives /\ Unborn /\ Parents /\ Watches /\ Joins
  BY DEF ProcsInv
<1>1. TypeOK'
  <2>1. Fields'
    BY <1>f, <1>e, <1>s, <1>d DEF Stands, Fields
  <2> QED BY <1>m, <2>1 DEF TypeOK, AtType, Spot, Fields
<1>2. ProgExact'
  BY <1>f, <1>e, <1>m, <1>i DEF Stands, Moved, ProgExact, HoldsOwn, HoldsTarget
<1>3. ChildExact'
  BY <1>f, <1>e, <1>m, <1>i DEF Stands, Moved, ChildExact, HoldsChild
<1>4. OthersExact'
  BY <1>f, <1>e, <1>m, <1>i DEF Stands, Moved, OthersExact
<1>5. Places'
  BY <1>f, <1>e, <1>m, <1>i DEF Stands, Moved, Places, PlaceOf, Burying, Returns
<1>6. DeadExact'
  BY <1>f, <1>e, <1>d, <1>m, <1>i DEF Stands, Moved, DeadExact, Gone, PlaceOf
<1>7. CountExact'
  <2>1. \A u \in Thread, p \in Pid : Refers(u, p)' <=> Refers(u, p)
    BY <1>f, <1>e, <1>m DEF Stands, PlaceOf, Moved, Refers, Referring
  <2> QED BY <1>e, <2>1, CountUnmoved
<1>8. LastGone'
  BY <1>f, <1>e, <1>m, <1>i DEF Stands, Moved, LastGone, At
<1>9. Lives'
  <2>1. \A u \in Thread, p \in Pid : Reaps(u, p)' => Reaps(u, p)
    BY <1>f, <1>e, <1>m DEF Stands, Moved, Reaps, Reaping
  <2> QED BY <1>f, <1>e, <1>m, <1>i, <2>1 DEF Stands, Moved, Lives
<1>10. Unborn'
  BY <1>f, <1>e, <1>m, <1>i DEF Stands, Moved, Unborn
<1>11. Parents'
  BY <1>f, <1>e, <1>m, <1>i DEF Stands, Moved, Parents, OrphansAdopted
<1>12. Watches'
  BY <1>f, <1>e, <1>s, <1>m, <1>i DEF Stands, Moved, Watches, NoLostChild, Children, At
<1>13. Joins'
  BY <1>f, <1>e, <1>s, <1>m, <1>i DEF Stands, Moved, Joins, Ending, PlaceOf
<1> QED BY <1>1, <1>2, <1>3, <1>4, <1>5, <1>6, <1>7, <1>8, <1>9, <1>10, <1>11, <1>12, <1>13
           DEF ProcsInv

(* waitChild() has childLock.                                              *)
LEMMA WaitLockKeeps ==
  ASSUME ProcsInv, NEW t \in Thread, WaitLock(t)
  PROVE  ProcsInv'
<1>f. Stands(t)
  BY Standing
<1>e. /\ at[t].pc \in {"wc", "wc_again"} /\ childLock \in {None, t} /\ childLock' = t
      /\ UNCHANGED <<present, ppid, life, refs, code, released, born, home, prog, procLock,
           refLock, kept>>
  BY DEF WaitLock, At, procVars, lockVars, ChildDown
<1>s. /\ UNCHANGED <<sig, woken>>
  BY DEF WaitLock, At, procVars, lockVars, ChildDown
<1>m. AtType' /\ Moved(t, IF at[t].pc = "wc" THEN "wc_get" ELSE "wc_get_again", at[t].tgt,
         at[t].ret, at[t].arg)
  BY <1>f, WaitMoves DEF Stands
<1>d. /\ UNCHANGED deadThreads
  BY DEF WaitLock, At, procVars, lockVars, ChildDown
<1>i. /\ ProgExact /\ ChildExact /\ OthersExact /\ Places /\ DeadExact /\ CountExact
      /\ LastGone /\ Lives /\ Unborn /\ Parents /\ Watches /\ Joins
  BY DEF ProcsInv
<1>1. TypeOK'
  <2>1. Fields'
    BY <1>f, <1>e, <1>s, <1>d DEF Stands, Fields
  <2> QED BY <1>m, <2>1 DEF TypeOK, AtType, Spot, Fields
<1>2. ProgExact'
  BY <1>f, <1>e, <1>m, <1>i DEF Stands, Moved, ProgExact, HoldsOwn, HoldsTarget
<1>3. ChildExact'
  BY <1>f, <1>e, <1>m, <1>i DEF Stands, Moved, ChildExact, HoldsChild
<1>4. OthersExact'
  BY <1>f, <1>e, <1>m, <1>i DEF Stands, Moved, OthersExact
<1>5. Places'
  BY <1>f, <1>e, <1>m, <1>i DEF Stands, Moved, Places, PlaceOf, Burying, Returns
<1>6. DeadExact'
  BY <1>f, <1>e, <1>d, <1>m, <1>i DEF Stands, Moved, DeadExact, Gone, PlaceOf
<1>7. CountExact'
  <2>1. \A u \in Thread, p \in Pid : Refers(u, p)' <=> Refers(u, p)
    BY <1>f, <1>e, <1>m DEF Stands, PlaceOf, Moved, Refers, Referring
  <2> QED BY <1>e, <2>1, CountUnmoved
<1>8. LastGone'
  BY <1>f, <1>e, <1>m, <1>i DEF Stands, Moved, LastGone, At
<1>9. Lives'
  <2>1. \A u \in Thread, p \in Pid : Reaps(u, p)' => Reaps(u, p)
    BY <1>f, <1>e, <1>m DEF Stands, Moved, Reaps, Reaping
  <2> QED BY <1>f, <1>e, <1>m, <1>i, <2>1 DEF Stands, Moved, Lives
<1>10. Unborn'
  BY <1>f, <1>e, <1>m, <1>i DEF Stands, Moved, Unborn
<1>11. Parents'
  BY <1>f, <1>e, <1>m, <1>i DEF Stands, Moved, Parents, OrphansAdopted
<1>12. Watches'
  BY <1>f, <1>e, <1>s, <1>m, <1>i DEF Stands, Moved, Watches, NoLostChild, Children, At
<1>13. Joins'
  BY <1>f, <1>e, <1>s, <1>m, <1>i DEF Stands, Moved, Joins, Ending, PlaceOf
<1> QED BY <1>1, <1>2, <1>3, <1>4, <1>5, <1>6, <1>7, <1>8, <1>9, <1>10, <1>11, <1>12, <1>13
           DEF ProcsInv

(* No child is a zombie.                                                   *)
LEMMA GetNoZombieKeeps ==
  ASSUME ProcsInv, NEW t \in Thread, GetNoZombie(t)
  PROVE  ProcsInv'
<1>f. Stands(t)
  BY Standing
<1>e. /\ at[t].pc \in {"wc_get", "wc_get_again"} /\ procLock = None
      /\ (\A c \in Children(home[t]) : life[c] # "zombie")
      /\ UNCHANGED <<present, ppid, life, refs, code, released, born, home, prog, childLock,
           procLock, refLock, kept>>
  BY DEF GetNoZombie, At, procVars, lockVars
<1>s. /\ UNCHANGED <<sig, woken>>
  BY DEF GetNoZombie, At, procVars, lockVars
<1>m. AtType' /\ Moved(t, "wc_event", at[t].tgt, at[t].ret, at[t].arg)
  BY <1>f, WaitMoves DEF Stands
<1>d. /\ UNCHANGED deadThreads
  BY DEF GetNoZombie, At, procVars, lockVars
<1>i. /\ ProgExact /\ ChildExact /\ OthersExact /\ Places /\ DeadExact /\ CountExact
      /\ LastGone /\ Lives /\ Unborn /\ Parents /\ Watches /\ Joins
  BY DEF ProcsInv
<1>1. TypeOK'
  <2>1. Fields'
    BY <1>f, <1>e, <1>s, <1>d DEF Stands, Fields
  <2> QED BY <1>m, <2>1 DEF TypeOK, AtType, Spot, Fields
<1>2. ProgExact'
  BY <1>f, <1>e, <1>m, <1>i DEF Stands, Moved, ProgExact, HoldsOwn, HoldsTarget
<1>3. ChildExact'
  BY <1>f, <1>e, <1>m, <1>i DEF Stands, Moved, ChildExact, HoldsChild
<1>4. OthersExact'
  BY <1>f, <1>e, <1>m, <1>i DEF Stands, Moved, OthersExact
<1>5. Places'
  BY <1>f, <1>e, <1>m, <1>i DEF Stands, Moved, Places, PlaceOf, Burying, Returns
<1>6. DeadExact'
  BY <1>f, <1>e, <1>d, <1>m, <1>i DEF Stands, Moved, DeadExact, Gone, PlaceOf
<1>7. CountExact'
  <2>1. \A u \in Thread, p \in Pid : Refers(u, p)' <=> Refers(u, p)
    BY <1>f, <1>e, <1>m DEF Stands, PlaceOf, Moved, Refers, Referring
  <2> QED BY <1>e, <2>1, CountUnmoved
<1>8. LastGone'
  BY <1>f, <1>e, <1>m, <1>i DEF Stands, Moved, LastGone, At
<1>9. Lives'
  <2>1. \A u \in Thread, p \in Pid : Reaps(u, p)' => Reaps(u, p)
    BY <1>f, <1>e, <1>m DEF Stands, Moved, Reaps, Reaping
  <2> QED BY <1>f, <1>e, <1>m, <1>i, <2>1 DEF Stands, Moved, Lives
<1>10. Unborn'
  BY <1>f, <1>e, <1>m, <1>i DEF Stands, Moved, Unborn
<1>11. Parents'
  BY <1>f, <1>e, <1>m, <1>i DEF Stands, Moved, Parents, OrphansAdopted
<1>12. Watches'
  BY <1>f, <1>e, <1>s, <1>m, <1>i DEF Stands, Moved, Watches, NoLostChild, Children, At
<1>13. Joins'
  BY <1>f, <1>e, <1>s, <1>m, <1>i DEF Stands, Moved, Joins, Ending, PlaceOf
<1> QED BY <1>1, <1>2, <1>3, <1>4, <1>5, <1>6, <1>7, <1>8, <1>9, <1>10, <1>11, <1>12, <1>13
           DEF ProcsInv

(* waitChild() announces to wait and releases childLock.                   *)
LEMMA WaitEventKeeps ==
  ASSUME ProcsInv, NEW t \in Thread, WaitEvent(t)
  PROVE  ProcsInv'
<1>f. Stands(t)
  BY Standing
<1>e. /\ at[t].pc = "wc_event" /\ childLock' = IF kept THEN childLock ELSE None
      /\ UNCHANGED <<present, ppid, life, refs, code, released, born, home, prog, procLock,
           refLock, kept>>
  BY DEF WaitEvent, At, procVars, lockVars, ChildUp
<1>s. /\ woken' = woken \ {t} /\ UNCHANGED sig
  BY DEF WaitEvent, At, procVars, lockVars, ChildUp
<1>m. AtType' /\ Moved(t, "wc_wait", at[t].tgt, at[t].ret, at[t].arg)
  BY <1>f, WaitMoves DEF Stands
<1>d. /\ UNCHANGED deadThreads
  BY DEF WaitEvent, At, procVars, lockVars, ChildUp
<1>i. /\ ProgExact /\ ChildExact /\ OthersExact /\ Places /\ DeadExact /\ CountExact
      /\ LastGone /\ Lives /\ Unborn /\ Parents /\ Watches /\ Joins
  BY DEF ProcsInv
<1>1. TypeOK'
  <2>1. Fields'
    BY <1>f, <1>e, <1>s, <1>d DEF Stands, Fields
  <2> QED BY <1>m, <2>1 DEF TypeOK, AtType, Spot, Fields
<1>2. ProgExact'
  BY <1>f, <1>e, <1>m, <1>i DEF Stands, Moved, ProgExact, HoldsOwn, HoldsTarget
<1>3. ChildExact'
  BY <1>f, <1>e, <1>m, <1>i DEF Stands, Moved, ChildExact, HoldsChild
<1>4. OthersExact'
  BY <1>f, <1>e, <1>m, <1>i DEF Stands, Moved, OthersExact
<1>5. Places'
  BY <1>f, <1>e, <1>m, <1>i DEF Stands, Moved, Places, PlaceOf, Burying, Returns
<1>6. DeadExact'
  BY <1>f, <1>e, <1>d, <1>m, <1>i DEF Stands, Moved, DeadExact, Gone, PlaceOf
<1>7. CountExact'
  <2>1. \A u \in Thread, p \in Pid : Refers(u, p)' <=> Refers(u, p)
    BY <1>f, <1>e, <1>m DEF Stands, PlaceOf, Moved, Refers, Referring
  <2> QED BY <1>e, <2>1, CountUnmoved
<1>8. LastGone'
  BY <1>f, <1>e, <1>m, <1>i DEF Stands, Moved, LastGone, At
<1>9. Lives'
  <2>1. \A u \in Thread, p \in Pid : Reaps(u, p)' => Reaps(u, p)
    BY <1>f, <1>e, <1>m DEF Stands, Moved, Reaps, Reaping
  <2> QED BY <1>f, <1>e, <1>m, <1>i, <2>1 DEF Stands, Moved, Lives
<1>10. Unborn'
  BY <1>f, <1>e, <1>m, <1>i DEF Stands, Moved, Unborn
<1>11. Parents'
  BY <1>f, <1>e, <1>m, <1>i DEF Stands, Moved, Parents, OrphansAdopted
<1>12. Watches'
  BY <1>f, <1>e, <1>s, <1>m, <1>i DEF Stands, Moved, Watches, NoLostChild, Children, At
<1>13. Joins'
  BY <1>f, <1>e, <1>s, <1>m, <1>i DEF Stands, Moved, Joins, Ending, PlaceOf
<1> QED BY <1>1, <1>2, <1>3, <1>4, <1>5, <1>6, <1>7, <1>8, <1>9, <1>10, <1>11, <1>12, <1>13
           DEF ProcsInv

(* waitChild() returns without a child, perhaps with childLock.            *)
LEMMA GetNoChildKeeps ==
  ASSUME ProcsInv, NEW t \in Thread, GetNoChild(t)
  PROVE  ProcsInv'
<1>f. Stands(t)
  BY Standing
<1>e. /\ at[t].pc \in {"wc_get", "wc_get_again"} /\ procLock = None
      /\ childLock' \in {childLock, None} /\ kept' \in {kept, TRUE}
      /\ UNCHANGED <<present, ppid, life, refs, code, released, born, home, prog, procLock,
           refLock>>
  BY DEF GetNoChild, At, procVars, lockVars, ChildUp
<1>s. /\ UNCHANGED <<sig, woken>>
  BY DEF GetNoChild, At, procVars, lockVars, ChildUp
<1>m. AtType' /\ Moved(t, "user", at[t].tgt, at[t].ret, at[t].arg)
  BY <1>f, WaitMoves DEF Stands
<1>d. /\ UNCHANGED deadThreads
  BY DEF GetNoChild, At, procVars, lockVars, ChildUp
<1>i. /\ ProgExact /\ ChildExact /\ OthersExact /\ Places /\ DeadExact /\ CountExact
      /\ LastGone /\ Lives /\ Unborn /\ Parents /\ Watches /\ Joins
  BY DEF ProcsInv
<1>1. TypeOK'
  <2>1. Fields'
    BY <1>f, <1>e, <1>s, <1>d DEF Stands, Fields
  <2> QED BY <1>m, <2>1 DEF TypeOK, AtType, Spot, Fields
<1>2. ProgExact'
  BY <1>f, <1>e, <1>m, <1>i DEF Stands, Moved, ProgExact, HoldsOwn, HoldsTarget
<1>3. ChildExact'
  BY <1>f, <1>m, <1>i DEF Stands, Moved, ChildExact, HoldsChild, GetNoChild, ChildUp, At
<1>4. OthersExact'
  BY <1>f, <1>e, <1>m, <1>i DEF Stands, Moved, OthersExact
<1>5. Places'
  BY <1>f, <1>e, <1>m, <1>i DEF Stands, Moved, Places, PlaceOf, Burying, Returns
<1>6. DeadExact'
  BY <1>f, <1>e, <1>d, <1>m, <1>i DEF Stands, Moved, DeadExact, Gone, PlaceOf
<1>7. CountExact'
  <2>1. \A u \in Thread, p \in Pid : Refers(u, p)' <=> Refers(u, p)
    BY <1>f, <1>e, <1>m DEF Stands, PlaceOf, Moved, Refers, Referring
  <2> QED BY <1>e, <2>1, CountUnmoved
<1>8. LastGone'
  BY <1>f, <1>e, <1>m, <1>i DEF Stands, Moved, LastGone, At
<1>9. Lives'
  <2>1. \A u \in Thread, p \in Pid : Reaps(u, p)' => Reaps(u, p)
    BY <1>f, <1>e, <1>m DEF Stands, Moved, Reaps, Reaping
  <2> QED BY <1>f, <1>e, <1>m, <1>i, <2>1 DEF Stands, Moved, Lives
<1>10. Unborn'
  BY <1>f, <1>e, <1>m, <1>i DEF Stands, Moved, Unborn
<1>11. Parents'
  BY <1>f, <1>e, <1>m, <1>i DEF Stands, Moved, Parents, OrphansAdopted
<1>12. Watches'
  BY <1>f, <1>e, <1>s, <1>m, <1>i DEF Stands, Moved, Watches, NoLostChild, Children, At
<1>13. Joins'
  BY <1>f, <1>e, <1>s, <1>m, <1>i DEF Stands, Moved, Joins, Ending, PlaceOf
<1> QED BY <1>1, <1>2, <1>3, <1>4, <1>5, <1>6, <1>7, <1>8, <1>9, <1>10, <1>11, <1>12, <1>13
           DEF ProcsInv

(* waitChild() is woken.                                                   *)
LEMMA WaitWokenKeeps ==
  ASSUME ProcsInv, NEW t \in Thread, WaitWoken(t)
  PROVE  ProcsInv'
<1>f. Stands(t)
  BY Standing
<1>e. /\ at[t].pc = "wc_wait"
      /\ UNCHANGED <<present, ppid, life, refs, code, released, born, home, prog, childLock,
           procLock, refLock, kept>>
  BY DEF WaitWoken, At, procVars, lockVars
<1>s. /\ woken' = woken \ {t} /\ UNCHANGED sig
  BY DEF WaitWoken, At, procVars, lockVars
<1>m. AtType' /\ Moved(t, IF t \in sig THEN "user" ELSE "wc_again", at[t].tgt, at[t].ret,
         at[t].arg)
  BY <1>f, WaitMoves DEF Stands
<1>d. /\ UNCHANGED deadThreads
  BY DEF WaitWoken, At, procVars, lockVars
<1>i. /\ ProgExact /\ ChildExact /\ OthersExact /\ Places /\ DeadExact /\ CountExact
      /\ LastGone /\ Lives /\ Unborn /\ Parents /\ Watches /\ Joins
  BY DEF ProcsInv
<1>1. TypeOK'
  <2>1. Fields'
    BY <1>f, <1>e, <1>s, <1>d DEF Stands, Fields
  <2> QED BY <1>m, <2>1 DEF TypeOK, AtType, Spot, Fields
<1>2. ProgExact'
  BY <1>f, <1>e, <1>m, <1>i DEF Stands, Moved, ProgExact, HoldsOwn, HoldsTarget
<1>3. ChildExact'
  BY <1>f, <1>e, <1>m, <1>i DEF Stands, Moved, ChildExact, HoldsChild
<1>4. OthersExact'
  BY <1>f, <1>e, <1>m, <1>i DEF Stands, Moved, OthersExact
<1>5. Places'
  BY <1>f, <1>e, <1>m, <1>i DEF Stands, Moved, Places, PlaceOf, Burying, Returns
<1>6. DeadExact'
  BY <1>f, <1>e, <1>d, <1>m, <1>i DEF Stands, Moved, DeadExact, Gone, PlaceOf
<1>7. CountExact'
  <2>1. \A u \in Thread, p \in Pid : Refers(u, p)' <=> Refers(u, p)
    BY <1>f, <1>e, <1>m DEF Stands, PlaceOf, Moved, Refers, Referring
  <2> QED BY <1>e, <2>1, CountUnmoved
<1>8. LastGone'
  BY <1>f, <1>e, <1>m, <1>i DEF Stands, Moved, LastGone, At
<1>9. Lives'
  <2>1. \A u \in Thread, p \in Pid : Reaps(u, p)' => Reaps(u, p)
    BY <1>f, <1>e, <1>m DEF Stands, Moved, Reaps, Reaping
  <2> QED BY <1>f, <1>e, <1>m, <1>i, <2>1 DEF Stands, Moved, Lives
<1>10. Unborn'
  BY <1>f, <1>e, <1>m, <1>i DEF Stands, Moved, Unborn
<1>11. Parents'
  BY <1>f, <1>e, <1>m, <1>i DEF Stands, Moved, Parents, OrphansAdopted
<1>12. Watches'
  BY <1>f, <1>e, <1>s, <1>m, <1>i DEF Stands, Moved, Watches, NoLostChild, Children, At
<1>13. Joins'
  BY <1>f, <1>e, <1>s, <1>m, <1>i DEF Stands, Moved, Joins, Ending, PlaceOf
<1> QED BY <1>1, <1>2, <1>3, <1>4, <1>5, <1>6, <1>7, <1>8, <1>9, <1>10, <1>11, <1>12, <1>13
           DEF ProcsInv

(* kill() asks for the process.                                            *)
LEMMA KillRequestKeeps ==
  ASSUME ProcsInv, NEW t \in Thread, KillRequest(t)
  PROVE  ProcsInv'
<1>f. Stands(t)
  BY Standing
<1>e. /\ at[t].pc = "ki_req" /\ refLock = None /\ at[t].arg \in present
      /\ refs' = [refs EXCEPT ![at[t].arg] = @ + 1]
      /\ UNCHANGED <<present, ppid, life, code, released, born, home, prog, childLock,
           procLock, refLock, kept>>
  BY DEF KillRequest, At, procVars, lockVars, Request
<1>s. /\ UNCHANGED <<sig, woken>>
  BY DEF KillRequest, At, procVars, lockVars, Request
<1>m. AtType' /\ Moved(t, "kill", at[t].arg, at[t].ret, at[t].arg)
  BY <1>f, TypedMoves DEF Stands
<1>d. /\ UNCHANGED deadThreads
  BY DEF KillRequest, At, procVars, lockVars, Request
<1>i. /\ ProgExact /\ ChildExact /\ OthersExact /\ Places /\ DeadExact /\ CountExact
      /\ LastGone /\ Lives /\ Unborn /\ Parents /\ Watches /\ Joins
  BY DEF ProcsInv
<1>1. TypeOK'
  <2>1. at[t].arg \in Pid
    BY <1>f, <1>e DEF Stands, Typed
  <2>2. Fields'
    BY <1>f, <1>e, <1>s, <1>d, <2>1 DEF Stands, Fields
  <2> QED BY <1>m, <2>2 DEF TypeOK, AtType, Spot, Fields
<1>2. ProgExact'
  BY <1>f, <1>e, <1>m, <1>i DEF Stands, Moved, ProgExact, HoldsOwn, HoldsTarget
<1>3. ChildExact'
  BY <1>f, <1>e, <1>m, <1>i DEF Stands, Moved, ChildExact, HoldsChild
<1>4. OthersExact'
  BY <1>f, <1>e, <1>m, <1>i DEF Stands, Moved, OthersExact
<1>5. Places'
  BY <1>f, <1>e, <1>m, <1>i DEF Stands, Moved, Places, PlaceOf, Burying, Returns
<1>6. DeadExact'
  BY <1>f, <1>e, <1>d, <1>m, <1>i DEF Stands, Moved, DeadExact, Gone, PlaceOf
<1>7. CountExact'
  <2>1. at[t].arg \in Pid
    BY <1>f, <1>e DEF Stands, Typed
  <2>2. \A u \in Thread \ {t}, p \in Pid : Refers(u, p)' <=> Refers(u, p)
    BY <1>e, <1>m, <2>1 DEF Moved, Refers
  <2>3. \A p \in Pid : refs'[p] + Ref(t, p) + In(t, p) + Born(p)
                        = refs[p] + Ref(t, p)' + In(t, p)' + Born(p)'
    BY <1>f, <1>e, <1>m, <2>1 DEF Stands, Moved, Ref, Refers, Referring, In, Born, PlaceOf
  <2>4. refs' \in [Pid -> Nat] /\ \A u \in Thread \ {t} : home'[u] = home[u]
    BY <1>f, <1>e, <1>1 DEF Stands, TypeOK
  <2> QED BY <2>2, <2>3, <2>4, Balanced
<1>8. LastGone'
  <2>1. \A u \in Thread : at[u].pc # "rm"
    BY <1>f, <1>e, <1>i DEF Stands, OthersExact
  <2>2. at[t].arg \in Pid
    BY <1>f, <1>e DEF Stands, Typed
  <2> QED BY <1>f, <1>e, <1>m, <1>i, <2>1, <2>2 DEF Stands, Moved, LastGone, At
<1>9. Lives'
  <2>1. \A u \in Thread, p \in Pid : Reaps(u, p)' => Reaps(u, p)
    BY <1>f, <1>e, <1>m DEF Stands, Moved, Reaps, Reaping
  <2> QED BY <1>f, <1>e, <1>m, <1>i, <2>1 DEF Stands, Moved, Lives
<1>10. Unborn'
  BY <1>f, <1>e, <1>m, <1>i DEF Stands, Moved, Unborn
<1>11. Parents'
  BY <1>f, <1>e, <1>m, <1>i DEF Stands, Moved, Parents, OrphansAdopted
<1>12. Watches'
  BY <1>f, <1>e, <1>s, <1>m, <1>i DEF Stands, Moved, Watches, NoLostChild, Children, At
<1>13. Joins'
  BY <1>f, <1>e, <1>s, <1>m, <1>i DEF Stands, Moved, Joins, Ending, PlaceOf
<1> QED BY <1>1, <1>2, <1>3, <1>4, <1>5, <1>6, <1>7, <1>8, <1>9, <1>10, <1>11, <1>12, <1>13
           DEF ProcsInv

(* kill() has the lock of the process.                                     *)
LEMMA KillKeeps ==
  ASSUME ProcsInv, NEW t \in Thread, Kill(t)
  PROVE  ProcsInv'
<1>f. Stands(t)
  BY Standing
<1>e. /\ at[t].pc = "kill" /\ prog[at[t].tgt] = None
      /\ prog' = [prog EXCEPT ![at[t].tgt] = t]
      /\ UNCHANGED <<present, ppid, life, refs, code, released, born, home, childLock,
           procLock, refLock, kept>>
  BY DEF Kill, At, procVars, lockVars
<1>s. /\ UNCHANGED <<sig, woken>>
  BY DEF Kill, At, procVars, lockVars
<1>m. AtType' /\ Moved(t, "ki_child", at[t].tgt, at[t].ret, None)
  BY <1>f, KillMoves DEF Stands
<1>d. /\ UNCHANGED deadThreads
  BY DEF Kill, At, procVars, lockVars
<1>i. /\ ProgExact /\ ChildExact /\ OthersExact /\ Places /\ DeadExact /\ CountExact
      /\ LastGone /\ Lives /\ Unborn /\ Parents /\ Watches /\ Joins
  BY DEF ProcsInv
<1>1. TypeOK'
  <2>1. Fields'
    BY <1>f, <1>e, <1>s, <1>d DEF Stands, Fields
  <2> QED BY <1>m, <2>1 DEF TypeOK, AtType, Spot, Fields
<1>2. ProgExact'
  BY <1>f, <1>e, <1>m, <1>i DEF Stands, Moved, ProgExact, HoldsOwn, HoldsTarget
<1>3. ChildExact'
  BY <1>f, <1>e, <1>m, <1>i DEF Stands, Moved, ChildExact, HoldsChild
<1>4. OthersExact'
  BY <1>f, <1>e, <1>m, <1>i DEF Stands, Moved, OthersExact
<1>5. Places'
  BY <1>f, <1>e, <1>m, <1>i DEF Stands, Moved, Places, PlaceOf, Burying, Returns
<1>6. DeadExact'
  BY <1>f, <1>e, <1>d, <1>m, <1>i DEF Stands, Moved, DeadExact, Gone, PlaceOf
<1>7. CountExact'
  <2>1. \A u \in Thread, p \in Pid : Refers(u, p)' <=> Refers(u, p)
    BY <1>f, <1>e, <1>m DEF Stands, PlaceOf, Moved, Refers, Referring
  <2> QED BY <1>e, <2>1, CountUnmoved
<1>8. LastGone'
  BY <1>f, <1>e, <1>m, <1>i DEF Stands, Moved, LastGone, At
<1>9. Lives'
  <2>1. \A u \in Thread, p \in Pid : Reaps(u, p)' => Reaps(u, p)
    BY <1>f, <1>e, <1>m DEF Stands, Moved, Reaps, Reaping
  <2> QED BY <1>f, <1>e, <1>m, <1>i, <2>1 DEF Stands, Moved, Lives
<1>10. Unborn'
  BY <1>f, <1>e, <1>m, <1>i DEF Stands, Moved, Unborn
<1>11. Parents'
  BY <1>f, <1>e, <1>m, <1>i DEF Stands, Moved, Parents, OrphansAdopted
<1>12. Watches'
  BY <1>f, <1>e, <1>s, <1>m, <1>i DEF Stands, Moved, Watches, NoLostChild, Children, At
<1>13. Joins'
  BY <1>f, <1>e, <1>s, <1>m, <1>i DEF Stands, Moved, Joins, Ending, PlaceOf
<1> QED BY <1>1, <1>2, <1>3, <1>4, <1>5, <1>6, <1>7, <1>8, <1>9, <1>10, <1>11, <1>12, <1>13
           DEF ProcsInv

(* kill() has childLock.                                                   *)
LEMMA KillLockChildKeeps ==
  ASSUME ProcsInv, NEW t \in Thread, KillLockChild(t)
  PROVE  ProcsInv'
<1>f. Stands(t)
  BY Standing
<1>e. /\ at[t].pc = "ki_child" /\ childLock \in {None, t} /\ childLock' = t
      /\ UNCHANGED <<present, ppid, life, refs, code, released, born, home, prog, procLock,
           refLock, kept>>
  BY DEF KillLockChild, At, procVars, lockVars, ChildDown
<1>s. /\ UNCHANGED <<sig, woken>>
  BY DEF KillLockChild, At, procVars, lockVars, ChildDown
<1>m. AtType' /\ Moved(t, "ki_proc", at[t].tgt, at[t].ret, at[t].arg)
  BY <1>f, KillMoves DEF Stands
<1>d. /\ UNCHANGED deadThreads
  BY DEF KillLockChild, At, procVars, lockVars, ChildDown
<1>i. /\ ProgExact /\ ChildExact /\ OthersExact /\ Places /\ DeadExact /\ CountExact
      /\ LastGone /\ Lives /\ Unborn /\ Parents /\ Watches /\ Joins
  BY DEF ProcsInv
<1>1. TypeOK'
  <2>1. Fields'
    BY <1>f, <1>e, <1>s, <1>d DEF Stands, Fields
  <2> QED BY <1>m, <2>1 DEF TypeOK, AtType, Spot, Fields
<1>2. ProgExact'
  BY <1>f, <1>e, <1>m, <1>i DEF Stands, Moved, ProgExact, HoldsOwn, HoldsTarget
<1>3. ChildExact'
  BY <1>f, <1>e, <1>m, <1>i DEF Stands, Moved, ChildExact, HoldsChild
<1>4. OthersExact'
  BY <1>f, <1>e, <1>m, <1>i DEF Stands, Moved, OthersExact
<1>5. Places'
  BY <1>f, <1>e, <1>m, <1>i DEF Stands, Moved, Places, PlaceOf, Burying, Returns
<1>6. DeadExact'
  BY <1>f, <1>e, <1>d, <1>m, <1>i DEF Stands, Moved, DeadExact, Gone, PlaceOf
<1>7. CountExact'
  <2>1. \A u \in Thread, p \in Pid : Refers(u, p)' <=> Refers(u, p)
    BY <1>f, <1>e, <1>m DEF Stands, PlaceOf, Moved, Refers, Referring
  <2> QED BY <1>e, <2>1, CountUnmoved
<1>8. LastGone'
  BY <1>f, <1>e, <1>m, <1>i DEF Stands, Moved, LastGone, At
<1>9. Lives'
  <2>1. \A u \in Thread, p \in Pid : Reaps(u, p)' => Reaps(u, p)
    BY <1>f, <1>e, <1>m DEF Stands, Moved, Reaps, Reaping
  <2> QED BY <1>f, <1>e, <1>m, <1>i, <2>1 DEF Stands, Moved, Lives
<1>10. Unborn'
  BY <1>f, <1>e, <1>m, <1>i DEF Stands, Moved, Unborn
<1>11. Parents'
  BY <1>f, <1>e, <1>m, <1>i DEF Stands, Moved, Parents, OrphansAdopted
<1>12. Watches'
  BY <1>f, <1>e, <1>s, <1>m, <1>i DEF Stands, Moved, Watches, NoLostChild, Children, At
<1>13. Joins'
  BY <1>f, <1>e, <1>s, <1>m, <1>i DEF Stands, Moved, Joins, Ending, PlaceOf
<1> QED BY <1>1, <1>2, <1>3, <1>4, <1>5, <1>6, <1>7, <1>8, <1>9, <1>10, <1>11, <1>12, <1>13
           DEF ProcsInv

(* kill() has procLock.                                                    *)
LEMMA KillLockProcKeeps ==
  ASSUME ProcsInv, NEW t \in Thread, KillLockProc(t)
  PROVE  ProcsInv'
<1>f. Stands(t)
  BY Standing
<1>e. /\ at[t].pc = "ki_proc" /\ procLock = None /\ procLock' = t
      /\ UNCHANGED <<present, ppid, life, refs, code, released, born, home, prog, childLock,
           refLock, kept>>
  BY DEF KillLockProc, At, procVars, lockVars
<1>s. /\ UNCHANGED <<sig, woken>>
  BY DEF KillLockProc, At, procVars, lockVars
<1>m. AtType' /\ Moved(t, "ki_loop", at[t].tgt, at[t].ret, at[t].arg)
  BY <1>f, KillMoves DEF Stands
<1>d. /\ UNCHANGED deadThreads
  BY DEF KillLockProc, At, procVars, lockVars
<1>i. /\ ProgExact /\ ChildExact /\ OthersExact /\ Places /\ DeadExact /\ CountExact
      /\ LastGone /\ Lives /\ Unborn /\ Parents /\ Watches /\ Joins
  BY DEF ProcsInv
<1>1. TypeOK'
  <2>1. Fields'
    BY <1>f, <1>e, <1>s, <1>d DEF Stands, Fields
  <2> QED BY <1>m, <2>1 DEF TypeOK, AtType, Spot, Fields
<1>2. ProgExact'
  BY <1>f, <1>e, <1>m, <1>i DEF Stands, Moved, ProgExact, HoldsOwn, HoldsTarget
<1>3. ChildExact'
  BY <1>f, <1>e, <1>m, <1>i DEF Stands, Moved, ChildExact, HoldsChild
<1>4. OthersExact'
  BY <1>f, <1>e, <1>m, <1>i DEF Stands, Moved, OthersExact
<1>5. Places'
  BY <1>f, <1>e, <1>m, <1>i DEF Stands, Moved, Places, PlaceOf, Burying, Returns
<1>6. DeadExact'
  BY <1>f, <1>e, <1>d, <1>m, <1>i DEF Stands, Moved, DeadExact, Gone, PlaceOf
<1>7. CountExact'
  <2>1. \A u \in Thread, p \in Pid : Refers(u, p)' <=> Refers(u, p)
    BY <1>f, <1>e, <1>m DEF Stands, PlaceOf, Moved, Refers, Referring
  <2> QED BY <1>e, <2>1, CountUnmoved
<1>8. LastGone'
  BY <1>f, <1>e, <1>m, <1>i DEF Stands, Moved, LastGone, At
<1>9. Lives'
  <2>1. \A u \in Thread, p \in Pid : Reaps(u, p)' => Reaps(u, p)
    BY <1>f, <1>e, <1>m DEF Stands, Moved, Reaps, Reaping
  <2> QED BY <1>f, <1>e, <1>m, <1>i, <2>1 DEF Stands, Moved, Lives
<1>10. Unborn'
  BY <1>f, <1>e, <1>m, <1>i DEF Stands, Moved, Unborn
<1>11. Parents'
  BY <1>f, <1>e, <1>m, <1>i DEF Stands, Moved, Parents, OrphansAdopted
<1>12. Watches'
  BY <1>f, <1>e, <1>s, <1>m, <1>i DEF Stands, Moved, Watches, NoLostChild, Children, At
<1>13. Joins'
  BY <1>f, <1>e, <1>s, <1>m, <1>i DEF Stands, Moved, Joins, Ending, PlaceOf
<1> QED BY <1>1, <1>2, <1>3, <1>4, <1>5, <1>6, <1>7, <1>8, <1>9, <1>10, <1>11, <1>12, <1>13
           DEF ProcsInv

(* kill() has told init of a dead child.                                   *)
LEMMA KillNotifyKeeps ==
  ASSUME ProcsInv, NEW t \in Thread, KillNotify(t)
  PROVE  ProcsInv'
<1>f. Stands(t)
  BY Standing
<1>e. /\ at[t].pc = "ki_note"
      /\ UNCHANGED <<present, ppid, life, refs, code, released, born, home, prog, childLock,
           procLock, refLock, kept>>
  BY DEF KillNotify, At, procVars, lockVars, NotifyProcDied
<1>s. /\ woken' = woken \cup {u \in Threads(0) : at[u].pc = "wc_wait"} /\ UNCHANGED sig
  BY DEF KillNotify, At, procVars, lockVars, NotifyProcDied
<1>m. AtType' /\ Moved(t, "ki_loop", at[t].tgt, at[t].ret, at[t].arg)
  BY <1>f, KillMoves DEF Stands
<1>d. /\ UNCHANGED deadThreads
  BY DEF KillNotify, At, procVars, lockVars, NotifyProcDied
<1>i. /\ ProgExact /\ ChildExact /\ OthersExact /\ Places /\ DeadExact /\ CountExact
      /\ LastGone /\ Lives /\ Unborn /\ Parents /\ Watches /\ Joins
  BY DEF ProcsInv
<1>1. TypeOK'
  <2>1. Fields'
    BY <1>f, <1>e, <1>s, <1>d DEF Stands, Fields, Threads
  <2> QED BY <1>m, <2>1 DEF TypeOK, AtType, Spot, Fields
<1>2. ProgExact'
  BY <1>f, <1>e, <1>m, <1>i DEF Stands, Moved, ProgExact, HoldsOwn, HoldsTarget
<1>3. ChildExact'
  BY <1>f, <1>e, <1>m, <1>i DEF Stands, Moved, ChildExact, HoldsChild
<1>4. OthersExact'
  BY <1>f, <1>e, <1>m, <1>i DEF Stands, Moved, OthersExact
<1>5. Places'
  BY <1>f, <1>e, <1>m, <1>i DEF Stands, Moved, Places, PlaceOf, Burying, Returns
<1>6. DeadExact'
  BY <1>f, <1>e, <1>d, <1>m, <1>i DEF Stands, Moved, DeadExact, Gone, PlaceOf
<1>7. CountExact'
  <2>1. \A u \in Thread, p \in Pid : Refers(u, p)' <=> Refers(u, p)
    BY <1>f, <1>e, <1>m DEF Stands, PlaceOf, Moved, Refers, Referring
  <2> QED BY <1>e, <2>1, CountUnmoved
<1>8. LastGone'
  BY <1>f, <1>e, <1>m, <1>i DEF Stands, Moved, LastGone, At
<1>9. Lives'
  <2>1. \A u \in Thread, p \in Pid : Reaps(u, p)' => Reaps(u, p)
    BY <1>f, <1>e, <1>m DEF Stands, Moved, Reaps, Reaping
  <2> QED BY <1>f, <1>e, <1>m, <1>i, <2>1 DEF Stands, Moved, Lives
<1>10. Unborn'
  BY <1>f, <1>e, <1>m, <1>i DEF Stands, Moved, Unborn
<1>11. Parents'
  BY <1>f, <1>e, <1>m, <1>i DEF Stands, Moved, Parents, OrphansAdopted
<1>12. Watches'
  BY <1>f, <1>e, <1>s, <1>m, <1>i DEF Stands, Moved, Watches, NoLostChild, Children, At,
     Threads
<1>13. Joins'
  BY <1>f, <1>e, <1>s, <1>m, <1>i DEF Stands, Moved, Joins, Ending, PlaceOf
<1> QED BY <1>1, <1>2, <1>3, <1>4, <1>5, <1>6, <1>7, <1>8, <1>9, <1>10, <1>11, <1>12, <1>13
           DEF ProcsInv

(* kill() has found all children and releases both locks.                  *)
LEMMA KillUnlockKeeps ==
  ASSUME ProcsInv, NEW t \in Thread, KillUnlock(t)
  PROVE  ProcsInv'
<1>f. Stands(t)
  BY Standing
<1>e. /\ at[t].pc = "ki_loop" /\ Children(at[t].tgt) = {}
      /\ childLock' = IF kept THEN childLock ELSE None
      /\ procLock' = None
      /\ UNCHANGED <<present, ppid, life, refs, code, released, born, home, prog, refLock,
           kept>>
  BY DEF KillUnlock, At, procVars, lockVars, ChildUp
<1>s. /\ UNCHANGED <<sig, woken>>
  BY DEF KillUnlock, At, procVars, lockVars, ChildUp
<1>m. AtType' /\ Moved(t, "ki_end", at[t].tgt, at[t].ret, at[t].arg)
  BY <1>f, KillMoves DEF Stands
<1>d. /\ UNCHANGED deadThreads
  BY DEF KillUnlock, At, procVars, lockVars, ChildUp
<1>i. /\ ProgExact /\ ChildExact /\ OthersExact /\ Places /\ DeadExact /\ CountExact
      /\ LastGone /\ Lives /\ Unborn /\ Parents /\ Watches /\ Joins
  BY DEF ProcsInv
<1>1. TypeOK'
  <2>1. Fields'
    BY <1>f, <1>e, <1>s, <1>d DEF Stands, Fields
  <2> QED BY <1>m, <2>1 DEF TypeOK, AtType, Spot, Fields
<1>2. ProgExact'
  BY <1>f, <1>e, <1>m, <1>i DEF Stands, Moved, ProgExact, HoldsOwn, HoldsTarget
<1>3. ChildExact'
  BY <1>f, <1>e, <1>m, <1>i DEF Stands, Moved, ChildExact, HoldsChild
<1>4. OthersExact'
  BY <1>f, <1>e, <1>m, <1>i DEF Stands, Moved, OthersExact
<1>5. Places'
  BY <1>f, <1>e, <1>m, <1>i DEF Stands, Moved, Places, PlaceOf, Burying, Returns
<1>6. DeadExact'
  BY <1>f, <1>e, <1>d, <1>m, <1>i DEF Stands, Moved, DeadExact, Gone, PlaceOf
<1>7. CountExact'
  <2>1. \A u \in Thread, p \in Pid : Refers(u, p)' <=> Refers(u, p)
    BY <1>f, <1>e, <1>m DEF Stands, PlaceOf, Moved, Refers, Referring
  <2> QED BY <1>e, <2>1, CountUnmoved
<1>8. LastGone'
  BY <1>f, <1>e, <1>m, <1>i DEF Stands, Moved, LastGone, At
<1>9. Lives'
  <2>1. \A u \in Thread, p \in Pid : Reaps(u, p)' => Reaps(u, p)
    BY <1>f, <1>e, <1>m DEF Stands, Moved, Reaps, Reaping
  <2> QED BY <1>f, <1>e, <1>m, <1>i, <2>1 DEF Stands, Moved, Lives
<1>10. Unborn'
  BY <1>f, <1>e, <1>m, <1>i DEF Stands, Moved, Unborn
<1>11. Parents'
  BY <1>f, <1>e, <1>m, <1>i DEF Stands, Moved, Parents, OrphansAdopted, Children
<1>12. Watches'
  BY <1>f, <1>e, <1>s, <1>m, <1>i DEF Stands, Moved, Watches, NoLostChild, Children, At
<1>13. Joins'
  BY <1>f, <1>e, <1>s, <1>m, <1>i DEF Stands, Moved, Joins, Ending, PlaceOf
<1> QED BY <1>1, <1>2, <1>3, <1>4, <1>5, <1>6, <1>7, <1>8, <1>9, <1>10, <1>11, <1>12, <1>13
           DEF ProcsInv

(* kill() gives back the reference of the birth.                           *)
LEMMA KillEndKeeps ==
  ASSUME ProcsInv, NEW t \in Thread, KillEnd(t)
  PROVE  ProcsInv'
<1>f. Stands(t)
  BY Standing
<1>e. /\ at[t].pc = "ki_end" /\ refLock = None /\ refs' = [refs EXCEPT ![at[t].tgt] = @ - 1]
      /\ born' = born \ {at[t].tgt} /\ prog' = [prog EXCEPT ![at[t].tgt] = None]
      /\ UNCHANGED <<present, ppid, life, code, released, home, childLock, procLock,
           refLock, kept>>
  BY DEF KillEnd, At, procVars, lockVars
<1>s. /\ UNCHANGED <<sig, woken>>
  BY DEF KillEnd, At, procVars, lockVars
<1>m. AtType' /\ Moved(t, "rel", at[t].tgt, "user", at[t].arg)
  BY <1>f, KillMoves DEF Stands
<1>d. /\ UNCHANGED deadThreads
  BY DEF KillEnd, At, procVars, lockVars
<1>i. /\ ProgExact /\ ChildExact /\ OthersExact /\ Places /\ DeadExact /\ CountExact
      /\ LastGone /\ Lives /\ Unborn /\ Parents /\ Watches /\ Joins
  BY DEF ProcsInv
<1>1. TypeOK'
  <2>1. refs[at[t].tgt] \in Nat \ {0}
    BY <1>f, <1>e, Present DEF Stands, Referring
  <2>2. Fields'
    BY <1>f, <1>e, <1>s, <1>d, <2>1 DEF Stands, Fields
  <2> QED BY <1>m, <2>2 DEF TypeOK, AtType, Spot, Fields
<1>2. ProgExact'
  BY <1>f, <1>e, <1>m, <1>i DEF Stands, Moved, ProgExact, HoldsOwn, HoldsTarget
<1>3. ChildExact'
  BY <1>f, <1>e, <1>m, <1>i DEF Stands, Moved, ChildExact, HoldsChild
<1>4. OthersExact'
  BY <1>f, <1>e, <1>m, <1>i DEF Stands, Moved, OthersExact
<1>5. Places'
  BY <1>f, <1>e, <1>m, <1>i DEF Stands, Moved, Places, PlaceOf, Burying, Returns
<1>6. DeadExact'
  BY <1>f, <1>e, <1>d, <1>m, <1>i DEF Stands, Moved, DeadExact, Gone, PlaceOf
<1>7. CountExact'
  <2>1. at[t].tgt \in born
    BY <1>f, <1>e, <1>i DEF Stands, Lives, Reaps, Reaping
  <2>2. \A u \in Thread \ {t}, p \in Pid : Refers(u, p)' <=> Refers(u, p)
    BY <1>e, <1>m, <2>1 DEF Moved, Refers
  <2>3. \A p \in Pid : refs'[p] + Ref(t, p) + In(t, p) + Born(p)
                        = refs[p] + Ref(t, p)' + In(t, p)' + Born(p)'
    BY <1>f, <1>e, <1>m, <2>1 DEF Stands, Moved, Ref, Refers, Referring, In, Born, PlaceOf
  <2>4. refs' \in [Pid -> Nat] /\ \A u \in Thread \ {t} : home'[u] = home[u]
    BY <1>f, <1>e, <1>1 DEF Stands, TypeOK
  <2> QED BY <2>2, <2>3, <2>4, Balanced
<1>8. LastGone'
  <2>1. \A u \in Thread : at[u].pc # "rm"
    BY <1>f, <1>e, <1>i DEF Stands, OthersExact
  <2>2. /\ Ref(t, at[t].tgt) = 1 /\ Born(at[t].tgt) = 1
        /\ In(t, at[t].tgt) \in {0, 1}
    BY <1>f, <1>e, <1>i DEF Stands, Ref, Refers, Referring, In, Born, Lives, Reaps, Reaping
  <2>3. refs[at[t].tgt] >= 2
    BY <1>f, <2>2, Enough DEF Stands
  <2> QED BY <1>f, <1>e, <1>m, <1>i, <2>1, <2>3 DEF Stands, Moved, LastGone, At
<1>9. Lives'
  BY <1>f, <1>e, <1>m, <1>i DEF Stands, Moved, Lives, Reaps, Reaping
<1>10. Unborn'
  BY <1>f, <1>e, <1>m, <1>i DEF Stands, Moved, Unborn, Lives, Reaps, Reaping
<1>11. Parents'
  BY <1>f, <1>e, <1>m, <1>i DEF Stands, Moved, Parents, OrphansAdopted, Lives, Reaps,
     Reaping
<1>12. Watches'
  BY <1>f, <1>e, <1>s, <1>m, <1>i DEF Stands, Moved, Watches, NoLostChild, Children, At
<1>13. Joins'
  BY <1>f, <1>e, <1>s, <1>m, <1>i DEF Stands, Moved, Joins, Ending, PlaceOf
<1> QED BY <1>1, <1>2, <1>3, <1>4, <1>5, <1>6, <1>7, <1>8, <1>9, <1>10, <1>11, <1>12, <1>13
           DEF ProcsInv

(* A system call looks at another process.                                 *)
LEMMA PeekKeeps ==
  ASSUME ProcsInv, NEW t \in Thread, NEW q \in Pid, Peek(t, q)
  PROVE  ProcsInv'
<1>f. Stands(t)
  BY Standing
<1>e. /\ at[t].pc = "user" /\ q \in present /\ refLock = None
      /\ refs' = [refs EXCEPT ![q] = @ + 1]
      /\ UNCHANGED <<present, ppid, life, code, released, born, home, prog, childLock,
           procLock, refLock, kept>>
  BY DEF Peek, At, procVars, lockVars
<1>s. /\ UNCHANGED <<sig, woken>>
  BY DEF Peek, At, procVars, lockVars
<1>m. AtType' /\ Moved(t, "rel", q, "user", at[t].arg)
  BY <1>f, RefMoves DEF Stands
<1>d. /\ UNCHANGED deadThreads
  BY DEF Peek, At, procVars, lockVars
<1>i. /\ ProgExact /\ ChildExact /\ OthersExact /\ Places /\ DeadExact /\ CountExact
      /\ LastGone /\ Lives /\ Unborn /\ Parents /\ Watches /\ Joins
  BY DEF ProcsInv
<1>1. TypeOK'
  <2>1. Fields'
    BY <1>f, <1>e, <1>s, <1>d DEF Stands, Fields
  <2> QED BY <1>m, <2>1 DEF TypeOK, AtType, Spot, Fields
<1>2. ProgExact'
  BY <1>f, <1>e, <1>m, <1>i DEF Stands, Moved, ProgExact, HoldsOwn, HoldsTarget
<1>3. ChildExact'
  BY <1>f, <1>e, <1>m, <1>i DEF Stands, Moved, ChildExact, HoldsChild
<1>4. OthersExact'
  BY <1>f, <1>e, <1>m, <1>i DEF Stands, Moved, OthersExact
<1>5. Places'
  BY <1>f, <1>e, <1>m, <1>i DEF Stands, Moved, Places, PlaceOf, Burying, Returns
<1>6. DeadExact'
  BY <1>f, <1>e, <1>d, <1>m, <1>i DEF Stands, Moved, DeadExact, Gone, PlaceOf
<1>7. CountExact'
  <2>2. \A u \in Thread \ {t}, p \in Pid : Refers(u, p)' <=> Refers(u, p)
    BY <1>e, <1>m DEF Moved, Refers
  <2>3. \A p \in Pid : refs'[p] + Ref(t, p) + In(t, p) + Born(p)
                        = refs[p] + Ref(t, p)' + In(t, p)' + Born(p)'
    BY <1>f, <1>e, <1>m DEF Stands, Moved, Ref, Refers, Referring, In, Born, PlaceOf
  <2>4. refs' \in [Pid -> Nat] /\ \A u \in Thread \ {t} : home'[u] = home[u]
    BY <1>f, <1>e, <1>1 DEF Stands, TypeOK
  <2> QED BY <2>2, <2>3, <2>4, Balanced
<1>8. LastGone'
  <2>1. \A u \in Thread : at[u].pc # "rm"
    BY <1>f, <1>e, <1>i DEF Stands, OthersExact
  <2> QED BY <1>f, <1>e, <1>m, <1>i, <2>1 DEF Stands, Moved, LastGone, At
<1>9. Lives'
  <2>1. \A u \in Thread, p \in Pid : Reaps(u, p)' => Reaps(u, p)
    BY <1>f, <1>e, <1>m DEF Stands, Moved, Reaps, Reaping
  <2> QED BY <1>f, <1>e, <1>m, <1>i, <2>1 DEF Stands, Moved, Lives
<1>10. Unborn'
  BY <1>f, <1>e, <1>m, <1>i DEF Stands, Moved, Unborn
<1>11. Parents'
  BY <1>f, <1>e, <1>m, <1>i DEF Stands, Moved, Parents, OrphansAdopted
<1>12. Watches'
  BY <1>f, <1>e, <1>s, <1>m, <1>i DEF Stands, Moved, Watches, NoLostChild, Children, At
<1>13. Joins'
  BY <1>f, <1>e, <1>s, <1>m, <1>i DEF Stands, Moved, Joins, Ending, PlaceOf
<1> QED BY <1>1, <1>2, <1>3, <1>4, <1>5, <1>6, <1>7, <1>8, <1>9, <1>10, <1>11, <1>12, <1>13
           DEF ProcsInv

(* The new process gets a pid.                                             *)
LEMMA CloneAddKeeps ==
  ASSUME ProcsInv, NEW t \in Thread, NEW q \in Pid, CloneAdd(t, q)
  PROVE  ProcsInv'
<1>f. Stands(t)
  BY Standing
<1>e. /\ at[t].pc = "cl_add" /\ procLock = None /\ q \notin present
      /\ present' = present \cup {q} /\ ppid' = [ppid EXCEPT ![q] = home[t]]
      /\ refs' = [refs EXCEPT ![q] = 1] /\ born' = born \cup {q}
      /\ UNCHANGED <<life, code, released, home, prog, childLock, procLock, refLock, kept>>
  BY DEF CloneAdd, At, procVars, lockVars
<1>s. /\ UNCHANGED <<sig, woken>>
  BY DEF CloneAdd, At, procVars, lockVars
<1>m. AtType' /\ Moved(t, "cl_fill", at[t].tgt, at[t].ret, q)
  BY <1>f, CloneMoves DEF Stands
<1>d. /\ UNCHANGED deadThreads
  BY DEF CloneAdd, At, procVars, lockVars
<1>i. /\ ProgExact /\ ChildExact /\ OthersExact /\ Places /\ DeadExact /\ CountExact
      /\ LastGone /\ Lives /\ Unborn /\ Parents /\ Watches /\ Joins
  BY DEF ProcsInv
<1>1. TypeOK'
  <2>1. Fields'
    BY <1>f, <1>e, <1>s, <1>d DEF Stands, Fields
  <2> QED BY <1>m, <2>1 DEF TypeOK, AtType, Spot, Fields
<1>2. ProgExact'
  BY <1>f, <1>e, <1>m, <1>i DEF Stands, Moved, ProgExact, HoldsOwn, HoldsTarget
<1>3. ChildExact'
  BY <1>f, <1>e, <1>m, <1>i DEF Stands, Moved, ChildExact, HoldsChild
<1>4. OthersExact'
  BY <1>f, <1>e, <1>m, <1>i DEF Stands, Moved, OthersExact
<1>5. Places'
  <2>1. home[t] # q
    BY <1>f, <1>e DEF Stands
  <2> QED BY <1>f, <1>e, <1>m, <1>i, <2>1 DEF Stands, Moved, Places, PlaceOf, Burying, Returns
<1>6. DeadExact'
  BY <1>f, <1>e, <1>d, <1>m, <1>i DEF Stands, Moved, DeadExact, Gone, PlaceOf
<1>7. CountExact'
  <2>1. refs[q] = 0 /\ q \notin born
    BY <1>e, <1>i, Unreferenced DEF LastGone
  <2>2. \A u \in Thread \ {t}, p \in Pid : Refers(u, p)' <=> Refers(u, p)
    BY <1>e, <1>m, <2>1 DEF Moved, Refers
  <2>3. \A p \in Pid : refs'[p] + Ref(t, p) + In(t, p) + Born(p)
                        = refs[p] + Ref(t, p)' + In(t, p)' + Born(p)'
    BY <1>f, <1>e, <1>m, <2>1 DEF Stands, Moved, Ref, Refers, Referring, In, Born, PlaceOf
  <2>4. refs' \in [Pid -> Nat] /\ \A u \in Thread \ {t} : home'[u] = home[u]
    BY <1>f, <1>e, <1>1 DEF Stands, TypeOK
  <2> QED BY <2>2, <2>3, <2>4, Balanced
<1>8. LastGone'
  BY <1>f, <1>e, <1>m, <1>i DEF Stands, Moved, LastGone, At
<1>9. Lives'
  BY <1>f, <1>e, <1>m, <1>i DEF Stands, Moved, Lives, Reaps, Reaping
<1>10. Unborn'
  <2>1. /\ life[q] = "alive" /\ home[t] # q /\ q \notin born
        /\ \A c \in present : ppid[c] # q
        /\ \A u \in Thread : home[u] # q
    BY <1>f, <1>e, <1>i DEF Stands, Lives, Parents, OrphansAdopted
  <2> QED BY <1>f, <1>e, <1>m, <1>i, <2>1 DEF Stands, Moved, Unborn
<1>11. Parents'
  BY <1>f, <1>e, <1>m, <1>i DEF Stands, Moved, Parents, OrphansAdopted, Lives, Reaps,
     Reaping
<1>12. Watches'
  <2>1. life[q] = "alive"
    BY <1>e, <1>i DEF Lives
  <2> QED BY <1>f, <1>e, <1>s, <1>m, <1>i, <2>1 DEF Stands, Moved, Watches, NoLostChild,
             Children, At
<1>13. Joins'
  BY <1>f, <1>e, <1>s, <1>m, <1>i DEF Stands, Moved, Joins, Ending, PlaceOf
<1> QED BY <1>1, <1>2, <1>3, <1>4, <1>5, <1>6, <1>7, <1>8, <1>9, <1>10, <1>11, <1>12, <1>13
           DEF ProcsInv

(* getExitState() finds a zombie and marks it.                             *)
LEMMA GetExitStateKeeps ==
  ASSUME ProcsInv, NEW t \in Thread, NEW c \in Pid, GetExitState(t, c)
  PROVE  ProcsInv'
<1>f. Stands(t)
  BY Standing
<1>e. /\ at[t].pc \in {"wc_get", "wc_get_again"} /\ procLock = None
      /\ c \in Children(home[t]) /\ life[c] = "zombie"
      /\ life' = [life EXCEPT ![c] = "killed"]
      /\ childLock' = IF kept THEN childLock ELSE None
      /\ UNCHANGED <<present, ppid, refs, code, released, born, home, prog, procLock,
           refLock, kept>>
  BY DEF GetExitState, At, procVars, lockVars, ChildUp
<1>s. /\ UNCHANGED <<sig, woken>>
  BY DEF GetExitState, At, procVars, lockVars, ChildUp
<1>m. AtType' /\ Moved(t, "ki_req", at[t].tgt, at[t].ret, c)
  BY <1>f, WaitMoves DEF Stands
<1>d. /\ UNCHANGED deadThreads
  BY DEF GetExitState, At, procVars, lockVars, ChildUp
<1>i. /\ ProgExact /\ ChildExact /\ OthersExact /\ Places /\ DeadExact /\ CountExact
      /\ LastGone /\ Lives /\ Unborn /\ Parents /\ Watches /\ Joins
  BY DEF ProcsInv
<1>1. TypeOK'
  <2>1. Fields'
    BY <1>f, <1>e, <1>s, <1>d DEF Stands, Fields
  <2> QED BY <1>m, <2>1 DEF TypeOK, AtType, Spot, Fields
<1>2. ProgExact'
  BY <1>f, <1>e, <1>m, <1>i DEF Stands, Moved, ProgExact, HoldsOwn, HoldsTarget
<1>3. ChildExact'
  BY <1>f, <1>e, <1>m, <1>i DEF Stands, Moved, ChildExact, HoldsChild
<1>4. OthersExact'
  BY <1>f, <1>e, <1>m, <1>i DEF Stands, Moved, OthersExact
<1>5. Places'
  BY <1>f, <1>e, <1>m, <1>i DEF Stands, Moved, Places, PlaceOf, Burying, Returns
<1>6. DeadExact'
  BY <1>f, <1>e, <1>d, <1>m, <1>i DEF Stands, Moved, DeadExact, Gone, PlaceOf
<1>7. CountExact'
  <2>1. \A u \in Thread, p \in Pid : Refers(u, p)' <=> Refers(u, p)
    BY <1>f, <1>e, <1>m DEF Stands, PlaceOf, Moved, Refers, Referring
  <2> QED BY <1>e, <2>1, CountUnmoved
<1>8. LastGone'
  BY <1>f, <1>e, <1>m, <1>i DEF Stands, Moved, LastGone, At
<1>9. Lives'
  BY <1>f, <1>e, <1>m, <1>i DEF Stands, Moved, Lives, Reaps, Reaping, Children
<1>10. Unborn'
  BY <1>f, <1>e, <1>m, <1>i DEF Stands, Moved, Unborn
<1>11. Parents'
  BY <1>f, <1>e, <1>m, <1>i DEF Stands, Moved, Parents, OrphansAdopted
<1>12. Watches'
  <2>1. /\ at[t].pc \in {"wc_get", "wc_get_again"} /\ present \subseteq Pid
        /\ \A p \in Pid : life'[p] = "zombie" => life[p] = "zombie"
        /\ UNCHANGED <<present, ppid, home, woken>>
    BY <1>f, <1>e, <1>s DEF Stands
  <2> QED BY <1>m, <1>i, <2>1 DEF Moved, Watches, NoLostChild, Children, At
<1>13. Joins'
  BY <1>f, <1>e, <1>s, <1>m, <1>i DEF Stands, Moved, Joins, Ending, PlaceOf
<1> QED BY <1>1, <1>2, <1>3, <1>4, <1>5, <1>6, <1>7, <1>8, <1>9, <1>10, <1>11, <1>12, <1>13
           DEF ProcsInv

(* A child goes to init.                                                   *)
LEMMA KillAdoptKeeps ==
  ASSUME ProcsInv, NEW t \in Thread, NEW c \in Pid, KillAdopt(t, c)
  PROVE  ProcsInv'
<1>f. Stands(t)
  BY Standing
<1>e. /\ at[t].pc = "ki_loop" /\ c \in Children(at[t].tgt) /\ ppid' = [ppid EXCEPT ![c] = 0]
      /\ UNCHANGED <<present, life, refs, code, released, born, home, prog, childLock,
           procLock, refLock, kept>>
  BY DEF KillAdopt, At, procVars, lockVars
<1>s. /\ UNCHANGED <<sig, woken>>
  BY DEF KillAdopt, At, procVars, lockVars
<1>m. AtType' /\ Moved(t, IF life[c] \in {"zombie", "killed"} THEN "ki_note" ELSE "ki_loop",
         at[t].tgt, at[t].ret, at[t].arg)
  BY <1>f, KillMoves DEF Stands
<1>d. /\ UNCHANGED deadThreads
  BY DEF KillAdopt, At, procVars, lockVars
<1>i. /\ ProgExact /\ ChildExact /\ OthersExact /\ Places /\ DeadExact /\ CountExact
      /\ LastGone /\ Lives /\ Unborn /\ Parents /\ Watches /\ Joins
  BY DEF ProcsInv
<1>1. TypeOK'
  <2>1. Fields'
    BY <1>f, <1>e, <1>s, <1>d DEF Stands, Fields
  <2> QED BY <1>m, <2>1 DEF TypeOK, AtType, Spot, Fields
<1>2. ProgExact'
  BY <1>f, <1>e, <1>m, <1>i DEF Stands, Moved, ProgExact, HoldsOwn, HoldsTarget
<1>3. ChildExact'
  BY <1>f, <1>e, <1>m, <1>i DEF Stands, Moved, ChildExact, HoldsChild
<1>4. OthersExact'
  BY <1>f, <1>e, <1>m, <1>i DEF Stands, Moved, OthersExact
<1>5. Places'
  BY <1>f, <1>e, <1>m, <1>i DEF Stands, Moved, Places, PlaceOf, Burying, Returns
<1>6. DeadExact'
  BY <1>f, <1>e, <1>d, <1>m, <1>i DEF Stands, Moved, DeadExact, Gone, PlaceOf
<1>7. CountExact'
  <2>1. \A u \in Thread, p \in Pid : Refers(u, p)' <=> Refers(u, p)
    BY <1>f, <1>e, <1>m DEF Stands, PlaceOf, Moved, Refers, Referring
  <2> QED BY <1>e, <2>1, CountUnmoved
<1>8. LastGone'
  BY <1>f, <1>e, <1>m, <1>i DEF Stands, Moved, LastGone, At
<1>9. Lives'
  <2>1. \A u \in Thread, p \in Pid : Reaps(u, p)' => Reaps(u, p)
    BY <1>f, <1>e, <1>m DEF Stands, Moved, Reaps, Reaping
  <2> QED BY <1>f, <1>e, <1>m, <1>i, <2>1 DEF Stands, Moved, Lives
<1>10. Unborn'
  <2>1. 0 \in born /\ life[0] \in {"alive", "prezombie"} /\ home[Terminator] = 0
    BY <1>f, <1>i DEF Stands, Places, Lives
  <2> QED BY <1>f, <1>e, <1>m, <1>i, <2>1 DEF Stands, Moved, Unborn
<1>11. Parents'
  <2>1. 0 \in born /\ life[0] \in {"alive", "prezombie"} /\ home[Terminator] = 0
    BY <1>f, <1>i DEF Stands, Places, Lives
  <2> QED BY <1>f, <1>e, <1>m, <1>i, <2>1 DEF Stands, Moved, Parents, OrphansAdopted,
             Children, Lives, Reaps, Reaping
<1>12. Watches'
  <2>1. \A u \in Thread : at[u].pc # "wc_event"
    BY <1>f, <1>e, <1>i DEF Stands, ChildExact, HoldsChild
  <2> QED BY <1>f, <1>e, <1>s, <1>m, <1>i, <2>1 DEF Stands, Moved, Watches, NoLostChild,
             Children, At
<1>13. Joins'
  BY <1>f, <1>e, <1>s, <1>m, <1>i DEF Stands, Moved, Joins, Ending, PlaceOf
<1> QED BY <1>1, <1>2, <1>3, <1>4, <1>5, <1>6, <1>7, <1>8, <1>9, <1>10, <1>11, <1>12, <1>13
           DEF ProcsInv

(* The new process gets its thread.                                        *)
LEMMA CloneDoneKeeps ==
  ASSUME ProcsInv, NEW t \in Thread, NEW n \in Thread, CloneDone(t, n)
  PROVE  ProcsInv'
<1>f. Stands(t)
  BY Standing
<1>e. /\ at[t].pc = "cl_fill" /\ at[n].pc = "free" /\ refLock = None
      /\ refs' = [refs EXCEPT ![at[t].arg] = @ + 1]
      /\ home' = [home EXCEPT ![n] = at[t].arg] /\ prog' = [prog EXCEPT ![home[t]] = None]
      /\ UNCHANGED <<present, ppid, life, code, released, born, childLock, procLock,
           refLock, kept>>
  BY DEF CloneDone, At, procVars, lockVars
<1>s. /\ UNCHANGED <<sig, woken>>
  BY DEF CloneDone, At, procVars, lockVars
<1>m. AtType' /\ n # t /\ Pair(t, n, "rel", at[t].tgt, "user", None, "user")
  BY <1>f, CloneDoneMoves DEF Stands
<1>d. /\ UNCHANGED deadThreads
  BY DEF CloneDone, At, procVars, lockVars
<1>i. /\ ProgExact /\ ChildExact /\ OthersExact /\ Places /\ DeadExact /\ CountExact
      /\ LastGone /\ Lives /\ Unborn /\ Parents /\ Watches /\ Joins
  BY DEF ProcsInv
<1>1. TypeOK'
  <2>1. at[t].arg \in Pid
    BY <1>f, <1>e DEF Stands, Typed
  <2>2. Fields'
    BY <1>f, <1>e, <1>s, <1>d, <2>1 DEF Stands, Fields
  <2> QED BY <1>m, <2>2 DEF TypeOK, AtType, Spot, Fields
<1>2. ProgExact'
  BY <1>f, <1>e, <1>m, <1>i DEF Stands, Pair, ProgExact, HoldsOwn, HoldsTarget
<1>3. ChildExact'
  BY <1>f, <1>e, <1>m, <1>i DEF Stands, Pair, ChildExact, HoldsChild
<1>4. OthersExact'
  BY <1>f, <1>e, <1>m, <1>i DEF Stands, Pair, OthersExact
<1>5. Places'
  <2>1. at[t].arg \in Pid
    BY <1>f, <1>e DEF Stands, Typed
  <2>2. PlaceOf(t)' /\ PlaceOf(n)' /\ home'[Terminator] = 0
    BY <1>f, <1>e, <1>m, <1>i, <2>1 DEF Stands, Pair, Places, PlaceOf, Burying, Returns
  <2>3. ASSUME NEW u \in Thread \ {t, n}
        PROVE  PlaceOf(u)'
    BY <1>f, <1>e, <1>m, <1>i DEF Stands, Pair, Places, PlaceOf
  <2> QED BY <2>2, <2>3 DEF Places
<1>6. DeadExact'
  <2>1. ~ Gone(n) /\ ~ Gone(t)
    BY <1>f, <1>e, <1>i DEF Stands, Places, PlaceOf, Gone
  <2>2. /\ ~ InList(deadThreads, n) /\ ~ InList(deadThreads, t)
        /\ \A u \in Thread : at[u].pc \in {"kt_req", "kt"} => at[u].arg \notin {n, t}
    BY <1>i, <2>1 DEF DeadExact
  <2> QED BY <1>f, <1>e, <1>d, <1>m, <1>i, <2>2 DEF Stands, Pair, Gone, DeadExact
<1>7. CountExact'
  <2>1. /\ at[t].arg \in Pid /\ home[n] = None /\ at[n].ret = "user"
        /\ home'[n] = at[t].arg /\ home'[t] = home[t]
    <3>1. home[n] = None /\ at[n].ret = "user" /\ n # t
      BY <1>e, <1>m, <1>i DEF Places, PlaceOf
    <3> QED BY <1>f, <1>e, <3>1 DEF Stands, Typed
  <2>2. \A u \in Thread \ {t}, p \in Pid : Refers(u, p)' <=> Refers(u, p)
    BY <1>e, <1>m, <2>1 DEF Pair, Refers, Referring
  <2>3. \A p \in Pid : refs'[p] + Ref(t, p) + In(n, p) + Born(p)
                        = refs[p] + Ref(t, p)' + In(n, p)' + Born(p)'
    BY <1>f, <1>e, <1>m, <2>1 DEF Stands, Pair, Ref, Refers, Referring, In, Born, PlaceOf
  <2>4. refs' \in [Pid -> Nat] /\ \A u \in Thread \ {n} : home'[u] = home[u]
    BY <1>f, <1>e, <1>1 DEF Stands, TypeOK
  <2> QED BY <2>2, <2>3, <2>4, Balanced
<1>8. LastGone'
  <2>1. \A u \in Thread : at[u].pc # "rm"
    BY <1>f, <1>e, <1>i DEF Stands, OthersExact
  <2>2. at[t].arg \in Pid /\ at[t].arg \in present
    BY <1>f, <1>e, <1>i DEF Stands, Typed, Unborn
  <2> QED BY <1>f, <1>e, <1>m, <1>i, <2>1, <2>2 DEF Stands, Pair, LastGone, At
<1>9. Lives'
  <2>1. at[t].arg \in born /\ life[at[t].arg] = "alive"
    BY <1>e, <1>i DEF Unborn
  <2>2. \A u \in Thread : home'[u] = IF u = n THEN at[t].arg ELSE home[u]
    BY <1>f, <1>e DEF Stands
  <2> QED BY <1>e, <1>m, <1>i, <2>1, <2>2 DEF Pair, Lives, Reaps, Reaping
<1>10. Unborn'
  BY <1>f, <1>e, <1>m, <1>i DEF Stands, Pair, Unborn
<1>11. Parents'
  BY <1>f, <1>e, <1>m, <1>i DEF Stands, Pair, Parents, OrphansAdopted
<1>12. Watches'
  <2>1. \A u \in Thread : at'[u].pc \in {"wc_wait", "wc_event"} =>
          at'[u] = at[u] /\ home'[u] = home[u]
    BY <1>f, <1>e, <1>m DEF Stands, Pair
  <2>2. \A u \in Thread : at[u].pc \in {"kt_child", "kt_note", "ki_note"} => at'[u] = at[u]
    BY <1>e, <1>m DEF Pair
  <2> QED BY <1>e, <1>s, <1>i, <2>1, <2>2 DEF Watches, NoLostChild, Children, At
<1>13. Joins'
  <2>1. home[n] = None /\ at[n].ret = "user" /\ at[t].ret = "user"
    BY <1>f, <1>e, <1>i DEF Stands, Places, PlaceOf
  <2>2. \A u \in Thread : home'[u] = IF u = n THEN at[t].arg ELSE home[u]
    BY <1>f, <1>e DEF Stands
  <2>3. \A u \in Thread \ {n} : at[u].pc \in {"fin_req", "finish"} \/ at[u].ret = "fin_req" =>
          home[u] # at[t].arg
    BY <1>e, <1>i DEF Unborn
  <2>4. /\ at'[t].pc = "rel" /\ at'[t].ret = "user" /\ at'[n].pc = "user" /\ at'[n].ret = "user"
        /\ \A u \in Thread \ {t, n} : at'[u] = at[u]
    BY <1>m DEF Pair
  <2>5. \A u \in Thread : Ending(u) => u \notin {t, n} /\ home[u] \in Pid
    BY <1>f, <1>e, <1>i, <2>1, EndingHome DEF Stands, Ending
  <2>6. \A u \in Thread : "jo_wait" \in {at'[u].pc, at'[u].ret} /\ u \notin woken' =>
          \E w \in Thread \ {u} : home'[w] = home'[u]
    BY <1>f, <1>s, <1>i, <2>1, <2>2, <2>4, <2>5 DEF Stands, Joins, Ending
  <2>7. \A u \in Thread : at'[u].pc \in {"fin_req", "finish"} \/ at'[u].ret = "fin_req" =>
          \A w \in Thread : home'[w] = home'[u] => w = u
    BY <1>i, <2>2, <2>3, <2>4 DEF Joins
  <2>8. \A p \in Pid : code'[p] # "none" =>
          p \in released' \/ \E u \in Thread : home'[u] = p /\ Ending(u)'
    BY <1>e, <1>i, <2>2, <2>4, <2>5 DEF Joins, Ending
  <2> QED BY <2>6, <2>7, <2>8 DEF Joins
<1> QED BY <1>1, <1>2, <1>3, <1>4, <1>5, <1>6, <1>7, <1>8, <1>9, <1>10, <1>11, <1>12, <1>13
           DEF ProcsInv

(* The process gets one more thread.                                       *)
LEMMA StartThreadKeeps ==
  ASSUME ProcsInv, NEW t \in Thread, NEW n \in Thread, StartThread(t, n)
  PROVE  ProcsInv'
<1>f. Stands(t)
  BY Standing
<1>e. /\ at[t].pc = "start" /\ at[n].pc = "free" /\ prog[home[t]] = None /\ refLock = None
      /\ refs' = [refs EXCEPT ![home[t]] = @ + 1] /\ home' = [home EXCEPT ![n] = home[t]]
      /\ UNCHANGED <<present, ppid, life, code, released, born, prog, childLock, procLock,
           refLock, kept>>
  BY DEF StartThread, At, procVars, lockVars
<1>s. /\ UNCHANGED <<sig, woken>>
  BY DEF StartThread, At, procVars, lockVars
<1>m. AtType' /\ n # t /\ Pair(t, n, "rel", at[t].tgt, "user", at[t].arg, "user")
  BY <1>f, StartThreadMoves DEF Stands
<1>d. /\ UNCHANGED deadThreads
  BY DEF StartThread, At, procVars, lockVars
<1>i. /\ ProgExact /\ ChildExact /\ OthersExact /\ Places /\ DeadExact /\ CountExact
      /\ LastGone /\ Lives /\ Unborn /\ Parents /\ Watches /\ Joins
  BY DEF ProcsInv
<1>1. TypeOK'
  <2>1. Fields'
    BY <1>f, <1>e, <1>s, <1>d DEF Stands, Fields
  <2> QED BY <1>m, <2>1 DEF TypeOK, AtType, Spot, Fields
<1>2. ProgExact'
  BY <1>f, <1>e, <1>m, <1>i DEF Stands, Pair, ProgExact, HoldsOwn, HoldsTarget
<1>3. ChildExact'
  BY <1>f, <1>e, <1>m, <1>i DEF Stands, Pair, ChildExact, HoldsChild
<1>4. OthersExact'
  BY <1>f, <1>e, <1>m, <1>i DEF Stands, Pair, OthersExact
<1>5. Places'
  BY <1>f, <1>e, <1>m, <1>i DEF Stands, Pair, Places, PlaceOf, Burying, Returns
<1>6. DeadExact'
  <2>1. ~ Gone(n) /\ ~ Gone(t)
    BY <1>f, <1>e, <1>i DEF Stands, Places, PlaceOf, Gone
  <2>2. /\ ~ InList(deadThreads, n) /\ ~ InList(deadThreads, t)
        /\ \A u \in Thread : at[u].pc \in {"kt_req", "kt"} => at[u].arg \notin {n, t}
    BY <1>i, <2>1 DEF DeadExact
  <2> QED BY <1>f, <1>e, <1>d, <1>m, <1>i, <2>2 DEF Stands, Pair, Gone, DeadExact
<1>7. CountExact'
  <2>1. /\ home[t] \in Pid /\ home[n] = None /\ at[n].ret = "user"
        /\ home'[n] = home[t] /\ home'[t] = home[t]
    <3>1. home[n] = None /\ at[n].ret = "user" /\ n # t
      BY <1>e, <1>m, <1>i DEF Places, PlaceOf
    <3> QED BY <1>f, <1>e, <3>1 DEF Stands, Typed
  <2>2. \A u \in Thread \ {t}, p \in Pid : Refers(u, p)' <=> Refers(u, p)
    BY <1>e, <1>m, <2>1 DEF Pair, Refers, Referring
  <2>3. \A p \in Pid : refs'[p] + Ref(t, p) + In(n, p) + Born(p)
                        = refs[p] + Ref(t, p)' + In(n, p)' + Born(p)'
    BY <1>f, <1>e, <1>m, <2>1 DEF Stands, Pair, Ref, Refers, Referring, In, Born, PlaceOf
  <2>4. refs' \in [Pid -> Nat] /\ \A u \in Thread \ {n} : home'[u] = home[u]
    BY <1>f, <1>e, <1>1 DEF Stands, TypeOK
  <2> QED BY <2>2, <2>3, <2>4, Balanced
<1>8. LastGone'
  <2>1. \A u \in Thread : at[u].pc # "rm"
    BY <1>f, <1>e, <1>i DEF Stands, OthersExact
  <2>2. home[t] \in present
    BY <1>f, <1>e DEF Stands
  <2> QED BY <1>f, <1>e, <1>m, <1>i, <2>1, <2>2 DEF Stands, Pair, LastGone, At
<1>9. Lives'
  <2>1. \A u \in Thread : home'[u] = IF u = n THEN home[t] ELSE home[u]
    BY <1>f, <1>e DEF Stands
  <2> QED BY <1>e, <1>m, <1>i, <2>1 DEF Pair, Lives, Reaps, Reaping
<1>10. Unborn'
  BY <1>f, <1>e, <1>m, <1>i DEF Stands, Pair, Unborn
<1>11. Parents'
  BY <1>f, <1>e, <1>m, <1>i DEF Stands, Pair, Parents, OrphansAdopted
<1>12. Watches'
  <2>1. \A u \in Thread : at'[u].pc \in {"wc_wait", "wc_event"} =>
          at'[u] = at[u] /\ home'[u] = home[u]
    BY <1>f, <1>e, <1>m DEF Stands, Pair
  <2>2. \A u \in Thread : at[u].pc \in {"kt_child", "kt_note", "ki_note"} => at'[u] = at[u]
    BY <1>e, <1>m DEF Pair
  <2> QED BY <1>e, <1>s, <1>i, <2>1, <2>2 DEF Watches, NoLostChild, Children, At
<1>13. Joins'
  <2>1. home[n] = None /\ at[n].ret = "user" /\ at[t].ret = "user"
    BY <1>f, <1>e, <1>i DEF Stands, Places, PlaceOf
  <2>2. \A u \in Thread : home'[u] = IF u = n THEN home[t] ELSE home[u]
    BY <1>f, <1>e DEF Stands
  <2>3. \A u \in Thread \ {n} : at[u].pc \in {"fin_req", "finish"} \/ at[u].ret = "fin_req" =>
          home[u] # home[t]
    BY <1>f, <1>e, <1>i, <2>1 DEF Stands, Joins
  <2>4. /\ at'[t].pc = "rel" /\ at'[t].ret = "user" /\ at'[n].pc = "user" /\ at'[n].ret = "user"
        /\ \A u \in Thread \ {t, n} : at'[u] = at[u]
    BY <1>m DEF Pair
  <2>5. \A u \in Thread : Ending(u) => u \notin {t, n} /\ home[u] \in Pid
    BY <1>f, <1>e, <1>i, <2>1, EndingHome DEF Stands, Ending
  <2>6. \A u \in Thread : "jo_wait" \in {at'[u].pc, at'[u].ret} /\ u \notin woken' =>
          \E w \in Thread \ {u} : home'[w] = home'[u]
    BY <1>f, <1>s, <1>i, <2>1, <2>2, <2>4, <2>5 DEF Stands, Joins, Ending
  <2>7. \A u \in Thread : at'[u].pc \in {"fin_req", "finish"} \/ at'[u].ret = "fin_req" =>
          \A w \in Thread : home'[w] = home'[u] => w = u
    BY <1>i, <2>2, <2>3, <2>4 DEF Joins
  <2>8. \A p \in Pid : code'[p] # "none" =>
          p \in released' \/ \E u \in Thread : home'[u] = p /\ Ending(u)'
    BY <1>e, <1>i, <2>2, <2>4, <2>5 DEF Joins, Ending
  <2> QED BY <2>6, <2>7, <2>8 DEF Joins
<1> QED BY <1>1, <1>2, <1>3, <1>4, <1>5, <1>6, <1>7, <1>8, <1>9, <1>10, <1>11, <1>12, <1>13
           DEF ProcsInv

LEMMA InitCounts ==
  ASSUME Init
  PROVE  CountExact
<1>0. /\ home = [t \in Thread |-> CASE t \in {Terminator, InitThread} -> 0
                                     [] t = FirstThread -> FirstPid
                                     [] OTHER -> None]
      /\ refs = [p \in Pid |-> CASE p = 0 -> 3 [] p = FirstPid -> 2 [] OTHER -> 0]
      /\ born = {0, FirstPid}
      /\ \A t \in Thread : at[t].pc \in {"idle", "user", "free"} /\ at[t].ret = "user"
  BY DEF Init, Loc
<1>1. /\ 0 \in Pid /\ FirstPid \in Pid \ {0} /\ None \notin Pid
      /\ Terminator \in Thread /\ InitThread \in Thread /\ FirstThread \in Thread
      /\ Terminator # InitThread /\ Terminator # FirstThread /\ InitThread # FirstThread
  BY ProcsAssumption
<1> SUFFICES ASSUME NEW p \in Pid
             PROVE  refs[p] = Cardinality(Threads(p)) + Cardinality(Holders(p)) + Born(p)
  BY DEF CountExact
<1>2. Cardinality(Holders(p)) = 0
  <2>1. Holders(p) = {}
    BY <1>0 DEF Holders, Referring
  <2> QED BY <2>1, FS_EmptySet
<1>3. CASE p = 0
  <2>1. Threads(p) = {Terminator, InitThread}
    BY <1>0, <1>1, <1>3 DEF Threads
  <2>2. IsFiniteSet({Terminator}) /\ Cardinality({Terminator}) = 1
    BY FS_Singleton
  <2>3. Threads(p) = {Terminator} \cup {InitThread}
    BY <2>1
  <2>4. Cardinality(Threads(p)) = 2
    BY <1>1, <2>2, <2>3, FS_AddElement
  <2> QED BY <1>0, <1>1, <1>2, <1>3, <2>4 DEF Born
<1>4. CASE p = FirstPid
  <2>1. Threads(p) = {FirstThread}
    BY <1>0, <1>1, <1>4 DEF Threads
  <2>2. Cardinality(Threads(p)) = 1
    BY <2>1, FS_Singleton
  <2> QED BY <1>0, <1>1, <1>2, <1>4, <2>2 DEF Born
<1>5. CASE p \notin {0, FirstPid}
  <2>1. Threads(p) = {}
    BY <1>0, <1>1, <1>5 DEF Threads
  <2>2. Cardinality(Threads(p)) = 0
    BY <2>1, FS_EmptySet
  <2> QED BY <1>0, <1>1, <1>2, <1>5, <2>2 DEF Born
<1> QED BY <1>3, <1>4, <1>5

LEMMA InitInv ==
  ASSUME Init
  PROVE  ProcsInv
<1>0. /\ 0 \in Pid /\ FirstPid \in Pid \ {0} /\ None \notin Pid /\ None \notin Thread
      /\ Terminator \in Thread /\ InitThread \in Thread /\ FirstThread \in Thread
      /\ Terminator # InitThread /\ Terminator # FirstThread /\ InitThread # FirstThread
  BY ProcsAssumption
<1>1. /\ at = [t \in Thread |-> [pc |-> CASE t = Terminator -> "idle"
                                          [] t \in {InitThread, FirstThread} -> "user"
                                          [] OTHER -> "free",
                                 tgt |-> 0, ret |-> "user", arg |-> None]]
      /\ {"idle", "user", "free"} \subseteq Points
  BY DEF Init, Loc, Points
<1>2. \A t \in Thread : /\ at[t].pc \in {"idle", "user", "free"} /\ at[t].ret = "user"
                        /\ at[t].tgt = 0 /\ at[t].arg = None
                        /\ at[t].pc = "idle" <=> t = Terminator
                        /\ at[t].pc = "user" <=> t \in {InitThread, FirstThread}
  BY <1>0, <1>1
<1>3. /\ home \in [Thread -> Pid \cup {None}]
      /\ \A t \in Thread : /\ t \in {Terminator, InitThread} => home[t] = 0
                           /\ t = FirstThread => home[t] = FirstPid
                           /\ t \notin {Terminator, InitThread, FirstThread} => home[t] = None
  BY <1>0 DEF Init
<1>4. /\ present = {0, FirstPid} /\ born = {0, FirstPid} /\ released = {}
      /\ ppid = [p \in Pid |-> 0] /\ life = [p \in Pid |-> "alive"]
      /\ code = [p \in Pid |-> "none"] /\ prog = [p \in Pid |-> None]
      /\ refs = [p \in Pid |-> CASE p = 0 -> 3 [] p = FirstPid -> 2 [] OTHER -> 0]
      /\ sig = {} /\ woken = {} /\ deadThreads = <<>>
      /\ childLock = None /\ procLock = None /\ refLock = None /\ kept = FALSE
  BY DEF Init
<1>5. TypeOK
  <2>1. AtType
    BY <1>0, <1>1 DEF AtType, Spot
  <2>2. Fields
    BY <1>0, <1>3, <1>4 DEF Fields
  <2> QED BY <2>1, <2>2 DEF TypeOK, AtType, Spot, Fields
<1>6. ProgExact /\ ChildExact /\ OthersExact
  BY <1>0, <1>2, <1>4
     DEF ProgExact, ChildExact, OthersExact, HoldsOwn, HoldsTarget, HoldsChild
<1>7. Places
  BY <1>0, <1>2, <1>3 DEF Places, PlaceOf, Burying
<1>8. DeadExact
  <2>1. Len(deadThreads) = 0
    BY <1>4
  <2> QED BY <1>2, <2>1 DEF DeadExact, Distinct, InList
<1>9. CountExact
  BY InitCounts
<1>10. LastGone
  BY <1>0, <1>2, <1>4 DEF LastGone
<1>11. Lives
  BY <1>0, <1>2, <1>3, <1>4 DEF Lives, Reaps, Reaping
<1>12. Unborn /\ Parents
  BY <1>0, <1>2, <1>4 DEF Unborn, Parents, OrphansAdopted
<1>13. Watches
  BY <1>2 DEF Watches, NoLostChild, At
<1>14. Joins
  BY <1>2, <1>4 DEF Joins
<1> QED BY <1>5, <1>6, <1>7, <1>8, <1>9, <1>10, <1>11, <1>12, <1>13, <1>14 DEF ProcsInv

(* Every step keeps the invariant.                                         *)
LEMMA IdleKeeps ==
  ASSUME ProcsInv, UNCHANGED <<procVars, refs, home, at, woken, deadThreads, lockVars, refLock>>,
         sig' \subseteq Thread
  PROVE  ProcsInv'
<1>e. /\ UNCHANGED <<present, ppid, life, refs, code, released, born, home, at, woken,
                     deadThreads, prog, childLock, procLock, refLock, kept>>
  BY DEF procVars, lockVars
<1>i. /\ TypeOK /\ ProgExact /\ ChildExact /\ OthersExact /\ Places /\ DeadExact
      /\ CountExact /\ LastGone /\ Lives /\ Unborn /\ Parents /\ Watches /\ Joins
  BY DEF ProcsInv
<1>1. TypeOK'
  BY <1>e, <1>i DEF TypeOK
<1>2. ProgExact' /\ ChildExact' /\ OthersExact'
  BY <1>e, <1>i DEF ProgExact, ChildExact, OthersExact, HoldsOwn, HoldsTarget, HoldsChild
<1>3. Places' /\ DeadExact'
  BY <1>e, <1>i DEF Places, PlaceOf, DeadExact, Gone
<1>4. CountExact'
  <2>1. \A u \in Thread, p \in Pid : Refers(u, p)' <=> Refers(u, p)
    BY <1>e DEF Refers
  <2> QED BY <1>e, <2>1, CountUnmoved
<1>5. LastGone' /\ Lives' /\ Unborn' /\ Parents'
  BY <1>e, <1>i DEF LastGone, At, Lives, Reaps, Unborn, Parents, OrphansAdopted
<1>6. Watches' /\ Joins'
  BY <1>e, <1>i DEF Watches, NoLostChild, Children, At, Joins, Ending
<1> QED BY <1>1, <1>2, <1>3, <1>4, <1>5, <1>6 DEF ProcsInv

LEMMA StepInv ==
  ASSUME ProcsInv, [Next]_vars
  PROVE  ProcsInv'
<1>0. sig \subseteq Thread
  BY DEF ProcsInv, TypeOK
<1>1. CASE UNCHANGED vars
  BY <1>0, <1>1, IdleKeeps DEF vars
<1>2. ASSUME NEW p \in Pid, SendKill(p)
      PROVE  ProcsInv'
  <2>1. sig' \subseteq Thread
    BY <1>0, <1>2 DEF SendKill, Threads
  <2> QED BY <1>2, <2>1, IdleKeeps DEF SendKill
<1>3. ASSUME NEW t \in Thread, Step(t)
      PROVE  ProcsInv'
  <2>1. \/ RelRef(t) \/ Remove(t) \/ (\E q \in Pid : Peek(t, q))
        \/ (\E x \in {"clone", "exit", "term", "join", "finish"} : OwnRequest(t, x))
        => ProcsInv'
    BY RelRefLastKeeps, RelRefMoreKeeps, RemoveKeeps, PeekKeeps, OwnRequestKeeps
  <2>2. \/ Clone(t) \/ (\E q \in Pid : CloneAdd(t, q)) \/ CloneNoPid(t)
        \/ (\E n \in Thread : CloneDone(t, n)) \/ CloneFails(t) \/ CloneEnd(t)
        => ProcsInv'
    BY CloneRefusedKeeps, CloneBeginsKeeps, CloneAddKeeps, CloneNoPidKeeps, CloneDoneKeeps,
       CloneFailsKeeps, CloneEndKeeps
  <2>3. StartRequest(t) \/ (\E n \in Thread : StartThread(t, n)) \/ StartFails(t) => ProcsInv'
    BY StartRequestKeeps, StartThreadKeeps, StartFailsKeeps
  <2>4. TerminateThread(t) \/ Terminate(t) \/ Join(t) \/ JoinWoken(t) \/ Finish(t) => ProcsInv'
    BY TerminateLastThreadKeeps, TerminateOtherThreadKeeps, TerminateAgainKeeps,
       TerminateFirstKeeps, JoinAloneKeeps, JoinWaitsKeeps, JoinWokenKeeps, FinishKeeps
  <2>5. \/ TakeDead(t) \/ KillThreadRequest(t) \/ KillThread(t) \/ KillThreadLock(t)
        \/ KillThreadNotify(t)
        => ProcsInv'
    BY TakeDeadKeeps, KillThreadRequestKeeps, KillThreadLastKeeps, KillThreadOtherKeeps,
       KillThreadLockKeeps, KillThreadNotifyKeeps
  <2>6. \/ WaitChild(t) \/ WaitLock(t) \/ (\E c \in Pid : GetExitState(t, c))
        \/ GetNoZombie(t) \/ WaitEvent(t) \/ GetNoChild(t) \/ WaitWoken(t)
        => ProcsInv'
    BY WaitChildKeeps, WaitLockKeeps, GetExitStateKeeps, GetNoZombieKeeps, WaitEventKeeps,
       GetNoChildKeeps, WaitWokenKeeps
  <2>7. \/ KillRequest(t) \/ Kill(t) \/ KillLockChild(t) \/ KillLockProc(t)
        \/ (\E c \in Pid : KillAdopt(t, c)) \/ KillNotify(t) \/ KillUnlock(t)
        \/ KillEnd(t)
        => ProcsInv'
    BY KillRequestKeeps, KillKeeps, KillLockChildKeeps, KillLockProcKeeps, KillAdoptKeeps,
       KillNotifyKeeps, KillUnlockKeeps, KillEndKeeps
  <2> QED BY <1>3, <2>1, <2>2, <2>3, <2>4, <2>5, <2>6, <2>7 DEF Step
<1> QED BY <1>1, <1>2, <1>3 DEF Next

(* Locks, references, parents and deaths are as the invariant says at all  *)
(* times (proc.cc, terminator.cc).                                         *)
THEOREM ProcsInvariant == Spec => []ProcsInv
<1>1. Init => ProcsInv
  BY InitInv
<1>2. ProcsInv /\ [Next]_vars => ProcsInv'
  BY StepInv
<1> QED BY <1>1, <1>2, PTL DEF Spec

(* The references to a process are exact: one for each thread, one for     *)
(* each request and the one of its birth; and the last one removes it      *)
(* (getRef, relRef).                                                       *)
THEOREM RefsAlwaysExact == Spec => []RefsExact
<1>1. ASSUME ProcsInv
      PROVE  RefsExact
  BY <1>1 DEF ProcsInv, CountExact, LastGone, Born, RefsExact
<1> QED BY <1>1, ProcsInvariant, PTL

(* A process is reaped by one thread, when none of its own is left         *)
(* (getExitState, kill).                                                   *)
THEOREM AlwaysReapedOnce == Spec => []ReapedOnce
<1>1. ASSUME ProcsInv, NEW p \in Pid, Reapers(p) # {}
      PROVE  Cardinality(Reapers(p)) = 1 /\ life[p] = "killed" /\ Threads(p) = {}
  <2>1. PICK t \in Thread : t \in Reapers(p)
    BY <1>1 DEF Reapers
  <2>2. \A u \in Thread : u \in Reapers(p) <=> Reaps(u, p)
    BY DEF Reapers, Reaps, Reaping, At
  <2>3. \A u \in Thread : u \in Reapers(p) => u = t
    BY <1>1, <2>1, <2>2 DEF ProcsInv, Lives
  <2>4. Reapers(p) = {t}
    BY <2>1, <2>3 DEF Reapers
  <2>5. life[p] = "killed"
    BY <1>1, <2>1, <2>2 DEF ProcsInv, Lives
  <2>6. Threads(p) = {}
    BY <1>1, <2>5 DEF ProcsInv, Lives, Threads
  <2> QED BY <2>4, <2>5, <2>6, FS_Singleton
<1>2. ProcsInv => ReapedOnce
  BY <1>1 DEF ReapedOnce
<1> QED BY <1>2, ProcsInvariant, PTL

(* No thread sleeps through the death of a child or of the last of the     *)
(* other threads (waitChild, join, notifyProcDied, killThread).            *)
THEOREM DeathsHeard == Spec => []NoLostDeath
<1>1. ASSUME ProcsInv
      PROVE  NoLostDeath
  <2>1. ASSUME NEW t \in Thread, At(t, "jo_wait"), t \notin woken
        PROVE  Threads(home[t]) # {t}
    <3>1. PICK u \in Thread \ {t} : home[u] = home[t]
      BY <1>1, <2>1 DEF ProcsInv, Joins, At
    <3> QED BY <3>1 DEF Threads
  <2> QED BY <1>1, <2>1 DEF ProcsInv, Watches, NoLostDeath
<1> QED BY <1>1, ProcsInvariant, PTL

(* The parent of every process exists and is not reaped (kill, clone).     *)
THEOREM OrphansAlwaysAdopted == Spec => []OrphansAdopted
<1>1. ProcsInv => OrphansAdopted
  BY DEF ProcsInv, Parents
<1> QED BY <1>1, ProcsInvariant, PTL

(* terminate() is alone when it releases the resources, and a zombie that  *)
(* it has ended has released them.                                         *)
THEOREM AlwaysReleasedBeforeZombie == Spec => []ReleasedBeforeZombie
<1>1. ASSUME ProcsInv
      PROVE  ReleasedBeforeZombie
  <2>1. ASSUME NEW t \in Thread, at[t].pc \in {"fin_req", "finish"}
        PROVE  Threads(home[t]) = {t}
    BY <1>1, <2>1 DEF ProcsInv, Joins, Threads
  <2>2. ASSUME NEW p \in present, life[p] \in {"zombie", "killed"}, code[p] # "none"
        PROVE  p \in released
    <3>0. p \in Pid
      BY <1>1 DEF ProcsInv, TypeOK
    <3>1. p \in Pid /\ \A t \in Thread : home[t] # p
      BY <1>1, <2>2, <3>0 DEF ProcsInv, Lives
    <3> QED BY <1>1, <2>2, <3>1 DEF ProcsInv, Joins
  <2> QED BY <2>1, <2>2 DEF ReleasedBeforeZombie
<1> QED BY <1>1, ProcsInvariant, PTL

-----------------------------------------------------------------------------
(* Who waits for whom.                                                     *)
AskProg  == {"clone", "start", "exit", "term", "join", "finish", "kt", "kill"}
AskChild == {"kt_child", "wc", "wc_again", "ki_child"}
AskProc  == {"rm", "cl_add", "wc_get", "wc_get_again", "ki_proc"}
AskRef   == {"rel", "cl_fill", "ki_end", "ki_req", "kt_req", "te_req", "jo_req", "fin_req"}

LEMMA Waits ==
  ASSUME ProcsInv, NEW t \in Thread, NEW u \in Thread, u \in WaitsFor(t)
  PROVE  \/ at[t].pc \in AskProg /\ \E p \in Pid : prog[p] = u
         \/ at[t].pc \in AskChild /\ childLock = u
         \/ at[t].pc \in AskProc /\ procLock = u
         \/ at[t].pc \in AskRef /\ refLock = u
         \/ at[t].pc = "kt_note" /\ (prog[ppid[at[t].tgt]] = u \/ refLock = u)
         \/ at[t].pc = "ki_note" /\ (prog[0] = u \/ refLock = u)
<1>0. /\ at[t].tgt \in Pid /\ (at[t].pc # "free" => home[t] \in Pid)
  BY InvTyped, PlaceOfThread DEF Typed
<1>1. CASE at[t].pc \in {"clone", "start", "exit", "term", "join", "finish"}
  BY <1>0, <1>1 DEF WaitsFor, AskProg
<1>2. CASE at[t].pc \in {"kt", "kill"}
  BY <1>0, <1>2 DEF WaitsFor, AskProg
<1>3. CASE at[t].pc \in AskChild
  BY <1>3 DEF WaitsFor, AskChild
<1>4. CASE at[t].pc \in AskProc
  BY <1>4 DEF WaitsFor, AskProc
<1>5. CASE at[t].pc \in AskRef
  BY <1>5 DEF WaitsFor, AskRef
<1>6. CASE at[t].pc = "kt_note"
  BY <1>6 DEF WaitsFor
<1>7. CASE at[t].pc = "ki_note"
  BY <1>7 DEF WaitsFor
<1>8. CASE at[t].pc \notin AskProg \cup AskChild \cup AskProc \cup AskRef
                           \cup {"kt_note", "ki_note"}
  BY <1>8 DEF WaitsFor, AskProg, AskChild, AskProc, AskRef
<1> QED BY <1>1, <1>2, <1>3, <1>4, <1>5, <1>6, <1>7, <1>8 DEF AskProg

(* Who holds what.                                                         *)
LEMMA Held ==
  ASSUME ProcsInv, ~ kept, NEW u \in Thread
  PROVE  /\ \A p \in Pid : prog[p] = u =>
              at[u].pc \in {"cl_add", "cl_fill", "cl_end", "rel", "rm", "kt_child", "kt_note",
                            "ki_child", "ki_proc", "ki_loop", "ki_note", "ki_end"}
         /\ childLock = u => at[u].pc \in {"kt_note", "wc_get", "wc_get_again", "wc_event",
                                           "ki_proc", "ki_loop", "ki_note"}
         /\ procLock = u => at[u].pc \in {"ki_loop", "ki_note"}
         /\ refLock = u => at[u].pc = "rm"
<1>1. \A p \in Pid : prog[p] = u =>
        at[u].pc \in {"cl_add", "cl_fill", "cl_end", "rel", "rm", "kt_child", "kt_note",
                      "ki_child", "ki_proc", "ki_loop", "ki_note", "ki_end"}
  BY DEF ProcsInv, ProgExact, HoldsOwn, HoldsTarget
<1>2. childLock = u => at[u].pc \in {"kt_note", "wc_get", "wc_get_again", "wc_event",
                                     "ki_proc", "ki_loop", "ki_note"}
  BY DEF ProcsInv, ChildExact, HoldsChild
<1>3. (procLock = u => at[u].pc \in {"ki_loop", "ki_note"}) /\ (refLock = u => at[u].pc = "rm")
  BY DEF ProcsInv, OthersExact
<1> QED BY <1>1, <1>2, <1>3

(* Nobody holds the lock of process 0 to bury or to reap it.               *)
LEMMA InitNotReaped ==
  ASSUME ProcsInv, NEW u \in Thread, prog[0] = u
  PROVE  HoldsOwn(u) /\ home[u] = 0
<1>1. 0 \in Pid /\ Terminator \in Thread
  BY ProcsAssumption
<1>2. life[0] \in {"alive", "prezombie"}
  BY <1>1 DEF ProcsInv, Places, Lives
<1>3. ~ (HoldsTarget(u) /\ at[u].tgt = 0)
  BY <1>1, <1>2 DEF ProcsInv, Lives, HoldsTarget, Reaps, Reaping
<1> QED BY <1>1, <1>3 DEF ProcsInv, ProgExact

(* The terminator does not ask for a lock it holds.                        *)
LEMMA ParentNotBuried ==
  ASSUME ProcsInv, NEW t \in Thread, at[t].pc = "kt_note",
         NEW u \in Thread, prog[ppid[at[t].tgt]] = u
  PROVE  at[u].pc \notin {"kt_child", "kt_note"}
<1>1. SUFFICES ASSUME at[u].pc \in {"kt_child", "kt_note"} PROVE FALSE
  OBVIOUS
<1>2. 0 \in Pid /\ Terminator \in Thread
  BY ProcsAssumption
<1>3. at[t].tgt \in Pid /\ ppid[at[t].tgt] \in Pid
  BY InvTyped, PlaceOfThread DEF Typed, ProcsInv, TypeOK
<1>4. u = t
  BY <1>1 DEF ProcsInv, Places, PlaceOf, Burying
<1>5. ppid[at[t].tgt] = at[t].tgt
  BY <1>3, <1>4 DEF ProcsInv, ProgExact, HoldsOwn, HoldsTarget
<1>6. at[t].tgt # 0
  BY <1>2 DEF ProcsInv, Places, Lives
<1> QED BY <1>3, <1>5, <1>6 DEF ProcsInv, Parents

LEMMA NoCircle ==
  ASSUME ProcsInv, ~ kept, ~ TerminatorMeetsReaper, ~ ReaperHoldsProcLock,
         NEW S \in SUBSET Thread,
         \A t \in S : WaitsFor(t) \cap S # {}
  PROVE  S = {}
<1>w. \A t \in S : \E u \in S : u \in WaitsFor(t)
  OBVIOUS
<1>1. \A t \in S : at[t].pc \notin {"ki_loop", "cl_end", "wc_event"}
  BY <1>w, Waits DEF AskProg, AskChild, AskProc, AskRef
<1>2. \A t \in S : at[t].pc # "rm"
  <2>1. SUFFICES ASSUME NEW t \in S, at[t].pc = "rm" PROVE FALSE
    OBVIOUS
  <2>2. PICK u \in S : procLock = u
    BY <1>w, <2>1, Waits DEF AskProg, AskChild, AskProc, AskRef
  <2> QED BY <1>1, <2>1, <2>2, Held DEF ReaperHoldsProcLock, At
<1>3. \A t \in S : at[t].pc \notin AskRef
  <2>1. SUFFICES ASSUME NEW t \in S, at[t].pc \in AskRef PROVE FALSE
    OBVIOUS
  <2>2. PICK u \in S : refLock = u
    BY <1>w, <2>1, Waits DEF AskProg, AskChild, AskProc, AskRef
  <2> QED BY <1>2, <2>2, Held
<1>4. \A t \in S : at[t].pc # "ki_note"
  <2>1. SUFFICES ASSUME NEW t \in S, at[t].pc = "ki_note" PROVE FALSE
    OBVIOUS
  <2>2. PICK u \in S : prog[0] = u \/ refLock = u
    BY <1>w, <2>1, Waits DEF AskProg, AskChild, AskProc, AskRef
  <2>3. prog[0] = u
    BY <1>2, <2>2, Held
  <2>4. HoldsOwn(u) /\ home[u] = 0
    BY <2>3, InitNotReaped
  <2>5. at[u].pc # "cl_add"
    BY <2>1, <2>4 DEF ReaperHoldsProcLock, At
  <2> QED BY <1>1, <1>2, <1>3, <2>4, <2>5 DEF HoldsOwn, AskRef
<1>5. \A t \in S : at[t].pc \notin AskProc
  <2>1. SUFFICES ASSUME NEW t \in S, at[t].pc \in AskProc PROVE FALSE
    OBVIOUS
  <2>2. PICK u \in S : procLock = u
    BY <1>w, <2>1, Waits DEF AskProg, AskChild, AskProc, AskRef
  <2> QED BY <1>1, <1>4, <2>2, Held
<1>6. \A t \in S : at[t].pc # "kt_note"
  <2>1. SUFFICES ASSUME NEW t \in S, at[t].pc = "kt_note" PROVE FALSE
    OBVIOUS
  <2>2. PICK u \in S : prog[ppid[at[t].tgt]] = u \/ refLock = u
    BY <1>w, <2>1, Waits DEF AskProg, AskChild, AskProc, AskRef
  <2>3. prog[ppid[at[t].tgt]] = u
    BY <1>2, <2>2, Held
  <2>4. ppid[at[t].tgt] \in Pid
    BY InvTyped, PlaceOfThread DEF Typed, ProcsInv, TypeOK
  <2>5. at[u].pc \notin {"kt_child", "kt_note"}
    BY <2>1, <2>3, ParentNotBuried
  <2>6. at[u].pc # "ki_child"
    BY <2>1, <2>3 DEF TerminatorMeetsReaper, At
  <2> QED BY <1>1, <1>2, <1>3, <1>4, <1>5, <2>3, <2>4, <2>5, <2>6, Held DEF AskRef, AskProc
<1>7. \A t \in S : at[t].pc \notin AskChild
  <2>1. SUFFICES ASSUME NEW t \in S, at[t].pc \in AskChild PROVE FALSE
    OBVIOUS
  <2>2. PICK u \in S : childLock = u
    BY <1>w, <2>1, Waits DEF AskProg, AskChild, AskProc, AskRef
  <2> QED BY <1>1, <1>4, <1>5, <1>6, <2>2, Held DEF AskProc
<1>8. \A t \in S : at[t].pc \notin AskProg
  <2>1. SUFFICES ASSUME NEW t \in S, at[t].pc \in AskProg PROVE FALSE
    OBVIOUS
  <2>2. PICK u \in S : \E p \in Pid : prog[p] = u
    BY <1>w, <2>1, Waits DEF AskProg, AskChild, AskProc, AskRef
  <2> QED BY <1>1, <1>2, <1>3, <1>4, <1>5, <1>6, <1>7, <2>2, Held DEF AskRef, AskProc, AskChild
<1> QED BY <1>w, <1>3, <1>4, <1>5, <1>6, <1>7, <1>8, Waits

(* The two circles that kill() can close are the only ones, unless         *)
(* childLock has been kept (killThread, notifyProcDied, relRef, clone).    *)
THEOREM NoOtherCircle == Spec => []NoOtherDeadlock
<1>1. ASSUME ProcsInv
      PROVE  NoOtherDeadlock
  <2>1. LocksReturned
    BY <1>1 DEF LocksReturned, ProcsInv, ProgExact, ChildExact, OthersExact,
                HoldsOwn, HoldsTarget, HoldsChild
  <2>2. ASSUME ~ kept, ~ TerminatorMeetsReaper, ~ ReaperHoldsProcLock,
               NEW S \in (SUBSET Thread) \ {{}}
        PROVE  \E t \in S : WaitsFor(t) \cap S = {}
    BY <1>1, <2>2, NoCircle
  <2> QED BY <2>1, <2>2 DEF NoOtherDeadlock
<1> QED BY <1>1, ProcsInvariant, PTL
=============================================================================
