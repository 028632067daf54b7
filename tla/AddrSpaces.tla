----------------------------- MODULE AddrSpaces -----------------------------
(***************************************************************************)
(* What virtual memory promises the processes: regions with a content of   *)
(* their own.  A private region belongs to one process, a fork copies it at *)
(* once; a shared region is the same for everybody that has inherited it.  *)
(* Pages, frames and disks do not occur.                                   *)
(***************************************************************************)
CONSTANTS Proc, Region, Value, Zero, Null

VARIABLES
    users,    \* users[r]: the processes that have mapped the region
    shared,   \* the regions that are shareable
    content   \* content[r]: what a user reads; Null if there is nothing

avars == <<users, shared, content>>

AInit ==
    /\ users = [r \in Region |-> {}]
    /\ shared = {}
    /\ content = [r \in Region |-> Null]

Unused == {r \in Region : users[r] = {}}
Mine(p) == {r \in Region : p \in users[r]}

AMap(p, r) ==
    /\ r \in Unused
    /\ users' = [users EXCEPT ![r] = {p}]
    /\ shared' \in {shared, shared \cup {r}}
    /\ content' = [content EXCEPT ![r] = Zero]

AWrite(p, r, v) ==
    /\ p \in users[r] /\ content[r] # Null
    /\ content' = [content EXCEPT ![r] = v]
    /\ UNCHANGED <<users, shared>>

(* copy[r] is the child's copy of r: r itself if it is shared.             *)
AFork(p, q, copy) ==
    /\ Mine(q) = {}
    /\ \A r \in Mine(p) : IF r \in shared THEN copy[r] = r ELSE copy[r] \in Unused
    /\ \A r, s \in Mine(p) : copy[r] = copy[s] => r = s
    /\ users' = [s \in Region |->
          IF \E r \in Mine(p) : copy[r] = s THEN users[s] \cup {q} ELSE users[s]]
    /\ content' = [s \in Region |->
          IF \E r \in Mine(p) : copy[r] = s
          THEN content[CHOOSE r \in Mine(p) : copy[r] = s] ELSE content[s]]
    /\ UNCHANGED shared

AUnmap(p, r) ==
    /\ p \in users[r]
    /\ users' = [users EXCEPT ![r] = @ \ {p}]
    /\ content' = [content EXCEPT ![r] = IF users[r] = {p} THEN Null ELSE @]
    /\ shared' = IF users[r] = {p} THEN shared \ {r} ELSE shared

(* The only page of a region that can grow is given back.                  *)
AShrink(p, r) ==
    /\ p \in users[r] /\ r \notin shared
    /\ content' = [content EXCEPT ![r] = Null]
    /\ UNCHANGED <<users, shared>>

(* It is there again, or a page is added; what it holds is not promised,   *)
(* not even that it holds something.                                       *)
AGrow(p, r, v) ==
    /\ users[r] \subseteq {p} /\ r \notin shared /\ content[r] = Null
    /\ users' = [users EXCEPT ![r] = {p}]
    /\ content' = [content EXCEPT ![r] = v]
    /\ UNCHANGED shared

ANext ==
    \E p \in Proc :
        \/ \E r \in Region : AMap(p, r) \/ AUnmap(p, r) \/ AShrink(p, r)
        \/ \E r \in Region, v \in Value : AWrite(p, r, v)
        \/ \E r \in Region, v \in Value \cup {Null} : AGrow(p, r, v)
        \/ \E q \in Proc, copy \in [Mine(p) -> Region] : AFork(p, q, copy)

ASpec == AInit /\ [][ANext]_avars
=============================================================================
