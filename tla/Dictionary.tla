----------------------------- MODULE Dictionary -----------------------------
(***************************************************************************)
(* What Core/Map.h and Core/Set.h promise: each object is a partial        *)
(* function from keys to values, each call changes one entry of it, and a  *)
(* move leaves the source empty.                                           *)
(***************************************************************************)
CONSTANTS Objects, Keys, Vals

VARIABLE dict     \* the contents of each object

vars == <<dict>>

Dicts == UNION {[K -> Vals] : K \in SUBSET Keys}
Empty == [k \in {} |-> CHOOSE v \in Vals : TRUE]

Update(o, d) == dict' = [dict EXCEPT ![o] = d]

Put(o, k, v) ==
  Update(o, [j \in DOMAIN dict[o] \cup {k} |-> IF j = k THEN v ELSE dict[o][j]])
Insert(o, k, v) == k \notin DOMAIN dict[o] /\ Put(o, k, v)
Erase(o, k) ==
  /\ k \in DOMAIN dict[o]
  /\ Update(o, [j \in DOMAIN dict[o] \ {k} |-> dict[o][j]])
Clear(o) == Update(o, Empty)
Move(from, to) == dict' = [dict EXCEPT ![to] = dict[from], ![from] = Empty]

\* a set made of the keys of two others, in an object that was empty
Keyed(o, K) ==
  /\ dict[o] = Empty
  /\ \E v \in Vals : Update(o, [k \in K |-> v])
Combine(o, a, b) ==
  \E K \in {DOMAIN dict[a] \cup DOMAIN dict[b],
            DOMAIN dict[a] \cap DOMAIN dict[b],
            DOMAIN dict[a] \ DOMAIN dict[b]} : Keyed(o, K)

Init == dict \in [Objects -> Dicts]
Next ==
  \E o \in Objects :
     \/ \E k \in Keys : Erase(o, k) \/ \E v \in Vals : Put(o, k, v) \/ Insert(o, k, v)
     \/ Clear(o)
     \/ \E p \in Objects \ {o} : Move(o, p)
     \/ \E a, b \in Objects \ {o} : Combine(o, a, b)
Spec == Init /\ [][Next]_vars
=============================================================================
