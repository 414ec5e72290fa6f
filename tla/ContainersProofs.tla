-------------------------- MODULE ContainersProofs --------------------------
(***************************************************************************)
(* Proofs about the sequential components, for any objects, values and     *)
(* sizes.  A component keeps its initial state while another one runs, so  *)
(* its inductive invariant holds whichever it is.                          *)
(***************************************************************************)
EXTENDS Containers, FiniteSetTheorems, LinkedLists

-----------------------------------------------------------------------------
(* Delegate: places and the callables at them *)

PlaceOf(how, sg, d) == IF how = "inline" THEN d ELSE sg[d]

\* A valid delegate has a callable at a place of its own, and every callable is at
\* the place of a valid delegate.
Separate(how, st, sg, ob) ==
  /\ st \in [Delegates -> BOOLEAN] /\ sg \in [Delegates -> Blocks \cup {NULL}]
  /\ ob \in [D!Places -> States \cup {NULL}]
  /\ \A d \in Delegates : how = "inline" \/ st[d] = FALSE => sg[d] = NULL
  /\ \A d \in Delegates : st[d] = TRUE =>
       PlaceOf(how, sg, d) \in D!Places /\ ob[PlaceOf(how, sg, d)] \in States
  /\ \A d, e \in Delegates :
       st[d] = TRUE /\ st[e] = TRUE /\ PlaceOf(how, sg, d) = PlaceOf(how, sg, e) => d = e
  /\ \A x \in D!Places : ob[x] # NULL =>
       \E d \in Delegates : st[d] = TRUE /\ PlaceOf(how, sg, d) = x

Held(how, st, sg, ob) ==
  [d \in Delegates |-> IF st[d] THEN ob[PlaceOf(how, sg, d)] ELSE NULL]

DelegateInv == delegates \in {"inline", "heap"} /\ Separate(delegates, set, storage, object)

LEMMA HeldIs ==
  /\ D!Values = Held(delegates, set, storage, object)
  /\ D!Values' = Held(delegates', set', storage', object')
BY DEF D!Values, Held, D!Place, PlaceOf

\* The callable of d goes.
LEMMA WithoutOne ==
  ASSUME NEW how \in {"inline", "heap"}, NEW st, NEW sg, NEW ob, Separate(how, st, sg, ob),
         NEW d \in Delegates, NEW new,
         new = IF st[d] /\ PlaceOf(how, sg, d) # NULL THEN [ob EXCEPT ![PlaceOf(how, sg, d)] = NULL] ELSE ob
  PROVE  /\ Separate(how, [st EXCEPT ![d] = FALSE], [sg EXCEPT ![d] = NULL], new)
         /\ Held(how, [st EXCEPT ![d] = FALSE], [sg EXCEPT ![d] = NULL], new)
              = [Held(how, st, sg, ob) EXCEPT ![d] = NULL]
<1> DEFINE p(e) == PlaceOf(how, sg, e)
           st2 == [st EXCEPT ![d] = FALSE]
           sg2 == [sg EXCEPT ![d] = NULL]
           q(e) == PlaceOf(how, sg2, e)
<1>0. /\ st2 \in [Delegates -> BOOLEAN] /\ sg2 \in [Delegates -> Blocks \cup {NULL}]
      /\ st2[d] = FALSE /\ sg2[d] = NULL
      /\ \A e \in Delegates : e # d => st2[e] = st[e] /\ sg2[e] = sg[e]
  BY DEF Separate
<1>1. \A e \in Delegates : e # d => q(e) = p(e)
  BY <1>0 DEF PlaceOf
<1>2. CASE st[d] = TRUE
  <2>1. p(d) \in D!Places /\ p(d) # NULL
    BY <1>2, DelegateAssumption DEF Separate, D!Places
  <2>2. new = [ob EXCEPT ![p(d)] = NULL]
    BY <1>2, <2>1
  <2> HIDE DEF p, q
  <2>3. \A e \in Delegates : e # d /\ st[e] = TRUE => p(e) # p(d) /\ p(e) \in D!Places /\ ob[p(e)] \in States
    BY <1>2 DEF Separate, p
  <2>4. \A e \in Delegates : e # d /\ st[e] = TRUE => new[p(e)] = ob[p(e)]
    BY <2>1, <2>2, <2>3 DEF Separate
  <2>5. \A x \in D!Places : new[x] # NULL => \E e \in Delegates : e # d /\ st[e] = TRUE /\ p(e) = x
    BY <2>1, <2>2 DEF Separate, p
  <2>6. new \in [D!Places -> States \cup {NULL}]
    BY <2>1, <2>2 DEF Separate
  <2> HIDE DEF st2, sg2
  <2>7. \A e \in Delegates : st2[e] = TRUE => e # d /\ st[e] = TRUE /\ q(e) = p(e)
    BY <1>0, <1>1
  <2>8. /\ \A e \in Delegates : how = "inline" \/ st2[e] = FALSE => sg2[e] = NULL
        /\ \A e \in Delegates : st2[e] = TRUE => q(e) \in D!Places /\ new[q(e)] \in States
    BY <1>0, <2>3, <2>4, <2>7 DEF Separate
  <2>9. \A e, f \in Delegates : st2[e] = TRUE /\ st2[f] = TRUE /\ q(e) = q(f) => e = f
    BY <2>7 DEF Separate, p
  <2>10. \A x \in D!Places : new[x] # NULL => \E e \in Delegates : st2[e] = TRUE /\ q(e) = x
    <3> TAKE x \in D!Places
    <3> HAVE new[x] # NULL
    <3>1. PICK e \in Delegates : e # d /\ st[e] = TRUE /\ p(e) = x
      BY <2>5
    <3> QED BY <1>0, <1>1, <3>1
  <2>11. Separate(how, st2, sg2, new)
    BY <1>0, <2>6, <2>8, <2>9, <2>10 DEF Separate, q
  <2>12. ASSUME NEW e \in Delegates
         PROVE  (IF st2[e] THEN new[q(e)] ELSE NULL) = (IF e = d THEN NULL ELSE IF st[e] THEN ob[p(e)] ELSE NULL)
    BY <1>0, <1>1, <2>4, <2>7 DEF Separate
  <2>13. Held(how, st2, sg2, new) = [Held(how, st, sg, ob) EXCEPT ![d] = NULL]
    BY <2>12 DEF Held, p, q
  <2> QED BY <2>11, <2>13 DEF st2, sg2
<1>3. CASE st[d] = FALSE
  <2>1. new = ob /\ [st EXCEPT ![d] = FALSE] = st /\ [sg EXCEPT ![d] = NULL] = sg
    BY <1>3 DEF Separate
  <2> QED BY <1>3, <2>1 DEF Held, Separate
<1> QED BY <1>2, <1>3 DEF Separate

\* A new callable s of d is placed at x, where there is none.
Placed(how, st, sg, ob, d, s, x, st2, sg2, ob2) ==
  /\ Separate(how, st, sg, ob) /\ st[d] = FALSE
  /\ IF how = "inline" THEN x = d ELSE x \in Blocks /\ ob[x] = NULL
  /\ st2 = [st EXCEPT ![d] = TRUE]
  /\ sg2 = [sg EXCEPT ![d] = IF how = "inline" THEN sg[d] ELSE x]
  /\ ob2 = [ob EXCEPT ![x] = s]

ChangedAt(g, f, d, s) == g = [f EXCEPT ![d] = s]

LEMMA WithNew ==
  ASSUME NEW how \in {"inline", "heap"}, NEW st, NEW sg, NEW ob, NEW d \in Delegates, NEW s \in States,
         NEW x, NEW st2, NEW sg2, NEW ob2, Placed(how, st, sg, ob, d, s, x, st2, sg2, ob2)
  PROVE  /\ Separate(how, st2, sg2, ob2)
         /\ ChangedAt(Held(how, st2, sg2, ob2), Held(how, st, sg, ob), d, s)
<1> DEFINE p(e) == PlaceOf(how, sg, e)
           q(e) == PlaceOf(how, sg2, e)
<1>0. /\ Separate(how, st, sg, ob) /\ st[d] = FALSE
      /\ how = "inline" => x = d
      /\ how = "heap" => x \in Blocks /\ ob[x] = NULL
      /\ st2 = [st EXCEPT ![d] = TRUE]
      /\ sg2 = [sg EXCEPT ![d] = IF how = "inline" THEN sg[d] ELSE x]
      /\ ob2 = [ob EXCEPT ![x] = s]
  BY DEF Placed
<1>1. /\ st2 \in [Delegates -> BOOLEAN] /\ sg2 \in [Delegates -> Blocks \cup {NULL}]
      /\ st2[d] = TRUE /\ \A e \in Delegates : e # d => st2[e] = st[e] /\ sg2[e] = sg[e]
      /\ how = "inline" => sg2[d] = NULL
      /\ how = "heap" => sg2[d] = x
  BY <1>0 DEF Separate
<1>2. x \in D!Places /\ q(d) = x /\ \A e \in Delegates : e # d => q(e) = p(e)
  BY <1>0, <1>1 DEF PlaceOf, D!Places
<1>3. s # NULL
  BY DelegateAssumption
<1>4. ob2 \in [D!Places -> States \cup {NULL}] /\ ob2[x] = s /\ \A y \in D!Places : y # x => ob2[y] = ob[y]
  BY <1>0, <1>2 DEF Separate
<1>5. \A e \in Delegates : st[e] = TRUE => e # d /\ p(e) # x /\ p(e) \in D!Places /\ ob[p(e)] \in States
  <2> TAKE e \in Delegates
  <2> HAVE st[e] = TRUE
  <2>1. e # d /\ p(e) \in D!Places /\ ob[p(e)] \in States
    BY <1>0 DEF Separate, p
  <2>2. CASE how = "inline"
    BY <1>0, <2>1, <2>2 DEF PlaceOf
  <2>3. CASE how = "heap"
    BY <1>0, <2>1, <2>3, DelegateAssumption
  <2> QED BY <2>1, <2>2, <2>3
<1> HIDE DEF p, q
<1>6. \A e \in Delegates : st2[e] = TRUE /\ e # d => st[e] = TRUE /\ q(e) = p(e)
  BY <1>1, <1>2
<1>7. /\ \A e \in Delegates : how = "inline" \/ st2[e] = FALSE => sg2[e] = NULL
      /\ \A e \in Delegates : st2[e] = TRUE => q(e) \in D!Places /\ ob2[q(e)] \in States
  <2>1. \A e \in Delegates : how = "inline" \/ st[e] = FALSE => sg[e] = NULL
    BY <1>0 DEF Separate
  <2>2. \A e \in Delegates : how = "inline" \/ st2[e] = FALSE => sg2[e] = NULL
    BY <1>1, <2>1
  <2>3. \A e \in Delegates : st2[e] = TRUE => q(e) \in D!Places /\ ob2[q(e)] \in States
    BY <1>2, <1>4, <1>5, <1>6
  <2> QED BY <2>2, <2>3
<1>8. \A e, f \in Delegates : st2[e] = TRUE /\ st2[f] = TRUE /\ q(e) = q(f) => e = f
  <2>1. \A e, f \in Delegates : st[e] = TRUE /\ st[f] = TRUE /\ p(e) = p(f) => e = f
    BY <1>0 DEF Separate, p
  <2> QED BY <1>2, <1>5, <1>6, <2>1
<1>9. \A y \in D!Places : ob2[y] # NULL => \E e \in Delegates : st2[e] = TRUE /\ q(e) = y
  <2> TAKE y \in D!Places
  <2> HAVE ob2[y] # NULL
  <2>1. CASE y = x
    BY <1>1, <1>2, <2>1
  <2>2. CASE y # x
    <3>1. PICK e \in Delegates : st[e] = TRUE /\ p(e) = y
      BY <1>0, <1>4, <2>2 DEF Separate, p
    <3>2. e # d
      BY <1>5, <3>1
    <3> QED BY <1>1, <1>2, <3>1, <3>2
  <2> QED BY <2>1, <2>2
<1>10. Separate(how, st2, sg2, ob2)
  BY <1>1, <1>4, <1>7, <1>8, <1>9 DEF Separate, q
<1>11. ASSUME NEW e \in Delegates
       PROVE  (IF st2[e] THEN ob2[q(e)] ELSE NULL) = (IF e = d THEN s ELSE IF st[e] THEN ob[p(e)] ELSE NULL)
  <2>1. st[e] \in BOOLEAN
    BY <1>0 DEF Separate
  <2> QED BY <1>1, <1>2, <1>4, <1>5, <1>6, <2>1
<1>12. Held(how, st2, sg2, ob2) = [Held(how, st, sg, ob) EXCEPT ![d] = s]
  BY <1>11 DEF Held, p, q
<1> QED BY <1>10, <1>12 DEF ChangedAt

\* The callable of e becomes that of d, which has none: it moves from the place of
\* the one to that of the other, or its place changes hands.
Moved(how, st, sg, ob, d, e, st2, sg2, ob2) ==
  /\ Separate(how, st, sg, ob) /\ st[d] = FALSE
  /\ st2 = [st EXCEPT ![d] = st[e], ![e] = FALSE]
  /\ sg2 = IF how = "inline" THEN sg ELSE [sg EXCEPT ![d] = sg[e], ![e] = NULL]
  /\ ob2 = IF how = "inline" THEN [ob EXCEPT ![d] = ob[e], ![e] = NULL] ELSE ob

TakenAt(g, f, d, e) == g = [f EXCEPT ![d] = f[e], ![e] = NULL]

LEMMA HandedOver ==
  ASSUME NEW how \in {"inline", "heap"}, NEW st, NEW sg, NEW ob, NEW d \in Delegates, NEW e \in Delegates,
         d # e, NEW st2, NEW sg2, NEW ob2, Moved(how, st, sg, ob, d, e, st2, sg2, ob2)
  PROVE  /\ Separate(how, st2, sg2, ob2)
         /\ TakenAt(Held(how, st2, sg2, ob2), Held(how, st, sg, ob), d, e)
<1> DEFINE p(c) == PlaceOf(how, sg, c)
           q(c) == PlaceOf(how, sg2, c)
<1>0. /\ Separate(how, st, sg, ob) /\ st[d] = FALSE
      /\ st2 = [st EXCEPT ![d] = st[e], ![e] = FALSE]
      /\ sg2 = IF how = "inline" THEN sg ELSE [sg EXCEPT ![d] = sg[e], ![e] = NULL]
      /\ ob2 = IF how = "inline" THEN [ob EXCEPT ![d] = ob[e], ![e] = NULL] ELSE ob
  BY DEF Moved
<1>1. /\ st2 \in [Delegates -> BOOLEAN] /\ sg2 \in [Delegates -> Blocks \cup {NULL}]
      /\ st2[d] = st[e] /\ st2[e] = FALSE /\ \A c \in Delegates : c \notin {d, e} => st2[c] = st[c] /\ sg2[c] = sg[c]
      /\ sg[d] = NULL /\ sg2[e] = NULL /\ sg2[d] = sg[e]
  BY <1>0 DEF Separate
<1>2. CASE how = "inline"
  <2>1. \A c \in Delegates : p(c) = c /\ q(c) = c /\ c \in D!Places
    BY <1>2 DEF PlaceOf, D!Places
  <2>2. \A c \in Delegates : sg[c] = NULL /\ sg2[c] = NULL
    BY <1>0, <1>2 DEF Separate
  <2>3. /\ ob2 \in [D!Places -> States \cup {NULL}] /\ ob2[d] = ob[e] /\ ob2[e] = NULL
        /\ \A x \in D!Places : x \notin {d, e} => ob2[x] = ob[x]
    BY <1>0, <1>2, <2>1 DEF Separate
  <2>4. /\ \A c \in Delegates : st[c] = TRUE => ob[c] \in States
        /\ \A x \in D!Places : ob[x] # NULL => x \in Delegates /\ st[x] = TRUE
    BY <1>0, <2>1 DEF Separate, p
  <2> HIDE DEF p, q
  <2>5. \A c \in Delegates : st2[c] = TRUE => q(c) \in D!Places /\ ob2[q(c)] \in States
    BY <1>1, <2>1, <2>3, <2>4
  <2>6. \A x \in D!Places : ob2[x] # NULL => \E c \in Delegates : st2[c] = TRUE /\ q(c) = x
    BY <1>1, <2>1, <2>3, <2>4
  <2>7. Separate(how, st2, sg2, ob2)
    <3>1. \A c, f \in Delegates : q(c) = q(f) => c = f
      BY <2>1
    <3> QED BY <1>1, <2>2, <2>3, <2>5, <2>6, <3>1 DEF Separate, q
  <2>8. ASSUME NEW c \in Delegates
        PROVE  (IF st2[c] THEN ob2[q(c)] ELSE NULL)
                 = (IF c = e THEN NULL ELSE IF c = d THEN (IF st[e] THEN ob[p(e)] ELSE NULL)
                    ELSE IF st[c] THEN ob[p(c)] ELSE NULL)
    BY <1>1, <2>1, <2>3
  <2>9. Held(how, st2, sg2, ob2)
          = [Held(how, st, sg, ob) EXCEPT ![d] = Held(how, st, sg, ob)[e], ![e] = NULL]
    BY <2>8 DEF Held, p, q
  <2> QED BY <2>7, <2>9 DEF TakenAt
<1>3. CASE how = "heap"
  <2>1. ob2 = ob /\ ob \in [D!Places -> States \cup {NULL}]
    BY <1>0, <1>3 DEF Separate
  <2>2. \A c \in Delegates : p(c) = sg[c] /\ q(c) = sg2[c]
    BY <1>3 DEF PlaceOf
  <2>3. /\ \A c \in Delegates : st[c] = FALSE => sg[c] = NULL
        /\ \A c \in Delegates : st[c] = TRUE => sg[c] \in D!Places /\ ob[sg[c]] \in States
        /\ \A c, f \in Delegates : st[c] = TRUE /\ st[f] = TRUE /\ sg[c] = sg[f] => c = f
        /\ \A x \in D!Places : ob[x] # NULL => \E c \in Delegates : st[c] = TRUE /\ sg[c] = x
    BY <1>0, <1>3, <2>2 DEF Separate, p
  <2> HIDE DEF p, q
  <2>4. \A c \in Delegates : st2[c] = FALSE => sg2[c] = NULL
    BY <1>1, <2>3
  <2>5. \A c \in Delegates : st2[c] = TRUE =>
          \E f \in Delegates : st[f] = TRUE /\ sg2[c] = sg[f] /\ f = (IF c = d THEN e ELSE c)
    BY <1>1
  <2>6. \A c \in Delegates : st2[c] = TRUE => sg2[c] \in D!Places /\ ob[sg2[c]] \in States
    BY <2>3, <2>5
  <2>7. \A c, f \in Delegates : st2[c] = TRUE /\ st2[f] = TRUE /\ sg2[c] = sg2[f] => c = f
    <3> TAKE c, f \in Delegates
    <3> HAVE st2[c] = TRUE /\ st2[f] = TRUE /\ sg2[c] = sg2[f]
    <3>1. (IF c = d THEN e ELSE c) = (IF f = d THEN e ELSE f)
      <4>1. PICK g \in Delegates : st[g] = TRUE /\ sg2[c] = sg[g] /\ g = (IF c = d THEN e ELSE c)
        BY <2>5
      <4>2. PICK h \in Delegates : st[h] = TRUE /\ sg2[f] = sg[h] /\ h = (IF f = d THEN e ELSE f)
        BY <2>5
      <4> QED BY <2>3, <4>1, <4>2
    <3> QED BY <1>1, <3>1
  <2>8. \A x \in D!Places : ob[x] # NULL => \E c \in Delegates : st2[c] = TRUE /\ sg2[c] = x
    <3> TAKE x \in D!Places
    <3> HAVE ob[x] # NULL
    <3>1. PICK c \in Delegates : st[c] = TRUE /\ sg[c] = x
      BY <2>3
    <3>2. CASE c = e
      BY <1>1, <3>1, <3>2
    <3>3. CASE c # e
      BY <1>0, <1>1, <3>1, <3>3
    <3> QED BY <3>2, <3>3
  <2>9. Separate(how, st2, sg2, ob2)
    BY <1>1, <1>3, <2>1, <2>4, <2>6, <2>7, <2>8 DEF Separate, PlaceOf
  <2>10. ASSUME NEW c \in Delegates
         PROVE  (IF st2[c] THEN ob2[q(c)] ELSE NULL)
                  = (IF c = e THEN NULL ELSE IF c = d THEN (IF st[e] THEN ob[p(e)] ELSE NULL)
                     ELSE IF st[c] THEN ob[p(c)] ELSE NULL)
    BY <1>1, <2>1, <2>2
  <2>11. Held(how, st2, sg2, ob2)
           = [Held(how, st, sg, ob) EXCEPT ![d] = Held(how, st, sg, ob)[e], ![e] = NULL]
    BY <2>10 DEF Held, p, q
  <2> QED BY <2>9, <2>11 DEF TakenAt
<1> QED BY <1>2, <1>3

\* What destroy leaves of the places.
LEMMA DestroyedIs ==
  ASSUME DelegateInv, NEW d \in Delegates
  PROVE  /\ Separate(delegates, [set EXCEPT ![d] = FALSE], [storage EXCEPT ![d] = NULL], D!Destroyed(d))
         /\ Held(delegates, [set EXCEPT ![d] = FALSE], [storage EXCEPT ![d] = NULL], D!Destroyed(d))
              = [D!Values EXCEPT ![d] = NULL]
         /\ set[d] = FALSE => D!Destroyed(d) = object
<1>1. D!Destroyed(d) = IF set[d] /\ PlaceOf(delegates, storage, d) # NULL
                       THEN [object EXCEPT ![PlaceOf(delegates, storage, d)] = NULL] ELSE object
  BY DEF D!Destroyed, D!Place, PlaceOf
<1>2. D!Values = Held(delegates, set, storage, object)
  BY HeldIs
<1> QED BY <1>1, <1>2, WithoutOne DEF DelegateInv

LEMMA ConstructKeeps ==
  ASSUME DelegateInv, NEW d \in Delegates, NEW s \in States, D!Construct(d, s)
  PROVE  DelegateInv' /\ D!Cells!Next
<1>1. set[d] = FALSE /\ set \in [Delegates -> BOOLEAN] /\ storage \in [Delegates -> Blocks \cup {NULL}]
  BY DEF D!Construct, DelegateInv, Separate
<1>2. PICK x \in D!NewPlaces(d) :
        object' = [object EXCEPT ![x] = s] /\ storage' = [storage EXCEPT ![d] = D!Stored(d, x)]
  BY DEF D!Construct
<1>3. /\ delegates = "inline" => x = d
      /\ delegates = "heap" => x \in Blocks /\ object[x] = NULL
  BY <1>1, <1>2, DestroyedIs DEF D!NewPlaces
<1>4. storage' = [storage EXCEPT ![d] = IF delegates = "inline" THEN storage[d] ELSE x]
  BY <1>2 DEF D!Stored
<1>5. delegates' = delegates /\ set' = [set EXCEPT ![d] = TRUE]
  BY DEF D!Construct
<1>6. /\ Separate(delegates, set', storage', object')
      /\ Held(delegates, set', storage', object') = [Held(delegates, set, storage, object) EXCEPT ![d] = s]
  <2>1. delegates \in {"inline", "heap"} /\ Separate(delegates, set, storage, object)
    BY DEF DelegateInv
  <2>2. Placed(delegates, set, storage, object, d, s, x, set', storage', object')
    BY <1>1, <1>2, <1>3, <1>4, <1>5, <2>1 DEF Placed
  <2>3. /\ Separate(delegates, set', storage', object')
        /\ ChangedAt(Held(delegates, set', storage', object'), Held(delegates, set, storage, object), d, s)
    BY <2>1, <2>2, WithNew
  <2> QED BY <2>3 DEF ChangedAt
<1>7. DelegateInv' /\ D!Values' = [D!Values EXCEPT ![d] = s]
  BY <1>5, <1>6, HeldIs DEF DelegateInv
<1>8. D!Values[d] = NULL
  BY <1>1 DEF D!Values
<1> QED BY <1>7, <1>8 DEF D!Cells!Next, D!Cells!Put

LEMMA CopyKeeps ==
  ASSUME DelegateInv, NEW d \in Delegates, NEW e \in Delegates, D!Copy(d, e)
  PROVE  DelegateInv' /\ D!Cells!Next
<1> DEFINE st == [set EXCEPT ![d] = FALSE]
           sg == [storage EXCEPT ![d] = NULL]
<1>1. /\ Separate(delegates, st, sg, D!Destroyed(d))
      /\ Held(delegates, st, sg, D!Destroyed(d)) = [D!Values EXCEPT ![d] = NULL]
  BY DestroyedIs
<1>2. /\ set \in [Delegates -> BOOLEAN] /\ storage \in [Delegates -> Blocks \cup {NULL}]
      /\ d # e /\ delegates' = delegates
      /\ D!Values \in [Delegates -> States \cup {NULL}]
      /\ set[e] = TRUE => D!Values[e] = object[D!Place(e)] /\ D!Values[e] \in States
      /\ set[e] = FALSE => D!Values[e] = NULL
  BY DEF D!Copy, DelegateInv, Separate, D!Values, D!Place, PlaceOf
<1>3. DelegateInv' /\ D!Values' = [D!Values EXCEPT ![d] = D!Values[e]]
  <2>1. CASE set[e] = FALSE
    <3>1. set' = st /\ storage' = sg /\ object' = D!Destroyed(d)
      BY <2>1 DEF D!Copy, D!Emptied
    <3> QED BY <1>1, <1>2, <2>1, <3>1, HeldIs DEF DelegateInv
  <2>2. CASE set[e] = TRUE
    <3>1. PICK x \in D!NewPlaces(d) :
            /\ object' = [D!Destroyed(d) EXCEPT ![x] = object[D!Place(e)]]
            /\ storage' = [storage EXCEPT ![d] = D!Stored(d, x)] /\ set' = [set EXCEPT ![d] = TRUE]
      BY <2>2 DEF D!Copy
    <3>2. /\ delegates = "inline" => x = d
          /\ delegates = "heap" => x \in Blocks /\ D!Destroyed(d)[x] = NULL
      BY <3>1 DEF D!NewPlaces
    <3>3. delegates = "inline" => storage[d] = NULL
      BY DEF DelegateInv, Separate
    <3>4. storage' = [sg EXCEPT ![d] = IF delegates = "inline" THEN sg[d] ELSE x]
      BY <1>2, <3>1, <3>3 DEF D!Stored
    <3>5. set' = [st EXCEPT ![d] = TRUE] /\ st[d] = FALSE
      BY <1>2, <3>1
    <3>6. object' = [D!Destroyed(d) EXCEPT ![x] = D!Values[e]] /\ D!Values[e] \in States
      BY <1>2, <2>2, <3>1
    <3> HIDE DEF st, sg
    <3>7. /\ Separate(delegates, set', storage', object')
          /\ Held(delegates, set', storage', object')
               = [Held(delegates, st, sg, D!Destroyed(d)) EXCEPT ![d] = D!Values[e]]
      <4>1. delegates \in {"inline", "heap"}
        BY DEF DelegateInv
      <4>2. Placed(delegates, st, sg, D!Destroyed(d), d, D!Values[e], x, set', storage', object')
        BY <1>1, <3>2, <3>4, <3>5, <3>6, <4>1 DEF Placed
      <4> QED BY <3>6, <4>1, <4>2, WithNew DEF ChangedAt
    <3>8. D!Values' = [D!Values EXCEPT ![d] = D!Values[e]]
      BY <1>1, <1>2, <3>7, HeldIs
    <3> QED BY <1>2, <3>7, <3>8 DEF DelegateInv
  <2> QED BY <1>2, <2>1, <2>2
<1> QED BY <1>3 DEF D!Cells!Next, D!Cells!Put

LEMMA MoveKeeps ==
  ASSUME DelegateInv, NEW d \in Delegates, NEW e \in Delegates, D!Move(d, e)
  PROVE  DelegateInv' /\ D!Cells!Next
<1> DEFINE st == [set EXCEPT ![d] = FALSE]
           sg == [storage EXCEPT ![d] = NULL]
           ob == D!Destroyed(d)
<1>1. /\ Separate(delegates, st, sg, ob) /\ Held(delegates, st, sg, ob) = [D!Values EXCEPT ![d] = NULL]
  BY DestroyedIs
<1>2. /\ set \in [Delegates -> BOOLEAN] /\ storage \in [Delegates -> Blocks \cup {NULL}]
      /\ ob \in [D!Places -> States \cup {NULL}]
      /\ d # e /\ delegates' = delegates /\ set' = [set EXCEPT ![d] = set[e], ![e] = FALSE]
      /\ \A c \in Delegates : delegates = "inline" => storage[c] = NULL
      /\ D!Values \in [Delegates -> States \cup {NULL}]
  BY <1>1 DEF D!Move, DelegateInv, Separate, D!Values, D!Place, PlaceOf
<1>3. set' = [st EXCEPT ![d] = st[e], ![e] = FALSE] /\ st[d] = FALSE
  BY <1>2
<1>4. storage' = IF delegates = "inline" THEN sg ELSE [sg EXCEPT ![d] = sg[e], ![e] = NULL]
  <2>1. CASE delegates = "inline"
    <3>1. storage' = storage
      BY <2>1 DEF D!Move, D!MoveFrom
    <3>2. sg = storage
      BY <1>2, <2>1
    <3> QED BY <2>1, <3>1, <3>2
  <2>2. CASE delegates # "inline"
    BY <1>2, <2>2 DEF D!Move, D!MoveFrom
  <2> QED BY <2>1, <2>2
<1>5. object' = IF delegates = "inline" THEN [ob EXCEPT ![d] = ob[e], ![e] = NULL] ELSE ob
  <2>1. CASE delegates = "inline"
    <3>1. object' = [ob EXCEPT ![d] = object[e], ![e] = NULL]
      BY <2>1 DEF D!Move, D!MoveFrom
    <3>2. ob[e] = object[e]
      BY <1>2, <2>1 DEF D!Destroyed, D!Place, DelegateInv, Separate, D!Places
    <3> QED BY <2>1, <3>1, <3>2
  <2>2. CASE delegates # "inline"
    BY <2>2 DEF D!Move, D!MoveFrom
  <2> QED BY <2>1, <2>2
<1> HIDE DEF st, sg, ob
<1>6. /\ Separate(delegates, set', storage', object')
      /\ Held(delegates, set', storage', object')
           = [Held(delegates, st, sg, ob) EXCEPT ![d] = Held(delegates, st, sg, ob)[e], ![e] = NULL]
  <2>1. delegates \in {"inline", "heap"}
    BY DEF DelegateInv
  <2>2. Moved(delegates, st, sg, ob, d, e, set', storage', object')
    BY <1>1, <1>3, <1>4, <1>5 DEF Moved
  <2> QED BY <1>2, <2>1, <2>2, HandedOver DEF TakenAt
<1>7. D!Values' = [D!Values EXCEPT ![d] = D!Values[e], ![e] = NULL]
  BY <1>1, <1>2, <1>6, HeldIs
<1> QED BY <1>2, <1>6, <1>7 DEF DelegateInv, D!Cells!Next, D!Cells!Take

LEMMA DestroyKeeps ==
  ASSUME DelegateInv, NEW d \in Delegates, D!Destroy(d)
  PROVE  DelegateInv' /\ D!Cells!Next
<1>1. /\ set' = [set EXCEPT ![d] = FALSE] /\ storage' = [storage EXCEPT ![d] = NULL]
      /\ object' = D!Destroyed(d) /\ delegates' = delegates
  BY DEF D!Destroy, D!Emptied
<1>2. DelegateInv' /\ D!Values' = [D!Values EXCEPT ![d] = NULL]
  BY <1>1, DestroyedIs, HeldIs DEF DelegateInv
<1> QED BY <1>2 DEF D!Cells!Next, D!Cells!Put

LEMMA CallKeeps ==
  ASSUME DelegateInv, NEW d \in Delegates, D!Call(d)
  PROVE  DelegateInv' /\ D!Cells!Next
<1> DEFINE p(e) == PlaceOf(delegates, storage, e)
<1>1. /\ set[d] = TRUE /\ UNCHANGED <<delegates, set, storage>>
      /\ object' = [object EXCEPT ![p(d)] = Called(object[p(d)])]
  BY DEF D!Call, DelegateInv, Separate, D!Place, PlaceOf
<1>2. /\ object \in [D!Places -> States \cup {NULL}]
      /\ \A e \in Delegates : set[e] = TRUE => p(e) \in D!Places /\ object[p(e)] \in States
      /\ \A e, f \in Delegates : set[e] = TRUE /\ set[f] = TRUE /\ p(e) = p(f) => e = f
      /\ set \in [Delegates -> BOOLEAN]
  BY DEF DelegateInv, Separate
<1> HIDE DEF p
<1>3. PICK s \in States : s = Called(object[p(d)]) /\ s # NULL
  BY <1>1, <1>2, DelegateAssumption
<1>4. /\ object' \in [D!Places -> States \cup {NULL}] /\ object'[p(d)] = s
      /\ \A x \in D!Places : x # p(d) => object'[x] = object[x]
  BY <1>1, <1>2, <1>3
<1>5. \A e \in Delegates : set[e] = TRUE => object'[p(e)] \in States /\ (e # d => object'[p(e)] = object[p(e)])
  BY <1>1, <1>2, <1>4
<1>6. \A x \in D!Places : object'[x] # NULL => object[x] # NULL
  BY <1>1, <1>2, <1>4, DelegateAssumption
<1>7. Separate(delegates, set, storage, object')
  BY <1>2, <1>4, <1>5, <1>6 DEF DelegateInv, Separate, p
<1>8. D!Values' = [D!Values EXCEPT ![d] = Called(D!Values[d])]
  <2>1. D!Values[d] = object[p(d)]
    BY <1>1 DEF D!Values, D!Place, PlaceOf, p
  <2>2. ASSUME NEW e \in Delegates
        PROVE  (IF set[e] THEN object'[p(e)] ELSE NULL) = (IF e = d THEN s ELSE IF set[e] THEN object[p(e)] ELSE NULL)
    BY <1>1, <1>2, <1>4, <1>5
  <2>3. Held(delegates, set, storage, object') = [Held(delegates, set, storage, object) EXCEPT ![d] = s]
    BY <2>2 DEF Held, p
  <2> QED BY <1>1, <1>3, <2>1, <2>3, HeldIs
<1>9. D!Values[d] # NULL
  BY <1>1, <1>2, DelegateAssumption DEF D!Values, D!Place, PlaceOf, p
<1> QED BY <1>1, <1>7, <1>8, <1>9 DEF DelegateInv, D!Cells!Next, D!Cells!Put, D!Cells!Call

LEMMA DelegateStep ==
  ASSUME DelegateInv, D!Next
  PROVE  DelegateInv' /\ D!Cells!Next
BY ConstructKeeps, CopyKeeps, MoveKeeps, DestroyKeeps, CallKeeps DEF D!Next

LEMMA DelegateStay ==
  ASSUME DelegateInv, UNCHANGED delegateVars
  PROVE  DelegateInv' /\ UNCHANGED D!Values
BY HeldIs DEF DelegateInv, Separate, delegateVars

LEMMA DelegateInit == D!Init => DelegateInv /\ D!Cells!Init
<1> SUFFICES ASSUME D!Init PROVE DelegateInv /\ D!Cells!Init
  OBVIOUS
<1>1. DelegateInv
  BY DEF D!Init, DelegateInv, Separate
<1>2. D!Cells!Init
  BY DEF D!Init, D!Cells!Init, D!Values
<1> QED BY <1>1, <1>2

LEMMA DelegateSafe ==
  ASSUME DelegateInv
  PROVE  D!TypeOK /\ D!OneOwnerEach
<1>1. D!TypeOK
  BY DEF DelegateInv, Separate, D!TypeOK
<1> DEFINE valid == {d \in Delegates : set[d]}
<1>2. \A d : D!Place(d) = PlaceOf(delegates, storage, d)
  BY DEF D!Place, PlaceOf
<1>3. \A d \in valid : D!Place(d) \in D!Places /\ object[D!Place(d)] # NULL
  BY <1>2, DelegateAssumption DEF DelegateInv, Separate
<1>4. \A x \in D!Places : object[x] # NULL => \E d \in valid : x = D!Place(d)
  BY <1>2 DEF DelegateInv, Separate
<1>5. {x \in D!Places : object[x] # NULL} = {D!Place(d) : d \in valid}
  BY <1>3, <1>4
<1>6. \A d, e \in valid : D!Place(d) = D!Place(e) => d = e
  BY <1>2 DEF DelegateInv, Separate
<1>7. D!IsInjective([d \in valid |-> D!Place(d)])
  BY <1>6 DEF D!IsInjective
<1>8. \A d \in Delegates \ valid : storage[d] = NULL
  BY DEF DelegateInv, Separate
<1> QED BY <1>1, <1>5, <1>7, <1>8 DEF D!OneOwnerEach

-----------------------------------------------------------------------------
(* MemoryStream: what is in the block *)

IsText(t) == Len(t) \in Nat /\ t = [i \in 1 .. Len(t) |-> t[i]]

\* The block is as large as the contents and as m_allocated say.
Fits(m) ==
  /\ m = [block |-> m.block, allocated |-> m.allocated, length |-> m.length, pos |-> m.pos]
  /\ m.block = [i \in 0 .. S!Size(m) - 1 |-> m.block[i]] /\ S!Size(m) \in Nat
  /\ m.length \in 0 .. S!Size(m) /\ m.allocated \in 0 .. S!Size(m) /\ m.pos \in Nat

LEMMA SizeIs ==
  ASSUME NEW m, NEW z \in Nat, DOMAIN m.block = 0 .. z - 1
  PROVE  S!Size(m) = z
<1>1. Cardinality(0 .. z - 1) = z
  BY FS_Interval
<1> QED BY <1>1 DEF S!Size, S!Cardinality, Cardinality

LEMMA ContentsAre ==
  ASSUME NEW m, Fits(m)
  PROVE  /\ IsText(S!Contents(m)) /\ Len(S!Contents(m)) = m.length
         /\ \A i \in 1 .. m.length : S!Contents(m)[i] = m.block[i - 1]
<1>1. m.length \in Nat
  BY DEF Fits
<1>2. DOMAIN S!Contents(m) = 1 .. m.length /\ Len(S!Contents(m)) = m.length
  BY <1>1 DEF S!Contents
<1> QED BY <1>1, <1>2 DEF S!Contents, IsText

LEMMA OpenedIs ==
  ASSUME NEW b, IsText(b), NEW z \in Nat, Len(b) <= z
  PROVE  LET m == S!Opened(b, z)
         IN  Fits(m) /\ m.length = Len(b) /\ m.pos = 0 /\ m.allocated = z /\ S!Contents(m) = b
<1> DEFINE m == S!Opened(b, z)
<1>1. /\ m = [block |-> m.block, allocated |-> z, length |-> Len(b), pos |-> 0]
      /\ m.block = [i \in 0 .. z - 1 |-> IF i < Len(b) THEN b[i + 1] ELSE JUNK]
  BY DEF S!Opened, S!Block
<1> HIDE DEF m
<1>2. S!Size(m) = z
  BY <1>1, SizeIs
<1>3. m.allocated = z /\ m.length = Len(b) /\ m.pos = 0
  BY <1>1
<1>4. Fits(m)
  BY <1>1, <1>2, <1>3 DEF Fits, IsText
<1>5. S!Contents(m) = [i \in 1 .. Len(b) |-> b[i]]
  <2>1. \A i \in 1 .. Len(b) : m.block[i - 1] = b[i]
    BY <1>1 DEF IsText
  <2> QED BY <1>3, <2>1 DEF S!Contents, IsText
<1> QED BY <1>3, <1>4, <1>5 DEF m, IsText

LEMMA ClosedFits == Fits(S!Closed) /\ S!Contents(S!Closed) = <<>> /\ S!Closed.length = 0 /\ S!Closed.pos = 0
<1>1. DOMAIN S!Closed.block = 0 .. 0 - 1
  BY DEF S!Closed, S!NoBlock
<1>2. S!Size(S!Closed) = 0
  BY <1>1, SizeIs
<1> QED BY <1>1, <1>2 DEF S!Closed, S!NoBlock, Fits, S!Contents

\* Doubling a size that is not 0 ends, with a block that is large enough.
Doubling(a, n) ==
  LET size[k \in 0 .. n] ==
        IF k = 0 THEN a
        ELSE IF size[k - 1] >= n THEN size[k - 1] ELSE 2 * size[k - 1]
  IN  size[n]

LEMMA DoublingIs ==
  ASSUME NEW a \in Nat \ {0}, NEW n \in Nat
  PROVE  Doubling(a, n) \in Nat /\ Doubling(a, n) >= n /\ Doubling(a, n) >= a
<1> DEFINE Twice(z) == IF z >= n THEN z ELSE 2 * z
           R(f, k) == [j \in 0 .. k |-> IF j = 0 THEN a ELSE Twice(f[j - 1])]
           Some == {k \in 1 .. n : \E f : f = R(f, k)}
<1>0. \E f : f = R(f, 0)
  <2> DEFINE f == [j \in 0 .. 0 |-> a]
  <2>1. f = R(f, 0)
    OBVIOUS
  <2> QED BY <2>1
<1>1. ASSUME NEW k \in 0 .. n - 1, NEW f, f = R(f, k) PROVE \E g : g = R(g, k + 1)
  <2> DEFINE g == [j \in 0 .. k + 1 |-> IF j = k + 1 THEN Twice(f[k]) ELSE f[j]]
  <2>1. ASSUME NEW j \in 0 .. k + 1
        PROVE  g[j] = IF j = 0 THEN a ELSE Twice(g[j - 1])
    <3>1. CASE j = k + 1
      BY <3>1
    <3>2. CASE j # k + 1
      <4>1. j \in 0 .. k /\ g[j] = f[j] /\ (j # 0 => g[j - 1] = f[j - 1])
        BY <3>2
      <4>2. f[j] = IF j = 0 THEN a ELSE Twice(f[j - 1])
        BY <1>1, <4>1
      <4> QED BY <4>1, <4>2
    <3> QED BY <3>1, <3>2
  <2>2. g = R(g, k + 1)
    BY <2>1
  <2> QED BY <2>2
<1>2. \E f : f = R(f, n)
  <2>1. n # 0 => 1 \in Some
    <3> SUFFICES ASSUME n # 0 PROVE 1 \in Some
      OBVIOUS
    <3>1. \E g : g = R(g, 0 + 1)
      <4>1. 0 \in 0 .. n - 1
        OBVIOUS
      <4>2. PICK f : f = R(f, 0)
        BY <1>0
      <4> HIDE DEF R
      <4> QED BY <1>1, <4>1, <4>2
    <3> QED BY <3>1
  <2>2. \A k \in 1 .. n - 1 : k \in Some => k + 1 \in Some
    <3> TAKE k \in 1 .. n - 1
    <3> HAVE k \in Some
    <3>1. k \in 0 .. n - 1 /\ k + 1 \in 1 .. n
      OBVIOUS
    <3> HIDE DEF R
    <3>2. PICK f : f = R(f, k)
      OBVIOUS
    <3>3. \E g : g = R(g, k + 1)
      BY <1>1, <3>1, <3>2
    <3> QED BY <3>1, <3>3
  <2>3. 1 .. n \subseteq Some
    <3> HIDE DEF Some
    <3> QED BY <2>1, <2>2, UpTo
  <2> HIDE DEF R
  <2>4. CASE n = 0
    BY <1>0, <2>4
  <2>5. CASE n # 0
    BY <2>3, <2>5
  <2> QED BY <2>4, <2>5
<1> DEFINE size == CHOOSE f : f = R(f, n)
<1>3. size = R(size, n)
  BY <1>2
<1>4. Doubling(a, n) = size[n]
  BY DEF Doubling
<1> HIDE DEF size
<1>5. \A j \in 0 .. n : size[j] = IF j = 0 THEN a ELSE Twice(size[j - 1])
  BY <1>3
<1> DEFINE Good == {k \in 1 .. n : size[k] \in Nat /\ size[k] >= a /\ (size[k] >= n \/ size[k] > k)}
<1>6. size[0] = a
  BY <1>5
<1>7. n # 0 => 1 \in Good
  BY <1>5, <1>6
<1>8. \A k \in 1 .. n - 1 : k \in Good => k + 1 \in Good
  <2> TAKE k \in 1 .. n - 1
  <2> HAVE k \in Good
  <2>1. size[k + 1] = IF size[k] >= n THEN size[k] ELSE 2 * size[k]
    BY <1>5
  <2>2. size[k] \in Nat /\ size[k] >= a /\ (size[k] >= n \/ size[k] > k)
    OBVIOUS
  <2> QED BY <2>1, <2>2
<1>9. 1 .. n \subseteq Good
  <2> HIDE DEF Good
  <2> QED BY <1>7, <1>8, UpTo
<1> QED BY <1>4, <1>6, <1>9

LEMMA DoubledIs ==
  ASSUME NEW m, NEW n \in Nat, m.allocated \in Nat \ {0}
  PROVE  S!Doubled(m, n) \in Nat /\ S!Doubled(m, n) >= n
<1>1. S!Doubled(m, n) = Doubling(2 * m.allocated, n)
  BY DEF S!Doubled, Doubling
<1>2. 2 * m.allocated \in Nat \ {0}
  OBVIOUS
<1> QED BY <1>1, <1>2, DoublingIs

LEMMA GrownIs ==
  ASSUME NEW m, Fits(m), NEW n \in Nat, n > m.allocated => m.allocated > 0 /\ S!Doubled(m, n) >= m.length
  PROVE  LET g == S!Grown(m, n)
         IN  /\ Fits(g) /\ n <= S!Size(g)
             /\ g.pos = m.pos /\ g.length = m.length /\ g.allocated = m.allocated
             /\ \A i \in 0 .. m.length - 1 : g.block[i] = m.block[i]
<1> DEFINE g == S!Grown(m, n)
           z == S!Doubled(m, n)
<1>0. /\ m.length \in Nat /\ m.allocated \in Nat /\ m.pos \in Nat /\ S!Size(m) \in Nat
      /\ m.length <= S!Size(m) /\ m.allocated <= S!Size(m)
      /\ m = [block |-> m.block, allocated |-> m.allocated, length |-> m.length, pos |-> m.pos]
  BY DEF Fits
<1>1. CASE n <= m.allocated
  BY <1>0, <1>1 DEF S!Grown
<1>2. CASE n > m.allocated
  <2>1. z \in Nat /\ z >= n /\ z >= m.length
    BY <1>0, <1>2, DoubledIs
  <2>2. g = [m EXCEPT !.block = [i \in 0 .. z - 1 |-> IF i < S!Size(m) THEN m.block[i] ELSE JUNK]]
    BY <1>0, <1>2 DEF S!Grown
  <2> HIDE DEF g, z
  <2>3. /\ g = [block |-> g.block, allocated |-> m.allocated, length |-> m.length, pos |-> m.pos]
        /\ g.block = [i \in 0 .. z - 1 |-> IF i < S!Size(m) THEN m.block[i] ELSE JUNK]
    BY <1>0, <2>2
  <2>4. S!Size(g) = z
    BY <2>1, <2>3, SizeIs
  <2>5. g.pos = m.pos /\ g.length = m.length /\ g.allocated = m.allocated
    BY <2>3
  <2>6. /\ g.block = [i \in 0 .. S!Size(g) - 1 |-> g.block[i]]
        /\ g = [block |-> g.block, allocated |-> g.allocated, length |-> g.length, pos |-> g.pos]
    BY <2>3, <2>4
  <2>7. Fits(g)
    BY <1>0, <1>2, <2>1, <2>4, <2>5, <2>6 DEF Fits
  <2>8. \A i \in 0 .. m.length - 1 : g.block[i] = m.block[i]
    BY <1>0, <2>1, <2>3
  <2> QED BY <2>1, <2>4, <2>5, <2>7, <2>8 DEF g
<1> QED BY <1>0, <1>1, <1>2

\* What Write leaves is the text written over the contents.
LEMMA WrittenIs ==
  ASSUME NEW m, Fits(m), NEW t, IsText(t), S!Keeps(m, Len(t))
  PROVE  LET w == S!Written(m, t)
             end == m.pos + Len(t)
         IN  /\ Fits(w) /\ end <= S!Size(w) /\ w.pos = end /\ w.allocated = m.allocated
             /\ w.length = (IF end > m.length THEN end ELSE m.length)
             /\ S!File!IsOver(S!Contents(w), S!Contents(m), m.pos, t)
<1> DEFINE w == S!Written(m, t)
           end == m.pos + Len(t)
           g == S!Grown(m, end)
<1>0. m.length \in Nat /\ m.allocated \in Nat /\ m.pos \in Nat /\ Len(t) \in Nat /\ end \in Nat /\ end >= m.pos
  BY DEF Fits, IsText
<1>1. /\ Fits(g) /\ end <= S!Size(g)
      /\ g.pos = m.pos /\ g.length = m.length /\ g.allocated = m.allocated
      /\ \A i \in 0 .. m.length - 1 : g.block[i] = m.block[i]
  BY <1>0, GrownIs DEF S!Keeps
<1>2. w = [g EXCEPT !.pos = end, !.length = IF end > g.length THEN end ELSE g.length,
                    !.block = [i \in DOMAIN g.block |->
                                 IF i \in m.pos .. end - 1 THEN t[i - m.pos + 1] ELSE g.block[i]]]
  BY DEF S!Written
<1> HIDE DEF w, g
<1>3. /\ g = [block |-> g.block, allocated |-> g.allocated, length |-> g.length, pos |-> g.pos]
      /\ S!Size(g) \in Nat /\ DOMAIN g.block = 0 .. S!Size(g) - 1
      /\ g.length <= S!Size(g) /\ g.allocated <= S!Size(g)
  BY <1>1 DEF Fits
<1>4. /\ w = [block |-> w.block, allocated |-> m.allocated, length |-> IF end > m.length THEN end ELSE m.length,
              pos |-> end]
      /\ w.block = [i \in 0 .. S!Size(g) - 1 |->
                      IF i \in m.pos .. end - 1 THEN t[i - m.pos + 1] ELSE g.block[i]]
  BY <1>1, <1>2, <1>3
<1>5. S!Size(w) = S!Size(g)
  BY <1>3, <1>4, SizeIs
<1>6. w.pos = end /\ w.allocated = m.allocated /\ w.length = (IF end > m.length THEN end ELSE m.length)
  BY <1>4
<1> HIDE DEF end
<1>7. w.block = [i \in 0 .. S!Size(w) - 1 |-> w.block[i]]
  BY <1>4, <1>5
<1>8. Fits(w)
  BY <1>0, <1>1, <1>3, <1>4, <1>5, <1>6, <1>7 DEF Fits
<1>9. S!File!IsOver(S!Contents(w), S!Contents(m), m.pos, t)
  <2>1. /\ Len(S!Contents(w)) = w.length /\ Len(S!Contents(m)) = m.length
        /\ \A i \in 1 .. w.length : S!Contents(w)[i] = w.block[i - 1]
        /\ \A i \in 1 .. m.length : S!Contents(m)[i] = m.block[i - 1]
    BY <1>8, ContentsAre
  <2>2. ASSUME NEW i \in 1 .. w.length
        PROVE  IF i \in m.pos + 1 .. m.pos + Len(t) THEN w.block[i - 1] = t[i - m.pos]
               ELSE i <= m.length => w.block[i - 1] = m.block[i - 1]
    <3>1. i - 1 \in 0 .. S!Size(g) - 1
      BY <1>0, <1>1, <1>3, <1>6
    <3>2. w.block[i - 1] = IF i - 1 \in m.pos .. end - 1 THEN t[(i - 1) - m.pos + 1] ELSE g.block[i - 1]
      BY <1>4, <3>1
    <3>3. i <= m.length => g.block[i - 1] = m.block[i - 1]
      <4>1. i <= m.length => i - 1 \in 0 .. m.length - 1
        BY <1>0
      <4> QED BY <1>1, <4>1
    <3>4. (i - 1) - m.pos + 1 = i - m.pos /\ (i - 1 \in m.pos .. end - 1 <=> i \in m.pos + 1 .. m.pos + Len(t))
      BY <1>0 DEF end
    <3> QED BY <3>2, <3>3, <3>4
  <2> QED BY <1>0, <1>6, <2>1, <2>2 DEF S!File!IsOver, end
<1> QED BY <1>1, <1>5, <1>6, <1>8, <1>9 DEF w, end

\* One text written behind another one is both written.
LEMMA OverTwice ==
  ASSUME NEW a, NEW b, NEW c, NEW t, NEW u, NEW p \in Nat, Len(a) \in Nat, IsText(t), IsText(u),
         S!File!IsOver(b, a, p, t), S!File!IsOver(c, b, p + Len(t), u)
  PROVE  S!File!IsOver(c, a, p, t \o u)
<1>1. /\ Len(t) \in Nat /\ Len(u) \in Nat /\ Len(t \o u) = Len(t) + Len(u)
      /\ \A i \in 1 .. Len(t) : (t \o u)[i] = t[i]
      /\ \A i \in Len(t) + 1 .. Len(t) + Len(u) : (t \o u)[i] = u[i - Len(t)]
  BY DEF IsText
<1>2. /\ Len(b) = IF p + Len(t) > Len(a) THEN p + Len(t) ELSE Len(a)
      /\ \A i \in 1 .. Len(b) :
           IF i \in p + 1 .. p + Len(t) THEN b[i] = t[i - p] ELSE i <= Len(a) => b[i] = a[i]
      /\ Len(c) = IF p + Len(t) + Len(u) > Len(b) THEN p + Len(t) + Len(u) ELSE Len(b)
      /\ \A i \in 1 .. Len(c) :
           IF i \in p + Len(t) + 1 .. p + Len(t) + Len(u) THEN c[i] = u[i - (p + Len(t))]
           ELSE i <= Len(b) => c[i] = b[i]
  BY DEF S!File!IsOver
<1>3. Len(c) = IF p + Len(t \o u) > Len(a) THEN p + Len(t \o u) ELSE Len(a)
  BY <1>1, <1>2, SMTT(40)
<1>4. ASSUME NEW i \in 1 .. Len(c)
      PROVE  IF i \in p + 1 .. p + Len(t \o u) THEN c[i] = (t \o u)[i - p] ELSE i <= Len(a) => c[i] = a[i]
  <2>1. Len(b) \in Nat /\ Len(c) \in Nat
    BY <1>1, <1>2
  <2>2. CASE i \in p + 1 .. p + Len(t)
    <3>1. i \in 1 .. Len(b) /\ i - p \in 1 .. Len(t) /\ i \notin p + Len(t) + 1 .. p + Len(t) + Len(u)
      BY <1>1, <1>2, <2>1, <2>2
    <3>2. b[i] = t[i - p]
      BY <1>2, <2>2, <3>1
    <3>3. i <= Len(b) => c[i] = b[i]
      BY <1>2, <3>1
    <3> QED BY <1>1, <2>1, <2>2, <3>1, <3>2, <3>3
  <2>3. CASE i \in p + Len(t) + 1 .. p + Len(t) + Len(u)
    <3>1. i - p \in Len(t) + 1 .. Len(t) + Len(u) /\ (i - p) - Len(t) = i - (p + Len(t))
      BY <1>1, <2>3
    <3> QED BY <1>1, <1>2, <2>3, <3>1
  <2>4. CASE i \notin p + 1 .. p + Len(t) /\ i \notin p + Len(t) + 1 .. p + Len(t) + Len(u)
    <3>1. i \notin p + 1 .. p + Len(t \o u)
      BY <1>1, <2>4
    <3>2. ASSUME i <= Len(a) PROVE c[i] = a[i]
      <4>1. i \in 1 .. Len(b)
        BY <1>1, <1>2, <2>1, <3>2
      <4> QED BY <1>2, <2>1, <2>4, <3>2, <4>1
    <3> QED BY <3>1, <3>2
  <2> QED BY <2>2, <2>3, <2>4
<1> QED BY <1>3, <1>4 DEF S!File!IsOver

-----------------------------------------------------------------------------
(* MemoryStream: the calls *)

StreamFine(s, m, o) ==
  /\ Fits(m) /\ m.length <= MaxLength[s] /\ m.pos <= MaxLength[s] + 1
  /\ o \in {"closed", "lent", "owned", "lost"} /\ (o \in {"closed", "lost"} => m = S!Closed)

StreamInv ==
  /\ calls \in 0 .. MaxCalls
  /\ mem = [s \in Streams |-> mem[s]] /\ owner = [s \in Streams |-> owner[s]]
  /\ \A s \in Streams : StreamFine(s, mem[s], owner[s])

\* What the streams are as files.
FileBytes == [s \in Streams |-> S!Contents(mem[s])]
FilePos == [s \in Streams |-> mem[s].pos]
FileFirst == [s \in Streams |-> mem[s].allocated]

LEMMA FileIs ==
  /\ S!File!vars = <<owner, FileBytes, FilePos, FileFirst>>
  /\ S!File!vars' = <<owner', FileBytes', FilePos', FileFirst'>>
BY DEF S!File!vars, FileBytes, FilePos, FileFirst

LEMMA FineIs ==
  ASSUME NEW s \in Streams, NEW m, NEW o, StreamFine(s, m, o)
  PROVE  /\ MaxLength[s] \in Nat /\ m.length \in Nat /\ m.pos \in Nat /\ m.allocated \in Nat
         /\ m.length <= MaxLength[s] /\ m.pos <= MaxLength[s] + 1
         /\ S!Size(m) \in Nat /\ m.length <= S!Size(m) /\ m.allocated <= S!Size(m)
BY StreamAssumption DEF StreamFine, Fits

\* What a stream is as a file.
LEMMA AsFile ==
  ASSUME StreamInv, NEW s \in Streams
  PROVE  /\ Fits(mem[s]) /\ StreamFine(s, mem[s], owner[s])
         /\ FileBytes[s] = S!Contents(mem[s]) /\ FilePos[s] = mem[s].pos /\ FileFirst[s] = mem[s].allocated
         /\ Len(FileBytes[s]) = mem[s].length
<1>1. Fits(mem[s]) /\ StreamFine(s, mem[s], owner[s])
  BY DEF StreamInv, StreamFine
<1>2. FileBytes[s] = S!Contents(mem[s]) /\ FilePos[s] = mem[s].pos /\ FileFirst[s] = mem[s].allocated
  BY DEF FileBytes, FilePos, FileFirst
<1> QED BY <1>1, <1>2, ContentsAre

\* The block with another length, position and size of the first block.
AdjustedTo(w, m, a, l, p) == w = [m EXCEPT !.allocated = a, !.length = l, !.pos = p]

LEMMA Adjusted ==
  ASSUME NEW m, Fits(m), NEW a \in 0 .. S!Size(m), NEW l \in 0 .. S!Size(m), NEW p \in Nat,
         NEW w, AdjustedTo(w, m, a, l, p)
  PROVE  /\ Fits(w) /\ w.length = l /\ w.pos = p /\ w.allocated = a /\ w.block = m.block
         /\ l = m.length => S!Contents(w) = S!Contents(m)
<1>1. /\ m = [block |-> m.block, allocated |-> m.allocated, length |-> m.length, pos |-> m.pos]
      /\ m.block = [i \in 0 .. S!Size(m) - 1 |-> m.block[i]] /\ S!Size(m) \in Nat
  BY DEF Fits
<1>2. w = [block |-> m.block, allocated |-> a, length |-> l, pos |-> p]
  BY <1>1 DEF AdjustedTo
<1>3. w.length = l /\ w.pos = p /\ w.allocated = a /\ w.block = m.block
  BY <1>2
<1>4. S!Size(w) = S!Size(m)
  BY <1>3 DEF S!Size
<1>5. Fits(w)
  BY <1>1, <1>2, <1>3, <1>4 DEF Fits
<1> QED BY <1>3, <1>5 DEF S!Contents

\* One stream changes.
Puts(s, w, o) == mem' = [mem EXCEPT ![s] = w] /\ owner' = [owner EXCEPT ![s] = o]

LEMMA PutIs ==
  ASSUME NEW s, NEW w, NEW o, S!Put(s, w, o)
  PROVE  Puts(s, w, o)
BY DEF S!Put, S!Set, Puts

LEMMA StreamPut ==
  ASSUME StreamInv, calls' \in 0 .. MaxCalls, NEW s \in Streams, NEW w, NEW o, Puts(s, w, o), StreamFine(s, w, o)
  PROVE  /\ StreamInv' /\ owner' = [owner EXCEPT ![s] = o]
         /\ ChangedAt(FileBytes', FileBytes, s, S!Contents(w)) /\ ChangedAt(FilePos', FilePos, s, w.pos)
         /\ ChangedAt(FileFirst', FileFirst, s, w.allocated)
<1>1. mem = [r \in Streams |-> mem[r]] /\ owner = [r \in Streams |-> owner[r]]
  BY DEF StreamInv
<1>2. /\ mem' = [r \in Streams |-> mem'[r]] /\ owner' = [r \in Streams |-> owner'[r]]
      /\ mem'[s] = w /\ owner'[s] = o
      /\ \A r \in Streams \ {s} : mem'[r] = mem[r] /\ owner'[r] = owner[r]
  BY <1>1 DEF Puts
<1>3. StreamInv'
  <2>1. \A r \in Streams : StreamFine(r, mem'[r], owner'[r])
    BY <1>2 DEF StreamInv
  <2> QED BY <1>2, <2>1 DEF StreamInv
<1>4. /\ ChangedAt(FileBytes', FileBytes, s, S!Contents(w)) /\ ChangedAt(FilePos', FilePos, s, w.pos)
      /\ ChangedAt(FileFirst', FileFirst, s, w.allocated)
  BY <1>2 DEF ChangedAt, FileBytes, FilePos, FileFirst
<1> QED BY <1>3, <1>4 DEF Puts

\* A stream that stays open with the same first block.
LEMMA StreamStays ==
  ASSUME StreamInv, NEW s \in Streams, NEW w, w.allocated = mem[s].allocated,
         owner' = [owner EXCEPT ![s] = owner[s]],
         ChangedAt(FileBytes', FileBytes, s, S!Contents(w)), ChangedAt(FilePos', FilePos, s, w.pos),
         ChangedAt(FileFirst', FileFirst, s, w.allocated)
  PROVE  /\ owner' = owner /\ FileFirst' = FileFirst
         /\ FileBytes'[s] = S!Contents(w) /\ FilePos'[s] = w.pos
         /\ \A r \in Streams \ {s} : FileBytes'[r] = FileBytes[r] /\ FilePos'[r] = FilePos[r]
<1>1. owner' = owner
  BY DEF StreamInv
<1>2. FileFirst' = FileFirst
  BY DEF ChangedAt, FileFirst
<1>3. /\ FileBytes'[s] = S!Contents(w) /\ FilePos'[s] = w.pos
      /\ \A r \in Streams \ {s} : FileBytes'[r] = FileBytes[r] /\ FilePos'[r] = FilePos[r]
  BY DEF ChangedAt, FileBytes, FilePos
<1> QED BY <1>1, <1>2, <1>3

\* A stream is closed or lost.
LEMMA StreamGone ==
  ASSUME StreamInv, calls' \in 0 .. MaxCalls, NEW s \in Streams, NEW o \in {"closed", "lost"}, Puts(s, S!Closed, o)
  PROVE  StreamInv' /\ (S!File!Becomes(s, o, 0) /\ S!File!Empties(s))
<1>1. StreamFine(s, S!Closed, o) /\ S!Closed.allocated = 0
  BY ClosedFits, StreamAssumption DEF StreamFine, S!Closed
<1>2. /\ StreamInv' /\ owner' = [owner EXCEPT ![s] = o]
      /\ ChangedAt(FileBytes', FileBytes, s, <<>>) /\ ChangedAt(FilePos', FilePos, s, 0)
      /\ ChangedAt(FileFirst', FileFirst, s, 0)
  BY <1>1, StreamPut, ClosedFits
<1> QED BY <1>2 DEF S!File!Becomes, S!File!Empties, ChangedAt, FileBytes, FilePos, FileFirst

LEMMA StreamLose ==
  ASSUME StreamInv, calls' \in 0 .. MaxCalls, NEW s \in Streams, S!Lose(s)
  PROVE  StreamInv' /\ S!File!Lose(s)
<1>1. Puts(s, S!Closed, "lost")
  BY DEF S!Lose, S!Put, S!Set, Puts
<1> QED BY <1>1, StreamGone DEF S!File!Lose

LEMMA StreamClose ==
  ASSUME StreamInv, calls' \in 0 .. MaxCalls, NEW s \in Streams, S!Close(s)
  PROVE  StreamInv' /\ S!File!Next
<1>1. S!IsOpen(s) /\ Puts(s, S!Closed, "closed")
  BY DEF S!Close, S!Put, S!Set, Puts
<1>2. StreamInv' /\ S!File!Close(s)
  BY <1>1, StreamGone DEF S!File!Close
<1> QED BY <1>1, <1>2 DEF S!File!Next, S!File!IsOpen, S!IsOpen

\* A write cuts the contents off, or never ends, where the file says that it may.
LEMMA CutsIs ==
  ASSUME StreamInv, NEW s \in Streams, NEW n \in Nat, ~S!Keeps(mem[s], n)
  PROVE  S!File!Cuts(s, n)
<1> DEFINE a == mem[s].allocated
           l == mem[s].length
           end == mem[s].pos + n
           z == S!Doubled(mem[s], end)
<1>1. a \in Nat /\ l \in Nat /\ end \in Nat /\ end > a /\ (a > 0 => ~(z >= l))
  BY AsFile, FineIs DEF S!Keeps
<1>2. CASE a = 0
  <2>1. S!File!Cuts(s, n) <=> (end > a /\ (a = 0 \/ end < l))
    BY AsFile DEF S!File!Cuts, FileBytes, FilePos, FileFirst
  <2> QED BY <1>1, <1>2, <2>1
<1>3. CASE a # 0
  <2>1. z \in Nat /\ z >= end
    BY <1>1, <1>3, DoubledIs
  <2>2. S!File!Cuts(s, n) <=> (end > a /\ (a = 0 \/ end < l))
    BY AsFile DEF S!File!Cuts, FileBytes, FilePos, FileFirst
  <2> HIDE DEF a, l, end, z
  <2> QED BY <1>1, <1>3, <2>1, <2>2
<1> QED BY <1>2, <1>3

LEMMA StreamWrite ==
  ASSUME StreamInv, calls' \in 0 .. MaxCalls, NEW s \in Streams, NEW t \in StreamTexts[s], S!Write(s, t)
  PROVE  StreamInv' /\ S!File!Next
<1> DEFINE w == S!Written(mem[s], t)
<1>1. IsText(t)
  BY StreamAssumption DEF IsText
<1>2. owner[s] = "owned" /\ mem[s].pos + Len(t) <= MaxLength[s]
  BY DEF S!Write, S!InBounds
<1>3. StreamInv' /\ S!File!Write(s, t)
  <2>1. CASE ~S!Keeps(mem[s], Len(t))
    <3>1. S!Lose(s) /\ Len(t) \in Nat
      BY <1>1, <2>1 DEF S!Write, IsText
    <3> QED BY <1>2, <2>1, <3>1, StreamLose, CutsIs DEF S!File!Write
  <2>2. CASE S!Keeps(mem[s], Len(t))
    <3>1. S!Put(s, w, owner[s])
      BY <2>2 DEF S!Write
    <3>2. /\ Fits(w) /\ w.pos = mem[s].pos + Len(t) /\ w.allocated = mem[s].allocated
          /\ w.length = IF mem[s].pos + Len(t) > mem[s].length THEN mem[s].pos + Len(t) ELSE mem[s].length
          /\ S!File!IsOver(S!Contents(w), S!Contents(mem[s]), mem[s].pos, t)
      BY <1>1, <2>2, AsFile, WrittenIs
    <3> HIDE DEF w
    <3>3. StreamFine(s, w, owner[s])
      <4>1. /\ Len(t) \in Nat /\ MaxLength[s] \in Nat /\ mem[s].pos \in Nat /\ mem[s].length \in Nat
            /\ mem[s].length <= MaxLength[s]
        BY <1>1, AsFile, FineIs DEF IsText
      <4>2. w.length <= MaxLength[s] /\ w.pos <= MaxLength[s] + 1
        BY <1>2, <3>2, <4>1
      <4> QED BY <1>2, <3>2, <4>2 DEF StreamFine
    <3>4. /\ StreamInv' /\ owner' = [owner EXCEPT ![s] = owner[s]]
          /\ ChangedAt(FileBytes', FileBytes, s, S!Contents(w)) /\ ChangedAt(FilePos', FilePos, s, w.pos)
          /\ ChangedAt(FileFirst', FileFirst, s, w.allocated)
      BY <3>1, <3>3, PutIs, StreamPut
    <3>5. /\ owner' = owner /\ FileFirst' = FileFirst
          /\ FileBytes'[s] = S!Contents(w) /\ FilePos'[s] = w.pos
          /\ \A r \in Streams \ {s} : FileBytes'[r] = FileBytes[r] /\ FilePos'[r] = FilePos[r]
      BY <3>2, <3>4, StreamStays
    <3>6. FileBytes[s] = S!Contents(mem[s]) /\ FilePos[s] = mem[s].pos
      BY AsFile
    <3> QED BY <1>2, <3>2, <3>4, <3>5, <3>6
            DEF S!File!Write, S!File!MoveTo, S!File!Others, FileBytes, FilePos, FileFirst
  <2> QED BY <2>1, <2>2
<1> QED BY <1>3 DEF S!File!Next

\* A step that only moves the position.
AtPosition(w, m, p) == w = [m EXCEPT !.pos = p]

LEMMA StreamMoves ==
  ASSUME StreamInv, calls' \in 0 .. MaxCalls, NEW s \in Streams, S!IsOpen(s), NEW p \in 0 .. MaxLength[s] + 1,
         NEW w, AtPosition(w, mem[s], p), Puts(s, w, owner[s])
  PROVE  StreamInv' /\ S!File!MoveTo(s, p) /\ FileBytes' = FileBytes /\ FilePos'[s] = p
<1>1. StreamFine(s, mem[s], owner[s]) /\ Fits(mem[s])
  BY AsFile
<1>2. /\ MaxLength[s] \in Nat /\ mem[s].length <= MaxLength[s] /\ p \in Nat
      /\ mem[s].length \in 0 .. S!Size(mem[s]) /\ mem[s].allocated \in 0 .. S!Size(mem[s])
  BY <1>1, FineIs
<1>3. AdjustedTo(w, mem[s], mem[s].allocated, mem[s].length, p)
  BY <1>1 DEF Fits, AdjustedTo, AtPosition
<1>4. Fits(w) /\ w.length = mem[s].length /\ w.pos = p /\ w.allocated = mem[s].allocated /\ S!Contents(w) = S!Contents(mem[s])
  BY <1>1, <1>2, <1>3, Adjusted
<1>5. StreamFine(s, w, owner[s])
  BY <1>1, <1>2, <1>4 DEF StreamFine, S!IsOpen
<1>6. /\ StreamInv' /\ owner' = [owner EXCEPT ![s] = owner[s]]
      /\ ChangedAt(FileBytes', FileBytes, s, S!Contents(w)) /\ ChangedAt(FilePos', FilePos, s, w.pos)
      /\ ChangedAt(FileFirst', FileFirst, s, w.allocated)
  BY <1>5, StreamPut
<1>7. /\ owner' = owner /\ FileFirst' = FileFirst /\ FilePos'[s] = w.pos
      /\ \A r \in Streams \ {s} : FileBytes'[r] = FileBytes[r] /\ FilePos'[r] = FilePos[r]
  BY <1>4, <1>6, StreamStays
<1>8. FileBytes' = FileBytes
  BY <1>4, <1>6 DEF ChangedAt, FileBytes
<1>9. S!File!MoveTo(s, p)
  BY <1>4, <1>7, <1>8 DEF S!File!MoveTo, S!File!Others, FileBytes, FilePos, FileFirst
<1> QED BY <1>4, <1>6, <1>7, <1>8, <1>9

LEMMA StreamSeek ==
  ASSUME StreamInv, calls' \in 0 .. MaxCalls, NEW s \in Streams, NEW p \in Seeks[s], S!Seek(s, p)
  PROVE  StreamInv' /\ S!File!Next
<1> DEFINE w == [mem[s] EXCEPT !.pos = p]
<1>1. S!IsOpen(s) /\ p \in 0 .. MaxLength[s] + 1 /\ S!Put(s, w, owner[s])
  BY StreamAssumption DEF S!Seek
<1>2. Puts(s, w, owner[s])
  <2> HIDE DEF w
  <2> QED BY <1>1, PutIs
<1>3. StreamInv' /\ S!File!MoveTo(s, p) /\ FileBytes' = FileBytes /\ FilePos'[s] = p
  <2>1. AtPosition(w, mem[s], p)
    BY DEF AtPosition
  <2> HIDE DEF w
  <2> QED BY <1>1, <1>2, <2>1, StreamMoves
<1>4. S!File!Seek(s, FilePos'[s])
  <2>1. S!File!MoveTo(s, FilePos'[s])
    BY <1>3 DEF S!File!MoveTo
  <2> QED BY <1>3, <2>1 DEF S!File!Seek, FileBytes, FilePos
<1> QED BY <1>1, <1>3, <1>4 DEF S!File!Next, FilePos, S!IsOpen, S!File!IsOpen

LEMMA SubSeqIs ==
  ASSUME NEW u, IsText(u), NEW a \in 0 .. Len(u), NEW b \in a .. Len(u)
  PROVE  SubSeq(u, a + 1, b) = [i \in 1 .. b - a |-> u[a + i]]
BY DEF IsText

LEMMA GotIs ==
  ASSUME NEW m, Fits(m), NEW n \in Nat, m.pos <= m.length
  PROVE  /\ IsText(S!Got(m, n)) /\ Len(S!Got(m, n)) = (IF m.pos + n > m.length THEN m.length - m.pos ELSE n)
         /\ S!Got(m, n) = SubSeq(S!Contents(m), m.pos + 1, m.pos + Len(S!Got(m, n)))
<1> DEFINE cb == IF m.pos + n >= m.length THEN m.length - m.pos ELSE n
<1>1. m.pos \in Nat /\ m.length \in Nat /\ cb \in Nat /\ m.pos + cb <= m.length
      /\ cb = IF m.pos + n > m.length THEN m.length - m.pos ELSE n
  BY DEF Fits
<1>2. S!Got(m, n) = [i \in 1 .. cb |-> m.block[m.pos + i - 1]]
  BY DEF S!Got
<1> HIDE DEF cb
<1>3. Len(S!Got(m, n)) = cb /\ IsText(S!Got(m, n))
  BY <1>1, <1>2 DEF IsText
<1>4. SubSeq(S!Contents(m), m.pos + 1, m.pos + cb) = [i \in 1 .. cb |-> m.block[m.pos + i - 1]]
  <2>1. /\ S!Contents(m) = [i \in 1 .. m.length |-> S!Contents(m)[i]] /\ Len(S!Contents(m)) = m.length
        /\ \A i \in 1 .. m.length : S!Contents(m)[i] = m.block[i - 1]
    BY ContentsAre DEF IsText
  <2>2. SubSeq(S!Contents(m), m.pos + 1, m.pos + cb) = [i \in 1 .. cb |-> S!Contents(m)[m.pos + i]]
    <3>1. m.pos \in 0 .. Len(S!Contents(m)) /\ m.pos + cb \in m.pos .. Len(S!Contents(m))
      BY <1>1, <2>1
    <3>2. (m.pos + cb) - m.pos = cb
      BY <1>1
    <3> QED BY <3>1, <3>2, SubSeqIs, ContentsAre
  <2>3. ASSUME NEW i \in 1 .. cb PROVE S!Contents(m)[m.pos + i] = m.block[m.pos + i - 1]
    <3> DEFINE j == m.pos + i
    <3>1. j \in 1 .. m.length
      BY <1>1
    <3> HIDE DEF j
    <3>2. S!Contents(m)[j] = m.block[j - 1]
      BY <3>1, ContentsAre, Zenon
    <3>3. j - 1 = m.pos + i - 1
      BY <1>1 DEF j
    <3> QED BY <3>2, <3>3 DEF j
  <2> QED BY <2>2, <2>3
<1> QED BY <1>1, <1>2, <1>3, <1>4

\* What is copied is what was read, up to the end.
LEMMA PaddedIs ==
  ASSUME NEW m, Fits(m), NEW n \in Nat, m.pos <= m.length
  PROVE  LET t == S!Padded(m, n)
             k == IF m.pos + n > m.length THEN m.length - m.pos ELSE n
         IN  /\ IsText(t) /\ Len(t) = n /\ k \in 0 .. n /\ Len(S!Got(m, n)) = k
             /\ SubSeq(t, 1, k) = SubSeq(S!Contents(m), m.pos + 1, m.pos + k)
<1> DEFINE t == S!Padded(m, n)
           k == IF m.pos + n > m.length THEN m.length - m.pos ELSE n
           got == S!Got(m, n)
<1>1. m.pos \in Nat /\ m.length \in Nat /\ k \in 0 .. n
  BY DEF Fits
<1>2. IsText(got) /\ Len(got) = k /\ got = SubSeq(S!Contents(m), m.pos + 1, m.pos + Len(got))
  BY GotIs
<1>3. t = [i \in 1 .. n |-> IF i <= Len(got) THEN got[i] ELSE JUNK]
  BY DEF S!Padded
<1> HIDE DEF t, got, k
<1>4. IsText(t) /\ Len(t) = n
  BY <1>3 DEF IsText
<1>5. SubSeq(t, 1, k) = [i \in 1 .. k |-> t[i]]
  BY <1>1, <1>3
<1>6. SubSeq(t, 1, k) = got
  BY <1>1, <1>2, <1>3, <1>5 DEF IsText
<1> QED BY <1>1, <1>2, <1>4, <1>6 DEF t, k, got

\* What was written is found where it was written.
LEMMA OverPart ==
  ASSUME NEW b, IsText(b), NEW a, Len(a) \in Nat, NEW t, IsText(t), NEW p \in Nat, S!File!IsOver(b, a, p, t)
  PROVE  p + Len(t) <= Len(b) /\ SubSeq(b, p + 1, p + Len(t)) = t
<1>1. Len(t) \in Nat /\ Len(b) \in Nat /\ t = [i \in 1 .. Len(t) |-> t[i]]
  BY DEF IsText
<1>2. p + Len(t) <= Len(b)
  BY <1>1 DEF S!File!IsOver
<1>3. \A i \in 1 .. Len(t) : b[p + i] = t[i]
  <2> TAKE i \in 1 .. Len(t)
  <2>1. p + i \in 1 .. Len(b) /\ p + i \in p + 1 .. p + Len(t) /\ (p + i) - p = i
    BY <1>1, <1>2
  <2> QED BY <2>1 DEF S!File!IsOver
<1>4. SubSeq(b, p + 1, p + Len(t)) = [i \in 1 .. Len(t) |-> b[p + i]]
  <2>1. p \in 0 .. Len(b) /\ p + Len(t) \in p .. Len(b) /\ (p + Len(t)) - p = Len(t)
    BY <1>1, <1>2
  <2> QED BY <2>1, SubSeqIs
<1> QED BY <1>1, <1>2, <1>3, <1>4

LEMMA StreamRead ==
  ASSUME StreamInv, calls' \in 0 .. MaxCalls, NEW s \in Streams, NEW n \in {1, mem[s].length + 1}, S!Read(s, n)
  PROVE  StreamInv' /\ S!File!Next
<1> DEFINE p == mem[s].pos + Len(S!Got(mem[s], n))
           w == [mem[s] EXCEPT !.pos = p]
<1>1. /\ MaxLength[s] \in Nat /\ mem[s].length \in Nat /\ mem[s].pos \in Nat /\ mem[s].length <= MaxLength[s]
      /\ Fits(mem[s]) /\ S!IsOpen(s) /\ n \in 1 .. mem[s].length + 1 /\ n \in Nat
  BY AsFile, FineIs DEF S!Read
<1>2. FilePos[s] = mem[s].pos /\ Len(FileBytes[s]) = mem[s].length
  BY AsFile
<1>3. StreamInv' /\ S!File!Read(s, n)
  <2>1. CASE mem[s].pos > mem[s].length
    <3>1. S!Lose(s)
      BY <1>1, <2>1 DEF S!Read
    <3>2. StreamInv' /\ S!File!Lose(s)
      BY <3>1, StreamLose
    <3> QED BY <1>2, <2>1, <3>2 DEF S!File!Read, FilePos, FileBytes
  <2>2. CASE mem[s].pos <= mem[s].length
    <3>1. S!Put(s, w, owner[s])
      BY <2>2 DEF S!Read
    <3>2. p = mem[s].pos + (IF mem[s].pos + n > mem[s].length THEN mem[s].length - mem[s].pos ELSE n)
      <4>1. Len(S!Got(mem[s], n)) = IF mem[s].pos + n > mem[s].length THEN mem[s].length - mem[s].pos ELSE n
        BY <1>1, <2>2, GotIs
      <4> QED BY <4>1
    <3>3. p \in 0 .. MaxLength[s] + 1
      BY <1>1, <2>2, <3>2
    <3> HIDE DEF p
    <3>4. Puts(s, w, owner[s])
      <4> HIDE DEF w
      <4> QED BY <3>1, PutIs
    <3>5. StreamInv' /\ S!File!MoveTo(s, p) /\ FileBytes' = FileBytes
      <4>1. AtPosition(w, mem[s], p)
        BY DEF AtPosition
      <4>2. S!IsOpen(s)
        BY <1>1
      <4> HIDE DEF w
      <4>3. \A q \in 0 .. MaxLength[s] + 1 :
              AtPosition(w, mem[s], q) => StreamInv' /\ S!File!MoveTo(s, q) /\ FileBytes' = FileBytes
        BY <3>4, <4>2, StreamMoves
      <4> QED BY <3>3, <4>1, <4>3 DEF S!File!MoveTo
    <3>6. p = FilePos[s] + (IF FilePos[s] + n > Len(FileBytes[s]) THEN Len(FileBytes[s]) - FilePos[s] ELSE n)
      BY <1>2, <3>2
    <3>7. ~(FilePos[s] > Len(FileBytes[s]))
      BY <1>1, <1>2, <2>2
    <3> QED BY <3>5, <3>6, <3>7
            DEF S!File!Read, S!File!Left, S!File!MoveTo, S!File!Others, FilePos, FileBytes, FileFirst
  <2> QED BY <1>1, <2>1, <2>2
<1>4. n \in 1 .. Len(FileBytes[s]) + 1
  BY <1>1, <1>2
<1> QED BY <1>1, <1>3, <1>4 DEF S!File!Next, FileBytes, S!IsOpen, S!File!IsOpen

\* A stream is opened on a text.
LEMMA StreamOpens ==
  ASSUME StreamInv, calls' \in 0 .. MaxCalls, NEW s \in Streams, owner[s] = "closed",
         NEW b \in StreamTexts[s] \cup {<<>>}, NEW z \in Nat, Len(b) <= z, Len(b) <= MaxLength[s],
         NEW o \in {"lent", "owned"}, Puts(s, S!Opened(b, z), o)
  PROVE  StreamInv' /\ S!File!Open(s, b, o, z)
<1> DEFINE w == S!Opened(b, z)
<1>1. IsText(b)
  <2>1. StreamTexts[s] \subseteq Seq(Bytes) /\ <<>> \in Seq(Bytes)
    BY StreamAssumption
  <2>2. b \in Seq(Bytes)
    <3> HIDE DEF w
    <3> QED BY <2>1
  <2> QED BY <2>2 DEF IsText
<1>2. Fits(w) /\ w.length = Len(b) /\ w.pos = 0 /\ S!Contents(w) = b /\ w.allocated = z
  BY <1>1, OpenedIs
<1>3. MaxLength[s] \in Nat
  BY StreamAssumption
<1> HIDE DEF w
<1>4. StreamFine(s, w, o)
  BY <1>2, <1>3 DEF StreamFine
<1>5. /\ StreamInv' /\ owner' = [owner EXCEPT ![s] = o]
      /\ ChangedAt(FileBytes', FileBytes, s, b) /\ ChangedAt(FilePos', FilePos, s, 0)
      /\ ChangedAt(FileFirst', FileFirst, s, z)
  <2>1. Puts(s, w, o)
    BY DEF w
  <2> QED BY <1>2, <1>4, <2>1, StreamPut
<1>6. FilePos[s] = 0
  <2>1. mem[s] = S!Closed
    BY DEF StreamInv, StreamFine
  <2> QED BY <2>1, AsFile, ClosedFits
<1>7. FilePos' = FilePos
  BY <1>5, <1>6 DEF ChangedAt, FilePos
<1> QED BY <1>5, <1>7 DEF S!File!Open, S!File!Becomes, ChangedAt, FileBytes, FilePos, FileFirst

LEMMA StreamCreate ==
  ASSUME StreamInv, calls' \in 0 .. MaxCalls, NEW s \in Streams, S!Create(s)
  PROVE  StreamInv' /\ S!File!Next
<1>1. owner[s] = "closed" /\ Puts(s, S!Opened(<<>>, FirstSize), "owned")
  BY DEF S!Create, S!Put, S!Set, Puts
<1>2. FirstSize \in Nat /\ Len(<<>>) <= FirstSize /\ Len(<<>>) <= MaxLength[s]
  BY StreamAssumption
<1>3. StreamInv' /\ S!File!Open(s, <<>>, "owned", FirstSize)
  BY <1>1, <1>2, StreamOpens
<1> QED BY <1>3 DEF S!File!Next

LEMMA StreamReadNothing ==
  ASSUME StreamInv, calls' \in 0 .. MaxCalls, NEW s \in Streams, NEW d \in Streams, S!ReadNothing(d, s)
  PROVE  StreamInv' /\ S!File!Next
<1>1. owner[d] = "closed" /\ Puts(d, S!Opened(<<>>, 0), "owned")
  BY DEF S!ReadNothing, S!Put, S!Set, Puts
<1>2. 0 \in Nat /\ Len(<<>>) <= 0 /\ Len(<<>>) <= MaxLength[d]
  BY StreamAssumption
<1>3. StreamInv' /\ S!File!Open(d, <<>>, "owned", 0)
  BY <1>1, <1>2, StreamOpens
<1> QED BY <1>3 DEF S!File!Next

LEMMA StreamOpen ==
  ASSUME StreamInv, calls' \in 0 .. MaxCalls, NEW s \in Streams, NEW b \in StreamTexts[s],
         NEW how \in {"owned", "lent"}, S!Open(s, b, how)
  PROVE  StreamInv' /\ S!File!Next
<1>1. owner[s] = "closed" /\ Len(b) <= MaxLength[s] /\ Puts(s, S!Opened(b, Len(b)), how)
  BY DEF S!Open, S!Put, S!Set, Puts
<1>2. Len(b) \in Nat /\ Len(b) <= Len(b)
  BY StreamAssumption
<1>3. StreamInv' /\ S!File!Open(s, b, how, Len(b))
  BY <1>1, <1>2, StreamOpens
<1> QED BY <1>3 DEF S!File!Next

AsWritten(x, g, k, e, c) == x = [g EXCEPT !.pos = k, !.length = e, !.block = c]

LEMMA PlacedIs ==
  ASSUME NEW b, NEW a, NEW l, NEW p, NEW g, g = [block |-> b, allocated |-> a, length |-> l, pos |-> p],
         NEW k, NEW e, NEW c, NEW x, AsWritten(x, g, k, e, c)
  PROVE  x = [block |-> c, allocated |-> a, length |-> e, pos |-> k]
BY DEF AsWritten

\* A length, the same blocks: what a write of nothing leaves but for the length.
LEMMA SameButLength ==
  ASSUME NEW m, Fits(m), NEW l \in 0 .. m.length, NEW n, n = m.pos, NEW v, v = [m EXCEPT !.length = l]
  PROVE  /\ Fits(v) /\ v.pos = m.pos /\ v.allocated = m.allocated /\ v.length = l /\ v.block = m.block
         /\ [S!Written(m, <<>>) EXCEPT !.length = n] = [S!Written(v, <<>>) EXCEPT !.length = n]
<1>1. /\ m = [block |-> m.block, allocated |-> m.allocated, length |-> m.length, pos |-> m.pos]
      /\ m.block = [i \in 0 .. S!Size(m) - 1 |-> m.block[i]] /\ S!Size(m) \in Nat
      /\ m.length \in 0 .. S!Size(m) /\ m.allocated \in 0 .. S!Size(m) /\ m.pos \in Nat
  BY DEF Fits
<1>2. v = [block |-> m.block, allocated |-> m.allocated, length |-> l, pos |-> m.pos]
  BY <1>1
<1>3. v.pos = m.pos /\ v.allocated = m.allocated /\ v.length = l /\ v.block = m.block
  BY <1>2
<1>4. S!Size(v) = S!Size(m)
  BY <1>3 DEF S!Size
<1>5. Fits(v)
  BY <1>1, <1>2, <1>3, <1>4 DEF Fits
<1> DEFINE k == m.pos + Len(<<>>)
           b == IF k <= m.allocated THEN m.block
                ELSE [i \in 0 .. S!Doubled(m, k) - 1 |-> IF i < S!Size(m) THEN m.block[i] ELSE JUNK]
           g == S!Grown(m, k)
           h == S!Grown(v, k)
           c(e) == [i \in DOMAIN e |-> IF i \in m.pos .. k - 1 THEN <<>>[i - m.pos + 1] ELSE e[i]]
<1>6. S!Doubled(v, k) = S!Doubled(m, k)
  BY <1>3 DEF S!Doubled
<1>7. g = [block |-> b, allocated |-> m.allocated, length |-> m.length, pos |-> m.pos]
  BY <1>1 DEF S!Grown
<1>8. h = [block |-> b, allocated |-> m.allocated, length |-> l, pos |-> m.pos]
  BY <1>2, <1>3, <1>4, <1>6 DEF S!Grown
<1>11. AsWritten(S!Written(m, <<>>), g, k, IF k > g.length THEN k ELSE g.length, c(g.block))
  BY DEF S!Written, AsWritten
<1>12. AsWritten(S!Written(v, <<>>), h, k, IF k > h.length THEN k ELSE h.length, c(h.block))
  BY <1>3 DEF S!Written, AsWritten
<1> HIDE DEF b, c, k, g, h
<1>13. \E e : S!Written(m, <<>>) = [block |-> c(b), allocated |-> m.allocated, length |-> e, pos |-> k]
  BY <1>7, <1>11, PlacedIs
<1>14. \E e : S!Written(v, <<>>) = [block |-> c(b), allocated |-> m.allocated, length |-> e, pos |-> k]
  <2>1. h.block = b
    BY <1>8
  <2>2. \E e : AsWritten(S!Written(v, <<>>), h, k, e, c(b))
    BY <1>12, <2>1
  <2> DEFINE x == S!Written(v, <<>>)
  <2>3. PICK e : AsWritten(x, h, k, e, c(b))
    BY <2>2
  <2> HIDE DEF x
  <2>4. x = [block |-> c(b), allocated |-> m.allocated, length |-> e, pos |-> k]
    BY <1>8, <2>3, PlacedIs
  <2> QED BY <2>4 DEF x
<1>9. [S!Written(m, <<>>) EXCEPT !.length = n] = [block |-> c(b), allocated |-> m.allocated, length |-> n, pos |-> k]
  BY <1>13
<1>10. [S!Written(v, <<>>) EXCEPT !.length = n] = [block |-> c(b), allocated |-> m.allocated, length |-> n, pos |-> k]
  BY <1>14
<1> QED BY <1>3, <1>5, <1>9, <1>10

\* Truncate keeps what is before the position, whatever the block loses.
CutTo(w, v, n) == w = [v EXCEPT !.length = n]

LEMMA TruncatedIs ==
  ASSUME NEW m, Fits(m), ~(m.pos > 0 /\ m.allocated = 0), NEW w, CutTo(w, S!Written(m, <<>>), m.pos)
  PROVE  /\ Fits(w) /\ w.length = m.pos /\ w.pos = m.pos /\ w.allocated = m.allocated
         /\ Len(S!Contents(w)) = m.pos
         /\ \A i \in 1 .. m.pos : i <= m.length => S!Contents(w)[i] = S!Contents(m)[i]
<1> DEFINE l == IF m.pos < m.length THEN m.pos ELSE m.length
           o == [m EXCEPT !.length = l]
           v == S!Written(o, <<>>)
<1>1. m.pos \in Nat /\ m.length \in Nat /\ m.allocated \in Nat /\ l \in 0 .. m.length /\ l <= m.pos
  BY DEF Fits
<1> HIDE DEF l
<1>2. /\ Fits(o) /\ o.pos = m.pos /\ o.allocated = m.allocated /\ o.length = l /\ o.block = m.block
      /\ CutTo(w, v, m.pos)
  BY <1>1, SameButLength DEF CutTo
<1> HIDE DEF o
<1>3. IsText(<<>>) /\ Len(<<>>) = 0 /\ m.pos + 0 = m.pos
  BY <1>1 DEF IsText
<1>4. S!Keeps(o, Len(<<>>))
  <2>1. m.pos > m.allocated => m.allocated > 0
    BY <1>1
  <2>2. m.allocated > 0 => S!Doubled(o, m.pos) \in Nat /\ S!Doubled(o, m.pos) >= m.pos
    BY <1>1, <1>2, DoubledIs
  <2>3. m.pos > m.allocated => m.allocated > 0 /\ S!Doubled(o, m.pos) >= l
    BY <1>1, <2>1, <2>2
  <2> QED BY <1>2, <1>3, <2>3 DEF S!Keeps
<1>5. /\ Fits(v) /\ m.pos <= S!Size(v) /\ v.pos = m.pos /\ v.allocated = m.allocated
      /\ v.length = IF m.pos > l THEN m.pos ELSE l
      /\ S!File!IsOver(S!Contents(v), S!Contents(o), m.pos, <<>>)
  <2>1. /\ Fits(v) /\ o.pos + Len(<<>>) <= S!Size(v) /\ v.pos = o.pos + Len(<<>>) /\ v.allocated = o.allocated
        /\ v.length = (IF o.pos + Len(<<>>) > o.length THEN o.pos + Len(<<>>) ELSE o.length)
        /\ S!File!IsOver(S!Contents(v), S!Contents(o), o.pos, <<>>)
    BY <1>2, <1>3, <1>4, WrittenIs
  <2> HIDE DEF v
  <2> QED BY <1>2, <1>3, <2>1
<1> HIDE DEF v
<1>6. v.length = m.pos /\ v.allocated \in 0 .. S!Size(v) /\ m.pos \in 0 .. S!Size(v)
  BY <1>1, <1>5 DEF Fits
<1>7. AdjustedTo(w, v, v.allocated, m.pos, m.pos)
  BY <1>2, <1>5, <1>6 DEF AdjustedTo, Fits, CutTo
<1>8. Fits(w) /\ w.length = m.pos /\ w.pos = m.pos /\ w.allocated = v.allocated /\ S!Contents(w) = S!Contents(v)
  <2>0. Fits(v) /\ v.allocated \in 0 .. S!Size(v) /\ m.pos \in 0 .. S!Size(v) /\ m.pos \in Nat
    BY <1>1, <1>5, <1>6
  <2>1. Fits(w) /\ w.length = m.pos /\ w.pos = m.pos /\ w.allocated = v.allocated /\ w.block = v.block
    BY <2>0, <1>7, Adjusted
  <2>2. m.pos = v.length => S!Contents(w) = S!Contents(v)
    BY <2>0, <1>7, Adjusted
  <2> QED BY <1>6, <2>1, <2>2
<1>9. Len(S!Contents(w)) = m.pos
  BY <1>8, ContentsAre
<1>10. ASSUME NEW i \in 1 .. m.pos, i <= m.length
       PROVE  S!Contents(w)[i] = S!Contents(m)[i]
  <2>1. i \in 1 .. l /\ i \in 1 .. m.length
    BY <1>1, <1>10 DEF l
  <2>2. S!Contents(m)[i] = m.block[i - 1]
    BY <2>1, ContentsAre
  <2>3. Len(S!Contents(o)) = l /\ S!Contents(o)[i] = m.block[i - 1]
    BY <1>2, <2>1, ContentsAre
  <2>4. i \in 1 .. Len(S!Contents(v)) /\ i \notin m.pos + 1 .. m.pos + Len(<<>>) /\ i <= Len(S!Contents(o))
    BY <1>1, <1>3, <1>8, <1>9, <2>1, <2>3
  <2>5. S!Contents(v)[i] = S!Contents(o)[i]
    BY <1>5, <2>4 DEF S!File!IsOver
  <2> QED BY <1>8, <2>2, <2>3, <2>5
<1> QED BY <1>5, <1>8, <1>9, <1>10

LEMMA StreamTruncate ==
  ASSUME StreamInv, calls' \in 0 .. MaxCalls, NEW s \in Streams, S!Truncate(s)
  PROVE  StreamInv' /\ S!File!Next
<1> DEFINE w == [S!Written(mem[s], <<>>) EXCEPT !.length = mem[s].pos]
<1>1. /\ StreamFine(s, mem[s], owner[s]) /\ Fits(mem[s]) /\ mem[s].pos \in Nat /\ MaxLength[s] \in Nat
      /\ FilePos[s] = mem[s].pos /\ FileFirst[s] = mem[s].allocated /\ FileBytes[s] = S!Contents(mem[s])
      /\ Len(FileBytes[s]) = mem[s].length
  BY AsFile, FineIs
<1>2. owner[s] = "owned" /\ mem[s].pos <= MaxLength[s]
  BY <1>1 DEF S!Truncate, S!InBounds
<1>3. StreamInv' /\ S!File!Truncate(s)
  <2>1. CASE mem[s].pos > 0 /\ mem[s].allocated = 0
    <3>1. S!Lose(s)
      BY <2>1 DEF S!Truncate
    <3>2. StreamInv' /\ S!File!Lose(s)
      BY <3>1, StreamLose
    <3> QED BY <1>1, <1>2, <2>1, <3>2 DEF S!File!Truncate, FilePos, FileFirst
  <2>2. CASE ~(mem[s].pos > 0 /\ mem[s].allocated = 0)
    <3>1. S!Put(s, w, owner[s])
      BY <2>2 DEF S!Truncate
    <3>2. /\ Fits(w) /\ w.length = mem[s].pos /\ w.pos = mem[s].pos /\ w.allocated = mem[s].allocated
          /\ Len(S!Contents(w)) = mem[s].pos
          /\ \A i \in 1 .. mem[s].pos : i <= mem[s].length => S!Contents(w)[i] = S!Contents(mem[s])[i]
      BY <1>1, <2>2, TruncatedIs DEF CutTo
    <3> HIDE DEF w
    <3>3. StreamFine(s, w, owner[s])
      BY <1>1, <1>2, <3>2 DEF StreamFine
    <3>4. /\ StreamInv' /\ owner' = [owner EXCEPT ![s] = owner[s]]
          /\ ChangedAt(FileBytes', FileBytes, s, S!Contents(w)) /\ ChangedAt(FilePos', FilePos, s, w.pos)
          /\ ChangedAt(FileFirst', FileFirst, s, w.allocated)
      BY <3>1, <3>3, PutIs, StreamPut
    <3>5. /\ owner' = owner /\ FileFirst' = FileFirst
          /\ FileBytes'[s] = S!Contents(w) /\ FilePos'[s] = w.pos
          /\ \A r \in Streams \ {s} : FileBytes'[r] = FileBytes[r] /\ FilePos'[r] = FilePos[r]
      BY <3>2, <3>4, StreamStays
    <3>6. /\ Len(FileBytes'[s]) = FilePos[s]
          /\ \A i \in 1 .. FilePos[s] : i <= Len(FileBytes[s]) => FileBytes'[s][i] = FileBytes[s][i]
          /\ FilePos'[s] = FilePos[s]
      BY <1>1, <3>2, <3>5
    <3> QED BY <1>2, <3>4, <3>5, <3>6
            DEF S!File!Truncate, S!File!MoveTo, S!File!Others, FileBytes, FilePos, FileFirst
  <2> QED BY <2>1, <2>2
<1> QED BY <1>3 DEF S!File!Next

\* Two streams change.
PutsBoth(d, s, v, u, p, o) ==
  /\ d # s
  /\ mem' = [mem EXCEPT ![d] = v, ![s] = u] /\ owner' = [owner EXCEPT ![d] = p, ![s] = o]

ChangedAtBoth(g, f, d, s, x, y) == g = [f EXCEPT ![d] = x, ![s] = y]

LEMMA StreamPutBoth ==
  ASSUME StreamInv, calls' \in 0 .. MaxCalls, NEW d \in Streams, NEW s \in Streams, NEW v, NEW u, NEW p, NEW o,
         PutsBoth(d, s, v, u, p, o), StreamFine(d, v, p), StreamFine(s, u, o)
  PROVE  /\ StreamInv' /\ d # s /\ owner' = [owner EXCEPT ![d] = p, ![s] = o]
         /\ ChangedAtBoth(FileBytes', FileBytes, d, s, S!Contents(v), S!Contents(u))
         /\ ChangedAtBoth(FilePos', FilePos, d, s, v.pos, u.pos)
         /\ ChangedAtBoth(FileFirst', FileFirst, d, s, v.allocated, u.allocated)
<1>1. mem = [r \in Streams |-> mem[r]] /\ owner = [r \in Streams |-> owner[r]]
  BY DEF StreamInv
<1>2. /\ mem' = [r \in Streams |-> mem'[r]] /\ owner' = [r \in Streams |-> owner'[r]]
      /\ mem'[s] = u /\ owner'[s] = o /\ mem'[d] = v /\ owner'[d] = p /\ d # s
      /\ \A r \in Streams \ {d, s} : mem'[r] = mem[r] /\ owner'[r] = owner[r]
  BY <1>1 DEF PutsBoth
<1>3. StreamInv'
  <2>1. \A r \in Streams : StreamFine(r, mem'[r], owner'[r])
    BY <1>2 DEF StreamInv
  <2> QED BY <1>2, <2>1 DEF StreamInv
<1>4. /\ ChangedAtBoth(FileBytes', FileBytes, d, s, S!Contents(v), S!Contents(u))
      /\ ChangedAtBoth(FilePos', FilePos, d, s, v.pos, u.pos)
      /\ ChangedAtBoth(FileFirst', FileFirst, d, s, v.allocated, u.allocated)
  BY <1>2 DEF ChangedAtBoth, FileBytes, FilePos, FileFirst
<1> QED BY <1>2, <1>3, <1>4 DEF PutsBoth

LEMMA StreamMoveFrom ==
  ASSUME StreamInv, calls' \in 0 .. MaxCalls, NEW s \in Streams, NEW d \in Streams, S!MoveFrom(d, s)
  PROVE  StreamInv' /\ S!File!Next
<1> DEFINE v == [mem[s] EXCEPT !.allocated = mem[s].length, !.pos = 0]
<1>1. /\ S!IsOpen(s) /\ owner[d] # "lost" /\ d # s /\ mem[s].length <= MaxLength[d]
      /\ PutsBoth(d, s, v, S!Closed, "owned", "closed")
  BY DEF S!MoveFrom, PutsBoth
<1>2. /\ Fits(mem[s]) /\ mem[s].length \in 0 .. S!Size(mem[s]) /\ mem[s].length \in Nat
      /\ FileBytes[s] = S!Contents(mem[s]) /\ Len(FileBytes[s]) = mem[s].length
  BY AsFile DEF Fits
<1>3. AdjustedTo(v, mem[s], mem[s].length, mem[s].length, 0)
  BY <1>2 DEF AdjustedTo, Fits
<1> HIDE DEF v
<1>4. /\ Fits(v) /\ v.length = mem[s].length /\ v.pos = 0 /\ v.allocated = mem[s].length
      /\ S!Contents(v) = S!Contents(mem[s])
  <2>1. Fits(v) /\ v.length = mem[s].length /\ v.pos = 0 /\ v.allocated = mem[s].length
    BY <1>2, <1>3, Adjusted
  <2>2. S!Contents(v) = S!Contents(mem[s])
    BY <1>2, <1>3, Adjusted
  <2> QED BY <2>1, <2>2
<1>5. StreamFine(d, v, "owned") /\ StreamFine(s, S!Closed, "closed") /\ S!Closed.allocated = 0
  BY <1>1, <1>4, ClosedFits, StreamAssumption DEF StreamFine, S!Closed
<1>6. /\ StreamInv' /\ owner' = [owner EXCEPT ![d] = "owned", ![s] = "closed"]
      /\ ChangedAtBoth(FileBytes', FileBytes, d, s, S!Contents(v), S!Contents(S!Closed))
      /\ ChangedAtBoth(FilePos', FilePos, d, s, v.pos, S!Closed.pos)
      /\ ChangedAtBoth(FileFirst', FileFirst, d, s, v.allocated, S!Closed.allocated)
  BY <1>1, <1>5, StreamPutBoth
<1>7. /\ FileBytes' = [FileBytes EXCEPT ![d] = FileBytes[s], ![s] = <<>>]
      /\ FilePos' = [FilePos EXCEPT ![d] = 0, ![s] = 0]
      /\ FileFirst' = [FileFirst EXCEPT ![d] = Len(FileBytes[s]), ![s] = 0]
  BY <1>2, <1>4, <1>5, <1>6, ClosedFits DEF ChangedAtBoth
<1>8. S!File!MoveFrom(d, s)
  BY <1>6, <1>7 DEF S!File!MoveFrom, FileBytes, FilePos, FileFirst
<1> QED BY <1>1, <1>6, <1>8 DEF S!File!Next, S!IsOpen, S!File!IsOpen

LEMMA StreamReadFrom ==
  ASSUME StreamInv, calls' \in 0 .. MaxCalls, NEW s \in Streams, NEW d \in Streams, S!ReadFrom(d, s)
  PROVE  StreamInv' /\ S!File!Next
<1> DEFINE len == mem[s].block[mem[s].pos]
           at == mem[s].pos + 1
           o == [mem[s] EXCEPT !.pos = at]
           got == S!Got(o, len)
           u == [mem[s] EXCEPT !.pos = at + len]
           v == S!Opened(got, len)
           w == [mem[s] EXCEPT !.pos = mem[s].length]
<1>1. /\ owner[d] = "closed" /\ S!IsOpen(s) /\ at <= mem[s].length /\ d # s
      /\ \/ /\ len \in 0 .. mem[s].length - at /\ len <= MaxLength[d]
            /\ mem' = [mem EXCEPT ![d] = v, ![s].pos = at + len] /\ owner' = [owner EXCEPT ![d] = "owned"]
         \/ len \notin 0 .. mem[s].length - at /\ S!Put(s, w, owner[s])
  BY DEF S!ReadFrom
<1>2. /\ StreamFine(s, mem[s], owner[s]) /\ Fits(mem[s]) /\ mem[s].pos \in Nat /\ mem[s].length \in Nat
      /\ mem[s].length <= MaxLength[s] /\ MaxLength[s] \in Nat /\ MaxLength[d] \in Nat /\ mem[s].allocated \in Nat
      /\ FileBytes[s] = S!Contents(mem[s]) /\ Len(FileBytes[s]) = mem[s].length /\ FilePos[s] = mem[s].pos
  BY AsFile, FineIs, StreamAssumption
<1>3. /\ mem[s].allocated \in 0 .. S!Size(mem[s]) /\ mem[s].length \in 0 .. S!Size(mem[s])
  BY <1>2 DEF Fits
<1>4. CASE len \notin 0 .. mem[s].length - at /\ S!Put(s, w, owner[s])
  <2>1. mem[s].length \in 0 .. MaxLength[s] + 1 /\ Puts(s, w, owner[s])
    <3>1. mem[s].length \in 0 .. MaxLength[s] + 1
      BY <1>2
    <3> HIDE DEF w
    <3>2. Puts(s, w, owner[s])
      BY <1>4, PutIs
    <3> QED BY <3>1, <3>2
  <2>2. StreamInv' /\ S!File!MoveTo(s, mem[s].length) /\ FileBytes' = FileBytes
    <3>1. AtPosition(w, mem[s], mem[s].length)
      BY DEF AtPosition
    <3>2. S!IsOpen(s)
      BY <1>1
    <3> HIDE DEF w
    <3>3. \A q \in 0 .. MaxLength[s] + 1 :
            AtPosition(w, mem[s], q) => StreamInv' /\ S!File!MoveTo(s, q) /\ FileBytes' = FileBytes
      BY <2>1, <3>2, StreamMoves
    <3> QED BY <2>1, <3>1, <3>3 DEF S!File!MoveTo
  <2>8. PICK n \in Nat : n = mem[s].length + 1
    BY <1>2
  <2>3. n \in 1 .. Len(FileBytes[s]) + 1 /\ ~(FilePos[s] > Len(FileBytes[s]))
    BY <1>1, <1>2, <2>8
  <2>4. mem[s].length = FilePos[s] + (IF FilePos[s] + n > Len(FileBytes[s]) THEN Len(FileBytes[s]) - FilePos[s] ELSE n)
    <3>1. FilePos[s] \in Nat /\ Len(FileBytes[s]) \in Nat /\ Len(FileBytes[s]) = mem[s].length
      BY <1>2
    <3> QED BY <2>8, <3>1
  <2>5. S!File!Read(s, n)
    BY <2>2, <2>3, <2>4
       DEF S!File!Read, S!File!Left, S!File!MoveTo, S!File!Others, FilePos, FileBytes, FileFirst
  <2>6. S!IsOpen(s)
    BY <1>1
  <2>7. \E z \in 1 .. Len(FileBytes[s]) + 1 : S!File!IsOpen(s) /\ S!File!Read(s, z)
    BY <2>3, <2>5, <2>6 DEF S!IsOpen, S!File!IsOpen
  <2> QED BY <2>2, <2>7 DEF S!File!Next, FileBytes
<1>5. CASE /\ len \in 0 .. mem[s].length - at /\ len <= MaxLength[d]
           /\ mem' = [mem EXCEPT ![d] = v, ![s].pos = at + len] /\ owner' = [owner EXCEPT ![d] = "owned"]
  <2>1. PutsBoth(d, s, v, u, "owned", owner[s])
    <3>1. mem = [r \in Streams |-> mem[r]] /\ owner = [r \in Streams |-> owner[r]]
      BY DEF StreamInv
    <3> HIDE DEF v, len
    <3>2. owner' = [owner EXCEPT ![d] = "owned", ![s] = owner[s]]
      BY <1>1, <1>5, <3>1
    <3>3. mem' = [mem EXCEPT ![d] = v, ![s] = u]
      BY <1>1, <1>5, <3>1
    <3> QED BY <1>1, <3>2, <3>3 DEF PutsBoth
  <2> HIDE DEF len
  <2>2. at \in Nat /\ at + len \in Nat /\ len \in Nat
    BY <1>2, <1>5
  <2>3. /\ AdjustedTo(o, mem[s], mem[s].allocated, mem[s].length, at)
        /\ AdjustedTo(u, mem[s], mem[s].allocated, mem[s].length, at + len)
    BY <1>2 DEF AdjustedTo, Fits
  <2> HIDE DEF o, u, v, got
  <2>4. Fits(o) /\ o.length = mem[s].length /\ o.pos = at /\ S!Contents(o) = S!Contents(mem[s])
    BY <1>2, <1>3, <2>2, <2>3, Adjusted
  <2>5. /\ Fits(u) /\ u.length = mem[s].length /\ u.pos = at + len /\ u.allocated = mem[s].allocated
        /\ S!Contents(u) = S!Contents(mem[s])
    <3>1. Fits(u) /\ u.length = mem[s].length /\ u.pos = at + len /\ u.allocated = mem[s].allocated
      BY <1>2, <1>3, <2>2, <2>3, Adjusted
    <3>2. S!Contents(u) = S!Contents(mem[s])
      BY <1>2, <1>3, <2>2, <2>3, Adjusted
    <3> QED BY <3>1, <3>2
  <2>6. IsText(got) /\ Len(got) = len /\ got = SubSeq(S!Contents(mem[s]), at + 1, at + len)
    <3>1. o.pos <= o.length
      BY <1>1, <1>2, <2>4
    <3>2. /\ IsText(got) /\ Len(got) = IF o.pos + len > o.length THEN o.length - o.pos ELSE len
          /\ got = SubSeq(S!Contents(o), o.pos + 1, o.pos + Len(got))
      BY <2>2, <2>4, <3>1, GotIs DEF got
    <3>3. Len(got) = len
      BY <1>2, <1>5, <2>2, <2>4, <3>2, SMTT(40)
    <3> QED BY <2>4, <3>2, <3>3
  <2>7. Fits(v) /\ v.length = len /\ v.pos = 0 /\ v.allocated = len /\ S!Contents(v) = got
    <3>1. len <= len
      BY <2>2
    <3> QED BY <2>2, <2>6, <3>1, OpenedIs DEF v
  <2>8. StreamFine(d, v, "owned")
    BY <1>2, <1>5, <2>2, <2>7 DEF StreamFine
  <2>9. StreamFine(s, u, owner[s])
    <3>1. u.pos <= MaxLength[s] + 1
      <4>1. /\ mem[s].pos \in Nat /\ mem[s].length \in Nat /\ MaxLength[s] \in Nat /\ mem[s].length <= MaxLength[s]
            /\ len \in Nat /\ len <= mem[s].length - at /\ u.pos = at + len
        BY <1>2, <1>5, <2>2, <2>5
      <4> QED BY <4>1
    <3> QED BY <1>1, <1>2, <2>5, <3>1 DEF StreamFine, S!IsOpen
  <2>10. /\ StreamInv' /\ owner' = [owner EXCEPT ![d] = "owned", ![s] = owner[s]]
         /\ ChangedAtBoth(FileBytes', FileBytes, d, s, S!Contents(v), S!Contents(u))
         /\ ChangedAtBoth(FilePos', FilePos, d, s, v.pos, u.pos)
         /\ ChangedAtBoth(FileFirst', FileFirst, d, s, v.allocated, u.allocated)
    BY <2>1, <2>8, <2>9, StreamPutBoth
  <2>11. FileBytes[s][FilePos[s] + 1] = len
    <3>1. at \in 1 .. mem[s].length /\ at - 1 = mem[s].pos
      BY <1>1, <1>2
    <3> HIDE DEF at
    <3>2. S!Contents(mem[s])[at] = mem[s].block[at - 1]
      BY <1>2, <3>1, ContentsAre, Zenon
    <3> QED BY <1>2, <3>1, <3>2 DEF len, at
  <2>12. FilePos[s] < Len(FileBytes[s]) /\ len \in 0 .. Len(FileBytes[s]) - FilePos[s] - 1
    BY <1>1, <1>2, <1>5
  <2>13. /\ owner' = [owner EXCEPT ![d] = "owned"]
         /\ FileBytes' = [FileBytes EXCEPT ![d] = SubSeq(FileBytes[s], FilePos[s] + 2, FilePos[s] + 1 + len)]
         /\ FilePos' = [FilePos EXCEPT ![s] = FilePos[s] + 1 + len, ![d] = 0]
         /\ FileFirst' = [FileFirst EXCEPT ![d] = len]
    <3>1. at + 1 = FilePos[s] + 2 /\ at + len = FilePos[s] + 1 + len
      BY <1>2, <2>2
    <3> HIDE DEF at
    <3>2. FileBytes' = [FileBytes EXCEPT ![d] = SubSeq(FileBytes[s], FilePos[s] + 2, FilePos[s] + 1 + len)]
      <4>1. S!Contents(v) = SubSeq(FileBytes[s], FilePos[s] + 2, FilePos[s] + 1 + len) /\ S!Contents(u) = FileBytes[s]
        BY <1>2, <2>5, <2>6, <2>7, <3>1
      <4> QED BY <1>1, <2>10, <4>1 DEF ChangedAtBoth, FileBytes
    <3>3. FilePos' = [FilePos EXCEPT ![s] = FilePos[s] + 1 + len, ![d] = 0]
      BY <1>1, <2>5, <2>7, <2>10, <3>1 DEF ChangedAtBoth, FilePos
    <3>4. FileFirst' = [FileFirst EXCEPT ![d] = len]
      BY <1>1, <2>5, <2>7, <2>10 DEF ChangedAtBoth, FileFirst
    <3> QED BY <1>5, <3>2, <3>3, <3>4
  <2>14. S!File!Deserialize(d, s)
    BY <1>1, <2>11, <2>12, <2>13 DEF S!File!Deserialize, S!File!Becomes, FileBytes, FilePos, FileFirst
  <2> QED BY <1>1, <2>10, <2>14 DEF S!File!Next, S!IsOpen, S!File!IsOpen
<1> QED BY <1>1, <1>4, <1>5

LEMMA StreamWriteTo ==
  ASSUME StreamInv, calls' \in 0 .. MaxCalls, NEW s \in Streams, NEW d \in Streams, S!WriteTo(s, d)
  PROVE  StreamInv' /\ S!File!Next
<1> DEFINE head == <<mem[s].length>>
           body == S!Contents(mem[s])
           m == S!Written(mem[d], head)
           w == S!Written(m, body)
<1>1. /\ StreamFine(d, mem[d], owner[d]) /\ Fits(mem[s]) /\ Fits(mem[d]) /\ mem[s].length \in Nat
      /\ MaxLength[d] \in Nat /\ mem[d].pos \in Nat /\ mem[d].length \in Nat /\ mem[d].length <= MaxLength[d]
      /\ mem[d].allocated \in Nat
      /\ FileBytes[d] = S!Contents(mem[d]) /\ FilePos[d] = mem[d].pos /\ FileFirst[d] = mem[d].allocated
      /\ FileBytes[s] = S!Contents(mem[s]) /\ Len(FileBytes[s]) = mem[s].length /\ Len(FileBytes[d]) = mem[d].length
  BY AsFile, FineIs
<1>2. /\ IsText(head) /\ Len(head) = 1 /\ IsText(body) /\ Len(body) = mem[s].length
      /\ head \o body = <<Len(FileBytes[s])>> \o FileBytes[s] /\ Len(head \o body) = 1 + mem[s].length
  <2>1. IsText(head) /\ Len(head) = 1
    BY DEF IsText
  <2>2. IsText(body) /\ Len(body) = mem[s].length
    BY <1>1, ContentsAre
  <2>3. head \o body = <<Len(FileBytes[s])>> \o FileBytes[s]
    BY <1>1
  <2> HIDE DEF head, body
  <2>4. Len(head \o body) = 1 + mem[s].length
    <3>1. Len(head) = 1 /\ Len(body) = mem[s].length /\ mem[s].length \in Nat
      BY <1>1, <2>1, <2>2
    <3>2. Len(head \o body) = 1 + Len(body) /\ Len(body) \in Nat
      BY <2>2 DEF IsText, head
    <3> QED BY <3>1, <3>2
  <2> QED BY <2>1, <2>2, <2>3, <2>4
<1>3. /\ d # s /\ S!IsOpen(s) /\ owner[d] = "owned" /\ mem[d].pos + (1 + mem[s].length) <= MaxLength[d]
      /\ IF S!Keeps(mem[d], Len(head)) /\ S!Keeps(m, Len(body)) THEN S!Put(d, w, owner[d]) ELSE S!Lose(d)
  BY <1>2 DEF S!WriteTo, S!InBounds
<1> HIDE DEF w, head, body
<1>4. S!Keeps(mem[d], 1) =>
        /\ Fits(m) /\ m.pos = mem[d].pos + 1 /\ m.allocated = mem[d].allocated
        /\ m.length = IF mem[d].pos + 1 > mem[d].length THEN mem[d].pos + 1 ELSE mem[d].length
        /\ S!File!IsOver(S!Contents(m), S!Contents(mem[d]), mem[d].pos, head)
  <2> SUFFICES ASSUME S!Keeps(mem[d], Len(head))
               PROVE  /\ Fits(m) /\ m.pos = mem[d].pos + 1 /\ m.allocated = mem[d].allocated
                      /\ m.length = IF mem[d].pos + 1 > mem[d].length THEN mem[d].pos + 1 ELSE mem[d].length
                      /\ S!File!IsOver(S!Contents(m), S!Contents(mem[d]), mem[d].pos, head)
    BY <1>2
  <2>1. /\ Fits(m) /\ m.pos = mem[d].pos + Len(head) /\ m.allocated = mem[d].allocated
        /\ m.length = IF mem[d].pos + Len(head) > mem[d].length THEN mem[d].pos + Len(head) ELSE mem[d].length
        /\ S!File!IsOver(S!Contents(m), S!Contents(mem[d]), mem[d].pos, head)
    BY <1>1, <1>2, WrittenIs
  <2> HIDE DEF m
  <2> QED BY <1>2, <2>1
<1> HIDE DEF m
<1>5. CASE S!Keeps(mem[d], Len(head)) /\ S!Keeps(m, Len(body))
  <2>1. /\ Fits(m) /\ m.pos = mem[d].pos + 1 /\ m.allocated = mem[d].allocated
        /\ m.length = IF mem[d].pos + 1 > mem[d].length THEN mem[d].pos + 1 ELSE mem[d].length
        /\ S!File!IsOver(S!Contents(m), S!Contents(mem[d]), mem[d].pos, head)
    BY <1>2, <1>4, <1>5
  <2>2. /\ Fits(w) /\ w.pos = m.pos + Len(body) /\ w.allocated = m.allocated
        /\ w.length = IF m.pos + Len(body) > m.length THEN m.pos + Len(body) ELSE m.length
        /\ S!File!IsOver(S!Contents(w), S!Contents(m), m.pos, body)
    BY <1>2, <1>5, <2>1, WrittenIs DEF w
  <2>3. S!File!IsOver(S!Contents(w), S!Contents(mem[d]), mem[d].pos, head \o body)
    <3>1. Len(S!Contents(mem[d])) \in Nat
      BY <1>1, ContentsAre
    <3> QED BY <1>1, <1>2, <2>1, <2>2, <3>1, OverTwice
  <2>4. w.pos = mem[d].pos + (1 + mem[s].length)
    <3>1. /\ mem[d].pos \in Nat /\ mem[s].length \in Nat /\ m.pos = mem[d].pos + 1
          /\ w.pos = m.pos + mem[s].length
      BY <1>1, <1>2, <2>1, <2>2
    <3> QED BY <3>1
  <2>5. StreamFine(d, w, owner[d])
    <3>1. /\ mem[d].pos \in Nat /\ mem[d].length \in Nat /\ mem[s].length \in Nat /\ MaxLength[d] \in Nat
          /\ mem[d].length <= MaxLength[d] /\ w.pos <= MaxLength[d]
      BY <1>1, <1>3, <2>4
    <3>2. m.length <= MaxLength[d]
      <4>1. m.pos <= MaxLength[d] /\ m.pos = mem[d].pos + 1
        BY <1>3, <2>1, <3>1
      <4> QED BY <2>1, <3>1, <4>1
    <3>3. w.length = w.pos \/ w.length = m.length
      BY <2>2
    <3>4. w.length <= MaxLength[d]
      BY <3>1, <3>2, <3>3
    <3>5. w.pos <= MaxLength[d] + 1
      <4>1. w.pos \in Nat
        BY <2>4, <3>1
      <4> QED BY <3>1, <4>1
    <3> QED BY <1>3, <2>2, <3>4, <3>5 DEF StreamFine
  <2>6. /\ StreamInv' /\ owner' = [owner EXCEPT ![d] = owner[d]]
        /\ ChangedAt(FileBytes', FileBytes, d, S!Contents(w)) /\ ChangedAt(FilePos', FilePos, d, w.pos)
        /\ ChangedAt(FileFirst', FileFirst, d, w.allocated)
    BY <1>3, <1>5, <2>5, PutIs, StreamPut
  <2>7. /\ owner' = owner /\ FileFirst' = FileFirst
        /\ FileBytes'[d] = S!Contents(w) /\ FilePos'[d] = w.pos
        /\ \A r \in Streams \ {d} : FileBytes'[r] = FileBytes[r] /\ FilePos'[r] = FilePos[r]
    BY <2>1, <2>2, <2>6, StreamStays
  <2>8. /\ S!File!IsOver(FileBytes'[d], FileBytes[d], FilePos[d], <<Len(FileBytes[s])>> \o FileBytes[s])
        /\ FilePos'[d] = FilePos[d] + Len(<<Len(FileBytes[s])>> \o FileBytes[s])
    BY <1>1, <1>2, <2>3, <2>4, <2>7
  <2>9. S!File!Write(d, <<Len(FileBytes[s])>> \o FileBytes[s])
    BY <1>3, <2>7, <2>8 DEF S!File!Write, S!File!MoveTo, S!File!Others, FileBytes, FilePos, FileFirst
  <2>10. S!File!Serialize(d, s)
    BY <2>9 DEF S!File!Serialize, FileBytes
  <2> QED BY <1>3, <2>6, <2>10 DEF S!File!Next, S!IsOpen, S!File!IsOpen
<1>6. CASE ~(S!Keeps(mem[d], Len(head)) /\ S!Keeps(m, Len(body)))
  <2>1. StreamInv' /\ S!File!Lose(d)
    <3>1. S!Lose(d)
      BY <1>3, <1>6
    <3> QED BY <3>1, StreamLose
  <2>2. CASE ~S!Keeps(mem[d], Len(head))
    <3>1. S!File!Cuts(d, 1)
      BY <1>2, <2>2, CutsIs
    <3>2. S!File!Serialize(d, s)
      BY <1>3, <2>1, <3>1 DEF S!File!Serialize
    <3> QED BY <1>3, <2>1, <3>2 DEF S!File!Next, S!IsOpen, S!File!IsOpen
  <2>3. CASE S!Keeps(mem[d], Len(head)) /\ ~S!Keeps(m, Len(body))
    <3> DEFINE a == mem[d].allocated
               end == mem[d].pos + (1 + mem[s].length)
               z == S!Doubled(m, end)
    <3>1. /\ m.pos = mem[d].pos + 1 /\ m.allocated = a
          /\ m.length = IF mem[d].pos + 1 > mem[d].length THEN mem[d].pos + 1 ELSE mem[d].length
      BY <1>2, <1>4, <2>3
    <3>2. m.pos + Len(body) = end /\ end \in Nat
      <4>1. /\ mem[d].pos \in Nat /\ mem[s].length \in Nat /\ m.pos = mem[d].pos + 1
            /\ Len(body) = mem[s].length
        BY <1>1, <1>2, <3>1
      <4> QED BY <4>1
    <3>3. end > a /\ (a > 0 => ~(z >= m.length))
      BY <1>1, <2>3, <3>1, <3>2 DEF S!Keeps
    <3>4. a # 0 => z \in Nat /\ z >= end
      BY <1>1, <3>1, <3>2, DoubledIs
    <3> HIDE DEF z
    <3>5. end > a /\ (a = 0 \/ end < mem[d].length)
      BY <1>1, <3>1, <3>3, <3>4
    <3>6. S!File!Cuts(d, Len(<<Len(FileBytes[s])>> \o FileBytes[s]))
      BY <1>1, <1>2, <3>5 DEF S!File!Cuts, FileBytes, FilePos, FileFirst
    <3>7. S!File!Serialize(d, s)
      BY <1>3, <2>1, <3>6 DEF S!File!Serialize, S!File!Write, FileBytes
    <3> QED BY <1>3, <2>1, <3>7 DEF S!File!Next, S!IsOpen, S!File!IsOpen
  <2> QED BY <1>6, <2>2, <2>3
<1> QED BY <1>5, <1>6

LEMMA StreamCopy ==
  ASSUME StreamInv, calls' \in 0 .. MaxCalls, NEW s \in Streams, NEW d \in Streams,
         NEW n \in 1 .. mem[s].length + 1 - mem[s].pos, S!Copy(d, s, n)
  PROVE  StreamInv' /\ S!File!Next
<1> DEFINE t == S!Padded(mem[s], n)
           k == IF mem[s].pos + n > mem[s].length THEN mem[s].length - mem[s].pos ELSE n
           u == [mem[s] EXCEPT !.pos = mem[s].pos + k]
           w == S!Written(mem[d], t)
<1>1. /\ StreamFine(d, mem[d], owner[d]) /\ StreamFine(s, mem[s], owner[s])
      /\ Fits(mem[s]) /\ Fits(mem[d]) /\ mem[s].length \in Nat /\ mem[s].pos \in Nat
      /\ MaxLength[s] \in Nat /\ mem[s].length <= MaxLength[s]
      /\ MaxLength[d] \in Nat /\ mem[d].pos \in Nat /\ mem[d].length \in Nat /\ mem[d].length <= MaxLength[d]
      /\ FileBytes[s] = S!Contents(mem[s]) /\ FilePos[s] = mem[s].pos /\ Len(FileBytes[s]) = mem[s].length
      /\ FileBytes[d] = S!Contents(mem[d]) /\ FilePos[d] = mem[d].pos
  BY AsFile, FineIs
<1>2. d # s /\ S!IsOpen(s) /\ mem[s].pos <= mem[s].length /\ S!InBounds(d, n) /\ n \in Nat
  BY <1>1 DEF S!Copy
<1>3. /\ IsText(t) /\ Len(t) = n /\ k \in 0 .. n /\ Len(S!Got(mem[s], n)) = k
      /\ SubSeq(t, 1, k) = SubSeq(S!Contents(mem[s]), mem[s].pos + 1, mem[s].pos + k)
  BY <1>1, <1>2, PaddedIs
<1>4. \/ owner[d] = "lent" /\ PutsBoth(d, s, mem[d], u, "lent", owner[s])
      \/ owner[d] = "owned" /\ S!Keeps(mem[d], n) /\ PutsBoth(d, s, w, u, "owned", owner[s])
      \/ owner[d] = "owned" /\ ~S!Keeps(mem[d], n) /\ PutsBoth(d, s, S!Closed, u, "lost", owner[s])
  <2> DEFINE Put2(m, o) == mem' = [mem EXCEPT ![d] = m, ![s] = u] /\ owner' = [owner EXCEPT ![d] = o]
  <2>1. \/ owner[d] = "lent" /\ Put2(mem[d], "lent")
        \/ owner[d] = "owned" /\ S!Keeps(mem[d], n) /\ Put2(w, "owned")
        \/ owner[d] = "owned" /\ ~S!Keeps(mem[d], n) /\ Put2(S!Closed, "lost")
    BY <1>3 DEF S!Copy
  <2>2. ASSUME NEW m, NEW o, Put2(m, o) PROVE PutsBoth(d, s, m, u, o, owner[s])
    <3> HIDE DEF u
    <3>1. owner' = [owner EXCEPT ![d] = o, ![s] = owner[s]]
      BY <1>2, <2>2 DEF StreamInv
    <3> QED BY <1>2, <2>2, <3>1 DEF PutsBoth
  <2> HIDE DEF Put2, w
  <2> QED BY <2>1, <2>2
<1>5. mem[s].pos + k \in Nat /\ mem[s].pos + k <= mem[s].length
  <2>1. mem[s].length \in Nat /\ mem[s].pos \in Nat /\ mem[s].pos <= mem[s].length /\ n \in Nat
    BY <1>1, <1>2
  <2> QED BY <2>1
<1> HIDE DEF w, t, k
<1>6. AdjustedTo(u, mem[s], mem[s].allocated, mem[s].length, mem[s].pos + k)
  BY <1>1 DEF AdjustedTo, Fits
<1> HIDE DEF u
<1>7. /\ Fits(u) /\ u.length = mem[s].length /\ u.pos = mem[s].pos + k /\ u.allocated = mem[s].allocated
      /\ S!Contents(u) = S!Contents(mem[s])
  <2> DEFINE m == mem[s]
             a == m.allocated
             l == m.length
             p == mem[s].pos + k
  <2>1. Fits(m) /\ a \in 0 .. S!Size(m) /\ l \in 0 .. S!Size(m) /\ p \in Nat /\ AdjustedTo(u, m, a, l, p)
    BY <1>1, <1>5, <1>6 DEF Fits
  <2> HIDE DEF m, a, l, p
  <2>2. Fits(u) /\ u.length = l /\ u.pos = p /\ u.allocated = a /\ (l = m.length => S!Contents(u) = S!Contents(m))
    BY <2>1, Adjusted
  <2> QED BY <2>2 DEF m, a, l, p
<1>8. StreamFine(s, u, owner[s])
  <2>1. u.length <= MaxLength[s] /\ u.pos <= MaxLength[s] + 1
    BY <1>1, <1>5, <1>7
  <2> QED BY <1>1, <1>2, <1>7, <2>1 DEF StreamFine, S!IsOpen
\* What happens to the destination.
<1>9. ASSUME NEW m, NEW o, StreamFine(d, m, o), PutsBoth(d, s, m, u, o, owner[s])
      PROVE  /\ StreamInv' /\ owner' = [owner EXCEPT ![d] = o]
             /\ FileFirst' = [FileFirst EXCEPT ![d] = m.allocated]
             /\ FileBytes'[d] = S!Contents(m) /\ FileBytes'[s] = FileBytes[s]
             /\ FilePos'[d] = m.pos /\ FilePos'[s] = FilePos[s] + k
             /\ \A r \in Streams \ {d, s} : FileBytes'[r] = FileBytes[r] /\ FilePos'[r] = FilePos[r]
  <2>1. /\ StreamInv' /\ owner' = [owner EXCEPT ![d] = o, ![s] = owner[s]]
        /\ ChangedAtBoth(FileBytes', FileBytes, d, s, S!Contents(m), S!Contents(u))
        /\ ChangedAtBoth(FilePos', FilePos, d, s, m.pos, u.pos)
        /\ ChangedAtBoth(FileFirst', FileFirst, d, s, m.allocated, u.allocated)
    BY <1>8, <1>9, StreamPutBoth
  <2>2. owner' = [owner EXCEPT ![d] = o]
    BY <1>2, <2>1 DEF StreamInv
  <2>3. FileFirst' = [FileFirst EXCEPT ![d] = m.allocated]
    BY <1>2, <1>7, <2>1 DEF ChangedAtBoth, FileFirst
  <2>4. /\ FileBytes'[d] = S!Contents(m) /\ FileBytes'[s] = FileBytes[s]
        /\ \A r \in Streams \ {d, s} : FileBytes'[r] = FileBytes[r]
    BY <1>1, <1>2, <1>7, <2>1 DEF ChangedAtBoth, FileBytes
  <2>5. /\ FilePos'[d] = m.pos /\ FilePos'[s] = FilePos[s] + k
        /\ \A r \in Streams \ {d, s} : FilePos'[r] = FilePos[r]
    BY <1>1, <1>2, <1>7, <2>1 DEF ChangedAtBoth, FilePos
  <2> QED BY <2>1, <2>2, <2>3, <2>4, <2>5
<1> DEFINE Taken == /\ FileBytes'[s] = FileBytes[s] /\ FilePos'[s] = FilePos[s] + k
                    /\ \A r \in Streams \ {d, s} : FileBytes'[r] = FileBytes[r] /\ FilePos'[r] = FilePos[r]
           Same == owner' = owner /\ FileFirst' = FileFirst
           Written ==
             /\ owner[d] = "owned" /\ Same
             /\ FilePos'[d] = FilePos[d] + n /\ FilePos'[d] <= Len(FileBytes'[d])
             /\ S!File!IsOver(FileBytes'[d], FileBytes[d], FilePos[d], t)
             /\ SubSeq(FileBytes'[d], FilePos[d] + 1, FilePos[d] + n) = t
           Refused == owner[d] = "lent" /\ Same /\ FileBytes'[d] = FileBytes[d] /\ FilePos'[d] = FilePos[d]
           Destroyed == /\ owner[d] = "owned" /\ S!File!Cuts(d, n) /\ S!File!Becomes(d, "lost", 0)
                        /\ FileBytes'[d] = <<>> /\ FilePos'[d] = 0
<1>10. StreamInv' /\ Taken /\ (Written \/ Refused \/ Destroyed)
  <2>1. CASE owner[d] = "lent" /\ PutsBoth(d, s, mem[d], u, "lent", owner[s])
    <3>1. StreamFine(d, mem[d], "lent")
      BY <1>1, <2>1
    <3>2. /\ StreamInv' /\ Taken /\ owner' = [owner EXCEPT ![d] = "lent"]
          /\ FileFirst' = [FileFirst EXCEPT ![d] = mem[d].allocated]
          /\ FileBytes'[d] = FileBytes[d] /\ FilePos'[d] = FilePos[d]
      BY <1>1, <1>9, <2>1, <3>1
    <3>3. Same
      BY <2>1, <3>2 DEF StreamInv, FileFirst
    <3> QED BY <2>1, <3>2, <3>3
  <2>2. CASE owner[d] = "owned" /\ S!Keeps(mem[d], n) /\ PutsBoth(d, s, w, u, "owned", owner[s])
    <3>1. /\ Fits(w) /\ w.pos = mem[d].pos + n /\ w.allocated = mem[d].allocated
          /\ w.length = IF mem[d].pos + n > mem[d].length THEN mem[d].pos + n ELSE mem[d].length
          /\ S!File!IsOver(S!Contents(w), S!Contents(mem[d]), mem[d].pos, t)
      BY <1>1, <1>3, <2>2, WrittenIs DEF w
    <3>2. StreamFine(d, w, "owned")
      <4>1. mem[d].pos + n <= MaxLength[d]
        BY <1>2, <2>2 DEF S!InBounds
      <4>2. w.length <= MaxLength[d] /\ w.pos <= MaxLength[d] + 1
        BY <1>1, <1>2, <3>1, <4>1
      <4> QED BY <3>1, <4>2 DEF StreamFine
    <3>3. /\ StreamInv' /\ Taken /\ owner' = [owner EXCEPT ![d] = "owned"]
          /\ FileFirst' = [FileFirst EXCEPT ![d] = w.allocated]
          /\ FileBytes'[d] = S!Contents(w) /\ FilePos'[d] = w.pos
      BY <1>9, <2>2, <3>2
    <3>4. Same
      BY <2>2, <3>1, <3>3 DEF StreamInv, FileFirst
    <3>5. /\ mem[d].pos + Len(t) <= Len(S!Contents(w))
          /\ SubSeq(S!Contents(w), mem[d].pos + 1, mem[d].pos + Len(t)) = t
      <4>1. IsText(S!Contents(w)) /\ Len(S!Contents(mem[d])) \in Nat /\ mem[d].pos \in Nat
        BY <1>1, <3>1, ContentsAre
      <4>2. IsText(t) /\ S!File!IsOver(S!Contents(w), S!Contents(mem[d]), mem[d].pos, t)
        BY <1>3, <3>1
      <4> QED BY <4>1, <4>2, OverPart
    <3> QED BY <1>1, <1>3, <2>2, <3>1, <3>3, <3>4, <3>5
  <2>3. CASE owner[d] = "owned" /\ ~S!Keeps(mem[d], n) /\ PutsBoth(d, s, S!Closed, u, "lost", owner[s])
    <3>1. StreamFine(d, S!Closed, "lost") /\ S!Closed.allocated = 0
      BY <1>1, ClosedFits DEF StreamFine, S!Closed
    <3>2. /\ StreamInv' /\ Taken /\ owner' = [owner EXCEPT ![d] = "lost"]
          /\ FileFirst' = [FileFirst EXCEPT ![d] = 0]
          /\ FileBytes'[d] = <<>> /\ FilePos'[d] = 0
      BY <1>9, <2>3, <3>1, ClosedFits
    <3>3. S!File!Cuts(d, n)
      BY <1>2, <2>3, CutsIs
    <3>4. S!File!Becomes(d, "lost", 0)
      BY <3>2 DEF S!File!Becomes, FileFirst
    <3> QED BY <2>3, <3>2, <3>3, <3>4
  <2> QED BY <1>4, <2>1, <2>2, <2>3
<1>11. /\ k = S!File!Left(s, n) /\ FilePos[s] <= Len(FileBytes[s])
       /\ SubSeq(t, 1, k) = SubSeq(FileBytes[s], FilePos[s] + 1, FilePos[s] + k)
  <2>1. k = S!File!Left(s, n)
    BY <1>1 DEF S!File!Left, FileBytes, FilePos, k
  <2> QED BY <1>1, <1>2, <1>3, <2>1
<1>12. S!File!Copy(d, s, n)
  <2>1. CASE Written
    BY <1>10, <1>11, <2>1 DEF S!File!Copy, S!File!Others, FileBytes, FilePos, FileFirst
  <2>2. CASE Refused
    BY <1>10, <1>11, <2>2 DEF S!File!Copy, S!File!Others, FileBytes, FilePos, FileFirst
  <2>3. CASE Destroyed
    BY <1>10, <1>11, <2>3 DEF S!File!Copy, S!File!Others, FileBytes, FilePos, FileFirst
  <2> QED BY <1>10, <2>1, <2>2, <2>3
<1>13. n \in 1 .. Len(FileBytes[s]) + 1 - FilePos[s]
  BY <1>1
<1> QED BY <1>2, <1>10, <1>12, <1>13 DEF S!File!Next, FileBytes, FilePos, S!IsOpen, S!File!IsOpen

LEMMA StreamStep ==
  ASSUME StreamInv, S!Next
  PROVE  StreamInv' /\ S!File!Next
<1>1. calls' \in 0 .. MaxCalls
  BY StreamAssumption DEF S!Next, StreamInv
<1>2. PICK s \in Streams : S!Look(s) \/ S!Change(s)
  BY DEF S!Next
<1>3. CASE S!Look(s)
  BY <1>1, <1>3, StreamRead, StreamSeek DEF S!Look
<1>4. CASE S!Change(s)
  BY <1>1, <1>4, StreamCreate, StreamOpen, StreamClose, StreamWrite, StreamTruncate, StreamMoveFrom,
     StreamWriteTo, StreamReadFrom, StreamReadNothing, StreamCopy DEF S!Change
<1> QED BY <1>2, <1>3, <1>4

LEMMA StreamStay ==
  ASSUME StreamInv, UNCHANGED streamVars
  PROVE  StreamInv' /\ UNCHANGED S!File!vars
<1>1. StreamInv'
  BY DEF StreamInv, streamVars
<1>2. UNCHANGED <<owner, FileBytes, FilePos, FileFirst>>
  BY DEF FileBytes, FilePos, FileFirst, streamVars
<1> QED BY <1>1, <1>2, FileIs

LEMMA StreamInit ==
  ASSUME S!Init
  PROVE  StreamInv /\ S!File!Init
<1>1. ASSUME NEW s \in Streams
      PROVE  StreamFine(s, mem[s], owner[s]) /\ mem[s].pos = 0 /\ owner[s] = "owned"
  <2> DEFINE b == StreamsFilled[s]
             z == IF b = <<>> THEN FirstSize ELSE Len(b)
  <2>1. b \in Seq(Bytes) /\ Len(b) <= MaxLength[s] /\ FirstSize \in Nat /\ MaxLength[s] \in Nat
    BY StreamAssumption
  <2>2. IsText(b) /\ z \in Nat /\ Len(b) <= z
    BY <2>1 DEF IsText
  <2>3. mem[s] = S!Opened(b, z) /\ owner[s] = "owned"
    BY DEF S!Init
  <2> HIDE DEF b, z
  <2>4. Fits(mem[s]) /\ mem[s].length = Len(b) /\ mem[s].pos = 0
    BY <2>2, <2>3, OpenedIs
  <2> QED BY <2>1, <2>3, <2>4 DEF StreamFine
<1>2. StreamInv
  BY <1>1, StreamAssumption DEF S!Init, StreamInv
<1>3. FilePos = [s \in Streams |-> 0]
  BY <1>1 DEF FilePos
<1>4. DOMAIN owner = Streams /\ \A s \in Streams : owner[s] # "lost"
  BY <1>1, <1>2 DEF StreamInv
<1> QED BY <1>2, <1>3, <1>4 DEF S!File!Init, FilePos

LEMMA StreamSafe ==
  ASSUME StreamInv
  PROVE  S!TypeOK /\ S!Sound
<1>1. \A s \in Streams : /\ owner[s] \in {"closed", "lent", "owned", "lost"}
                         /\ mem[s].length \in 0 .. MaxLength[s] /\ mem[s].pos \in 0 .. MaxLength[s] + 1
                         /\ mem[s].length <= S!Size(mem[s]) /\ mem[s].allocated <= S!Size(mem[s])
  <2> TAKE s \in Streams
  <2>1. StreamFine(s, mem[s], owner[s])
    BY DEF StreamInv
  <2>2. /\ MaxLength[s] \in Nat /\ mem[s].length \in Nat /\ mem[s].pos \in Nat /\ mem[s].allocated \in Nat
        /\ mem[s].length <= MaxLength[s] /\ mem[s].pos <= MaxLength[s] + 1
        /\ S!Size(mem[s]) \in Nat /\ mem[s].length <= S!Size(mem[s]) /\ mem[s].allocated <= S!Size(mem[s])
    BY <2>1, FineIs
  <2> QED BY <2>1, <2>2 DEF StreamFine
<1> QED BY <1>1 DEF S!TypeOK, S!Sound, StreamInv

-----------------------------------------------------------------------------
(* StringCore: strings that share counted data *)

\* How many strings lead to block b.
Sharing(f, b) == Cardinality({s \in Strings : f[s] = b})

Counted(f, d) ==
  /\ f \in [Strings -> Blocks \cup {NULL}]
  /\ d \in [Blocks -> [ref : 0 .. MaxShares, text : Seq({1, 2})]]
  /\ \A b \in Blocks : d[b].ref >= Sharing(f, b)

\* String s is made to lead to v: one string more leads there, one less to where it led.
Recounted(f, g, s, v, b) ==
  /\ Sharing(f, b) \in Nat /\ Sharing(g, b) \in Nat
  /\ Sharing(g, b) = Sharing(f, b) - (IF f[s] = b THEN 1 ELSE 0) + (IF v = b THEN 1 ELSE 0)
  /\ f[s] = b => Sharing(f, b) > 0

LEMMA SharingIs ==
  ASSUME NEW f \in [Strings -> Blocks \cup {NULL}], NEW s \in Strings, NEW v \in Blocks \cup {NULL},
         NEW b, NEW g, g = [f EXCEPT ![s] = v]
  PROVE  Recounted(f, g, s, v, b)
<1> DEFINE F == {r \in Strings : f[r] = b}
           G == {r \in Strings : g[r] = b}
           R == F \ {s}
<1>1. IsFiniteSet(F) /\ IsFiniteSet(R) /\ F \subseteq Strings
  BY TextAssumption, FS_Subset, FS_RemoveElement
<1>2. Cardinality(F) \in Nat /\ Cardinality(R) = Cardinality(F) - (IF f[s] = b THEN 1 ELSE 0)
  <2>1. s \in F <=> f[s] = b
    OBVIOUS
  <2> HIDE DEF F
  <2>2. Cardinality(R) = IF s \in F THEN Cardinality(F) - 1 ELSE Cardinality(F)
    BY <1>1, FS_RemoveElement
  <2>3. Cardinality(F) \in Nat
    BY <1>1, FS_CardinalityType
  <2> QED BY <2>1, <2>2, <2>3
<1>3. G = IF v = b THEN R \cup {s} ELSE R
  OBVIOUS
<1>4. Cardinality(G) = Cardinality(R) + (IF v = b THEN 1 ELSE 0)
  <2>1. s \notin R
    OBVIOUS
  <2>2. Cardinality(R) \in Nat
    BY <1>1, FS_CardinalityType
  <2> HIDE DEF R, G
  <2>3. CASE v = b
    <3>1. Cardinality(R \cup {s}) = Cardinality(R) + 1
      BY <1>1, <2>1, FS_AddElement
    <3> QED BY <1>3, <2>2, <2>3, <3>1
  <2>4. CASE v # b
    BY <1>3, <2>2, <2>4
  <2> QED BY <2>3, <2>4
<1>5. Cardinality(R) \in Nat
  BY <1>1, FS_CardinalityType
<1> HIDE DEF F, G, R
<1>6. /\ Cardinality(F) \in Nat /\ Cardinality(G) \in Nat
      /\ Cardinality(G) = Cardinality(F) - (IF f[s] = b THEN 1 ELSE 0) + (IF v = b THEN 1 ELSE 0)
      /\ f[s] = b => Cardinality(F) > 0
  BY <1>2, <1>4, <1>5
<1> QED BY <1>6 DEF Recounted, Sharing, F, G

\* The block that s led to has one reference less.
LEMMA ReleasedCounted ==
  ASSUME Counted(str, data), NEW s \in Strings
  PROVE  Counted([str EXCEPT ![s] = NULL], C!Released(s)) /\ Counted([str EXCEPT ![s] = NULL], data)
<1> DEFINE g == [str EXCEPT ![s] = NULL]
<1>1. g \in [Strings -> Blocks \cup {NULL}] /\ NULL \notin Blocks
  BY DelegateAssumption DEF Counted
<1>2. \A b \in Blocks : /\ Sharing(str, b) \in Nat /\ Sharing(g, b) \in Nat
                        /\ Sharing(g, b) = Sharing(str, b) - (IF str[s] = b THEN 1 ELSE 0)
                        /\ str[s] = b => Sharing(str, b) > 0
  <2> TAKE b \in Blocks
  <2>1. Recounted(str, g, s, NULL, b)
    <3> HIDE DEF g
    <3>1. str \in [Strings -> Blocks \cup {NULL}] /\ g = [str EXCEPT ![s] = NULL] /\ NULL \in Blocks \cup {NULL}
      BY DEF Counted, g
    <3> QED BY <3>1, SharingIs
  <2> QED BY <1>1, <2>1 DEF Recounted
<1>3. \A b \in Blocks : data[b].ref \in 0 .. MaxShares /\ data[b].text \in Seq({1, 2})
  BY DEF Counted
<1> HIDE DEF g
<1>4. Counted(g, data)
  BY <1>1, <1>2, <1>3 DEF Counted
<1>5. CASE str[s] = NULL
  <2>1. C!Released(s) = data
    BY <1>5 DEF C!Released
  <2> QED BY <1>4, <2>1 DEF g
<1>6. CASE str[s] # NULL
  <2> DEFINE x == str[s]
             y == IF data[x].ref = 1 THEN C!Free ELSE [ref |-> data[x].ref - 1, text |-> data[x].text]
             d == [data EXCEPT ![x] = y]
  <2>1. x \in Blocks
    BY <1>6 DEF Counted
  <2>2. C!Released(s) = d
    BY <1>6 DEF C!Released
  <2>3. data[x].ref \in 1 .. MaxShares
    BY <1>2, <1>3, <2>1, TextAssumption DEF Counted
  <2>4. y \in [ref : 0 .. MaxShares, text : Seq({1, 2})] /\ y.ref = data[x].ref - 1
    <3>1. data[x] \in [ref : 0 .. MaxShares, text : Seq({1, 2})]
      BY <2>1 DEF Counted
    <3>2. <<>> \in Seq({1, 2})
      OBVIOUS
    <3>3. MaxShares \in Nat
      BY TextAssumption
    <3> QED BY <2>3, <3>1, <3>2, <3>3 DEF C!Free
  <2> HIDE DEF y
  <2>5. d \in [Blocks -> [ref : 0 .. MaxShares, text : Seq({1, 2})]]
    BY <2>1, <2>4 DEF Counted
  <2>6. \A b \in Blocks : d[b].ref >= Sharing(g, b)
    <3> TAKE b \in Blocks
    <3>1. CASE b = x
      <4>1. d[b].ref = data[x].ref - 1
        BY <2>1, <2>4, <3>1 DEF Counted
      <4>2. data[x].ref >= Sharing(str, x)
        BY <2>1 DEF Counted
      <4> QED BY <1>2, <2>1, <2>3, <3>1, <4>1, <4>2
    <3>2. CASE b # x
      <4>1. d[b].ref = data[b].ref
        BY <3>2 DEF Counted
      <4> QED BY <1>2, <1>4, <3>2, <4>1 DEF Counted
    <3> QED BY <3>1, <3>2
  <2>7. Counted(g, d)
    BY <1>1, <2>5, <2>6 DEF Counted
  <2> QED BY <1>4, <2>2, <2>7 DEF g
<1> QED BY <1>4, <1>5, <1>6

\* New data for s, in a block that nobody refers to.
LEMMA StoredCounted ==
  ASSUME NEW s \in Strings, NEW text \in Seq({1, 2}), NEW d, Counted([str EXCEPT ![s] = NULL], d),
         str \in [Strings -> Blocks \cup {NULL}], C!Stored(s, text, d)
  PROVE  Counted(str', data')
<1> DEFINE f == [str EXCEPT ![s] = NULL]
           z == [ref |-> 1, text |-> text]
<1>1. PICK a \in Blocks : d[a].ref = 0 /\ data' = [d EXCEPT ![a] = z] /\ str' = [str EXCEPT ![s] = a]
  BY DEF C!Stored, C!FreeBlocks
<1>2. f \in [Strings -> Blocks \cup {NULL}] /\ f[s] = NULL /\ str' = [f EXCEPT ![s] = a]
  BY <1>1
<1> HIDE DEF f
<1>3. \A b \in Blocks : Sharing(f, b) \in Nat /\ Sharing(str', b) = Sharing(f, b) + (IF a = b THEN 1 ELSE 0)
  <2> TAKE b \in Blocks
  <2>1. a \in Blocks \cup {NULL}
    OBVIOUS
  <2>2. Recounted(f, str', s, a, b)
    BY <1>2, <2>1, SharingIs
  <2> QED BY <1>2, <2>2, DelegateAssumption DEF Recounted
<1>4. d \in [Blocks -> [ref : 0 .. MaxShares, text : Seq({1, 2})]] /\ \A b \in Blocks : d[b].ref >= Sharing(f, b)
  BY DEF Counted, f
<1>5. z \in [ref : 0 .. MaxShares, text : Seq({1, 2})] /\ z.ref = 1
  BY TextAssumption
<1> HIDE DEF z
<1>6. data' \in [Blocks -> [ref : 0 .. MaxShares, text : Seq({1, 2})]]
  BY <1>1, <1>4, <1>5
<1>7. \A b \in Blocks : data'[b].ref >= Sharing(str', b)
  <2> TAKE b \in Blocks
  <2>1. CASE b = a
    <3>1. data'[b].ref = 1
      BY <1>1, <1>4, <1>5, <2>1
    <3>2. Sharing(f, a) \in Nat /\ 0 >= Sharing(f, a)
      BY <1>1, <1>3, <1>4
    <3>3. Sharing(str', b) = Sharing(f, a) + 1
      BY <1>3, <2>1
    <3> QED BY <3>1, <3>2, <3>3
  <2>2. CASE b # a
    <3>1. data'[b].ref = d[b].ref
      BY <1>1, <1>4, <2>2
    <3>2. Sharing(str', b) = Sharing(f, b) + 0 /\ Sharing(f, b) \in Nat /\ d[b].ref >= Sharing(f, b)
      BY <1>3, <1>4, <2>2
    <3> QED BY <3>1, <3>2
  <2> QED BY <2>1, <2>2
<1>8. str' \in [Strings -> Blocks \cup {NULL}]
  BY <1>1, <1>2
<1> QED BY <1>6, <1>7, <1>8 DEF Counted

\* s refers to a block that another string refers to, and counts.
LEMMA SharedCounted ==
  ASSUME NEW s \in Strings, NEW x \in Blocks, NEW d, Counted([str EXCEPT ![s] = NULL], d),
         str \in [Strings -> Blocks \cup {NULL}], d[x].ref < MaxShares,
         str' = [str EXCEPT ![s] = x], data' = [d EXCEPT ![x].ref = @ + 1]
  PROVE  Counted(str', data')
<1> DEFINE f == [str EXCEPT ![s] = NULL]
           z == [d[x] EXCEPT !.ref = @ + 1]
<1>1. data' = [d EXCEPT ![x] = z]
  OBVIOUS
<1>2. f \in [Strings -> Blocks \cup {NULL}] /\ f[s] = NULL /\ str' = [f EXCEPT ![s] = x]
  OBVIOUS
<1> HIDE DEF f
<1>3. \A b \in Blocks : Sharing(f, b) \in Nat /\ Sharing(str', b) = Sharing(f, b) + (IF x = b THEN 1 ELSE 0)
  <2> TAKE b \in Blocks
  <2>1. x \in Blocks \cup {NULL}
    OBVIOUS
  <2>2. Recounted(f, str', s, x, b)
    BY <1>2, <2>1, SharingIs
  <2> QED BY <1>2, <2>2, DelegateAssumption DEF Recounted
<1>4. d \in [Blocks -> [ref : 0 .. MaxShares, text : Seq({1, 2})]] /\ \A b \in Blocks : d[b].ref >= Sharing(f, b)
  BY DEF Counted, f
<1>5. z \in [ref : 0 .. MaxShares, text : Seq({1, 2})] /\ z.ref = d[x].ref + 1 /\ d[x].ref \in Nat
  <2> DEFINE w == d[x]
  <2>1. w \in [ref : 0 .. MaxShares, text : Seq({1, 2})] /\ w.ref < MaxShares /\ MaxShares \in Nat
    BY <1>4, TextAssumption
  <2>2. z = [w EXCEPT !.ref = w.ref + 1]
    OBVIOUS
  <2> HIDE DEF w, z
  <2>3. z = [ref |-> w.ref + 1, text |-> w.text] /\ w.ref \in Nat
    BY <2>1, <2>2
  <2> QED BY <2>1, <2>3 DEF w
<1> HIDE DEF z
<1>6. data' \in [Blocks -> [ref : 0 .. MaxShares, text : Seq({1, 2})]]
  BY <1>1, <1>4, <1>5
<1>7. \A b \in Blocks : data'[b].ref >= Sharing(str', b)
  <2> TAKE b \in Blocks
  <2>1. CASE b = x
    <3>1. data'[b].ref = d[x].ref + 1
      BY <1>1, <1>4, <1>5, <2>1
    <3>2. Sharing(str', b) = Sharing(f, x) + 1 /\ Sharing(f, x) \in Nat /\ d[x].ref >= Sharing(f, x)
      BY <1>3, <1>4, <2>1
    <3> QED BY <1>5, <3>1, <3>2
  <2>2. CASE b # x
    <3>1. data'[b].ref = d[b].ref
      BY <1>1, <1>4, <2>2
    <3>2. Sharing(str', b) = Sharing(f, b) + 0 /\ Sharing(f, b) \in Nat /\ d[b].ref >= Sharing(f, b)
      BY <1>3, <1>4, <2>2
    <3> QED BY <3>1, <3>2
  <2> QED BY <2>1, <2>2
<1>8. str' \in [Strings -> Blocks \cup {NULL}]
  BY <1>2
<1> QED BY <1>6, <1>7, <1>8 DEF Counted
\* A part of a text, and a text that white space was taken from.
LEMMA PartIs ==
  ASSUME NEW t \in Seq({1, 2}), NEW a \in 1 .. Len(t) + 1, NEW b \in a - 1 .. Len(t)
  PROVE  SubSeq(t, a, b) \in Seq({1, 2})
BY SubSeqProperties

LEMMA FoundIs ==
  ASSUME NEW T \in SUBSET Nat, NEW n \in Nat, \A x \in T : x < n
  PROVE  /\ C!First(T) \in -1 .. n - 1 /\ C!Last_(T) \in -1 .. n - 1
         /\ T # {} => C!First(T) # -1
<1>1. CASE T = {}
  BY <1>1 DEF C!First, C!Last_
<1>2. CASE T # {}
  <2>1. C!First(T) \in T
    BY <1>2, Least DEF C!First
  <2>2. C!Last_(T) \in T
    <3>1. \A x \in T : x <= n
      OBVIOUS
    <3> QED BY <1>2, <3>1, Greatest DEF C!Last_
  <2>3. \A x \in T : x \in -1 .. n - 1 /\ x # -1
    OBVIOUS
  <2> QED BY <2>1, <2>2, <2>3
<1> QED BY <1>1, <1>2

LEMMA TrimIs ==
  ASSUME NEW t \in Seq({1, 2})
  PROVE  C!Trim(t) \in Seq({1, 2})
<1>1. ASSUME NEW u \in Seq({1, 2})
      PROVE  C!LTrim(u) \in Seq({1, 2}) /\ C!RTrim(u) \in Seq({1, 2})
  <2> DEFINE i == C!First(C!Printed(u)) + 1
             j == C!Last_(C!Printed(u)) + 1
  <2>1. /\ i \in 0 .. Len(u) /\ j \in 0 .. Len(u) /\ Len(u) \in Nat
        /\ C!Printed(u) # {} => i # 0
    <3>1. Len(u) \in Nat /\ C!Printed(u) \in SUBSET Nat /\ \A x \in C!Printed(u) : x < Len(u)
      BY DEF C!Printed
    <3> HIDE DEF i, j
    <3>2. /\ C!First(C!Printed(u)) \in -1 .. Len(u) - 1 /\ C!Last_(C!Printed(u)) \in -1 .. Len(u) - 1
          /\ C!Printed(u) # {} => C!First(C!Printed(u)) # -1
      BY <3>1, FoundIs
    <3> QED BY <3>1, <3>2 DEF i, j
  <2>2. C!LTrim(u) = <<>> \/ (i # 0 /\ C!LTrim(u) = SubSeq(u, i, Len(u)))
    BY <2>1 DEF C!LTrim
  <2>3. C!RTrim(u) = SubSeq(u, 1, j)
    BY DEF C!RTrim
  <2> HIDE DEF i, j
  <2>4. i # 0 => SubSeq(u, i, Len(u)) \in Seq({1, 2})
    BY <2>1, PartIs
  <2>5. SubSeq(u, 1, j) \in Seq({1, 2})
    BY <2>1, PartIs
  <2>6. <<>> \in Seq({1, 2})
    OBVIOUS
  <2> QED BY <2>2, <2>3, <2>4, <2>5, <2>6
<1> QED BY <1>1 DEF C!Trim

LEMMA ValueIs ==
  ASSUME Counted(str, data), NEW s \in Strings
  PROVE  C!Value(s) \in Seq({1, 2})
<1>1. str[s] \in Blocks \cup {NULL}
  BY DEF Counted
<1>2. str[s] \in Blocks => data[str[s]].text \in Seq({1, 2})
  BY DEF Counted
<1> QED BY <1>1, <1>2 DEF C!Value

\* Whatever is made for s while it keeps its block, which is lost.
LEMMA MakeCounted ==
  ASSUME Counted(str, data), NEW s \in Strings, NEW text \in Seq({1, 2}), C!Stored(s, text, data)
  PROVE  Counted(str', data')
BY ReleasedCounted, StoredCounted DEF Counted

LEMMA CoreText ==
  ASSUME Counted(str, data), NEW s \in Strings, NEW text \in StringTexts,
         C!Construct(s, text) \/ C!AssignText(s, text)
  PROVE  Counted(str', data')
<1>1. text \in Seq({1, 2}) /\ str \in [Strings -> Blocks \cup {NULL}]
  BY TextAssumption DEF Counted
<1>2. Counted([str EXCEPT ![s] = NULL], data) /\ Counted([str EXCEPT ![s] = NULL], C!Released(s))
  BY ReleasedCounted
<1>3. CASE C!Construct(s, text)
  BY <1>1, <1>3, MakeCounted DEF C!Construct
<1>4. CASE C!AssignText(s, text)
  BY <1>1, <1>2, <1>4, StoredCounted DEF C!AssignText
<1> QED BY <1>3, <1>4

LEMMA CoreClear ==
  ASSUME Counted(str, data), NEW s \in Strings, C!Clear(s)
  PROVE  Counted(str', data')
BY ReleasedCounted DEF C!Clear

LEMMA CoreAssign ==
  ASSUME Counted(str, data), NEW s \in Strings, NEW t \in Strings, C!Assign(s, t)
  PROVE  Counted(str', data')
<1>1. CASE s = t
  BY <1>1, CoreClear DEF C!Assign
<1>2. CASE s # t /\ str[t] = NULL
  <2>1. str' = [str EXCEPT ![s] = NULL] /\ data' = C!Released(s)
    BY <1>2 DEF C!Assign
  <2> QED BY <2>1, ReleasedCounted
<1>3. CASE s # t /\ str[t] # NULL
  <2> DEFINE x == str[t]
             d == C!Released(s)
  <2>1. /\ data[x].ref < MaxShares /\ str' = [str EXCEPT ![s] = x]
        /\ data' = [d EXCEPT ![x].ref = @ + 1]
    BY <1>3 DEF C!Assign
  <2>2. x \in Blocks /\ str \in [Strings -> Blocks \cup {NULL}] /\ Counted([str EXCEPT ![s] = NULL], d)
    BY <1>3, ReleasedCounted DEF Counted
  <2>3. d[x].ref < MaxShares
    <3>1. data[x].ref \in Nat /\ MaxShares \in Nat \ {0} /\ data \in [Blocks -> [ref : 0 .. MaxShares, text : Seq({1, 2})]]
      BY <2>2, TextAssumption DEF Counted
    <3>2. CASE str[s] # x
      <4>1. d[x] = data[x]
        <5>1. CASE str[s] = NULL
          BY <5>1 DEF C!Released
        <5>2. CASE str[s] # NULL
          BY <2>2, <3>1, <3>2, <5>2 DEF C!Released
        <5> QED BY <5>1, <5>2
      <4> QED BY <2>1, <4>1
    <3>3. CASE str[s] = x
      <4>1. d = [data EXCEPT ![x] = IF data[x].ref = 1 THEN C!Free ELSE [ref |-> data[x].ref - 1, text |-> data[x].text]]
        BY <1>3, <3>3 DEF C!Released
      <4>2. d[x].ref = IF data[x].ref = 1 THEN 0 ELSE data[x].ref - 1
        BY <2>2, <3>1, <4>1 DEF C!Free
      <4> HIDE DEF d, x
      <4> QED BY <2>1, <3>1, <4>2
    <3> QED BY <3>2, <3>3
  <2> HIDE DEF d, x
  <2> QED BY <2>1, <2>2, <2>3, SharedCounted
<1> QED BY <1>1, <1>2, <1>3

LEMMA CoreMove ==
  ASSUME Counted(str, data), NEW s \in Strings, NEW t \in Strings, C!Move(s, t)
  PROVE  Counted(str', data')
<1> DEFINE x == str[t]
           f == [str EXCEPT ![t] = NULL]
           g == [f EXCEPT ![s] = x]
<1>1. f \in [Strings -> Blocks \cup {NULL}] /\ x \in Blocks \cup {NULL} /\ f[t] = NULL /\ NULL \notin Blocks
  BY DelegateAssumption DEF Counted
<1>2. \A b \in Blocks : Recounted(str, f, t, NULL, b) /\ Recounted(f, g, s, x, b)
  <2> TAKE b \in Blocks
  <2>1. str \in [Strings -> Blocks \cup {NULL}] /\ NULL \in Blocks \cup {NULL}
    BY DEF Counted
  <2>2. Recounted(str, f, t, NULL, b)
    BY <2>1, SharingIs
  <2> HIDE DEF f, x
  <2>3. Recounted(f, g, s, x, b)
    BY <1>1, SharingIs
  <2> QED BY <2>2, <2>3
<1>3. data' = data /\ str' = [str EXCEPT ![s] = x, ![t] = NULL]
  BY DEF C!Move
<1>4. CASE s = t
  <2>1. str' = f
    BY <1>3, <1>4
  <2> QED BY <1>3, <2>1, ReleasedCounted
<1>5. CASE s # t
  <2>1. str' = g
    BY <1>3, <1>5 DEF Counted
  <2>2. g \in [Strings -> Blocks \cup {NULL}]
    BY <1>1
  <2>3. \A b \in Blocks : data[b].ref >= Sharing(g, b)
    <3> TAKE b \in Blocks
    <3>1. data[b].ref >= Sharing(str, b) /\ data[b].ref \in Nat
      BY TextAssumption DEF Counted
    <3>2. Recounted(str, f, t, NULL, b) /\ Recounted(f, g, s, x, b)
      BY <1>2
    <3>3. Sharing(f, b) = Sharing(str, b) - (IF x = b THEN 1 ELSE 0) /\ Sharing(str, b) \in Nat
      BY <1>1, <3>2 DEF Recounted
    <3>4. Sharing(g, b) <= Sharing(f, b) + (IF x = b THEN 1 ELSE 0) /\ Sharing(g, b) \in Nat /\ Sharing(f, b) \in Nat
      BY <3>2 DEF Recounted
    <3> HIDE DEF f, g, x
    <3> QED BY <3>1, <3>3, <3>4
  <2> HIDE DEF g
  <2> QED BY <1>3, <2>1, <2>2, <2>3 DEF Counted
<1> QED BY <1>4, <1>5

LEMMA CoreMake ==
  ASSUME Counted(str, data), NEW s \in Strings, NEW t \in Strings,
         C!MakeTrimmed(s, t) \/ C!SubStringOf(s, t) \/ C!Concatenated(s, t)
  PROVE  Counted(str', data')
<1>1. C!Value(s) \in Seq({1, 2}) /\ C!Value(t) \in Seq({1, 2})
  BY ValueIs
<1>2. CASE C!MakeTrimmed(s, t)
  <2>1. CASE str[t] = NULL
    <3>1. str' = [str EXCEPT ![s] = NULL] /\ data' = data
      BY <1>2, <2>1 DEF C!MakeTrimmed
    <3> QED BY <3>1, ReleasedCounted
  <2>2. CASE str[t] # NULL /\ C!Trim(C!Value(t)) = C!Value(t)
    <3> DEFINE x == str[t]
    <3>1. data[x].ref < MaxShares /\ str' = [str EXCEPT ![s] = x] /\ data' = [data EXCEPT ![x].ref = @ + 1]
      BY <1>2, <2>2 DEF C!MakeTrimmed
    <3>2. x \in Blocks /\ str \in [Strings -> Blocks \cup {NULL}] /\ Counted([str EXCEPT ![s] = NULL], data)
      BY <2>2, ReleasedCounted DEF Counted
    <3> HIDE DEF x
    <3> QED BY <3>1, <3>2, SharedCounted
  <2>3. CASE str[t] # NULL /\ C!Trim(C!Value(t)) # C!Value(t)
    <3>1. C!Stored(s, C!Trim(C!Value(t)), data)
      BY <1>2, <2>3 DEF C!MakeTrimmed, C!Make
    <3> QED BY <1>1, <3>1, TrimIs, MakeCounted
  <2> QED BY <2>1, <2>2, <2>3
<1>3. CASE C!SubStringOf(s, t)
  <2> DEFINE v == C!Value(t)
  <2>1. PICK start \in 0 .. Len(v) : C!Stored(s, C!SubString(v, start, Len(v) - start), data)
    BY <1>3 DEF C!SubStringOf, C!Make
  <2> HIDE DEF v
  <2>2. v \in Seq({1, 2}) /\ Len(v) \in Nat
    BY <1>1 DEF v
  <2>3. C!SubString(v, start, Len(v) - start) = SubSeq(v, start + 1, Len(v))
    <3>1. ~(start < 0) /\ ~(Len(v) - start < 0) /\ start + (Len(v) - start) = Len(v)
      BY <2>2
    <3> QED BY <3>1 DEF C!SubString
  <2>4. SubSeq(v, start + 1, Len(v)) \in Seq({1, 2})
    <3>1. start + 1 \in 1 .. Len(v) + 1 /\ Len(v) \in (start + 1) - 1 .. Len(v)
      BY <2>2
    <3> QED BY <2>2, <3>1, PartIs
  <2> QED BY <2>1, <2>3, <2>4, MakeCounted
<1>4. CASE C!Concatenated(s, t)
  <2>1. C!Value(s) \o C!Value(t) \in Seq({1, 2}) /\ C!Stored(s, C!Value(s) \o C!Value(t), data)
    BY <1>1, <1>4 DEF C!Concatenated, C!Make
  <2> QED BY <2>1, MakeCounted
<1> QED BY <1>2, <1>3, <1>4

LEMMA CoreStep ==
  ASSUME Counted(str, data), C!Next \/ UNCHANGED stringVars
  PROVE  Counted(str', data')
<1>1. CASE UNCHANGED stringVars
  BY <1>1 DEF stringVars
<1>2. CASE C!Next
  BY <1>2, CoreText, CoreClear, CoreAssign, CoreMove, CoreMake DEF C!Next
<1> QED BY <1>1, <1>2

LEMMA CoreInit ==
  ASSUME C!Init
  PROVE  Counted(str, data)
<1>1. str \in [Strings -> Blocks \cup {NULL}] /\ \A s \in Strings : str[s] = NULL
  BY DEF C!Init
<1>2. \A b \in Blocks : Sharing(str, b) = 0
  <2> TAKE b \in Blocks
  <2>1. {s \in Strings : str[s] = b} = {}
    BY <1>1, DelegateAssumption
  <2> QED BY <2>1, FS_EmptySet DEF Sharing
<1>3. data = [b \in Blocks |-> [ref |-> 0, text |-> <<>>]]
  BY DEF C!Init, C!Free
<1>4. [ref |-> 0, text |-> <<>>] \in [ref : 0 .. MaxShares, text : Seq({1, 2})]
  BY TextAssumption
<1> QED BY <1>1, <1>2, <1>3, <1>4 DEF Counted

LEMMA CoreSafe ==
  ASSUME Counted(str, data)
  PROVE  C!TypeOK /\ C!DataHeld
<1>1. C!TypeOK
  BY DEF Counted, C!TypeOK
<1>2. C!DataHeld
  BY DEF Counted, C!DataHeld, Sharing, C!Cardinality, Cardinality
<1> QED BY <1>1, <1>2

-----------------------------------------------------------------------------
(* StringBuilder: the characters are in the block *)

Letters == UNION {W!Range(t) : t \in BuilderTexts}
Written(c) == c \in Letters \cup {NUL}

Kept(m, n, h) ==
  /\ IsText(m) /\ n \in Nat /\ h \in BOOLEAN
  /\ n <= Len(m) /\ Short <= Len(m) /\ (h = FALSE => Len(m) = Short)
  /\ \A i \in 1 .. n : Written(m[i])

\* What was given is whole, unless it was freed or copied as wide characters.
Given(b) == b.wide \/ b.freed \/ (IsText(b.text) /\ \A i \in 1 .. Len(b.text) : Written(b.text[i]))

\* The bound is reached by a terminator only, so none is added to it.
BuilderInv ==
  /\ Kept(chars, length, heap) /\ length <= MaxBuilt
  /\ length = MaxBuilt => chars[length] = NUL
  /\ Given(built)

LEMMA LettersAre ==
  /\ \A t \in BuilderTexts : IsText(t) /\ \A i \in 1 .. Len(t) : Written(t[i])
  /\ \A c : Written(c) => c # JUNK
<1>1. \A t \in BuilderTexts :
        t \in Seq({t[i] : i \in 1 .. Len(t)} \ {NUL, JUNK}) /\ NUL # JUNK
  BY TextAssumption
<1>2. ASSUME NEW t \in BuilderTexts
      PROVE  /\ IsText(t) /\ DOMAIN t = 1 .. Len(t)
             /\ \A i \in 1 .. Len(t) : t[i] \in W!Range(t) /\ t[i] # JUNK
  <2> DEFINE T == {t[i] : i \in 1 .. Len(t)} \ {NUL, JUNK}
  <2>1. t \in Seq(T)
    BY <1>1
  <2>2. NUL \notin T /\ JUNK \notin T
    OBVIOUS
  <2> HIDE DEF T
  <2>3. IsText(t) /\ DOMAIN t = 1 .. Len(t) /\ \A i \in 1 .. Len(t) : t[i] \in T
    BY <2>1 DEF IsText
  <2> QED BY <2>2, <2>3 DEF W!Range
<1>3. \A t \in BuilderTexts : IsText(t) /\ \A i \in 1 .. Len(t) : Written(t[i])
  BY <1>2 DEF Written, Letters
<1>4. ASSUME NEW c \in Letters PROVE c # JUNK
  <2>1. PICK t \in BuilderTexts : c \in W!Range(t)
    BY DEF Letters
  <2>2. PICK i \in 1 .. Len(t) : c = t[i]
    BY <1>2, <2>1 DEF W!Range
  <2> QED BY <1>2, <2>2
<1> QED BY <1>3, <1>4, TextAssumption DEF Written

\* The block after n characters more has room for them.
LEMMA RoomIs ==
  ASSUME NEW n \in Nat
  PROVE  W!Doubled(n) \in Nat /\ W!Doubled(n) >= n /\ W!Doubled(n) >= Short
<1>1. W!Doubled(n) = Doubling(Short, n)
  BY DEF W!Doubled, W!Capacity, Doubling
<1> QED BY <1>1, DoublingIs, TextAssumption

\* The characters of a text are appended behind the ones that are there.
LEMMA AppendKeeps ==
  ASSUME Kept(chars, length, heap), NEW t, IsText(t), \A i \in 1 .. Len(t) : Written(t[i]), W!Appended(t)
  PROVE  /\ Kept(chars', length', heap') /\ length' = length + Len(t)
         /\ \A i \in 1 .. length : chars'[i] = chars[i]
         /\ \A i \in 1 .. Len(t) : chars'[length + i] = t[i]
<1> DEFINE n == Len(t)
           z == W!Room(n)
<1>1. n \in Nat /\ length \in Nat /\ Len(chars) \in Nat /\ Short \in Nat
  BY TextAssumption DEF Kept, IsText
<1>2. length' = length + n /\ heap' = (heap \/ length' > Short)
  BY DEF W!Appended, W!Capacity
<1>3. chars' = [i \in 1 .. z |-> IF i > length' THEN JUNK ELSE IF i > length THEN t[i - length] ELSE chars[i]]
  BY DEF W!Appended
<1>4. /\ z \in Nat /\ length' <= z /\ Short <= z
      /\ heap' = FALSE => z = Short
  <2>1. CASE length + n <= Short
    <3>1. z = Len(chars)
      BY <2>1 DEF W!Room, W!Capacity
    <3> HIDE DEF z
    <3> QED BY <1>1, <1>2, <2>1, <3>1 DEF Kept
  <2>2. CASE ~(length + n <= Short)
    <3>1. z = W!Doubled(length + n)
      BY <2>2 DEF W!Room, W!Capacity
    <3>2. length + n \in Nat
      BY <1>1
    <3>3. z \in Nat /\ z >= length + n /\ z >= Short
      BY <3>1, <3>2, RoomIs
    <3>4. length' > Short
      BY <1>1, <1>2, <2>2
    <3>5. heap' # FALSE
      BY <1>2, <3>4
    <3> HIDE DEF z
    <3> QED BY <1>2, <3>3, <3>5
  <2> QED BY <2>1, <2>2
<1> HIDE DEF z, n
<1>5. IsText(chars') /\ Len(chars') = z
  BY <1>3, <1>4 DEF IsText
<1>6. \A i \in 1 .. length : chars'[i] = chars[i]
  BY <1>1, <1>2, <1>3, <1>4
<1>7. \A i \in 1 .. n : chars'[length + i] = t[i]
  <2> TAKE i \in 1 .. n
  <2>1. length + i \in 1 .. z /\ ~(length + i > length') /\ length + i > length /\ (length + i) - length = i
    BY <1>1, <1>2, <1>4
  <2> QED BY <1>3, <2>1
<1>8. \A i \in 1 .. length' : Written(chars'[i])
  <2> TAKE i \in 1 .. length'
  <2>1. CASE i <= length
    <3>1. i \in 1 .. length
      BY <1>1, <1>2, <2>1
    <3> QED BY <1>6, <3>1 DEF Kept
  <2>2. CASE i > length
    <3>1. i - length \in 1 .. n /\ length + (i - length) = i
      BY <1>1, <1>2, <2>2
    <3> QED BY <1>7, <3>1 DEF n
  <2> QED BY <1>1, <2>1, <2>2
<1>9. heap' \in BOOLEAN /\ length' \in Nat
  BY <1>1, <1>2
<1> QED BY <1>2, <1>4, <1>5, <1>6, <1>7, <1>8, <1>9 DEF Kept, n

LEMMA TextsJoined ==
  ASSUME NEW t, IsText(t), NEW u, IsText(u)
  PROVE  /\ IsText(t \o u) /\ Len(t \o u) = Len(t) + Len(u)
         /\ \A i \in 1 .. Len(t) + Len(u) : (t \o u)[i] = IF i <= Len(t) THEN t[i] ELSE u[i - Len(t)]
<1> DEFINE X == {t[i] : i \in 1 .. Len(t)} \cup {u[i] : i \in 1 .. Len(u)}
<1>1. /\ \A i \in 1 .. Len(t) : t[i] \in X
      /\ \A i \in 1 .. Len(u) : u[i] \in X
  OBVIOUS
<1> HIDE DEF X
<1>2. t \in Seq(X) /\ u \in Seq(X)
  BY <1>1 DEF IsText
<1>3. /\ t \o u \in Seq(X) /\ Len(t \o u) = Len(t) + Len(u)
      /\ \A i \in 1 .. Len(t) + Len(u) : (t \o u)[i] = IF i <= Len(t) THEN t[i] ELSE u[i - Len(t)]
  BY <1>2, ConcatProperties
<1>4. ASSUME NEW v \in Seq(X) PROVE IsText(v)
  BY DEF IsText
<1> QED BY <1>3, <1>4

LEMMA BuilderAppend ==
  ASSUME BuilderInv, NEW t \in BuilderTexts, W!AppendText(t)
  PROVE  BuilderInv'
<1>1. Kept(chars, length, heap) /\ IsText(t) /\ \A i \in 1 .. Len(t) : Written(t[i])
  BY LettersAre DEF BuilderInv
<1>2. Kept(chars', length', heap') /\ length' = length + Len(t)
  BY <1>1, AppendKeeps DEF W!AppendText
<1>3. length' < MaxBuilt /\ MaxBuilt \in Nat /\ length' \in Nat /\ built' = built
  BY <1>2, TextAssumption DEF W!AppendText, Kept
<1>4. length' <= MaxBuilt /\ length' # MaxBuilt
  BY <1>3
<1> QED BY <1>2, <1>3, <1>4 DEF BuilderInv

LEMMA BuilderBuffer ==
  ASSUME BuilderInv, NEW t \in BuilderTexts, NEW n \in 1 .. MaxBuilt, W!GetBuffer(n, t)
  PROVE  BuilderInv'
<1> DEFINE z == IF n <= Short THEN Len(chars) ELSE W!Doubled(n)
           k == z - Len(t)
<1>1. /\ IsText(t) /\ Len(t) \in Nat /\ \A i \in 1 .. Len(t) : Written(t[i])
      /\ MaxBuilt \in Nat /\ Short \in Nat /\ Len(chars) \in Nat /\ Short <= Len(chars) /\ n \in Nat
      /\ Len(t) < n /\ n < MaxBuilt /\ Len(t) <= Short
      /\ length' = Len(t) /\ heap' = (heap \/ n > Short) /\ built' = built /\ heap \in BOOLEAN
      /\ heap = FALSE => Len(chars) = Short
  BY LettersAre, TextAssumption, SMTT(40) DEF BuilderInv, Kept, IsText, W!GetBuffer, W!Capacity
<1>2. chars' = t \o W!Junk(k)
  BY DEF W!GetBuffer, W!Capacity
<1>3. z \in Nat /\ Short <= z /\ (heap' = FALSE => z = Short)
  <2>1. CASE n <= Short
    <3>1. z = Len(chars)
      BY <2>1
    <3>2. heap' = FALSE => heap = FALSE
      BY <1>1
    <3> HIDE DEF z
    <3> QED BY <1>1, <3>1, <3>2
  <2>2. CASE ~(n <= Short)
    <3>1. z = W!Doubled(n)
      BY <2>2
    <3>2. z \in Nat /\ z >= Short
      BY <1>1, <3>1, RoomIs
    <3>3. n > Short
      BY <1>1, <2>2
    <3>4. heap' # FALSE
      BY <1>1, <3>3
    <3> HIDE DEF z
    <3> QED BY <3>2, <3>4, <1>1
  <2> QED BY <2>1, <2>2
<1> HIDE DEF z
<1>4. k \in Nat /\ Len(t) + k = z
  BY <1>1, <1>3
<1>5. IsText(W!Junk(k)) /\ Len(W!Junk(k)) = k
  BY <1>4 DEF W!Junk, IsText
<1> HIDE DEF k
<1>6. IsText(chars') /\ Len(chars') = z /\ \A i \in 1 .. Len(t) : chars'[i] = t[i]
  <2> DEFINE j == W!Junk(k)
  <2> HIDE DEF j
  <2>1. Len(t) \in Nat /\ Len(j) \in Nat /\ Len(t \o j) = Len(t) + Len(j)
    BY <1>1, <1>5, <1>4 DEF j
  <2>2. IsText(t) /\ IsText(j)
    BY <1>1, <1>5 DEF j
  <2>3. IsText(t \o j) /\ \A i \in 1 .. Len(t) : (t \o j)[i] = t[i]
    BY <2>1, <2>2, TextsJoined
  <2> QED BY <1>2, <1>4, <1>5, <2>1, <2>3 DEF j
<1>7. heap' \in BOOLEAN
  BY <1>1
<1>8. Kept(chars', length', heap')
  <2>1. length' \in Nat /\ length' <= z
    BY <1>1, <1>3
  <2>2. \A i \in 1 .. length' : Written(chars'[i])
    BY <1>1, <1>6
  <2> QED BY <1>3, <1>6, <1>7, <2>1, <2>2 DEF Kept
<1>9. length' <= MaxBuilt /\ length' # MaxBuilt
  BY <1>1
<1> QED BY <1>1, <1>8, <1>9 DEF BuilderInv

\* The characters up to n, when there are so many.
LEMMA FirstAre ==
  ASSUME Kept(chars, length, heap), NEW n \in 0 .. length
  PROVE  /\ IsText(SubSeq(chars, 1, n)) /\ Len(SubSeq(chars, 1, n)) = n
         /\ \A i \in 1 .. n : SubSeq(chars, 1, n)[i] = chars[i] /\ Written(chars[i])
<1>1. IsText(chars) /\ n \in Nat /\ n <= Len(chars) /\ Len(chars) \in Nat /\ length \in Nat
  BY DEF Kept, IsText
<1>2. SubSeq(chars, 0 + 1, n) = [i \in 1 .. n - 0 |-> chars[0 + i]]
  <2>1. 0 \in 0 .. Len(chars) /\ n \in 0 .. Len(chars)
    BY <1>1
  <2> QED BY <1>1, <2>1, SubSeqIs
<1>3. SubSeq(chars, 1, n) = [i \in 1 .. n |-> chars[i]]
  BY <1>1, <1>2
<1>4. \A i \in 1 .. n : Written(chars[i])
  BY <1>1 DEF Kept
<1> QED BY <1>1, <1>3, <1>4 DEF IsText

LEMMA BuilderTruncate ==
  ASSUME BuilderInv, NEW n \in 0 .. MaxBuilt, W!Truncate(n)
  PROVE  BuilderInv'
<1> DEFINE u == SubSeq(chars, 1, n)
           k == Len(chars) - n
           j == W!Junk(k)
<1>1. /\ Kept(chars, length, heap) /\ n \in 0 .. length /\ n < length /\ length <= MaxBuilt /\ length \in Nat
      /\ MaxBuilt \in Nat /\ Len(chars) \in Nat /\ k \in Nat
      /\ length' = n /\ heap' = heap /\ built' = built /\ chars' = u \o j
  BY TextAssumption DEF BuilderInv, Kept, IsText, W!Truncate
<1>2. IsText(u) /\ Len(u) = n /\ \A i \in 1 .. n : u[i] = chars[i] /\ Written(chars[i])
  BY <1>1, FirstAre
<1>3. IsText(j) /\ Len(j) = k
  BY <1>1 DEF W!Junk, IsText
<1> HIDE DEF u, j
<1>4. /\ IsText(u \o j) /\ Len(u \o j) = Len(u) + Len(j)
      /\ \A i \in 1 .. Len(u) + Len(j) : (u \o j)[i] = IF i <= Len(u) THEN u[i] ELSE j[i - Len(u)]
  BY <1>2, <1>3, TextsJoined
<1>5. n + k = Len(chars) /\ n \in Nat
  BY <1>1
<1> HIDE DEF k
<1>6. IsText(chars') /\ Len(chars') = Len(chars) /\ \A i \in 1 .. n : chars'[i] = u[i]
  BY <1>1, <1>2, <1>3, <1>4, <1>5 DEF IsText
<1>7. Kept(chars', length', heap')
  BY <1>1, <1>2, <1>5, <1>6 DEF Kept
<1>8. length' <= MaxBuilt /\ length' # MaxBuilt
  BY <1>1
<1> QED BY <1>1, <1>7, <1>8 DEF BuilderInv

\* A builder that has nothing but its short buffer.
LEMMA ShortKept ==
  ASSUME BuilderInv, chars' = W!Junk(Short), length' = 0, heap' = FALSE, Given(built')
  PROVE  BuilderInv'
<1>1. Short \in Nat /\ MaxBuilt \in Nat \ {0}
  BY TextAssumption
<1>2. IsText(chars') /\ Len(chars') = Short
  BY <1>1 DEF W!Junk, IsText
<1>3. Kept(chars', length', heap')
  <2>1. length' \in Nat /\ length' <= Len(chars') /\ Short <= Len(chars') /\ ~(\E i \in 1 .. length' : TRUE)
    BY <1>1, <1>2
  <2> QED BY <1>2, <2>1 DEF Kept
<1> QED BY <1>1, <1>3 DEF BuilderInv

LEMMA BuilderReset ==
  ASSUME BuilderInv, W!Reset, UNCHANGED built
  PROVE  BuilderInv'
BY ShortKept DEF W!Reset, BuilderInv

\* What is before the terminator is given to the caller.
LEMMA BuilderFinish ==
  ASSUME BuilderInv, W!Finish
  PROVE  BuilderInv'
<1>1. Kept(chars, length, heap) /\ length \in Nat /\ length <= MaxBuilt /\ MaxBuilt \in Nat
  BY TextAssumption DEF BuilderInv, Kept
<1> DEFINE given == SubSeq(chars', 1, length' - 1)
<1>2. built' = [text |-> given, wide |-> FALSE, freed |-> FALSE]
  BY DEF W!Finish
<1>3. /\ Kept(chars', length', heap') /\ length' \in Nat \ {0} /\ length' <= MaxBuilt
      /\ length' = MaxBuilt => chars'[length'] = NUL
  <2>1. CASE W!Terminated
    <3>1. UNCHANGED <<chars, length, heap>> /\ length > 0
      BY <2>1 DEF W!Finish, W!Terminated
    <3> QED BY <1>1, <3>1 DEF BuilderInv
  <2>2. CASE ~W!Terminated
    <3> DEFINE t == <<NUL>>
    <3>1. W!Appended(t)
      BY <2>2 DEF W!Finish
    <3>2. IsText(t) /\ Len(t) = 1 /\ t[1] = NUL /\ \A i \in 1 .. Len(t) : Written(t[i])
      BY DEF IsText, Written
    <3> HIDE DEF t
    <3>3. /\ Kept(chars', length', heap') /\ length' = length + 1
          /\ \A i \in 1 .. 1 : chars'[length + i] = t[i]
      BY <1>1, <3>1, <3>2, AppendKeeps
    <3>4. chars'[length'] = NUL
      BY <3>2, <3>3
    <3>5. length # MaxBuilt
      BY <1>1, <2>2, TextAssumption DEF W!Terminated, BuilderInv
    <3> QED BY <1>1, <3>3, <3>4, <3>5
  <2> QED BY <2>1, <2>2
<1>4. /\ IsText(given) /\ Len(given) = length' - 1
      /\ \A i \in 1 .. length' - 1 : given[i] = chars'[i] /\ Written(chars'[i])
  <2> DEFINE n == length' - 1
             c == chars'
  <2>1. IsText(c) /\ n \in Nat /\ n <= Len(c) /\ Len(c) \in Nat /\ \A i \in 1 .. n : Written(c[i])
    BY <1>3 DEF Kept, IsText
  <2> HIDE DEF n, c
  <2>2. SubSeq(c, 0 + 1, n) = [i \in 1 .. n - 0 |-> c[0 + i]]
    <3>1. 0 \in 0 .. Len(c) /\ n \in 0 .. Len(c)
      BY <2>1
    <3> QED BY <2>1, <3>1, SubSeqIs
  <2>3. SubSeq(c, 1, n) = [i \in 1 .. n |-> c[i]]
    BY <2>1, <2>2
  <2> DEFINE g == SubSeq(c, 1, n)
  <2>5. IsText(g) /\ Len(g) = n /\ \A i \in 1 .. n : g[i] = c[i]
    BY <2>1, <2>3 DEF IsText
  <2> QED BY <2>1, <2>5 DEF c, n
<1> HIDE DEF given
<1>5. Given(built')
  BY <1>2, <1>4 DEF Given
<1> QED BY <1>3, <1>5 DEF BuilderInv

LEMMA BuilderDetach ==
  ASSUME BuilderInv, NEW size \in CharSizes, W!Detach(size)
  PROVE  BuilderInv'
<1> DEFINE text == IF W!Terminated THEN SubSeq(W!Text, 1, length - 1) ELSE W!Text
           freed == heap \/ (~W!Terminated /\ length + 1 > W!Capacity)
           copied == IF freed THEN 0 ELSE (Len(text) + 1) \div size
           given == [i \in 1 .. Len(text) |-> IF i <= copied THEN text[i] ELSE JUNK]
<1>1. Kept(chars, length, heap) /\ length \in Nat
  BY DEF BuilderInv, Kept
<1>2. /\ chars' = W!Junk(Short) /\ length' = 0 /\ heap' = FALSE
      /\ built' = [text |-> given, wide |-> size > 1, freed |-> freed]
  BY DEF W!Detach, W!Reset
<1>3. W!Text = SubSeq(chars, 1, length)
  BY DEF W!Text
<1>4. IsText(W!Text) /\ Len(W!Text) = length /\ \A i \in 1 .. length : Written(W!Text[i])
  <2>1. length \in 0 .. length
    BY <1>1
  <2>2. \A n \in 0 .. length : /\ IsText(SubSeq(chars, 1, n)) /\ Len(SubSeq(chars, 1, n)) = n
                               /\ \A i \in 1 .. n : SubSeq(chars, 1, n)[i] = chars[i] /\ Written(chars[i])
    BY <1>1, FirstAre
  <2> QED BY <1>3, <2>1, <2>2
<1>5. IsText(text) /\ \A i \in 1 .. Len(text) : Written(text[i])
  <2>1. CASE ~W!Terminated
    BY <1>4, <2>1
  <2>2. CASE W!Terminated
    <3> DEFINE u == W!Text
               n == length - 1
    <3>1. n \in Nat /\ n <= Len(u) /\ IsText(u) /\ Len(u) = length
      BY <1>1, <1>4, <2>2 DEF W!Terminated
    <3>2. text = SubSeq(u, 1, n)
      BY <2>2
    <3>5. \A i \in 1 .. n : Written(u[i])
      BY <1>1, <1>4
    <3> HIDE DEF u, text
    <3>3. SubSeq(u, 0 + 1, n) = [i \in 1 .. n - 0 |-> u[0 + i]]
      <4>1. 0 \in 0 .. Len(u) /\ n \in 0 .. Len(u)
        BY <1>1, <3>1
      <4> QED BY <3>1, <4>1, SubSeqIs
    <3>4. text = [i \in 1 .. n |-> u[i]]
      BY <3>1, <3>2, <3>3
    <3>6. IsText(text) /\ Len(text) = n
      BY <3>1, <3>4 DEF IsText
    <3> QED BY <3>4, <3>5, <3>6
  <2> QED BY <2>1, <2>2
<1> HIDE DEF text
<1>6. size = 1 /\ ~freed => IsText(given) /\ \A i \in 1 .. Len(given) : Written(given[i])
  <2> SUFFICES ASSUME size = 1, ~freed PROVE IsText(given) /\ \A i \in 1 .. Len(given) : Written(given[i])
    OBVIOUS
  <2>1. Len(text) \in Nat
    BY <1>5 DEF IsText
  <2>2. (Len(text) + 1) \div size = Len(text) + 1
    BY <2>1
  <2>3. \A i \in 1 .. Len(text) : i <= copied
    BY <2>1, <2>2
  <2> HIDE DEF copied
  <2>4. given = [i \in 1 .. Len(text) |-> text[i]]
    BY <2>3
  <2>5. given = text
    BY <1>5, <2>4 DEF IsText
  <2> QED BY <1>5, <2>5
<1> HIDE DEF freed, given
<1>7. size = 1 \/ size > 1
  BY TextAssumption
<1>8. Given(built')
  BY <1>2, <1>6, <1>7 DEF Given
<1> QED BY <1>2, <1>8, ShortKept

LEMMA BuilderStep ==
  ASSUME BuilderInv, W!Next \/ UNCHANGED builderVars
  PROVE  BuilderInv'
<1>1. CASE UNCHANGED builderVars
  BY <1>1 DEF BuilderInv, builderVars
<1>2. CASE W!Next
  BY <1>2, BuilderAppend, BuilderBuffer, BuilderTruncate, BuilderReset, BuilderFinish, BuilderDetach DEF W!Next
<1> QED BY <1>1, <1>2

LEMMA BuilderInit ==
  ASSUME W!Init
  PROVE  BuilderInv
<1>1. Short \in Nat /\ MaxBuilt \in Nat \ {0}
  BY TextAssumption
<1>2. chars = W!Junk(Short) /\ length = 0 /\ heap = FALSE
      /\ built = [text |-> <<>>, wide |-> FALSE, freed |-> FALSE]
  BY DEF W!Init
<1>3. IsText(chars) /\ Len(chars) = Short
  BY <1>1, <1>2 DEF W!Junk, IsText
<1>4. Given(built)
  BY <1>2 DEF Given, IsText
<1>5. Kept(chars, length, heap)
  <2>1. length \in Nat /\ length <= Len(chars) /\ Short <= Len(chars) /\ ~(\E i \in 1 .. length : TRUE)
    BY <1>1, <1>2, <1>3
  <2> QED BY <1>2, <1>3, <2>1 DEF Kept
<1> QED BY <1>1, <1>2, <1>4, <1>5 DEF BuilderInv

LEMMA BuilderSafe ==
  ASSUME BuilderInv
  PROVE  W!TypeOK /\ W!CharactersKept
<1>1. /\ Kept(chars, length, heap) /\ length \in 0 .. MaxBuilt /\ length \in Nat /\ length <= Len(chars)
      /\ built.wide \/ built.freed \/ (IsText(built.text) /\ \A i \in 1 .. Len(built.text) : Written(built.text[i]))
  BY TextAssumption DEF BuilderInv, Kept, Given
<1>2. /\ IsText(W!Text) /\ Len(W!Text) = length
      /\ \A i \in 1 .. length : Written(W!Text[i])
  <2>1. length \in 0 .. length
    BY <1>1
  <2>2. \A n \in 0 .. length : /\ IsText(SubSeq(chars, 1, n)) /\ Len(SubSeq(chars, 1, n)) = n
                               /\ \A i \in 1 .. n : SubSeq(chars, 1, n)[i] = chars[i] /\ Written(chars[i])
    BY <1>1, FirstAre
  <2> QED BY <2>1, <2>2 DEF W!Text
<1>3. W!Text \in Seq(Letters \cup {NUL})
  <2> DEFINE t == W!Text
  <2> HIDE DEF t
  <2>1. IsText(t) /\ \A i \in 1 .. Len(t) : t[i] \in Letters \cup {NUL}
    BY <1>2 DEF Written, t
  <2>2. t \in Seq(Letters \cup {NUL})
    BY <2>1 DEF IsText
  <2> QED BY <2>2 DEF t
<1>4. W!TypeOK
  BY <1>1, <1>3 DEF W!TypeOK, Letters, Kept
<1>5. JUNK \notin W!Range(W!Text) /\ (built.wide \/ built.freed \/ JUNK \notin W!Range(built.text))
  <2>1. \A t : IsText(t) /\ (\A i \in 1 .. Len(t) : Written(t[i])) => JUNK \notin W!Range(t)
    <3> TAKE t
    <3> HAVE IsText(t) /\ \A i \in 1 .. Len(t) : Written(t[i])
    <3>1. DOMAIN t = 1 .. Len(t)
      BY DEF IsText
    <3>2. \A i \in DOMAIN t : t[i] # JUNK
      BY <3>1, LettersAre
    <3> QED BY <3>2 DEF W!Range
  <2> QED BY <1>1, <1>2, <2>1
<1>6. ~heap => heap = FALSE
  BY <1>1 DEF Kept
<1> QED BY <1>1, <1>4, <1>5, <1>6 DEF W!CharactersKept, Kept, W!Capacity

-----------------------------------------------------------------------------
(* StringPool: the room of the strings *)

Claimed(s) == s.at .. s.at + s.length - 1

PoolInv ==
  /\ chain \in Seq(Blocks) /\ B!IsInjective(chain) /\ B!Range(chain) = B!Allocated
  /\ bucket = [b \in Blocks |-> [used |-> bucket[b].used, capacity |-> bucket[b].capacity]]
  /\ \A b \in B!Allocated : bucket[b].used \in 0 .. bucket[b].capacity /\ bucket[b].capacity \in Nat \ {0}
  /\ \A s \in strings :
       /\ s.block \in B!Allocated /\ s.at \in Nat /\ s.length \in Lengths
       /\ s.at + s.length <= bucket[s.block].used
  /\ \A s, t \in strings : s # t /\ s.block = t.block => Claimed(s) \cap Claimed(t) = {}
  /\ \A b \in B!Allocated : \A i \in 0 .. bucket[b].used - 1 :
       \E s \in strings : s.block = b /\ i \in Claimed(s)

LEMMA EnoughIs ==
  ASSUME NEW size \in Nat \ {0}, NEW n \in Lengths
  PROVE  B!Enough(size, n) \in Nat /\ B!Enough(size, n) >= n + Header
<1>1. B!Enough(size, n) = Doubling(size, n + Header)
  BY DEF B!Enough, Doubling
<1>2. n + Header \in Nat
  BY PoolAssumption
<1> QED BY <1>1, <1>2, DoublingIs

\* Room is claimed in block b: one that had room left, one that an empty bucket was
\* reallocated to, or a new one.
LEMMA ClaimKeeps ==
  ASSUME PoolInv, NEW b \in Blocks, NEW size \in Nat, NEW n \in Lengths, B!Claim(b, size, n),
         chain' \in Seq(Blocks), B!IsInjective(chain'), b \in B!Range(chain'),
         B!Range(chain') \subseteq B!Range(chain) \cup {b},
         \A x \in B!Range(chain) \ B!Range(chain') : bucket[x].used = 0,
         (IF b \in B!Range(chain) THEN bucket[b].used ELSE 0) + n <= size - Header
  PROVE  PoolInv'
<1> DEFINE used == IF b \in B!Range(chain) THEN bucket[b].used ELSE 0
           new == [block |-> b, at |-> used, length |-> n]
           Old == B!Range(chain)
           Now == B!Range(chain')
<1>0. \A x \in B!Allocated : bucket[x].used \in Nat
  <2>1. \A x \in B!Allocated : bucket[x].used \in 0 .. bucket[x].capacity /\ bucket[x].capacity \in Nat \ {0}
    BY DEF PoolInv
  <2> QED BY <2>1
<1>1. n \in Nat \ {0} /\ used \in Nat /\ Header \in Nat /\ used + n <= size - Header
  <2>1. b \in Old => bucket[b].used \in Nat
    BY <1>0 DEF PoolInv
  <2> QED BY <2>1, PoolAssumption
<1>2. /\ strings' = strings \cup {new}
      /\ bucket' = [x \in Blocks |->
            IF x = b THEN [used |-> used + n, capacity |-> size - Header]
            ELSE IF x \in Old \ Now THEN [used |-> 0, capacity |-> -1] ELSE bucket[x]]
  BY DEF B!Claim, B!NoBucket
<1>3. Old \subseteq Blocks /\ Now \subseteq Blocks /\ Old = B!Allocated
  BY DEF PoolInv, B!Range
<1>4. \A x \in Blocks : x \in Old <=> bucket[x] # [used |-> 0, capacity |-> -1]
  BY <1>3 DEF B!Allocated, B!NoBucket
<1>5. \A x \in Now : x # b => x \in Old
  OBVIOUS
<1> HIDE DEF used, Old, Now
<1>6. /\ \A x \in Blocks : x # b /\ x \in Now => bucket'[x] = bucket[x]
      /\ \A x \in Blocks : x # b /\ x \notin Now => bucket'[x] = [used |-> 0, capacity |-> -1]
      /\ bucket'[b].used = used + n /\ bucket'[b].capacity = size - Header
      /\ bucket'[b] # [used |-> 0, capacity |-> -1]
  <2>1. \A x \in Blocks : x # b /\ x \in Now => bucket'[x] = bucket[x]
    BY <1>2
  <2>2. \A x \in Blocks : x # b /\ x \notin Now => bucket'[x] = [used |-> 0, capacity |-> -1]
    BY <1>2, <1>4
  <2>3. bucket'[b] = [used |-> used + n, capacity |-> size - Header]
    BY <1>2
  <2>4. size - Header # -1
    BY <1>1
  <2> QED BY <2>1, <2>2, <2>3, <2>4
<1>7. B!Allocated' = Now /\ b \in Now
  <2>1. \A x \in Blocks : x \in Now <=> bucket'[x] # [used |-> 0, capacity |-> -1]
    BY <1>4, <1>5, <1>6 DEF Now
  <2>2. b \in Now
    BY DEF Now
  <2> QED BY <1>3, <2>1, <2>2 DEF B!Allocated, B!NoBucket
<1>8. bucket' = [x \in Blocks |-> [used |-> bucket'[x].used, capacity |-> bucket'[x].capacity]]
  <2>1. \A x \in Blocks : bucket[x] = [used |-> bucket[x].used, capacity |-> bucket[x].capacity]
    BY DEF PoolInv
  <2>2. \A x \in Blocks : bucket'[x] = [used |-> bucket'[x].used, capacity |-> bucket'[x].capacity]
    BY <1>2, <2>1
  <2>3. bucket' = [x \in Blocks |-> bucket'[x]]
    BY <1>2
  <2> QED BY <2>2, <2>3
<1>9. \A x \in Now : bucket'[x].used \in 0 .. bucket'[x].capacity /\ bucket'[x].capacity \in Nat \ {0}
  <2> TAKE x \in Now
  <2>1. CASE x = b
    BY <1>1, <1>6, <2>1
  <2>2. CASE x # b
    <3>1. x \in B!Allocated /\ bucket'[x] = bucket[x]
      BY <1>3, <1>5, <1>6, <2>2
    <3> QED BY <3>1 DEF PoolInv
  <2> QED BY <2>1, <2>2
\* A string that was there is where it was.
<1>10. ASSUME NEW s \in strings
       PROVE  /\ s.block \in Now /\ s.at \in Nat /\ s.length \in Lengths /\ s.length \in Nat \ {0}
              /\ s.at + s.length <= bucket[s.block].used /\ bucket[s.block].used <= bucket'[s.block].used
              /\ s.block = b => bucket[s.block].used = used
  <2>1. /\ s.block \in B!Allocated /\ s.at \in Nat /\ s.length \in Lengths
        /\ s.at + s.length <= bucket[s.block].used
    BY DEF PoolInv
  <2>2. s.length \in Nat \ {0} /\ bucket[s.block].used \in Nat
    BY <1>0, <2>1, PoolAssumption
  <2>3. bucket[s.block].used # 0
    BY <2>1, <2>2
  <2>4. s.block \in Now /\ s.block \in Old /\ s.block \in Blocks
    BY <1>3, <2>1, <2>3 DEF Now, Old
  <2>5. s.block = b => bucket[s.block].used = used
    BY <2>4 DEF used, Old
  <2>6. bucket[s.block].used <= bucket'[s.block].used
    <3>1. CASE s.block = b
      BY <1>1, <1>6, <2>2, <2>5, <3>1
    <3>2. CASE s.block # b
      BY <1>6, <2>2, <2>4, <3>2
    <3> QED BY <3>1, <3>2
  <2> QED BY <2>1, <2>2, <2>4, <2>5, <2>6
<1>11. new.block = b /\ new.at = used /\ new.length = n
  OBVIOUS
<1> HIDE DEF new
<1>12. ASSUME NEW s \in strings'
       PROVE  /\ s.block \in Now /\ s.at \in Nat /\ s.length \in Lengths
              /\ s.at + s.length <= bucket'[s.block].used
  <2>1. CASE s = new
    BY <1>1, <1>6, <1>7, <1>11, <2>1
  <2>2. CASE s \in strings
    <3>1. bucket'[s.block].used \in Nat /\ bucket[s.block].used \in Nat
      <4>1. s.block \in Now
        BY <1>10, <2>2
      <4>2. s.block \in B!Allocated
        BY <2>2 DEF PoolInv
      <4> QED BY <1>0, <1>9, <4>1, <4>2
    <3> QED BY <1>10, <2>2, <3>1
  <2> QED BY <1>2, <2>1, <2>2
<1>13. ASSUME NEW s \in strings, s.block = b
       PROVE  Claimed(s) \cap Claimed(new) = {}
  <2>1. s.at \in Nat /\ s.length \in Nat /\ s.at + s.length <= used
    BY <1>10, <1>13
  <2> QED BY <1>1, <1>11, <2>1 DEF Claimed
<1>14. \A s, t \in strings' : s # t /\ s.block = t.block => Claimed(s) \cap Claimed(t) = {}
  <2> TAKE s, t \in strings'
  <2> HAVE s # t /\ s.block = t.block
  <2>1. CASE s \in strings /\ t \in strings
    BY <2>1 DEF PoolInv
  <2>2. CASE s \in strings /\ t = new
    BY <1>11, <1>13, <2>2
  <2>3. CASE s = new /\ t \in strings
    BY <1>11, <1>13, <2>3
  <2> QED BY <1>2, <2>1, <2>2, <2>3
<1>15. ASSUME NEW x \in Now, NEW i \in 0 .. bucket'[x].used - 1
       PROVE  \E s \in strings' : s.block = x /\ i \in Claimed(s)
  <2>1. CASE x = b /\ i >= used
    <3>1. i \in Claimed(new)
      BY <1>1, <1>6, <1>11, <2>1 DEF Claimed
    <3> QED BY <1>2, <1>11, <2>1, <3>1
  <2>2. CASE x = b /\ i < used
    <3>1. b \in Old /\ used = bucket[b].used
      BY <1>1, <2>2 DEF used, Old
    <3>2. i \in 0 .. bucket[b].used - 1 /\ b \in B!Allocated
      BY <1>1, <1>3, <2>2, <3>1
    <3> QED BY <1>2, <2>2, <3>2 DEF PoolInv
  <2>3. CASE x # b
    <3>1. x \in B!Allocated /\ i \in 0 .. bucket[x].used - 1
      BY <1>3, <1>5, <1>6, <2>3
    <3> QED BY <1>2, <3>1 DEF PoolInv
  <2>4. i \in Nat
    OBVIOUS
  <2> QED BY <1>1, <2>1, <2>2, <2>3, <2>4
<1>16. chain' \in Seq(Blocks) /\ B!IsInjective(chain') /\ B!Range(chain') = B!Allocated'
  BY <1>7 DEF Now
<1>17. PoolInv'
  <2>1. B!Allocated' = Now
    BY <1>7
  <2> QED BY <1>8, <1>9, <1>12, <1>14, <1>15, <1>16, <2>1 DEF PoolInv
<1> QED BY <1>17

\* The buckets that the walk along the chain stops at or remembers.
LEMMA WithRoomIs ==
  ASSUME PoolInv, NEW n \in Lengths, B!WithRoom(n) # 0
  PROVE  /\ B!WithRoom(n) \in 1 .. Len(chain)
         /\ bucket[chain[B!WithRoom(n)]].used + n < bucket[chain[B!WithRoom(n)]].capacity
<1> DEFINE T == {i \in 1 .. Len(chain) : bucket[chain[i]].used + n < bucket[chain[i]].capacity}
<1>1. B!WithRoom(n) = IF T = {} THEN 0 ELSE CHOOSE i \in T : \A j \in T : i <= j
  BY DOMAIN chain = 1 .. Len(chain) DEF B!WithRoom, PoolInv
<1>2. T \in SUBSET Nat /\ \A i \in T : i \in 1 .. Len(chain) /\ bucket[chain[i]].used + n < bucket[chain[i]].capacity
  OBVIOUS
<1> HIDE DEF T
<1>3. T # {}
  BY <1>1
<1>4. (CHOOSE i \in T : \A j \in T : i <= j) \in T
  BY <1>2, <1>3, Least
<1> QED BY <1>1, <1>2, <1>3, <1>4

LEMMA LastEmptyIs ==
  ASSUME PoolInv, B!LastEmpty # 0
  PROVE  B!LastEmpty \in 1 .. Len(chain) /\ bucket[chain[B!LastEmpty]].used = 0
<1> DEFINE T == {i \in 1 .. Len(chain) : bucket[chain[i]].used = 0}
<1>1. B!LastEmpty = IF T = {} THEN 0 ELSE CHOOSE i \in T : \A j \in T : i >= j
  BY DOMAIN chain = 1 .. Len(chain) DEF B!LastEmpty, PoolInv
<1>2. /\ T \in SUBSET Nat /\ Len(chain) \in Nat
      /\ \A i \in T : i <= Len(chain) /\ i \in 1 .. Len(chain) /\ bucket[chain[i]].used = 0
  BY DEF PoolInv
<1> HIDE DEF T
<1>3. T # {}
  BY <1>1
<1>4. (CHOOSE i \in T : \A j \in T : i >= j) \in T
  BY <1>2, <1>3, Greatest
<1> QED BY <1>1, <1>2, <1>3, <1>4

LEMMA InChain ==
  ASSUME PoolInv, NEW i \in 1 .. Len(chain)
  PROVE  /\ chain[i] \in Blocks /\ chain[i] \in B!Range(chain) /\ chain[i] \in B!Allocated
         /\ bucket[chain[i]].used \in Nat /\ bucket[chain[i]].capacity \in Nat \ {0}
<1>1. chain \in Seq(Blocks) /\ B!Range(chain) = B!Allocated
  BY DEF PoolInv
<1>2. chain[i] \in Blocks /\ chain[i] \in B!Range(chain)
  BY <1>1 DEF B!Range
<1>3. \A x \in B!Allocated : bucket[x].used \in 0 .. bucket[x].capacity /\ bucket[x].capacity \in Nat \ {0}
  BY DEF PoolInv
<1> QED BY <1>1, <1>2, <1>3

LEMMA PoolReserve ==
  ASSUME PoolInv, NEW n \in Lengths, B!Reserve(n)
  PROVE  PoolInv'
<1> DEFINE i == B!WithRoom(n)
           b == chain[i]
           size == bucket[b].capacity + Header
<1>1. i # 0 /\ chain' = chain /\ B!Claim(b, size, n)
  BY DEF B!Reserve
<1>2. i \in 1 .. Len(chain) /\ bucket[b].used + n < bucket[b].capacity
  BY <1>1, WithRoomIs
<1> HIDE DEF i
<1>3. b \in Blocks /\ b \in B!Range(chain) /\ bucket[b].used \in Nat /\ bucket[b].capacity \in Nat \ {0}
  BY <1>2, InChain
<1> HIDE DEF b
<1>4. n \in Nat /\ Header \in Nat
  BY PoolAssumption
<1>5. size \in Nat /\ size - Header = bucket[b].capacity
  BY <1>3, <1>4
<1> HIDE DEF size
<1>6. (IF b \in B!Range(chain) THEN bucket[b].used ELSE 0) + n <= size - Header
  BY <1>2, <1>3, <1>4, <1>5
<1>7. /\ chain' \in Seq(Blocks) /\ B!IsInjective(chain') /\ B!Range(chain') = B!Range(chain)
  BY <1>1 DEF PoolInv
<1> QED BY <1>1, <1>3, <1>5, <1>6, <1>7, ClaimKeeps

LEMMA PoolGrown ==
  ASSUME PoolInv, NEW n \in Lengths, B!Grown(n)
  PROVE  PoolInv'
<1> DEFINE i == B!LastEmpty
           a == chain[i]
           size == B!Enough(bucket[a].capacity + Header, n)
<1>1. PICK b \in (Blocks \ B!Allocated) \cup {a} :
        i # 0 /\ chain' = [chain EXCEPT ![i] = b] /\ B!Claim(b, size, n)
  BY DEF B!Grown
<1>2. i \in 1 .. Len(chain) /\ bucket[a].used = 0
  BY <1>1, LastEmptyIs
<1> HIDE DEF i
<1>3. a \in Blocks /\ a \in B!Range(chain) /\ bucket[a].capacity \in Nat \ {0}
  BY <1>2, InChain
<1>4. n \in Nat /\ Header \in Nat
  BY PoolAssumption
<1>5. size \in Nat /\ size >= n + Header
  <2>1. bucket[a].capacity + Header \in Nat \ {0}
    BY <1>3, <1>4
  <2> QED BY <2>1, EnoughIs
<1> HIDE DEF size
<1>6. b \in Blocks /\ (b \in B!Range(chain) => b = a)
  BY <1>1, <1>3 DEF PoolInv
<1>7. (IF b \in B!Range(chain) THEN bucket[b].used ELSE 0) + n <= size - Header
  <2>1. (IF b \in B!Range(chain) THEN bucket[b].used ELSE 0) = 0
    BY <1>2, <1>6
  <2> QED BY <1>4, <1>5, <2>1
<1>8. chain \in Seq(Blocks) /\ Len(chain) \in Nat /\ \A j, k \in 1 .. Len(chain) : chain[j] = chain[k] => j = k
  BY DEF PoolInv, B!IsInjective
<1>9. /\ chain' \in Seq(Blocks) /\ Len(chain') = Len(chain) /\ DOMAIN chain' = 1 .. Len(chain)
      /\ chain'[i] = b /\ \A j \in 1 .. Len(chain) : j # i => chain'[j] = chain[j]
  BY <1>1, <1>2, <1>6, <1>8
<1>10. \A j \in 1 .. Len(chain) : j # i => chain[j] # b
  <2> TAKE j \in 1 .. Len(chain)
  <2> HAVE j # i
  <2>1. chain[j] \in B!Range(chain)
    BY InChain
  <2>2. chain[j] # a
    BY <1>2, <1>8
  <2> QED BY <1>6, <2>1, <2>2
<1>11. B!IsInjective(chain')
  <2>1. \A j, k \in 1 .. Len(chain) : chain'[j] = chain'[k] => j = k
    BY <1>8, <1>9, <1>10
  <2> QED BY <1>9, <2>1 DEF B!IsInjective
<1>12. b \in B!Range(chain')
  BY <1>2, <1>9 DEF B!Range
<1>13. B!Range(chain') \subseteq B!Range(chain) \cup {b}
  <2>1. \A j \in 1 .. Len(chain) : chain'[j] = b \/ chain'[j] \in B!Range(chain)
    BY <1>9, InChain
  <2> QED BY <1>9, <2>1 DEF B!Range
<1>14. \A x \in B!Range(chain) \ B!Range(chain') : bucket[x].used = 0
  <2> TAKE x \in B!Range(chain) \ B!Range(chain')
  <2>1. PICK j \in 1 .. Len(chain) : x = chain[j]
    BY <1>8 DEF B!Range
  <2>2. CASE j = i
    BY <1>2, <2>1, <2>2
  <2>3. CASE j # i
    <3>1. chain'[j] = x /\ j \in DOMAIN chain'
      BY <1>9, <2>1, <2>3
    <3> QED BY <3>1 DEF B!Range
  <2> QED BY <2>2, <2>3
<1> HIDE DEF a
<1> QED BY <1>1, <1>5, <1>6, <1>7, <1>9, <1>11, <1>12, <1>13, <1>14, ClaimKeeps

LEMMA PoolAllocate ==
  ASSUME PoolInv, NEW n \in Lengths, B!AllocateBucket(n)
  PROVE  PoolInv'
<1> DEFINE size == B!Enough(DefaultSize, n)
<1>1. PICK b \in Blocks \ B!Allocated : chain' = <<b>> \o chain /\ B!Claim(b, size, n)
  BY DEF B!AllocateBucket
<1>2. n \in Nat /\ Header \in Nat /\ DefaultSize \in Nat \ {0}
  BY PoolAssumption
<1>3. size \in Nat /\ size >= n + Header
  BY <1>2, EnoughIs
<1> HIDE DEF size
<1>4. b \in Blocks /\ b \notin B!Range(chain)
  BY <1>1 DEF PoolInv
<1>5. (IF b \in B!Range(chain) THEN bucket[b].used ELSE 0) + n <= size - Header
  BY <1>2, <1>3, <1>4
<1>6. chain \in Seq(Blocks) /\ Len(chain) \in Nat /\ \A j, k \in 1 .. Len(chain) : chain[j] = chain[k] => j = k
  BY DEF PoolInv, B!IsInjective
<1>7. /\ chain' \in Seq(Blocks) /\ Len(chain') = Len(chain) + 1 /\ DOMAIN chain' = 1 .. Len(chain) + 1
      /\ chain'[1] = b /\ \A j \in 2 .. Len(chain) + 1 : chain'[j] = chain[j - 1]
  <2>1. <<b>> \in Seq(Blocks) /\ Len(<<b>>) = 1 /\ <<b>>[1] = b
    BY <1>4
  <2>2. /\ chain' \in Seq(Blocks) /\ Len(chain') = 1 + Len(chain)
        /\ \A j \in 1 .. 1 + Len(chain) : chain'[j] = IF j <= 1 THEN <<b>>[j] ELSE chain[j - 1]
    BY <1>1, <1>6, <2>1, ConcatProperties
  <2> QED BY <1>6, <2>1, <2>2
<1>8. \A j \in 1 .. Len(chain) + 1 : j = 1 \/ (j \in 2 .. Len(chain) + 1 /\ j - 1 \in 1 .. Len(chain))
  BY <1>6
<1>9. B!IsInjective(chain')
  <2>1. ASSUME NEW j \in 1 .. Len(chain) + 1, NEW k \in 1 .. Len(chain) + 1, chain'[j] = chain'[k]
        PROVE  j = k
    <3>1. \A i \in 1 .. Len(chain) : chain[i] # b
      BY <1>4, InChain
    <3>2. CASE j = 1 \/ k = 1
      BY <1>7, <1>8, <2>1, <3>1, <3>2
    <3>3. CASE j # 1 /\ k # 1
      <4>1. chain[j - 1] = chain[k - 1] /\ j - 1 \in 1 .. Len(chain) /\ k - 1 \in 1 .. Len(chain)
        BY <1>7, <1>8, <2>1, <3>3
      <4>2. j - 1 = k - 1
        BY <1>6, <4>1
      <4> QED BY <4>2
    <3> QED BY <3>2, <3>3
  <2> QED BY <1>7, <2>1 DEF B!IsInjective
<1>10. b \in B!Range(chain')
  BY <1>6, <1>7 DEF B!Range
<1>11. B!Range(chain') \subseteq B!Range(chain) \cup {b}
  <2>1. \A j \in 1 .. Len(chain) + 1 : chain'[j] = b \/ chain'[j] \in B!Range(chain)
    BY <1>7, <1>8, InChain
  <2> QED BY <1>7, <2>1 DEF B!Range
<1>12. B!Range(chain) \subseteq B!Range(chain')
  <2>1. \A j \in 1 .. Len(chain) : j + 1 \in DOMAIN chain' /\ chain'[j + 1] = chain[j]
    <3> TAKE j \in 1 .. Len(chain)
    <3>1. j + 1 \in 2 .. Len(chain) + 1 /\ (j + 1) - 1 = j /\ j + 1 \in 1 .. Len(chain) + 1
      BY <1>6
    <3> QED BY <1>7, <3>1
  <2>2. DOMAIN chain = 1 .. Len(chain)
    BY <1>6
  <2> QED BY <2>1, <2>2 DEF B!Range
<1> QED BY <1>1, <1>3, <1>4, <1>5, <1>7, <1>9, <1>10, <1>11, <1>12, ClaimKeeps

\* The strings go, and the buckets are empty or freed.
LEMMA PoolFree ==
  ASSUME PoolInv, B!FreeAll \/ B!Reset
  PROVE  PoolInv'
<1>1. /\ bucket = [b \in Blocks |-> [used |-> bucket[b].used, capacity |-> bucket[b].capacity]]
      /\ \A b \in B!Allocated : bucket[b].used \in 0 .. bucket[b].capacity /\ bucket[b].capacity \in Nat \ {0}
      /\ B!Range(chain) = B!Allocated /\ strings' = {}
      /\ B!Allocated = {b \in Blocks : bucket[b] # [used |-> 0, capacity |-> -1]}
  BY DEF PoolInv, B!FreeAll, B!Reset, B!Allocated, B!NoBucket
<1>2. CASE B!FreeAll
  <2>1. chain' = chain /\ bucket' = [b \in Blocks |-> IF b \in B!Allocated THEN [bucket[b] EXCEPT !.used = 0] ELSE bucket[b]]
    BY <1>1, <1>2 DEF B!FreeAll
  <2>2. ASSUME NEW b \in Blocks
        PROVE  bucket'[b] = IF b \in B!Allocated THEN [used |-> 0, capacity |-> bucket[b].capacity]
                            ELSE [used |-> 0, capacity |-> -1]
    <3>1. bucket[b] = [used |-> bucket[b].used, capacity |-> bucket[b].capacity]
      BY <1>1
    <3>2. CASE b \in B!Allocated
      <4>1. bucket'[b] = [bucket[b] EXCEPT !.used = 0]
        BY <2>1, <3>2
      <4> QED BY <3>1, <3>2, <4>1
    <3>3. CASE b \notin B!Allocated
      BY <1>1, <2>1, <3>3
    <3> QED BY <3>2, <3>3
  <2>7. ASSUME NEW b \in B!Allocated
        PROVE  bucket'[b].used = 0 /\ bucket'[b].capacity = bucket[b].capacity /\ bucket[b].capacity \in Nat \ {0}
    <3>1. b \in Blocks /\ bucket[b].capacity \in Nat \ {0}
      BY <1>1
    <3>2. bucket'[b] = [used |-> 0, capacity |-> bucket[b].capacity]
      BY <2>2, <3>1
    <3> QED BY <3>1, <3>2
  <2>3. B!Allocated' = B!Allocated
    <3>1. \A b \in Blocks : bucket'[b] # [used |-> 0, capacity |-> -1] <=> b \in B!Allocated
      <4> TAKE b \in Blocks
      <4>1. CASE b \in B!Allocated
        <5>1. bucket'[b].capacity \in Nat
          BY <2>7, <4>1
        <5>2. bucket'[b].capacity # -1
          BY <5>1
        <5> QED BY <4>1, <5>2
      <4>2. CASE b \notin B!Allocated
        BY <2>2, <4>2
      <4> QED BY <4>1, <4>2
    <3> QED BY <1>1, <3>1 DEF B!Allocated, B!NoBucket
  <2>4. bucket' = [b \in Blocks |-> [used |-> bucket'[b].used, capacity |-> bucket'[b].capacity]]
    <3>1. \A b \in Blocks : bucket'[b] = [used |-> bucket'[b].used, capacity |-> bucket'[b].capacity]
      <4> TAKE b \in Blocks
      <4>1. CASE b \in B!Allocated
        <5>1. bucket'[b] = [used |-> 0, capacity |-> bucket[b].capacity]
          BY <2>2, <4>1
        <5> QED BY <5>1
      <4>2. CASE b \notin B!Allocated
        <5>1. bucket'[b] = [used |-> 0, capacity |-> -1]
          BY <2>2, <4>2
        <5> QED BY <5>1
      <4> QED BY <4>1, <4>2
    <3>2. bucket' = [b \in Blocks |-> bucket'[b]]
      BY <2>1
    <3> QED BY <3>1, <3>2
  <2>5. \A b \in B!Allocated : bucket'[b].used \in 0 .. bucket'[b].capacity /\ bucket'[b].capacity \in Nat \ {0}
    BY <2>7
  <2>6. \A b \in B!Allocated : \A i \in 0 .. bucket'[b].used - 1 : FALSE
    BY <2>7
  <2>8. chain' \in Seq(Blocks) /\ B!IsInjective(chain') /\ B!Range(chain') = B!Allocated'
    BY <2>1, <2>3 DEF PoolInv
  <2> QED BY <1>1, <2>3, <2>4, <2>5, <2>6, <2>8 DEF PoolInv
<1>3. CASE B!Reset
  <2>1. chain' = <<>> /\ bucket' = [b \in Blocks |-> IF b \in B!Allocated THEN [used |-> 0, capacity |-> -1] ELSE bucket[b]]
    BY <1>1, <1>3 DEF B!Reset, B!NoBucket
  <2>2. bucket' = [b \in Blocks |-> [used |-> 0, capacity |-> -1]]
    BY <1>1, <2>1
  <2>3. B!Allocated' = {}
    BY <2>2 DEF B!Allocated, B!NoBucket
  <2>4. chain' \in Seq(Blocks) /\ B!IsInjective(chain') /\ B!Range(chain') = {}
    BY <2>1 DEF B!IsInjective, B!Range
  <2>5. bucket' = [b \in Blocks |-> [used |-> bucket'[b].used, capacity |-> bucket'[b].capacity]]
    BY <2>2
  <2> QED BY <1>1, <2>3, <2>4, <2>5 DEF PoolInv
<1> QED BY <1>2, <1>3

LEMMA PoolStep ==
  ASSUME PoolInv, B!Next \/ UNCHANGED poolVars
  PROVE  PoolInv'
<1>1. CASE UNCHANGED poolVars
  BY <1>1 DEF PoolInv, poolVars, B!Allocated
<1>2. CASE B!Next
  BY <1>2, PoolReserve, PoolGrown, PoolAllocate, PoolFree DEF B!Next
<1> QED BY <1>1, <1>2

LEMMA PoolInit ==
  ASSUME B!Init
  PROVE  PoolInv
<1>1. chain = <<>> /\ bucket = [b \in Blocks |-> [used |-> 0, capacity |-> -1]] /\ strings = {}
  BY DEF B!Init, B!NoBucket
<1>2. B!Allocated = {}
  BY <1>1 DEF B!Allocated, B!NoBucket
<1>3. chain \in Seq(Blocks) /\ B!IsInjective(chain) /\ B!Range(chain) = {}
  BY <1>1 DEF B!IsInjective, B!Range
<1>4. bucket = [b \in Blocks |-> [used |-> bucket[b].used, capacity |-> bucket[b].capacity]]
  BY <1>1
<1> QED BY <1>1, <1>2, <1>3, <1>4 DEF PoolInv

LEMMA PoolSafe ==
  ASSUME PoolInv
  PROVE  B!TypeOK /\ B!StringsKept
<1>1. /\ \A b \in Blocks : bucket[b] = [used |-> bucket[b].used, capacity |-> bucket[b].capacity]
      /\ \A b \in B!Allocated : bucket[b].used \in Nat /\ bucket[b].capacity \in Nat /\ bucket[b].used <= bucket[b].capacity
      /\ \A b \in Blocks \ B!Allocated : bucket[b] = [used |-> 0, capacity |-> -1]
  <2>1. \A b \in B!Allocated : bucket[b].used \in 0 .. bucket[b].capacity /\ bucket[b].capacity \in Nat \ {0}
    BY DEF PoolInv
  <2>2. \A b \in B!Allocated : bucket[b].used \in Nat /\ bucket[b].capacity \in Nat /\ bucket[b].used <= bucket[b].capacity
    BY <2>1
  <2>3. \A b \in Blocks : bucket[b] = [used |-> bucket[b].used, capacity |-> bucket[b].capacity]
    BY DEF PoolInv
  <2> QED BY <2>2, <2>3 DEF B!Allocated, B!NoBucket
<1>2. bucket \in [Blocks -> [used : Nat, capacity : Nat \cup {-1}]]
  <2>1. \A b \in Blocks : bucket[b] \in [used : Nat, capacity : Nat \cup {-1}]
    <3> TAKE b \in Blocks
    <3>1. CASE b \in B!Allocated
      <4>1. bucket[b].used \in Nat /\ bucket[b].capacity \in Nat
        BY <1>1, <3>1
      <4>2. bucket[b] = [used |-> bucket[b].used, capacity |-> bucket[b].capacity]
        BY <1>1
      <4> QED BY <4>1, <4>2
    <3>2. CASE b \notin B!Allocated
      BY <1>1, <3>2
    <3> QED BY <3>1, <3>2
  <2>2. bucket = [b \in Blocks |-> bucket[b]]
    BY DEF PoolInv
  <2> QED BY <2>1, <2>2
<1>3. B!IsInjective(chain) /\ B!Range(chain) \subseteq Blocks /\ B!Range(chain) = B!Allocated
  BY DEF PoolInv, B!Allocated
<1>4. \A s \in strings : /\ s.block \in B!Allocated /\ s.block \in Blocks /\ s.at \in Nat /\ s.length \in Lengths
                         /\ s.length \in Nat \ {0} /\ bucket[s.block].used >= s.at + s.length
  <2> TAKE s \in strings
  <2>1. /\ s.block \in B!Allocated /\ s.at \in Nat /\ s.length \in Lengths
        /\ s.at + s.length <= bucket[s.block].used
    BY DEF PoolInv
  <2>2. s.block \in Blocks /\ s.length \in Nat \ {0} /\ bucket[s.block].used \in Nat
    BY <1>1, <1>3, <2>1, PoolAssumption
  <2> QED BY <2>1, <2>2
<1>5. ASSUME NEW s \in strings, NEW t \in strings, s # t, s.block = t.block
      PROVE  s.at + s.length <= t.at \/ t.at + t.length <= s.at
  <2>1. Claimed(s) \cap Claimed(t) = {}
    BY <1>5 DEF PoolInv
  <2>2. s.at \in Nat /\ s.length \in Nat \ {0} /\ t.at \in Nat /\ t.length \in Nat \ {0}
    BY <1>4
  <2>3. s.at \notin Claimed(t) /\ t.at \notin Claimed(s)
    <3>1. s.at \in Claimed(s) /\ t.at \in Claimed(t)
      BY <2>2 DEF Claimed
    <3> QED BY <2>1, <3>1
  <2> QED BY <2>2, <2>3 DEF Claimed
<1>6. \A b \in B!Allocated : \A i \in 0 .. bucket[b].used - 1 :
        \E s \in strings : s.block = b /\ s.at <= i /\ i < s.at + s.length
  <2> TAKE b \in B!Allocated
  <2> TAKE i \in 0 .. bucket[b].used - 1
  <2>1. PICK s \in strings : s.block = b /\ i \in Claimed(s)
    BY DEF PoolInv
  <2>2. s.at \in Nat /\ s.length \in Nat
    BY <1>4
  <2>3. s.at <= i /\ i < s.at + s.length
    BY <2>1, <2>2 DEF Claimed
  <2> QED BY <2>1, <2>3
<1>7. B!TypeOK
  BY <1>2, <1>3, <1>4 DEF B!TypeOK
<1>8. B!StringsKept
  BY <1>1, <1>3, <1>4, <1>5, <1>6 DEF B!StringsKept
<1> QED BY <1>7, <1>8
-----------------------------------------------------------------------------
(* SmartPointers *)


Same(x, y) == IF x = y THEN 1 ELSE 0
IsIn(x, X) == IF x \in X THEN 1 ELSE 0
Lost(p, null, q, o) == IF null = {q} /\ q # p /\ ptr[q] = o THEN 1 ELSE 0
Nullable == Objects \cup {NULL}
Pointing(o) == {x \in P!Places : ptr[x] = o}

PointersTyped ==
  /\ pointers \in {"shared", "counted"} /\ ptr \in [P!Places -> Nullable]
  /\ refs \in [Objects -> 0 .. MaxPointers] /\ raw \in [Objects -> Nat]
  /\ pointers = "shared" => \A o \in Objects : raw[o] = 0

\* An object is counted for each of its pointers, and one that is deleted has a null one.
PointerInv ==
  /\ PointersTyped
  /\ \A o \in Objects :
       /\ Cardinality(Pointing(o)) + raw[o] <= refs[o]
       /\ pointers = "shared" => Cardinality(Pointing(o)) = refs[o]
  /\ \A o \in Objects : ptr[o] # NULL => refs[o] > 0

\* What breaks the program is the assignment of the last way to its right-hand side.
BrokenInv ==
  \A e \in broken :
    IF e[1] = e[2] THEN pointers = "shared" /\ refs[ptr[e[1]]] = 1 ELSE P!OnlyThrough(e[1], e[2])

LEMMA PlacesAre ==
  /\ P!Places = Roots \cup Objects /\ NULL \notin P!Places /\ IsFiniteSet(P!Places)
  /\ Cardinality(Objects) \in Nat /\ P!Cardinality(Objects) = Cardinality(Objects)
  /\ IsFiniteSet(Nullable) /\ Cardinality(Nullable) = Cardinality(Objects) + 1
<1>1. IsFiniteSet(Roots) /\ IsFiniteSet(Objects) /\ NULL \notin Roots \cup Objects
  BY PointerAssumption
<1>2. P!Places = Roots \cup Objects
  BY DEF P!Places
<1>3. IsFiniteSet(Roots \cup Objects)
  BY <1>1, FS_Union
<1>4. Cardinality(Objects) \in Nat
  BY <1>1, FS_CardinalityType
<1>5. IsFiniteSet(Nullable) /\ Cardinality(Nullable) = Cardinality(Objects) + 1
  BY <1>1, FS_AddElement DEF Nullable
<1> QED BY <1>1, <1>2, <1>3, <1>4, <1>5 DEF P!Cardinality, Cardinality

LEMMA PointingFinite ==
  ASSUME NEW o, NEW X
  PROVE  /\ IsFiniteSet(Pointing(o)) /\ Cardinality(Pointing(o)) \in Nat
         /\ IsFiniteSet(Pointing(o) \cap X) /\ Cardinality(Pointing(o) \cap X) \in Nat
         /\ IsFiniteSet(Pointing(o) \ X) /\ Cardinality(Pointing(o) \ X) \in Nat
<1>1. Pointing(o) \subseteq P!Places /\ Pointing(o) \cap X \subseteq P!Places /\ Pointing(o) \ X \subseteq P!Places
  BY DEF Pointing
<1> QED BY <1>1, PlacesAre, FS_Subset, FS_CardinalityType

\* What the release of h reaches: h, and with every object that is deleted the one its
\* member points to.
LEMMA ReleasedIs ==
  ASSUME PointersTyped, NEW h \in Nullable, NEW added
  PROVE  /\ P!Released(h, added) \subseteq Objects
         /\ P!Deleted(h, added) = {o \in P!Released(h, added) : P!Count(o, added) = 1}
         /\ P!Released(h, added) = {} <=> h = NULL
         /\ h # NULL => h \in P!Released(h, added)
         /\ \A x \in P!Deleted(h, added) : ptr[x] # NULL => ptr[x] \in P!Released(h, added)
         /\ \A y \in P!Released(h, added) : y = h \/ \E z \in P!Deleted(h, added) : ptr[z] = y
<1> DEFINE n == Cardinality(Objects)
           A == P!Released(h, added)
           one(x) == x # NULL /\ P!Count(x, added) = 1
           g == [x \in Nullable |-> IF one(x) THEN ptr[x] ELSE NULL]
<1>0. n \in Nat /\ IsFiniteSet(Nullable) /\ Cardinality(Nullable) = n + 1 /\ NULL \in Nullable
  BY PlacesAre DEF Nullable
<1>1. g \in [Nullable -> Nullable]
  <2>1. \A x \in Nullable : one(x) => ptr[x] \in Nullable
    BY PlacesAre DEF PointersTyped, Nullable
  <2> QED BY <1>0, <2>1
<1>2. \A x \in Nullable : g[x] = IF one(x) THEN ptr[x] ELSE NULL
  OBVIOUS
<1> HIDE DEF g, n
<1>3. PICK f : Iteration(Nullable, g, n, h, f)
  BY <1>0, <1>1, Iterates
<1> DEFINE R(a) == [k \in 0 .. n |-> IF k = 0 THEN h ELSE IF one(a[k - 1]) THEN ptr[a[k - 1]] ELSE NULL]
           at == CHOOSE a : a = R(a)
<1>4. at = R(at) /\ A = {at[k] : k \in DOMAIN at} \ {NULL}
  <2>0. f \in [0 .. n -> Nullable] /\ f[0] = h /\ \A k \in 1 .. n : f[k] = g[f[k - 1]]
    BY <1>3 DEF Iteration
  <2>1. f = R(f)
    <3>1. ASSUME NEW k \in 0 .. n
          PROVE  f[k] = IF k = 0 THEN h ELSE IF one(f[k - 1]) THEN ptr[f[k - 1]] ELSE NULL
      <4>1. CASE k = 0
        BY <2>0, <4>1
      <4>2. CASE k # 0
        <5>1. k \in 1 .. n /\ k - 1 \in 0 .. n
          BY <1>0, <4>2
        <5>2. f[k] = g[f[k - 1]] /\ f[k - 1] \in Nullable
          BY <2>0, <5>1
        <5> QED BY <1>2, <4>2, <5>2
      <4> QED BY <4>1, <4>2
    <3> QED BY <2>0, <3>1
  <2>2. A = {at[k] : k \in DOMAIN at} \ {NULL}
    BY PlacesAre DEF P!Released, n
  <2> HIDE DEF R
  <2>3. at = R(at)
    BY <2>1
  <2> QED BY <2>2, <2>3
<1> HIDE DEF at
<1>5. /\ DOMAIN at = 0 .. n /\ at[0] = h
      /\ \A k \in 1 .. n : at[k] = IF one(at[k - 1]) THEN ptr[at[k - 1]] ELSE NULL
  <2>1. DOMAIN at = 0 .. n
    BY <1>4
  <2>2. \A k \in 0 .. n : at[k] = IF k = 0 THEN h ELSE IF one(at[k - 1]) THEN ptr[at[k - 1]] ELSE NULL
    BY <1>4
  <2> QED BY <1>0, <2>1, <2>2
<1> DEFINE K == {m \in 1 .. n + 1 : at[m - 1] \in Nullable}
<1>6. \A k \in 0 .. n : at[k] \in Nullable
  <2>1. 1 \in K
    BY <1>0, <1>5
  <2>2. \A k \in 1 .. (n + 1) - 1 : k \in K => k + 1 \in K
    <3> TAKE k \in 1 .. (n + 1) - 1
    <3> HAVE k \in K
    <3>1. k \in 1 .. n /\ (k + 1) - 1 = k /\ k + 1 \in 1 .. n + 1 /\ at[k - 1] \in Nullable
      BY <1>0
    <3>2. at[k] = g[at[k - 1]]
      BY <1>2, <1>5, <3>1
    <3>3. at[k] \in Nullable
      BY <1>1, <3>1, <3>2
    <3> QED BY <3>1, <3>3
  <2>3. n + 1 \in Nat
    BY <1>0
  <2>4. 1 .. n + 1 \subseteq K
    BY <2>1, <2>2, <2>3, UpTo
  <2> TAKE k \in 0 .. n
  <2>5. k + 1 \in K /\ (k + 1) - 1 = k
    BY <1>0, <2>4
  <2> QED BY <2>5
<1> HIDE DEF K
<1>7. at \in [0 .. n -> Nullable]
  BY <1>4, <1>5, <1>6
<1>8. \A k \in 1 .. n : at[k] = g[at[k - 1]]
  <2> TAKE k \in 1 .. n
  <2>1. k - 1 \in 0 .. n
    BY <1>0
  <2>2. at[k - 1] \in Nullable
    BY <1>6, <2>1
  <2> QED BY <1>2, <1>5, <2>2
<1>9. \A k \in 0 .. n : \E j \in 0 .. n : at[j] = g[at[k]]
  <2>1. Iteration(Nullable, g, n, h, at)
    BY <1>5, <1>7, <1>8 DEF Iteration
  <2> QED BY <1>0, <1>1, <2>1, Orbit
<1> HIDE DEF one, A
<1>10. \A y : y \in A <=> y # NULL /\ \E k \in 0 .. n : at[k] = y
  BY <1>4, <1>5, ZenonT(60)
<1>11. A \subseteq Objects /\ \A x \in A : x # NULL
  BY <1>6, <1>10 DEF Nullable
<1>12. h # NULL => h \in A
  <2>1. 0 \in 0 .. n
    BY <1>0
  <2> QED BY <1>5, <1>10, <2>1
<1>13. h = NULL => A = {}
  <2> SUFFICES ASSUME h = NULL, NEW y \in A PROVE FALSE
    OBVIOUS
  <2>1. PICK k \in 0 .. n : at[k] = y /\ y # NULL
    BY <1>10
  <2> DEFINE Z == {m \in 1 .. n + 1 : at[m - 1] = NULL}
  <2>2. 1 \in Z
    BY <1>0, <1>5
  <2>3. \A m \in 1 .. (n + 1) - 1 : m \in Z => m + 1 \in Z
    <3> TAKE m \in 1 .. (n + 1) - 1
    <3> HAVE m \in Z
    <3>1. m \in 1 .. n /\ (m + 1) - 1 = m /\ m + 1 \in 1 .. n + 1 /\ at[m - 1] = NULL
      BY <1>0
    <3>2. at[m] = NULL
      BY <1>5, <3>1 DEF one
    <3> QED BY <3>1, <3>2
  <2>4. n + 1 \in Nat
    BY <1>0
  <2>5. 1 .. n + 1 \subseteq Z
    BY <2>2, <2>3, <2>4, UpTo
  <2>6. k + 1 \in Z /\ (k + 1) - 1 = k
    BY <1>0, <2>5
  <2> QED BY <2>1, <2>6
<1>14. P!Deleted(h, added) = {o \in A : P!Count(o, added) = 1}
  BY DEF P!Deleted, A
<1>15. \A x \in P!Deleted(h, added) : ptr[x] # NULL => ptr[x] \in A
  <2> TAKE x \in P!Deleted(h, added)
  <2> HAVE ptr[x] # NULL
  <2>1. x \in A /\ one(x) /\ x \in Nullable
    BY <1>11, <1>14 DEF one, Nullable
  <2>2. PICK k \in 0 .. n : at[k] = x
    BY <1>10, <2>1
  <2>3. PICK j \in 0 .. n : at[j] = g[x]
    BY <1>9, <2>2
  <2>4. g[x] = ptr[x]
    BY <1>2, <2>1
  <2> QED BY <1>10, <2>3, <2>4
<1>16. \A y \in A : y = h \/ \E z \in P!Deleted(h, added) : ptr[z] = y
  <2> TAKE y \in A
  <2>1. PICK k \in 0 .. n : at[k] = y /\ y # NULL
    BY <1>10
  <2>2. CASE k = 0
    BY <1>5, <2>1, <2>2
  <2>3. CASE k # 0
    <3>1. k \in 1 .. n /\ k - 1 \in 0 .. n
      BY <1>0, <2>3
    <3>2. one(at[k - 1]) /\ ptr[at[k - 1]] = y
      BY <1>5, <2>1, <3>1
    <3>3. at[k - 1] \in P!Deleted(h, added)
      BY <1>10, <1>14, <3>1, <3>2 DEF one
    <3> QED BY <3>2, <3>3
  <2> QED BY <2>2, <2>3
<1> QED BY <1>11, <1>12, <1>13, <1>14, <1>15, <1>16 DEF A


\* Reach(X) is the least set of places that holds X and what the pointers at its
\* places point to.
LEMMA ReachIs ==
  ASSUME PointersTyped, NEW X \in SUBSET P!Places
  PROVE  /\ X \subseteq P!Reach(X) /\ P!Reach(X) \subseteq P!Places
         /\ \A x \in P!Reach(X) : ptr[x] # NULL => ptr[x] \in P!Reach(X)
         /\ \A Z : X \subseteq Z /\ (\A x \in Z \cap P!Places : ptr[x] # NULL => ptr[x] \in Z) =>
              P!Reach(X) \subseteq Z
<1> DEFINE n == Cardinality(Objects)
           Y == P!Reach(X)
           next(T) == T \cup ({ptr[x] : x \in T} \ {NULL})
           g == [T \in SUBSET P!Places |-> next(T)]
           R(a) == [k \in 0 .. n |-> IF k = 0 THEN X ELSE next(a[k - 1])]
           st == CHOOSE a : a = R(a)
<1>0. n \in Nat /\ IsFiniteSet(Objects)
  BY PlacesAre, PointerAssumption
<1>1. ASSUME NEW T \in SUBSET P!Places
      PROVE  next(T) \in SUBSET P!Places
  BY PlacesAre DEF PointersTyped, Nullable
<1>2. g \in [SUBSET P!Places -> SUBSET P!Places] /\ \A T \in SUBSET P!Places : g[T] = next(T)
  BY <1>1
<1> HIDE DEF next, g
<1>3. st = R(st) /\ Y = st[n]
  <2>1. PICK f : Iteration(SUBSET P!Places, g, n, X, f)
    BY <1>0, <1>2, Iterates
  <2>2. f \in [0 .. n -> SUBSET P!Places] /\ f[0] = X /\ \A k \in 1 .. n : f[k] = g[f[k - 1]]
    BY <2>1 DEF Iteration
  <2>3. f = R(f)
    <3>1. ASSUME NEW k \in 0 .. n PROVE f[k] = IF k = 0 THEN X ELSE next(f[k - 1])
      <4>1. CASE k = 0
        BY <2>2, <4>1
      <4>2. CASE k # 0
        <5>1. k \in 1 .. n /\ k - 1 \in 0 .. n
          BY <1>0, <4>2
        <5>2. f[k] = g[f[k - 1]] /\ f[k - 1] \in SUBSET P!Places
          BY <2>2, <5>1
        <5> QED BY <1>2, <4>2, <5>2
      <4> QED BY <4>1, <4>2
    <3> QED BY <2>2, <3>1
  <2>4. Y = st[n]
    BY PlacesAre DEF P!Reach, n, next
  <2> HIDE DEF R
  <2> QED BY <2>3, <2>4
<1> HIDE DEF st, Y
<1>4. /\ DOMAIN st = 0 .. n /\ st[0] = X
      /\ \A k \in 1 .. n : st[k] = next(st[k - 1])
  <2>1. DOMAIN st = 0 .. n
    BY <1>3
  <2>2. \A k \in 0 .. n : st[k] = IF k = 0 THEN X ELSE next(st[k - 1])
    BY <1>3
  <2> QED BY <1>0, <2>1, <2>2
<1> DEFINE closed(T) == \A x \in T : ptr[x] # NULL => ptr[x] \in T
\* Every set is larger than the last one by an object, or closed.
<1> DEFINE K == {m \in 1 .. n + 1 :
                   /\ st[m - 1] \in SUBSET P!Places /\ X \subseteq st[m - 1]
                   /\ closed(st[m - 1]) \/ Cardinality(st[m - 1] \cap Objects) >= m - 1}
<1>5. n + 1 \in K
  <2>1. 1 \in K
    <3>1. X \cap Objects \in SUBSET Objects
      OBVIOUS
    <3>2. IsFiniteSet(X \cap Objects)
      BY <1>0, <3>1, FS_Subset
    <3>3. Cardinality(X \cap Objects) \in Nat
      BY <3>2, FS_CardinalityType
    <3>4. 1 \in 1 .. n + 1 /\ 1 - 1 = 0 /\ Cardinality(X \cap Objects) >= 0
      BY <1>0, <3>3
    <3>5. st[1 - 1] = X
      BY <1>4, <3>4
    <3>6. st[1 - 1] \in SUBSET P!Places /\ X \subseteq st[1 - 1] /\ Cardinality(st[1 - 1] \cap Objects) >= 1 - 1
      BY <3>4, <3>5
    <3> HIDE DEF closed
    <3> QED BY <3>4, <3>6
  <2>2. \A m \in 1 .. (n + 1) - 1 : m \in K => m + 1 \in K
    <3> TAKE m \in 1 .. (n + 1) - 1
    <3> HAVE m \in K
    <3> DEFINE a == st[m - 1]
               b == st[m]
    <3>1. m \in 1 .. n /\ m + 1 \in 1 .. n + 1 /\ (m + 1) - 1 = m
      BY <1>0
    <3>2. a \in SUBSET P!Places /\ X \subseteq a /\ (closed(a) \/ Cardinality(a \cap Objects) >= m - 1)
      <4> m \in K
        OBVIOUS
      <4> QED OBVIOUS
    <3>3. b = next(a)
      BY <1>4, <3>1
    <3> HIDE DEF a, b
    <3>4. b \in SUBSET P!Places /\ X \subseteq b /\ a \subseteq b
      BY <1>1, <3>2, <3>3 DEF next
    <3>5. CASE closed(a)
      <4>1. b = a
        BY <3>3, <3>5 DEF next
      <4> QED BY <3>1, <3>4, <3>5, <4>1 DEF b
    <3>6. CASE ~closed(a)
      <4>1. PICK x \in a : ptr[x] # NULL /\ ptr[x] \notin a
        BY <3>6
      <4>2. ptr[x] \in Objects /\ ptr[x] \in b
        BY <3>2, <3>3, <4>1 DEF next, PointersTyped, Nullable
      <4>3. (a \cap Objects) \cup {ptr[x]} \in SUBSET (b \cap Objects) /\ b \cap Objects \in SUBSET Objects
            /\ a \cap Objects \in SUBSET Objects
        BY <3>4, <4>2
      <4>4. IsFiniteSet(b \cap Objects) /\ IsFiniteSet(a \cap Objects)
        BY <1>0, <4>3, FS_Subset
      <4>5. Cardinality((a \cap Objects) \cup {ptr[x]}) = Cardinality(a \cap Objects) + 1
        <5>1. ptr[x] \notin a \cap Objects
          BY <4>1
        <5> QED BY <4>4, <5>1, FS_AddElement
      <4>6. Cardinality((a \cap Objects) \cup {ptr[x]}) <= Cardinality(b \cap Objects)
        BY <4>3, <4>4, FS_Subset
      <4>7. Cardinality(a \cap Objects) \in Nat /\ Cardinality(b \cap Objects) \in Nat
        BY <4>4, FS_CardinalityType
      <4>8. Cardinality(a \cap Objects) >= m - 1
        BY <3>2, <3>6
      <4>9. Cardinality(b \cap Objects) >= m
        BY <3>1, <4>5, <4>6, <4>7, <4>8
      <4> QED BY <3>1, <3>4, <4>9 DEF b
    <3> QED BY <3>5, <3>6
  <2> HIDE DEF K
  <2>3. n + 1 \in Nat /\ n + 1 \in 1 .. n + 1
    BY <1>0
  <2> QED BY <2>1, <2>2, <2>3, UpTo
<1>6. Y \in SUBSET P!Places /\ X \subseteq Y /\ (closed(Y) \/ Cardinality(Y \cap Objects) >= n)
  <2>1. (n + 1) - 1 = n
    BY <1>0
  <2> QED BY <1>3, <1>5, <2>1
<1>7. closed(Y)
  <2> SUFFICES ASSUME Cardinality(Y \cap Objects) >= n PROVE closed(Y)
    BY <1>6
  <2>1. Y \cap Objects \in SUBSET Objects
    OBVIOUS
  <2>2. Cardinality(Y \cap Objects) <= n /\ Cardinality(Y \cap Objects) \in Nat
    BY <1>0, <2>1, FS_Subset, FS_CardinalityType DEF n
  <2>3. Cardinality(Y \cap Objects) = Cardinality(Objects)
    BY <1>0, <2>2 DEF n
  <2>4. Y \cap Objects = Objects
    BY <1>0, <2>1, <2>3, FS_Subset
  <2> QED BY <1>6, <2>4 DEF PointersTyped, Nullable
<1>8. ASSUME NEW Z, X \subseteq Z, \A x \in Z \cap P!Places : ptr[x] # NULL => ptr[x] \in Z
      PROVE  Y \subseteq Z
  <2> DEFINE M == {m \in 1 .. n + 1 : st[m - 1] \subseteq Z \cap P!Places}
  <2>1. 1 \in M
    BY <1>0, <1>4, <1>8
  <2>2. \A m \in 1 .. (n + 1) - 1 : m \in M => m + 1 \in M
    <3> TAKE m \in 1 .. (n + 1) - 1
    <3> HAVE m \in M
    <3>1. m \in 1 .. n /\ m + 1 \in 1 .. n + 1 /\ (m + 1) - 1 = m
      BY <1>0
    <3>2. st[m] = next(st[m - 1]) /\ st[m - 1] \subseteq Z \cap P!Places
      BY <1>4, <3>1
    <3>3. next(st[m - 1]) \subseteq P!Places
      BY <1>1, <3>2
    <3>4. next(st[m - 1]) \subseteq Z
      BY <1>8, <3>2 DEF next
    <3> QED BY <3>1, <3>2, <3>3, <3>4
  <2> HIDE DEF M
  <2>3. n + 1 \in Nat /\ n + 1 \in 1 .. n + 1
    BY <1>0
  <2>4. n + 1 \in M
    BY <2>1, <2>2, <2>3, UpTo
  <2>5. (n + 1) - 1 = n
    BY <1>0
  <2> QED BY <1>3, <2>4, <2>5 DEF M
<1> QED BY <1>6, <1>7, <1>8 DEF Y

LEMMA PointingIs ==
  ASSUME PointerInv, NEW o \in Objects
  PROVE  /\ refs[o] \in Nat /\ raw[o] \in Nat /\ refs[o] <= MaxPointers /\ MaxPointers \in Nat \ {0}
         /\ Cardinality(Pointing(o)) \in Nat /\ Cardinality(Pointing(o)) + raw[o] <= refs[o]
         /\ \A x \in P!Places : ptr[x] = o => Cardinality(Pointing(o)) >= 1 /\ refs[o] >= 1
<1>1. refs[o] \in Nat /\ raw[o] \in Nat /\ refs[o] <= MaxPointers /\ MaxPointers \in Nat \ {0}
  BY PointerAssumption DEF PointerInv, PointersTyped
<1>2. Cardinality(Pointing(o)) \in Nat /\ IsFiniteSet(Pointing(o))
  BY PointingFinite
<1>3. Cardinality(Pointing(o)) + raw[o] <= refs[o]
  BY DEF PointerInv
<1>4. ASSUME NEW x \in P!Places, ptr[x] = o
      PROVE  Cardinality(Pointing(o)) >= 1 /\ refs[o] >= 1
  <2>1. Pointing(o) # {}
    BY <1>4 DEF Pointing
  <2>2. Cardinality(Pointing(o)) # 0
    BY <1>2, <2>1, FS_EmptySet
  <2> QED BY <1>1, <1>2, <1>3, <2>2
<1> QED BY <1>1, <1>2, <1>3, <1>4

\* The last reference to an object is a pointer, or one that the program owns.
LEMMA LastOne ==
  ASSUME PointerInv, NEW o \in Objects, NEW added, P!Count(o, added) = 1
  PROVE  \A x, y \in Pointing(o) : x = y /\ raw[o] = 0
<1> SUFFICES ASSUME NEW x \in Pointing(o), NEW y \in Pointing(o) PROVE x = y /\ raw[o] = 0
  OBVIOUS
<1>1. refs[o] <= 1
  BY PointingIs DEF P!Count
<1>2. Cardinality(Pointing(o)) >= 1
  BY PointingIs DEF Pointing
<1>3. Cardinality(Pointing(o)) = 1 /\ raw[o] = 0
  BY <1>1, <1>2, PointingIs
<1>4. \E z : Pointing(o) = {z}
  BY <1>3, PointingFinite, FS_Singleton
<1> QED BY <1>3, <1>4

\* An object that is deleted is held by the pointer that is released, or by objects
\* that are deleted with it.
LEMMA OnlyHeldBy ==
  ASSUME PointerInv, NEW p \in P!Places, NEW h \in {ptr[p], NULL}, NEW added,
         NEW y \in P!Deleted(h, added)
  PROVE  /\ y \in Objects /\ raw[y] = 0 /\ P!Count(y, added) = 1
         /\ \A x \in P!Places : ptr[x] = y => x = p \/ x \in P!Deleted(h, added)
<1> DEFINE A == P!Released(h, added)
           G == P!Deleted(h, added)
<1>1. PointersTyped /\ h \in Nullable
  BY DEF PointerInv, PointersTyped, Nullable
<1>2. /\ A \subseteq Objects /\ G = {o \in A : P!Count(o, added) = 1}
      /\ \A x \in A : x = h \/ \E z \in G : ptr[z] = x
  BY <1>1, ReleasedIs
<1> HIDE DEF A, G
<1>3. y \in Objects /\ P!Count(y, added) = 1 /\ (y = h \/ \E z \in G : ptr[z] = y)
  BY <1>2 DEF G
<1>4. PICK z \in G \cup {p} : z \in P!Places /\ ptr[z] = y
  <2>1. \A x \in G : x \in P!Places
    BY <1>2, PlacesAre
  <2>2. y # NULL
    BY <1>3, PointerAssumption
  <2> QED BY <1>3, <2>1, <2>2
<1>5. z \in Pointing(y) /\ \A x \in P!Places : ptr[x] = y => x \in Pointing(y)
  BY <1>4 DEF Pointing
<1>6. raw[y] = 0 /\ \A x \in P!Places : ptr[x] = y => x = z
  BY <1>3, <1>5, LastOne
<1> QED BY <1>3, <1>4, <1>6 DEF G

\* What the program reaches is not deleted while one of the pointers it uses is
\* released, and it is counted.
LEMMA UsableKept ==
  ASSUME PointerInv, NEW p \in P!Places, P!Usable(p), NEW h \in {ptr[p], NULL}, NEW added
  PROVE  p \notin P!Deleted(h, added) /\ (p \in Objects => refs[p] > 0)
<1> DEFINE X == Roots \cup {o \in Objects : raw[o] > 0}
           G == P!Deleted(h, added)
<1>1. PointersTyped /\ X \in SUBSET P!Places /\ p \in P!Reach(X)
  BY PlacesAre DEF PointerInv, P!Usable, P!Owned
<1>2. \A y \in G : /\ y \in Objects /\ raw[y] = 0
                   /\ \A x \in P!Places : ptr[x] = y => x = p \/ x \in G
  BY OnlyHeldBy
<1> HIDE DEF G
<1>5. p \notin G
  <2> SUFFICES ASSUME p \in G PROVE FALSE
    OBVIOUS
  <2> DEFINE Z == P!Places \ G
  <2>1. X \subseteq Z
    BY <1>1, <1>2, PointerAssumption
  <2>2. \A x \in Z \cap P!Places : ptr[x] # NULL => ptr[x] \in Z
    <3>1. \A x \in P!Places : ptr[x] # NULL => ptr[x] \in P!Places
      BY <1>1, PlacesAre DEF PointersTyped, Nullable
    <3> QED BY <1>2, <3>1
  <2> HIDE DEF Z, X
  <2>3. P!Reach(X) \subseteq Z
    BY <1>1, <2>1, <2>2, ReachIs
  <2> QED BY <1>1, <2>3 DEF Z
<1>6. p \in Objects => refs[p] > 0
  <2> DEFINE Z == Roots \cup {o \in Objects : refs[o] > 0}
  <2>1. X \subseteq Z
    <3> SUFFICES ASSUME NEW o \in Objects, raw[o] > 0 PROVE refs[o] > 0
      OBVIOUS
    <3> QED BY PointingIs
  <2>2. \A x \in Z \cap P!Places : ptr[x] # NULL => ptr[x] \in Z
    <3> TAKE x \in Z \cap P!Places
    <3> HAVE ptr[x] # NULL
    <3>1. ptr[x] \in Objects
      BY <1>1 DEF PointersTyped, Nullable
    <3>2. refs[ptr[x]] >= 1 /\ refs[ptr[x]] \in Nat
      BY <3>1, PointingIs
    <3>3. refs[ptr[x]] > 0
      BY <3>2
    <3> QED BY <3>1, <3>3
  <2> HIDE DEF Z, X
  <2>3. P!Reach(X) \subseteq Z
    BY <1>1, <2>1, <2>2, ReachIs
  <2>4. p \in Z
    BY <1>1, <2>3
  <2> QED BY <2>4, PointerAssumption DEF Z
<1> QED BY <1>5, <1>6 DEF G


\* An object that is released lost one of its pointers to an object that is deleted,
\* unless it is the one a reference to which is released.
LEMMA OneToken ==
  ASSUME PointerInv, NEW h \in Nullable, NEW added, NEW o \in Objects
  PROVE  IsIn(o, P!Released(h, added))
           <= Cardinality(Pointing(o) \cap P!Deleted(h, added)) + Same(h, o)
<1> DEFINE A == P!Released(h, added)
           G == P!Deleted(h, added)
           K == Pointing(o) \cap G
<1>1. \A y \in A : y = h \/ \E z \in G : ptr[z] = y
  BY ReleasedIs DEF PointerInv
<1>2. G \subseteq P!Places
  BY ReleasedIs, PlacesAre DEF PointerInv
<1>3. IsFiniteSet(K) /\ Cardinality(K) \in Nat
  BY PointingFinite
<1> HIDE DEF A, G
<1>4. o \in A /\ h # o => Cardinality(K) >= 1
  <2> SUFFICES ASSUME o \in A, h # o PROVE Cardinality(K) >= 1
    OBVIOUS
  <2>1. K # {}
    BY <1>1, <1>2 DEF Pointing
  <2>2. Cardinality(K) # 0
    BY <1>3, <2>1, FS_EmptySet
  <2> QED BY <1>3, <2>2
<1> HIDE DEF K
<1>5. IsIn(o, A) <= Cardinality(K) + Same(h, o)
  BY <1>3, <1>4 DEF Same, IsIn, Lost
<1> QED BY <1>5 DEF A, K, G

\* While no reference is lost it lost exactly one.
LEMMA OneTokenExactly ==
  ASSUME PointerInv, pointers = "shared", NEW p \in P!Places, P!Usable(p),
         NEW h \in {ptr[p], NULL}, NEW added, NEW o \in Objects
  PROVE  IsIn(o, P!Released(h, added))
           = Cardinality(Pointing(o) \cap P!Deleted(h, added)) + Same(h, o)
<1> DEFINE A == P!Released(h, added)
           G == P!Deleted(h, added)
           K == Pointing(o) \cap G
<1>0. h \in Nullable /\ NULL \notin Objects /\ IsFiniteSet(Objects)
  BY PlacesAre, PointerAssumption DEF PointerInv, PointersTyped, Nullable
<1>1. /\ A \subseteq Objects /\ G = {x \in A : P!Count(x, added) = 1}
      /\ A = {} <=> h = NULL
      /\ h # NULL => h \in A
      /\ \A x \in G : ptr[x] # NULL => ptr[x] \in A
      /\ \A y \in A : y = h \/ \E z \in G : ptr[z] = y
  BY <1>0, ReleasedIs DEF PointerInv
<1>2. p \notin G
  BY UsableKept
<1>3. G \subseteq P!Places /\ \A x \in P!Places : x \in Pointing(o) <=> ptr[x] = o
  BY <1>1, PlacesAre DEF Pointing
<1>4. /\ IsFiniteSet(K) /\ Cardinality(K) \in Nat /\ IsFiniteSet(A) /\ IsFiniteSet(G)
      /\ Cardinality(A) \in Nat /\ Cardinality(G) \in Nat
  <2>1. IsFiniteSet(A) /\ Cardinality(A) \in Nat
    BY <1>0, <1>1, FS_Subset, FS_CardinalityType
  <2>2. G \in SUBSET A
    BY <1>1
  <2>3. IsFiniteSet(G) /\ Cardinality(G) \in Nat
    BY <2>1, <2>2, FS_Subset, FS_CardinalityType
  <2> QED BY <2>1, <2>3, PointingFinite
<1> HIDE DEF A, G
<1>5. CASE o \notin A
  <2>1. h # o /\ K = {}
    BY <1>0, <1>1, <1>3, <1>5
  <2>2. Cardinality(K) = 0
    BY <2>1, FS_EmptySet
  <2> QED BY <1>5, <2>1, <2>2 DEF Same, IsIn, Lost, A, G
<1>6. CASE o \in A /\ o \in G
  <2>1. \A x, y \in Pointing(o) : x = y
    BY <1>1, <1>6, LastOne
  <2>2. CASE h = o
    <3>1. p \in Pointing(o)
      BY <1>0, <1>3, <2>2
    <3>2. K = {}
      BY <1>2, <2>1, <3>1
    <3>3. Cardinality(K) = 0
      BY <3>2, FS_EmptySet
    <3> QED BY <1>6, <2>2, <3>3 DEF Same, IsIn, Lost, A, G
  <2>3. CASE h # o
    <3>1. PICK z \in G : z \in Pointing(o)
      BY <1>1, <1>3, <1>6, <2>3
    <3>2. K = {z}
      BY <2>1, <3>1
    <3>3. Cardinality(K) = 1
      BY <3>2, FS_Singleton
    <3> QED BY <1>6, <2>3, <3>3 DEF Same, IsIn, Lost, A, G
  <2> QED BY <2>2, <2>3
<1>7. CASE o \in A /\ o \notin G
  \* Otherwise there were fewer objects released than deleted.
  <2>1. ASSUME NEW z \in G, ptr[z] = o, h = o \/ \E w \in G : w # z /\ ptr[w] = o
        PROVE  FALSE
    <3> DEFINE J == G \ {z}
               f == [w \in J |-> ptr[w]]
               I == {ptr[w] : w \in J}
    <3>1. f \in Surjection(J, I)
      BY DEF Surjection
    <3>2. IsFiniteSet(J) /\ Cardinality(J) = Cardinality(G) - 1
      BY <1>4, FS_RemoveElement
    <3> HIDE DEF f, I
    <3>3. IsFiniteSet(I) /\ Cardinality(I) <= Cardinality(J)
      BY <3>1, <3>2, FS_Surjection
    <3>4. IsFiniteSet(I \cup {h}) /\ Cardinality(I \cup {h}) <= Cardinality(I) + 1 /\ Cardinality(I) \in Nat
          /\ Cardinality(I \cup {h}) \in Nat
      <4>1. Cardinality(I) \in Nat
        BY <3>3, FS_CardinalityType
      <4>2. IsFiniteSet(I \cup {h}) /\ Cardinality(I \cup {h}) = IF h \in I THEN Cardinality(I) ELSE Cardinality(I) + 1
        BY <3>3, FS_AddElement
      <4> QED BY <4>1, <4>2
    <3>5. A \subseteq I \cup {h}
      <4> SUFFICES ASSUME NEW y \in A, y # h PROVE y \in I
        OBVIOUS
      <4>1. PICK w \in G : ptr[w] = y
        BY <1>1
      <4>2. CASE w # z
        BY <4>1, <4>2 DEF I
      <4>3. CASE w = z
        BY <2>1, <4>1, <4>3 DEF I
      <4> QED BY <4>2, <4>3
    <3>6. A \in SUBSET (I \cup {h})
      BY <3>5
    <3>7. Cardinality(A) <= Cardinality(I \cup {h})
      BY <3>4, <3>6, FS_Subset
    <3>8. G \cup {o} \in SUBSET A
      BY <1>1, <1>7
    <3>9. Cardinality(G \cup {o}) = Cardinality(G) + 1
      BY <1>4, <1>7, FS_AddElement
    <3>10. Cardinality(G \cup {o}) <= Cardinality(A)
      BY <1>4, <3>8, FS_Subset
    <3> QED BY <1>4, <3>2, <3>3, <3>4, <3>7, <3>9, <3>10
  <2>2. CASE h = o
    <3>1. K = {}
      BY <1>3, <2>1, <2>2
    <3>2. Cardinality(K) = 0
      BY <3>1, FS_EmptySet
    <3> QED BY <1>7, <2>2, <3>2 DEF Same, IsIn, Lost, A, G
  <2>3. CASE h # o
    <3>1. PICK z \in G : ptr[z] = o
      BY <1>1, <1>7, <2>3
    <3>2. \A w \in K : w = z
      BY <1>3, <2>1, <3>1
    <3>3. K = {z}
      BY <1>3, <3>1, <3>2
    <3>4. Cardinality(K) = 1
      BY <3>3, FS_Singleton
    <3> QED BY <1>7, <2>3, <3>4 DEF Same, IsIn, Lost, A, G
  <2> QED BY <2>2, <2>3
<1> QED BY <1>5, <1>6, <1>7

\* One pointer gets a value, one may become null, a reference is added and one is
\* released: the counts are right again if none is lost, and for a RefCountedPtr also
\* when one is lost.
Balanced(p, v, null, q, h, added) ==
  \A o \in Objects :
    LET given == Same(v, o) + raw'[o] + Same(h, o)
        taken == raw[o] + Same(added, o) + Same(ptr[p], o) + Lost(p, null, q, o)
    IN  given <= taken /\ (pointers = "shared" => given = taken)

\* The pointers to o are counted again.
Repointed(p, v, null, q, h, added, o) ==
  /\ Cardinality(Pointing(o)') \in Nat
  /\ Cardinality(Pointing(o)') + Cardinality(Pointing(o) \cap P!Deleted(h, added))
       + Same(ptr[p], o) + Lost(p, null, q, o)
     = Cardinality(Pointing(o)) + Same(v, o)

Setting(p, v, null, q, h, added) ==
  /\ p \in P!Places /\ q \in P!Places /\ null \in {{}, {q}} /\ P!Set(p, v, null, h, added)
  /\ p \notin P!Deleted(h, added) /\ (null = {q} => q \notin P!Deleted(h, added))

LEMMA PointingAfter ==
  ASSUME PointerInv, NEW p, NEW v, NEW null, NEW q, NEW h, NEW added,
         Setting(p, v, null, q, h, added), NEW o \in Objects
  PROVE  Repointed(p, v, null, q, h, added, o)
<1> DEFINE G == P!Deleted(h, added)
           X1 == Pointing(o) \ G
           X2 == X1 \ {p}
           X3 == X2 \ (null \ {p})
           X4 == IF v = o THEN X3 \cup {p} ELSE X3
<1>0. /\ p \in P!Places /\ q \in P!Places /\ null \in {{}, {q}} /\ P!Set(p, v, null, h, added)
      /\ p \notin G /\ (null = {q} => q \notin G)
  BY DEF Setting
<1>1. /\ IsFiniteSet(Pointing(o)) /\ Cardinality(Pointing(o)) \in Nat
      /\ Cardinality(Pointing(o) \cap G) \in Nat
  BY PointingFinite
<1>2. /\ \A x \in P!Places : ptr'[x] = IF x \in G \cup (null \ {p}) THEN NULL ELSE IF x = p THEN v ELSE ptr[x]
      /\ NULL # o
  BY <1>0, PointerAssumption DEF P!Set
<1>3. \A x : x \in Pointing(o) <=> x \in P!Places /\ ptr[x] = o
  BY DEF Pointing
<1>4. \A x : x \in Pointing(o)' <=> x \in P!Places /\ ptr'[x] = o
  BY DEF Pointing, P!Places
<1> HIDE DEF G
<1>5. IsFiniteSet(X1) /\ Cardinality(X1) = Cardinality(Pointing(o)) - Cardinality(Pointing(o) \cap G)
  BY <1>1, FS_Difference
<1>6. p \in X1 <=> ptr[p] = o
  BY <1>0, <1>3
<1>7. IsFiniteSet(X2) /\ Cardinality(X2) = Cardinality(X1) - Same(ptr[p], o)
  <2> HIDE DEF X1
  <2>1. IsFiniteSet(X2) /\ Cardinality(X2) = IF p \in X1 THEN Cardinality(X1) - 1 ELSE Cardinality(X1)
    BY <1>5, FS_RemoveElement
  <2>2. Cardinality(X1) \in Nat
    BY <1>5, FS_CardinalityType
  <2> QED BY <1>6, <2>1, <2>2 DEF Same, IsIn, Lost
<1>8. IsFiniteSet(X3) /\ Cardinality(X3) = Cardinality(X2) - Lost(p, null, q, o)
  <2>0. Cardinality(X2) \in Nat
    BY <1>7, FS_CardinalityType
  <2>1. CASE null = {q} /\ q # p
    <3>1. X3 = X2 \ {q}
      BY <2>1
    <3>2. q \in X2 <=> ptr[q] = o
      BY <1>0, <1>3, <2>1
    <3> HIDE DEF X2
    <3>3. IsFiniteSet(X2 \ {q}) /\ Cardinality(X2 \ {q}) = IF q \in X2 THEN Cardinality(X2) - 1 ELSE Cardinality(X2)
      BY <1>7, FS_RemoveElement
    <3> HIDE DEF X3
    <3> QED BY <2>0, <2>1, <3>1, <3>2, <3>3 DEF Same, IsIn, Lost
  <2>2. CASE ~(null = {q} /\ q # p)
    <3>1. X3 = X2
      BY <1>0, <2>2
    <3> HIDE DEF X2, X3
    <3> QED BY <1>7, <2>0, <2>2, <3>1 DEF Same, IsIn, Lost
  <2> QED BY <2>1, <2>2
<1>9. IsFiniteSet(X4) /\ Cardinality(X4) = Cardinality(X3) + Same(v, o)
  <2>0. Cardinality(X3) \in Nat
    BY <1>8, FS_CardinalityType
  <2>1. p \notin X3
    OBVIOUS
  <2> HIDE DEF X3
  <2>2. IsFiniteSet(X3 \cup {p}) /\ Cardinality(X3 \cup {p}) = Cardinality(X3) + 1
    BY <1>8, <2>1, FS_AddElement
  <2> QED BY <1>8, <2>0, <2>2 DEF Same, IsIn, Lost
<1>10. Pointing(o)' = X4
  <2>1. \A x \in P!Places : ptr'[x] = o <=> x \in X4
    <3> TAKE x \in P!Places
    <3>1. CASE x = p
      BY <1>0, <1>2, <3>1
    <3>2. CASE x # p
      <4>1. x \in X4 <=> x \in Pointing(o) /\ x \notin G /\ x \notin null
        BY <3>2
      <4> QED BY <1>2, <1>3, <3>2, <4>1
    <3> QED BY <3>1, <3>2
  <2>2. X4 \subseteq P!Places
    BY <1>0, <1>3
  <2> HIDE DEF X4
  <2> QED BY <1>4, <2>1, <2>2
<1>11. Cardinality(X4) \in Nat
  <2> HIDE DEF X4
  <2> QED BY <1>9, FS_CardinalityType
<1>12. Same(ptr[p], o) \in Nat /\ Lost(p, null, q, o) \in Nat /\ Same(v, o) \in Nat
  BY DEF Same, IsIn, Lost
<1> HIDE DEF X1, X2, X3, X4
<1> QED BY <1>1, <1>5, <1>7, <1>8, <1>9, <1>10, <1>11, <1>12 DEF G, Repointed

Lawful(p, v, null, q, h, added) ==
  /\ Setting(p, v, null, q, h, added) /\ Balanced(p, v, null, q, h, added)
  /\ v \in Nullable /\ h \in Nullable /\ added \in Nullable
  /\ (p \in Objects => refs[p] > 0)
  /\ (h # NULL => refs[h] >= 1)
  /\ (added # NULL => refs[added] < MaxPointers)
  /\ (pointers = "shared" => P!Usable(p) /\ h \in {ptr[p], NULL})

LEMMA SetKeeps ==
  ASSUME PointerInv, NEW p, NEW v, NEW null, NEW q, NEW h, NEW added,
         Lawful(p, v, null, q, h, added), UNCHANGED pointers,
         raw' \in [Objects -> Nat], pointers = "shared" => raw' = raw
  PROVE  PointerInv'
<1> USE DEF Lawful, Setting
<1>0. /\ p \in P!Places /\ q \in P!Places /\ v \in Nullable /\ null \in {{}, {q}}
      /\ h \in Nullable /\ added \in Nullable /\ P!Set(p, v, null, h, added)
      /\ p \notin P!Deleted(h, added) /\ (null = {q} => q \notin P!Deleted(h, added))
      /\ (p \in Objects => refs[p] > 0)
      /\ (h # NULL => refs[h] >= 1)
      /\ (added # NULL => refs[added] < MaxPointers)
      /\ (pointers = "shared" => P!Usable(p) /\ h \in {ptr[p], NULL})
      /\ Balanced(p, v, null, q, h, added)
  OBVIOUS
<1>00. Setting(p, v, null, q, h, added)
  OBVIOUS
<1> HIDE DEF Lawful, Setting
<1> DEFINE A == P!Released(h, added)
           G == P!Deleted(h, added)
<1>1. /\ A \subseteq Objects /\ G = {o \in A : P!Count(o, added) = 1}
      /\ \A y \in A : y = h \/ \E z \in G : ptr[z] = y
  BY <1>0, ReleasedIs DEF PointerInv
<1>2. /\ \A x \in P!Places : ptr'[x] = IF x \in G \cup (null \ {p}) THEN NULL ELSE IF x = p THEN v ELSE ptr[x]
      /\ DOMAIN ptr' = P!Places /\ ptr' = [x \in P!Places |-> ptr'[x]]
  BY <1>0 DEF P!Set
<1>3. /\ refs' = [o \in Objects |-> refs'[o]]
      /\ \A o \in Objects : refs'[o] = P!Count(o, added) - IsIn(o, A)
  BY <1>0 DEF P!Set, Same, IsIn, Lost
<1>4. \A o \in Objects : P!Count(o, added) = refs[o] + Same(added, o) /\ refs[o] \in Nat
  BY PointingIs DEF P!Count, Same, IsIn, Lost
<1>5. \A o \in A : refs[o] >= 1
  <2> TAKE o \in A
  <2>1. o \in Objects /\ o # NULL /\ G \subseteq P!Places
    BY <1>1, PlacesAre
  <2> QED BY <1>0, <1>1, <2>1, PointingIs
<1> HIDE DEF A, G
<1>6. \A o \in Objects : refs'[o] \in 0 .. MaxPointers
  <2> TAKE o \in Objects
  <2>1. refs[o] \in Nat /\ refs[o] <= MaxPointers /\ MaxPointers \in Nat
    BY PointingIs
  <2>2. o # NULL
    BY PointerAssumption
  <2>3. refs'[o] = (refs[o] + Same(added, o)) - IsIn(o, A)
    BY <1>3, <1>4
  <2>4. o \in A => refs[o] >= 1
    BY <1>5
  <2>5. added = o => refs[o] < MaxPointers
    BY <1>0, <2>2
  <2>6. Same(added, o) \in 0 .. 1 /\ IsIn(o, A) \in 0 .. 1 /\ (o \notin A => IsIn(o, A) = 0) /\ (added # o => Same(added, o) = 0)
    BY DEF Same, IsIn, Lost
  <2> QED BY <2>1, <2>3, <2>4, <2>5, <2>6
<1>7. \A x \in P!Places : ptr'[x] \in Nullable
  BY <1>0, <1>2 DEF PointerInv, PointersTyped, Nullable
<1>8. PointersTyped'
  <2>1. refs' \in [Objects -> 0 .. MaxPointers] /\ ptr' \in [P!Places -> Nullable]
    BY <1>2, <1>3, <1>6, <1>7
  <2>2. pointers' = "shared" => \A o \in Objects : raw'[o] = 0
    BY DEF PointerInv, PointersTyped
  <2> QED BY <2>1, <2>2 DEF PointerInv, PointersTyped, P!Places, Nullable
<1>9. ASSUME NEW o \in Objects
      PROVE  /\ Cardinality(Pointing(o)') + raw'[o] <= refs'[o]
             /\ pointers = "shared" => Cardinality(Pointing(o)') = refs'[o]
  <2> DEFINE c == Cardinality(Pointing(o))
             d == Cardinality(Pointing(o)')
             k == Cardinality(Pointing(o) \cap G)
             lost == Lost(p, null, q, o)
  <2>1. d \in Nat /\ d + k + Same(ptr[p], o) + lost = c + Same(v, o)
    <3>1. Repointed(p, v, null, q, h, added, o)
      BY <1>00, PointingAfter
    <3> QED BY <3>1 DEF Repointed, G
  <2>2. c \in Nat /\ k \in Nat
    BY PointingFinite
  <2>3. IsIn(o, A) <= k + Same(h, o)
    BY <1>0, OneToken DEF A, G
  <2>4. pointers = "shared" => IsIn(o, A) = k + Same(h, o)
    BY <1>0, OneTokenExactly DEF A, G
  <2>5. refs'[o] = (refs[o] + Same(added, o)) - IsIn(o, A) /\ refs[o] \in Nat
    BY <1>3, <1>4
  <2>6. c + raw[o] <= refs[o] /\ raw[o] \in Nat /\ raw'[o] \in Nat /\ (pointers = "shared" => c = refs[o])
    BY PointingIs DEF PointerInv
  <2>7. pointers = "shared" => raw'[o] = raw[o]
    OBVIOUS
  <2>8. /\ Same(v, o) + raw'[o] + Same(h, o) <= raw[o] + Same(added, o) + Same(ptr[p], o) + lost
        /\ pointers = "shared" => Same(v, o) + raw'[o] + Same(h, o) = raw[o] + Same(added, o) + Same(ptr[p], o) + lost
    BY <1>0 DEF Balanced
  <2>9. /\ Same(v, o) \in Nat /\ Same(h, o) \in Nat /\ Same(added, o) \in Nat /\ Same(ptr[p], o) \in Nat
        /\ lost \in Nat /\ IsIn(o, A) \in Nat
    BY DEF Same, IsIn, Lost
  <2> HIDE DEF c, d, k, lost
  <2>10. d + raw'[o] <= refs'[o]
    BY <2>1, <2>2, <2>3, <2>5, <2>6, <2>8, <2>9
  <2>11. pointers = "shared" => d = refs'[o]
    BY <2>1, <2>2, <2>4, <2>5, <2>6, <2>7, <2>8, <2>9
  <2> QED BY <2>10, <2>11 DEF d
<1>10. ASSUME NEW o \in Objects, ptr'[o] # NULL PROVE refs'[o] > 0
  <2>1. o \in P!Places /\ o \notin G
    BY <1>0, <1>2, <1>10, PlacesAre
  <2>2. refs[o] > 0
    <3>1. CASE o = p
      BY <1>0, <3>1
    <3>2. CASE o # p
      <4>1. ptr[o] # NULL
        BY <1>0, <1>2, <1>10, <2>1, <3>2
      <4> QED BY <4>1 DEF PointerInv
    <3> QED BY <3>1, <3>2
  <2>3. o \in A => P!Count(o, added) # 1
    BY <1>1, <2>1
  <2>4. refs'[o] = P!Count(o, added) - IsIn(o, A) /\ P!Count(o, added) = refs[o] + Same(added, o) /\ refs[o] \in Nat
    BY <1>3, <1>4
  <2>5. Same(added, o) \in Nat /\ IsIn(o, A) \in 0 .. 1 /\ (o \notin A => IsIn(o, A) = 0)
    BY DEF Same, IsIn, Lost
  <2> QED BY <2>2, <2>3, <2>4, <2>5
<1> QED BY <1>8, <1>9, <1>10 DEF PointerInv

LEMMA PointedIs ==
  ASSUME PointerInv, NEW p \in P!Places
  PROVE  /\ ptr[p] \in Nullable /\ (ptr[p] # NULL => ptr[p] \in Objects /\ refs[ptr[p]] >= 1)
         /\ NULL \in Nullable /\ Objects \subseteq Nullable /\ NULL \notin Objects
<1>1. ptr[p] \in Nullable /\ NULL \in Nullable /\ Objects \subseteq Nullable /\ NULL \notin Objects
  BY PointerAssumption DEF PointerInv, PointersTyped, Nullable
<1>2. ptr[p] # NULL => ptr[p] \in Objects
  BY <1>1 DEF Nullable
<1> QED BY <1>1, <1>2, PointingIs

LEMMA NothingReleased ==
  ASSUME PointerInv, NEW added
  PROVE  P!Deleted(NULL, added) = {}
BY ReleasedIs DEF PointerInv, Nullable

\* With no pointer that becomes null.
LEMMA OnlyOne ==
  ASSUME NEW p, NEW o
  PROVE  Lost(p, {}, p, o) = 0
BY DEF Lost

\* What is left to show when p, which the program uses, is set.
LEMMA PutKeeps ==
  ASSUME PointerInv, NEW p \in P!Places, P!Usable(p), NEW v \in Nullable, NEW h \in {ptr[p], NULL},
         NEW added \in Nullable, P!Set(p, v, {}, h, added), UNCHANGED pointers,
         raw' \in [Objects -> Nat], pointers = "shared" => raw' = raw,
         added # NULL => refs[added] < MaxPointers, Balanced(p, v, {}, p, h, added)
  PROVE  PointerInv'
<1>1. p \notin P!Deleted(h, added) /\ (p \in Objects => refs[p] > 0)
  BY UsableKept
<1>2. h \in Nullable /\ (h # NULL => refs[h] >= 1)
  BY PointedIs
<1>3. Lawful(p, v, {}, p, h, added)
  BY <1>1, <1>2 DEF Lawful, Setting
<1> QED BY <1>3, SetKeeps

LEMMA PutAndClearKeeps ==
  ASSUME PointerInv, NEW p \in P!Places, P!Usable(p), NEW q \in P!Places, NEW v \in Nullable,
         NEW h \in {ptr[p], NULL}, P!Set(p, v, {q}, h, NULL), UNCHANGED <<pointers, raw>>,
         q \notin P!Deleted(h, NULL), Balanced(p, v, {q}, q, h, NULL)
  PROVE  PointerInv'
<1>1. p \notin P!Deleted(h, NULL) /\ (p \in Objects => refs[p] > 0)
  BY UsableKept
<1>2. h \in Nullable /\ NULL \in Nullable /\ (h # NULL => refs[h] >= 1)
  BY PointedIs
<1>3. Lawful(p, v, {q}, q, h, NULL)
  BY <1>1, <1>2 DEF Lawful, Setting
<1>4. raw' \in [Objects -> Nat]
  BY DEF PointerInv, PointersTyped
<1> QED BY <1>3, <1>4, SetKeeps

\* A pointer that is set to an object a reference to which is added releases what it
\* held.
LEMMA PutAdded ==
  ASSUME PointerInv, NEW p \in P!Places, P!Usable(p), NEW v \in Nullable,
         NEW h \in Nullable, h = ptr[p], P!Set(p, v, {}, h, v), UNCHANGED <<pointers, raw>>,
         v # NULL => refs[v] < MaxPointers
  PROVE  PointerInv'
<1>1. raw' \in [Objects -> Nat] /\ \A o \in Objects : raw[o] \in Nat
  BY DEF PointerInv, PointersTyped
<1>2. Balanced(p, v, {}, p, h, v)
  <2>1. ASSUME NEW o \in Objects
        PROVE  Same(v, o) + raw'[o] + Same(h, o) = raw[o] + Same(v, o) + Same(ptr[p], o) + 0
    BY <1>1 DEF Same
  <2>2. ASSUME NEW o \in Objects
        PROVE  raw[o] + Same(v, o) + Same(ptr[p], o) + 0 \in Nat
    BY <1>1 DEF Same
  <2> QED BY <2>1, <2>2, OnlyOne DEF Balanced
<1> QED BY <1>1, <1>2, PutKeeps

LEMMA PointersSame ==
  ASSUME PointerInv, UNCHANGED <<pointers, ptr, refs, raw>>
  PROVE  PointerInv'
<1>1. \A o : Pointing(o)' = Pointing(o)
  BY DEF Pointing, P!Places
<1> QED BY <1>1 DEF PointerInv, PointersTyped, P!Places, Nullable

LEMMA PointerNew ==
  ASSUME PointerInv, NEW p \in P!Places, NEW o \in Objects, P!New(p, o)
  PROVE  PointerInv'
<1>1. refs[o] = 0 /\ refs[o] < MaxPointers /\ o \in Nullable
  BY PointingIs, PointedIs DEF P!New, P!Alive
<1>2. CASE pointers = "shared" /\ P!Set(p, o, {}, ptr[p], o) /\ UNCHANGED raw
  BY <1>1, <1>2, PointedIs, PutAdded DEF P!New
<1>3. CASE pointers = "counted" /\ refs' = [refs EXCEPT ![o] = 1] /\ raw' = [raw EXCEPT ![o] = 1] /\ UNCHANGED ptr
  <2>1. UNCHANGED pointers /\ MaxPointers \in Nat \ {0}
    BY PointerAssumption DEF P!New
  <2>2. PointersTyped'
    BY <1>3, <2>1 DEF PointerInv, PointersTyped, P!Places, Nullable
  <2>3. \A x \in Objects : Pointing(x)' = Pointing(x)
    BY <1>3 DEF Pointing, P!Places
  <2>4. \A x \in Objects : x # o => refs'[x] = refs[x] /\ raw'[x] = raw[x]
    BY <1>3 DEF PointerInv, PointersTyped
  <2>5. refs'[o] = 1 /\ raw'[o] = 1 /\ Cardinality(Pointing(o)) = 0
    BY <1>1, <1>3, PointingIs DEF PointerInv, PointersTyped
  <2>6. \A x \in Objects : Cardinality(Pointing(x)') + raw'[x] <= refs'[x]
    BY <2>3, <2>4, <2>5 DEF PointerInv
  <2>7. \A x \in Objects : ptr'[x] # NULL => refs'[x] > 0
    BY <1>3, <2>4, <2>5 DEF PointerInv
  <2> QED BY <1>3, <2>1, <2>2, <2>6, <2>7 DEF PointerInv
<1> QED BY <1>2, <1>3 DEF P!New

LEMMA PointerCopy ==
  ASSUME PointerInv, NEW p \in P!Places, NEW q \in P!Places, P!Copy(p, q)
  PROVE  PointerInv'
BY PointedIs, PutAdded DEF P!Copy

LEMMA PointerAssign ==
  ASSUME PointerInv, NEW p \in P!Places, NEW q \in P!Places, P!Assign(p, q)
  PROVE  PointerInv'
<1>1. CASE P!Break(p, q)
  BY <1>1, PointersSame DEF P!Assign, P!Break
<1>2. CASE ~P!Break(p, q)
  BY <1>2, PointedIs, PutAdded DEF P!Assign
<1> QED BY <1>1, <1>2

LEMMA PointerDestroy ==
  ASSUME PointerInv, NEW p \in P!Places, P!Destroy(p)
  PROVE  PointerInv'
BY PointedIs, PutAdded DEF P!Destroy

LEMMA PointerMove ==
  ASSUME PointerInv, NEW p \in P!Places, NEW q \in P!Places, P!Move(p, q)
  PROVE  PointerInv'
<1>1. /\ P!Usable(p) /\ p # q /\ ptr[p] = NULL /\ P!Set(p, ptr[q], {q}, NULL, NULL)
      /\ UNCHANGED <<pointers, raw>>
  BY DEF P!Move
<1>2. \A o \in Objects : o # NULL /\ raw[o] \in Nat
  BY PointerAssumption DEF PointerInv, PointersTyped
<1>3. Balanced(p, ptr[q], {q}, q, NULL, NULL)
  BY <1>1, <1>2 DEF Balanced, Same, Lost
<1> QED BY <1>1, <1>3, NothingReleased, PointedIs, PutAndClearKeeps

LEMMA PointerMoveAssign ==
  ASSUME PointerInv, NEW p \in P!Places, NEW q \in P!Places, P!MoveAssign(p, q)
  PROVE  PointerInv'
<1>0. P!Usable(p) /\ UNCHANGED <<pointers, raw>>
  BY DEF P!MoveAssign
<1>1. \A o \in Objects : o # NULL /\ raw[o] \in Nat
  BY PointerAssumption DEF PointerInv, PointersTyped
<1>2. ptr[q] \in Nullable /\ NULL \in Nullable
  BY PointedIs
<1> DEFINE h == IF pointers = "counted" /\ ptr[p] = ptr[q] THEN NULL ELSE ptr[p]
           v == IF p = q THEN NULL ELSE ptr[q]
<1>3. CASE P!Break(p, q)
  BY <1>0, <1>3, PointersSame DEF P!Break
<1>4. CASE q \notin P!Deleted(h, NULL) /\ P!Set(p, v, {q}, h, NULL)
  <2>1. Balanced(p, v, {q}, q, h, NULL)
    <3>1. CASE p # q /\ h = ptr[p]
      BY <1>0, <1>1, <3>1 DEF Balanced, Same, Lost
    <3>2. CASE pointers = "counted" /\ ptr[p] = ptr[q] /\ h = NULL
      <4>1. ASSUME NEW o \in Objects
            PROVE  Same(v, o) + raw'[o] + Same(h, o)
                     <= raw[o] + Same(NULL, o) + Same(ptr[p], o) + Lost(p, {q}, q, o)
        <5>1. raw'[o] = raw[o] /\ raw[o] \in Nat /\ Same(NULL, o) = 0 /\ Same(v, o) \in Nat
              /\ Same(ptr[p], o) \in Nat /\ Lost(p, {q}, q, o) \in Nat /\ Same(h, o) = 0
          BY <1>0, <1>1, <3>2 DEF Same, Lost
        <5>2. Same(v, o) <= Same(ptr[p], o)
          BY <1>1, <3>2 DEF Same
        <5> QED BY <5>1, <5>2
      <4> QED BY <3>2, <4>1 DEF Balanced
    <3>3. pointers = "counted" \/ p # q
      BY DEF P!MoveAssign, PointerInv, PointersTyped
    <3> QED BY <3>1, <3>2, <3>3
  <2>2. v \in Nullable /\ h \in {ptr[p], NULL}
    BY <1>2
  <2> QED BY <1>0, <1>4, <2>1, <2>2, PutAndClearKeeps
<1> QED BY <1>3, <1>4 DEF P!MoveAssign

LEMMA PointerAdopt ==
  ASSUME PointerInv, NEW p \in P!Places, NEW o \in Objects, P!Adopt(p, o)
  PROVE  PointerInv'
<1> DEFINE h == IF ptr[p] = o THEN NULL ELSE ptr[p]
<1>1. /\ pointers = "counted" /\ UNCHANGED pointers /\ P!Usable(p) /\ raw[o] > 0
      /\ raw' = [raw EXCEPT ![o] = raw[o] - 1] /\ P!Set(p, o, {}, h, NULL)
  BY DEF P!Adopt
<1>2. raw \in [Objects -> Nat] /\ o # NULL /\ \A x \in Objects : x # NULL
  BY PointerAssumption DEF PointerInv, PointersTyped
<1>3. raw' \in [Objects -> Nat] /\ raw'[o] = raw[o] - 1 /\ \A x \in Objects : x # o => raw'[x] = raw[x]
  BY <1>1, <1>2
<1>4. Balanced(p, o, {}, p, h, NULL)
  <2>1. ASSUME NEW x \in Objects
        PROVE  Same(o, x) + raw'[x] + Same(h, x) <= raw[x] + Same(NULL, x) + Same(ptr[p], x) + 0
    <3>1. CASE x = o
      BY <1>1, <1>2, <1>3, <3>1 DEF Same
    <3>2. CASE x # o
      BY <1>1, <1>2, <1>3, <3>2 DEF Same
    <3> QED BY <3>1, <3>2
  <2> QED BY <1>1, <2>1, OnlyOne DEF Balanced
<1>5. h \in {ptr[p], NULL} /\ o \in Nullable /\ NULL \in Nullable
  BY PointedIs
<1> QED BY <1>1, <1>3, <1>4, <1>5, PutKeeps

LEMMA PointerDetach ==
  ASSUME PointerInv, NEW p \in P!Places, P!Detach(p)
  PROVE  PointerInv'
<1>1. /\ pointers = "counted" /\ UNCHANGED pointers /\ P!Usable(p) /\ ptr[p] # NULL
      /\ raw' = [raw EXCEPT ![ptr[p]] = raw[ptr[p]] + 1] /\ P!Set(p, NULL, {}, NULL, NULL)
  BY DEF P!Detach
<1>2. ptr[p] \in Objects /\ NULL \in Nullable
  BY <1>1, PointedIs
<1>3. raw \in [Objects -> Nat] /\ \A x \in Objects : x # NULL
  BY PointerAssumption DEF PointerInv, PointersTyped
<1>4. raw' \in [Objects -> Nat] /\ \A x \in Objects : raw'[x] = raw[x] + Same(ptr[p], x)
  BY <1>1, <1>2, <1>3 DEF Same
<1>5. Balanced(p, NULL, {}, p, NULL, NULL)
  <2>1. ASSUME NEW x \in Objects
        PROVE  Same(NULL, x) + raw'[x] + Same(NULL, x) <= raw[x] + Same(NULL, x) + Same(ptr[p], x) + 0
    BY <1>3, <1>4 DEF Same
  <2> QED BY <1>1, <2>1, OnlyOne DEF Balanced
<1> QED BY <1>1, <1>2, <1>4, <1>5, PutKeeps

LEMMA PointerRelease ==
  ASSUME PointerInv, NEW o \in Objects, P!Release(o)
  PROVE  PointerInv'
<1>1. /\ pointers = "counted" /\ UNCHANGED pointers /\ raw[o] > 0
      /\ raw' = [raw EXCEPT ![o] = raw[o] - 1]
  BY DEF P!Release
<1>2. PICK p \in Roots : P!Set(p, ptr[p], {}, o, NULL)
  BY DEF P!Release
<1>3. p \in P!Places /\ p \notin Objects /\ p \notin P!Deleted(o, NULL)
  BY PlacesAre, PointerAssumption, ReleasedIs, PointedIs DEF PointerInv, Nullable
<1>4. raw \in [Objects -> Nat] /\ \A x \in Objects : x # NULL
  BY PointerAssumption DEF PointerInv, PointersTyped
<1>5. raw' \in [Objects -> Nat] /\ raw'[o] = raw[o] - 1 /\ \A x \in Objects : x # o => raw'[x] = raw[x]
  BY <1>1, <1>4
<1>6. Balanced(p, ptr[p], {}, p, o, NULL)
  <2>1. ASSUME NEW x \in Objects
        PROVE  Same(ptr[p], x) + raw'[x] + Same(o, x) <= raw[x] + Same(NULL, x) + Same(ptr[p], x) + 0
    <3>1. CASE x = o
      BY <1>1, <1>4, <1>5, <3>1 DEF Same
    <3>2. CASE x # o
      BY <1>1, <1>4, <1>5, <3>2 DEF Same
    <3> QED BY <3>1, <3>2
  <2> QED BY <1>1, <2>1, OnlyOne DEF Balanced
<1>7. refs[o] >= 1
  BY <1>1, PointingIs
<1>8. Lawful(p, ptr[p], {}, p, o, NULL)
  BY <1>1, <1>2, <1>3, <1>6, <1>7, PointedIs DEF Lawful, Setting
<1> QED BY <1>1, <1>5, <1>8, SetKeeps

LEMMA PointerStep ==
  ASSUME PointerInv, P!Next \/ UNCHANGED pointerVars
  PROVE  PointerInv'
<1>1. CASE UNCHANGED pointerVars
  BY <1>1, PointersSame DEF pointerVars
<1>2. CASE P!Next
  BY <1>2, PointerNew, PointerCopy, PointerMove, PointerAssign, PointerDestroy, PointerMoveAssign,
     PointerAdopt, PointerDetach, PointerRelease DEF P!Next
<1> QED BY <1>1, <1>2

LEMMA PointerInit ==
  ASSUME P!Init
  PROVE  PointerInv /\ BrokenInv
<1>1. PointersTyped
  BY PointerAssumption, PlacesAre DEF P!Init, PointersTyped, Nullable
<1>2. \A o \in Objects : Pointing(o) = {} /\ refs[o] = 0 /\ raw[o] = 0 /\ ptr[o] = NULL
  BY PointerAssumption, PlacesAre DEF P!Init, Pointing
<1>3. \A o \in Objects : Cardinality(Pointing(o)) = 0
  BY <1>2, FS_EmptySet
<1>4. BrokenInv
  BY DEF P!Init, BrokenInv
<1> QED BY <1>1, <1>2, <1>3, <1>4 DEF PointerInv

LEMMA DeletedThrough ==
  ASSUME PointerInv, NEW p \in P!Places, NEW q \in P!Places, NEW h \in {ptr[p], NULL}, NEW added,
         q \in P!Deleted(h, added)
  PROVE  P!OnlyThrough(p, q)
<1> DEFINE G == P!Deleted(h, added)
           Z == P!Places \ G
<1>1. \A y \in G : /\ y \in Objects /\ raw[y] = 0
                   /\ \A x \in P!Places : ptr[x] = y => x = p \/ x \in G
  BY OnlyHeldBy
<1> HIDE DEF G
<1>2. P!Owned \subseteq Z
  BY <1>1, PlacesAre, PointerAssumption DEF P!Owned
<1>3. \A x \in Z \ {p} : ptr[x] \in Z \cup {NULL}
  <2>1. \A x \in P!Places : ptr[x] \in P!Places \cup {NULL}
    BY PlacesAre DEF PointerInv, PointersTyped, Nullable
  <2> QED BY <1>1, <2>1
<1>4. q \notin Z /\ Z \in SUBSET P!Places
  BY DEF G
<1> HIDE DEF Z
<1> QED BY <1>2, <1>3, <1>4 DEF P!OnlyThrough

LEMMA OnlyThroughSame ==
  ASSUME NEW p, NEW q, UNCHANGED <<ptr, raw>>, P!OnlyThrough(p, q)
  PROVE  P!OnlyThrough(p, q)'
BY DEF P!OnlyThrough, P!Owned, P!Places

LEMMA AssignBreaks ==
  ASSUME PointerInv, NEW p \in P!Places, NEW q \in P!Places, P!Usable(p), P!Usable(q), ~P!Outlives(q, ptr[p])
  PROVE  IF p = q THEN pointers = "shared" /\ refs[ptr[p]] = 1 ELSE P!OnlyThrough(p, q)
<1>1. \A a : q \in P!Deleted(ptr[p], a) => p # q /\ P!OnlyThrough(p, q)
  BY DeletedThrough, UsableKept
<1>2. CASE q \in P!Deleted(ptr[p], IF pointers = "counted" THEN ptr[q] ELSE NULL)
  BY <1>1, <1>2
<1>3. CASE pointers = "shared" /\ ptr[q] \in P!Deleted(ptr[p], NULL)
  <2>1. /\ ptr[q] \in Objects /\ P!Count(ptr[q], NULL) = 1
        /\ q = p \/ q \in P!Deleted(ptr[p], NULL)
    BY <1>3, OnlyHeldBy
  <2>2. refs[ptr[q]] = 1
    <3>1. refs[ptr[q]] \in Nat /\ ptr[q] # NULL
      BY <2>1, PointingIs, PointerAssumption
    <3> QED BY <2>1, <3>1 DEF P!Count
  <2> QED BY <1>1, <1>3, <2>1, <2>2
<1> QED BY <1>2, <1>3 DEF P!Outlives

LEMMA BrokenStep ==
  ASSUME PointerInv, BrokenInv, P!Next \/ UNCHANGED pointerVars
  PROVE  BrokenInv'
<1>1. CASE UNCHANGED pointerVars
  <2>1. UNCHANGED <<pointers, ptr, refs, raw, broken>>
    BY <1>1 DEF pointerVars
  <2> SUFFICES ASSUME NEW e \in broken
               PROVE  IF e[1] = e[2] THEN pointers = "shared" /\ refs[ptr[e[1]]] = 1 ELSE P!OnlyThrough(e[1], e[2])'
    BY <2>1 DEF BrokenInv
  <2> QED BY <2>1, OnlyThroughSame DEF BrokenInv
<1>2. CASE broken' = {}
  BY <1>2 DEF BrokenInv
<1>3. ASSUME NEW p \in P!Places, NEW q \in P!Places, P!Break(p, q), UNCHANGED <<pointers, raw>>,
             IF p = q THEN pointers = "shared" /\ refs[ptr[p]] = 1 ELSE P!OnlyThrough(p, q)
      PROVE  BrokenInv'
  <2>1. broken' = {<<p, q>>} /\ UNCHANGED <<pointers, ptr, refs, raw>>
    BY <1>3 DEF P!Break
  <2>2. p # q => P!OnlyThrough(p, q)'
    BY <1>3, <2>1, OnlyThroughSame
  <2> QED BY <1>3, <2>1, <2>2 DEF BrokenInv
<1>4. ASSUME NEW p \in P!Places, NEW q \in P!Places, P!Assign(p, q) PROVE broken' = broken \/ BrokenInv'
  <2>1. CASE ~P!Outlives(q, ptr[p]) /\ P!Break(p, q)
    BY <1>3, <1>4, <2>1, AssignBreaks DEF P!Assign
  <2>2. CASE P!Outlives(q, ptr[p])
    BY <1>4, <2>2 DEF P!Assign, P!Set
  <2> QED BY <1>4, <2>1, <2>2 DEF P!Assign
<1>5. ASSUME NEW p \in P!Places, NEW q \in P!Places, P!MoveAssign(p, q) PROVE broken' = broken \/ BrokenInv'
  <2> DEFINE h == IF pointers = "counted" /\ ptr[p] = ptr[q] THEN NULL ELSE ptr[p]
  <2>1. CASE q \in P!Deleted(h, NULL) /\ P!Break(p, q)
    <3>1. h \in {ptr[p], NULL} /\ P!Usable(q) /\ P!Usable(p) /\ UNCHANGED <<pointers, raw>>
      BY <1>5 DEF P!MoveAssign
    <3>2. P!OnlyThrough(p, q) /\ p # q
      BY <2>1, <3>1, DeletedThrough, UsableKept
    <3> QED BY <1>3, <2>1, <3>1, <3>2
  <2>2. CASE q \notin P!Deleted(h, NULL)
    BY <1>5, <2>2 DEF P!MoveAssign, P!Set
  <2> QED BY <1>5, <2>1, <2>2 DEF P!MoveAssign
<1>6. ASSUME P!Next PROVE broken = {}
  BY <1>6 DEF P!Next
<1>7. ASSUME NEW p \in P!Places, P!Destroy(p) \/ P!Detach(p) \/ \E o \in Objects : P!New(p, o) \/ P!Adopt(p, o)
      PROVE  broken' = broken
  BY <1>7 DEF P!Destroy, P!Detach, P!New, P!Adopt, P!Set
<1>8. ASSUME NEW p \in P!Places, NEW q \in P!Places, P!Copy(p, q) \/ P!Move(p, q)
      PROVE  broken' = broken
  BY <1>8 DEF P!Copy, P!Move, P!Set
<1>9. ASSUME NEW o \in Objects, P!Release(o) PROVE broken' = broken
  BY <1>9 DEF P!Release, P!Set
<1>10. CASE P!Next
  <2>1. broken' = broken \/ BrokenInv'
    BY <1>4, <1>5, <1>7, <1>8, <1>9, <1>10 DEF P!Next
  <2> QED BY <1>2, <1>6, <1>10, <2>1
<1> QED BY <1>1, <1>10

\* An object that no variable leads to is held by another such object, which keeps it
\* alive: there are finitely many, so it is part of a cycle itself.
LEMMA CycleKeeps ==
  ASSUME PointerInv, pointers = "shared", NEW o \in Objects, refs[o] > 0, o \notin P!Reach(Roots)
  PROVE  ptr[o] # NULL /\ o \in P!Reach({ptr[o]}) /\ o \in P!Reach({o})
<1>0. PointersTyped /\ Roots \subseteq P!Places /\ Objects \subseteq P!Places /\ IsFiniteSet(Objects)
      /\ NULL \notin P!Places
  BY PlacesAre, PointerAssumption DEF PointerInv
<1> DEFINE Y(x) == P!Reach({x})
           Anc == {c \in Objects : o \in Y(c)}
<1>1. ASSUME NEW x \in P!Places
      PROVE  x \in Y(x) /\ (ptr[x] # NULL => ptr[x] \in Y(x)) /\ Y(x) \subseteq P!Places
             /\ \A Z : x \in Z /\ (\A y \in Z \cap P!Places : ptr[y] # NULL => ptr[y] \in Z) => Y(x) \subseteq Z
  <2>1. {x} \in SUBSET P!Places
    OBVIOUS
  <2>2. {x} \subseteq Y(x)
    BY <1>0, <2>1, ReachIs
  <2> HIDE DEF Y
  <2>3. \A Z : {x} \subseteq Z <=> x \in Z
    OBVIOUS
  <2> QED BY <1>0, <2>1, <2>2, <2>3, ReachIs DEF Y
<1>2. ASSUME NEW x \in P!Places
      PROVE  \A y \in Y(x) : ptr[y] # NULL => ptr[y] \in Y(x)
  BY <1>0, ReachIs
<1>3. \A x \in P!Reach(Roots) : Y(x) \subseteq P!Reach(Roots)
  <2> TAKE x \in P!Reach(Roots)
  <2>1. \A y \in P!Reach(Roots) : ptr[y] # NULL => ptr[y] \in P!Reach(Roots)
    BY <1>0, ReachIs
  <2>2. x \in P!Places
    BY <1>0, ReachIs
  <2> HIDE DEF Y
  <2> QED BY <1>1, <2>1, <2>2
<1>4. \A x \in P!Places : ptr[x] # NULL => Y(ptr[x]) \subseteq Y(x)
  <2> TAKE x \in P!Places
  <2> HAVE ptr[x] # NULL
  <2>1. ptr[x] \in P!Places
    BY <1>0 DEF PointersTyped, Nullable
  <2> HIDE DEF Y
  <2> QED BY <1>1, <1>2, <2>1
<1> HIDE DEF Y
<1>5. \A c \in Anc : \E x \in Anc : ptr[x] = c
  <2> TAKE c \in Anc
  <2>1. c \in Objects /\ o \in Y(c) /\ c \in P!Places
    BY <1>0
  <2>2. c # o => ptr[c] # NULL
    <3> SUFFICES ASSUME c # o, ptr[c] = NULL PROVE FALSE
      OBVIOUS
    <3>1. Y(c) \subseteq {c}
      BY <1>1, <2>1
    <3> QED BY <2>1, <3>1
  <2>3. refs[c] > 0
    BY <2>1, <2>2 DEF PointerInv
  <2>4. Cardinality(Pointing(c)) # 0
    BY <2>1, <2>3, PointingIs DEF PointerInv
  <2>5. Pointing(c) # {}
    BY <2>4, FS_EmptySet
  <2>6. PICK x \in P!Places : ptr[x] = c
    BY <2>5 DEF Pointing
  <2>7. o \in Y(x) /\ c # NULL
    BY <1>0, <1>4, <2>1, <2>6
  <2>8. x \notin Roots
    <3> SUFFICES ASSUME x \in Roots PROVE FALSE
      OBVIOUS
    <3>1. x \in P!Reach(Roots)
      BY <1>0, ReachIs
    <3> QED BY <1>3, <2>7, <3>1
  <2>9. x \in Objects
    BY <2>6, <2>8, PlacesAre
  <2> QED BY <2>6, <2>7, <2>9
<1>6. o \in Anc
  BY <1>0, <1>1
<1>7. IsFiniteSet(Anc)
  <2>1. Anc \in SUBSET Objects
    OBVIOUS
  <2> QED BY <1>0, <2>1, FS_Subset
<1> DEFINE f == [c \in Anc |-> CHOOSE x \in Anc : ptr[x] = c]
<1> HIDE DEF Anc
<1>8. \A c \in Anc : f[c] \in Anc /\ ptr[f[c]] = c
  BY <1>5
<1>9. f \in [Anc -> Anc]
  BY <1>8
<1> HIDE DEF f
<1>10. f \in Injection(Anc, Anc)
  <2>1. \A x, y \in Anc : f[x] = f[y] => x = y
    BY <1>8
  <2> QED BY <1>9, <2>1 DEF Injection, IsInjective
<1>11. f \in Surjection(Anc, Anc)
  BY <1>7, <1>10, FS_Injection
<1>12. PICK c \in Anc : f[c] = o
  BY <1>6, <1>11 DEF Surjection
<1>13. ptr[o] = c
  BY <1>8, <1>12
<1>14. c \in Objects /\ o \in Y(c)
  BY DEF Anc
<1> QED BY <1>0, <1>1, <1>13, <1>14 DEF Y

LEMMA PointerSafe ==
  ASSUME PointerInv, BrokenInv
  PROVE  P!TypeOK /\ P!NoneDangling
<1>1. P!TypeOK
  <2>1. \A o \in Objects : raw[o] \in 0 .. MaxPointers
    BY PointingIs
  <2> QED BY <2>1 DEF P!TypeOK, PointerInv, PointersTyped, Nullable
<1>2. ASSUME NEW o \in Objects
      PROVE  P!Holders(o) <= refs[o] /\ (pointers = "shared" => refs[o] = P!Holders(o))
  <2>1. P!Holders(o) = Cardinality(Pointing(o)) + raw[o]
    BY DEF P!Holders, Pointing, P!Cardinality, Cardinality
  <2>2. Cardinality(Pointing(o)) \in Nat
    BY PointingFinite
  <2> QED BY <2>1, <2>2 DEF PointerInv, PointersTyped
<1>3. \A o \in Objects : ptr[o] # NULL => P!Alive(o)
  BY DEF PointerInv, P!Alive
<1>4. ASSUME pointers = "shared", NEW o \in Objects, P!Alive(o), o \notin P!Reach(Roots)
      PROVE  \E c \in Objects : P!Alive(c) /\ ptr[c] # NULL /\ c \in P!Reach({ptr[c]}) /\ o \in P!Reach({c})
  <2>1. ptr[o] # NULL /\ o \in P!Reach({ptr[o]}) /\ o \in P!Reach({o})
    BY <1>4, CycleKeeps DEF P!Alive
  <2> QED BY <1>4, <2>1
<1> QED BY <1>1, <1>2, <1>3, <1>4 DEF P!NoneDangling, BrokenInv
-----------------------------------------------------------------------------
(* List: the storage and the sequence in it *)

\* Two sequences of one length are equal when their elements are.
LEMMA SameSeq ==
  ASSUME NEW s \in Seq(Items), NEW t \in Seq(Items), Len(s) = Len(t),
         \A i \in 1 .. Len(s) : s[i] = t[i]
  PROVE  s = t
OBVIOUS

\* A sequence followed by another one, and a part of one.
LEMMA Followed ==
  ASSUME NEW s \in Seq(Items), NEW t \in Seq(Items), NEW n \in Nat, n = Len(s)
  PROVE  /\ s \o t \in Seq(Items) /\ Len(s \o t) = n + Len(t)
         /\ \A i \in 1 .. n + Len(t) : i <= n => (s \o t)[i] = s[i]
         /\ \A i \in 1 .. Len(t) : (s \o t)[n + i] = t[i]
OBVIOUS

LEMMA PartOf ==
  ASSUME NEW s \in Seq(Items), NEW p \in 0 .. Len(s)
  PROVE  /\ SubSeq(s, 1, p) \in Seq(Items) /\ Len(SubSeq(s, 1, p)) = p
         /\ \A i \in 1 .. p : SubSeq(s, 1, p)[i] = s[i]
         /\ SubSeq(s, p + 1, Len(s)) \in Seq(Items) /\ Len(SubSeq(s, p + 1, Len(s))) = Len(s) - p
         /\ \A i \in 1 .. Len(s) - p : SubSeq(s, p + 1, Len(s))[i] = s[p + i]
OBVIOUS

\* The sequences that a list's operations make of s, element by element.
LEMMA InsertedAtIs ==
  ASSUME NEW s \in Seq(Items), NEW t \in Seq(Items), NEW p \in 0 .. Len(s)
  PROVE  /\ L!Seqs!InsertedAt(s, p, t) \in Seq(Items)
         /\ Len(L!Seqs!InsertedAt(s, p, t)) = Len(s) + Len(t)
         /\ \A i \in 1 .. Len(s) + Len(t) :
              L!Seqs!InsertedAt(s, p, t)[i] =
                IF i <= p THEN s[i] ELSE IF i <= p + Len(t) THEN t[i - p] ELSE s[i - Len(t)]
<1> DEFINE u == SubSeq(s, 1, p)
           v == SubSeq(s, p + 1, Len(s))
           w == u \o t
<1>1. /\ u \in Seq(Items) /\ Len(u) = p /\ \A i \in 1 .. p : u[i] = s[i]
      /\ v \in Seq(Items) /\ Len(v) = Len(s) - p /\ \A i \in 1 .. Len(s) - p : v[i] = s[p + i]
  BY PartOf
<1>2. L!Seqs!InsertedAt(s, p, t) = w \o v
  BY DEF L!Seqs!InsertedAt
<1> HIDE DEF u, v
<1>3. /\ w \in Seq(Items) /\ Len(w) = p + Len(t)
      /\ \A i \in 1 .. p + Len(t) : i <= p => w[i] = u[i]
      /\ \A i \in 1 .. Len(t) : w[p + i] = t[i]
  <2>1. p \in Nat /\ p = Len(u)
    BY <1>1
  <2>2. /\ w \in Seq(Items) /\ Len(w) = p + Len(t)
        /\ \A i \in 1 .. p + Len(t) : i <= p => (u \o t)[i] = u[i]
        /\ \A i \in 1 .. Len(t) : (u \o t)[p + i] = t[i]
    BY <1>1, <2>1, Followed, ZenonT(60)
  <2> QED BY <2>2
<1> DEFINE n == p + Len(t)
<1>4. n \in Nat /\ n = Len(w)
  BY <1>3
<1> HIDE DEF w, n
<1>5. /\ w \o v \in Seq(Items) /\ Len(w \o v) = n + Len(v)
      /\ \A i \in 1 .. n + Len(v) : i <= n => (w \o v)[i] = w[i]
      /\ \A i \in 1 .. Len(v) : (w \o v)[n + i] = v[i]
  <2>1. v \in Seq(Items) /\ w \in Seq(Items)
    BY <1>1, <1>3
  <2> QED BY <2>1, <1>4, Followed
<1>6. ASSUME NEW i \in 1 .. Len(s) + Len(t)
      PROVE  (w \o v)[i] = IF i <= p THEN s[i] ELSE IF i <= p + Len(t) THEN t[i - p] ELSE s[i - Len(t)]
  <2>1. CASE i <= p
    <3>1. i \in 1 .. p /\ i \in 1 .. p + Len(t) /\ i <= n /\ i \in 1 .. n + Len(v)
      BY <1>1, <2>1 DEF n
    <3> QED BY <1>1, <1>3, <1>5, <2>1, <3>1
  <2>2. CASE i > p /\ i <= p + Len(t)
    <3>1. i - p \in 1 .. Len(t) /\ p + (i - p) = i /\ i <= n /\ i \in 1 .. n + Len(v)
      BY <1>1, <2>2 DEF n
    <3> QED BY <1>3, <1>5, <2>2, <3>1, SMTT(40)
  <2>3. CASE i > p + Len(t)
    <3> DEFINE k == i - n
    <3>1. k \in 1 .. Len(s) - p /\ k \in 1 .. Len(v) /\ p + k = i - Len(t) /\ n + k = i
      BY <1>1, <2>3 DEF n
    <3> HIDE DEF k
    <3>2. (w \o v)[i] = v[k] /\ v[k] = s[p + k]
      BY <1>1, <1>5, <3>1
    <3>3. (w \o v)[i] = s[i - Len(t)]
      BY <3>1, <3>2
    <3>4. ~ (i <= p) /\ ~ (i <= p + Len(t))
      BY <2>3
    <3> QED BY <3>3, <3>4
  <2>4. i <= p \/ (i > p /\ i <= p + Len(t)) \/ i > p + Len(t)
    OBVIOUS
  <2> QED BY <2>1, <2>2, <2>3, <2>4
<1>7. n + Len(v) = Len(s) + Len(t)
  BY <1>1 DEF n
<1> QED BY <1>2, <1>5, <1>6, <1>7

LEMMA CutIs ==
  ASSUME NEW s \in Seq(Items), NEW p \in Nat, NEW n \in Nat, p + n <= Len(s)
  PROVE  /\ L!Seqs!Cut(s, p, n) \in Seq(Items) /\ Len(L!Seqs!Cut(s, p, n)) = Len(s) - n
         /\ \A i \in 1 .. Len(s) - n : L!Seqs!Cut(s, p, n)[i] = IF i <= p THEN s[i] ELSE s[i + n]
<1> DEFINE q == p + n
           u == SubSeq(s, 1, p)
           v == SubSeq(s, q + 1, Len(s))
<1>1. q \in 0 .. Len(s) /\ p \in 0 .. Len(s) /\ Len(s) \in Nat
  OBVIOUS
<1>2. L!Seqs!Cut(s, p, n) = u \o v
  BY DEF L!Seqs!Cut
<1> HIDE DEF q
<1>3. /\ u \in Seq(Items) /\ Len(u) = p /\ \A i \in 1 .. p : u[i] = s[i]
      /\ v \in Seq(Items) /\ Len(v) = Len(s) - q /\ \A i \in 1 .. Len(s) - q : v[i] = s[q + i]
  BY <1>1, PartOf
<1> HIDE DEF u, v
<1>4. /\ u \o v \in Seq(Items) /\ Len(u \o v) = p + Len(v)
      /\ \A i \in 1 .. p + Len(v) : i <= p => (u \o v)[i] = u[i]
      /\ \A i \in 1 .. Len(v) : (u \o v)[p + i] = v[i]
  BY <1>3, Followed
<1>5. ASSUME NEW i \in 1 .. Len(s) - n
      PROVE  (u \o v)[i] = IF i <= p THEN s[i] ELSE s[i + n]
  <2>1. CASE i <= p
    <3>1. i \in 1 .. p /\ i \in 1 .. p + Len(v)
      BY <1>1, <1>3, <2>1
    <3> QED BY <1>3, <1>4, <2>1, <3>1
  <2>2. CASE i > p
    <3> DEFINE k == i - p
    <3>1. k \in 1 .. Len(s) - q /\ k \in 1 .. Len(v) /\ q + k = i + n /\ p + k = i
      BY <1>1, <1>3, <2>2 DEF q
    <3> HIDE DEF k
    <3>2. (u \o v)[i] = v[k] /\ v[k] = s[q + k]
      BY <1>3, <1>4, <3>1
    <3>3. (u \o v)[i] = s[i + n]
      BY <3>1, <3>2
    <3> QED BY <2>2, <3>3
  <2>3. i <= p \/ i > p
    OBVIOUS
  <2> QED BY <2>1, <2>2, <2>3
<1>6. p + Len(v) = Len(s) - n
  BY <1>1, <1>3 DEF q
<1> QED BY <1>2, <1>4, <1>5, <1>6

\* Storage of k places with the elements of e at the front.
Stored(k, e) == [i \in 0 .. k - 1 |-> IF i < Len(e) THEN e[i + 1] ELSE HOLE]

\* The list a has the elements of e and nothing else in its storage.
Holds(a, e) ==
  /\ e \in Seq(Items) /\ a.capacity \in Nat /\ Len(e) <= a.capacity
  /\ a = [count |-> Len(e), capacity |-> a.capacity, data |-> Stored(a.capacity, e)]

LEMMA HeldElements ==
  ASSUME NEW a, NEW e, Holds(a, e)
  PROVE  /\ L!Elements(a) = e /\ e \in Seq(Items) /\ Len(e) \in Nat
         /\ a.count = Len(e) /\ a.capacity \in Nat /\ Len(e) <= a.capacity
         /\ a.data = Stored(a.capacity, e) /\ DOMAIN a.data = 0 .. a.capacity - 1
         /\ a = [count |-> Len(e), capacity |-> a.capacity, data |-> Stored(a.capacity, e)]
<1>1. /\ e \in Seq(Items) /\ Len(e) \in Nat /\ a.count = Len(e) /\ a.capacity \in Nat
      /\ Len(e) <= a.capacity /\ a.data = Stored(a.capacity, e)
      /\ a = [count |-> Len(e), capacity |-> a.capacity, data |-> Stored(a.capacity, e)]
  BY DEF Holds
<1>2. L!Elements(a) \in Seq(Items) /\ Len(L!Elements(a)) = Len(e) /\ \A i \in 1 .. Len(e) : L!Elements(a)[i] = e[i]
  BY <1>1 DEF L!Elements, Stored
<1>3. L!Elements(a) = e
  BY <1>1, <1>2, SameSeq
<1> QED BY <1>1, <1>3 DEF Stored

\* A list is changed: what is stored afterwards.
LEMMA NowHolds ==
  ASSUME NEW e \in Seq(Items), NEW k \in Nat, Len(e) <= k, NEW d, DOMAIN d = 0 .. k - 1, d = [i \in DOMAIN d |-> d[i]],
         \A i \in 0 .. k - 1 : d[i] = IF i < Len(e) THEN e[i + 1] ELSE HOLE
  PROVE  Holds([count |-> Len(e), capacity |-> k, data |-> d], e)
<1>1. d = Stored(k, e)
  BY DEF Stored
<1> QED BY <1>1 DEF Holds

\* A list with other fields.
LEMMA WithData ==
  ASSUME NEW a, NEW e, Holds(a, e), NEW d
  PROVE  [a EXCEPT !.data = d] = [count |-> Len(e), capacity |-> a.capacity, data |-> d]
<1> DEFINE k0 == a.capacity
           st == Stored(k0, e)
           n == Len(e)
<1>1. a = [count |-> n, capacity |-> k0, data |-> st]
  BY HeldElements
<1> HIDE DEF k0, st, n
<1>2. [a EXCEPT !.data = d] = [count |-> n, capacity |-> k0, data |-> d]
  BY <1>1
<1> QED BY <1>2 DEF k0, n

LEMMA WithCapacity ==
  ASSUME NEW a, NEW e, Holds(a, e), NEW k, NEW d
  PROVE  [a EXCEPT !.capacity = k, !.data = d] = [count |-> Len(e), capacity |-> k, data |-> d]
<1> DEFINE k0 == a.capacity
           st == Stored(k0, e)
           n == Len(e)
           y == [a EXCEPT !.capacity = k]
<1>1. a = [count |-> n, capacity |-> k0, data |-> st]
  BY HeldElements
<1> HIDE DEF k0, st, n
<1>2. y = [count |-> n, capacity |-> k, data |-> st]
  BY <1>1
<1> HIDE DEF y
<1>3. [y EXCEPT !.data = d] = [count |-> n, capacity |-> k, data |-> d]
  BY <1>2
<1> QED BY <1>3 DEF y, n

LEMMA WithCount ==
  ASSUME NEW a, NEW e, Holds(a, e), NEW c, NEW d
  PROVE  [a EXCEPT !.count = c, !.data = d] = [count |-> c, capacity |-> a.capacity, data |-> d]
<1> DEFINE k0 == a.capacity
           st == Stored(k0, e)
           n == Len(e)
           y == [a EXCEPT !.count = c]
<1>1. a = [count |-> n, capacity |-> k0, data |-> st]
  BY HeldElements
<1> HIDE DEF k0, st, n
<1>2. y = [count |-> c, capacity |-> k0, data |-> st]
  BY <1>1
<1> HIDE DEF y
<1>3. [y EXCEPT !.data = d] = [count |-> c, capacity |-> k0, data |-> d]
  BY <1>2
<1> QED BY <1>3 DEF y, k0

LEMMA ReallocHolds ==
  ASSUME NEW a, NEW e, Holds(a, e), NEW n \in Nat, n >= Len(e)
  PROVE  Holds(L!Realloc(a, n), e) /\ L!Realloc(a, n).capacity = n
<1> DEFINE d == [i \in 0 .. n - 1 |-> IF i < a.capacity THEN a.data[i] ELSE HOLE]
<1>1. e \in Seq(Items) /\ Len(e) \in Nat /\ a.capacity \in Nat /\ Len(e) <= a.capacity /\ a.data = Stored(a.capacity, e)
  BY HeldElements
<1>2. L!Realloc(a, n) = [a EXCEPT !.capacity = n, !.data = d]
  BY DEF L!Realloc
<1>3. \A i \in 0 .. n - 1 : d[i] = IF i < Len(e) THEN e[i + 1] ELSE HOLE
  BY <1>1 DEF Stored
<1>4. DOMAIN d = 0 .. n - 1 /\ d = [i \in DOMAIN d |-> d[i]]
  OBVIOUS
<1> HIDE DEF d
<1>5. Holds([count |-> Len(e), capacity |-> n, data |-> d], e)
  BY <1>1, <1>3, <1>4, NowHolds
<1>6. L!Realloc(a, n) = [count |-> Len(e), capacity |-> n, data |-> d]
  BY <1>2, WithCapacity, ZenonT(60)
<1> QED BY <1>5, <1>6

LEMMA RoomHolds ==
  ASSUME NEW a, NEW e, Holds(a, e), NEW n \in Nat
  PROVE  Holds(L!SetCapacity(a, n), e) /\ L!SetCapacity(a, n).capacity >= n
<1>1. Len(e) \in Nat /\ a.capacity \in Nat /\ Len(e) <= a.capacity
  BY HeldElements
<1>2. CASE n <= a.capacity
  BY <1>1, <1>2 DEF L!SetCapacity
<1>3. CASE n > a.capacity
  <2> DEFINE k == IF n * 2 < MinCapacity THEN MinCapacity ELSE n * 2
  <2>1. k \in Nat /\ k >= n /\ k >= Len(e)
    BY <1>1, <1>3, ListAssumption
  <2>2. L!SetCapacity(a, n) = L!Realloc(a, k)
    BY <1>1, <1>3 DEF L!SetCapacity
  <2> HIDE DEF k
  <2> QED BY <2>1, <2>2, ReallocHolds
<1> QED BY <1>1, <1>2, <1>3

LEMMA EmptyHolds == Holds(L!NoData, <<>>)
BY DEF L!NoData, Holds, Stored

LEMMA TrimHolds ==
  ASSUME NEW a, NEW e, Holds(a, e)
  PROVE  Holds(L!FreeExtra(a), e)
<1>1. Len(e) \in Nat /\ a.count = Len(e) /\ e \in Seq(Items)
  BY HeldElements
<1>2. CASE Len(e) = 0
  BY <1>1, <1>2, EmptyHolds DEF L!FreeExtra
<1>3. CASE Len(e) # 0
  BY <1>1, <1>3, ReallocHolds DEF L!FreeExtra
<1> QED BY <1>2, <1>3

\* Places are written, destroyed and moved within a block of k.
LEMMA ConstructIs ==
  ASSUME NEW k \in Nat, NEW d, DOMAIN d = 0 .. k - 1, NEW p, NEW s
  PROVE  /\ DOMAIN L!Construct(d, p, s) = 0 .. k - 1
         /\ L!Construct(d, p, s) = [i \in DOMAIN L!Construct(d, p, s) |-> L!Construct(d, p, s)[i]]
         /\ \A i \in 0 .. k - 1 :
              L!Construct(d, p, s)[i] = IF i \in p .. p + (Len(s) - 1) THEN s[(i - p) + 1] ELSE d[i]
BY DEF L!Construct

LEMMA DestroyIs ==
  ASSUME NEW k \in Nat, NEW d, DOMAIN d = 0 .. k - 1, NEW p, NEW n
  PROVE  /\ DOMAIN L!Destroy(d, p, n) = 0 .. k - 1
         /\ L!Destroy(d, p, n) = [i \in DOMAIN L!Destroy(d, p, n) |-> L!Destroy(d, p, n)[i]]
         /\ \A i \in 0 .. k - 1 :
              L!Destroy(d, p, n)[i] = IF i \in p .. p + (n - 1) THEN HOLE ELSE d[i]
BY DEF L!Destroy

LEMMA MemMoveIs ==
  ASSUME NEW k \in Nat, NEW d, DOMAIN d = 0 .. k - 1, NEW to, NEW from, NEW n
  PROVE  /\ DOMAIN L!MemMove(d, to, from, n) = 0 .. k - 1
         /\ L!MemMove(d, to, from, n) = [i \in DOMAIN L!MemMove(d, to, from, n) |-> L!MemMove(d, to, from, n)[i]]
         /\ \A i \in 0 .. k - 1 :
              L!MemMove(d, to, from, n)[i] =
                IF i \in to .. to + (n - 1) THEN d[(i - to) + from]
                ELSE IF i \in from .. from + (n - 1) THEN HOLE ELSE d[i]
BY DEF L!MemMove

\* Room is made at p by a move, and s constructed in it.
LEMMA InsertHolds ==
  ASSUME NEW e \in Seq(Items), NEW s \in Seq(Items), NEW k \in Nat, NEW p \in 0 .. Len(e),
         Len(e) + Len(s) <= k
  PROVE  Holds([count |-> Len(e) + Len(s), capacity |-> k,
                data |-> L!Construct(L!MemMove(Stored(k, e), p + Len(s), p, Len(e) - p), p, s)],
               L!Seqs!InsertedAt(e, p, s))
<1> DEFINE d == Stored(k, e)
           n == Len(e)
           m == Len(s)
           u == L!MemMove(d, p + m, p, n - p)
           v == L!Construct(u, p, s)
           r == L!Seqs!InsertedAt(e, p, s)
<1>1. n \in Nat /\ m \in Nat /\ p \in Nat /\ p <= n /\ n + m <= k
  OBVIOUS
<1>2. DOMAIN d = 0 .. k - 1 /\ \A i \in 0 .. k - 1 : d[i] = IF i < n THEN e[i + 1] ELSE HOLE
  BY DEF Stored
<1>3. /\ r \in Seq(Items) /\ Len(r) = n + m
      /\ \A i \in 1 .. n + m : r[i] = IF i <= p THEN e[i] ELSE IF i <= p + m THEN s[i - p] ELSE e[i - m]
  BY InsertedAtIs
<1> HIDE DEF d, n, m, r
<1>4. /\ DOMAIN u = 0 .. k - 1
      /\ \A i \in 0 .. k - 1 : u[i] =
           IF i \in p + m .. (p + m) + ((n - p) - 1) THEN d[(i - (p + m)) + p]
           ELSE IF i \in p .. p + ((n - p) - 1) THEN HOLE ELSE d[i]
  BY <1>2, MemMoveIs
<1> HIDE DEF u
<1>5. /\ DOMAIN v = 0 .. k - 1
      /\ \A i \in 0 .. k - 1 : v[i] = IF i \in p .. p + (m - 1) THEN s[(i - p) + 1] ELSE u[i]
  BY <1>4, ConstructIs DEF m
<1>6. v = [i \in DOMAIN v |-> v[i]]
  BY <1>4, ConstructIs
<1> HIDE DEF v
<1>7. ASSUME NEW i \in 0 .. k - 1
      PROVE  v[i] = IF i < n + m THEN r[i + 1] ELSE HOLE
  <2>1. CASE i < p
    <3>1. v[i] = u[i] /\ u[i] = d[i] /\ d[i] = e[i + 1]
      BY <1>1, <1>2, <1>4, <1>5, <2>1
    <3>2. i + 1 \in 1 .. n + m /\ i + 1 <= p
      BY <1>1, <2>1
    <3>3. r[i + 1] = e[i + 1]
      BY <1>3, <3>2
    <3> QED BY <1>1, <2>1, <3>1, <3>3
  <2>2. CASE i >= p /\ i < p + m
    <3>0. i \in p .. p + (m - 1)
      BY <1>1, <2>2
    <3>1. v[i] = s[(i - p) + 1]
      BY <1>5, <3>0
    <3>2. i + 1 \in 1 .. n + m /\ ~ (i + 1 <= p) /\ i + 1 <= p + m /\ (i - p) + 1 = (i + 1) - p
      BY <1>1, <2>2
    <3>3. r[i + 1] = s[(i + 1) - p]
      BY <1>3, <3>2
    <3> QED BY <1>1, <2>2, <3>1, <3>2, <3>3, SMTT(40)
  <2>3. CASE i >= p + m /\ i < n + m
    <3> DEFINE j == i - m
    <3>1. j \in 0 .. k - 1 /\ (i - (p + m)) + p = j /\ j < n /\ (i + 1) - m = j + 1
      BY <1>1, <2>3
    <3>2. i \in p + m .. (p + m) + ((n - p) - 1) /\ ~ (i \in p .. p + (m - 1))
      BY <1>1, <2>3
    <3>3. i + 1 \in 1 .. n + m /\ ~ (i + 1 <= p) /\ ~ (i + 1 <= p + m)
      BY <1>1, <2>3
    <3> HIDE DEF j
    <3>4. v[i] = d[j] /\ d[j] = e[j + 1]
      BY <1>2, <1>4, <1>5, <3>1, <3>2
    <3>5. r[i + 1] = e[(i + 1) - m]
      BY <1>3, <3>3
    <3> QED BY <2>3, <3>1, <3>4, <3>5
  <2>4. CASE i >= n + m
    <3>1. ~ (i \in p .. p + (m - 1)) /\ ~ (i \in p + m .. (p + m) + ((n - p) - 1)) /\ ~ (i \in p .. p + ((n - p) - 1)) /\ ~ (i < n)
      BY <1>1, <2>4
    <3>2. v[i] = HOLE
      BY <1>2, <1>4, <1>5, <3>1
    <3> QED BY <1>1, <2>4, <3>2
  <2>5. i < p \/ (i >= p /\ i < p + m) \/ (i >= p + m /\ i < n + m) \/ i >= n + m
    BY <1>1
  <2> QED BY <2>1, <2>2, <2>3, <2>4, <2>5
<1>8. Holds([count |-> Len(r), capacity |-> k, data |-> v], r)
  <2>1. Len(r) <= k /\ \A i \in 0 .. k - 1 : v[i] = IF i < Len(r) THEN r[i + 1] ELSE HOLE
    BY <1>1, <1>3, <1>7
  <2> QED BY <1>3, <1>5, <1>6, <2>1, NowHolds
<1> QED BY <1>3, <1>8 DEF d, n, m, u, v, r

LEMMA InsertedHolds ==
  ASSUME NEW a, NEW e, Holds(a, e), NEW s \in Seq(Items), NEW p \in 0 .. Len(e)
  PROVE  Holds(L!Inserted(a, p, s), L!Seqs!InsertedAt(e, p, s))
<1> DEFINE n == Len(e)
           m == Len(s)
           b == L!SetCapacity(a, n + m)
           k == b.capacity
           st == Stored(k, e)
           y == [b EXCEPT !.count = n + m]
           d == L!Construct(L!MemMove(st, p + m, p, n - p), p, s)
<1>1. n \in Nat /\ m \in Nat /\ n + m \in Nat /\ a.count = n /\ e \in Seq(Items)
  BY HeldElements
<1>2. CASE s = <<>>
  <2>1. L!Inserted(a, p, s) = a
    BY <1>2 DEF L!Inserted
  <2>2. L!Seqs!InsertedAt(e, p, s) = e
    <3>1. /\ L!Seqs!InsertedAt(e, p, s) \in Seq(Items) /\ Len(L!Seqs!InsertedAt(e, p, s)) = n
          /\ \A i \in 1 .. n : L!Seqs!InsertedAt(e, p, s)[i] = e[i]
      <4>1. /\ L!Seqs!InsertedAt(e, p, s) \in Seq(Items) /\ Len(L!Seqs!InsertedAt(e, p, s)) = n + m
            /\ \A i \in 1 .. n + m : L!Seqs!InsertedAt(e, p, s)[i] =
                 IF i <= p THEN e[i] ELSE IF i <= p + m THEN s[i - p] ELSE e[i - m]
        BY <1>1, InsertedAtIs
      <4>2. m = 0 /\ n + m = n /\ p \in Int /\ \A i \in 1 .. n : i - m = i /\ (i <= p + m => i <= p)
        BY <1>1, <1>2
      <4> HIDE DEF n, m
      <4> QED BY <4>1, <4>2
    <3> QED BY <1>1, <3>1, SameSeq
  <2> QED BY <2>1, <2>2
<1>3. CASE s # <<>>
  <2> HIDE DEF n, m
  <2>1. Holds(b, e) /\ k >= n + m
    BY <1>1, RoomHolds
  <2> HIDE DEF b
  <2>2. k \in Nat /\ b = [count |-> n, capacity |-> k, data |-> st] /\ b.count = n
    BY <2>1, HeldElements DEF n
  <2> HIDE DEF k, st
  <2>3. y = [count |-> n + m, capacity |-> k, data |-> st]
    BY <2>2
  <2>4. L!Inserted(a, p, s) = [y EXCEPT !.data = L!Construct(L!MemMove(@, p + m, p, n - p), p, s)]
    BY <1>1, <1>3, <2>2 DEF L!Inserted, m, b
  <2> HIDE DEF y
  <2>5. L!Inserted(a, p, s) = [count |-> n + m, capacity |-> k, data |-> d]
    BY <2>3, <2>4
  <2>6. Holds([count |-> n + m, capacity |-> k, data |-> d], L!Seqs!InsertedAt(e, p, s))
    BY <1>1, <2>1, <2>2, InsertHolds DEF n, m, st
  <2> QED BY <2>5, <2>6
<1> QED BY <1>2, <1>3

\* Elements are destroyed or taken out, and the ones behind them move up.
LEMMA RemovedHolds ==
  ASSUME NEW a, NEW e, Holds(a, e), NEW p \in Nat, NEW m \in Nat, p + m <= Len(e)
  PROVE  Holds(L!Removed(a, p, m), L!Seqs!Cut(e, p, m))
<1> DEFINE n == Len(e)
           k == a.capacity
           st == Stored(k, e)
           u == L!Destroy(st, p, m)
           v == L!MemMove(u, p, p + m, (n - p) - m)
           y == [a EXCEPT !.count = n - m]
           r == L!Seqs!Cut(e, p, m)
<1>1. n \in Nat /\ p + m <= n /\ e \in Seq(Items) /\ k \in Nat /\ n <= k
  BY HeldElements
<1>2. DOMAIN st = 0 .. k - 1 /\ \A i \in 0 .. k - 1 : st[i] = IF i < n THEN e[i + 1] ELSE HOLE
  BY DEF Stored
<1>3. r \in Seq(Items) /\ Len(r) = n - m /\ \A i \in 1 .. n - m : r[i] = IF i <= p THEN e[i] ELSE e[i + m]
  BY <1>1, CutIs, ZenonT(60)
<1>4. a = [count |-> n, capacity |-> k, data |-> st] /\ a.count = n
  BY HeldElements
<1> HIDE DEF n, k, st, r
<1>5. y = [count |-> n - m, capacity |-> k, data |-> st]
  BY <1>4
<1>6. L!Removed(a, p, m) = [y EXCEPT !.data = L!MemMove(L!Destroy(@, p, m), p, p + m, (n - p) - m)]
  BY <1>4 DEF L!Removed
<1> HIDE DEF y
<1>7. L!Removed(a, p, m) = [count |-> n - m, capacity |-> k, data |-> v]
  BY <1>5, <1>6
<1>8. DOMAIN u = 0 .. k - 1 /\ \A i \in 0 .. k - 1 : u[i] = IF i \in p .. p + (m - 1) THEN HOLE ELSE st[i]
  BY <1>1, <1>2, DestroyIs
<1> HIDE DEF u
<1>9. /\ DOMAIN v = 0 .. k - 1 /\ v = [i \in DOMAIN v |-> v[i]]
      /\ \A i \in 0 .. k - 1 : v[i] =
           IF i \in p .. p + (((n - p) - m) - 1) THEN u[(i - p) + (p + m)]
           ELSE IF i \in p + m .. (p + m) + (((n - p) - m) - 1) THEN HOLE ELSE u[i]
  BY <1>1, <1>8, MemMoveIs, SMTT(40)
<1> HIDE DEF v
<1>10. ASSUME NEW i \in 0 .. k - 1
       PROVE  v[i] = IF i < n - m THEN r[i + 1] ELSE HOLE
  <2>1. CASE i < p
    <3>1. ~ (i \in p .. p + (((n - p) - m) - 1)) /\ ~ (i \in p + m .. (p + m) + (((n - p) - m) - 1)) /\ ~ (i \in p .. p + (m - 1))
      BY <1>1, <2>1
    <3>2. i + 1 \in 1 .. n - m /\ i + 1 <= p /\ i < n - m /\ i < n
      BY <1>1, <2>1
    <3>3. v[i] = e[i + 1] /\ r[i + 1] = e[i + 1]
      BY <1>2, <1>3, <1>8, <1>9, <3>1, <3>2
    <3> QED BY <3>2, <3>3
  <2>2. CASE i >= p /\ i < n - m
    <3> DEFINE j == i + m
    <3>1. j \in 0 .. k - 1 /\ j < n /\ ~ (j \in p .. p + (m - 1)) /\ (i - p) + (p + m) = j /\ j + 1 = (i + 1) + m
      BY <1>1, <2>2
    <3>2. i \in p .. p + (((n - p) - m) - 1) /\ i + 1 \in 1 .. n - m /\ ~ (i + 1 <= p)
      BY <1>1, <2>2
    <3> HIDE DEF j
    <3>3. v[i] = u[j] /\ u[j] = e[j + 1]
      BY <1>2, <1>8, <1>9, <3>1, <3>2
    <3>4. r[i + 1] = e[(i + 1) + m]
      BY <1>3, <3>2
    <3> QED BY <2>2, <3>1, <3>3, <3>4
  <2>3. CASE i >= n - m
    <3>1. ~ (i \in p .. p + (((n - p) - m) - 1)) /\ (i >= n \/ i \in p .. p + (m - 1) \/ i \in p + m .. (p + m) + (((n - p) - m) - 1))
      BY <1>1, <2>3
    <3>2. v[i] = HOLE
      BY <1>1, <1>2, <1>8, <1>9, <3>1
    <3> QED BY <1>1, <2>3, <3>2
  <2>4. i < p \/ (i >= p /\ i < n - m) \/ i >= n - m
    BY <1>1
  <2> QED BY <2>1, <2>2, <2>3, <2>4
<1>11. Holds([count |-> Len(r), capacity |-> k, data |-> v], r)
  <2>1. Len(r) = n - m /\ n - m <= k
    BY <1>1, <1>3
  <2>2. Len(r) <= k /\ \A i \in 0 .. k - 1 : v[i] = IF i < Len(r) THEN r[i + 1] ELSE HOLE
    BY <2>1, <1>10
  <2>3. r \in Seq(Items) /\ k \in Nat
    BY <1>1, <1>3
  <2> QED BY <2>2, <2>3, <1>9, NowHolds
<1> QED BY <1>3, <1>7, <1>11 DEF r

\* An element is replaced.
LEMMA ReplacedHolds ==
  ASSUME NEW a, NEW e, Holds(a, e), NEW p \in 0 .. Len(e) - 1, NEW x \in Items
  PROVE  Holds([a EXCEPT !.data = L!Construct(L!Destroy(@, p, 1), p, <<x>>)], [e EXCEPT ![p + 1] = x])
<1> DEFINE n == Len(e)
           k == a.capacity
           st == Stored(k, e)
           u == L!Destroy(st, p, 1)
           sx == <<x>>
           v == L!Construct(u, p, sx)
           r == [e EXCEPT ![p + 1] = x]
<1>1. n \in Nat /\ e \in Seq(Items) /\ k \in Nat /\ n <= k /\ a.data = st
  BY HeldElements
<1>2. DOMAIN st = 0 .. k - 1 /\ \A i \in 0 .. k - 1 : st[i] = IF i < n THEN e[i + 1] ELSE HOLE
  BY DEF Stored
<1>3. r \in Seq(Items) /\ Len(r) = n /\ \A i \in 1 .. n : r[i] = IF i = p + 1 THEN x ELSE e[i]
  BY <1>1
<1> HIDE DEF k, st, r
<1>4. DOMAIN u = 0 .. k - 1 /\ \A i \in 0 .. k - 1 : u[i] = IF i \in p .. p + (1 - 1) THEN HOLE ELSE st[i]
  BY <1>1, <1>2, DestroyIs
<1> HIDE DEF u
<1>10. Len(sx) = 1 /\ sx[1] = x
  OBVIOUS
<1> HIDE DEF sx
<1>5. /\ DOMAIN v = 0 .. k - 1 /\ v = [i \in DOMAIN v |-> v[i]]
      /\ \A i \in 0 .. k - 1 : v[i] = IF i \in p .. p + (Len(sx) - 1) THEN sx[(i - p) + 1] ELSE u[i]
  BY <1>1, <1>4, ConstructIs
<1> HIDE DEF v
<1>6. ASSUME NEW i \in 0 .. k - 1
      PROVE  v[i] = IF i < n THEN r[i + 1] ELSE HOLE
  <2>1. CASE i = p
    <3>1. i + 1 \in 1 .. n /\ i + 1 = p + 1 /\ (i - p) + 1 = 1 /\ i \in p .. p + (1 - 1) /\ i \in p .. p + (Len(sx) - 1) /\ i < n
      BY <1>1, <1>10, <2>1
    <3>2. v[i] = x /\ r[i + 1] = x
      BY <1>3, <1>5, <1>10, <3>1
    <3> QED BY <3>1, <3>2
  <2>2. CASE i # p
    <3>1. ~ (i \in p .. p + (1 - 1)) /\ ~ (i \in p .. p + (Len(sx) - 1)) /\ i + 1 # p + 1
      BY <1>10, <2>2
    <3>2. v[i] = st[i] /\ (i < n => i + 1 \in 1 .. n)
      BY <1>1, <1>4, <1>5, <3>1
    <3> QED BY <1>2, <1>3, <3>1, <3>2
  <2> QED BY <2>1, <2>2
<1>7. Holds([count |-> n, capacity |-> k, data |-> v], r)
  BY <1>1, <1>3, <1>5, <1>6, NowHolds
<1>8. [a EXCEPT !.data = L!Construct(L!Destroy(@, p, 1), p, <<x>>)] = [a EXCEPT !.data = v]
  BY <1>1 DEF v, u, sx
<1>9. [a EXCEPT !.data = v] = [count |-> n, capacity |-> k, data |-> v]
  BY WithData DEF k
<1> QED BY <1>7, <1>8, <1>9 DEF r

\* All elements are taken out.
LEMMA EmptiedHolds ==
  ASSUME NEW a, NEW e, Holds(a, e)
  PROVE  Holds([a EXCEPT !.count = 0, !.data = L!Destroy(@, 0, Len(e))], <<>>)
<1> DEFINE n == Len(e)
           k == a.capacity
           st == Stored(k, e)
           y == [a EXCEPT !.count = 0]
           u == L!Destroy(st, 0, n)
<1>1. n \in Nat /\ e \in Seq(Items) /\ k \in Nat /\ n <= k /\ a = [count |-> n, capacity |-> k, data |-> st]
  BY HeldElements
<1>2. DOMAIN st = 0 .. k - 1 /\ \A i \in 0 .. k - 1 : st[i] = IF i < n THEN e[i + 1] ELSE HOLE
  BY DEF Stored
<1> HIDE DEF n, k, st
<1>3. y = [count |-> 0, capacity |-> k, data |-> st]
  BY <1>1
<1> HIDE DEF y
<1>4. [y EXCEPT !.data = L!Destroy(@, 0, n)] = [count |-> 0, capacity |-> k, data |-> u]
  BY <1>3
<1>5. DOMAIN u = 0 .. k - 1 /\ \A i \in 0 .. k - 1 : u[i] = IF i \in 0 .. 0 + (n - 1) THEN HOLE ELSE st[i]
  BY <1>1, <1>2, DestroyIs
<1>6. u = [i \in DOMAIN u |-> u[i]]
  BY <1>1, <1>2, DestroyIs
<1> HIDE DEF u
<1>7. \A i \in 0 .. k - 1 : u[i] = HOLE
  BY <1>1, <1>2, <1>5
<1>8. Holds([count |-> Len(<<>>), capacity |-> k, data |-> u], <<>>)
  <2>1. <<>> \in Seq(Items) /\ Len(<<>>) = 0 /\ Len(<<>>) <= k
    BY <1>1
  <2>2. \A i \in 0 .. k - 1 : u[i] = IF i < Len(<<>>) THEN <<>>[i + 1] ELSE HOLE
    BY <1>7, <2>1
  <2> QED BY <1>1, <1>5, <1>6, <2>1, <2>2, NowHolds
<1> QED BY <1>4, <1>8 DEF y, n

\* Two elements change places.
LEMMA SwappedHolds ==
  ASSUME NEW a, NEW e, Holds(a, e), NEW i \in 0 .. Len(e) - 1, NEW j \in 0 .. Len(e) - 1
  PROVE  Holds(L!Swapped(a, i, j), L!Seqs!Swapped(e, i + 1, j + 1))
<1> DEFINE x == e[j + 1]
           y == e[i + 1]
           half == L!Construct(L!Destroy(a.data, i, 1), i, <<x>>)
           full == L!Construct(L!Destroy(half, j, 1), j, <<y>>)
           b == [a EXCEPT !.data = half]
           r == [e EXCEPT ![i + 1] = x]
           q == [r EXCEPT ![j + 1] = y]
<1>1. /\ e \in Seq(Items) /\ x \in Items /\ y \in Items /\ a.data[i] = y /\ a.data[j] = x
      /\ Len(r) = Len(e) /\ r \in Seq(Items)
  <2>1. e \in Seq(Items) /\ a.capacity \in Nat /\ Len(e) <= a.capacity /\ a.data = Stored(a.capacity, e)
    BY HeldElements
  <2> QED BY <2>1 DEF Stored
<1>2. L!Swapped(a, i, j) = [a EXCEPT !.data = full]
  BY <1>1 DEF L!Swapped
<1>3. Holds(b, r)
  BY <1>1, ReplacedHolds DEF b, half, r
<1>4. q = L!Seqs!Swapped(e, i + 1, j + 1)
  BY <1>1 DEF L!Seqs!Swapped
<1>5. b = [count |-> Len(e), capacity |-> a.capacity, data |-> half]
  BY WithData DEF b
<1> HIDE DEF x, y, half, r, b
<1>6. b.data = half /\ b.capacity = a.capacity
  BY <1>5
<1>7. Holds([b EXCEPT !.data = L!Construct(L!Destroy(@, j, 1), j, <<y>>)], q)
  BY <1>1, <1>3, ReplacedHolds
<1>8. [b EXCEPT !.data = L!Construct(L!Destroy(@, j, 1), j, <<y>>)] = [b EXCEPT !.data = full]
  BY <1>6
<1> HIDE DEF full, q
<1>9. [a EXCEPT !.data = full] = [b EXCEPT !.data = full]
  <2>1. [a EXCEPT !.data = full] = [count |-> Len(e), capacity |-> a.capacity, data |-> full]
    BY WithData
  <2>2. [b EXCEPT !.data = full] = [count |-> Len(r), capacity |-> b.capacity, data |-> full]
    BY <1>3, WithData
  <2> QED BY <1>1, <1>6, <2>1, <2>2
<1> QED BY <1>2, <1>4, <1>7, <1>8, <1>9

\* An element moves to another place, and the ones between by one.
LEMMA RelocatedHolds ==
  ASSUME NEW a, NEW e, Holds(a, e), NEW from \in 0 .. Len(e) - 1, NEW to \in 0 .. Len(e) - 1, from # to
  PROVE  Holds(L!Relocated(a, from, to), L!Seqs!Relocated(e, from + 1, to + 1))
<1> DEFINE n == Len(e)
           k == a.capacity
           st == Stored(k, e)
           x == e[from + 1]
           sx == <<x>>
           c == L!Seqs!Cut(e, from, 1)
           r == L!Seqs!InsertedAt(c, to, sx)
           w == L!Destroy(st, from, 1)
           u == IF to < from THEN L!MemMove(w, to + 1, to, from - to)
                ELSE L!MemMove(w, from, from + 1, to - from)
           v == L!Construct(u, to, sx)
<1>1. /\ n \in Nat /\ e \in Seq(Items) /\ k \in Nat /\ n <= k /\ a.data = st
      /\ \A i \in 1 .. n : e[i] \in Items
  BY HeldElements
<1>2. DOMAIN st = 0 .. k - 1 /\ \A i \in 0 .. k - 1 : st[i] = IF i < n THEN e[i + 1] ELSE HOLE
  BY DEF Stored
<1>3. x \in Items /\ sx \in Seq(Items) /\ Len(sx) = 1 /\ sx[1] = x /\ st[from] = x
  <2>1. from + 1 \in 1 .. n /\ from \in 0 .. k - 1 /\ from < n
    BY <1>1
  <2> HIDE DEF st, k, n
  <2> QED BY <1>1, <1>2, <2>1
<1>4. c \in Seq(Items) /\ Len(c) = n - 1 /\ \A i \in 1 .. n - 1 : c[i] = IF i <= from THEN e[i] ELSE e[i + 1]
  <2>1. from \in Nat /\ 1 \in Nat /\ from + 1 <= Len(e)
    BY <1>1
  <2> QED BY <1>1, <2>1, CutIs, ZenonT(60)
<1>5. L!Seqs!Relocated(e, from + 1, to + 1) = r
  BY <1>1 DEF L!Seqs!Relocated
<1>6. L!Relocated(a, from, to) = [a EXCEPT !.data = v]
  BY <1>1, <1>3 DEF L!Relocated
<1> HIDE DEF sx, c, st, n, k, x
<1>7. /\ r \in Seq(Items) /\ Len(r) = n
      /\ \A i \in 1 .. n : r[i] = IF i <= to THEN c[i] ELSE IF i <= to + 1 THEN sx[i - to] ELSE c[i - 1]
  <2>1. to \in 0 .. Len(c) /\ Len(c) + Len(sx) = n
    BY <1>1, <1>3, <1>4 DEF n
  <2>2. /\ r \in Seq(Items) /\ Len(r) = Len(c) + Len(sx)
        /\ \A i \in 1 .. Len(c) + Len(sx) :
             r[i] = IF i <= to THEN c[i] ELSE IF i <= to + Len(sx) THEN sx[i - to] ELSE c[i - Len(sx)]
    BY <1>3, <1>4, <2>1, InsertedAtIs
  <2> HIDE DEF r
  <2> QED BY <1>3, <2>1, <2>2
<1>8. DOMAIN w = 0 .. k - 1 /\ \A i \in 0 .. k - 1 : w[i] = IF i \in from .. from + (1 - 1) THEN HOLE ELSE st[i]
  BY <1>1, <1>2, DestroyIs
<1> HIDE DEF r, w
<1>9. /\ DOMAIN u = 0 .. k - 1
      /\ to < from => \A i \in 0 .. k - 1 : u[i] =
           IF i \in to + 1 .. (to + 1) + ((from - to) - 1) THEN w[(i - (to + 1)) + to]
           ELSE IF i \in to .. to + ((from - to) - 1) THEN HOLE ELSE w[i]
      /\ ~ (to < from) => \A i \in 0 .. k - 1 : u[i] =
           IF i \in from .. from + ((to - from) - 1) THEN w[(i - from) + (from + 1)]
           ELSE IF i \in from + 1 .. (from + 1) + ((to - from) - 1) THEN HOLE ELSE w[i]
  <2>1. CASE to < from
    BY <1>1, <1>8, <2>1, MemMoveIs, SMTT(40)
  <2>2. CASE ~ (to < from)
    BY <1>1, <1>8, <2>2, MemMoveIs, SMTT(40)
  <2> QED BY <2>1, <2>2
<1> HIDE DEF u
<1>10. /\ DOMAIN v = 0 .. k - 1 /\ v = [i \in DOMAIN v |-> v[i]]
       /\ \A i \in 0 .. k - 1 : v[i] = IF i \in to .. to + (Len(sx) - 1) THEN sx[(i - to) + 1] ELSE u[i]
  BY <1>1, <1>9, ConstructIs
<1> HIDE DEF v
<1>11. ASSUME NEW i \in 0 .. k - 1
       PROVE  v[i] = IF i < n THEN r[i + 1] ELSE HOLE
  <2>0. from \in Nat /\ to \in Nat /\ from < n /\ to < n /\ i \in Nat
    BY <1>1 DEF n
  <2>1. CASE i = to
    <3>1. v[i] = x
      BY <1>3, <1>10, <2>0, <2>1
    <3>2. i + 1 \in 1 .. n /\ ~ (i + 1 <= to) /\ i + 1 <= to + 1 /\ (i + 1) - to = 1
      BY <1>1, <2>0, <2>1
    <3>3. r[i + 1] = x
      BY <1>3, <1>7, <3>2
    <3> QED BY <2>0, <2>1, <3>1, <3>3
  <2>2. CASE i # to /\ i < n
    <3>1. v[i] = u[i]
      BY <1>3, <1>10, <2>0, <2>2
    <3> DEFINE j == IF i < to THEN i + 1 ELSE i
    <3>2. j \in 1 .. n - 1 /\ i + 1 \in 1 .. n /\ ~ (i + 1 = to + 1)
      BY <1>1, <2>0, <2>2
    <3>3. r[i + 1] = c[j]
      <4>1. i < to => i + 1 <= to
        BY <2>0
      <4>2. ~ (i < to) => ~ (i + 1 <= to) /\ ~ (i + 1 <= to + 1) /\ (i + 1) - 1 = i
        BY <2>0, <2>2
      <4> QED BY <1>7, <3>2, <4>1, <4>2
    <3>4. c[j] = IF j <= from THEN e[j] ELSE e[j + 1]
      BY <1>4, <3>2
    <3>5. \A m \in 0 .. k - 1 : m < n /\ m # from => w[m] = e[m + 1]
      BY <1>2, <1>8, <2>0
    <3>6. CASE to < from
      <4>1. CASE i > to /\ i <= from
        <5>1. i \in to + 1 .. (to + 1) + ((from - to) - 1) /\ (i - (to + 1)) + to = i - 1
          BY <2>0, <4>1
        <5>2. u[i] = w[i - 1] /\ i - 1 \in 0 .. k - 1 /\ i - 1 < n /\ i - 1 # from /\ (i - 1) + 1 = i
          BY <1>1, <1>9, <2>0, <3>6, <4>1, <5>1
        <5>3. j = i /\ j <= from
          BY <2>0, <4>1
        <5> HIDE DEF j
        <5> QED BY <2>2, <3>1, <3>3, <3>4, <3>5, <5>2, <5>3
      <4>2. CASE i < to \/ i > from
        <5>1. ~ (i \in to + 1 .. (to + 1) + ((from - to) - 1)) /\ ~ (i \in to .. to + ((from - to) - 1)) /\ i # from
          BY <2>0, <3>6, <4>2
        <5>2. u[i] = e[i + 1]
          BY <1>9, <2>2, <3>5, <3>6, <5>1
        <5>3. (j = i + 1 /\ j <= from) \/ (j = i /\ ~ (j <= from))
          BY <2>0, <3>6, <4>2
        <5> HIDE DEF j
        <5> QED BY <2>2, <3>1, <3>3, <3>4, <5>2, <5>3
      <4>3. (i > to /\ i <= from) \/ i < to \/ i > from
        BY <2>0, <2>2
      <4> QED BY <4>1, <4>2, <4>3
    <3>7. CASE from < to
      <4>1. CASE i >= from /\ i < to
        <5>1. i \in from .. from + ((to - from) - 1) /\ (i - from) + (from + 1) = i + 1
          BY <2>0, <4>1
        <5>2. u[i] = w[i + 1] /\ i + 1 \in 0 .. k - 1 /\ i + 1 < n /\ i + 1 # from
          BY <1>1, <1>9, <2>0, <3>7, <4>1, <5>1
        <5>3. j = i + 1 /\ ~ (j <= from)
          BY <2>0, <4>1
        <5> HIDE DEF j
        <5> QED BY <2>2, <3>1, <3>3, <3>4, <3>5, <5>2, <5>3
      <4>2. CASE i < from \/ i > to
        <5>1. ~ (i \in from .. from + ((to - from) - 1)) /\ ~ (i \in from + 1 .. (from + 1) + ((to - from) - 1)) /\ i # from /\ ~ (to < from)
          BY <2>0, <3>7, <4>2
        <5>2. u[i] = e[i + 1]
          BY <1>9, <2>2, <3>5, <5>1
        <5>3. (j = i + 1 /\ j <= from) \/ (j = i /\ ~ (j <= from))
          BY <2>0, <3>7, <4>2
        <5> HIDE DEF j
        <5> QED BY <2>2, <3>1, <3>3, <3>4, <5>2, <5>3
      <4>3. (i >= from /\ i < to) \/ i < from \/ i > to
        BY <2>0, <2>2
      <4> QED BY <4>1, <4>2, <4>3
    <3>8. to < from \/ from < to
      BY <2>0
    <3> QED BY <3>6, <3>7, <3>8
  <2>3. CASE i >= n
    <3>1. /\ ~ (i \in to .. to + (Len(sx) - 1)) /\ ~ (i \in from .. from + (1 - 1))
          /\ to < from => ~ (i \in to + 1 .. (to + 1) + ((from - to) - 1)) /\ ~ (i \in to .. to + ((from - to) - 1))
          /\ ~ (i \in from .. from + ((to - from) - 1))
      <4>1. i > to /\ i > from /\ Len(sx) = 1
        BY <1>1, <1>3, <2>0, <2>3
      <4> QED BY <2>0, <4>1
    <3>2. u[i] = HOLE
      <4>1. w[i] = HOLE
        BY <1>1, <1>2, <1>8, <2>0, <2>3, <3>1
      <4> QED BY <1>9, <3>1, <4>1
    <3>3. v[i] = HOLE
      BY <1>10, <3>1, <3>2
    <3> QED BY <1>1, <2>0, <2>3, <3>3
  <2>4. i = to \/ (i # to /\ i < n) \/ i >= n
    BY <1>1, <2>0
  <2> QED BY <2>1, <2>2, <2>3, <2>4
<1>12. Holds([count |-> n, capacity |-> k, data |-> v], r)
  BY <1>1, <1>7, <1>10, <1>11, NowHolds
<1>13. [a EXCEPT !.data = v] = [count |-> n, capacity |-> k, data |-> v]
  BY WithData DEF k, n
<1> QED BY <1>5, <1>6, <1>12, <1>13

\* The elements of a list are put in another order.
LEMMA RewrittenHolds ==
  ASSUME NEW a, NEW e, Holds(a, e), NEW t \in Seq(Items), Len(t) = Len(e)
  PROVE  Holds([a EXCEPT !.data = L!Construct(@, 0, t)], t)
<1> DEFINE n == Len(e)
           k == a.capacity
           st == Stored(k, e)
           v == L!Construct(st, 0, t)
<1>1. n \in Nat /\ e \in Seq(Items) /\ k \in Nat /\ n <= k /\ a.data = st
  BY HeldElements
<1>2. DOMAIN st = 0 .. k - 1 /\ \A i \in 0 .. k - 1 : st[i] = IF i < n THEN e[i + 1] ELSE HOLE
  BY DEF Stored
<1>3. [a EXCEPT !.data = L!Construct(@, 0, t)] = [a EXCEPT !.data = v]
  BY <1>1
<1> HIDE DEF st, k, n
<1>4. /\ DOMAIN v = 0 .. k - 1 /\ v = [i \in DOMAIN v |-> v[i]]
      /\ \A i \in 0 .. k - 1 : v[i] = IF i \in 0 .. 0 + (Len(t) - 1) THEN t[(i - 0) + 1] ELSE st[i]
  BY <1>2 DEF L!Construct
<1> HIDE DEF v
<1>5. ASSUME NEW i \in 0 .. k - 1 PROVE v[i] = IF i < Len(t) THEN t[i + 1] ELSE HOLE
  <2>1. Len(t) = n /\ i \in Int /\ (i - 0) + 1 = i + 1 /\ (i \in 0 .. 0 + (Len(t) - 1) <=> i < n)
    BY <1>1 DEF n
  <2> QED BY <1>2, <1>4, <2>1
<1>6. Holds([count |-> Len(t), capacity |-> k, data |-> v], t)
  <2>1. Len(t) <= k
    BY <1>1 DEF n
  <2> QED BY <1>1, <1>4, <1>5, <2>1, NowHolds
<1>7. [a EXCEPT !.data = v] = [count |-> n, capacity |-> k, data |-> v]
  BY WithData DEF k, n
<1> QED BY <1>3, <1>6, <1>7 DEF n

\* Functions that agree on 0 and step alike agree.
LEMMA SameSteps ==
  ASSUME NEW n \in Nat, NEW f, NEW h, f[0] = h[0],
         \A k \in 1 .. n : f[k - 1] = h[k - 1] => f[k] = h[k]
  PROVE  \A k \in 0 .. n : f[k] = h[k]
<1> DEFINE Q == {k \in 1 .. n : f[k] = h[k]}
<1>1. n # 0 => 1 \in Q
  OBVIOUS
<1>2. \A k \in 1 .. n - 1 : k \in Q => k + 1 \in Q
  <2> TAKE k \in 1 .. n - 1
  <2> HAVE k \in Q
  <2>1. k + 1 \in 1 .. n /\ (k + 1) - 1 = k
    OBVIOUS
  <2> QED BY <2>1
<1>3. 1 .. n \subseteq Q
  <2> HIDE DEF Q
  <2> QED BY <1>1, <1>2, UpTo
<1>4. \A k \in 0 .. n : k = 0 \/ k \in 1 .. n
  OBVIOUS
<1> QED BY <1>3, <1>4

\* The lists that hold some sequence.
AllLists == {[count |-> Len(q), capacity |-> k, data |-> Stored(k, q)] : q \in Seq(Items), k \in Nat}

LEMMA AmongAll ==
  ASSUME NEW a, NEW e, Holds(a, e)
  PROVE  a \in AllLists
BY DEF Holds, AllLists

\* Elements inserted one behind the other are inserted together.
LEMMA InsertedNext ==
  ASSUME NEW e \in Seq(Items), NEW s \in Seq(Items), NEW p \in 0 .. Len(e), NEW k \in 1 .. Len(s)
  PROVE  /\ SubSeq(s, 1, k - 1) \in Seq(Items)
         /\ p + (k - 1) \in 0 .. Len(L!Seqs!InsertedAt(e, p, SubSeq(s, 1, k - 1)))
         /\ <<s[k]>> \in Seq(Items)
         /\ L!Seqs!InsertedAt(L!Seqs!InsertedAt(e, p, SubSeq(s, 1, k - 1)), p + (k - 1), <<s[k]>>)
              = L!Seqs!InsertedAt(e, p, SubSeq(s, 1, k))
<1> DEFINE n == Len(e)
           z == SubSeq(s, 1, k - 1)
           y == SubSeq(s, 1, k)
           b == L!Seqs!InsertedAt(e, p, z)
           c == L!Seqs!InsertedAt(e, p, y)
           q == p + (k - 1)
           x == <<s[k]>>
           d == L!Seqs!InsertedAt(b, q, x)
<1>1. /\ z \in Seq(Items) /\ Len(z) = k - 1 /\ (\A i \in 1 .. k - 1 : z[i] = s[i])
      /\ y \in Seq(Items) /\ Len(y) = k /\ (\A i \in 1 .. k : y[i] = s[i])
  <2>1. k - 1 \in 0 .. Len(s) /\ k \in 0 .. Len(s)
    OBVIOUS
  <2> QED BY <2>1, PartOf
<1>2. x \in Seq(Items) /\ Len(x) = 1 /\ x[1] = s[k]
  OBVIOUS
<1> HIDE DEF n, x
<1>3. n \in Nat /\ p \in 0 .. n /\ k \in Nat /\ k > 0
  BY DEF n
<1>4. /\ b \in Seq(Items) /\ Len(b) = n + (k - 1)
      /\ \A i \in 1 .. n + (k - 1) : b[i] = IF i <= p THEN e[i] ELSE IF i <= q THEN z[i - p] ELSE e[i - (k - 1)]
  <2> HIDE DEF z, q
  <2>1. /\ b \in Seq(Items) /\ Len(b) = n + Len(z)
        /\ \A i \in 1 .. n + Len(z) : b[i] = IF i <= p THEN e[i] ELSE IF i <= p + Len(z) THEN z[i - p] ELSE e[i - Len(z)]
    BY <1>1, InsertedAtIs DEF n
  <2>2. Len(z) = k - 1 /\ q = p + (k - 1)
    BY <1>1 DEF q
  <2> HIDE DEF b
  <2> QED BY <2>1, <2>2
<1>5. /\ c \in Seq(Items) /\ Len(c) = n + k
      /\ \A i \in 1 .. n + k : c[i] = IF i <= p THEN e[i] ELSE IF i <= p + k THEN y[i - p] ELSE e[i - k]
  <2> HIDE DEF y
  <2> QED BY <1>1, InsertedAtIs, ZenonT(60) DEF n
<1> HIDE DEF b, c, z, y
<1>6. q \in 0 .. Len(b)
  BY <1>3, <1>4
<1> HIDE DEF q
<1>7. /\ d \in Seq(Items) /\ Len(d) = Len(b) + Len(x)
      /\ \A i \in 1 .. Len(b) + Len(x) :
           d[i] = IF i <= q THEN b[i] ELSE IF i <= q + Len(x) THEN x[i - q] ELSE b[i - Len(x)]
  BY <1>2, <1>4, <1>6, InsertedAtIs
<1> HIDE DEF d
<1>8. Len(d) = n + k
  BY <1>2, <1>3, <1>4, <1>7
<1>9. ASSUME NEW i \in 1 .. n + k PROVE d[i] = c[i]
  <2>0. i \in 1 .. Len(b) + Len(x)
    BY <1>7, <1>8
  <2>1. CASE i <= p
    <3>1. i <= q /\ i \in 1 .. n + (k - 1)
      BY <1>3, <2>1 DEF q
    <3> QED BY <1>4, <1>5, <1>7, <2>0, <2>1, <3>1
  <2>2. CASE i > p /\ i <= q
    <3>1. i \in 1 .. n + (k - 1) /\ i <= p + k /\ i - p \in 1 .. k - 1 /\ i - p \in 1 .. k /\ ~ (i <= p)
      BY <1>3, <2>2 DEF q
    <3> QED BY <1>1, <1>4, <1>5, <1>7, <2>0, <2>2, <3>1, ZenonT(60)
  <2>3. CASE i = q + 1
    <3>1. i <= p + k /\ i - p = k /\ i - q = 1 /\ ~ (i <= p) /\ ~ (i <= q) /\ k \in 1 .. k
      BY <1>3, <2>3 DEF q
    <3>2. d[i] = x[1]
      BY <1>2, <1>7, <2>0, <2>3, <3>1
    <3>3. c[i] = y[k]
      BY <1>5, <3>1
    <3> QED BY <1>1, <1>2, <3>1, <3>2, <3>3
  <2>4. CASE i > q + 1
    <3>1. ~ (i <= p + k) /\ ~ (i <= p) /\ ~ (i <= q) /\ ~ (i <= q + 1) /\ i - 1 \in 1 .. n + (k - 1)
          /\ ~ (i - 1 <= p) /\ ~ (i - 1 <= q) /\ (i - 1) - (k - 1) = i - k
      BY <1>3, <2>4 DEF q
    <3>2. d[i] = b[i - 1]
      BY <1>2, <1>7, <2>0, <3>1
    <3>3. b[i - 1] = e[(i - 1) - (k - 1)]
      BY <1>4, <3>1
    <3>4. c[i] = e[i - k]
      BY <1>5, <3>1
    <3> QED BY <3>1, <3>2, <3>3, <3>4
  <2>5. i <= p \/ (i > p /\ i <= q) \/ i = q + 1 \/ i > q + 1
    BY <1>3 DEF q
  <2> QED BY <2>1, <2>2, <2>3, <2>4, <2>5
<1>10. d = c
  BY <1>5, <1>7, <1>8, <1>9, SameSeq
<1> QED BY <1>1, <1>2, <1>6, <1>10 DEF b, c, d, q, x, y, z
\* The elements of s added one after the other.
LEMMA AllAddedHolds ==
  ASSUME NEW a, NEW e, Holds(a, e), NEW s \in Seq(Items), NEW p \in 0 .. Len(e)
  PROVE  Holds(L!AllAdded(a, p, s), L!Seqs!InsertedAt(e, p, s))
<1> DEFINE n == Len(s)
           At(k, x) == L!Inserted(x, p + (k - 1), <<s[k]>>)
           T(k) == L!Seqs!InsertedAt(e, p, SubSeq(s, 1, k))
           X == AllLists
           g == [k \in 1 .. n |-> [x \in X |-> IF At(k, x) \in X THEN At(k, x) ELSE x]]
           R(f) == [k \in 0 .. n |-> IF k = 0 THEN a ELSE At(k, f[k - 1])]
           h == CHOOSE f : f = R(f)
<1>1. n \in Nat /\ e \in Seq(Items) /\ a \in X
  BY HeldElements, AmongAll
<1>2. L!AllAdded(a, p, s) = h[n]
  BY DEF L!AllAdded
<1>3. Holds(a, T(0))
  <2>1. 0 \in 0 .. n /\ SubSeq(s, 1, 0) = <<>> /\ p \in 0 .. Len(e)
    OBVIOUS
  <2>2. L!Seqs!InsertedAt(e, p, <<>>) = e
    <3>1. <<>> \in Seq(Items) /\ Len(<<>>) = 0 /\ Len(e) + 0 = Len(e)
      BY <1>1
    <3> DEFINE r == L!Seqs!InsertedAt(e, p, <<>>)
    <3>2. /\ r \in Seq(Items) /\ Len(r) = Len(e) + Len(<<>>)
          /\ \A i \in 1 .. Len(e) + Len(<<>>) :
               r[i] = IF i <= p THEN e[i] ELSE IF i <= p + Len(<<>>) THEN <<>>[i - p] ELSE e[i - Len(<<>>)]
      BY <1>1, <3>1, InsertedAtIs
    <3> HIDE DEF r
    <3>3. \A i \in 1 .. Len(e) : r[i] = e[i]
      BY <1>1, <3>1, <3>2
    <3>4. r = e
      BY <1>1, <3>1, <3>2, <3>3, SameSeq
    <3> QED BY <3>4 DEF r
  <2> QED BY <2>1, <2>2
<1>4. \A k \in 1 .. n : \A x \in X : Holds(x, T(k - 1)) => At(k, x) \in X /\ Holds(At(k, x), T(k))
  <2> TAKE k \in 1 .. n
  <2> TAKE x \in X
  <2> HAVE Holds(x, T(k - 1))
  <2>1. p + (k - 1) \in 0 .. Len(T(k - 1)) /\ <<s[k]>> \in Seq(Items)
        /\ L!Seqs!InsertedAt(T(k - 1), p + (k - 1), <<s[k]>>) = T(k)
    BY <1>1, InsertedNext
  <2> HIDE DEF T
  <2>2. Holds(At(k, x), T(k))
    BY <2>1, InsertedHolds
  <2> QED BY <2>2, AmongAll
<1>5. g \in [1 .. n -> [X -> X]]
  OBVIOUS
<1>6. \A k \in 1 .. n : \A x \in X : g[k][x] = IF At(k, x) \in X THEN At(k, x) ELSE x
  OBVIOUS
<1> HIDE DEF X, g, n
<1>7. PICK f : Steps(X, g, n, a, f)
  BY <1>1, <1>5, StepsExist
<1>8. /\ f \in [0 .. n -> X] /\ f[0] = a
      /\ \A k \in 1 .. n : f[k - 1] \in X /\ f[k] = g[k][f[k - 1]]
  BY <1>1, <1>7 DEF Steps
<1>9. \A k \in 1 .. n : Holds(f[k - 1], T(k - 1)) => f[k] = At(k, f[k - 1]) /\ Holds(f[k], T(k))
  <2> TAKE k \in 1 .. n
  <2> HIDE DEF At, T
  <2>1. f[k - 1] \in X /\ f[k] = IF At(k, f[k - 1]) \in X THEN At(k, f[k - 1]) ELSE f[k - 1]
    BY <1>6, <1>8
  <2> QED BY <1>4, <2>1
<1> DEFINE Q == {k \in 1 .. n : Holds(f[k], T(k))}
<1> HIDE DEF T, At
<1>10. n # 0 => 1 \in Q
  <2> SUFFICES ASSUME n # 0 PROVE 1 \in Q
    OBVIOUS
  <2>1. 1 \in 1 .. n /\ 1 - 1 = 0
    BY <1>1
  <2> QED BY <1>3, <1>8, <1>9, <2>1
<1>11. \A k \in 1 .. n - 1 : k \in Q => k + 1 \in Q
  <2> TAKE k \in 1 .. n - 1
  <2> HAVE k \in Q
  <2>1. k + 1 \in 1 .. n /\ (k + 1) - 1 = k
    BY <1>1
  <2> QED BY <1>9, <2>1
<1>12. 1 .. n \subseteq Q
  <2> HIDE DEF Q
  <2> QED BY <1>1, <1>10, <1>11, UpTo
<1>13. \A k \in 0 .. n : Holds(f[k], T(k))
  <2>1. \A k \in 0 .. n : k = 0 \/ k \in 1 .. n
    BY <1>1
  <2> QED BY <1>3, <1>8, <1>12, <2>1
<1>14. f = R(f)
  <2>1. \A k \in 1 .. n : f[k] = At(k, f[k - 1])
    <3> TAKE k \in 1 .. n
    <3>1. k - 1 \in 0 .. n
      BY <1>1
    <3> QED BY <1>9, <1>13, <3>1
  <2>2. \A k \in 0 .. n : f[k] = IF k = 0 THEN a ELSE At(k, f[k - 1])
    <3>1. \A k \in 0 .. n : k = 0 \/ k \in 1 .. n
      BY <1>1
    <3>2. \A k \in 1 .. n : k # 0
      BY <1>1
    <3> QED BY <1>8, <2>1, <3>1, <3>2
  <2> QED BY <1>8, <2>2
<1>15. h = R(h)
  <2> HIDE DEF R
  <2> QED BY <1>14
<1> HIDE DEF h
<1>16. \A k \in 0 .. n : h[k] = f[k]
  <2>1. h[0] = f[0]
    BY <1>1, <1>8, <1>15
  <2>2. \A k \in 1 .. n : h[k - 1] = f[k - 1] => h[k] = f[k]
    <3> TAKE k \in 1 .. n
    <3>1. k \in 0 .. n /\ k # 0
      BY <1>1
    <3>2. h[k] = At(k, h[k - 1])
      BY <1>15, <3>1
    <3>3. f[k] = At(k, f[k - 1])
      BY <1>14, <3>1
    <3> QED BY <3>2, <3>3
  <2> QED BY <1>1, <2>1, <2>2, SameSteps, ZenonT(60)
<1>17. T(n) = L!Seqs!InsertedAt(e, p, s)
  <2>1. SubSeq(s, 1, n) = s
    BY DEF n
  <2> QED BY <2>1 DEF T
<1>18. n \in 0 .. n
  BY <1>1
<1> QED BY <1>2, <1>13, <1>16, <1>17, <1>18
\* The number of elements is set.
Resized(e, n, x) == [i \in 1 .. n |-> IF i <= Len(e) THEN e[i] ELSE x]

LEMMA ResizedHolds ==
  ASSUME NEW a, NEW e, Holds(a, e), NEW n \in Nat, NEW x \in Items
  PROVE  Holds(L!WithLength(a, n, x), Resized(e, n, x))
<1> DEFINE b == L!SetCapacity(a, n)
           m == Len(e)
           s == [i \in 1 .. n - m |-> x]
           r == Resized(e, n, x)
<1>1. Holds(b, e) /\ b.count = m /\ m \in Nat /\ e \in Seq(Items)
  BY RoomHolds, HeldElements
<1>2. r \in Seq(Items) /\ Len(r) = n /\ \A i \in 1 .. n : r[i] = IF i <= m THEN e[i] ELSE x
  <2>1. \A i \in 1 .. n : i <= m => e[i] \in Items
    BY <1>1
  <2> QED BY <1>1, <2>1 DEF Resized
<1>3. L!WithLength(a, n, x) = IF n >= m THEN L!AllAdded(b, m, s) ELSE L!Removed(b, n, m - n)
  BY <1>1 DEF L!WithLength
<1> HIDE DEF b, r
<1>4. CASE n >= m
  <2> DEFINE q == L!Seqs!InsertedAt(e, m, s)
  <2>1. s \in Seq(Items) /\ Len(s) = n - m /\ m \in 0 .. Len(e) /\ m + Len(s) = n
    BY <1>1, <1>4
  <2>2. Holds(L!AllAdded(b, m, s), q)
    <3> HIDE DEF s
    <3> QED BY <1>1, <2>1, AllAddedHolds
  <2>3. \A i \in 1 .. n - m : s[i] = x
    OBVIOUS
  <2> HIDE DEF s, m
  <2>4. /\ q \in Seq(Items) /\ Len(q) = Len(e) + Len(s)
        /\ \A i \in 1 .. Len(e) + Len(s) :
             q[i] = IF i <= m THEN e[i] ELSE IF i <= m + Len(s) THEN s[i - m] ELSE e[i - Len(s)]
    BY <1>1, <2>1, InsertedAtIs
  <2> HIDE DEF q
  <2>5. Len(q) = n /\ Len(e) + Len(s) = n
    BY <2>1, <2>4 DEF m
  <2>6. ASSUME NEW i \in 1 .. n PROVE q[i] = r[i]
    <3>1. i \in 1 .. Len(e) + Len(s) /\ i <= m + Len(s)
      BY <2>1, <2>5
    <3>2. CASE i <= m
      BY <1>2, <2>4, <3>1, <3>2
    <3>3. CASE i > m
      <4>1. i - m \in 1 .. n - m /\ ~ (i <= m)
        BY <1>1, <3>3
      <4>2. q[i] = s[i - m] /\ r[i] = x
        BY <1>2, <2>4, <3>1, <4>1
      <4> QED BY <2>3, <4>1, <4>2
    <3>4. i <= m \/ i > m
      BY <1>1
    <3> QED BY <3>2, <3>3, <3>4
  <2>7. q = r
    BY <1>2, <2>4, <2>5, <2>6, SameSeq
  <2> QED BY <1>3, <1>4, <2>2, <2>7 DEF r
<1>5. CASE n < m
  <2> DEFINE q == L!Seqs!Cut(e, n, m - n)
  <2>1. m - n \in Nat /\ n + (m - n) <= Len(e) /\ Len(e) - (m - n) = n
    BY <1>1, <1>5
  <2>2. Holds(L!Removed(b, n, m - n), q)
    BY <1>1, <2>1, RemovedHolds
  <2>3. /\ q \in Seq(Items) /\ Len(q) = Len(e) - (m - n)
        /\ \A i \in 1 .. Len(e) - (m - n) : q[i] = IF i <= n THEN e[i] ELSE e[i + (m - n)]
    BY <1>1, <2>1, CutIs, ZenonT(60)
  <2> HIDE DEF q
  <2>4. ASSUME NEW i \in 1 .. n PROVE q[i] = r[i]
    <3>1. i \in 1 .. Len(e) - (m - n) /\ i <= n /\ i <= m
      BY <1>1, <1>5, <2>1
    <3> QED BY <1>2, <2>3, <3>1
  <2>5. q = r
    BY <1>2, <2>1, <2>3, <2>4, SameSeq
  <2>6. ~ (n >= m)
    BY <1>1, <1>5
  <2> QED BY <1>3, <2>2, <2>5, <2>6 DEF r
<1>6. n >= m \/ n < m
  BY <1>1
<1> QED BY <1>4, <1>5, <1>6

\* The elements that are in A, one after the other.
LEMMA KeptSteps ==
  ASSUME NEW e \in Seq(Items), NEW A
  PROVE  \E f : /\ f \in [0 .. Len(e) -> Seq(Items)] /\ f[0] = <<>>
                /\ \A k \in 1 .. Len(e) : f[k] = IF e[k] \in A THEN Append(f[k - 1], e[k]) ELSE f[k - 1]
                /\ L!Seqs!Kept(e, A) = f[Len(e)]
<1> DEFINE n == Len(e)
           X == Seq(Items)
           At(k, x) == IF e[k] \in A THEN Append(x, e[k]) ELSE x
           g == [k \in 1 .. n |-> [x \in X |-> At(k, x)]]
           R(f) == [k \in 0 .. n |-> IF k = 0 THEN <<>> ELSE At(k, f[k - 1])]
           h == CHOOSE f : f = R(f)
<1>1. n \in Nat /\ <<>> \in X
  OBVIOUS
<1>2. L!Seqs!Kept(e, A) = h[n]
  BY DEF L!Seqs!Kept
<1>3. \A k \in 1 .. n : \A x \in X : At(k, x) \in X
  OBVIOUS
<1>4. g \in [1 .. n -> [X -> X]]
  BY <1>3
<1>5. \A k \in 1 .. n : \A x \in X : g[k][x] = At(k, x)
  OBVIOUS
<1> HIDE DEF X, g, n
<1>6. PICK f : Steps(X, g, n, <<>>, f)
  BY <1>1, <1>4, StepsExist
<1>7. /\ f \in [0 .. n -> X] /\ f[0] = <<>>
      /\ \A k \in 1 .. n : f[k - 1] \in X /\ f[k] = g[k][f[k - 1]]
  BY <1>1, <1>6 DEF Steps
<1> HIDE DEF At
<1>8. \A k \in 1 .. n : f[k] = At(k, f[k - 1])
  BY <1>5, <1>7
<1>9. f = R(f)
  <2>1. \A k \in 0 .. n : f[k] = IF k = 0 THEN <<>> ELSE At(k, f[k - 1])
    <3>1. \A k \in 0 .. n : k = 0 \/ k \in 1 .. n
      BY <1>1
    <3>2. \A k \in 1 .. n : k # 0
      BY <1>1
    <3> QED BY <1>7, <1>8, <3>1, <3>2
  <2> QED BY <1>7, <2>1
<1>10. h = R(h)
  <2> HIDE DEF R
  <2> QED BY <1>9
<1> HIDE DEF h
<1>11. \A k \in 0 .. n : h[k] = f[k]
  <2>1. h[0] = f[0]
    BY <1>1, <1>7, <1>10
  <2>2. \A k \in 1 .. n : h[k - 1] = f[k - 1] => h[k] = f[k]
    <3> TAKE k \in 1 .. n
    <3>1. k \in 0 .. n /\ k # 0
      BY <1>1
    <3>2. h[k] = At(k, h[k - 1])
      BY <1>10, <3>1
    <3> QED BY <1>8, <3>2
  <2> QED BY <1>1, <2>1, <2>2, SameSteps, ZenonT(60)
<1>12. n \in 0 .. n
  BY <1>1
<1>13. L!Seqs!Kept(e, A) = f[n]
  BY <1>2, <1>11, <1>12
<1> QED BY <1>7, <1>8, <1>13 DEF At, X, n

LEMMA FilteredHolds ==
  ASSUME NEW e \in Seq(Items), NEW A
  PROVE  Holds(L!Filtered(e, A), L!Seqs!Kept(e, A))
<1> DEFINE n == Len(e)
           At(k, x) == IF e[k] \in A THEN L!Inserted(x, x.count, <<e[k]>>) ELSE x
           X == AllLists
           g == [k \in 1 .. n |-> [x \in X |-> IF At(k, x) \in X THEN At(k, x) ELSE x]]
           R(f) == [k \in 0 .. n |-> IF k = 0 THEN L!NoData
                                     ELSE IF e[k] \in A THEN L!Inserted(f[k - 1], f[k - 1].count, <<e[k]>>)
                                     ELSE f[k - 1]]
           h == CHOOSE f : f = R(f)
<1>1. n \in Nat /\ L!NoData \in X
  BY EmptyHolds, AmongAll
<1>2. L!Filtered(e, A) = h[n]
  BY DEF L!Filtered
<1>3. PICK t : /\ t \in [0 .. n -> Seq(Items)] /\ t[0] = <<>>
               /\ \A k \in 1 .. n : t[k] = IF e[k] \in A THEN Append(t[k - 1], e[k]) ELSE t[k - 1]
               /\ L!Seqs!Kept(e, A) = t[n]
  BY KeptSteps
<1>4. \A k \in 1 .. n : \A x \in X : Holds(x, t[k - 1]) => At(k, x) \in X /\ Holds(At(k, x), t[k])
  <2> TAKE k \in 1 .. n
  <2> TAKE x \in X
  <2> HAVE Holds(x, t[k - 1])
  <2> DEFINE q == t[k - 1]
             y == <<e[k]>>
  <2>1. CASE e[k] \notin A
    BY <1>3, <2>1
  <2>2. CASE e[k] \in A
    <3>1. q \in Seq(Items) /\ x.count = Len(q) /\ e[k] \in Items /\ y \in Seq(Items) /\ Len(q) \in 0 .. Len(q)
          /\ Len(y) = 1 /\ y[1] = e[k]
      BY HeldElements
    <3>2. t[k] = Append(q, e[k])
      BY <1>3, <2>2
    <3> HIDE DEF q, y
    <3>3. Holds(L!Inserted(x, Len(q), y), L!Seqs!InsertedAt(q, Len(q), y))
      BY <3>1, InsertedHolds DEF q
    <3>4. L!Seqs!InsertedAt(q, Len(q), y) = Append(q, e[k])
      <4> DEFINE r == L!Seqs!InsertedAt(q, Len(q), y)
                 z == Append(q, e[k])
      <4>1. /\ r \in Seq(Items) /\ Len(r) = Len(q) + Len(y)
            /\ \A i \in 1 .. Len(q) + Len(y) :
                 r[i] = IF i <= Len(q) THEN q[i] ELSE IF i <= Len(q) + Len(y) THEN y[i - Len(q)] ELSE q[i - Len(y)]
        BY <3>1, InsertedAtIs
      <4> HIDE DEF r
      <4>2. z \in Seq(Items) /\ Len(z) = Len(q) + 1 /\ \A i \in 1 .. Len(q) + 1 : z[i] = IF i <= Len(q) THEN q[i] ELSE e[k]
        BY <3>1
      <4> HIDE DEF z
      <4>3. ASSUME NEW i \in 1 .. Len(q) + 1 PROVE r[i] = z[i]
        <5>1. Len(q) \in Nat /\ i \in 1 .. Len(q) + Len(y) /\ i <= Len(q) + Len(y)
          BY <3>1
        <5>2. CASE i <= Len(q)
          BY <4>1, <4>2, <5>1, <5>2
        <5>3. CASE ~ (i <= Len(q))
          <6>1. i - Len(q) = 1
            BY <5>1, <5>3
          <6>2. r[i] = y[1] /\ z[i] = e[k]
            BY <4>1, <4>2, <5>1, <5>3, <6>1
          <6> QED BY <3>1, <6>2
        <5> QED BY <5>2, <5>3
      <4>4. r = z
        BY <3>1, <4>1, <4>2, <4>3, SameSeq
      <4> QED BY <4>4 DEF r, z
    <3>5. At(k, x) = L!Inserted(x, Len(q), y)
      BY <2>2, <3>1 DEF y
    <3> QED BY <3>2, <3>3, <3>4, <3>5, AmongAll
  <2> QED BY <2>1, <2>2
<1>5. g \in [1 .. n -> [X -> X]]
  OBVIOUS
<1>6. \A k \in 1 .. n : \A x \in X : g[k][x] = IF At(k, x) \in X THEN At(k, x) ELSE x
  OBVIOUS
<1>7. \A f : R(f) = [k \in 0 .. n |-> IF k = 0 THEN L!NoData ELSE At(k, f[k - 1])]
  OBVIOUS
<1> HIDE DEF X, g, n, At
<1>8. PICK f : Steps(X, g, n, L!NoData, f)
  BY <1>1, <1>5, StepsExist
<1>9. /\ f \in [0 .. n -> X] /\ f[0] = L!NoData
      /\ \A k \in 1 .. n : f[k - 1] \in X /\ f[k] = g[k][f[k - 1]]
  BY <1>1, <1>8 DEF Steps
<1>10. \A k \in 1 .. n : Holds(f[k - 1], t[k - 1]) => f[k] = At(k, f[k - 1]) /\ Holds(f[k], t[k])
  <2> TAKE k \in 1 .. n
  <2>1. f[k - 1] \in X /\ f[k] = IF At(k, f[k - 1]) \in X THEN At(k, f[k - 1]) ELSE f[k - 1]
    BY <1>6, <1>9
  <2> QED BY <1>4, <2>1
<1>11. Holds(f[0], t[0])
  BY <1>3, <1>9, EmptyHolds
<1> DEFINE Q == {k \in 1 .. n : Holds(f[k], t[k])}
<1>12. n # 0 => 1 \in Q
  <2> SUFFICES ASSUME n # 0 PROVE 1 \in Q
    OBVIOUS
  <2>1. 1 \in 1 .. n /\ 1 - 1 = 0
    BY <1>1
  <2> QED BY <1>10, <1>11, <2>1
<1>13. \A k \in 1 .. n - 1 : k \in Q => k + 1 \in Q
  <2> TAKE k \in 1 .. n - 1
  <2> HAVE k \in Q
  <2>1. k + 1 \in 1 .. n /\ (k + 1) - 1 = k
    BY <1>1
  <2> QED BY <1>10, <2>1
<1>14. 1 .. n \subseteq Q
  <2> HIDE DEF Q
  <2> QED BY <1>1, <1>12, <1>13, UpTo
<1>15. \A k \in 0 .. n : Holds(f[k], t[k])
  <2>1. \A k \in 0 .. n : k = 0 \/ k \in 1 .. n
    BY <1>1
  <2> QED BY <1>11, <1>14, <2>1
<1>16. \A k \in 1 .. n : f[k] = At(k, f[k - 1])
  <2> TAKE k \in 1 .. n
  <2>1. k - 1 \in 0 .. n
    BY <1>1
  <2> QED BY <1>10, <1>15, <2>1
<1>17. f = R(f)
  <2>1. \A k \in 0 .. n : f[k] = IF k = 0 THEN L!NoData ELSE At(k, f[k - 1])
    <3>1. \A k \in 0 .. n : k = 0 \/ k \in 1 .. n
      BY <1>1
    <3>2. \A k \in 1 .. n : k # 0
      BY <1>1
    <3> QED BY <1>9, <1>16, <3>1, <3>2
  <2>2. f = [k \in 0 .. n |-> f[k]]
    BY <1>9
  <2> HIDE DEF R
  <2> QED BY <1>7, <2>1, <2>2
<1>18. h = R(h)
  <2> HIDE DEF R
  <2> QED BY <1>17
<1> HIDE DEF h
<1>19. h = [k \in 0 .. n |-> IF k = 0 THEN L!NoData ELSE At(k, h[k - 1])]
  <2> HIDE DEF R
  <2> QED BY <1>7, <1>18
<1>20. \A k \in 0 .. n : h[k] = f[k]
  <2>1. h[0] = f[0]
    BY <1>1, <1>9, <1>19
  <2>2. \A k \in 1 .. n : h[k - 1] = f[k - 1] => h[k] = f[k]
    <3> TAKE k \in 1 .. n
    <3>1. k \in 0 .. n /\ k # 0
      BY <1>1
    <3>2. h[k] = At(k, h[k - 1])
      BY <1>19, <3>1
    <3> QED BY <1>16, <3>2
  <2> QED BY <1>1, <2>1, <2>2, SameSteps, SMTT(40)
<1>21. n \in 0 .. n
  BY <1>1
<1> QED BY <1>2, <1>3, <1>15, <1>20, <1>21
\* What is in a sequence, and that it is there once.
Members(e) == {e[i] : i \in 1 .. Len(e)}
Single(e) == \A i, j \in 1 .. Len(e) : e[i] = e[j] => i = j

LEMMA InsertedMembers ==
  ASSUME NEW e \in Seq(Items), NEW s \in Seq(Items), NEW p \in 0 .. Len(e)
  PROVE  /\ Members(L!Seqs!InsertedAt(e, p, s)) = Members(e) \cup Members(s)
         /\ Single(e) /\ Single(s) /\ Members(e) \cap Members(s) = {} => Single(L!Seqs!InsertedAt(e, p, s))
<1> DEFINE n == Len(e)
           m == Len(s)
           r == L!Seqs!InsertedAt(e, p, s)
<1>1. n \in Nat /\ m \in Nat /\ p \in 0 .. n
  OBVIOUS
<1>2. /\ r \in Seq(Items) /\ Len(r) = n + m
      /\ \A i \in 1 .. n + m : r[i] = IF i <= p THEN e[i] ELSE IF i <= p + m THEN s[i - p] ELSE e[i - m]
  BY InsertedAtIs
<1> HIDE DEF n, m, r
\* where the i-th element was
<1> DEFINE w(i) == IF i <= p THEN i ELSE i - m
<1>3. \A i \in 1 .. n + m :
        \/ i \in p + 1 .. p + m /\ i - p \in 1 .. m /\ r[i] = s[i - p]
        \/ ~ (i \in p + 1 .. p + m) /\ w(i) \in 1 .. n /\ r[i] = e[w(i)]
  <2> TAKE i \in 1 .. n + m
  <2>1. CASE i <= p
    BY <1>1, <1>2, <2>1
  <2>2. CASE ~ (i <= p) /\ i <= p + m
    BY <1>1, <1>2, <2>2
  <2>3. CASE ~ (i <= p) /\ ~ (i <= p + m)
    <3>1. i - m \in 1 .. n /\ w(i) = i - m
      BY <1>1, <2>3
    <3> HIDE DEF w
    <3>2. r[i] = e[i - m]
      BY <1>2, <2>3
    <3>3. ~ (i \in p + 1 .. p + m)
      BY <2>3
    <3> QED BY <3>1, <3>2, <3>3
  <2> QED BY <2>1, <2>2, <2>3
<1>4. \A i \in 1 .. m : p + i \in 1 .. n + m /\ r[p + i] = s[i]
  <2> TAKE i \in 1 .. m
  <2>1. p + i \in 1 .. n + m /\ ~ (p + i <= p) /\ p + i <= p + m /\ (p + i) - p = i
    BY <1>1
  <2> QED BY <1>2, <2>1
<1>5. \A j \in 1 .. n : \E i \in 1 .. n + m : r[i] = e[j]
  <2> TAKE j \in 1 .. n
  <2>1. CASE j <= p
    BY <1>1, <1>2, <2>1
  <2>2. CASE ~ (j <= p)
    <3> DEFINE i == j + m
    <3>1. i \in 1 .. n + m /\ ~ (i <= p) /\ ~ (i <= p + m) /\ i - m = j
      BY <1>1, <2>2
    <3> HIDE DEF i
    <3>2. r[i] = e[j]
      BY <1>2, <3>1
    <3> QED BY <3>1, <3>2
  <2> QED BY <2>1, <2>2
<1>6. \A i, j \in 1 .. n + m : ~ (i \in p + 1 .. p + m) /\ ~ (j \in p + 1 .. p + m) /\ w(i) = w(j) => i = j
  BY <1>1
<1>7. \A i, j \in 1 .. n + m : i - p = j - p => i = j
  BY <1>1
<1> HIDE DEF w
<1>8. Members(r) = Members(e) \cup Members(s)
  <2>1. \A i \in 1 .. n + m : r[i] \in Members(e) \cup Members(s)
    BY <1>3 DEF Members, n, m
  <2>2. \A j \in 1 .. n : e[j] \in Members(r)
    BY <1>2, <1>5 DEF Members
  <2>3. \A j \in 1 .. m : s[j] \in Members(r)
    <3> TAKE j \in 1 .. m
    <3> DEFINE i == p + j
    <3>1. i \in 1 .. Len(r) /\ r[i] = s[j]
      BY <1>2, <1>4
    <3> HIDE DEF i
    <3> QED BY <3>1 DEF Members
  <2> QED BY <1>2, <2>1, <2>2, <2>3 DEF Members, n, m
<1>9. ASSUME Single(e), Single(s), Members(e) \cap Members(s) = {} PROVE Single(r)
  <2>1. \A i \in 1 .. n, j \in 1 .. m : e[i] # s[j]
    BY <1>9 DEF Members, n, m
  <2>2. ASSUME NEW i \in 1 .. n + m, NEW j \in 1 .. n + m, r[i] = r[j] PROVE i = j
    <3>1. CASE i \in p + 1 .. p + m /\ j \in p + 1 .. p + m
      <4>1. i - p \in 1 .. m /\ j - p \in 1 .. m /\ r[i] = s[i - p] /\ r[j] = s[j - p]
        BY <1>3, <3>1
      <4> QED BY <1>7, <1>9, <2>2, <4>1 DEF Single, m
    <3>2. CASE ~ (i \in p + 1 .. p + m) /\ ~ (j \in p + 1 .. p + m)
      <4>1. w(i) \in 1 .. n /\ w(j) \in 1 .. n /\ r[i] = e[w(i)] /\ r[j] = e[w(j)]
        BY <1>3, <3>2
      <4> QED BY <1>6, <1>9, <2>2, <3>2, <4>1 DEF Single, n
    <3>3. CASE i \in p + 1 .. p + m /\ ~ (j \in p + 1 .. p + m)
      <4>1. i - p \in 1 .. m /\ w(j) \in 1 .. n /\ r[i] = s[i - p] /\ r[j] = e[w(j)]
        BY <1>3, <3>3
      <4> QED BY <2>1, <2>2, <4>1
    <3>4. CASE ~ (i \in p + 1 .. p + m) /\ j \in p + 1 .. p + m
      <4>1. w(i) \in 1 .. n /\ j - p \in 1 .. m /\ r[i] = e[w(i)] /\ r[j] = s[j - p]
        BY <1>3, <3>4
      <4> QED BY <2>1, <2>2, <4>1
    <3> QED BY <3>1, <3>2, <3>3, <3>4
  <2> QED BY <1>2, <2>2 DEF Single
<1> QED BY <1>8, <1>9 DEF r

LEMMA CutMembers ==
  ASSUME NEW e \in Seq(Items), NEW p \in Nat, NEW n \in Nat, p + n <= Len(e), Single(e)
  PROVE  /\ Members(L!Seqs!Cut(e, p, n)) = Members(e) \ {e[i] : i \in p + 1 .. p + n}
         /\ {e[i] : i \in p + 1 .. p + n} \subseteq Members(e)
         /\ Single(L!Seqs!Cut(e, p, n))
<1> DEFINE m == Len(e)
           r == L!Seqs!Cut(e, p, n)
           w(i) == IF i <= p THEN i ELSE i + n
<1>1. m \in Nat /\ p + n <= m
  OBVIOUS
<1>2. r \in Seq(Items) /\ Len(r) = m - n /\ \A i \in 1 .. m - n : r[i] = IF i <= p THEN e[i] ELSE e[i + n]
  BY CutIs
<1> HIDE DEF m, r
<1>3. \A i \in 1 .. m - n : w(i) \in 1 .. m /\ ~ (w(i) \in p + 1 .. p + n) /\ r[i] = e[w(i)]
  BY <1>1, <1>2
<1>4. \A j \in 1 .. m : ~ (j \in p + 1 .. p + n) => \E i \in 1 .. m - n : w(i) = j
  <2> TAKE j \in 1 .. m
  <2>1. CASE j <= p
    <3>1. j \in 1 .. m - n /\ w(j) = j
      BY <1>1, <2>1
    <3> QED BY <3>1
  <2>2. CASE j > p + n
    <3>1. j - n \in 1 .. m - n /\ w(j - n) = j
      BY <1>1, <2>2
    <3> QED BY <3>1
  <2> QED BY <2>1, <2>2
<1>5. \A i, j \in 1 .. m - n : w(i) = w(j) => i = j
  BY <1>1
<1> HIDE DEF w
<1>6. \A i, j \in 1 .. m : e[i] = e[j] => i = j
  BY DEF Single, m
<1>7. Single(r)
  BY <1>2, <1>3, <1>5, <1>6 DEF Single
<1>8. \A i \in p + 1 .. p + n : i \in 1 .. m
  BY <1>1
<1>9. Members(e) = {e[i] : i \in 1 .. m} /\ Members(r) = {r[i] : i \in 1 .. m - n}
  BY <1>2 DEF Members, m
<1>10. {r[i] : i \in 1 .. m - n} = {e[i] : i \in 1 .. m} \ {e[i] : i \in p + 1 .. p + n}
  <2>1. \A i \in 1 .. m - n : r[i] \in {e[j] : j \in 1 .. m} /\ r[i] \notin {e[j] : j \in p + 1 .. p + n}
    BY <1>3, <1>6, <1>8
  <2>2. \A j \in 1 .. m : e[j] \notin {e[i] : i \in p + 1 .. p + n} => e[j] \in {r[i] : i \in 1 .. m - n}
    BY <1>3, <1>4
  <2> QED BY <2>1, <2>2
<1> QED BY <1>7, <1>8, <1>9, <1>10 DEF r

LEMMA ReplacedMembers ==
  ASSUME NEW e \in Seq(Items), NEW p \in 1 .. Len(e), NEW x \in Items, Single(e), x \notin Members(e)
  PROVE  /\ Members([e EXCEPT ![p] = x]) = (Members(e) \ {e[p]}) \cup {x}
         /\ e[p] \in Members(e) /\ Single([e EXCEPT ![p] = x])
<1> DEFINE r == [e EXCEPT ![p] = x]
<1>1. r \in Seq(Items) /\ Len(r) = Len(e) /\ r[p] = x /\ \A i \in 1 .. Len(e) : i # p => r[i] = e[i]
  OBVIOUS
<1> HIDE DEF r
<1>2. \A i, j \in 1 .. Len(e) : e[i] = e[j] => i = j
  BY DEF Single
<1>3. \A i \in 1 .. Len(e) : e[i] # x
  BY DEF Members
<1>4. Single(r)
  BY <1>1, <1>2, <1>3 DEF Single
<1>5. {r[i] : i \in 1 .. Len(e)} = ({e[i] : i \in 1 .. Len(e)} \ {e[p]}) \cup {x}
  BY <1>1, <1>2
<1> QED BY <1>1, <1>4, <1>5 DEF r, Members

-----------------------------------------------------------------------------
(* List: what every object is in *)

\* No object is in two places, of lists, with the caller and deleted.
Apart(sq, hd, gn) ==
  /\ \A l \in Lists : Single(sq[l])
  /\ \A l, m \in Lists : l # m => Members(sq[l]) \cap Members(sq[m]) = {}
  /\ \A l \in Lists : Members(sq[l]) \cap (hd \cup gn) = {}
  /\ hd \cap gn = {}

\* It stays so when one list changes and gives and takes objects,
LEMMA OneChanges ==
  ASSUME NEW sq, DOMAIN sq = Lists, NEW hd, NEW gn, Apart(sq, hd, gn), NEW l \in Lists, NEW r, NEW hd2, NEW gn2,
         Single(r), Members(r) \cap (hd2 \cup gn2) = {}, hd2 \cap gn2 = {},
         Members(r) \cup hd2 \cup gn2 \subseteq Members(sq[l]) \cup hd \cup gn
  PROVE  Apart([sq EXCEPT ![l] = r], hd2, gn2)
<1> DEFINE z == [sq EXCEPT ![l] = r]
<1>1. z[l] = r /\ \A m \in Lists : m # l => z[m] = sq[m]
  OBVIOUS
<1> HIDE DEF z
<1> DEFINE M == Members(sq[l])
<1>2. \A m \in Lists : m # l => Members(sq[m]) \cap M = {} /\ Members(sq[m]) \cap (hd \cup gn) = {}
  BY DEF Apart
<1> HIDE DEF M
<1>3. \A m \in Lists : m # l => Members(sq[m]) \cap Members(r) = {} /\ Members(sq[m]) \cap (hd2 \cup gn2) = {}
  BY <1>2 DEF M
<1>4. \A m \in Lists : Single(z[m])
  BY <1>1 DEF Apart
<1>5. \A m \in Lists : Members(z[m]) \cap (hd2 \cup gn2) = {}
  BY <1>1, <1>3
<1>6. \A m, k \in Lists : m # k => Members(z[m]) \cap Members(z[k]) = {}
  <2> TAKE m, k \in Lists
  <2> HAVE m # k
  <2>1. CASE m # l /\ k # l
    BY <1>1, <2>1 DEF Apart
  <2>2. CASE m = l \/ k = l
    BY <1>1, <1>3, <2>2
  <2> QED BY <2>1, <2>2
<1> QED BY <1>4, <1>5, <1>6 DEF Apart, z

\* and when one list takes what another one loses.
LEMMA TwoChange ==
  ASSUME NEW sq, DOMAIN sq = Lists, NEW hd, NEW gn, Apart(sq, hd, gn), NEW l \in Lists, NEW m \in Lists, l # m, NEW r,
         Single(r), Members(r) \subseteq Members(sq[l]) \cup Members(sq[m])
  PROVE  Apart([sq EXCEPT ![l] = r, ![m] = <<>>], hd, gn)
<1> DEFINE z == [sq EXCEPT ![l] = r, ![m] = <<>>]
<1>1. z[l] = r /\ z[m] = <<>> /\ \A k \in Lists : k # l /\ k # m => z[k] = sq[k]
  OBVIOUS
<1> HIDE DEF z
<1>2. Members(<<>>) = {} /\ Single(<<>>)
  BY DEF Members, Single
<1>3. \A k \in Lists : k # l /\ k # m => Members(sq[k]) \cap Members(r) = {}
  <2> TAKE k \in Lists
  <2> HAVE k # l /\ k # m
  <2>1. Members(sq[k]) \cap Members(sq[l]) = {} /\ Members(sq[k]) \cap Members(sq[m]) = {}
    BY DEF Apart
  <2> QED BY <2>1
<1>4. Members(r) \cap (hd \cup gn) = {}
  <2>1. Members(sq[l]) \cap (hd \cup gn) = {} /\ Members(sq[m]) \cap (hd \cup gn) = {}
    BY DEF Apart
  <2> QED BY <2>1
<1>5. \A k \in Lists : Single(z[k])
  BY <1>1, <1>2 DEF Apart
<1>6. \A k \in Lists : Members(z[k]) \cap (hd \cup gn) = {}
  BY <1>1, <1>2, <1>4 DEF Apart
<1>7. \A j, k \in Lists : j # k => Members(z[j]) \cap Members(z[k]) = {}
  <2> TAKE j, k \in Lists
  <2> HAVE j # k
  <2>1. CASE j = m \/ k = m
    BY <1>1, <1>2, <2>1
  <2>2. CASE j # m /\ k # m /\ (j = l \/ k = l)
    BY <1>1, <1>3, <2>2
  <2>3. CASE j # m /\ k # m /\ j # l /\ k # l
    BY <1>1, <2>3 DEF Apart
  <2> QED BY <2>1, <2>2, <2>3
<1>8. hd \cap gn = {}
  BY DEF Apart
<1> QED BY <1>5, <1>6, <1>7, <1>8 DEF Apart, z

\* The lists as sequences.
Sqs == [m \in Lists |-> L!Elements(list[m])]

ListInv ==
  /\ owned \in BOOLEAN /\ held \subseteq Items /\ gone \subseteq Items
  /\ list = [l \in Lists |-> list[l]]
  /\ \A l \in Lists : Holds(list[l], Sqs[l]) /\ Len(Sqs[l]) <= MaxLen[l]
  /\ owned => Apart(Sqs, held, gone)

LEMMA SqsAre ==
  ASSUME ListInv, NEW l \in Lists
  PROVE  /\ Sqs[l] = L!Elements(list[l]) /\ Sqs[l] \in Seq(Items) /\ Len(Sqs[l]) \in Nat
         /\ list[l].count = Len(Sqs[l]) /\ DOMAIN Sqs = Lists /\ MaxLen[l] \in Nat
         /\ Holds(list[l], Sqs[l]) /\ Len(Sqs[l]) <= MaxLen[l]
         /\ \A i \in 0 .. Len(Sqs[l]) - 1 : list[l].data[i] = Sqs[l][i + 1] /\ Sqs[l][i + 1] \in Items
<1>1. Holds(list[l], Sqs[l]) /\ Len(Sqs[l]) <= MaxLen[l]
  BY DEF ListInv
<1> DEFINE e == Sqs[l]
           a == list[l]
<1>2. Sqs[l] = L!Elements(list[l]) /\ DOMAIN Sqs = Lists
  BY DEF Sqs
<1>3. MaxLen[l] \in Nat
  BY ListAssumption
<1> HIDE DEF e, a
<1>4. /\ e \in Seq(Items) /\ Len(e) \in Nat /\ a.count = Len(e) /\ a.capacity \in Nat
      /\ Len(e) <= a.capacity /\ a.data = Stored(a.capacity, e)
  BY <1>1, HeldElements DEF e, a
<1>5. \A i \in 0 .. Len(e) - 1 : a.data[i] = e[i + 1] /\ e[i + 1] \in Items
  BY <1>4 DEF Stored
<1> QED BY <1>1, <1>2, <1>3, <1>4, <1>5 DEF e, a

\* What is in places of the storage.
LEMMA AtIs ==
  ASSUME ListInv, NEW l \in Lists, NEW p \in Nat, NEW n \in Nat, p + n <= Len(Sqs[l])
  PROVE  L!At(l, p, n) = {Sqs[l][i] : i \in p + 1 .. p + n}
<1>1. \A i \in 0 .. Len(Sqs[l]) - 1 : list[l].data[i] = Sqs[l][i + 1]
  BY SqsAre
<1>2. Len(Sqs[l]) \in Nat
  BY SqsAre
<1> DEFINE e == Sqs[l]
           d == list[l].data
<1>3. L!At(l, p, n) = {d[i] : i \in p .. p + (n - 1)}
  BY DEF L!At
<1> HIDE DEF e, d
<1>4. \A i \in p .. p + (n - 1) : i + 1 \in p + 1 .. p + n /\ d[i] = e[i + 1]
  BY <1>1, <1>2 DEF e, d
<1>5. \A i \in p + 1 .. p + n : i - 1 \in p .. p + (n - 1) /\ (i - 1) + 1 = i
  OBVIOUS
<1>6. {d[i] : i \in p .. p + (n - 1)} = {e[i] : i \in p + 1 .. p + n}
  <2>1. \A i \in p + 1 .. p + n : i - 1 \in p .. p + (n - 1) /\ d[i - 1] = e[i]
    BY <1>4, <1>5
  <2> DEFINE I == p .. p + (n - 1)
             J == p + 1 .. p + n
             Y == {e[i] : i \in J}
             X == {d[i] : i \in I}
  <2>2. \A i \in I : i + 1 \in J /\ d[i] = e[i + 1]
    BY <1>4
  <2>3. \A i \in J : i - 1 \in I /\ d[i - 1] = e[i]
    BY <2>1
  <2> HIDE DEF I, J
  <2>4. \A i \in I : d[i] \in Y
    BY <2>2
  <2>5. \A i \in J : e[i] \in X
    BY <2>3
  <2> QED BY <2>4, <2>5 DEF I, J
<1> QED BY <1>3, <1>6 DEF e

\* One list changes, or two.
LEMMA ListChanges ==
  ASSUME ListInv, NEW l \in Lists, NEW a, NEW e, Holds(a, e), list' = [list EXCEPT ![l] = a]
  PROVE  /\ list' = [m \in Lists |-> list'[m]] /\ Sqs' = [Sqs EXCEPT ![l] = e]
         /\ Len(e) <= MaxLen[l] => \A m \in Lists : Holds(list'[m], Sqs'[m]) /\ Len(Sqs'[m]) <= MaxLen[m]
<1>1. DOMAIN list = Lists
  BY DEF ListInv
<1>2. list'[l] = a /\ \A m \in Lists : m # l => list'[m] = list[m]
  BY <1>1
<1>3. L!Elements(a) = e
  BY HeldElements
<1>4. Sqs' = [m \in Lists |-> L!Elements(list'[m])]
  BY DEF Sqs, L!Elements
<1>5. \A m \in Lists : Sqs[m] = L!Elements(list[m])
  BY DEF Sqs
<1>6. DOMAIN Sqs = Lists
  BY DEF Sqs
<1>7. Sqs'[l] = e /\ \A m \in Lists : m # l => Sqs'[m] = Sqs[m]
  BY <1>2, <1>3, <1>4, <1>5
<1>8. Sqs' = [Sqs EXCEPT ![l] = e]
  <2>1. Sqs' = [m \in Lists |-> IF m = l THEN e ELSE Sqs[m]]
    BY <1>2, <1>3, <1>4, <1>5
  <2>2. [Sqs EXCEPT ![l] = e] = [m \in DOMAIN Sqs |-> IF m = l THEN e ELSE Sqs[m]]
    OBVIOUS
  <2> QED BY <1>6, <2>1, <2>2
<1>9. list' = [m \in Lists |-> list'[m]]
  BY <1>1
<1>10. ASSUME Len(e) <= MaxLen[l], NEW m \in Lists
       PROVE  Holds(list'[m], Sqs'[m]) /\ Len(Sqs'[m]) <= MaxLen[m]
  <2>1. Holds(list[m], Sqs[m]) /\ Len(Sqs[m]) <= MaxLen[m]
    BY DEF ListInv
  <2> QED BY <1>2, <1>7, <1>10, <2>1
<1> QED BY <1>8, <1>9, <1>10

LEMMA ListsChange ==
  ASSUME ListInv, NEW l \in Lists, NEW k \in Lists, l # k, NEW a, NEW e, Holds(a, e), Len(e) <= MaxLen[l],
         NEW b, Holds(b, <<>>), list' = [list EXCEPT ![l] = a, ![k] = b]
  PROVE  /\ list' = [m \in Lists |-> list'[m]] /\ Sqs' = [Sqs EXCEPT ![l] = e, ![k] = <<>>]
         /\ \A m \in Lists : Holds(list'[m], Sqs'[m]) /\ Len(Sqs'[m]) <= MaxLen[m]
<1>1. DOMAIN list = Lists
  BY DEF ListInv
<1>2. list'[l] = a /\ list'[k] = b /\ \A m \in Lists : m # l /\ m # k => list'[m] = list[m]
  BY <1>1
<1>3. L!Elements(a) = e /\ L!Elements(b) = <<>>
  BY HeldElements
<1>4. Sqs' = [m \in Lists |-> L!Elements(list'[m])]
  BY DEF Sqs, L!Elements
<1>5. \A m \in Lists : Sqs[m] = L!Elements(list[m])
  BY DEF Sqs
<1>6. DOMAIN Sqs = Lists
  BY DEF Sqs
<1>7. Sqs'[l] = e /\ Sqs'[k] = <<>> /\ \A m \in Lists : m # l /\ m # k => Sqs'[m] = Sqs[m]
  BY <1>2, <1>3, <1>4, <1>5
<1> DEFINE z == [Sqs EXCEPT ![l] = e, ![k] = <<>>]
<1>8. Sqs' = z
  <2>1. DOMAIN Sqs' = Lists /\ Sqs' = [m \in Lists |-> Sqs'[m]]
    <3> DEFINE t == Sqs'
    <3>1. t = [m \in Lists |-> L!Elements(list'[m])]
      BY <1>4
    <3> HIDE DEF t
    <3>2. DOMAIN t = Lists /\ t = [m \in Lists |-> t[m]]
      BY <3>1
    <3> QED BY <3>2 DEF t
  <2>2. z = [m \in Lists |-> z[m]] /\ z[l] = e /\ z[k] = <<>> /\ \A m \in Lists : m # l /\ m # k => z[m] = Sqs[m]
    BY <1>6
  <2> HIDE DEF z
  <2>3. \A m \in Lists : Sqs'[m] = z[m]
    BY <1>7, <2>2
  <2> QED BY <2>1, <2>2, <2>3
<1>9. list' = [m \in Lists |-> list'[m]]
  BY <1>1
<1>10. ASSUME NEW m \in Lists
       PROVE  Holds(list'[m], Sqs'[m]) /\ Len(Sqs'[m]) <= MaxLen[m]
  <2>1. Holds(list[m], Sqs[m]) /\ Len(Sqs[m]) <= MaxLen[m]
    BY DEF ListInv
  <2>2. Len(<<>>) <= MaxLen[k]
    BY ListAssumption
  <2> QED BY <1>2, <1>7, <2>1, <2>2
<1> QED BY <1>8, <1>9, <1>10

\* Every operation keeps the invariant and is one of a sequence.
LEMMA ListInsert ==
  ASSUME ListInv, NEW l \in Lists, NEW p \in 0 .. list[l].count, NEW x \in Items, L!InsertItem(l, p, x)
  PROVE  ListInv' /\ L!Seqs!Insert(l, p, x)
<1> DEFINE e == Sqs[l]
           sx == <<x>>
           r == L!Seqs!InsertedAt(e, p, sx)
           a == L!Inserted(list[l], p, sx)
<1>1. /\ e \in Seq(Items) /\ Len(e) \in Nat /\ p \in 0 .. Len(e) /\ Holds(list[l], e) /\ list[l].count = Len(e)
      /\ DOMAIN Sqs = Lists
  BY SqsAre
<1>2. sx \in Seq(Items) /\ Len(sx) = 1 /\ Members(sx) = {x} /\ Single(sx)
  BY DEF Members, Single
<1>3. list' = [list EXCEPT ![l] = a] /\ owned' = owned /\ gone' = gone /\ Len(e) + 1 <= MaxLen[l]
      /\ held' = (IF owned THEN held \ {x} ELSE held) /\ (owned => x \in held)
  BY <1>1 DEF L!InsertItem, L!Fits, L!Set, L!Give, L!MayGive
<1>8. L!Seqs!InsertedAt(Sqs[l], p, <<x>>) = r
  OBVIOUS
<1> HIDE DEF sx
<1>4. Holds(a, r)
  BY <1>1, <1>2, InsertedHolds
<1>5. Len(r) = Len(e) + 1
  BY <1>1, <1>2, InsertedAtIs, ZenonT(60)
<1>6. Members(r) = Members(e) \cup {x} /\ (Single(e) /\ x \notin Members(e) => Single(r))
  BY <1>1, <1>2, InsertedMembers
<1> HIDE DEF a, r
<1>7. list' = [m \in Lists |-> list'[m]] /\ Sqs' = [Sqs EXCEPT ![l] = r]
      /\ \A m \in Lists : Holds(list'[m], Sqs'[m]) /\ Len(Sqs'[m]) <= MaxLen[m]
  <2>1. Len(r) <= MaxLen[l]
    BY <1>3, <1>5
  <2>2. list' = [list EXCEPT ![l] = a]
    BY <1>3
  <2> HIDE DEF e
  <2> QED BY <1>4, <2>1, <2>2, ListChanges
<1>9. owned => Apart(Sqs', held', gone')
  <2> SUFFICES ASSUME owned PROVE Apart(Sqs', held', gone')
    OBVIOUS
  <2>1. Apart(Sqs, held, gone) /\ x \in held
    BY <1>3 DEF ListInv
  <2>2. Single(e) /\ Members(e) \cap (held \cup gone) = {} /\ held \cap gone = {}
    BY <2>1 DEF Apart
  <2> HIDE DEF e
  <2>3. /\ Single(r) /\ Members(r) \cap (held' \cup gone') = {} /\ held' \cap gone' = {}
        /\ Members(r) \cup held' \cup gone' \subseteq Members(e) \cup held \cup gone
    BY <1>3, <1>6, <2>1, <2>2
  <2> QED BY <1>1, <1>7, <2>1, <2>3, OneChanges DEF e
<1>10. ListInv'
  BY <1>3, <1>7, <1>9 DEF ListInv
<1>11. L!Seqs!Insert(l, p, x)
  BY <1>3, <1>7, <1>8 DEF L!Seqs!Insert, L!Seqs!Give, Sqs
<1> QED BY <1>10, <1>11

LEMMA ListReplace ==
  ASSUME ListInv, NEW l \in Lists, NEW p \in 0 .. list[l].count - 1, NEW x \in Items, L!ReplaceItem(l, p, x)
  PROVE  ListInv' /\ L!Seqs!Replace(l, p + 1, x)
<1> DEFINE e == Sqs[l]
           r == [e EXCEPT ![p + 1] = x]
           a == [list[l] EXCEPT !.data = L!Construct(L!Destroy(@, p, 1), p, <<x>>)]
<1>1. /\ e \in Seq(Items) /\ Len(e) \in Nat /\ p \in 0 .. Len(e) - 1 /\ Holds(list[l], e) /\ Len(e) <= MaxLen[l]
      /\ DOMAIN Sqs = Lists /\ p + 1 \in 1 .. Len(e)
  BY SqsAre
<1>2. L!At(l, p, 1) = {e[p + 1]}
  <2>1. p \in Nat /\ 1 \in Nat /\ p + 1 <= Len(Sqs[l])
    BY <1>1
  <2>2. L!At(l, p, 1) = {Sqs[l][i] : i \in p + 1 .. p + 1}
    BY <2>1, AtIs
  <2>3. p + 1 .. p + 1 = {p + 1}
    BY <1>1
  <2> QED BY <2>2, <2>3
<1>3. list' = [list EXCEPT ![l] = a] /\ owned' = owned /\ (owned => x \in held)
      /\ held' = (IF owned THEN held \ {x} ELSE held) /\ gone' = (IF owned THEN gone \cup {e[p + 1]} ELSE gone)
  BY <1>2 DEF L!ReplaceItem, L!Set, L!Give, L!MayGive, L!Delete
<1>4. Holds(a, r)
  BY <1>1, ReplacedHolds
<1>5. Len(r) = Len(e) /\ e[p + 1] \in Items
  BY <1>1
<1>6. Single(e) /\ x \notin Members(e) =>
        Members(r) = (Members(e) \ {e[p + 1]}) \cup {x} /\ e[p + 1] \in Members(e) /\ Single(r)
  BY <1>1, ReplacedMembers
<1>7. list' = [m \in Lists |-> list'[m]] /\ Sqs' = [Sqs EXCEPT ![l] = r]
      /\ \A m \in Lists : Holds(list'[m], Sqs'[m]) /\ Len(Sqs'[m]) <= MaxLen[m]
  <2>1. Len(r) <= MaxLen[l]
    BY <1>1, <1>5
  <2> HIDE DEF r, a, e
  <2> QED BY <1>3, <1>4, <2>1, ListChanges
<1>8. owned => Apart(Sqs', held', gone')
  <2> SUFFICES ASSUME owned PROVE Apart(Sqs', held', gone')
    OBVIOUS
  <2>1. Apart(Sqs, held, gone) /\ x \in held
    BY <1>3 DEF ListInv
  <2>2. Single(e) /\ Members(e) \cap (held \cup gone) = {} /\ held \cap gone = {}
    BY <2>1 DEF Apart
  <2> HIDE DEF e, r
  <2>3. /\ Single(r) /\ Members(r) \cap (held' \cup gone') = {} /\ held' \cap gone' = {}
        /\ Members(r) \cup held' \cup gone' \subseteq Members(e) \cup held \cup gone
    <3>1. x \notin Members(e)
      BY <2>1, <2>2
    <3> QED BY <1>3, <1>6, <2>1, <2>2, <3>1
  <2> QED BY <1>1, <1>7, <2>1, <2>3, OneChanges DEF e
<1>9. ListInv'
  <2> HIDE DEF e, r, a
  <2> QED BY <1>3, <1>5, <1>7, <1>8 DEF ListInv
<1>10. L!Seqs!Replace(l, p + 1, x)
  <2>1. [Sqs EXCEPT ![l] = r] = [Sqs EXCEPT ![l][p + 1] = x]
    OBVIOUS
  <2> HIDE DEF r
  <2>2. Sqs' = [Sqs EXCEPT ![l][p + 1] = x]
    BY <1>7, <2>1
  <2> QED BY <1>3, <2>2 DEF L!Seqs!Replace, L!Seqs!Give, L!Seqs!Delete, Sqs
<1> QED BY <1>9, <1>10

LEMMA ListCut ==
  ASSUME ListInv, NEW l \in Lists, NEW p \in Nat, NEW n \in Nat, L!RemoveRange(l, p, n)
  PROVE  ListInv' /\ L!Seqs!RemoveRange(l, p, n) /\ p \in 0 .. Len(Sqs[l]) /\ n \in 1 .. Len(Sqs[l]) - p
<1> DEFINE e == Sqs[l]
           r == L!Seqs!Cut(e, p, n)
           a == L!Removed(list[l], p, n)
           CutOff == {e[i] : i \in p + 1 .. p + n}
<1>1. /\ e \in Seq(Items) /\ Len(e) \in Nat /\ Holds(list[l], e) /\ Len(e) <= MaxLen[l]
      /\ DOMAIN Sqs = Lists /\ list[l].count = Len(e)
  BY SqsAre
<1>2. n > 0 /\ p + n <= Len(e)
  BY <1>1 DEF L!RemoveRange
<1>3. L!At(l, p, n) = CutOff
  BY <1>2, AtIs
<1>4. list' = [list EXCEPT ![l] = a] /\ owned' = owned /\ held' = held
      /\ gone' = (IF owned THEN gone \cup CutOff ELSE gone)
  BY <1>3 DEF L!RemoveRange, L!Set, L!Delete
<1>5. Holds(a, r)
  BY <1>1, <1>2, RemovedHolds
<1>6. Len(r) = Len(e) - n
  BY <1>1, <1>2, CutIs
<1>7. Single(e) => Members(r) = Members(e) \ CutOff /\ CutOff \subseteq Members(e) /\ Single(r)
  BY <1>1, <1>2, CutMembers
<1>8. CutOff \subseteq Items
  <2>1. \A i \in p + 1 .. p + n : i \in 1 .. Len(e)
    BY <1>2
  <2> QED BY <1>1, <2>1
<1> HIDE DEF a, CutOff
<1>9. list' = [m \in Lists |-> list'[m]] /\ Sqs' = [Sqs EXCEPT ![l] = r]
      /\ \A m \in Lists : Holds(list'[m], Sqs'[m]) /\ Len(Sqs'[m]) <= MaxLen[m]
  <2>1. Len(r) <= MaxLen[l]
    <3>1. MaxLen[l] \in Nat
      BY SqsAre
    <3> QED BY <1>1, <1>2, <1>6, <3>1
  <2> HIDE DEF r, e
  <2> QED BY <1>4, <1>5, <2>1, ListChanges
<1>10. owned => Apart(Sqs', held', gone')
  <2> SUFFICES ASSUME owned PROVE Apart(Sqs', held', gone')
    OBVIOUS
  <2>1. Apart(Sqs, held, gone)
    BY DEF ListInv
  <2>2. Single(e) /\ Members(e) \cap (held \cup gone) = {} /\ held \cap gone = {}
    BY <2>1 DEF Apart
  <2> HIDE DEF e, r
  <2>3. /\ Single(r) /\ Members(r) \cap (held' \cup gone') = {} /\ held' \cap gone' = {}
        /\ Members(r) \cup held' \cup gone' \subseteq Members(e) \cup held \cup gone
    BY <1>4, <1>7, <2>2
  <2> QED BY <1>1, <1>9, <2>1, <2>3, OneChanges DEF e
<1>11. ListInv'
  <2> HIDE DEF e, r
  <2> QED BY <1>4, <1>8, <1>9, <1>10 DEF ListInv
<1>12. L!Seqs!RemoveRange(l, p, n)
  BY <1>4, <1>9 DEF L!Seqs!RemoveRange, L!Seqs!Delete, Sqs, CutOff
<1>13. p \in 0 .. Len(e) /\ n \in 1 .. Len(e) - p
  BY <1>1, <1>2
<1> QED BY <1>11, <1>12, <1>13

LEMMA ListDetach ==
  ASSUME ListInv, NEW l \in Lists, NEW p \in 0 .. list[l].count - 1, L!DetachAt(l, p)
  PROVE  ListInv' /\ L!Seqs!Detach(l, p) /\ p \in 0 .. Len(Sqs[l]) /\ p < Len(Sqs[l])
<1> DEFINE e == Sqs[l]
           r == L!Seqs!Cut(e, p, 1)
           a == L!Removed(list[l], p, 1)
           x == e[p + 1]
<1>1. /\ e \in Seq(Items) /\ Len(e) \in Nat /\ Holds(list[l], e) /\ Len(e) <= MaxLen[l]
      /\ DOMAIN Sqs = Lists /\ list[l].count = Len(e)
  BY SqsAre
<1>2. p \in Nat /\ 1 \in Nat /\ p + 1 <= Len(e) /\ p + 1 .. p + 1 = {p + 1} /\ p + 1 \in 1 .. Len(e)
  BY <1>1
<1>3. L!At(l, p, 1) = {x} /\ {e[i] : i \in p + 1 .. p + 1} = {x}
  <2>1. L!At(l, p, 1) = {e[i] : i \in p + 1 .. p + 1}
    BY <1>2, AtIs
  <2> QED BY <1>2, <2>1
<1>4. list' = [list EXCEPT ![l] = a] /\ owned' = owned /\ gone' = gone
      /\ held' = (IF owned THEN held \cup {x} ELSE held)
  BY <1>3 DEF L!DetachAt, L!Set, L!Get
<1>5. Holds(a, r)
  BY <1>1, <1>2, RemovedHolds
<1>6. Len(r) = Len(e) - 1 /\ x \in Items
  BY <1>1, <1>2, CutIs
<1>7. Single(e) => Members(r) = Members(e) \ {x} /\ x \in Members(e) /\ Single(r)
  <2> SUFFICES ASSUME Single(e) PROVE Members(r) = Members(e) \ {x} /\ x \in Members(e) /\ Single(r)
    OBVIOUS
  <2>1. /\ Members(r) = Members(e) \ {e[i] : i \in p + 1 .. p + 1}
        /\ {e[i] : i \in p + 1 .. p + 1} \subseteq Members(e) /\ Single(r)
    BY <1>1, <1>2, CutMembers
  <2> HIDE DEF r, x
  <2> QED BY <1>3, <2>1
<1> HIDE DEF a
<1>8. list' = [m \in Lists |-> list'[m]] /\ Sqs' = [Sqs EXCEPT ![l] = r]
      /\ \A m \in Lists : Holds(list'[m], Sqs'[m]) /\ Len(Sqs'[m]) <= MaxLen[m]
  <2>1. Len(r) <= MaxLen[l]
    <3>1. MaxLen[l] \in Nat
      BY SqsAre
    <3> QED BY <1>1, <1>2, <1>6, <3>1
  <2> HIDE DEF r, e
  <2> QED BY <1>4, <1>5, <2>1, ListChanges
<1>9. owned => Apart(Sqs', held', gone')
  <2> SUFFICES ASSUME owned PROVE Apart(Sqs', held', gone')
    OBVIOUS
  <2>1. Apart(Sqs, held, gone)
    BY DEF ListInv
  <2>2. Single(e) /\ Members(e) \cap (held \cup gone) = {} /\ held \cap gone = {}
    BY <2>1 DEF Apart
  <2> HIDE DEF e, r, x
  <2>3. /\ Single(r) /\ Members(r) \cap (held' \cup gone') = {} /\ held' \cap gone' = {}
        /\ Members(r) \cup held' \cup gone' \subseteq Members(e) \cup held \cup gone
    BY <1>4, <1>7, <2>2
  <2> QED BY <1>1, <1>8, <2>1, <2>3, OneChanges DEF e
<1>10. ListInv'
  <2> HIDE DEF e, r, x
  <2> QED BY <1>4, <1>6, <1>8, <1>9 DEF ListInv
<1>11. L!Seqs!Detach(l, p)
  BY <1>4, <1>8 DEF L!Seqs!Detach, L!Seqs!Take, Sqs
<1>12. p \in 0 .. Len(e) /\ p < Len(e)
  BY <1>1, <1>2
<1> QED BY <1>10, <1>11, <1>12

LEMMA ListDetachAll ==
  ASSUME ListInv, NEW l \in Lists, L!DetachAll(l)
  PROVE  ListInv' /\ L!Seqs!DetachAll(l)
<1> DEFINE e == Sqs[l]
           a == [list[l] EXCEPT !.count = 0, !.data = L!Destroy(@, 0, Len(e))]
<1>1. /\ e \in Seq(Items) /\ Len(e) \in Nat /\ Holds(list[l], e) /\ Len(e) <= MaxLen[l]
      /\ DOMAIN Sqs = Lists /\ list[l].count = Len(e)
  BY SqsAre
<1>2. L!At(l, 0, Len(e)) = Members(e)
  <2>1. 0 \in Nat /\ Len(e) \in Nat /\ 0 + Len(e) <= Len(e) /\ 0 + 1 .. 0 + Len(e) = 1 .. Len(e)
    BY <1>1
  <2>2. L!At(l, 0, Len(e)) = {e[i] : i \in 0 + 1 .. 0 + Len(e)}
    BY <2>1, AtIs
  <2> QED BY <2>1, <2>2 DEF Members
<1>3. list' = [list EXCEPT ![l] = a] /\ owned' = owned /\ gone' = gone
      /\ held' = (IF owned THEN held \cup Members(e) ELSE held)
  BY <1>1, <1>2 DEF L!DetachAll, L!Set, L!Get
<1>4. Holds(a, <<>>)
  BY <1>1, EmptiedHolds
<1>5. Members(<<>>) = {} /\ Single(<<>>) /\ Len(<<>>) = 0
  BY DEF Members, Single
<1>6. Members(e) \subseteq Items /\ Range(e) = Members(e)
  BY <1>1 DEF Members, L!Seqs!Range, Range
<1> HIDE DEF a
<1>7. list' = [m \in Lists |-> list'[m]] /\ Sqs' = [Sqs EXCEPT ![l] = <<>>]
      /\ \A m \in Lists : Holds(list'[m], Sqs'[m]) /\ Len(Sqs'[m]) <= MaxLen[m]
  <2>1. Len(<<>>) <= MaxLen[l]
    <3>1. MaxLen[l] \in Nat
      BY SqsAre
    <3> QED BY <1>5, <3>1
  <2> HIDE DEF e
  <2> QED BY <1>3, <1>4, <2>1, ListChanges
<1>8. owned => Apart(Sqs', held', gone')
  <2> SUFFICES ASSUME owned PROVE Apart(Sqs', held', gone')
    OBVIOUS
  <2>1. Apart(Sqs, held, gone)
    BY DEF ListInv
  <2>2. Single(e) /\ Members(e) \cap (held \cup gone) = {} /\ held \cap gone = {}
    BY <2>1 DEF Apart
  <2> HIDE DEF e
  <2>3. /\ Members(<<>>) \cap (held' \cup gone') = {} /\ held' \cap gone' = {}
        /\ Members(<<>>) \cup held' \cup gone' \subseteq Members(e) \cup held \cup gone
    BY <1>3, <1>5, <2>2
  <2> QED BY <1>1, <1>5, <1>7, <2>1, <2>3, OneChanges DEF e
<1>9. ListInv'
  <2> HIDE DEF e
  <2> QED BY <1>3, <1>6, <1>7, <1>8 DEF ListInv
<1>10. L!Seqs!DetachAll(l)
  BY <1>3, <1>6, <1>7 DEF L!Seqs!DetachAll, L!Seqs!Take, L!Seqs!Range, Range, Sqs
<1> QED BY <1>9, <1>10

LEMMA ListTake ==
  ASSUME ListInv, NEW l \in Lists, NEW m \in Lists, NEW p \in 0 .. list[l].count, L!TakeRange(l, p, m)
  PROVE  ListInv' /\ L!Seqs!Transfer(l, p, m) /\ l # m
<1> DEFINE e == Sqs[l]
           s == Sqs[m]
           r == L!Seqs!InsertedAt(e, p, s)
           n == Len(s)
           room == L!SetCapacity(list[l], Len(e) + n)
           moved == L!Construct(L!MemMove(room.data, p + n, p, Len(e) - p), p, s)
           a == [room EXCEPT !.count = @ + n, !.data = moved]
           b == [list[m] EXCEPT !.count = 0, !.data = L!Destroy(@, 0, n)]
<1>1. /\ e \in Seq(Items) /\ Len(e) \in Nat /\ Holds(list[l], e) /\ list[l].count = Len(e)
      /\ s \in Seq(Items) /\ n \in Nat /\ Holds(list[m], s) /\ list[m].count = n /\ L!Elements(list[m]) = s
      /\ DOMAIN Sqs = Lists /\ p \in 0 .. Len(e)
  BY SqsAre
<1>2. /\ list' = [list EXCEPT ![l] = a, ![m] = b]
      /\ l # m /\ Len(e) + n <= MaxLen[l] /\ UNCHANGED <<owned, held, gone>>
  BY <1>1 DEF L!TakeRange, L!Fits
<1>3. list' = [list EXCEPT ![l] = a, ![m] = b]
  BY <1>2
<1>12. l # m
  BY <1>2
<1>4. Holds(a, r)
  <2> DEFINE k == room.capacity
             st == Stored(k, e)
             y == [room EXCEPT !.count = @ + n]
             v == L!Construct(L!MemMove(st, p + n, p, Len(e) - p), p, s)
  <2>1. Holds(room, e) /\ k >= Len(e) + n
    <3>1. Len(e) + n \in Nat
      BY <1>1
    <3> QED BY <1>1, <3>1, RoomHolds
  <2>2. k \in Nat /\ room = [count |-> Len(e), capacity |-> k, data |-> st] /\ room.data = st /\ room.count = Len(e)
    <3> HIDE DEF room, e
    <3> QED BY <2>1, HeldElements
  <2>3. moved = v
    BY <2>2
  <2> HIDE DEF room, st, moved, v, k, e, n, s
  <2>4. y = [count |-> Len(e) + n, capacity |-> k, data |-> st]
    BY <2>2
  <2> HIDE DEF y
  <2>5. [y EXCEPT !.data = moved] = [count |-> Len(e) + n, capacity |-> k, data |-> v]
    BY <2>3, <2>4
  <2>6. a = [y EXCEPT !.data = moved]
    BY DEF y
  <2>7. Holds([count |-> Len(e) + n, capacity |-> k, data |-> v], r)
    BY <1>1, <2>1, <2>2, InsertHolds DEF v, st, n
  <2> QED BY <2>5, <2>6, <2>7
<1>5. Holds(b, <<>>)
  BY <1>1, EmptiedHolds
<1> HIDE DEF a, b
<1>6. Len(r) = Len(e) + n
  BY <1>1, InsertedAtIs
<1>7. /\ Members(r) = Members(e) \cup Members(s)
      /\ Single(e) /\ Single(s) /\ Members(e) \cap Members(s) = {} => Single(r)
  BY <1>1, InsertedMembers
<1>8. list' = [k \in Lists |-> list'[k]] /\ Sqs' = [Sqs EXCEPT ![l] = r, ![m] = <<>>]
      /\ \A k \in Lists : Holds(list'[k], Sqs'[k]) /\ Len(Sqs'[k]) <= MaxLen[k]
  <2>1. Len(r) <= MaxLen[l]
    BY <1>2, <1>6
  <2> HIDE DEF r
  <2> QED BY <1>3, <1>4, <1>5, <1>12, <2>1, ListsChange
<1>9. owned => Apart(Sqs', held', gone')
  <2> SUFFICES ASSUME owned PROVE Apart(Sqs', held', gone')
    OBVIOUS
  <2>1. Apart(Sqs, held, gone)
    BY DEF ListInv
  <2>2. Single(e) /\ Single(s) /\ Members(e) \cap Members(s) = {}
    BY <1>2, <2>1 DEF Apart
  <2> HIDE DEF e, s, r
  <2>3. Single(r) /\ Members(r) \subseteq Members(e) \cup Members(s)
    BY <1>7, <2>2
  <2> QED BY <1>1, <1>2, <1>8, <2>1, <2>3, TwoChange DEF e, s
<1>10. ListInv'
  <2> HIDE DEF r
  <2> QED BY <1>2, <1>8, <1>9 DEF ListInv
<1>11. L!Seqs!Transfer(l, p, m)
  BY <1>2, <1>8 DEF L!Seqs!Transfer, Sqs
<1> QED BY <1>2, <1>10, <1>11

LEMMA ListAssign ==
  ASSUME ListInv, NEW l \in Lists, NEW m \in Lists, L!MoveAssign(l, m)
  PROVE  ListInv' /\ L!Seqs!Assign(l, m) /\ l # m
<1> DEFINE s == Sqs[m]
<1>1. s \in Seq(Items) /\ Holds(list[m], s) /\ list[m].count = Len(s) /\ DOMAIN Sqs = Lists
  BY SqsAre
<1>2. list' = [list EXCEPT ![l] = list[m], ![m] = L!NoData] /\ l # m /\ Len(s) <= MaxLen[l]
      /\ UNCHANGED <<owned, held, gone>>
  BY <1>1 DEF L!MoveAssign
<1>3. list' = [k \in Lists |-> list'[k]] /\ Sqs' = [Sqs EXCEPT ![l] = s, ![m] = <<>>]
      /\ \A k \in Lists : Holds(list'[k], Sqs'[k]) /\ Len(Sqs'[k]) <= MaxLen[k]
  BY <1>1, <1>2, EmptyHolds, ListsChange
<1>4. owned => Apart(Sqs', held', gone')
  <2> SUFFICES ASSUME owned PROVE Apart(Sqs', held', gone')
    OBVIOUS
  <2>1. Apart(Sqs, held, gone)
    BY DEF ListInv
  <2>2. Single(s)
    BY <2>1 DEF Apart
  <2> QED BY <1>1, <1>2, <1>3, <2>1, <2>2, TwoChange
<1>5. ListInv'
  <2> HIDE DEF s
  <2> QED BY <1>2, <1>3, <1>4 DEF ListInv
<1>6. L!Seqs!Assign(l, m)
  BY <1>2, <1>3 DEF L!Seqs!Assign, Sqs
<1> QED BY <1>2, <1>5, <1>6

\* The storage of a list changes and its elements do not.
LEMMA ListStays ==
  ASSUME ListInv, NEW l \in Lists, NEW a, Holds(a, Sqs[l]), list' = [list EXCEPT ![l] = a],
         UNCHANGED <<owned, held, gone>>
  PROVE  ListInv' /\ UNCHANGED L!Seqs!vars
<1> DEFINE e == Sqs[l]
<1>1. Len(e) <= MaxLen[l] /\ DOMAIN Sqs = Lists /\ Sqs = [m \in Lists |-> Sqs[m]]
  BY SqsAre DEF Sqs
<1>2. list' = [m \in Lists |-> list'[m]] /\ Sqs' = [Sqs EXCEPT ![l] = e]
      /\ \A m \in Lists : Holds(list'[m], Sqs'[m]) /\ Len(Sqs'[m]) <= MaxLen[m]
  <2> HIDE DEF e
  <2> QED BY <1>1, ListChanges, ZenonT(60) DEF e
<1>3. Sqs' = Sqs
  BY <1>1, <1>2
<1>4. ListInv'
  BY <1>2, <1>3 DEF ListInv
<1> QED BY <1>3, <1>4 DEF L!Seqs!vars, Sqs

LEMMA ListStorage ==
  ASSUME ListInv, NEW l \in Lists, L!Reserve(l) \/ L!Trim(l)
  PROVE  ListInv' /\ UNCHANGED L!Seqs!vars
<1>1. Holds(list[l], Sqs[l])
  BY SqsAre
<1>2. CASE L!Reserve(l)
  <2>1. list' = [list EXCEPT ![l] = L!SetCapacity(list[l], 1)] /\ UNCHANGED <<owned, held, gone>>
    BY <1>2 DEF L!Reserve, L!Set
  <2>2. Holds(L!SetCapacity(list[l], 1), Sqs[l])
    BY <1>1, RoomHolds
  <2> QED BY <2>1, <2>2, ListStays
<1>3. CASE L!Trim(l)
  <2>1. list' = [list EXCEPT ![l] = L!FreeExtra(list[l])] /\ UNCHANGED <<owned, held, gone>>
    BY <1>3 DEF L!Trim, L!Set
  <2>2. Holds(L!FreeExtra(list[l]), Sqs[l])
    BY <1>1, TrimHolds
  <2> QED BY <2>1, <2>2, ListStays
<1> QED BY <1>2, <1>3

\* IndexOf returns a place, or none.
LEMMA IndexOfIs ==
  ASSUME NEW a, a.count \in Nat, NEW x
  PROVE  /\ L!IndexOf(a, x, -1) \in -1 .. a.count - 1
         /\ L!IndexOf(a, x, -1) >= 0 => /\ a.data[L!IndexOf(a, x, -1)] = x
                                        /\ \A j \in 0 .. L!IndexOf(a, x, -1) - 1 : a.data[j] # x
         /\ L!IndexOf(a, x, -1) = -1 => \A j \in 0 .. a.count - 1 : a.data[j] # x
<1> DEFINE T == {i \in 0 .. a.count - 1 : a.data[i] = x}
           r == L!IndexOf(a, x, -1)
<1>1. -1 + 1 = 0
  OBVIOUS
<1>2. r = IF T = {} THEN -1 ELSE CHOOSE i \in T : \A j \in T : i <= j
  BY <1>1 DEF L!IndexOf
<1>3. T \subseteq Nat
  OBVIOUS
<1>4. CASE T = {}
  <2>1. r = -1 /\ \A j \in 0 .. a.count - 1 : a.data[j] # x
    BY <1>2, <1>4
  <2> HIDE DEF r
  <2> QED BY <2>1 DEF r
<1>5. CASE T # {}
  <2>1. \E i \in T : \A j \in T : i <= j
    <3> HIDE DEF T
    <3> QED BY <1>3, <1>5, Least
  <2>2. r \in T /\ \A j \in T : r <= j
    <3> HIDE DEF T
    <3> QED BY <1>2, <1>5, <2>1
  <2> HIDE DEF r
  <2>3. r \in 0 .. a.count - 1 /\ a.data[r] = x
    BY <2>2
  <2>4. \A j \in 0 .. r - 1 : a.data[j] # x
    BY <2>2, <2>3
  <2> QED BY <2>3, <2>4 DEF r
<1> QED BY <1>4, <1>5

LEMMA ListRemoveValue ==
  ASSUME ListInv, NEW l \in Lists, NEW x \in Items, L!RemoveValue(l, x)
  PROVE  /\ ListInv'
         /\ \E p \in 0 .. Len(Sqs[l]) : \E n \in 1 .. Len(Sqs[l]) - p : L!Seqs!RemoveRange(l, p, n)
<1> DEFINE p == L!IndexOf(list[l], x, -1)
<1>1. list[l].count \in Nat
  BY SqsAre
<1>2. p \in -1 .. list[l].count - 1
  BY <1>1, IndexOfIs
<1>3. p >= 0 /\ L!RemoveRange(l, p, 1)
  BY DEF L!RemoveValue
<1> HIDE DEF p
<1>4. p \in Nat /\ 1 \in Nat
  BY <1>1, <1>2, <1>3
<1> QED BY <1>3, <1>4, ListCut

\* A list of plain values changes.
LEMMA ValuesChange ==
  ASSUME ListInv, ~owned, NEW l \in Lists, NEW a, NEW e, Holds(a, e), Len(e) <= MaxLen[l],
         list' = [list EXCEPT ![l] = a], UNCHANGED <<owned, held, gone>>
  PROVE  ListInv' /\ Sqs' = [Sqs EXCEPT ![l] = e]
<1>1. list' = [m \in Lists |-> list'[m]] /\ Sqs' = [Sqs EXCEPT ![l] = e]
      /\ \A m \in Lists : Holds(list'[m], Sqs'[m]) /\ Len(Sqs'[m]) <= MaxLen[m]
  BY ListChanges
<1> QED BY <1>1 DEF ListInv

LEMMA ListSort ==
  ASSUME ListInv, ~owned, NEW l \in Lists, L!Sort(l), UNCHANGED <<held, gone>>
  PROVE  ListInv' /\ L!Seqs!Reorder(l)
<1> DEFINE e == Sqs[l]
           n == Len(e)
<1>1. e \in Seq(Items) /\ n \in Nat /\ Holds(list[l], e) /\ n <= MaxLen[l] /\ L!Elements(list[l]) = e
      /\ DOMAIN Sqs = Lists /\ DOMAIN e = 1 .. n
  BY SqsAre
<1>2. PICK p \in L!Bijection(DOMAIN e, DOMAIN e) :
        /\ L!Ordered([i \in DOMAIN e |-> e[p[i]]])
        /\ L!Set(l, [list[l] EXCEPT !.data = L!Construct(@, 0, [i \in DOMAIN e |-> e[p[i]]])])
  BY <1>1 DEF L!Sort
<1> DEFINE t == [i \in 1 .. n |-> e[p[i]]]
           a == [list[l] EXCEPT !.data = L!Construct(@, 0, t)]
<1>3. p \in [1 .. n -> 1 .. n] /\ p \in L!Seqs!Bijection(1 .. n, 1 .. n)
  BY <1>1, <1>2 DEF L!Bijection, L!Injection, L!Surjection, L!IsInjective, L!Seqs!Bijection, L!Seqs!Injection, L!Seqs!Surjection, L!Seqs!IsInjective
<1>4. t \in Seq(Items) /\ Len(t) = n
  <2>1. \A i \in 1 .. n : e[p[i]] \in Items
    BY <1>1, <1>3
  <2> HIDE DEF n
  <2> QED BY <1>1, <2>1
<1>5. L!Ordered(t) /\ list' = [list EXCEPT ![l] = a] /\ UNCHANGED owned
  BY <1>1, <1>2 DEF L!Set
<1>6. Holds(a, t)
  <2> HIDE DEF t
  <2> QED BY <1>1, <1>4, RewrittenHolds
<1>7. ListInv' /\ Sqs' = [Sqs EXCEPT ![l] = t]
  <2> HIDE DEF t, a, e
  <2> QED BY <1>1, <1>4, <1>5, <1>6, ValuesChange
<1>8. Sqs'[l] = t
  BY <1>1, <1>7
<1>9. L!Seqs!Ordered(Sqs'[l])
  BY <1>5, <1>8 DEF L!Ordered, L!Seqs!Ordered
<1>10. L!Seqs!Places(l) = 1 .. n
  BY DEF L!Seqs!Places, Sqs
<1>11. /\ p \in L!Seqs!Bijection(L!Seqs!Places(l), L!Seqs!Places(l))
       /\ Sqs' = [Sqs EXCEPT ![l] = [i \in L!Seqs!Places(l) |-> Sqs[l][p[i]]]]
  BY <1>3, <1>7, <1>10
<1>12. L!Seqs!Reorder(l)
  BY <1>9, <1>11 DEF L!Seqs!Reorder, Sqs
<1> QED BY <1>7, <1>12

LEMMA ListMoves ==
  ASSUME ListInv, ~owned, NEW l \in Lists, NEW i \in 0 .. list[l].count - 1, NEW j \in 0 .. list[l].count - 1, i # j,
         L!Set(l, L!Swapped(list[l], i, j)) \/ L!Set(l, L!Relocated(list[l], i, j)), UNCHANGED <<held, gone>>
  PROVE  ListInv' /\ L!Seqs!Reorder(l)
<1> DEFINE e == Sqs[l]
<1>1. e \in Seq(Items) /\ Len(e) \in Nat /\ Holds(list[l], e) /\ Len(e) <= MaxLen[l] /\ DOMAIN Sqs = Lists
      /\ list[l].count = Len(e)
  BY SqsAre
<1>2. i + 1 \in 1 .. Len(e) /\ j + 1 \in 1 .. Len(e) /\ L!Seqs!Places(l) = 1 .. Len(e)
  BY <1>1 DEF L!Seqs!Places, Sqs
<1>3. CASE L!Set(l, L!Swapped(list[l], i, j))
  <2> DEFINE r == L!Seqs!Swapped(e, i + 1, j + 1)
  <2>1. Holds(L!Swapped(list[l], i, j), r)
    BY <1>1, SwappedHolds
  <2>2. Len(r) = Len(e)
    BY <1>1, <1>2 DEF L!Seqs!Swapped
  <2> HIDE DEF e
  <2>3. ListInv' /\ Sqs' = [Sqs EXCEPT ![l] = r]
    <3>1. list' = [list EXCEPT ![l] = L!Swapped(list[l], i, j)] /\ UNCHANGED <<owned, held, gone>>
      BY <1>3 DEF L!Set
    <3> HIDE DEF r
    <3> QED BY <1>1, <2>1, <2>2, <3>1, ValuesChange
  <2>4. Sqs' = [Sqs EXCEPT ![l] = L!Seqs!Swapped(Sqs[l], i + 1, j + 1)]
    BY <2>3 DEF e
  <2>5. L!Seqs!Reorder(l)
    BY <1>2, <2>4 DEF L!Seqs!Reorder, Sqs
  <2> QED BY <2>3, <2>5
<1>4. CASE L!Set(l, L!Relocated(list[l], i, j))
  <2> DEFINE r == L!Seqs!Relocated(e, i + 1, j + 1)
  <2>1. Holds(L!Relocated(list[l], i, j), r)
    BY <1>1, RelocatedHolds
  <2>2. Len(r) = Len(e)
    <3> DEFINE c == L!Seqs!Cut(e, i, 1)
               q == <<e[i + 1]>>
    <3>1. i \in Nat /\ 1 \in Nat /\ i + 1 <= Len(e) /\ q \in Seq(Items) /\ Len(q) = 1 /\ (i + 1) - 1 = i /\ (j + 1) - 1 = j
      BY <1>1, <1>2
    <3>2. c \in Seq(Items) /\ Len(c) = Len(e) - 1
      <4>1. e \in Seq(Items) /\ i \in Nat /\ 1 \in Nat /\ i + 1 <= Len(e)
        BY <1>1, <1>2
      <4> HIDE DEF e
      <4>2. L!Seqs!Cut(e, i, 1) \in Seq(Items) /\ Len(L!Seqs!Cut(e, i, 1)) = Len(e) - 1
        BY <4>1, CutIs
      <4> QED BY <4>2
    <3>3. r = L!Seqs!InsertedAt(c, j, q)
      BY <3>1 DEF L!Seqs!Relocated
    <3>4. j \in 0 .. Len(c)
      BY <1>1, <1>2, <3>2
    <3> HIDE DEF c, q, r
    <3>5. Len(r) = Len(c) + Len(q)
      BY <3>1, <3>2, <3>3, <3>4, InsertedAtIs
    <3> QED BY <1>1, <3>1, <3>2, <3>5
  <2> HIDE DEF e
  <2>3. ListInv' /\ Sqs' = [Sqs EXCEPT ![l] = r]
    <3>1. list' = [list EXCEPT ![l] = L!Relocated(list[l], i, j)] /\ UNCHANGED <<owned, held, gone>>
      BY <1>4 DEF L!Set
    <3> HIDE DEF r
    <3> QED BY <1>1, <2>1, <2>2, <3>1, ValuesChange
  <2>4. Sqs' = [Sqs EXCEPT ![l] = L!Seqs!Relocated(Sqs[l], i + 1, j + 1)]
    BY <2>3 DEF e
  <2>5. L!Seqs!Reorder(l)
    BY <1>2, <2>4 DEF L!Seqs!Reorder, Sqs
  <2> QED BY <2>3, <2>5
<1> QED BY <1>3, <1>4

LEMMA ListCopy ==
  ASSUME ListInv, ~owned, NEW l \in Lists, NEW m \in Lists, NEW p \in 0 .. list[l].count, L!CopyRange(l, p, m),
         UNCHANGED <<held, gone>>
  PROVE  ListInv' /\ l # m /\ p \in 0 .. Len(Sqs[l]) /\ L!Seqs!Copy(l, p, m)
<1> DEFINE e == Sqs[l]
           s == Sqs[m]
           r == L!Seqs!InsertedAt(e, p, s)
<1>1. e \in Seq(Items) /\ Len(e) \in Nat /\ Holds(list[l], e) /\ list[l].count = Len(e) /\ p \in 0 .. Len(e)
      /\ s \in Seq(Items) /\ list[m].count = Len(s) /\ L!Elements(list[m]) = s
  BY SqsAre
<1>2. PICK a \in {L!Inserted(list[l], p, s), L!AllAdded(list[l], p, s)} :
        list' = [list EXCEPT ![l] = a] /\ UNCHANGED owned
  BY <1>1 DEF L!CopyRange, L!Set
<1>3. l # m /\ Len(e) + Len(s) <= MaxLen[l]
  BY <1>1 DEF L!CopyRange, L!Fits
<1>4. Holds(L!Inserted(list[l], p, s), r) /\ Holds(L!AllAdded(list[l], p, s), r)
  BY <1>1, InsertedHolds, AllAddedHolds
<1>5. Len(r) = Len(e) + Len(s)
  BY <1>1, InsertedAtIs
<1> HIDE DEF r
<1>6. Holds(a, r)
  BY <1>2, <1>4
<1>7. ListInv' /\ Sqs' = [Sqs EXCEPT ![l] = r]
  <2>1. Len(r) <= MaxLen[l]
    BY <1>3, <1>5
  <2> QED BY <1>2, <1>6, <2>1, ValuesChange
<1>8. L!Seqs!Copy(l, p, m)
  BY <1>2, <1>7 DEF L!Seqs!Copy, Sqs, r
<1> QED BY <1>1, <1>3, <1>7, <1>8

LEMMA ListResize ==
  ASSUME ListInv, ~owned, NEW l \in Lists, NEW n \in 0 .. MaxLen[l], NEW x \in Items, L!SetCount(l, n, x),
         UNCHANGED <<held, gone>>
  PROVE  ListInv' /\ L!Seqs!Resize(l, Len(Sqs'[l]), x)
<1> DEFINE e == Sqs[l]
           a == L!WithLength(list[l], n, x)
           r == [i \in 1 .. n |-> IF i <= Len(e) THEN e[i] ELSE x]
<1>1. Holds(list[l], e) /\ DOMAIN Sqs = Lists /\ n \in Nat /\ e \in Seq(Items) /\ Len(e) \in Nat
  BY SqsAre
<1>2. list' = [list EXCEPT ![l] = a] /\ UNCHANGED owned
  BY DEF L!SetCount, L!Set
<1>3. Holds(a, r)
  BY <1>1, ResizedHolds DEF Resized
<1>4. Len(r) = n
  BY <1>1
<1> HIDE DEF a, r
<1>5. ListInv' /\ Sqs' = [Sqs EXCEPT ![l] = r]
  <2>1. Len(r) <= MaxLen[l]
    <3>1. MaxLen[l] \in Nat
      BY SqsAre
    <3> QED BY <1>4, <3>1
  <2> QED BY <1>2, <1>3, <2>1, ValuesChange
<1>6. Len(Sqs'[l]) = n
  BY <1>1, <1>4, <1>5
<1>7. L!Seqs!Resize(l, n, x)
  BY <1>5 DEF L!Seqs!Resize, Sqs, r
<1> QED BY <1>5, <1>6, <1>7

LEMMA ListFilter ==
  ASSUME ListInv, ~owned, NEW l \in Lists, NEW m \in Lists, NEW A \in SUBSET Items, L!Filter(l, m, A),
         UNCHANGED <<held, gone>>
  PROVE  ListInv' /\ m \in Lists \ {l} /\ L!Seqs!Select(l, m, A)
<1> DEFINE s == Sqs[m]
           a == L!Filtered(s, A)
           r == L!Seqs!Kept(s, A)
<1>1. s \in Seq(Items) /\ L!Elements(list[m]) = s
  BY SqsAre
<1>2. list' = [list EXCEPT ![l] = a] /\ UNCHANGED owned /\ l # m /\ a.count <= MaxLen[l]
  BY <1>1 DEF L!Filter, L!Set
<1>3. Holds(a, r)
  BY <1>1, FilteredHolds
<1> HIDE DEF a, r, s
<1>4. a.count = Len(r)
  BY <1>3, HeldElements
<1>5. ListInv' /\ Sqs' = [Sqs EXCEPT ![l] = r]
  BY <1>2, <1>3, <1>4, ValuesChange
<1>6. L!Seqs!Select(l, m, A)
  BY <1>5 DEF L!Seqs!Select, Sqs, r, s
<1> QED BY <1>2, <1>5, <1>6

LEMMA ListValues ==
  ASSUME ListInv, NEW l \in Lists, L!OfValues(l)
  PROVE  /\ ListInv'
         /\ \/ L!Seqs!OfValues
            \/ \E m \in Lists : l # m /\ \E p \in 0 .. Len(Sqs[l]) : L!Seqs!Copy(l, p, m)
<1>1. ~owned /\ UNCHANGED <<held, gone>>
  BY DEF L!OfValues
<1>2. CASE \E i, j \in 0 .. list[l].count - 1 :
             i # j /\ (L!Set(l, L!Swapped(list[l], i, j)) \/ L!Set(l, L!Relocated(list[l], i, j)))
  <2>1. ListInv' /\ L!Seqs!Reorder(l)
    BY <1>1, <1>2, ListMoves
  <2> QED BY <1>1, <2>1 DEF L!Seqs!OfValues
<1>3. CASE L!Sort(l)
  <2>1. ListInv' /\ L!Seqs!Reorder(l)
    BY <1>1, <1>3, ListSort
  <2> QED BY <1>1, <2>1 DEF L!Seqs!OfValues
<1>4. CASE \E n \in 0 .. MaxLen[l], x \in Items : L!SetCount(l, n, x)
  <2>1. PICK x \in Items : ListInv' /\ L!Seqs!Resize(l, Len(Sqs'[l]), x)
    BY <1>1, <1>4, ListResize
  <2> QED BY <1>1, <2>1 DEF L!Seqs!OfValues, Sqs
<1>5. CASE \E m \in Lists : \E p \in 0 .. list[l].count : L!CopyRange(l, p, m)
  BY <1>1, <1>5, ListCopy
<1>6. CASE \E m \in Lists : \E A \in SUBSET Items : L!Filter(l, m, A)
  <2>1. PICK m \in Lists \ {l}, A \in SUBSET Items : ListInv' /\ L!Seqs!Select(l, m, A)
    BY <1>1, <1>6, ListFilter
  <2> QED BY <1>1, <2>1 DEF L!Seqs!OfValues
<1> QED BY <1>2, <1>3, <1>4, <1>5, <1>6 DEF L!OfValues

LEMMA ListStep ==
  ASSUME ListInv, L!Next \/ UNCHANGED listVars
  PROVE  ListInv' /\ (L!Seqs!Next \/ UNCHANGED L!Seqs!vars)
<1>1. CASE UNCHANGED listVars
  BY <1>1 DEF listVars, ListInv, Sqs, L!Seqs!vars
<1>2. CASE L!Next
  <2>1. owned' = owned
    BY <1>2, ZenonT(60) DEF L!Next, L!InsertItem, L!ReplaceItem, L!DetachAt, L!RemoveRange, L!RemoveValue, L!DetachAll, L!Reserve,
                L!Trim, L!OfValues, L!Sort, L!SetCount, L!CopyRange, L!Filter, L!MoveAssign, L!TakeRange, L!Set
  <2>2. PICK l \in Lists :
          \/ \E p \in 0 .. list[l].count, x \in Items : L!InsertItem(l, p, x)
          \/ \E p \in 0 .. list[l].count - 1, x \in Items : L!ReplaceItem(l, p, x)
          \/ \E p \in 0 .. list[l].count - 1 :
               L!DetachAt(l, p) \/ \E n \in 1 .. list[l].count : L!RemoveRange(l, p, n)
          \/ \E x \in Items : L!RemoveValue(l, x)
          \/ L!DetachAll(l) \/ L!Reserve(l) \/ L!Trim(l) \/ L!OfValues(l)
          \/ \E m \in Lists : L!MoveAssign(l, m) \/ \E p \in 0 .. list[l].count : L!TakeRange(l, p, m)
    BY <1>2 DEF L!Next
  <2>3. list[l].count = Len(Sqs[l]) /\ Len(Sqs[l]) \in Nat
    BY SqsAre
  <2>4. L!Seqs!Places(l) = 1 .. Len(Sqs[l]) /\ Len(L!Elements(list[l])) = Len(Sqs[l])
    BY DEF L!Seqs!Places, Sqs
  <2>5. Sqs = [k \in Lists |-> L!Elements(list[k])]
    BY DEF Sqs
  <2>6. CASE \E p \in 0 .. list[l].count, x \in Items : L!InsertItem(l, p, x)
    <3>1. ListInv' /\ \E p \in 0 .. Len(Sqs[l]), x \in Items : L!Seqs!Insert(l, p, x)
      BY <2>3, <2>6, ListInsert
    <3> QED BY <2>1, <2>5, <3>1 DEF L!Seqs!Next
  <2>7. CASE \E p \in 0 .. list[l].count - 1, x \in Items : L!ReplaceItem(l, p, x)
    <3>1. PICK p \in 0 .. list[l].count - 1, x \in Items : ListInv' /\ L!Seqs!Replace(l, p + 1, x)
      BY <2>7, ListReplace
    <3>2. p + 1 \in L!Seqs!Places(l)
      BY <2>3, <2>4
    <3> QED BY <2>1, <3>1, <3>2 DEF L!Seqs!Next
  <2>8. CASE \E p \in 0 .. list[l].count - 1 : L!DetachAt(l, p)
    <3>1. ListInv' /\ \E p \in 0 .. Len(Sqs[l]) : p < Len(Sqs[l]) /\ L!Seqs!Detach(l, p)
      BY <2>8, ListDetach
    <3> QED BY <2>1, <2>5, <3>1 DEF L!Seqs!Next
  <2>9. CASE \E p \in 0 .. list[l].count - 1 : \E n \in 1 .. list[l].count : L!RemoveRange(l, p, n)
    <3>1. ListInv' /\ \E p \in 0 .. Len(Sqs[l]) : \E n \in 1 .. Len(Sqs[l]) - p : L!Seqs!RemoveRange(l, p, n)
      <4>1. PICK p \in Nat, n \in Nat : L!RemoveRange(l, p, n)
        BY <2>3, <2>9
      <4> QED BY <4>1, ListCut
    <3> QED BY <2>1, <2>5, <3>1 DEF L!Seqs!Next
  <2>10. CASE \E x \in Items : L!RemoveValue(l, x)
    <3>1. ListInv' /\ \E p \in 0 .. Len(Sqs[l]) : \E n \in 1 .. Len(Sqs[l]) - p : L!Seqs!RemoveRange(l, p, n)
      BY <2>10, ListRemoveValue
    <3> QED BY <2>1, <2>5, <3>1 DEF L!Seqs!Next
  <2>11. CASE L!DetachAll(l)
    BY <2>1, <2>11, ListDetachAll DEF L!Seqs!Next
  <2>12. CASE L!Reserve(l) \/ L!Trim(l)
    BY <2>12, ListStorage
  <2>13. CASE L!OfValues(l)
    <3>1. ListInv' /\ (L!Seqs!OfValues \/ \E m \in Lists : l # m /\ \E p \in 0 .. Len(Sqs[l]) : L!Seqs!Copy(l, p, m))
      BY <2>13, ListValues
    <3> QED BY <2>1, <2>5, <3>1 DEF L!Seqs!Next
  <2>14. CASE \E m \in Lists : L!MoveAssign(l, m)
    <3>1. ListInv' /\ \E m \in Lists : l # m /\ L!Seqs!Assign(l, m)
      BY <2>14, ListAssign
    <3> QED BY <2>1, <3>1 DEF L!Seqs!Next
  <2>15. CASE \E m \in Lists : \E p \in 0 .. list[l].count : L!TakeRange(l, p, m)
    <3>1. ListInv' /\ \E m \in Lists : l # m /\ \E p \in 0 .. Len(Sqs[l]) : L!Seqs!Transfer(l, p, m)
      BY <2>3, <2>15, ListTake
    <3> QED BY <2>1, <2>5, <3>1 DEF L!Seqs!Next
  <2> QED BY <2>2, <2>6, <2>7, <2>8, <2>9, <2>10, <2>11, <2>12, <2>13, <2>14, <2>15
<1> QED BY <1>1, <1>2

LEMMA ListInit ==
  ASSUME L!Init
  PROVE  ListInv /\ L!Seqs!Init
<1>1. \A l \in Lists : Holds(list[l], ListsFilled[l]) /\ Len(ListsFilled[l]) <= MaxLen[l] /\ ListsFilled[l] \in Seq(Items)
  <2> TAKE l \in Lists
  <2> DEFINE t == ListsFilled[l]
  <2>1. t \in Seq(Items) /\ Len(t) <= MaxLen[l]
    BY ListAssumption
  <2>2. list[l] = L!Inserted(L!NoData, 0, t)
    BY DEF L!Init
  <2> HIDE DEF t
  <2>3. Holds(L!Inserted(L!NoData, 0, t), L!Seqs!InsertedAt(<<>>, 0, t))
    <3>1. 0 \in 0 .. Len(<<>>)
      OBVIOUS
    <3> QED BY <2>1, <3>1, EmptyHolds, InsertedHolds
  <2>4. L!Seqs!InsertedAt(<<>>, 0, t) = t
    <3> DEFINE z == <<>>
               q == 0
               r == L!Seqs!InsertedAt(z, q, t)
    <3>0. z \in Seq(Items) /\ q \in 0 .. Len(z)
      OBVIOUS
    <3>1. Len(z) = 0 /\ q = 0
      OBVIOUS
    <3> HIDE DEF z, q
    <3>2. /\ r \in Seq(Items) /\ Len(r) = Len(z) + Len(t)
          /\ \A i \in 1 .. Len(z) + Len(t) :
               r[i] = IF i <= q THEN z[i] ELSE IF i <= q + Len(t) THEN t[i - q] ELSE z[i - Len(t)]
      BY <2>1, <3>0, InsertedAtIs
    <3> HIDE DEF r
    <3>3. \A i \in 1 .. Len(t) : ~ (i <= q) /\ i <= q + Len(t) /\ i - q = i
      BY <2>1, <3>1
    <3>4. \A i \in 1 .. Len(t) : r[i] = t[i]
      BY <2>1, <3>1, <3>2, <3>3
    <3>5. r = t
      BY <2>1, <3>0, <3>1, <3>2, <3>4, SameSeq
    <3> QED BY <3>5 DEF r, z, q
  <2> QED BY <2>1, <2>2, <2>3, <2>4 DEF t
<1>2. \A l \in Lists : Sqs[l] = ListsFilled[l]
  <2> TAKE l \in Lists
  <2>1. L!Elements(list[l]) = ListsFilled[l]
    BY <1>1, HeldElements
  <2> QED BY <2>1 DEF Sqs
<1>3. \A l, m \in Lists : \A i \in 1 .. Len(ListsFilled[l]), j \in 1 .. Len(ListsFilled[m]) :
        ListsFilled[l][i] = ListsFilled[m][j] => l = m /\ i = j
  <2>1. \A l \in Lists : DOMAIN ListsFilled[l] = 1 .. Len(ListsFilled[l])
    BY <1>1
  <2> QED BY <2>1, ListAssumption
<1>4. \A l \in Lists : Members(ListsFilled[l]) = L!Range(ListsFilled[l])
  <2>1. \A l \in Lists : DOMAIN ListsFilled[l] = 1 .. Len(ListsFilled[l])
    BY <1>1
  <2> QED BY <2>1 DEF Members, L!Range
<1>5. /\ owned \in BOOLEAN /\ gone = {} /\ list = [l \in Lists |-> list[l]]
      /\ held = IF owned THEN Items \ UNION {L!Range(ListsFilled[l]) : l \in Lists} ELSE {}
  BY DEF L!Init
<1>6. Apart(Sqs, held, gone)
  <2>1. \A l \in Lists : Single(Sqs[l])
    BY <1>2, <1>3 DEF Single
  <2>2. \A l, m \in Lists : l # m => Members(Sqs[l]) \cap Members(Sqs[m]) = {}
    BY <1>2, <1>3 DEF Members
  <2>3. \A l \in Lists : Members(Sqs[l]) \cap (held \cup gone) = {}
    BY <1>2, <1>4, <1>5
  <2> QED BY <1>5, <2>1, <2>2, <2>3 DEF Apart
<1>7. ListInv
  BY <1>1, <1>2, <1>5, <1>6 DEF ListInv
<1>8. L!Seqs!Init
  BY <1>5 DEF L!Seqs!Init
<1> QED BY <1>7, <1>8

LEMMA ListSafe ==
  ASSUME ListInv
  PROVE  L!TypeOK /\ L!Sound
<1>1. ASSUME NEW l \in Lists
      PROVE  /\ list[l].count \in 0 .. MaxLen[l] /\ list[l].capacity \in Nat
             /\ list[l].data \in [0 .. list[l].capacity - 1 -> Items \cup {HOLE}]
             /\ \A i \in DOMAIN list[l].data : list[l].data[i] # HOLE <=> i < list[l].count
             /\ owned => L!IsInjective(L!Elements(list[l]))
             /\ L!At(l, 0, list[l].count) = Members(Sqs[l])
  <2> DEFINE e == Sqs[l]
             a == list[l]
  <2>1. /\ e = L!Elements(a) /\ Len(e) <= MaxLen[l] /\ MaxLen[l] \in Nat /\ Holds(a, e)
    BY SqsAre
  <2>2. L!At(l, 0, Len(e)) = Members(e)
    <3>1. 0 \in Nat /\ Len(e) \in Nat /\ 0 + Len(e) <= Len(e) /\ 0 + 1 .. 0 + Len(e) = 1 .. Len(e)
      BY SqsAre
    <3>2. L!At(l, 0, Len(e)) = {e[i] : i \in 0 + 1 .. 0 + Len(e)}
      BY <3>1, AtIs
    <3> QED BY <3>1, <3>2 DEF Members
  <2>3. owned => Single(e)
    BY DEF ListInv, Apart
  <2> HIDE DEF e, a
  <2>4. /\ e \in Seq(Items) /\ Len(e) \in Nat /\ a.count = Len(e) /\ a.capacity \in Nat /\ Len(e) <= a.capacity
        /\ a.data = Stored(a.capacity, e)
    BY <2>1, HeldElements
  <2>5. \A i \in 0 .. a.capacity - 1 : a.data[i] = IF i < Len(e) THEN e[i + 1] ELSE HOLE
    BY <2>4 DEF Stored
  <2>6. \A i \in 0 .. a.capacity - 1 : i < Len(e) => e[i + 1] \in Items
    BY <2>4
  <2>7. DOMAIN a.data = 0 .. a.capacity - 1 /\ a.data = [i \in 0 .. a.capacity - 1 |-> a.data[i]]
    BY <2>4 DEF Stored
  <2>8. a.data \in [0 .. a.capacity - 1 -> Items \cup {HOLE}]
    BY <2>5, <2>6, <2>7
  <2>9. \A i \in DOMAIN a.data : a.data[i] # HOLE <=> i < a.count
    <3>1. HOLE \notin Items
      BY ListAssumption
    <3>2. \A i \in 0 .. a.capacity - 1 : a.data[i] # HOLE <=> i < Len(e)
      BY <2>5, <2>6, <3>1
    <3> QED BY <2>4, <2>7, <3>2
  <2>10. owned => L!IsInjective(e)
    BY <2>3, <2>4 DEF L!IsInjective, Single
  <2>11. a.count \in 0 .. MaxLen[l]
    BY <2>1, <2>4
  <2> QED BY <2>1, <2>2, <2>4, <2>8, <2>9, <2>10, <2>11 DEF e, a
<1>2. L!TypeOK
  BY <1>1 DEF L!TypeOK, ListInv
<1>3. ASSUME owned
      PROVE  /\ \A l, m \in Lists : l # m => L!At(l, 0, list[l].count) \cap L!At(m, 0, list[m].count) = {}
             /\ \A l \in Lists : L!At(l, 0, list[l].count) \cap (held \cup gone) = {}
             /\ held \cap gone = {}
  <2>1. Apart(Sqs, held, gone)
    BY <1>3 DEF ListInv
  <2>2. \A l \in Lists : L!At(l, 0, list[l].count) = Members(Sqs[l])
    BY <1>1
  <2> QED BY <2>1, <2>2 DEF Apart
<1>4. L!Sound
  BY <1>1, <1>3 DEF L!Sound
<1> QED BY <1>2, <1>4

\* The loop of BinarySearch: what it has left of a sorted list.
Within(e, x, at) ==
  /\ at = [found |-> at.found, lo |-> at.lo, hi |-> at.hi] /\ at.found \in BOOLEAN
  /\ at.lo \in 0 .. Len(e) /\ at.hi \in -1 .. Len(e) - 1 /\ at.lo <= at.hi + 1
  /\ at.found => at.lo < Len(e) /\ e[at.lo + 1] = x
  /\ ~at.found => /\ \A j \in 1 .. Len(e) : j <= at.lo => e[j] < x
                  /\ \A j \in 1 .. Len(e) : j > at.hi + 1 => e[j] > x

LEMMA SearchTurnIs ==
  ASSUME NEW a, NEW e, Holds(a, e), L!Ordered(e), NEW x \in Items, NEW at, Within(e, x, at)
  PROVE  /\ Within(e, x, L!SearchTurn(a, x, at))
         /\ \/ L!SearchTurn(a, x, at).found
            \/ L!SearchTurn(a, x, at).lo > L!SearchTurn(a, x, at).hi
            \/ L!SearchTurn(a, x, at).hi - L!SearchTurn(a, x, at).lo < at.hi - at.lo
<1> DEFINE mid == at.lo + (at.hi - at.lo) \div 2
           new == L!SearchTurn(a, x, at)
           n == Len(e)
<1>1. /\ e \in Seq(Items) /\ n \in Nat /\ a.count = n /\ \A j \in 0 .. n - 1 : a.data[j] = e[j + 1]
  <2>1. e \in Seq(Items) /\ Len(e) \in Nat /\ a.count = Len(e) /\ a.capacity \in Nat /\ Len(e) <= a.capacity
        /\ a.data = Stored(a.capacity, e)
    BY HeldElements
  <2> QED BY <2>1 DEF Stored
<1>2. x \in Int /\ \A j \in 1 .. n : e[j] \in Int
  <2>1. Items \subseteq Int
    BY ListAssumption
  <2>2. \A j \in 1 .. n : e[j] \in Items
    BY <1>1
  <2> QED BY <2>1, <2>2
<1>3. \A i, j \in 1 .. n : i < j => e[i] <= e[j]
  BY <1>1 DEF L!Ordered
<1>4. at.lo \in Int /\ at.hi \in Int
  BY DEF Within
<1>5. CASE at.found \/ at.lo > at.hi
  <2>1. new = at
    BY <1>5 DEF L!SearchTurn
  <2> QED BY <1>5, <2>1
<1>6. CASE ~ (at.found \/ at.lo > at.hi)
  <2>1. /\ at.lo \in 0 .. n /\ at.hi \in -1 .. n - 1 /\ at.lo <= at.hi
        /\ at = [found |-> FALSE, lo |-> at.lo, hi |-> at.hi]
        /\ \A j \in 1 .. n : j <= at.lo => e[j] < x
        /\ \A j \in 1 .. n : j > at.hi + 1 => e[j] > x
    BY <1>4, <1>6 DEF Within
  <2>2. mid \in 0 .. n - 1 /\ at.lo <= mid /\ mid <= at.hi
    BY <1>1, <2>1
  <2> DEFINE lo == at.lo
             hi == at.hi
  <2>3. new = IF a.data[mid] = x THEN [at EXCEPT !.found = TRUE, !.lo = mid]
              ELSE IF a.data[mid] < x THEN [at EXCEPT !.lo = mid + 1]
              ELSE [at EXCEPT !.hi = mid - 1]
    BY <1>6 DEF L!SearchTurn
  <2>4. at = [found |-> FALSE, lo |-> lo, hi |-> hi]
    BY <2>1
  <2>5. a.data[mid] = e[mid + 1] /\ mid + 1 \in 1 .. n
    BY <1>1, <2>2
  <2> HIDE DEF mid, new, lo, hi
  <2>6. CASE e[mid + 1] = x
    <3>1. new = [found |-> TRUE, lo |-> mid, hi |-> hi]
      BY <2>3, <2>4, <2>5, <2>6
    <3> QED BY <1>1, <2>1, <2>2, <2>6, <3>1 DEF Within, new, hi
  <2>7. CASE e[mid + 1] < x
    <3>0. e[mid + 1] # x /\ e[mid + 1] < x
      BY <1>2, <2>5, <2>7
    <3>1. new = [found |-> FALSE, lo |-> mid + 1, hi |-> hi]
      BY <2>3, <2>4, <2>5, <3>0
    <3>2. \A j \in 1 .. n : j <= mid + 1 => e[j] < x
      <4> TAKE j \in 1 .. n
      <4> HAVE j <= mid + 1
      <4>1. e[j] <= e[mid + 1]
        BY <1>1, <1>2, <1>3, <2>2, <2>5
      <4> QED BY <1>2, <2>5, <2>7, <4>1
    <3>3. Within(e, x, new)
      BY <1>1, <2>1, <2>2, <3>1, <3>2 DEF Within, hi
    <3>4. new.hi - new.lo < hi - lo
      BY <1>4, <2>2, <3>1 DEF hi, lo
    <3> QED BY <3>3, <3>4 DEF new, hi, lo
  <2>8. CASE e[mid + 1] > x
    <3>0. e[mid + 1] # x /\ ~ (e[mid + 1] < x)
      BY <1>2, <2>5, <2>8
    <3>1. new = [found |-> FALSE, lo |-> lo, hi |-> mid - 1]
      BY <2>3, <2>4, <2>5, <3>0
    <3>2. \A j \in 1 .. n : j > (mid - 1) + 1 => e[j] > x
      <4> TAKE j \in 1 .. n
      <4> HAVE j > (mid - 1) + 1
      <4>1. e[mid + 1] <= e[j]
        BY <1>1, <1>2, <1>3, <2>2, <2>5
      <4> QED BY <1>2, <2>5, <2>8, <4>1
    <3>3. Within(e, x, new)
      BY <1>1, <2>1, <2>2, <3>1, <3>2 DEF Within, lo
    <3>4. new.hi - new.lo < hi - lo
      BY <1>4, <2>2, <3>1 DEF hi, lo
    <3> QED BY <3>3, <3>4 DEF new, hi, lo
  <2> QED BY <1>2, <2>5, <2>6, <2>7, <2>8
<1> QED BY <1>5, <1>6

\* After as many turns as there are elements the loop has ended.
LEMMA BinarySearchIs ==
  ASSUME NEW a, NEW e, Holds(a, e), L!Ordered(e), NEW x \in Items
  PROVE  \E at : /\ Within(e, x, at) /\ (at.found \/ at.lo > at.hi)
                 /\ L!BinarySearch(a, x) = [found |-> at.found, index |-> at.lo]
<1> DEFINE n == a.count
           X == {y \in [found : BOOLEAN, lo : Int, hi : Int] : Within(e, x, y)}
           At(y) == L!SearchTurn(a, x, y)
           g == [k \in 1 .. n |-> [y \in X |-> At(y)]]
           z == [found |-> FALSE, lo |-> 0, hi |-> n - 1]
           R(f) == [k \in 0 .. n |-> IF k = 0 THEN z ELSE At(f[k - 1])]
           h == CHOOSE f : f = R(f)
<1>1. n \in Nat /\ n = Len(e)
  BY HeldElements
<1>2. L!BinarySearch(a, x) = [found |-> h[n].found, index |-> h[n].lo]
  BY DEF L!BinarySearch
<1>3. \A y \in X : At(y) \in X
  <2> TAKE y \in X
  <2>1. Within(e, x, At(y))
    BY SearchTurnIs
  <2> HIDE DEF At
  <2>2. At(y).lo \in Int /\ At(y).hi \in Int /\ At(y).found \in BOOLEAN
    BY <1>1, <2>1 DEF Within
  <2>3. At(y) = [found |-> At(y).found, lo |-> At(y).lo, hi |-> At(y).hi]
    BY <2>1 DEF Within
  <2>4. At(y) \in [found : BOOLEAN, lo : Int, hi : Int]
    BY <2>2, <2>3
  <2> QED BY <2>1, <2>4
<1>4. z \in X
  <2>1. Within(e, x, z)
    BY <1>1 DEF Within
  <2> QED BY <1>1, <2>1
<1>5. g \in [1 .. n -> [X -> X]]
  BY <1>3
<1>6. \A k \in 1 .. n : \A y \in X : g[k][y] = At(y)
  OBVIOUS
<1>7. \A y \in X : Within(e, x, y)
  OBVIOUS
<1>8. \A y \in X : At(y).found \/ At(y).lo > At(y).hi \/ At(y).hi - At(y).lo < y.hi - y.lo
  BY SearchTurnIs
<1>9. \A y \in X : y.found \/ y.lo > y.hi => At(y) = y
  BY DEF L!SearchTurn
<1>10. \A y \in X : y.lo \in Int /\ y.hi \in Int
  OBVIOUS
<1>11. z.hi - z.lo = n - 1
  BY <1>1
<1> HIDE DEF X, g, n, At, z
<1>12. PICK f : Steps(X, g, n, z, f)
  BY <1>1, <1>4, <1>5, StepsExist
<1>13. /\ f \in [0 .. n -> X] /\ f[0] = z
       /\ \A k \in 1 .. n : f[k - 1] \in X /\ f[k] \in X /\ f[k] = At(f[k - 1])
  BY <1>1, <1>6, <1>12 DEF Steps
<1>14. f = R(f)
  <2>1. \A k \in 0 .. n : k = 0 \/ k \in 1 .. n
    BY <1>1
  <2>2. \A k \in 1 .. n : k # 0
    BY <1>1
  <2>3. \A k \in 0 .. n : f[k] = IF k = 0 THEN z ELSE At(f[k - 1])
    BY <1>13, <2>1, <2>2
  <2> QED BY <1>13, <2>3
<1>15. h = R(h)
  <2> HIDE DEF R
  <2> QED BY <1>14
<1> HIDE DEF h
<1>16. \A k \in 0 .. n : h[k] = f[k]
  <2>1. h[0] = f[0]
    BY <1>1, <1>13, <1>15
  <2>2. \A k \in 1 .. n : h[k - 1] = f[k - 1] => h[k] = f[k]
    <3> TAKE k \in 1 .. n
    <3>1. k \in 0 .. n /\ k # 0
      BY <1>1
    <3>2. h[k] = At(h[k - 1])
      BY <1>15, <3>1
    <3> QED BY <1>13, <3>2
  <2>3. n \in Nat
    BY <1>1
  <2> HIDE DEF R
  <2> QED BY <2>1, <2>2, <2>3, SameSteps, ZenonT(60)
<1> DEFINE Done(y) == y.found \/ y.lo > y.hi
           Q == {k \in 1 .. n : Done(f[k]) \/ f[k].hi - f[k].lo < n - k}
<1>17. n # 0 => 1 \in Q
  <2> SUFFICES ASSUME n # 0 PROVE 1 \in Q
    OBVIOUS
  <2>1. 1 \in 1 .. n /\ 1 - 1 = 0
    BY <1>1
  <2>2. f[1] \in X /\ f[1] = At(z)
    BY <1>13, <2>1
  <2>3. Done(f[1]) \/ f[1].hi - f[1].lo < z.hi - z.lo
    BY <1>4, <1>8, <2>2
  <2> QED BY <1>11, <2>1, <2>3
<1>18. \A k \in 1 .. n - 1 : k \in Q => k + 1 \in Q
  <2> TAKE k \in 1 .. n - 1
  <2> HAVE k \in Q
  <2>1. k + 1 \in 1 .. n /\ (k + 1) - 1 = k /\ k \in 1 .. n
    BY <1>1
  <2>2. f[k] \in X /\ f[k + 1] \in X /\ f[k + 1] = At(f[k])
    BY <1>13, <2>1
  <2>3. CASE Done(f[k])
    <3>1. f[k + 1] = f[k]
      BY <1>9, <2>2, <2>3
    <3> QED BY <2>1, <2>3, <3>1
  <2>4. CASE ~ Done(f[k])
    <3>1. f[k].hi - f[k].lo < n - k
      BY <2>4
    <3>2. Done(f[k + 1]) \/ f[k + 1].hi - f[k + 1].lo < f[k].hi - f[k].lo
      BY <1>8, <2>2
    <3>3. f[k].hi \in Int /\ f[k].lo \in Int /\ f[k + 1].hi \in Int /\ f[k + 1].lo \in Int
      BY <1>10, <2>2
    <3>4. Done(f[k + 1]) \/ f[k + 1].hi - f[k + 1].lo < n - (k + 1)
      BY <1>1, <3>1, <3>2, <3>3
    <3> QED BY <2>1, <3>4
  <2> QED BY <2>3, <2>4
<1>19. 1 .. n \subseteq Q
  <2> HIDE DEF Q
  <2> QED BY <1>1, <1>17, <1>18, UpTo
<1>20. Done(f[n]) /\ f[n] \in X
  <2>1. CASE n = 0
    <3>1. f[n] = z /\ z.lo = 0 /\ z.hi = n - 1
      BY <1>13, <2>1 DEF z
    <3>2. f[n].lo > f[n].hi
      BY <2>1, <3>1
    <3> QED BY <1>4, <3>1, <3>2
  <2>2. CASE n # 0
    <3>1. n \in 1 .. n
      BY <1>1, <2>2
    <3>2. f[n] \in X /\ (Done(f[n]) \/ f[n].hi - f[n].lo < n - n)
      BY <1>13, <1>19, <3>1
    <3>3. f[n].hi \in Int /\ f[n].lo \in Int
      BY <1>10, <3>2
    <3> QED BY <1>1, <3>2, <3>3
  <2> QED BY <2>1, <2>2
<1>21. n \in 0 .. n
  BY <1>1
<1>22. L!BinarySearch(a, x) = [found |-> f[n].found, index |-> f[n].lo]
  BY <1>2, <1>16, <1>21
<1> QED BY <1>7, <1>20, <1>22

LEMMA ListSearch ==
  ASSUME ListInv
  PROVE  L!SearchExact
<1> SUFFICES ASSUME NEW l \in Lists, NEW x \in Items
             PROVE  LET M == list[l]
                        s == L!Elements(M)
                        r == L!BinarySearch(M, x)
                        i == L!IndexOf(M, x, -1)
                    IN  /\ L!Ordered(s) =>
                             /\ r.found = (x \in L!Range(s))
                             /\ IF r.found THEN M.data[r.index] = x
                                ELSE /\ r.index \in 0 .. M.count
                                     /\ \A j \in 0 .. M.count - 1 : M.data[j] < x <=> j < r.index
                        /\ IF x \in L!Range(s) THEN M.data[i] = x /\ \A j \in 0 .. i - 1 : M.data[j] # x
                           ELSE i = -1
  BY DEF L!SearchExact
<1> DEFINE M == list[l]
           s == L!Elements(M)
           r == L!BinarySearch(M, x)
           i == L!IndexOf(M, x, -1)
           n == Len(s)
<1>1. /\ s \in Seq(Items) /\ n \in Nat /\ Holds(M, s) /\ M.count = n /\ DOMAIN s = 1 .. n
      /\ \A j \in 0 .. n - 1 : M.data[j] = s[j + 1] /\ s[j + 1] \in Items
  BY SqsAre
<1>2. Items \subseteq Int
  BY ListAssumption
<1>3. /\ i \in -1 .. n - 1
      /\ i >= 0 => M.data[i] = x /\ \A j \in 0 .. i - 1 : M.data[j] # x
      /\ i = -1 => \A j \in 0 .. n - 1 : M.data[j] # x
  BY <1>1, IndexOfIs
<1> HIDE DEF M, s, r, i, n
<1>4. L!Range(s) = {s[j] : j \in 1 .. n}
  BY <1>1 DEF L!Range
<1>5. x \in L!Range(s) <=> \E j \in 0 .. n - 1 : M.data[j] = x
  <2>1. ASSUME NEW j \in 1 .. n, s[j] = x PROVE \E k \in 0 .. n - 1 : M.data[k] = x
    <3>1. j - 1 \in 0 .. n - 1 /\ (j - 1) + 1 = j
      BY <1>1
    <3>2. M.data[j - 1] = x
      BY <1>1, <2>1, <3>1
    <3> QED BY <3>1, <3>2
  <2>2. ASSUME NEW j \in 0 .. n - 1, M.data[j] = x PROVE \E k \in 1 .. n : s[k] = x
    <3>1. j + 1 \in 1 .. n
      BY <1>1
    <3> QED BY <1>1, <2>2, <3>1
  <2> QED BY <1>4, <2>1, <2>2
<1>6. IF x \in L!Range(s) THEN M.data[i] = x /\ \A j \in 0 .. i - 1 : M.data[j] # x ELSE i = -1
  <2>1. i = -1 \/ (i >= 0 /\ i \in 0 .. n - 1)
    BY <1>1, <1>3
  <2> QED BY <1>3, <1>5, <2>1
<1>7. ASSUME L!Ordered(s)
      PROVE  /\ r.found = (x \in L!Range(s))
             /\ IF r.found THEN M.data[r.index] = x
                ELSE /\ r.index \in 0 .. n
                     /\ \A j \in 0 .. n - 1 : M.data[j] < x <=> j < r.index
  <2>1. PICK at : /\ Within(s, x, at) /\ (at.found \/ at.lo > at.hi)
                  /\ r = [found |-> at.found, index |-> at.lo]
    BY <1>1, <1>7, BinarySearchIs DEF r
  <2>2. r.found = at.found /\ r.index = at.lo
    BY <2>1
  <2>3. \A j \in 0 .. n - 1 : j + 1 \in 1 .. n /\ M.data[j] = s[j + 1] /\ M.data[j] \in Int /\ x \in Int
    <3>1. x \in Int
      BY <1>2
    <3>2. \A j \in 0 .. n - 1 : j + 1 \in 1 .. n
      BY <1>1
    <3> QED BY <1>1, <1>2, <3>1, <3>2
  <2>6. at.found \in BOOLEAN
    BY <2>1 DEF Within
  <2>4. CASE at.found
    <3>1. at.lo \in 0 .. n - 1 /\ s[at.lo + 1] = x
      BY <1>1, <2>1, <2>4 DEF Within, n
    <3>2. M.data[at.lo] = x
      BY <1>1, <3>1
    <3> QED BY <1>5, <2>2, <2>4, <3>1, <3>2
  <2>5. CASE ~at.found
    <3>1. /\ at.lo \in 0 .. n /\ at.hi \in -1 .. n - 1 /\ at.lo = at.hi + 1
          /\ \A j \in 1 .. n : j <= at.lo => s[j] < x
          /\ \A j \in 1 .. n : j > at.hi + 1 => s[j] > x
      BY <1>1, <2>1, <2>5 DEF Within, n
    <3> DEFINE k == at.lo
    <3>2. k \in 0 .. n /\ \A j \in 1 .. n : (j <= k => s[j] < x) /\ (j > k => s[j] > x)
      BY <3>1
    <3> HIDE DEF k
    <3>3. \A j \in 0 .. n - 1 : (j < k => M.data[j] < x) /\ (j >= k => M.data[j] > x)
      <4> TAKE j \in 0 .. n - 1
      <4>1. (j < k => j + 1 <= k) /\ (j >= k => j + 1 > k)
        BY <3>2
      <4> QED BY <2>3, <3>2, <4>1
    <3>4. \A j \in 0 .. n - 1 : (M.data[j] < x <=> j < k) /\ M.data[j] # x
      <4> TAKE j \in 0 .. n - 1
      <4>1. j < k \/ j >= k
        BY <3>2
      <4> QED BY <2>3, <3>3, <4>1
    <3>5. x \notin L!Range(s)
      BY <1>5, <3>4
    <3>6. r.found = FALSE /\ r.index = k
      BY <2>2, <2>5, <2>6 DEF k
    <3>7. r.found = (x \in L!Range(s))
      <4>1. (x \in L!Range(s)) = FALSE
        BY <3>5
      <4> QED BY <3>6, <4>1
    <3>8. r.index \in 0 .. n /\ \A j \in 0 .. n - 1 : M.data[j] < x <=> j < r.index
      BY <3>2, <3>4, <3>6
    <3> QED BY <3>6, <3>7, <3>8, Zenon
  <2> QED BY <2>4, <2>5, <2>6
<1> QED BY <1>1, <1>6, <1>7 DEF M, s, r, i, n
-----------------------------------------------------------------------------
(* All of them *)

ContainersInv ==
  /\ DelegateInv /\ StreamInv /\ Counted(str, data) /\ BuilderInv /\ PoolInv /\ PointerInv /\ BrokenInv
  /\ ListInv

LEMMA ContainersInit ==
  Init => ContainersInv /\ D!Cells!Init /\ S!File!Init /\ L!Seqs!Init
BY DelegateInit, StreamInit, CoreInit, BuilderInit, PoolInit, PointerInit, ListInit
DEF Init, Idle, ContainersInv

LEMMA ContainersStep ==
  ASSUME ContainersInv, [Next]_vars
  PROVE  /\ ContainersInv'
         /\ D!Cells!Next \/ UNCHANGED D!Values
         /\ S!File!Next \/ UNCHANGED S!File!vars
         /\ L!Seqs!Next \/ UNCHANGED L!Seqs!vars
<1>1. D!Next \/ UNCHANGED delegateVars
  BY DEF Next, vars, ownerVars
<1>2. S!Next \/ UNCHANGED streamVars
  BY DEF Next, vars, containerVars
<1>3. C!Next \/ UNCHANGED stringVars
  BY DEF Next, vars, ownerVars
<1>4. W!Next \/ UNCHANGED builderVars
  BY DEF Next, vars, ownerVars
<1>5. B!Next \/ UNCHANGED poolVars
  BY DEF Next, vars, ownerVars
<1>6. P!Next \/ UNCHANGED pointerVars
  BY DEF Next, vars, ownerVars
<1>7. DelegateInv' /\ StreamInv' /\ (D!Cells!Next \/ UNCHANGED D!Values)
  BY <1>1, <1>2, DelegateStep, DelegateStay, StreamStep, StreamStay DEF ContainersInv
<1>8. S!File!Next \/ UNCHANGED S!File!vars
  BY <1>2, StreamStep, StreamStay DEF ContainersInv
<1>9. Counted(str, data)' /\ BuilderInv' /\ PoolInv' /\ PointerInv' /\ BrokenInv'
  BY <1>3, <1>4, <1>5, <1>6, CoreStep, BuilderStep, PoolStep, PointerStep, BrokenStep DEF ContainersInv
<1>10. L!Next \/ UNCHANGED listVars
  BY DEF Next, vars, containerVars
<1>11. ListInv' /\ (L!Seqs!Next \/ UNCHANGED L!Seqs!vars)
  BY <1>10, ListStep DEF ContainersInv
<1> QED BY <1>7, <1>8, <1>9, <1>11 DEF ContainersInv

\* For any pools, pointers, delegates, builders and strings, whatever is called in
\* whatever order: no string of a pool is freed or overlaps another one, no smart
\* pointer leads to a deleted object and what is alive without a variable is held by a
\* cycle, no callable is leaked or destroyed twice, a builder ends its text in its
\* block, and data is freed with the last string that shares it (StringPool.h,
\* SharedPtr.h, RefCountedPtr.h, Delegate.h, StringBuilder.h, StringCore.h).
THEOREM MemoryKept == Spec => []MemoryOwned
<1>1. Init => ContainersInv
  BY ContainersInit
<1>2. ContainersInv /\ [Next]_vars => ContainersInv'
  BY ContainersStep
<1>3. ContainersInv => MemoryOwned
  BY DelegateSafe, CoreSafe, BuilderSafe, PoolSafe, PointerSafe DEF ContainersInv, MemoryOwned
<1> QED BY <1>1, <1>2, <1>3, PTL DEF Spec

\* However delegates are constructed, copied, moved, called and destroyed: every
\* callable belongs to one delegate and a valid delegate has one, so none is leaked,
\* destroyed twice or called after it is destroyed (Delegate.h).
THEOREM CallablesOwned == Spec => [](D!TypeOK /\ D!OneOwnerEach)
<1>1. Init => ContainersInv
  BY ContainersInit
<1>2. ContainersInv /\ [Next]_vars => ContainersInv'
  BY ContainersStep
<1>3. ContainersInv => D!TypeOK /\ D!OneOwnerEach
  BY DelegateSafe DEF ContainersInv
<1> QED BY <1>1, <1>2, <1>3, PTL DEF Spec

\* Whatever is written, truncated, moved and copied: the block of a stream is as large
\* as its length and as m_allocated say, although Write does not update m_allocated
\* (MemoryStream.h).
THEOREM BlocksLargeEnough == Spec => [](S!TypeOK /\ S!Sound)
<1>1. Init => ContainersInv
  BY ContainersInit
<1>2. ContainersInv /\ [Next]_vars => ContainersInv'
  BY ContainersStep
<1>3. ContainersInv => S!TypeOK /\ S!Sound
  BY StreamSafe DEF ContainersInv
<1> QED BY <1>1, <1>2, <1>3, PTL DEF Spec

\* Memory streams implement files, for any texts and lengths (MemoryStream.h, Stream.h);
\* delegates implement cells that hold callables by value, inline and on the heap
\* (Delegate.h).
THEOREM ValuesImplemented == Spec => ImplementsValues
<1>1. Init => ContainersInv /\ D!Cells!Init /\ S!File!Init
  BY ContainersInit
<1>2. ContainersInv /\ [Next]_vars =>
        /\ ContainersInv'
        /\ [/\ which = "stream" => S!File!Next \/ UNCHANGED S!File!vars
            /\ which = "delegates" => D!Cells!Next \/ UNCHANGED D!Values]_vars
  BY ContainersStep
<1> QED BY <1>1, <1>2, PTL DEF Spec, ImplementsValues

\* For any objects and growth sizes, whatever is inserted, removed, moved, sorted and
\* detached in whatever order: the first Count elements of a list are constructed and
\* no others, an owning list holds no object that another list, the caller or nobody
\* owns, and a binary search of a sorted list finds what is there or where it would
\* have to be inserted (List.h, Buffer.h).
THEOREM ListsSound == Spec => [](L!TypeOK /\ L!Sound /\ L!SearchExact)
<1>1. Init => ContainersInv
  BY ContainersInit
<1>2. ContainersInv /\ [Next]_vars => ContainersInv'
  BY ContainersStep
<1>3. ContainersInv => L!TypeOK /\ L!Sound /\ L!SearchExact
  BY ListSafe, ListSearch DEF ContainersInv
<1> QED BY <1>1, <1>2, <1>3, PTL DEF Spec

\* Lists implement sequences: every operation does to the storage what it says of the
\* elements, for any growth sizes, whether the storage moves or not (List.h, Buffer.h).
THEOREM ListsImplemented == Spec => ImplementsSeq
<1>1. Init => ContainersInv /\ L!Seqs!Init
  BY ContainersInit
<1>2. ContainersInv /\ [Next]_vars =>
        /\ ContainersInv'
        /\ [which = "list" => L!Seqs!Next \/ UNCHANGED L!Seqs!vars]_vars
  BY ContainersStep
<1> QED BY <1>1, <1>2, PTL DEF Spec, ImplementsSeq
=============================================================================
