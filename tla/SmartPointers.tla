--------------------------- MODULE SmartPointers ---------------------------
(***************************************************************************)
(* SharedPtr (src/Core/SharedPtr.h), with a CONTROL that counts, and       *)
(* RefCountedPtr (src/Core/RefCountedPtr.h), for objects that count        *)
(* themselves.  A behaviour has pointers of one of the two kinds.          *)
(*                                                                         *)
(* Pointers are variables of the program (Roots) or the member "next" of   *)
(* an object: place o in Objects is the member of object o.  One that is   *)
(* not constructed yet, or already destroyed, is a null one.  A CONTROL is *)
(* named by its object: they are deleted together.  An object is given to  *)
(* SharedPtr once, as a raw pointer must be.                               *)
(*                                                                         *)
(* The assignments read the right-hand pointer, and that of SharedPtr what *)
(* it points to, after the Release of the left-hand one.  When that        *)
(* Release deletes what they read, as in p = p->next, the program is       *)
(* "broken" by them: what happens then is undefined.                       *)
(***************************************************************************)
EXTENDS Integers, FiniteSets

CONSTANTS Roots, Objects, NULL,
          MaxRefs  \* bound on the references to an object

VARIABLES kind,  \* "shared" or "counted"
          ptr,   \* ptr[p]: the object p points to
          refs,  \* refs[o]: _nRef, or the object's own count; 0 when it is deleted
          raw,   \* raw[o]: references the program owns itself ("counted" only)
          broken \* the assignment, if any, that read what its Release had deleted

vars == <<kind, ptr, refs, raw, broken>>

Places == Roots \cup Objects
Alive(o) == refs[o] > 0

Count(o, added) == refs[o] + IF o = added THEN 1 ELSE 0

\* What one Release of h reaches, after an AddRef of "added": h, and while the
\* last reference goes the object its member points to, and so on.
Released(h, added) ==
  LET at[k \in 0 .. Cardinality(Objects)] ==
        IF k = 0 THEN h
        ELSE IF at[k - 1] # NULL /\ Count(at[k - 1], added) = 1 THEN ptr[at[k - 1]] ELSE NULL
  IN {at[k] : k \in DOMAIN at} \ {NULL}
Deleted(h, added) == {o \in Released(h, added) : Count(o, added) = 1}

\* p gets v, the pointers of "null" become null, a reference to "added" is added
\* and one to h is released.
Set(p, v, null, h, added) ==
  /\ refs' = [o \in Objects |-> Count(o, added) - IF o \in Released(h, added) THEN 1 ELSE 0]
  /\ ptr' = [x \in Places |->
       IF x \in Deleted(h, added) \cup (null \ {p}) THEN NULL ELSE IF x = p THEN v ELSE ptr[x]]
  /\ UNCHANGED broken

\* A program reaches its variables, what it has a raw reference to, and the
\* members of the objects those lead to.
Reach(S) ==
  LET step[k \in 0 .. Cardinality(Objects)] ==
        IF k = 0 THEN S
        ELSE step[k - 1] \cup ({ptr[x] : x \in step[k - 1]} \ {NULL})
  IN step[Cardinality(Objects)]
Owned == Roots \cup {o \in Objects : raw[o] > 0}
Usable(p) == p \in Reach(Owned)

\* The mutant of RefCountedPtr releases first, as SharedPtr does.
Outlives_First(q, h) == q \notin Deleted(h, NULL) /\ ptr[q] \notin Deleted(h, NULL)

\* RefCountedPtr adds the new reference before it releases the old one, SharedPtr
\* after that.
Outlives(q, h) ==
  /\ q \notin Deleted(h, IF kind = "counted" THEN ptr[q] ELSE NULL)
  /\ kind = "shared" => ptr[q] \notin Deleted(h, NULL)
Break(p, q) == broken' = {<<p, q>>} /\ UNCHANGED <<ptr, refs>>

\* A new object, in a "shared" pointer (constructor or assignment) or as a
\* reference the program owns.
New(p, o) ==
  /\ ~Alive(o) /\ Usable(p)
  /\ \/ kind = "shared" /\ Set(p, o, {}, ptr[p], o) /\ UNCHANGED raw
     \/ kind = "counted" /\ refs' = [refs EXCEPT ![o] = 1] /\ raw' = [raw EXCEPT ![o] = 1] /\ UNCHANGED <<ptr, broken>>
  /\ UNCHANGED kind

\* Copy constructor.
Copy(p, q) ==
  /\ Usable(p) /\ Usable(q) /\ p # q /\ ptr[p] = NULL /\ ptr[q] # NULL
  /\ refs[ptr[q]] < MaxRefs
  /\ Set(p, ptr[q], {}, NULL, ptr[q])
  /\ UNCHANGED <<kind, raw>>

\* Move constructor.
Move(p, q) ==
  /\ Usable(p) /\ Usable(q) /\ p # q /\ ptr[p] = NULL /\ ptr[q] # NULL
  /\ Set(p, ptr[q], {q}, NULL, NULL)
  /\ UNCHANGED <<kind, raw>>

\* Destructor, and the assignment of a null pointer.
Destroy(p) ==
  /\ Usable(p) /\ ptr[p] # NULL
  /\ Set(p, NULL, {}, ptr[p], NULL)
  /\ UNCHANGED <<kind, raw>>

\* The mutant forgets the AddRef when a null pointer is assigned to.
Assign_NoAddRef(p, q) ==
  /\ Usable(p) /\ Usable(q) /\ (ptr[q] # NULL => refs[ptr[q]] < MaxRefs)
  /\ \/ Outlives(q, ptr[p]) /\ Set(p, ptr[q], {}, ptr[p], IF ptr[p] = NULL THEN NULL ELSE ptr[q])
     \/ ~Outlives(q, ptr[p]) /\ Break(p, q)
  /\ UNCHANGED <<kind, raw>>

\* Copy assignment.
Assign(p, q) ==
  /\ Usable(p) /\ Usable(q) /\ (ptr[q] # NULL => refs[ptr[q]] < MaxRefs)
  /\ \/ Outlives(q, ptr[p]) /\ Set(p, ptr[q], {}, ptr[p], ptr[q])
     \/ ~Outlives(q, ptr[p]) /\ Break(p, q)
  /\ UNCHANGED <<kind, raw>>

\* Move assignment.  SharedPtr looks whether it is moved to itself; RefCountedPtr
\* compares the objects: when they are the same it releases nothing, so one
\* reference is lost, and moved to itself it becomes null.
MoveAssign(p, q) ==
  LET h == IF kind = "counted" /\ ptr[p] = ptr[q] THEN NULL ELSE ptr[p]
  IN  /\ Usable(p) /\ Usable(q) /\ (kind = "shared" => p # q)
      /\ \/ q \notin Deleted(h, NULL) /\ Set(p, IF p = q THEN NULL ELSE ptr[q], {q}, h, NULL)
         \/ q \in Deleted(h, NULL) /\ Break(p, q)
      /\ UNCHANGED <<kind, raw>>

\* A raw pointer is assigned, with the reference the program owns: when it is the
\* same object nothing is released and that reference is lost.  The constructor
\* and a function given the address of a null pointer adopt one the same way.
Adopt(p, o) ==
  /\ kind = "counted" /\ Usable(p) /\ raw[o] > 0
  /\ raw' = [raw EXCEPT ![o] = @ - 1]
  /\ Set(p, o, {}, IF ptr[p] = o THEN NULL ELSE ptr[p], NULL)
  /\ UNCHANGED kind

Detach(p) ==
  /\ kind = "counted" /\ Usable(p) /\ ptr[p] # NULL
  /\ raw' = [raw EXCEPT ![ptr[p]] = @ + 1]
  /\ Set(p, NULL, {}, NULL, NULL)
  /\ UNCHANGED kind

\* The program releases a reference it owns.
Release(o) ==
  /\ kind = "counted" /\ raw[o] > 0
  /\ raw' = [raw EXCEPT ![o] = @ - 1]
  /\ \E p \in Roots : Set(p, ptr[p], {}, o, NULL)
  /\ UNCHANGED kind

Init ==
  /\ kind \in {"shared", "counted"}
  /\ ptr = [p \in Places |-> NULL] /\ refs = [o \in Objects |-> 0] /\ raw = [o \in Objects |-> 0]
  /\ broken = {}

Next ==
  /\ broken = {}
  /\ \/ \E p \in Places : Destroy(p) \/ Detach(p) \/ \E o \in Objects : New(p, o) \/ Adopt(p, o)
     \/ \E p, q \in Places : Copy(p, q) \/ Move(p, q) \/ Assign(p, q) \/ MoveAssign(p, q)
     \/ \E o \in Objects : Release(o)

Spec == Init /\ [][Next]_vars
----------------------------------------------------------------------------
TypeOK ==
  /\ ptr \in [Places -> Objects \cup {NULL}]
  /\ refs \in [Objects -> 0 .. MaxRefs] /\ raw \in [Objects -> 0 .. MaxRefs]

Holders(o) == Cardinality({p \in Places : ptr[p] = o}) + raw[o]

\* There is no way to q but through p: the places of Z hold what the program owns and,
\* but for p, only lead to one another.
OnlyThrough(p, q) ==
  \E Z \in SUBSET Places :
    Owned \subseteq Z /\ q \notin Z /\ \A x \in Z \ {p} : ptr[x] \in Z \cup {NULL}

\* No pointer leads to a deleted object: the count is the number of pointers, and
\* for RefCountedPtr, which loses references, no less.  A SharedPtr object that no
\* variable leads to is kept alive by a cycle.  An assignment breaks the program only
\* if it is the last way to its right-hand side that it overwrites: p = p->next, and
\* p = p for a SharedPtr that holds the last reference.
NoneDangling ==
  /\ \A o \in Objects : Holders(o) <= refs[o] /\ (kind = "shared" => refs[o] = Holders(o))
  /\ \A o \in Objects : ptr[o] # NULL => Alive(o)
  /\ \A e \in broken :
       IF e[1] = e[2] THEN kind = "shared" /\ refs[ptr[e[1]]] = 1 ELSE OnlyThrough(e[1], e[2])
  /\ kind = "shared" => \A o \in Objects : Alive(o) =>
       \/ o \in Reach(Roots)
       \/ \E c \in Objects : Alive(c) /\ ptr[c] # NULL /\ c \in Reach({ptr[c]}) /\ o \in Reach({c})
=============================================================================
