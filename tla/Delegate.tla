------------------------------ MODULE Delegate ------------------------------
(***************************************************************************)
(* Delegate (src/Core/Delegate.h): a callable with its type erased, in the *)
(* delegate itself ("inline") or on the heap.  All delegates of a          *)
(* behaviour are of one kind.  One that is not constructed, or destroyed,  *)
(* is an empty one.                                                        *)
(*                                                                         *)
(* Callables do not throw: a copy that throws in copyFrom leaves the       *)
(* function pointers set and nothing behind them.  Only valid delegates    *)
(* are called.                                                             *)
(***************************************************************************)
EXTENDS Integers, FiniteSets, Functions

CONSTANTS Delegates, Blocks, \* places for callables: inline storage, heap
          States, Called(_), \* what a callable captured, and what a call makes of it
          NULL

VARIABLES kind,    \* "inline" or "heap"
          set,     \* set[d]: m_invoke, m_destroy, m_copy and m_move are
          storage, \* storage[d]: m_storage of the heap kind
          object   \* object[x]: the callable at a place, NULL where there is none

vars == <<kind, set, storage, object>>

Places == Delegates \cup Blocks
Place(d) == IF kind = "inline" THEN d ELSE storage[d]

\* destroy: the callable of d, if there is one, goes.
Destroyed(d) ==
  IF set[d] /\ Place(d) # NULL THEN [object EXCEPT ![Place(d)] = NULL] ELSE object

\* A place for a new callable of d: its own storage, or what new returns.
NewPlaces(d) == IF kind = "inline" THEN {d} ELSE {b \in Blocks : Destroyed(d)[b] = NULL}
Stored(d, x) == IF kind = "inline" THEN storage[d] ELSE x

Emptied(d) ==
  /\ set' = [set EXCEPT ![d] = FALSE]
  /\ storage' = [storage EXCEPT ![d] = NULL]
  /\ object' = Destroyed(d)

\* Delegate(F f)
Construct(d, s) ==
  /\ ~set[d]
  /\ \E x \in NewPlaces(d) :
       /\ object' = [object EXCEPT ![x] = s]
       /\ storage' = [storage EXCEPT ![d] = Stored(d, x)]
  /\ set' = [set EXCEPT ![d] = TRUE]
  /\ UNCHANGED kind

\* destroy and then copyFrom: the copy constructor when d is empty, otherwise the
\* copy assignment, which does nothing to itself.
Copy(d, e) ==
  /\ d # e
  /\ IF ~set[e] THEN Emptied(d)
     ELSE \E x \in NewPlaces(d) :
            /\ object' = [Destroyed(d) EXCEPT ![x] = object[Place(e)]]
            /\ storage' = [storage EXCEPT ![d] = Stored(d, x)]
            /\ set' = [set EXCEPT ![d] = TRUE]
  /\ UNCHANGED kind

\* The mutant steals the pointer and leaves it in the other one too.
MoveFrom_Kept(d, e) ==
  IF kind = "inline"
  THEN /\ object' = [Destroyed(d) EXCEPT ![d] = object[e], ![e] = NULL]
       /\ UNCHANGED storage
  ELSE object' = Destroyed(d) /\ storage' = [storage EXCEPT ![d] = storage[e]]

\* moveFrom, after destroy: an inline callable moves to the other place and is
\* destroyed where it was, one on the heap stays where it is.
MoveFrom(d, e) ==
  IF kind = "inline"
  THEN /\ object' = [Destroyed(d) EXCEPT ![d] = object[e], ![e] = NULL]
       /\ UNCHANGED storage
  ELSE object' = Destroyed(d) /\ storage' = [storage EXCEPT ![d] = storage[e], ![e] = NULL]

\* The move constructor and the move assignment.
Move(d, e) ==
  /\ d # e
  /\ MoveFrom(d, e)
  /\ set' = [set EXCEPT ![d] = set[e], ![e] = FALSE]
  /\ UNCHANGED kind

\* The destructor and the assignment of nullptr.
Destroy(d) == set[d] /\ Emptied(d) /\ UNCHANGED kind

\* operator() casts const away: the callable may change what it captured.
Call(d) ==
  /\ set[d]
  /\ object' = [object EXCEPT ![Place(d)] = Called(@)]
  /\ UNCHANGED <<kind, set, storage>>

Init ==
  /\ kind \in {"inline", "heap"}
  /\ set = [d \in Delegates |-> FALSE]
  /\ storage = [d \in Delegates |-> NULL]
  /\ object = [x \in Places |-> NULL]

Next ==
  \/ \E d \in Delegates : Destroy(d) \/ Call(d) \/ \E s \in States : Construct(d, s)
  \/ \E d, e \in Delegates : Copy(d, e) \/ Move(d, e)

Spec == Init /\ [][Next]_vars
----------------------------------------------------------------------------
TypeOK ==
  /\ set \in [Delegates -> BOOLEAN] /\ storage \in [Delegates -> Blocks \cup {NULL}]
  /\ object \in [Places -> States \cup {NULL}]

\* Every callable belongs to one delegate, and a valid delegate has one: none is
\* destroyed twice, leaked or called after it is destroyed.
OneOwnerEach ==
  LET valid == {d \in Delegates : set[d]}
  IN /\ {x \in Places : object[x] # NULL} = {Place(d) : d \in valid}
     /\ IsInjective([d \in valid |-> Place(d)])
     /\ \A d \in Delegates \ valid : storage[d] = NULL

\* Delegates implement cells that hold callables by value.
Values == [d \in Delegates |-> IF set[d] THEN object[Place(d)] ELSE NULL]
Cells == INSTANCE CallableCells WITH Cells <- Delegates, EMPTY <- NULL, cell <- Values
ImplementsCells == Cells!Spec
=============================================================================
