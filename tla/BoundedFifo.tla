----------------------------- MODULE BoundedFifo -----------------------------
(***************************************************************************)
(* What a bounded queue of Threading/ promises its callers, with no cells, *)
(* positions or sequence numbers: Put appends an element in one step, Take *)
(* removes the oldest one in one step, and a thread then holds the element *)
(* it took, unchanged, until its call returns.                             *)
(***************************************************************************)
EXTENDS Naturals, Sequences

CONSTANTS
  Threads,  \* the callers
  Values,   \* the elements
  None,     \* no element
  Limits    \* the capacities a queue may be reset to

VARIABLES
  limit,    \* most elements the queue holds
  items,    \* the elements, oldest first
  hand      \* the element each thread took and has not returned yet, or None

avars == <<limit, items, hand>>

AInit ==
  /\ limit \in Limits
  /\ items = <<>>
  /\ hand = [t \in Threads |-> None]

Put(v) ==
  /\ Len(items) < limit
  /\ items' = Append(items, v)
  /\ UNCHANGED <<limit, hand>>

Take(t) ==
  /\ items # <<>> /\ hand[t] = None
  /\ hand' = [hand EXCEPT ![t] = Head(items)]
  /\ items' = Tail(items)
  /\ UNCHANGED limit

Return(t) ==
  /\ hand[t] # None
  /\ hand' = [hand EXCEPT ![t] = None]
  /\ UNCHANGED <<limit, items>>

Clear(c) ==
  /\ hand = [t \in Threads |-> None]
  /\ limit' = c
  /\ items' = <<>>
  /\ UNCHANGED hand

ANext ==
  \/ \E v \in Values : Put(v)
  \/ \E t \in Threads : Take(t) \/ Return(t)
  \/ \E c \in Limits : Clear(c)

ASpec == AInit /\ [][ANext]_avars
=============================================================================
