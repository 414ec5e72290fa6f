--------------------------- MODULE CallableCells ---------------------------
(***************************************************************************)
(* What delegates promise: each is empty or holds a callable of its own,   *)
(* by value.  States are what the callable remembers between calls.        *)
(***************************************************************************)
CONSTANTS Cells, States, EMPTY, Called(_)

VARIABLE cell

Init == cell = [c \in Cells |-> EMPTY]

Put(c, s) == cell' = [cell EXCEPT ![c] = s]
Take(c, d) == c # d /\ cell' = [cell EXCEPT ![c] = cell[d], ![d] = EMPTY]
Call(c) == cell[c] # EMPTY /\ Put(c, Called(cell[c]))

Next ==
  \/ \E c \in Cells, s \in States : cell[c] = EMPTY /\ Put(c, s)
  \/ \E c \in Cells : Put(c, EMPTY) \/ Call(c)
  \/ \E c, d \in Cells : Put(c, cell[d]) \/ Take(c, d)

Spec == Init /\ [][Next]_cell
=============================================================================
