----------------------------- MODULE PtrTransfer -----------------------------
(***************************************************************************)
(* What AtomicPtrTransfer promises: a slot for the newest object sent and  *)
(* a set of objects on their way back, and one owner for every object.     *)
(***************************************************************************)
CONSTANTS Objects, NULL

VARIABLES
  slot,    \* the object sent and not yet received, or NULL
  back,    \* the objects returned and not yet reclaimed
  mine,    \* the sender's objects
  theirs   \* the receiver's objects

avars == <<slot, back, mine, theirs>>

AInit == slot = NULL /\ back = {} /\ mine = {} /\ theirs = {}

\* the sender makes an object
AMake(p) ==
  /\ p \notin mine \union theirs \union back /\ p # slot
  /\ mine' = mine \union {p}
  /\ UNCHANGED <<slot, back, theirs>>

\* The newest object wins: the one it replaces goes to the sender or is gone.
ASend(p) ==
  /\ p \in mine
  /\ slot' = p
  /\ mine' \in {mine \ {p}, (mine \ {p}) \union ({slot} \ {NULL})}
  /\ UNCHANGED <<back, theirs>>

AReceive ==
  /\ slot # NULL
  /\ theirs' = theirs \union {slot}
  /\ slot' = NULL
  /\ UNCHANGED <<back, mine>>

AReturn(p) ==
  /\ p \in theirs
  /\ theirs' = theirs \ {p}
  /\ back' = back \union {p}
  /\ UNCHANGED <<slot, mine>>

\* an object handed back is the sender's again, or is gone
AReclaim(p) ==
  /\ p \in back
  /\ back' = back \ {p}
  /\ mine' \in {mine, mine \union {p}}
  /\ UNCHANGED <<slot, theirs>>

\* destruction: what is on its way in either direction is gone, what the
\* receiver has is its own affair
ADestroy ==
  /\ slot' = NULL /\ back' = {} /\ theirs' = {}
  /\ UNCHANGED mine

ANext ==
  \/ \E p \in Objects : AMake(p) \/ ASend(p) \/ AReturn(p) \/ AReclaim(p)
  \/ AReceive \/ ADestroy

ASpec == AInit /\ [][ANext]_avars
=============================================================================
