--------------------------- MODULE SnapshotRegister ---------------------------
(***************************************************************************)
(* What CowListWops promises: the writer edits a list of its own and       *)
(* publishes it whole, the reader takes the list last published in one     *)
(* step and is told exactly what came and went since it last looked.       *)
(***************************************************************************)
EXTENDS Sequences, SequencesExt, Bags

CONSTANTS Items, MaxLen

VARIABLES
  work,       \* the writer's list
  published,  \* the list last published
  view,       \* the list the reader took last
  added,      \* the bag of items in view and not in the view before
  removed     \* the bag of items not in view and in the view before

avars == <<work, published, view, added, removed>>

Lists == UNION {[1 .. n -> Items] : n \in 0 .. MaxLen}

AInit ==
  /\ work = <<>> /\ published = <<>> /\ view = <<>>
  /\ added = EmptyBag /\ removed = EmptyBag

Edit ==
  /\ work' \in Lists
  /\ UNCHANGED <<published, view, added, removed>>

Publish ==
  /\ published' = work
  /\ UNCHANGED <<work, view, added, removed>>

Snapshot ==
  /\ view' = published
  /\ added' = ToBag(published) (-) ToBag(view)
  /\ removed' = ToBag(view) (-) ToBag(published)
  /\ UNCHANGED <<work, published>>

ANext == Edit \/ Publish \/ Snapshot
ASpec == AInit /\ [][ANext]_avars
=============================================================================
