---------------------------- MODULE ListRegister ----------------------------
(***************************************************************************)
(* What Threading/CowList.h promises: the writer edits a list of its own   *)
(* and publishes it whole, never in the middle of a batch; the reader      *)
(* takes the list published last in one step.                              *)
(***************************************************************************)
VARIABLES
  work,       \* the writer's list
  open,       \* whether a batch is open
  published,  \* the list published last
  view        \* the list the reader took last

vars == <<work, open, published, view>>

Init == work = <<>> /\ published = <<>> /\ view = <<>> /\ open = FALSE
Edit == UNCHANGED <<open, published, view>>
Batch == open' \in BOOLEAN /\ UNCHANGED <<work, published, view>>
Publish == ~open /\ published' = work /\ UNCHANGED <<work, open, view>>
Take == view' = published /\ UNCHANGED <<work, open, published>>
Reset == work' = <<>> /\ published' = <<>> /\ view' = <<>> /\ ~open /\ UNCHANGED open
Next == Edit \/ Batch \/ Publish \/ Take \/ Reset
Spec == Init /\ [][Next]_vars
=============================================================================
