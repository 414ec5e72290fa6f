------------------------------ MODULE BatchFifo ------------------------------
(***************************************************************************)
(* What MpmcLinkedQueue promises: nodes are appended one at a time, and a  *)
(* reader takes all of them in one step, oldest first.                     *)
(***************************************************************************)
EXTENDS Naturals, Sequences

CONSTANTS Threads, Nodes

VARIABLES
  queue,  \* the nodes written and not read, oldest first
  batch   \* what the call of ReadAll of each thread returns

avars == <<queue, batch>>

AInit == queue = <<>> /\ batch = [t \in Threads |-> <<>>]

AWrite(n) ==
  /\ \A i \in DOMAIN queue : queue[i] # n
  /\ queue' = Append(queue, n)
  /\ UNCHANGED batch

AReadAll(t) ==
  /\ batch[t] = <<>>
  /\ batch' = [batch EXCEPT ![t] = queue]
  /\ queue' = <<>>

AReturn(t) ==
  /\ batch' = [batch EXCEPT ![t] = <<>>]
  /\ UNCHANGED queue

AReset ==
  /\ batch = [t \in Threads |-> <<>>]
  /\ queue' = <<>>
  /\ UNCHANGED batch

ANext ==
  \/ \E n \in Nodes : AWrite(n)
  \/ \E t \in Threads : AReadAll(t) \/ AReturn(t)
  \/ AReset

ASpec == AInit /\ [][ANext]_avars
=============================================================================
